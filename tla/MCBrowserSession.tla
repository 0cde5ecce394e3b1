--------------------------- MODULE MCBrowserSession ---------------------------
(* BrowserSession for TLC. *)
EXTENDS BrowserSession
=============================================================================
