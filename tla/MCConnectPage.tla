--------------------------- MODULE MCConnectPage ------------------------------
(* ConnectPage for TLC. *)
EXTENDS ConnectPage
=============================================================================
