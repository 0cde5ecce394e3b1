---------------------------- MODULE MCScanProgress ----------------------------
(* ScanProgress for TLC. *)
EXTENDS ScanProgress
=============================================================================
