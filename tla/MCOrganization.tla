--------------------------- MODULE MCOrganization ---------------------------
(* Organization for TLC. *)
EXTENDS Organization
=============================================================================
