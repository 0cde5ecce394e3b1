----------------------------- MODULE MCScanJobs -----------------------------
(* ScanJobs for TLC.  Jobs are interchangeable names, so their permutations *)
(* are symmetries of the safety run.                                        *)
EXTENDS ScanJobs, TLC

JobSymmetry == Permutations(Jobs)
=============================================================================
