----------------------------- MODULE MCJobsFile -----------------------------
(***************************************************************************)
(* Instances of JobsFile for TLC.                                          *)
(***************************************************************************)
EXTENDS JobsFile
CONSTANTS w1, w2
=============================================================================
