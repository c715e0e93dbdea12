---------------------------- MODULE MCWatcherLock ----------------------------
(***************************************************************************)
(* Instances of WatcherLock for TLC.                                       *)
(***************************************************************************)
EXTENDS WatcherLock
CONSTANTS p1, p2, p3
=============================================================================
