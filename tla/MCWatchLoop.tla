---------------------------- MODULE MCWatchLoop ----------------------------
(***************************************************************************)
(* WatchLoop with one or two logs and two watchers.                        *)
(***************************************************************************)
EXTENDS WatchLoop
CONSTANTS l1, l2, w1, w2
=============================================================================
