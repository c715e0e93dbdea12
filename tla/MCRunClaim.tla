----------------------------- MODULE MCRunClaim -----------------------------
(***************************************************************************)
(* RunClaim on a small deployment: one job file, a watcher and one or two  *)
(* operators, each in a process of its own as the command line has it.     *)
(***************************************************************************)
EXTENDS RunClaim, TLC

CONSTANTS p1, p2, p3, w1, o1, o2, j1

TwoOperators == (w1 :> p1) @@ (o1 :> p2) @@ (o2 :> p3)

OneOperator == (w1 :> p1) @@ (o1 :> p2)
=============================================================================
