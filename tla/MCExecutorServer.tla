-------------------------- MODULE MCExecutorServer --------------------------
(***************************************************************************)
(* ExecutorServer with one order and two hooks.  The second asks for a     *)
(* signal of the first, as a repeated dispatch would, and for one whose    *)
(* key is configured.                                                      *)
(***************************************************************************)
EXTENDS ExecutorServer
CONSTANTS r1, r2, d1, d2, o1, h1, h2, a, b, c, k
OneOrder == [id \in {d1, d2} |-> [order |-> o1, hook |-> IF id = d1 THEN h1 ELSE h2]]
Handlers == [hook \in {h1, h2} |->
  IF hook = h1 THEN <<[signal |-> a, key |-> NoKey], [signal |-> b, key |-> NoKey]>>
               ELSE <<[signal |-> a, key |-> NoKey], [signal |-> c, key |-> k]>>]
=============================================================================
