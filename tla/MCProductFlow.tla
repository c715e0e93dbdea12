--------------------------- MODULE MCProductFlow ---------------------------
(***************************************************************************)
(* ProductFlow with two commands at a time, two tasks and two wallets.     *)
(***************************************************************************)
EXTENDS ProductFlow
CONSTANTS c1, c2, t1, t2, me, other, home, away

MyTasks == {[task |-> t, wallet |-> me] : t \in {t1, t2}}

\* A bare submit, one that names everything, and one for a wallet of another key.
MySubmits ==
  {[task |-> t1, id |-> Unset, key |-> me, wallet |-> Unset, domain |-> Unset],
   [task |-> t1, id |-> 1, key |-> me, wallet |-> me, domain |-> home],
   [task |-> t1, id |-> 2, key |-> me, wallet |-> other, domain |-> Unset]}
=============================================================================
