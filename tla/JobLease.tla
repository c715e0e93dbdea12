------------------------------ MODULE JobLease ------------------------------
(***************************************************************************)
(* What the run claim promises to the handlers and to the operator: a job  *)
(* is lent to one executor at a time, a settled job is not lent, and a     *)
(* verdict stands until an operator reopens the job, which no operator can *)
(* do while the job is out.  Claims, pids, guards and retries of the       *)
(* writes are how RunClaim keeps this promise.                             *)
(***************************************************************************)
CONSTANTS
  Jobs, Executors,
  Unhandled   \* may an executor without handler close a job that is out?

VARIABLES
  runners,    \* the executors that run each job
  settled     \* the jobs that have their verdict

lease == <<runners, settled>>

Init ==
  /\ runners = [j \in Jobs |-> {}]
  /\ settled = {}

Take(e, j) ==
  /\ \A k \in Jobs : e \notin runners[k]
  /\ runners[j] = {}
  /\ j \notin settled
  /\ runners' = [runners EXCEPT ![j] = {e}]
  /\ UNCHANGED settled

\* A run ends with a verdict or without one, or dies.  It takes none back.
Return(e, j) ==
  /\ e \in runners[j]
  /\ runners' = [runners EXCEPT ![j] = @ \ {e}]
  /\ settled' \in {settled, settled \cup {j}}

Close(j) ==
  /\ runners[j] = {} \/ Unhandled
  /\ settled' = settled \cup {j}
  /\ UNCHANGED runners

Reopen(j) ==
  /\ runners[j] = {}
  /\ settled' = settled \ {j}
  /\ UNCHANGED runners

Next ==
  \E j \in Jobs :
    \/ \E e \in Executors : Take(e, j) \/ Return(e, j)
    \/ Close(j) \/ Reopen(j)

Spec == Init /\ [][Next]_lease
=============================================================================
