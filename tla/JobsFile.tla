------------------------------ MODULE JobsFile ------------------------------
(***************************************************************************)
(* The jobs file shared by processes: the read-modify-write cycle of       *)
(* FileStateMachineJobStore (watcher/storage/file.ts) under the marker     *)
(* file of withJobsFileLock (watcher/storage/lock.ts).                     *)
(*                                                                         *)
(* Every file-system call is one step.  A call of the store that does not  *)
(* write (a compare-and-set miss, an existing job) passes through the same *)
(* lock.  get() and list() read without the lock; a rename makes what they *)
(* see one whole version of the file.                                      *)
(***************************************************************************)
EXTENDS Naturals, FiniteSets

CONSTANTS
  Writers,     \* sequential callers, in one process or in several
  NoWriter,
  Faults,      \* the failures of this deployment, by name
  WriteBound   \* model bound on the writes of each caller

\* A process started after a crash is a caller that has not called yet.
FaultNames == {"crash",  \* a caller's process dies
               "slow",   \* a caller may hold the lock past the stale age
               "io"}     \* a marker may stay without its pid, or against its removal

ASSUME JobsFileAssumption ==
  /\ NoWriter \notin Writers
  /\ WriteBound \in Nat
  /\ Faults \subseteq FaultNames

VARIABLES
  lock,      \* the marker file: who made it, and is it past the stale age?
  content,   \* the jobs file: how many updates of each caller it shows
  caller,    \* the locals of each caller
  written    \* history: the updates each caller has written

vars == <<lock, content, caller, written>>

NoLock == [by |-> NoWriter, stale |-> FALSE]

Nothing == [w \in Writers |-> 0]

Init ==
  /\ lock = NoLock
  /\ content = Nothing
  /\ caller = [w \in Writers |-> [pc |-> "idle", base |-> Nothing]]
  /\ written = Nothing

At(w, stage) == caller[w].pc = stage

Goto(w, stage) == caller' = [caller EXCEPT ![w].pc = stage]

Call(w) ==
  /\ At(w, "idle")
  /\ Goto(w, "create")
  /\ UNCHANGED <<lock, content, written>>

\* Bug: the marker is not created exclusively.
CreateFree == TRUE

LockIsFree == lock = NoLock

CreateLock(w) ==
  /\ At(w, "create")
  /\ LockIsFree
  /\ lock' = [by |-> w, stale |-> FALSE]
  /\ Goto(w, "read")
  /\ UNCHANGED <<content, written>>

\* No marker can be made, or it is made and its pid cannot be written: the call
\* throws, and a marker without a pid stays.
CreateLockFails(w) ==
  /\ At(w, "create")
  /\ LockIsFree
  /\ \/ UNCHANGED lock
     \/ "io" \in Faults /\ lock' = [by |-> w, stale |-> FALSE]
  /\ Goto(w, "idle")
  /\ UNCHANGED <<content, written>>

LockExists(w) ==
  /\ At(w, "create")
  /\ ~LockIsFree
  /\ Goto(w, "stat")
  /\ UNCHANGED <<lock, content, written>>

\* Bug: a marker is never taken for stale.
NeverStale == FALSE

IsStaleJobsFileLock == lock # NoLock /\ lock.stale

StatLock(w) ==
  /\ At(w, "stat")
  /\ Goto(w, IF IsStaleJobsFileLock THEN "break" ELSE "wait")
  /\ UNCHANGED <<lock, content, written>>

\* Whatever marker is there now is removed; a failure is swallowed.
RemoveMarker ==
  \/ lock' = NoLock
  \/ "io" \in Faults /\ UNCHANGED lock

BreakLock(w) ==
  /\ At(w, "break")
  /\ RemoveMarker
  /\ Goto(w, "create")
  /\ UNCHANGED <<content, written>>

\* Wait and try again, or give up at the deadline.
WaitForLock(w) ==
  /\ At(w, "wait")
  /\ \E stage \in {"create", "idle"} : Goto(w, stage)
  /\ UNCHANGED <<lock, content, written>>

ReadFile(w) ==
  /\ At(w, "read")
  /\ caller' = [caller EXCEPT ![w] = [pc |-> "write", base |-> content]]
  /\ UNCHANGED <<lock, content, written>>

\* Bug: a caller keeps what it wrote as the base of its next write.
WriteFileAndKeep(w) ==
  /\ At(w, "write")
  /\ written[w] < WriteBound
  /\ content' = [caller[w].base EXCEPT ![w] = @ + 1]
  /\ written' = [written EXCEPT ![w] = @ + 1]
  /\ caller' = [caller EXCEPT ![w] = [pc |-> "unlock", base |-> content']]
  /\ UNCHANGED lock

\* The temporary file replaces the jobs file in one rename.
WriteFile(w) ==
  /\ At(w, "write")
  /\ written[w] < WriteBound
  /\ content' = [caller[w].base EXCEPT ![w] = @ + 1]
  /\ written' = [written EXCEPT ![w] = @ + 1]
  /\ caller' = [caller EXCEPT ![w] = [pc |-> "unlock", base |-> Nothing]]
  /\ UNCHANGED lock

\* No write: a guard of the patch does not hold, or the write throws.
LeaveFile(w) ==
  /\ At(w, "write")
  /\ caller' = [caller EXCEPT ![w] = [pc |-> "unlock", base |-> Nothing]]
  /\ UNCHANGED <<lock, content, written>>

Unlock(w) ==
  /\ At(w, "unlock")
  /\ RemoveMarker
  /\ Goto(w, "idle")
  /\ UNCHANGED <<content, written>>

Crash(w) ==
  /\ "crash" \in Faults
  /\ ~At(w, "dead")
  /\ caller' = [caller EXCEPT ![w] = [pc |-> "dead", base |-> Nothing]]
  /\ UNCHANGED <<lock, content, written>>

Critical == {"read", "write", "unlock"}

\* A marker passes the stale age: its maker is gone, or slower than that.
Age ==
  /\ lock # NoLock /\ ~lock.stale
  /\ caller[lock.by].pc \notin Critical \/ "slow" \in Faults
  /\ lock' = [lock EXCEPT !.stale = TRUE]
  /\ UNCHANGED <<content, caller, written>>

CallerStep(w) ==
  \/ Call(w) \/ CreateLock(w) \/ CreateLockFails(w) \/ LockExists(w)
  \/ StatLock(w) \/ BreakLock(w)
  \/ WaitForLock(w) \/ ReadFile(w) \/ WriteFile(w) \/ LeaveFile(w) \/ Unlock(w)

Next ==
  \/ \E w \in Writers : CallerStep(w) \/ Crash(w)
  \/ Age

Spec == Init /\ [][Next]_vars

\* Callers that live keep calling and make progress, time passes, and no
\* marker refuses to be made or removed for ever.
FairSpec ==
  /\ Spec
  /\ WF_vars(Age)
  /\ \A w \in Writers :
       /\ WF_vars(CallerStep(w))
       /\ SF_vars(BreakLock(w) /\ lock' = NoLock)
       /\ SF_vars(CreateLock(w))

(***************************************************************************)
(* Properties.                                                             *)
(***************************************************************************)
Stages == Critical \cup {"idle", "create", "stat", "break", "wait", "dead"}

\* No count passes the number of writes a caller may make, and a caller holds
\* a copy of the file from its read to its write, never longer.
TypeOK ==
  /\ lock \in [by : Writers \cup {NoWriter}, stale : BOOLEAN]
  /\ content \in [Writers -> 0 .. WriteBound]
  /\ written \in [Writers -> 0 .. WriteBound]
  /\ caller \in [Writers -> [pc : Stages, base : [Writers -> 0 .. WriteBound]]]
  /\ \A w \in Writers : ~At(w, "write") => caller[w].base = Nothing

\* Between a read of the file and the write based on it, no other caller is
\* between its own read and write.
OneWriterAtATime ==
  \A v, w \in Writers :
    caller[v].pc \in Critical /\ caller[w].pc \in Critical => v = w

\* The file under its lock is the atomic store the watcher is written against.
Store == INSTANCE AtomicStore WITH Writers <- Writers, content <- content
UpdatesAreAtomic == Store!Spec

\* "a crashed holder must not block the store forever" (the comment on the
\* stale age): the marker of a dead caller is removed, as long as one lives.
ResidueIsBroken ==
  \A v, w \in Writers :
    <>[](~At(w, "dead")) =>
      (lock.by = v /\ At(v, "dead") ~> ~(lock.by = v /\ At(v, "dead")))
=============================================================================
