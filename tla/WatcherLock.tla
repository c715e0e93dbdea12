---------------------------- MODULE WatcherLock ----------------------------
(***************************************************************************)
(* The state-directory lock of the watcher commands:                       *)
(* acquireWatcherStateDirLock (watcher/storage/lock.ts) as chain-once and  *)
(* chain-watch use it (cli/commands/chain.ts), with the start/stop loop of *)
(* the watcher (watcher/watcher.ts).                                       *)
(*                                                                         *)
(* An instance is one process, started at most once, with a pid of its     *)
(* own.  Every file-system call, and the test of a pid, is one step.       *)
(***************************************************************************)
EXTENDS Naturals, FiniteSets

CONSTANTS
  Instances,
  NoInstance,
  Commands,   \* the commands this deployment starts
  Faults      \* the failures of this deployment, by name

FaultNames == {"crash",  \* a process dies, or SIGTERM comes before start() returns
               "io"}     \* writing or removing the lock file may fail

ASSUME WatcherLockAssumption ==
  /\ NoInstance \notin Instances
  /\ Commands \subseteq {"once", "watch"}
  /\ Faults \subseteq FaultNames

VARIABLES
  lock,     \* the lock file: who made it, does it hold the pid, is it old?
  proc      \* each process: where it is, its takeover attempts, the pid it
            \* read, its command, and is one of its rounds in flight?
            \* History, read by no action: who made the file it last judged.

vars == <<lock, proc>>

NoLock == [by |-> NoInstance, pid |-> NoInstance, old |-> FALSE]

MaxAttempts == 3

Unstarted == [pc |-> "off", attempt |-> 0, holder |-> NoInstance, judged |-> NoInstance,
              command |-> "once", polling |-> FALSE]

Init == lock = NoLock /\ proc = [p \in Instances |-> Unstarted]

At(p, stage) == proc[p].pc = stage

Become(p, r) == proc' = [proc EXCEPT ![p] = r]

Goto(p, stage) == Become(p, [proc[p] EXCEPT !.pc = stage])

\* The process ends; a round in flight is over with it.
Exit(p, stage) == Become(p, [Unstarted EXCEPT !.pc = stage])

Launch(p) ==
  /\ At(p, "off")
  /\ \E c \in Commands : Become(p, [Unstarted EXCEPT !.pc = "create", !.command = c])
  /\ UNCHANGED lock

-----------------------------------------------------------------------------
(* acquireWatcherStateDirLock.                                              *)

CreateLock(p) ==
  /\ At(p, "create")
  /\ lock = NoLock
  /\ lock' = [NoLock EXCEPT !.by = p]
  /\ Goto(p, "stamp")

\* The pid goes to the file this process made, wherever that is by now.
StampLock(p) ==
  /\ At(p, "stamp")
  /\ lock' = IF lock.by = p THEN [lock EXCEPT !.pid = p] ELSE lock
  /\ Become(p, [proc[p] EXCEPT !.pc = "first", !.polling = TRUE])

StampFails(p) ==
  /\ At(p, "stamp")
  /\ "io" \in Faults
  /\ Exit(p, "gone")
  /\ UNCHANGED lock

\* Bug: the number of takeovers is not limited.
AttemptsForever(p) == TRUE

MayTakeOver(p) == proc[p].attempt < MaxAttempts

LockExists(p) ==
  /\ At(p, "create")
  /\ lock # NoLock
  /\ IF MayTakeOver(p) THEN Goto(p, "read") ELSE Exit(p, "gone")
  /\ UNCHANGED lock

ReadHolder(p) ==
  /\ At(p, "read")
  /\ Become(p, [proc[p] EXCEPT !.pc = IF lock.pid = NoInstance THEN "stat" ELSE "probe",
                               !.holder = lock.pid, !.judged = lock.by])
  /\ UNCHANGED lock

\* Bug: the holder's pid is not tested.
NoneAlive(p) == FALSE

\* Bug: a pid once used counts as running.
EveryPidAlive(p) == TRUE

IsProcessAlive(p) == proc[p].pc \notin {"off", "gone", "dead"}

ProbeHolder(p) ==
  /\ At(p, "probe")
  /\ IF IsProcessAlive(proc[p].holder) THEN Exit(p, "gone") ELSE Goto(p, "takeover")
  /\ UNCHANGED lock

StatLock(p) ==
  /\ At(p, "stat")
  /\ IF lock # NoLock /\ lock.old
       THEN Become(p, [proc[p] EXCEPT !.pc = "takeover", !.judged = lock.by])
       ELSE Exit(p, "gone")
  /\ UNCHANGED lock

\* Whatever lock file is there now is removed; a failure is swallowed.
RemoveLock ==
  \/ lock' = NoLock
  \/ "io" \in Faults /\ UNCHANGED lock

TakeOver(p) ==
  /\ At(p, "takeover")
  /\ RemoveLock
  /\ Become(p, [proc[p] EXCEPT !.pc = "create", !.attempt = @ + 1,
                               !.holder = NoInstance, !.judged = NoInstance])

-----------------------------------------------------------------------------
(* The commands.                                                            *)

\* chain-once is done after one round, chain-watch when its first round
\* fails; otherwise start() schedules the next one.
FirstRoundEnds(p) ==
  /\ At(p, "first")
  /\ \/ Become(p, [proc[p] EXCEPT !.pc = "release", !.polling = FALSE])
     \/ /\ proc[p].command = "watch"
        /\ Become(p, [proc[p] EXCEPT !.pc = "watch", !.polling = FALSE])
  /\ UNCHANGED lock

Tick(p) ==
  /\ At(p, "watch")
  /\ ~proc[p].polling
  /\ Become(p, [proc[p] EXCEPT !.polling = TRUE])
  /\ UNCHANGED lock

RoundEnds(p) ==
  /\ proc[p].pc \in {"watch", "release", "drain"}
  /\ proc[p].polling
  /\ Become(p, [proc[p] EXCEPT !.polling = FALSE])
  /\ UNCHANGED lock

\* SIGINT or SIGTERM: handle.stop() clears the timer and resolves done; a
\* round in flight goes on.
Stop(p) ==
  /\ At(p, "watch")
  /\ Goto(p, "release")
  /\ UNCHANGED lock

Release(p) ==
  /\ At(p, "release")
  /\ RemoveLock
  /\ Goto(p, "drain")

\* Nothing is pending any more: the process ends.
Leave(p) ==
  /\ At(p, "drain")
  /\ ~proc[p].polling
  /\ Exit(p, "gone")
  /\ UNCHANGED lock

Crash(p) ==
  /\ "crash" \in Faults
  /\ IsProcessAlive(p)
  /\ Exit(p, "dead")
  /\ UNCHANGED lock

\* The file passes the stale age of ten seconds.  Nobody takes that long from
\* creating the file to writing its pid, or from reading it to its stat.
Age ==
  /\ lock # NoLock /\ ~lock.old
  /\ \A p \in Instances : ~At(p, "stamp") /\ ~At(p, "stat")
  /\ lock' = [lock EXCEPT !.old = TRUE]
  /\ UNCHANGED proc

InstanceStep(p) ==
  \/ CreateLock(p) \/ StampLock(p) \/ StampFails(p) \/ LockExists(p)
  \/ ReadHolder(p) \/ ProbeHolder(p) \/ StatLock(p) \/ TakeOver(p)
  \/ FirstRoundEnds(p) \/ RoundEnds(p) \/ Release(p) \/ Leave(p)

Next ==
  \/ \E p \in Instances :
       Launch(p) \/ InstanceStep(p) \/ Tick(p) \/ Stop(p) \/ Crash(p)
  \/ Age

Spec == Init /\ [][Next]_vars

\* A started process goes on.  Nobody has to start, stop or kill one.
FairSpec == Spec /\ \A p \in Instances : WF_vars(InstanceStep(p))

(***************************************************************************)
(* Properties.                                                             *)
(***************************************************************************)
TypeOK ==
  /\ lock \in [by : Instances \cup {NoInstance}, pid : Instances \cup {NoInstance},
               old : BOOLEAN]
  /\ proc \in [Instances ->
                 [pc : {"off", "create", "stamp", "read", "probe", "stat", "takeover",
                        "first", "watch", "release", "drain", "gone", "dead"},
                  attempt : 0 .. MaxAttempts, holder : Instances \cup {NoInstance},
                  judged : Instances \cup {NoInstance}, command : {"once", "watch"}, polling : BOOLEAN]]

\* "concurrent watchers must not share one state dir" (the refusal in
\* lock.ts): the rounds of two processes never overlap.
OneWatcher ==
  \A p, q \in Instances : proc[p].polling /\ proc[q].polling => p = q

\* A process holds the lock from its creation to its release.
HoldersHold ==
  \A p \in Instances : proc[p].pc \in {"stamp", "first", "watch", "release"} => lock.by = p

\* "Held for the process lifetime in file mode" (cli/watcher.ts): whoever made the
\* lock file keeps it until its own release, over any number of starts.  The one
\* way to lose it is a takeover that judged another file: the lock may change
\* hands between the test of its pid and the removal, which names no file.
LockLostOnlyToStaleTakeover ==
  [][HoldersHold => HoldersHold' \/ \E p \in Instances :
                                     TakeOver(p) /\ proc[p].judged # lock.by]_vars

\* The residue of a crash is taken over (the comment on the lock): once no other
\* process is left, a starting one gets the lock.  Only a file that refuses its
\* removal MaxAttempts times keeps it out.
ResidueIsTakenOver ==
  \A p \in Instances :
    (/\ At(p, "create") /\ proc[p].attempt = 0
     /\ \A q \in Instances \ {p} : proc[q].pc \in {"gone", "dead"}
     /\ lock.by # NoInstance => lock.pid # NoInstance)
    ~> \/ lock.by = p
       \/ At(p, "dead")
       \/ proc[p].attempt = MaxAttempts
=============================================================================
