------------------------ MODULE WatcherLock_proofs ------------------------
(***************************************************************************)
(* What is proved of WatcherLock, whatever fails.                          *)
(***************************************************************************)
EXTENDS WatcherLock, TLAPS

Stages == {"off", "create", "stamp", "read", "probe", "stat", "takeover",
           "first", "watch", "release", "drain", "gone", "dead"}
Procs == [pc : Stages, attempt : 0 .. MaxAttempts, holder : Instances \cup {NoInstance},
          judged : Instances \cup {NoInstance}, command : {"once", "watch"}, polling : BOOLEAN]
Locks == [by : Instances \cup {NoInstance}, pid : Instances \cup {NoInstance}, old : BOOLEAN]

\* Only a process whose attempts are not spent gets as far as a takeover.
MayStill == \A p \in Instances :
  proc[p].pc \in {"read", "probe", "stat", "takeover"} => proc[p].attempt < MaxAttempts

TypeInv == lock \in Locks /\ proc \in [Instances -> Procs] /\ MayStill

-----------------------------------------------------------------------------
\* One process changes, to a record of the right kind.
LEMMA Becoming ==
  ASSUME TypeInv, NEW p \in Instances, NEW r \in Procs, Become(p, r), lock' \in Locks,
         r.pc \in {"read", "probe", "stat", "takeover"} => r.attempt < MaxAttempts
  PROVE  /\ TypeInv' /\ proc'[p] = r
         /\ \A q \in Instances : q # p => proc'[q] = proc[q]
<1>1. /\ proc' \in [Instances -> Procs] /\ proc'[p] = r
      /\ \A q \in Instances : q # p => proc'[q] = proc[q]
  BY DEF Become, TypeInv
<1> QED BY <1>1 DEF TypeInv, MayStill

\* A process that has not started.
LEMMA Starting == Unstarted \in Procs
<1>1. 0 \in 0 .. MaxAttempts
  BY DEF MaxAttempts
<1> QED BY <1>1 DEF Unstarted, Procs, Stages

\* A process that ends keeps nothing but its stage.
LEMMA Exiting ==
  ASSUME NEW stage \in {"gone", "dead"}
  PROVE  /\ [Unstarted EXCEPT !.pc = stage] \in Procs
         /\ [Unstarted EXCEPT !.pc = stage].pc = stage
BY Starting DEF Procs, Stages

\* The lock file after somebody has tried to remove it.
LEMMA Removing ==
  ASSUME TypeInv, RemoveLock
  PROVE  lock' \in Locks /\ (lock' = NoLock \/ lock' = lock)
<1>1. NoLock \in Locks
  BY DEF NoLock, Locks
<1> QED BY <1>1 DEF RemoveLock, TypeInv

\* What each step of a process does to the lock file and to the process.
Moves(p) ==
  \/ /\ At(p, "off") /\ lock' = lock
     /\ proc'[p].pc = "create"
  \/ /\ At(p, "create") /\ lock = NoLock /\ lock' = [NoLock EXCEPT !.by = p]
     /\ proc'[p].pc = "stamp"
  \/ /\ At(p, "stamp")
     /\ lock' = IF lock.by = p THEN [lock EXCEPT !.pid = p] ELSE lock
     /\ proc'[p].pc = "first"
  \/ /\ At(p, "create") /\ lock # NoLock /\ lock' = lock
     /\ proc'[p].pc = "read"
  \/ /\ At(p, "read") /\ lock' = lock /\ lock.pid = NoInstance
     /\ proc'[p].pc = "stat"
  \/ /\ At(p, "read") /\ lock' = lock /\ lock.pid # NoInstance
     /\ proc'[p].pc = "probe" /\ proc'[p].holder = lock.pid /\ proc'[p].judged = lock.by
  \/ /\ At(p, "probe") /\ lock' = lock /\ ~IsProcessAlive(proc[p].holder)
     /\ proc'[p].pc = "takeover" /\ proc'[p].judged = proc[p].judged
  \/ /\ At(p, "stat") /\ lock' = lock /\ lock # NoLock /\ lock.old
     /\ proc'[p].pc = "takeover" /\ proc'[p].judged = lock.by
  \/ /\ At(p, "takeover") /\ (lock' = NoLock \/ lock' = lock)
     /\ proc'[p].pc = "create"
  \/ /\ At(p, "release") /\ (lock' = NoLock \/ lock' = lock)
     /\ proc'[p].pc = "drain"
  \/ /\ lock' = lock /\ proc[p].pc \in {"first", "watch", "release", "drain"}
     /\ \/ proc'[p].pc = proc[p].pc
        \/ proc[p].pc = "first" /\ proc'[p].pc \in {"watch", "release"}
        \/ proc[p].pc = "watch" /\ proc'[p].pc = "release"
  \/ lock' = lock /\ proc[p].pc # "off" /\ proc'[p].pc \in {"gone", "dead"}

Others(p) == \A q \in Instances : q # p => proc'[q] = proc[q]

\* A step of a process is one of these moves, and nobody else is concerned.
LEMMA StepMoves ==
  ASSUME TypeInv, NEW p \in Instances,
         Launch(p) \/ InstanceStep(p) \/ Tick(p) \/ Stop(p) \/ Crash(p)
  PROVE  TypeInv' /\ Others(p) /\ Moves(p)
<1>1. /\ lock \in Locks /\ proc[p] \in Procs
      /\ proc[p].pc \in {"read", "probe", "stat", "takeover"} => proc[p].attempt < MaxAttempts
  BY DEF TypeInv, MayStill
<1>2. CASE Launch(p)
  <2>1. PICK c \in {"once", "watch"} :
          Become(p, [Unstarted EXCEPT !.pc = "create", !.command = c])
    BY <1>2, WatcherLockAssumption DEF Launch
  <2>2. PICK r \in Procs : /\ r = [Unstarted EXCEPT !.pc = "create", !.command = c]
                           /\ r.pc = "create"
    <3> DEFINE R == [Unstarted EXCEPT !.pc = "create", !.command = c]
    <3>1. R \in Procs /\ R.pc = "create"
      BY Starting DEF Procs, Stages
    <3> QED BY <3>1
  <2>3. lock' = lock /\ At(p, "off") /\ Become(p, r)
    BY <1>2, <2>1, <2>2 DEF Launch
  <2>4. TypeInv' /\ Others(p) /\ proc'[p] = r
    BY <1>1, <2>2, <2>3, Becoming DEF Others
  <2> QED BY <2>2, <2>3, <2>4 DEF Moves
<1>3. CASE CreateLock(p)
  <2>1. PICK r \in Procs : r = [proc[p] EXCEPT !.pc = "stamp"] /\ r.pc = "stamp"
    <3> DEFINE R == [proc[p] EXCEPT !.pc = "stamp"]
    <3>1. R \in Procs /\ R.pc = "stamp"
      BY <1>1 DEF Procs, Stages
    <3> QED BY <3>1
  <2>2. /\ At(p, "create") /\ lock = NoLock /\ lock' = [NoLock EXCEPT !.by = p]
        /\ Become(p, r)
    BY <1>3, <2>1 DEF CreateLock, Goto
  <2>3. lock' \in Locks
    BY <2>2 DEF NoLock, Locks
  <2>4. TypeInv' /\ Others(p) /\ proc'[p] = r
    BY <2>1, <2>2, <2>3, Becoming DEF Others
  <2> QED BY <2>1, <2>2, <2>4 DEF Moves
<1>4. CASE StampLock(p)
  <2>1. PICK r \in Procs : /\ r = [proc[p] EXCEPT !.pc = "first", !.polling = TRUE]
                           /\ r.pc = "first"
    <3> DEFINE R == [proc[p] EXCEPT !.pc = "first", !.polling = TRUE]
    <3>1. R \in Procs /\ R.pc = "first"
      BY <1>1 DEF Procs, Stages
    <3> QED BY <3>1
  <2>2. /\ At(p, "stamp") /\ Become(p, r)
        /\ lock' = IF lock.by = p THEN [lock EXCEPT !.pid = p] ELSE lock
    BY <1>4, <2>1 DEF StampLock
  <2>3. lock' \in Locks
    BY <1>1, <2>2 DEF Locks
  <2>4. TypeInv' /\ Others(p) /\ proc'[p] = r
    BY <2>1, <2>2, <2>3, Becoming DEF Others
  <2> QED BY <2>1, <2>2, <2>4 DEF Moves
<1>5. ASSUME NEW stage \in {"gone", "dead"}, Exit(p, stage), lock' = lock, ~At(p, "off")
      PROVE  TypeInv' /\ Others(p) /\ Moves(p)
  <2>1. PICK r \in Procs : r = [Unstarted EXCEPT !.pc = stage] /\ r.pc = stage
    <3> DEFINE R == [Unstarted EXCEPT !.pc = stage]
    <3>1. R \in Procs /\ R.pc = stage
      BY Exiting
    <3> QED BY <3>1
  <2>2. Become(p, r)
    BY <1>5, <2>1 DEF Exit
  <2>3. TypeInv' /\ Others(p) /\ proc'[p] = r
    BY <1>1, <1>5, <2>1, <2>2, Becoming DEF Others
  <2> QED BY <1>5, <2>1, <2>3 DEF Moves, At
<1>6. CASE StampFails(p)
  BY <1>5, <1>6 DEF StampFails, At
<1>7. CASE LockExists(p)
  <2>1. CASE Exit(p, "gone")
    BY <1>5, <1>7, <2>1 DEF LockExists, At
  <2>2. CASE MayTakeOver(p) /\ Goto(p, "read")
    <3>1. PICK r \in Procs : /\ r = [proc[p] EXCEPT !.pc = "read"] /\ r.pc = "read"
                             /\ r.attempt = proc[p].attempt
      <4> DEFINE R == [proc[p] EXCEPT !.pc = "read"]
      <4>1. R \in Procs /\ R.pc = "read" /\ R.attempt = proc[p].attempt
        BY <1>1 DEF Procs, Stages
      <4> QED BY <4>1
    <3>2. Become(p, r) /\ r.attempt < MaxAttempts
      BY <2>2, <3>1 DEF Goto, MayTakeOver
    <3>3. TypeInv' /\ Others(p) /\ proc'[p] = r
      BY <1>1, <1>7, <3>1, <3>2, Becoming DEF Others, LockExists
    <3> QED BY <1>7, <3>1, <3>3 DEF Moves, LockExists
  <2> QED BY <1>7, <2>1, <2>2 DEF LockExists
<1>8. CASE ReadHolder(p)
  <2>1. PICK s \in {"stat", "probe"} : s = IF lock.pid = NoInstance THEN "stat" ELSE "probe"
    OBVIOUS
  <2>2. PICK r \in Procs : /\ r = [proc[p] EXCEPT !.pc = s, !.holder = lock.pid,
                                                  !.judged = lock.by]
                           /\ r.pc = s /\ r.holder = lock.pid /\ r.attempt = proc[p].attempt
                           /\ r.judged = lock.by
    <3> DEFINE R == [proc[p] EXCEPT !.pc = s, !.holder = lock.pid, !.judged = lock.by]
    <3>1. /\ R \in Procs /\ R.pc = s /\ R.holder = lock.pid /\ R.attempt = proc[p].attempt
          /\ R.judged = lock.by
      BY <1>1 DEF Procs, Stages, Locks
    <3> QED BY <3>1
  <2>3. /\ At(p, "read") /\ lock' = lock /\ Become(p, r) /\ r.attempt < MaxAttempts
    BY <1>1, <1>8, <2>1, <2>2 DEF ReadHolder, At
  <2>4. TypeInv' /\ Others(p) /\ proc'[p] = r
    BY <1>1, <2>2, <2>3, Becoming DEF Others
  <2> QED BY <2>1, <2>2, <2>3, <2>4 DEF Moves
<1>9. CASE ProbeHolder(p) \/ StatLock(p)
  <2>1. CASE Exit(p, "gone")
    BY <1>5, <1>9, <2>1 DEF ProbeHolder, StatLock, At
  <2>2. CASE ProbeHolder(p) /\ Goto(p, "takeover") /\ ~IsProcessAlive(proc[p].holder)
    <3>1. PICK r \in Procs : /\ r = [proc[p] EXCEPT !.pc = "takeover"] /\ r.pc = "takeover"
                             /\ r.attempt = proc[p].attempt /\ r.judged = proc[p].judged
      <4> DEFINE R == [proc[p] EXCEPT !.pc = "takeover"]
      <4>1. /\ R \in Procs /\ R.pc = "takeover"
            /\ R.attempt = proc[p].attempt /\ R.judged = proc[p].judged
        BY <1>1 DEF Procs, Stages
      <4> QED BY <4>1
    <3>2. Become(p, r) /\ r.attempt < MaxAttempts /\ lock' = lock /\ At(p, "probe")
      BY <1>1, <2>2, <3>1 DEF Goto, ProbeHolder, At
    <3>3. TypeInv' /\ Others(p) /\ proc'[p] = r
      BY <1>1, <3>1, <3>2, Becoming DEF Others
    <3> QED BY <2>2, <3>1, <3>2, <3>3 DEF Moves
  <2>3. CASE /\ StatLock(p) /\ lock # NoLock /\ lock.old
             /\ Become(p, [proc[p] EXCEPT !.pc = "takeover", !.judged = lock.by])
    <3>1. PICK r \in Procs : /\ r = [proc[p] EXCEPT !.pc = "takeover", !.judged = lock.by]
                             /\ r.pc = "takeover" /\ r.attempt = proc[p].attempt
                             /\ r.judged = lock.by
      <4> DEFINE R == [proc[p] EXCEPT !.pc = "takeover", !.judged = lock.by]
      <4>1. /\ R \in Procs /\ R.pc = "takeover"
            /\ R.attempt = proc[p].attempt /\ R.judged = lock.by
        BY <1>1 DEF Procs, Stages, Locks
      <4> QED BY <4>1
    <3>2. Become(p, r) /\ r.attempt < MaxAttempts /\ lock' = lock /\ At(p, "stat")
      BY <1>1, <2>3, <3>1 DEF StatLock, At
    <3>3. TypeInv' /\ Others(p) /\ proc'[p] = r
      BY <1>1, <3>1, <3>2, Becoming DEF Others
    <3> QED BY <2>3, <3>1, <3>2, <3>3 DEF Moves
  <2> QED BY <1>9, <2>1, <2>2, <2>3 DEF ProbeHolder, StatLock
<1>10. CASE TakeOver(p)
  <2>1. PICK n \in 0 .. MaxAttempts : n = proc[p].attempt + 1
    BY <1>1, <1>10 DEF TakeOver, At, Procs, MaxAttempts
  <2>2. PICK r \in Procs : /\ r = [proc[p] EXCEPT !.pc = "create", !.attempt = n,
                                                  !.holder = NoInstance,
                                                  !.judged = NoInstance]
                           /\ r.pc = "create"
    <3> DEFINE R == [proc[p] EXCEPT !.pc = "create", !.attempt = n, !.holder = NoInstance,
                                    !.judged = NoInstance]
    <3>1. R \in Procs /\ R.pc = "create"
      BY <1>1 DEF Procs, Stages
    <3> QED BY <3>1
  <2>3. At(p, "takeover") /\ Become(p, r) /\ RemoveLock
    BY <1>1, <1>10, <2>1, <2>2 DEF TakeOver, Procs
  <2>4. TypeInv' /\ Others(p) /\ proc'[p] = r
    BY <2>2, <2>3, Removing, Becoming DEF Others
  <2> QED BY <2>2, <2>3, <2>4, Removing DEF Moves
<1>11. CASE FirstRoundEnds(p) \/ Tick(p) \/ RoundEnds(p) \/ Stop(p)
  <2>1. PICK s \in Stages, b \in BOOLEAN :
          /\ Become(p, [proc[p] EXCEPT !.pc = s, !.polling = b])
          /\ s \in {"first", "watch", "release", "drain"}
          /\ \/ s = proc[p].pc
             \/ proc[p].pc = "first" /\ s \in {"watch", "release"}
             \/ proc[p].pc = "watch" /\ s = "release"
    <3>1. CASE FirstRoundEnds(p)
      BY <3>1 DEF FirstRoundEnds, At, Stages
    <3>2. CASE Stop(p)
      <4>1. PICK b \in BOOLEAN : b = proc[p].polling
        BY <1>1 DEF Procs
      <4>2. Become(p, [proc[p] EXCEPT !.pc = "release", !.polling = b])
        BY <1>1, <3>2, <4>1 DEF Stop, Goto, Become, Procs
      <4> QED BY <3>2, <4>2 DEF Stop, At, Stages
    <3>3. CASE Tick(p) \/ RoundEnds(p)
      <4>1. PICK s \in {"watch", "release", "drain"} : s = proc[p].pc
        BY <3>3 DEF Tick, RoundEnds, At
      <4>2. PICK b \in BOOLEAN : Become(p, [proc[p] EXCEPT !.polling = b])
        BY <3>3 DEF Tick, RoundEnds
      <4>3. Become(p, [proc[p] EXCEPT !.pc = s, !.polling = b])
        BY <1>1, <4>1, <4>2 DEF Become, Procs
      <4> QED BY <4>1, <4>3 DEF Stages
    <3> QED BY <1>11, <3>1, <3>2, <3>3
  <2>2. PICK r \in Procs : r = [proc[p] EXCEPT !.pc = s, !.polling = b] /\ r.pc = s
    <3> DEFINE R == [proc[p] EXCEPT !.pc = s, !.polling = b]
    <3>1. R \in Procs /\ R.pc = s
      BY <1>1 DEF Procs
    <3> QED BY <3>1
  <2>3. lock' = lock /\ Become(p, r)
    BY <1>11, <2>1, <2>2 DEF FirstRoundEnds, Tick, RoundEnds, Stop
  <2>4. TypeInv' /\ Others(p) /\ proc'[p] = r
    BY <1>1, <2>1, <2>2, <2>3, Becoming DEF Others
  <2>5. proc[p].pc \in {"first", "watch", "release", "drain"}
    BY <2>1
  <2> QED BY <2>1, <2>2, <2>3, <2>4, <2>5 DEF Moves
<1>12. CASE Release(p)
  <2>1. PICK r \in Procs : r = [proc[p] EXCEPT !.pc = "drain"] /\ r.pc = "drain"
    <3> DEFINE R == [proc[p] EXCEPT !.pc = "drain"]
    <3>1. R \in Procs /\ R.pc = "drain"
      BY <1>1 DEF Procs, Stages
    <3> QED BY <3>1
  <2>2. At(p, "release") /\ Become(p, r) /\ RemoveLock
    BY <1>12, <2>1 DEF Release, Goto
  <2>3. TypeInv' /\ Others(p) /\ proc'[p] = r
    BY <2>1, <2>2, Removing, Becoming DEF Others
  <2> QED BY <2>1, <2>2, <2>3, Removing DEF Moves
<1>13. CASE Leave(p) \/ Crash(p)
  BY <1>5, <1>13 DEF Leave, Crash, IsProcessAlive, At
<1> QED BY <1>2, <1>3, <1>4, <1>6, <1>7, <1>8, <1>9, <1>10, <1>11, <1>12, <1>13
        DEF InstanceStep

\* The lock file grows old, or nothing happens.
LEMMA AgeMoves ==
  ASSUME TypeInv, Age
  PROVE  /\ TypeInv' /\ proc' = proc /\ lock # NoLock
         /\ \A p \in Instances : ~At(p, "stamp") /\ ~At(p, "stat")
         /\ lock'.by = lock.by /\ lock'.pid = lock.pid
BY DEF Age, TypeInv, Locks, MayStill

\* The lock file and the processes are always well typed.
LEMMA TypeInvariant == Spec => []TypeInv
<1>1. Init => TypeInv
  <2> SUFFICES ASSUME Init PROVE TypeInv
    OBVIOUS
  <2>1. lock \in Locks
    BY DEF Init, NoLock, Locks
  <2>2. proc \in [Instances -> Procs] /\ \A p \in Instances : proc[p].pc = "off"
    BY Starting DEF Init, Unstarted
  <2> QED BY <2>1, <2>2 DEF TypeInv, MayStill
<1>2. TypeInv /\ [Next]_vars => TypeInv'
  <2> SUFFICES ASSUME TypeInv, [Next]_vars PROVE TypeInv'
    OBVIOUS
  <2>1. CASE UNCHANGED vars
    BY <2>1 DEF vars, TypeInv, MayStill
  <2> QED BY <2>1, StepMoves, AgeMoves DEF Next
<1> QED BY <1>1, <1>2, PTL DEF Spec

\* The lock file names instances of the kit, and no process takes a lock over more
\* than MaxAttempts times: acquireWatcherStateDirLock gives up after three.
THEOREM TypeCorrect == Spec => []TypeOK
<1>1. TypeInv => TypeOK
  BY DEF TypeInv, TypeOK, Locks, Procs, Stages
<1> QED BY <1>1, TypeInvariant, PTL

-----------------------------------------------------------------------------
(***************************************************************************)
(* Who holds the lock.                                                     *)
(***************************************************************************)
Over(p) == proc[p].pc \in {"gone", "dead"}

\* The file belongs to whoever made it, and carries no pid but its maker's.
FileSound ==
  /\ lock.by = NoInstance => lock = NoLock
  /\ lock.pid # NoInstance => lock.pid = lock.by
  /\ \A p \in Instances : lock.by = p =>
       /\ proc[p].pc \in {"stamp", "first", "watch", "release", "drain"} \/ Over(p)
       /\ lock.pid = NoInstance => At(p, "stamp") \/ Over(p)
       /\ lock.old => ~At(p, "stamp")

\* Whoever is about to remove a lock has judged a file whose maker is over.  An old
\* file without a pid is one of those, as long as somebody is at its stat.
JudgedTheDead ==
  \A p \in Instances :
    /\ At(p, "stat") /\ lock.old => Over(lock.by)
    /\ At(p, "probe") => /\ proc[p].holder \in Instances
                         /\ proc[p].judged = proc[p].holder
                         /\ proc[proc[p].holder].pc # "off"
    /\ At(p, "takeover") => proc[p].judged \in Instances /\ Over(proc[p].judged)

LockInv == FileSound /\ JudgedTheDead

\* What the invariant says of the maker of the file, for one process.
Maker(p) == proc[p].pc \in {"stamp", "first", "watch", "release", "drain"} \/ Over(p)

\* A process that is over stays over.
LEMMA OverStays ==
  ASSUME NEW p \in Instances, Moves(p), Over(p)
  PROVE  Over(p)'
BY DEF Moves, Over, At

\* What a move of a process leaves true of the file.
LEMMA FileStep ==
  ASSUME TypeInv, LockInv, NEW p \in Instances, Moves(p), Others(p)
  PROVE  FileSound'
<1>1. /\ lock.by = NoInstance => lock = NoLock
      /\ lock.pid # NoInstance => lock.pid = lock.by
      /\ \A q \in Instances : lock.by = q =>
           /\ Maker(q)
           /\ lock.pid = NoInstance => At(q, "stamp") \/ Over(q)
           /\ lock.old => ~At(q, "stamp")
  BY DEF LockInv, FileSound, Maker
<1>2. \A q \in Instances : q # p => proc'[q] = proc[q]
  BY DEF Others
<1>3. NoInstance \notin Instances /\ lock \in Locks
  BY WatcherLockAssumption DEF TypeInv
<1>4. CASE lock' = NoLock
  <2>1. /\ NoLock.by = NoInstance /\ NoLock.pid = NoInstance
    BY DEF NoLock
  <2> QED BY <1>3, <1>4, <2>1 DEF FileSound
<1>5. CASE lock' = [NoLock EXCEPT !.by = p] /\ proc'[p].pc = "stamp"
  <2>1. lock'.by = p /\ lock'.pid = NoInstance /\ lock'.old = FALSE
    BY <1>5 DEF NoLock
  <2> QED BY <1>3, <1>5, <2>1 DEF FileSound, At
<1>6. CASE /\ At(p, "stamp") /\ lock' = IF lock.by = p THEN [lock EXCEPT !.pid = p] ELSE lock
           /\ proc'[p].pc = "first"
  <2>1. CASE lock.by = p
    <3>1. lock'.by = p /\ lock'.pid = p
      BY <1>3, <1>6, <2>1 DEF Locks
    <3> QED BY <1>3, <1>6, <3>1 DEF FileSound, At
  <2>2. CASE lock.by # p
    <3>1. ASSUME NEW q \in Instances, lock.by = q
          PROVE  /\ Maker(q)' /\ (lock.pid = NoInstance => At(q, "stamp")' \/ Over(q)')
                 /\ lock.old => ~At(q, "stamp")'
      BY <1>1, <1>2, <2>2, <3>1 DEF Maker, Over, At
    <3> QED BY <1>1, <1>6, <2>2, <3>1 DEF FileSound, Maker
  <2> QED BY <2>1, <2>2
<1>7. CASE /\ lock' = lock
           /\ \/ ~Maker(p)
              \/ /\ proc[p].pc \in {"first", "watch", "release", "drain"}
                 /\ proc'[p].pc \in {"first", "watch", "release", "drain"}
              \/ proc'[p].pc \in {"gone", "dead"}
  <2>1. ASSUME NEW q \in Instances, lock.by = q
        PROVE  /\ Maker(q)' /\ (lock.pid = NoInstance => At(q, "stamp")' \/ Over(q)')
               /\ lock.old => ~At(q, "stamp")'
    <3>1. CASE q # p
      BY <1>1, <1>2, <2>1, <3>1 DEF Maker, Over, At
    <3>2. CASE q = p
      BY <1>1, <1>7, <2>1, <3>2 DEF Maker, Over, At
    <3> QED BY <3>1, <3>2
  <2> QED BY <1>1, <1>7, <2>1 DEF FileSound, Maker
<1> QED BY <1>4, <1>5, <1>6, <1>7 DEF Moves, Maker, Over, At

\* What it leaves true of those who judge the lock: a process that is over stays
\* so, and an old file stays its maker's as long as somebody is at its stat.
LEMMA JudgesStep ==
  ASSUME TypeInv, LockInv, NEW p \in Instances, Moves(p), Others(p)
  PROVE  JudgedTheDead'
<1>1. \A q \in Instances : q # p => proc'[q] = proc[q]
  BY DEF Others
<1>2. FileSound /\ JudgedTheDead /\ NoInstance \notin Instances /\ lock \in Locks
  BY WatcherLockAssumption DEF LockInv, TypeInv
<1>3. NoLock.by = NoInstance /\ NoLock.pid = NoInstance /\ NoLock.old = FALSE
  BY DEF NoLock
<1>4. \A q \in Instances : /\ Over(q) => Over(q)'
                           /\ proc[q].pc # "off" => proc'[q].pc # "off"
  <2>1. Over(p) => Over(p)'
    BY OverStays
  <2>2. proc[p].pc # "off" => proc'[p].pc # "off"
    BY DEF Moves, At
  <2> QED BY <1>1, <2>1, <2>2 DEF Over
\* An old file is one that was there, and nobody's who is writing its pid.
<1>5. ASSUME lock'.old
      PROVE  lock.by \in Instances /\ lock'.by = lock.by /\ lock.old
  <2>1. lock' # NoLock /\ lock' # [NoLock EXCEPT !.by = p]
    BY <1>3, <1>5 DEF NoLock
  <2>2. lock' = lock \/ (lock.by = p /\ lock' = [lock EXCEPT !.pid = p])
    BY <2>1 DEF Moves
  <2>3. lock'.by = lock.by /\ lock.old
    BY <1>2, <1>5, <2>2 DEF Locks
  <2>4. lock # NoLock
    BY <1>3, <2>3
  <2> QED BY <1>2, <2>3, <2>4 DEF FileSound, Locks
<1>6. ASSUME NEW q \in Instances, At(q, "stat")', lock'.old
      PROVE  Over(lock.by)' /\ lock'.by = lock.by
  <2>1. CASE At(q, "stat")
    BY <1>2, <1>4, <1>5, <1>6, <2>1 DEF JudgedTheDead, Over
  <2>2. CASE ~At(q, "stat")
    <3>1. q = p /\ lock.pid = NoInstance
      BY <1>1, <1>6, <2>2 DEF Moves, At
    <3>2. Over(lock.by)
      BY <1>2, <1>5, <1>6, <3>1 DEF FileSound
    <3> QED BY <1>4, <1>5, <1>6, <3>2 DEF Over
  <2> QED BY <2>1, <2>2
<1>7. ASSUME NEW q \in Instances, At(q, "probe")'
      PROVE  /\ proc'[q].holder \in Instances
             /\ proc'[q].judged = proc'[q].holder
             /\ proc'[proc'[q].holder].pc # "off"
  <2>1. CASE q = p
    <3>1. At(p, "read") /\ lock.pid # NoInstance /\ proc'[p].holder = lock.pid
          /\ proc'[p].judged = lock.by
      BY <1>7, <2>1 DEF Moves, At
    <3>2. lock.pid \in Instances /\ lock.pid = lock.by
      BY <1>2, <3>1 DEF FileSound, Locks
    <3>3. proc[lock.pid].pc # "off"
      BY <1>2, <3>2 DEF FileSound, Over
    <3> QED BY <1>4, <2>1, <3>1, <3>2, <3>3
  <2>2. CASE q # p
    BY <1>1, <1>2, <1>4, <1>7, <2>2 DEF JudgedTheDead, At
  <2> QED BY <2>1, <2>2
<1>8. ASSUME NEW q \in Instances, At(q, "takeover")'
      PROVE  /\ proc'[q].judged \in Instances
             /\ proc'[proc'[q].judged].pc \in {"gone", "dead"}
  <2>1. CASE q = p /\ At(p, "probe")
    <3>1. ~IsProcessAlive(proc[p].holder) /\ proc'[p].judged = proc[p].judged
      BY <1>8, <2>1 DEF Moves, At
    <3>2. /\ proc[p].holder \in Instances /\ proc[p].judged = proc[p].holder
          /\ proc[proc[p].holder].pc # "off"
      BY <1>2, <2>1 DEF JudgedTheDead
    <3>3. Over(proc[p].judged)
      BY <3>1, <3>2 DEF IsProcessAlive, Over
    <3> QED BY <1>4, <2>1, <3>1, <3>2, <3>3 DEF Over
  <2>2. CASE q = p /\ At(p, "stat")
    <3>1. lock.old /\ lock # NoLock /\ proc'[p].judged = lock.by
      BY <1>8, <2>2 DEF Moves, At
    <3>2. lock.by \in Instances /\ Over(lock.by)
      BY <1>2, <2>2, <3>1 DEF JudgedTheDead, FileSound, Locks
    <3> QED BY <1>4, <2>2, <3>1, <3>2 DEF Over
  <2>3. CASE q = p /\ ~At(p, "probe") /\ ~At(p, "stat")
    BY <1>8, <2>3 DEF Moves, At
  <2>4. CASE q # p
    BY <1>1, <1>2, <1>4, <1>8, <2>4 DEF JudgedTheDead, At, Over
  <2> QED BY <2>1, <2>2, <2>3, <2>4
<1> QED BY <1>6, <1>7, <1>8 DEF JudgedTheDead, At, Over

\* A move that is no takeover of an unjudged file leaves the lock with its holders.
LEMMA HoldersStep ==
  ASSUME TypeInv, LockInv, HoldersHold, NEW p \in Instances, Moves(p), Others(p),
         At(p, "takeover") => proc[p].judged = lock.by
  PROVE  HoldersHold'
<1> DEFINE Holds(q) == proc[q].pc \in {"stamp", "first", "watch", "release"}
<1>1. \A q \in Instances : Holds(q) => lock.by = q
  BY DEF HoldersHold
<1>2. \A q \in Instances : q # p => proc'[q] = proc[q]
  BY DEF Others
<1>3. NoLock.by = NoInstance /\ NoInstance \notin Instances
  BY WatcherLockAssumption DEF NoLock
<1>4. ASSUME NEW q \in Instances, q # p, Holds(q) PROVE lock'.by = q
  <2>1. lock.by = q
    BY <1>1, <1>4
  <2>2. lock # NoLock
    BY <1>3, <2>1
  <2>3. ~At(p, "takeover")
    BY <1>4, <2>1 DEF LockInv, JudgedTheDead, Over
  <2>4. ~At(p, "release") /\ ~At(p, "stamp")
    BY <1>1, <1>4, <2>1 DEF At
  <2>5. lock' = lock
    BY <2>2, <2>3, <2>4 DEF Moves
  <2> QED BY <2>1, <2>5
<1>5. ASSUME Holds(p)' PROVE lock'.by = p
  <2>1. CASE lock' = [NoLock EXCEPT !.by = p]
    BY <2>1 DEF NoLock
  <2>2. CASE At(p, "stamp") /\ lock' = IF lock.by = p THEN [lock EXCEPT !.pid = p] ELSE lock
    <3>1. lock.by = p
      BY <1>1, <2>2 DEF At
    <3> QED BY <2>2, <3>1 DEF TypeInv, Locks
  <2>3. CASE lock' = lock /\ proc[p].pc \in {"first", "watch", "release"}
    BY <1>1, <2>3
  <2>4. \/ lock' = [NoLock EXCEPT !.by = p]
        \/ At(p, "stamp") /\ lock' = IF lock.by = p THEN [lock EXCEPT !.pid = p] ELSE lock
        \/ lock' = lock /\ proc[p].pc \in {"first", "watch", "release"}
    BY <1>5 DEF Moves, At
  <2> QED BY <2>1, <2>2, <2>3, <2>4
<1> QED BY <1>2, <1>4, <1>5 DEF HoldersHold

\* The file grows old while nobody is between creating it and writing its pid, or
\* between reading it and its stat.
LEMMA AgeStep ==
  ASSUME TypeInv, LockInv, Age
  PROVE  LockInv'
<1>1. /\ proc' = proc /\ lock # NoLock
      /\ \A p \in Instances : ~At(p, "stamp") /\ ~At(p, "stat")
      /\ lock'.by = lock.by /\ lock'.pid = lock.pid
  BY AgeMoves
<1>2. FileSound'
  BY <1>1 DEF LockInv, FileSound, At, Over
<1>3. JudgedTheDead'
  BY <1>1 DEF LockInv, JudgedTheDead, At, Over
<1> QED BY <1>2, <1>3 DEF LockInv

\* The file and those who judge it, in every state.
LEMMA LockInvariant == Spec => []LockInv
<1>1. Init => LockInv
  <2> SUFFICES ASSUME Init PROVE LockInv
    OBVIOUS
  <2>1. /\ lock = NoLock /\ lock.by = NoInstance /\ lock.pid = NoInstance
        /\ \A p \in Instances : proc[p].pc = "off"
    BY DEF Init, NoLock, Unstarted
  <2> QED BY <2>1, WatcherLockAssumption DEF LockInv, FileSound, JudgedTheDead, At
<1>2. TypeInv /\ LockInv /\ [Next]_vars => LockInv'
  <2> SUFFICES ASSUME TypeInv, LockInv, [Next]_vars PROVE LockInv'
    OBVIOUS
  <2>1. CASE UNCHANGED vars
    BY <2>1 DEF vars, LockInv, FileSound, JudgedTheDead, At, Over
  <2>2. CASE Age
    BY <2>2, AgeStep
  <2>3. CASE \E p \in Instances :
               Launch(p) \/ InstanceStep(p) \/ Tick(p) \/ Stop(p) \/ Crash(p)
    <3>1. PICK p \in Instances : Others(p) /\ Moves(p)
      BY <2>3, StepMoves
    <3> QED BY <3>1, FileStep, JudgesStep DEF LockInv
  <2> QED BY <2>1, <2>2, <2>3 DEF Next
<1> QED BY <1>1, <1>2, TypeInvariant, PTL DEF Spec

\* For any number of starts, crashes and failing file calls: while those who made
\* a lock file and have not released it have it, they lose it to no step but a
\* takeover whose test was made on another file.  A file judged stale belongs to a
\* process that is over, and no such process holds anything.
THEOREM LocksAreKept == Spec => LockLostOnlyToStaleTakeover
<1> DEFINE Kept == HoldersHold => \/ HoldersHold'
                                  \/ \E p \in Instances :
                                       TakeOver(p) /\ proc[p].judged # lock.by
<1>1. TypeInv /\ LockInv /\ [Next]_vars => [Kept]_vars
  <2> SUFFICES ASSUME TypeInv, LockInv, Next, HoldersHold PROVE Kept
    BY DEF vars
  <2>1. CASE Age
    <3>1. proc' = proc /\ lock'.by = lock.by
      BY <2>1, AgeMoves
    <3> QED BY <3>1 DEF HoldersHold
  <2>2. CASE \E p \in Instances :
               Launch(p) \/ InstanceStep(p) \/ Tick(p) \/ Stop(p) \/ Crash(p)
    <3>1. PICK p \in Instances :
            Launch(p) \/ InstanceStep(p) \/ Tick(p) \/ Stop(p) \/ Crash(p)
      BY <2>2
    <3>2. Others(p) /\ Moves(p)
      BY <3>1, StepMoves
    <3>3. CASE At(p, "takeover") => proc[p].judged = lock.by
      BY <3>2, <3>3, HoldersStep
    <3>4. CASE At(p, "takeover") /\ proc[p].judged # lock.by
      <4>1. TakeOver(p) \/ Crash(p)
        BY <3>1, <3>4 DEF At, Launch, InstanceStep, Tick, Stop, CreateLock, StampLock,
                          StampFails, LockExists, ReadHolder, ProbeHolder, StatLock,
                          FirstRoundEnds, RoundEnds, Release, Leave
      <4>2. CASE TakeOver(p)
        BY <3>4, <4>2
      <4>3. CASE Crash(p)
        <5>1. lock' = lock /\ proc'[p].pc = "dead"
          BY <4>3, Exiting DEF Crash, Exit, Become, TypeInv
        <5>2. \A q \in Instances : q # p => proc'[q] = proc[q]
          BY <3>2 DEF Others
        <5> QED BY <5>1, <5>2 DEF HoldersHold
      <4> QED BY <4>1, <4>2, <4>3
    <3> QED BY <3>3, <3>4
  <2> QED BY <2>1, <2>2 DEF Next
<1> QED BY <1>1, TypeInvariant, LockInvariant, PTL DEF Spec, LockLostOnlyToStaleTakeover
=============================================================================
