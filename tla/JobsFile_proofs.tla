--------------------------- MODULE JobsFile_proofs ---------------------------
(***************************************************************************)
(* Proofs about JobsFile, for every set of callers and every bound.        *)
(***************************************************************************)
EXTENDS JobsFile, TLAPS

USE JobsFileAssumption DEF JobsFileAssumption

(***************************************************************************)
(* Type correctness.  A count is bounded because a caller's copy of the    *)
(* file never shows more updates than were written.                        *)
(***************************************************************************)
NothingInvented ==
  \A v, w \in Writers :
    content[w] <= written[w] /\ caller[v].base[w] <= written[w]

TypeInv == TypeOK /\ NothingInvented

\* An empty store shows no update.
LEMMA InitTypeInv == Init => TypeInv
BY DEF Init, TypeInv, TypeOK, NothingInvented, NoLock, Nothing, Stages, At

Locals == [pc : Stages, base : [Writers -> 0 .. WriteBound]]

\* What Goto does to the locals: only one caller's stage changes.
LEMMA GotoMoves ==
  ASSUME caller \in [Writers -> Locals], NEW w \in Writers, NEW s \in Stages,
         Goto(w, s)
  PROVE  /\ caller' \in [Writers -> Locals]
         /\ \A v \in Writers : /\ caller'[v].base = caller[v].base
                              /\ caller'[v].pc = IF v = w THEN s ELSE caller[v].pc
BY DEF Goto, Locals

\* What an action that replaces the locals of one caller does to them.
LEMMA LocalsReplaced ==
  ASSUME caller \in [Writers -> Locals], NEW w \in Writers, NEW r \in Locals,
         caller' = [caller EXCEPT ![w] = r]
  PROVE  /\ caller' \in [Writers -> Locals]
         /\ \A v \in Writers : caller'[v] = IF v = w THEN r ELSE caller[v]
OBVIOUS

\* The empty content is a content.
LEMMA NothingTyped == Nothing \in [Writers -> 0 .. WriteBound]
BY DEF Nothing

\* Every step keeps the types, and shows no update that was not written.
LEMMA StepTypeInv == TypeInv /\ [Next]_vars => TypeInv'
<1> SUFFICES ASSUME TypeInv, [Next]_vars
             PROVE  TypeInv'
  OBVIOUS
<1> DEFINE Idle == [pc |-> "unlock", base |-> Nothing]
           Dead == [pc |-> "dead", base |-> Nothing]
<1>a. caller \in [Writers -> Locals] /\ Idle \in Locals /\ Dead \in Locals
  BY NothingTyped DEF TypeInv, TypeOK, Locals, Stages, Critical
<1>b. \A w \in Writers : Nothing[w] = 0 /\ written[w] \in 0 .. WriteBound
  BY DEF Nothing, TypeInv, TypeOK
<1>1. ASSUME NEW w \in Writers, NEW s \in Stages \ {"write"},
             Goto(w, s), ~At(w, "write"), UNCHANGED <<content, written>>,
             lock' \in [by : Writers \cup {NoWriter}, stale : BOOLEAN]
      PROVE  TypeInv'
  <2>1. /\ caller' \in [Writers -> Locals]
        /\ \A v \in Writers : /\ caller'[v].base = caller[v].base
                             /\ caller'[v].pc = IF v = w THEN s ELSE caller[v].pc
    BY <1>1, <1>a, GotoMoves
  <2>2. TypeOK'
    BY <1>1, <2>1 DEF TypeInv, TypeOK, Locals, At
  <2>3. NothingInvented'
    BY <1>1, <2>1 DEF TypeInv, NothingInvented
  <2> QED BY <2>2, <2>3 DEF TypeInv
<1>2. ASSUME NEW w \in Writers, Call(w) \/ LockExists(w) \/ StatLock(w)
                                \/ WaitForLock(w)
      PROVE  TypeInv'
  <2>1. PICK s \in Stages \ {"write"} : Goto(w, s)
    BY <1>2 DEF Call, LockExists, StatLock, WaitForLock, Stages, Critical
  <2>2. ~At(w, "write") /\ UNCHANGED <<lock, content, written>>
    BY <1>2 DEF Call, LockExists, StatLock, WaitForLock, At
  <2> QED BY <1>1, <2>1, <2>2 DEF TypeInv, TypeOK
<1>3. ASSUME NEW w \in Writers, CreateLock(w) \/ CreateLockFails(w)
      PROVE  TypeInv'
  <2>1. PICK s \in Stages \ {"write"} : Goto(w, s)
    BY <1>3 DEF CreateLock, CreateLockFails, Stages, Critical
  <2>2. ~At(w, "write") /\ UNCHANGED <<content, written>>
    BY <1>3 DEF CreateLock, CreateLockFails, At
  <2>3. lock' \in [by : Writers \cup {NoWriter}, stale : BOOLEAN]
    <3>1. lock' = lock \/ lock' = [by |-> w, stale |-> FALSE]
      BY <1>3 DEF CreateLock, CreateLockFails
    <3>2. lock \in [by : Writers \cup {NoWriter}, stale : BOOLEAN]
      BY DEF TypeInv, TypeOK
    <3>3. [by |-> w, stale |-> FALSE] \in [by : Writers \cup {NoWriter}, stale : BOOLEAN]
      OBVIOUS
    <3> QED BY <3>1, <3>2, <3>3
  <2> QED BY <1>1, <2>1, <2>2, <2>3
<1>4. ASSUME NEW w \in Writers, BreakLock(w) \/ Unlock(w)
      PROVE  TypeInv'
  <2>1. PICK s \in Stages \ {"write"} : Goto(w, s)
    BY <1>4 DEF BreakLock, Unlock, Stages, Critical
  <2>2. ~At(w, "write") /\ UNCHANGED <<content, written>>
    BY <1>4 DEF BreakLock, Unlock, At
  <2>3. lock' \in [by : Writers \cup {NoWriter}, stale : BOOLEAN]
    <3>1. lock' = NoLock \/ lock' = lock
      BY <1>4 DEF BreakLock, Unlock, RemoveMarker
    <3>2. NoLock \in [by : Writers \cup {NoWriter}, stale : BOOLEAN]
      BY DEF NoLock
    <3>3. lock \in [by : Writers \cup {NoWriter}, stale : BOOLEAN]
      BY DEF TypeInv, TypeOK
    <3> QED BY <3>1, <3>2, <3>3, Zenon
  <2> QED BY <1>1, <2>1, <2>2, <2>3
<1>5. ASSUME NEW w \in Writers, ReadFile(w)
      PROVE  TypeInv'
  <2> DEFINE r == [pc |-> "write", base |-> content]
  <2>1. r \in Locals
    BY DEF TypeInv, TypeOK, Locals, Stages, Critical
  <2>2. /\ caller' \in [Writers -> Locals]
        /\ \A v \in Writers : caller'[v] = IF v = w THEN r ELSE caller[v]
    BY <1>5, <1>a, <2>1, LocalsReplaced DEF ReadFile
  <2>3. TypeOK'
    BY <1>5, <2>2 DEF ReadFile, TypeInv, TypeOK, Locals, At
  <2>4. NothingInvented'
    BY <1>5, <2>2 DEF ReadFile, TypeInv, NothingInvented
  <2> QED BY <2>3, <2>4 DEF TypeInv
<1>6. ASSUME NEW w \in Writers, WriteFile(w)
      PROVE  TypeInv'
  <2>1. /\ caller' \in [Writers -> Locals]
        /\ \A v \in Writers : caller'[v] = IF v = w THEN Idle ELSE caller[v]
    BY <1>6, <1>a, LocalsReplaced DEF WriteFile
  <2>2. written' \in [Writers -> 0 .. WriteBound]
    BY <1>6 DEF WriteFile, TypeInv, TypeOK
  <2>3. \A v \in Writers :
          written[v] <= written'[v] /\ (v = w => written'[v] = written[v] + 1)
    BY <1>6 DEF WriteFile, TypeInv, TypeOK
  <2>4. \A v \in Writers :
          content'[v] = IF v = w THEN caller[w].base[v] + 1 ELSE caller[w].base[v]
    BY <1>6, <1>a DEF WriteFile, Locals
  <2>5. DOMAIN content' = Writers /\ content' = [v \in Writers |-> content'[v]]
    BY <1>6, <1>a DEF WriteFile, Locals
  <2>6. \A v \in Writers : caller[w].base[v] \in Nat /\ caller[w].base[v] <= written[v]
    BY <1>a DEF TypeInv, NothingInvented, Locals
  <2>7. \A v \in Writers : content'[v] \in Nat /\ content'[v] <= written'[v]
    BY <1>b, <2>2, <2>3, <2>4, <2>6
  <2>8. content' \in [Writers -> 0 .. WriteBound]
    BY <2>2, <2>5, <2>7
  <2>9. TypeOK'
    BY <1>6, <2>1, <2>2, <2>8 DEF WriteFile, TypeInv, TypeOK, Locals, At
  <2>10. NothingInvented'
    <3> SUFFICES ASSUME NEW v \in Writers, NEW u \in Writers
                 PROVE  content'[u] <= written'[u] /\ caller'[v].base[u] <= written'[u]
      BY DEF NothingInvented
    <3>1. caller'[v].base[u] \in Nat /\ caller'[v].base[u] <= written[u]
      BY <1>a, <1>b, <2>1 DEF TypeInv, NothingInvented, Locals
    <3> QED BY <1>b, <2>2, <2>3, <2>7, <3>1
  <2> QED BY <2>9, <2>10 DEF TypeInv
<1>7. ASSUME NEW w \in Writers, NEW r \in {Idle, Dead},
             caller' = [caller EXCEPT ![w] = r], UNCHANGED <<lock, content, written>>
      PROVE  TypeInv'
  <2>1. /\ caller' \in [Writers -> Locals]
        /\ \A v \in Writers : caller'[v] = IF v = w THEN r ELSE caller[v]
    BY <1>7, <1>a, LocalsReplaced
  <2>2. r.base = Nothing /\ r.pc # "write"
    BY <1>7
  <2>3. TypeOK'
    BY <1>7, <2>1, <2>2 DEF TypeInv, TypeOK, Locals, At, Nothing
  <2>4. NothingInvented'
    BY <1>7, <1>b, <2>1, <2>2 DEF TypeInv, NothingInvented
  <2> QED BY <2>3, <2>4 DEF TypeInv
<1>8. ASSUME NEW w \in Writers, LeaveFile(w) \/ Crash(w)
      PROVE  TypeInv'
  BY <1>7, <1>8 DEF LeaveFile, Crash
<1>9. CASE Age
  BY <1>9 DEF Age, TypeInv, TypeOK, NothingInvented, At
<1>10. CASE UNCHANGED vars
  BY <1>10 DEF vars, TypeInv, TypeOK, NothingInvented, At
<1> QED
  BY <1>2, <1>3, <1>4, <1>5, <1>6, <1>8, <1>9, <1>10 DEF Next, CallerStep

\* The state of the file, of its lock and of every caller keeps its type.
THEOREM TypeCorrect == Spec => []TypeOK
<1>1. TypeInv => TypeOK
  BY DEF TypeInv
<1> QED BY InitTypeInv, StepTypeInv, <1>1, PTL DEF Spec

-----------------------------------------------------------------------------
(***************************************************************************)
(* Without a crash, a slow holder or a failing marker, the marker names    *)
(* the one caller in its critical section and is never stale; that         *)
(* caller's copy of the file is the file.                                  *)
(***************************************************************************)
MarkerNamesHolder ==
  /\ \A w \in Writers : caller[w].pc \in Critical => lock.by = w
  /\ lock # NoLock =>
       /\ lock.by \in Writers
       /\ caller[lock.by].pc \in Critical
       /\ ~lock.stale

NobodyBreaks == \A w \in Writers : ~At(w, "break")

CopyIsCurrent == \A w \in Writers : At(w, "write") => caller[w].base = content

LockInv == TypeOK /\ MarkerNamesHolder /\ NobodyBreaks /\ CopyIsCurrent

\* At the start nobody holds the lock.
LEMMA InitLockInv == Init => LockInv
<1> SUFFICES ASSUME Init PROVE LockInv
  OBVIOUS
<1>1. TypeOK
  BY InitTypeInv DEF TypeInv
<1> QED BY <1>1 DEF Init, LockInv, MarkerNamesHolder, NobodyBreaks, CopyIsCurrent,
                    NoLock, Critical, At

\* Without faults every step keeps the lock with the one it names.
LEMMA StepLockInv ==
  ASSUME Faults = {}
  PROVE  LockInv /\ TypeOK' /\ [Next]_vars => LockInv'
<1> SUFFICES ASSUME LockInv, TypeOK', [Next]_vars
             PROVE  LockInv'
  OBVIOUS
<1>a. caller \in [Writers -> Locals] /\ caller' \in [Writers -> Locals]
  BY DEF LockInv, TypeOK, Locals
<1>b. NoLock.by = NoWriter
  BY DEF NoLock
\* A step outside the critical section that leaves marker and file alone.
<1>1. ASSUME NEW w \in Writers, NEW s \in Stages \ (Critical \cup {"break"}),
             Goto(w, s), caller[w].pc \notin Critical, UNCHANGED <<lock, content>>
      PROVE  LockInv'
  <2>1. \A v \in Writers : /\ caller'[v].base = caller[v].base
                         /\ caller'[v].pc = IF v = w THEN s ELSE caller[v].pc
    BY <1>1, <1>a, GotoMoves
  <2>2. MarkerNamesHolder'
    BY <1>1, <2>1 DEF LockInv, MarkerNamesHolder, NoLock
  <2>3. NobodyBreaks' /\ CopyIsCurrent'
    BY <1>1, <2>1 DEF LockInv, NobodyBreaks, CopyIsCurrent, At, Critical
  <2> QED BY <2>2, <2>3 DEF LockInv
<1>2. ASSUME NEW w \in Writers,
             Call(w) \/ CreateLockFails(w) \/ LockExists(w) \/ WaitForLock(w)
      PROVE  LockInv'
  <2>1. PICK s \in Stages \ (Critical \cup {"break"}) : Goto(w, s)
    BY <1>2 DEF Call, CreateLockFails, LockExists, WaitForLock, Stages, Critical
  <2>2. caller[w].pc \notin Critical /\ UNCHANGED <<lock, content>>
    BY <1>2 DEF Call, CreateLockFails, LockExists, WaitForLock, At, Critical
  <2> QED BY <1>1, <2>1, <2>2
<1>3. ASSUME NEW w \in Writers, StatLock(w)
      PROVE  LockInv'
  <2>1. ~IsStaleJobsFileLock
    BY DEF IsStaleJobsFileLock, LockInv, MarkerNamesHolder
  <2>2. Goto(w, "wait")
    BY <1>3, <2>1 DEF StatLock
  <2>3. caller[w].pc \notin Critical /\ UNCHANGED <<lock, content>>
    BY <1>3 DEF StatLock, At, Critical
  <2> QED BY <1>1, <2>2, <2>3 DEF Stages, Critical
<1>4. ASSUME NEW w \in Writers, CreateLock(w)
      PROVE  LockInv'
  <2>1. \A v \in Writers : /\ caller'[v].base = caller[v].base
                         /\ caller'[v].pc = IF v = w THEN "read" ELSE caller[v].pc
    BY <1>4, <1>a, GotoMoves DEF CreateLock, Stages, Critical
  <2>2. \A v \in Writers : caller[v].pc \notin Critical
    BY <1>4, <1>b DEF CreateLock, LockIsFree, LockInv, MarkerNamesHolder
  <2>3. lock'.by = w /\ ~lock'.stale
    BY <1>4 DEF CreateLock
  <2>4. MarkerNamesHolder'
    <3>1. caller'[lock'.by].pc \in Critical
      BY <2>1, <2>3 DEF Critical
    <3> QED BY <2>1, <2>2, <2>3, <3>1 DEF MarkerNamesHolder
  <2>5. NobodyBreaks' /\ CopyIsCurrent'
    BY <1>4, <2>1 DEF CreateLock, LockInv, NobodyBreaks, CopyIsCurrent, At
  <2> QED BY <2>4, <2>5 DEF LockInv
<1>5. ASSUME NEW w \in Writers, ReadFile(w) \/ WriteFile(w) \/ LeaveFile(w)
      PROVE  LockInv'
  <2>1. lock.by = w /\ lock' = lock
    BY <1>5 DEF ReadFile, WriteFile, LeaveFile, LockInv, MarkerNamesHolder, At, Critical
  <2>2. caller'[w].pc \in Critical
    BY <1>5, <1>a DEF ReadFile, WriteFile, LeaveFile, Critical
  <2>3. \A v \in Writers : v # w => caller'[v] = caller[v]
    BY <1>5, <1>a DEF ReadFile, WriteFile, LeaveFile
  <2>4. MarkerNamesHolder'
    BY <2>1, <2>2, <2>3 DEF LockInv, MarkerNamesHolder
  <2>5. NobodyBreaks'
    BY <2>2, <2>3 DEF LockInv, NobodyBreaks, At, Critical
  <2>6. \A v \in Writers \ {w} : caller[v].pc \notin Critical
    BY <2>1 DEF LockInv, MarkerNamesHolder
  <2>7. caller'[w].pc = "write" => caller'[w].base = content'
    BY <1>5, <1>a DEF ReadFile, WriteFile, LeaveFile
  <2>8. CopyIsCurrent'
    BY <2>3, <2>6, <2>7 DEF CopyIsCurrent, At, Critical
  <2> QED BY <2>4, <2>5, <2>8 DEF LockInv
<1>6. ASSUME NEW w \in Writers, Unlock(w)
      PROVE  LockInv'
  <2>1. \A v \in Writers : /\ caller'[v].base = caller[v].base
                         /\ caller'[v].pc = IF v = w THEN "idle" ELSE caller[v].pc
    BY <1>6, <1>a, GotoMoves DEF Unlock, Stages
  <2>2. lock.by = w /\ lock' = NoLock
    BY <1>6 DEF Unlock, RemoveMarker, LockInv, MarkerNamesHolder, At, Critical
  <2>3. \A v \in Writers : caller'[v].pc \notin Critical
    BY <2>1, <2>2 DEF LockInv, MarkerNamesHolder, Critical
  <2>4. MarkerNamesHolder' /\ CopyIsCurrent'
    BY <2>2, <2>3 DEF MarkerNamesHolder, CopyIsCurrent, At, Critical, NoLock
  <2>5. NobodyBreaks'
    BY <2>1 DEF LockInv, NobodyBreaks, At
  <2> QED BY <2>4, <2>5 DEF LockInv
<1>7. ASSUME NEW w \in Writers, BreakLock(w) \/ Crash(w)
      PROVE  LockInv'
  BY <1>7 DEF BreakLock, Crash, LockInv, NobodyBreaks
<1>8. CASE Age
  BY <1>8 DEF Age, LockInv, MarkerNamesHolder
<1>9. CASE UNCHANGED vars
  BY <1>9 DEF vars, LockInv, MarkerNamesHolder, NobodyBreaks, CopyIsCurrent, At, NoLock
<1> QED
  BY <1>2, <1>3, <1>4, <1>5, <1>6, <1>7, <1>8, <1>9 DEF Next, CallerStep

\* Without faults the lock invariant holds in every reachable state.
LEMMA LockInvariant ==
  ASSUME Faults = {}
  PROVE  Spec => []LockInv
<1>1. Spec => []TypeOK
  BY TypeCorrect
<1>2. LockInv /\ TypeOK' /\ [Next]_vars => LockInv'
  BY StepLockInv
<1> QED BY InitLockInv, <1>1, <1>2, PTL DEF Spec

\* However many callers share the file, no two of them are between the read
\* and the unlock of withJobsFileLock at once, as long as none crashes, stalls
\* or loses the marker.
THEOREM WritersExclude ==
  ASSUME Faults = {}
  PROVE  Spec => []OneWriterAtATime
<1>1. LockInv => OneWriterAtATime
  BY DEF LockInv, MarkerNamesHolder, OneWriterAtATime
<1> QED BY LockInvariant, <1>1, PTL

-----------------------------------------------------------------------------
\* Under the same assumption the read-modify-write cycle of the file store
\* implements the atomic store: every write is one update of the current
\* contents, every other step leaves the file alone.
THEOREM StoreIsAtomic ==
  ASSUME Faults = {}
  PROVE  Spec => UpdatesAreAtomic
<1>1. Init => Store!Init
  BY DEF Init, Store!Init, Nothing
<1>2. LockInv /\ [Next]_vars => [Store!Next]_content
  <2> SUFFICES ASSUME LockInv, [Next]_vars
               PROVE  [Store!Next]_content
    OBVIOUS
  <2>1. ASSUME NEW w \in Writers, WriteFile(w)
        PROVE  Store!Next
    <3>1. caller[w].base = content
      BY <2>1 DEF WriteFile, LockInv, CopyIsCurrent
    <3>2. content' = [content EXCEPT ![w] = @ + 1]
      BY <2>1, <3>1 DEF WriteFile
    <3> QED BY <3>2 DEF Store!Next, Store!Update
  <2>2. ASSUME NEW w \in Writers, CallerStep(w), ~WriteFile(w)
        PROVE  UNCHANGED content
    BY <2>2 DEF CallerStep, Call, CreateLock, CreateLockFails, LockExists, StatLock,
                BreakLock, WaitForLock, ReadFile, LeaveFile, Unlock
  <2>3. ASSUME NEW w \in Writers, Crash(w)
        PROVE  UNCHANGED content
    BY <2>3 DEF Crash
  <2>4. CASE Age \/ UNCHANGED vars
    BY <2>4 DEF Age, vars
  <2> QED BY <2>1, <2>2, <2>3, <2>4 DEF Next
<1> QED BY <1>1, <1>2, LockInvariant, PTL DEF Spec, UpdatesAreAtomic, Store!Spec
=============================================================================
