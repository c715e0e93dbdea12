-------------------------- MODULE WatchLoop_proofs --------------------------
(***************************************************************************)
(* Proofs about WatchLoop, for every set of logs and watchers, every set   *)
(* of mishaps and every bound.                                             *)
(***************************************************************************)
EXTENDS WatchLoop, TLAPS

USE WatchLoopAssumption DEF WatchLoopAssumption

-----------------------------------------------------------------------------
(***************************************************************************)
(* The inductive invariant.                                                *)
(***************************************************************************)
Tasks == [log : Logs, height : Heights]

StoredJobs == [status : {"absent", "open", "settled"},
               claim : Watchers \cup {NoWatcher}, height : Heights]

Cursors == [next : 1 .. MaxHeight + 1, kept : Heights]

Rounds == [pc : {"idle", "scan", "pass"}, from : 0 .. MaxHeight + 1,
           to : Heights, todo : SUBSET Tasks, scanned : SUBSET Logs,
           hand : Logs \cup {NoLog}]

Processes == [life : {"off", "starting", "watching", "dead"},
              restored : BOOLEAN, cursor : Cursors, round : Rounds]

TypeInv ==
  /\ head \in Heights /\ place \in [Logs -> Heights]
  /\ job \in [Logs -> StoredJobs]
  /\ file \in Cursors
  /\ watcher \in [Watchers -> Processes]
  /\ forgotten \in SUBSET Logs

Covered(l) == job[l].status # "absent" \/ l \in forgotten

\* A cursor vouches for no block beyond its position or the head, and every log
\* in the blocks it vouches for has its job.
CursorSound(c) ==
  /\ c.kept < c.next
  /\ c.kept <= head
  /\ \A l \in Logs : place[l] \in 1 .. c.kept => Covered(l)

\* A log up to the end of the range has its job or is still to be scanned; what
\* was scanned is in the range, and the pass deals with jobs stored below it.
RoundSound(r) ==
  /\ r.to <= head
  /\ r.pc # "idle" =>
       /\ r.from >= 1
       /\ \A l \in Logs : place[l] \in 1 .. r.to =>
            \/ Covered(l)
            \/ r.pc = "scan" /\ [log |-> l, height |-> place[l]] \in r.todo
       /\ \A l \in r.scanned : place[l] \in r.from .. r.to
       /\ \A t \in r.todo :
            IF r.pc = "scan" THEN t.height = place[t.log] /\ t.height \in r.from .. r.to
            ELSE t.height < r.from

ProcessSound(w) == CursorSound(w.cursor) /\ RoundSound(w.round)

Sound ==
  /\ \A l \in Logs : place[l] <= head
  /\ CursorSound(file)
  /\ \A p \in Watchers : ProcessSound(watcher[p])

IInv == TypeInv /\ Sound

\* The bounds and the names of the constants, as the provers read them.
LEMMA Bounds == MaxHeight \in Nat /\ NoLog \notin Logs /\ NoWatcher \notin Watchers
OBVIOUS

\* The records the program starts from.
LEMMA StartTypes ==
  /\ NoJob \in StoredJobs /\ NoJob.status = "absent"
  /\ NoCursor \in Cursors /\ NoCursor.kept = 0 /\ NoCursor.next = 1
  /\ NoRound \in Rounds /\ NoRound.pc = "idle" /\ NoRound.to = 0
  /\ Unstarted \in Processes
  /\ Unstarted.cursor = NoCursor /\ Unstarted.round = NoRound
<1>1. NoJob \in StoredJobs /\ NoJob.status = "absent"
  BY Bounds DEF NoJob, StoredJobs, Heights
<1>2. NoCursor \in Cursors /\ NoCursor.kept = 0 /\ NoCursor.next = 1
  BY Bounds DEF NoCursor, Cursors, Heights
<1>3. NoRound \in Rounds /\ NoRound.pc = "idle" /\ NoRound.to = 0
  BY Bounds DEF NoRound, Rounds, Heights
<1>4. Unstarted.cursor = NoCursor /\ Unstarted.round = NoRound
  BY DEF Unstarted
<1>5. Unstarted \in Processes
  BY <1>2, <1>3 DEF Unstarted, Processes
<1> QED BY <1>1, <1>2, <1>3, <1>4, <1>5

\* A cursor at the first block and an idle round vouch for nothing.
LEMMA StartSound ==
  ASSUME head \in Heights
  PROVE  CursorSound(NoCursor) /\ RoundSound(NoRound)
BY Bounds, StartTypes DEF CursorSound, RoundSound, Heights

\* At the start every cursor and every round vouches for nothing.
LEMMA InitSound == Init => IInv
<1> SUFFICES ASSUME Init PROVE IInv
  OBVIOUS
<1>1. TypeInv
  BY Bounds, StartTypes DEF Init, TypeInv, Heights
<1>2. CursorSound(file) /\ \A p \in Watchers : ProcessSound(watcher[p])
  <2>1. file = NoCursor /\ CursorSound(NoCursor) /\ RoundSound(NoRound)
    BY <1>1, StartSound DEF Init, TypeInv
  <2>2. \A p \in Watchers : watcher[p].cursor = NoCursor /\ watcher[p].round = NoRound
    BY StartTypes DEF Init
  <2> QED BY <2>1, <2>2 DEF ProcessSound
<1>3. \A l \in Logs : place[l] <= head
  <2>1. head = 0 /\ \A l \in Logs : place[l] = 0
    BY DEF Init
  <2>2. 0 <= 0
    OBVIOUS
  <2> QED BY <2>1, <2>2
<1> QED BY <1>1, <1>2, <1>3 DEF IInv, Sound

\* A round step or a mishap: the chain stays and no log loses its cover.
ChainStays ==
  /\ head' = head /\ place' = place
  /\ job' \in [Logs -> StoredJobs]
  /\ forgotten' \in SUBSET Logs
  /\ \A l \in Logs : Covered(l) => Covered(l)'

\* Then every sound cursor and round stays sound.
LEMMA SoundStays ==
  ASSUME IInv, ChainStays
  PROVE  /\ \A c \in Cursors : CursorSound(c) => CursorSound(c)'
         /\ \A r \in Rounds : RoundSound(r) => RoundSound(r)'
<1>1. ASSUME NEW c \in Cursors, CursorSound(c) PROVE CursorSound(c)'
  BY <1>1 DEF CursorSound, ChainStays
<1>2. ASSUME NEW r \in Rounds, RoundSound(r) PROVE RoundSound(r)'
  BY <1>2 DEF RoundSound, ChainStays
<1> QED BY <1>1, <1>2

\* One watcher moves to a sound state, or the cursor file is replaced by a sound
\* position, or both.
LEMMA WatcherMoves ==
  ASSUME IInv, ChainStays,
         NEW p \in Watchers, NEW w \in Processes, watcher' = [watcher EXCEPT ![p] = w],
         CursorSound(w.cursor)', RoundSound(w.round)',
         NEW c \in Cursors, file' = c, CursorSound(c)'
  PROVE  IInv'
<1> USE DEF IInv
<1>1. TypeInv'
  BY DEF TypeInv, ChainStays
<1>2. ASSUME NEW q \in Watchers, q # p PROVE ProcessSound(watcher[q])'
  <2>1. PICK v \in Processes : v = watcher[q]
    BY DEF TypeInv
  <2>2. watcher'[q] = v
    BY <1>2, <2>1 DEF TypeInv
  <2>3. CursorSound(v.cursor)' /\ RoundSound(v.round)'
    BY <2>1, SoundStays DEF Sound, ProcessSound, Processes
  <2> QED BY <2>2, <2>3 DEF ProcessSound, CursorSound, RoundSound, Covered
<1>3. ProcessSound(watcher[p])'
  <2>1. watcher'[p] = w
    BY DEF TypeInv
  <2> QED BY <2>1 DEF ProcessSound, CursorSound, RoundSound, Covered
<1>4. CursorSound(file)'
  BY DEF CursorSound, Covered
<1>5. \A l \in Logs : place'[l] <= head'
  BY DEF Sound, ChainStays
<1> QED BY <1>1, <1>2, <1>3, <1>4, <1>5 DEF Sound

\* The common case: the round of one watcher changes, its cursor stays.
LEMMA RoundMoves ==
  ASSUME IInv, ChainStays, file' = file,
         NEW p \in Watchers, NEW w \in Processes, watcher' = [watcher EXCEPT ![p] = w],
         w.cursor = watcher[p].cursor, RoundSound(w.round)'
  PROVE  IInv'
<1>1. PICK c \in Cursors : c = file
  BY DEF IInv, TypeInv
<1>2. CursorSound(c)'
  BY <1>1, SoundStays DEF IInv, Sound
<1>3. CursorSound(w.cursor)'
  BY SoundStays DEF IInv, Sound, ProcessSound, Processes
<1> QED BY <1>1, <1>2, <1>3, WatcherMoves

-----------------------------------------------------------------------------
(***************************************************************************)
(* The chain: only blocks above every range and every vouched block move.  *)
(***************************************************************************)

\* A new block lies above everything a cursor or a round vouches for.
LEMMA GrowSound ==
  ASSUME IInv, NEW logs \in SUBSET Logs, Grow(logs)
  PROVE  IInv'
<1> USE Bounds DEF IInv
<1>1. /\ head \in Heights /\ head' = head + 1 /\ head' \in Heights
      /\ \A l \in Logs : place[l] # 0 => place'[l] = place[l]
      /\ \A l \in Logs : place'[l] # 0 /\ place[l] = 0 => place'[l] = head'
      /\ \A l \in Logs : place[l] \in 0 .. head /\ place'[l] \in 0 .. head'
      /\ UNCHANGED <<job, file, watcher, forgotten>>
  BY DEF Grow, TypeInv, Heights, Sound
<1>2. TypeInv'
  BY <1>1 DEF TypeInv, Grow, Heights
<1>3. \A l \in Logs : Covered(l) <=> Covered(l)'
  BY <1>1 DEF Covered
<1>4. ASSUME NEW c \in Cursors, CursorSound(c) PROVE CursorSound(c)'
  BY <1>1, <1>3, <1>4 DEF CursorSound, Cursors, Heights
<1>5. ASSUME NEW r \in Rounds, RoundSound(r) PROVE RoundSound(r)'
  <2>1. r.to \in Nat /\ r.to <= head /\ r.from \in Nat /\ r.scanned \subseteq Logs
        /\ \A t \in r.todo : t.log \in Logs
    BY <1>5 DEF RoundSound, Rounds, Heights, Tasks
  <2>2. \A l \in Logs : place'[l] \in 1 .. r.to => place'[l] = place[l]
    BY <1>1, <2>1 DEF Heights
  <2>3. \A l \in Logs : r.from >= 1 /\ place[l] \in r.from .. r.to => place'[l] = place[l]
    BY <1>1, <2>1
  <2> QED BY <1>1, <1>3, <1>5, <2>1, <2>2, <2>3 DEF RoundSound
<1>6. \A p \in Watchers : ProcessSound(watcher[p])'
  BY <1>1, <1>4, <1>5 DEF Sound, ProcessSound, TypeInv, Processes
<1> QED BY <1>1, <1>2, <1>4, <1>6 DEF Sound, TypeInv

\* A reorganisation moves only logs nobody vouches for.
LEMMA ReorgSound ==
  ASSUME IInv, NEW keep \in Heights, Reorg(keep)
  PROVE  IInv'
<1> USE Bounds DEF IInv
<1>1. /\ head' = head /\ keep < head /\ UNCHANGED <<job, forgotten>>
      /\ \A l \in Logs : place'[l] \in 0 .. head
      /\ \A l \in Logs : place[l] \in 1 .. keep => place'[l] = place[l]
      /\ \A l \in Logs : place'[l] \in 1 .. keep => place'[l] = place[l]
  BY DEF Reorg, TypeInv, Heights
<1>2. \A l \in Logs : Covered(l) <=> Covered(l)'
  BY <1>1 DEF Covered
<1>3. ASSUME NEW c \in Cursors, CursorSound(c)
      PROVE  Cut(c, keep) \in Cursors /\ CursorSound(Cut(c, keep))'
  <2>1. /\ Cut(c, keep) \in Cursors
        /\ Cut(c, keep).next = c.next
        /\ Cut(c, keep).kept <= c.kept /\ Cut(c, keep).kept <= keep
    BY DEF Cut, Cursors, Heights
  <2>2. PICK d \in Cursors : d = Cut(c, keep)
    BY <2>1
  <2>3. d.kept < d.next /\ d.kept <= head' /\ d.kept <= c.kept /\ d.kept <= keep
    BY <1>1, <1>3, <2>1, <2>2 DEF CursorSound, Cursors, Heights, TypeInv
  <2>4. \A l \in Logs : place'[l] \in 1 .. d.kept => place[l] \in 1 .. c.kept
    BY <1>1, <2>3 DEF Cursors, Heights, TypeInv
  <2>5. CursorSound(d)'
    BY <1>2, <1>3, <2>3, <2>4 DEF CursorSound
  <2> QED BY <2>1, <2>2, <2>5 DEF CursorSound
<1>4. ASSUME NEW r \in Rounds, RoundSound(r), r.to <= keep PROVE RoundSound(r)'
  <2>1. r.to \in Nat /\ r.from \in Nat /\ keep \in Nat /\ r.scanned \subseteq Logs
        /\ \A t \in r.todo : t.log \in Logs
    BY DEF Rounds, Heights, Tasks
  <2>2. \A l \in Logs : place'[l] \in 1 .. r.to => place'[l] = place[l]
    BY <1>1, <1>4, <2>1
  <2>3. \A l \in Logs : r.from >= 1 /\ place[l] \in r.from .. r.to => place'[l] = place[l]
    BY <1>1, <1>4, <2>1 DEF TypeInv, Heights
  <2> QED BY <1>1, <1>2, <1>4, <2>1, <2>2, <2>3 DEF RoundSound
<1>5. file' \in Cursors /\ CursorSound(file)'
  <2>1. PICK c \in Cursors : c = file
    BY DEF TypeInv
  <2>2. file' = Cut(c, keep)
    BY <2>1 DEF Reorg
  <2>3. Cut(c, keep) \in Cursors /\ CursorSound(Cut(c, keep))'
    BY <1>3, <2>1 DEF Sound
  <2> QED BY <2>2, <2>3 DEF CursorSound, Covered, Cut
<1>6. ASSUME NEW p \in Watchers
      PROVE  watcher'[p] \in Processes /\ ProcessSound(watcher[p])'
  <2>1. PICK w \in Processes : w = watcher[p]
    BY DEF TypeInv
  <2>2. watcher'[p] = [w EXCEPT !.cursor = Cut(w.cursor, keep)]
    BY <2>1 DEF Reorg
  <2>3. /\ Cut(w.cursor, keep) \in Cursors
        /\ CursorSound(Cut(w.cursor, keep))'
        /\ RoundSound(w.round)'
    BY <1>3, <1>4, <2>1 DEF Sound, ProcessSound, Processes, Reorg
  <2>4. PICK c : c = Cut(w.cursor, keep)
    OBVIOUS
  <2>5. watcher'[p] \in Processes
    BY <2>2, <2>3 DEF Processes
  <2>6. watcher'[p].cursor = c /\ watcher'[p].round = w.round
    BY <2>2, <2>4 DEF Processes
  <2>7. CursorSound(c)'
    BY <2>3, <2>4
  <2> QED BY <2>3, <2>5, <2>6, <2>7 DEF ProcessSound, CursorSound, RoundSound, Covered
<1>7. TypeInv'
  <2>1. watcher' \in [Watchers -> Processes]
    BY <1>6 DEF Reorg
  <2>2. place' \in [Logs -> Heights]
    BY <1>1 DEF Reorg, TypeInv, Heights
  <2> QED BY <1>1, <1>5, <2>1, <2>2 DEF TypeInv
<1>8. \A l \in Logs : place'[l] <= head'
  BY <1>1 DEF TypeInv, Heights
<1> QED BY <1>5, <1>6, <1>7, <1>8 DEF Sound

-----------------------------------------------------------------------------
(***************************************************************************)
(* The steps of a round.                                                   *)
(***************************************************************************)

\* A write that removes no job takes no cover away.
LEMMA WriteStays ==
  ASSUME IInv, UNCHANGED <<head, place, forgotten>>, job' \in [Logs -> StoredJobs],
         \A l \in Logs : job[l].status # "absent" => job'[l].status # "absent"
  PROVE  ChainStays
BY DEF IInv, TypeInv, ChainStays, Covered

\* A step that leaves the chain and the jobs alone keeps what is vouched for.
LEMMA StoreStays ==
  ASSUME IInv, UNCHANGED <<head, place, job, forgotten>>
  PROVE  ChainStays
BY WriteStays DEF IInv, TypeInv

\* A watcher is started.
LEMMA StartSteps ==
  ASSUME IInv, NEW p \in Watchers, Start(p)
  PROVE  IInv'
<1>1. PICK w \in Processes : w = [watcher[p] EXCEPT !.life = "starting"]
  BY DEF IInv, TypeInv, Processes
<1>2. w.cursor = watcher[p].cursor /\ w.round = watcher[p].round
  BY <1>1 DEF IInv, TypeInv, Processes
<1>3. /\ watcher' = [watcher EXCEPT ![p] = w]
      /\ UNCHANGED <<head, place, job, file, forgotten>>
  BY <1>1 DEF Start
<1>4. ChainStays
  BY <1>3, StoreStays
<1>5. RoundSound(w.round)'
  BY <1>2, <1>4, SoundStays DEF IInv, Sound, ProcessSound, Processes
<1> QED BY <1>2, <1>3, <1>4, <1>5, RoundMoves

\* The position a round starts from is sound, and what lies between it and the
\* first block of the round is nothing, or is vouched for.
LEMMA BeginSteps ==
  ASSUME IInv, NEW p \in Watchers, NEW from \in 1 .. MaxHeight + 1, BeginRound(p, from)
  PROVE  IInv'
<1> USE Bounds DEF IInv
<1>0. head \in Nat /\ head \in Heights /\ place \in [Logs -> Heights]
  BY DEF TypeInv, Heights
<1>1. PICK c \in Cursors : c = Position(p) /\ CursorSound(c)
  BY DEF TypeInv, Processes, Position, Sound, ProcessSound
<1>2. from <= c.kept + 1
  BY <1>1 DEF BeginRound, RoundStarts, Cursors, Heights, CursorSound
<1>3. LogsIn(from, head) \in SUBSET Tasks
  BY <1>0 DEF LogsIn, Tasks
<1>4. PICK r \in Rounds :
        r = [NoRound EXCEPT !.pc = "scan", !.from = from, !.to = head,
                            !.todo = LogsIn(from, head)]
  <2>1. from \in 0 .. MaxHeight + 1
    OBVIOUS
  <2>2. [NoRound EXCEPT !.pc = "scan", !.from = from, !.to = head,
                        !.todo = LogsIn(from, head)] \in Rounds
    BY <1>0, <1>3, <2>1, StartTypes DEF Rounds
  <2> QED BY <2>2
<1>5. /\ r.pc = "scan" /\ r.from = from /\ r.to = head
      /\ r.todo = LogsIn(from, head) /\ r.scanned = {}
  BY <1>4 DEF NoRound
<1>6. ASSUME NEW l \in Logs, place[l] \in 1 .. head
      PROVE  Covered(l) \/ [log |-> l, height |-> place[l]] \in r.todo
  <2>1. CASE place[l] >= from
    <3>1. l \in {k \in Logs : place[k] \in from .. head}
      BY <1>0, <1>6, <2>1
    <3> QED BY <1>5, <3>1 DEF LogsIn
  <2>2. CASE ~(place[l] >= from)
    <3>1. place[l] \in 1 .. c.kept
      BY <1>0, <1>2, <1>6, <2>2 DEF Cursors, Heights
    <3> QED BY <1>1, <3>1 DEF CursorSound
  <2> QED BY <2>1, <2>2
<1>7. \A t \in r.todo : t.height = place[t.log] /\ t.height \in from .. head
  BY <1>5 DEF LogsIn
<1>8. RoundSound(r)
  BY <1>0, <1>5, <1>6, <1>7 DEF RoundSound
<1>9. PICK w \in Processes :
        w = [watcher[p] EXCEPT !.restored = TRUE, !.cursor = c, !.round = r]
  BY DEF TypeInv, Processes
<1>10. w.cursor = c /\ w.round = r
  BY <1>9 DEF TypeInv, Processes
<1>11. /\ watcher' = [watcher EXCEPT ![p] = w]
       /\ UNCHANGED <<head, place, job, file, forgotten>>
  BY <1>1, <1>4, <1>9 DEF BeginRound
<1>12. ChainStays
  BY <1>11, StoreStays
<1>13. PICK f \in Cursors : f = file
  BY DEF TypeInv
<1>14. CursorSound(f)' /\ CursorSound(w.cursor)' /\ RoundSound(w.round)'
  BY <1>1, <1>8, <1>10, <1>12, <1>13, SoundStays DEF Sound
<1> QED BY <1>11, <1>12, <1>13, <1>14, WatcherMoves

\* A log that is taken up has its job from then on.
LEMMA TakeSteps ==
  ASSUME IInv, NEW p \in Watchers, NEW task \in watcher[p].round.todo,
         TakeTask(p, task)
  PROVE  IInv'
<1> USE Bounds DEF IInv
<1>1. PICK v \in Processes : v = watcher[p]
  BY DEF TypeInv
<1>2. v.round \in Rounds /\ RoundSound(v.round) /\ v.round.pc \in {"scan", "pass"}
  BY <1>1 DEF Sound, ProcessSound, Processes, TakeTask, At
<1>3. PICK l \in Logs : l = task.log /\ task.height \in Heights
  BY <1>1, <1>2 DEF Rounds, Tasks
<1>4. /\ job' \in [Logs -> StoredJobs]
      /\ job'[l].status # "absent"
      /\ \A k \in Logs : k # l => job'[k] = job[k]
      /\ UNCHANGED <<head, place, file, forgotten>>
  <2> DEFINE found == IF job[l].status # "absent" THEN job[l]
                      ELSE [status |-> "open", claim |-> NoWatcher,
                            height |-> task.height]
  <2>1. found \in StoredJobs /\ found.status # "absent"
    BY <1>3 DEF TypeInv, StoredJobs
  <2>2. [found EXCEPT !.claim = p] \in StoredJobs
        /\ [found EXCEPT !.claim = p].status # "absent"
    BY <2>1 DEF StoredJobs
  <2>3. \/ job' = [job EXCEPT ![l] = [found EXCEPT !.claim = p]]
        \/ job' = [job EXCEPT ![l] = found]
    BY <1>3 DEF TakeTask, HandleLog
  <2>4. UNCHANGED <<head, place, file, forgotten>>
    BY DEF TakeTask, HandleLog
  <2> HIDE DEF found
  <2> QED BY <2>1, <2>2, <2>3, <2>4 DEF TypeInv
<1>5. ChainStays
  BY <1>4, WriteStays
<1>6. Covered(l)'
  BY <1>4 DEF Covered
<1>7. PICK r \in Rounds :
        /\ watcher' = [watcher EXCEPT ![p].round = r]
        /\ r.pc = v.round.pc /\ r.from = v.round.from /\ r.to = v.round.to
        /\ r.todo = v.round.todo \ {task}
        /\ r.scanned = IF v.round.pc = "scan" THEN v.round.scanned \cup {l}
                       ELSE v.round.scanned
  <2> DEFINE todo == v.round.todo \ {task}
             scanned == IF v.round.pc = "scan" THEN v.round.scanned \cup {l}
                        ELSE v.round.scanned
             rec(h) == [v.round EXCEPT !.todo = todo, !.scanned = scanned, !.hand = h]
  <2>1. PICK h \in Logs \cup {NoLog} : watcher' = [watcher EXCEPT ![p].round = rec(h)]
    BY <1>1, <1>3 DEF TakeTask, HandleLog
  <2>2. rec(h) \in Rounds
    BY <1>2 DEF Rounds
  <2>3. /\ rec(h).pc = v.round.pc /\ rec(h).from = v.round.from
        /\ rec(h).to = v.round.to /\ rec(h).todo = todo /\ rec(h).scanned = scanned
    BY <1>2 DEF Rounds
  <2> HIDE DEF rec
  <2> QED BY <2>1, <2>2, <2>3
<1>8. PICK w \in Processes : w = [watcher[p] EXCEPT !.round = r]
  BY DEF TypeInv, Processes
<1>9. w.cursor = watcher[p].cursor /\ w.round = r
  BY <1>8 DEF TypeInv, Processes
<1>10. watcher' = [watcher EXCEPT ![p] = w]
  BY <1>7, <1>8
<1>11. RoundSound(r)'
  <2>1. RoundSound(v.round)'
    BY <1>2, <1>5, SoundStays
  <2>2. \A k \in Logs : place'[k] \in 1 .. r.to =>
          \/ Covered(k)'
          \/ r.pc = "scan" /\ [log |-> k, height |-> place'[k]] \in r.todo
    <3> SUFFICES ASSUME NEW k \in Logs, place'[k] \in 1 .. r.to, k # l
                 PROVE  \/ Covered(k)'
                        \/ r.pc = "scan" /\ [log |-> k, height |-> place'[k]] \in r.todo
      BY <1>6
    <3>1. [log |-> k, height |-> place'[k]] # task
      <4>1. PICK t : t = [log |-> k, height |-> place'[k]]
        OBVIOUS
      <4>2. t.log = k
        BY <4>1
      <4>3. t # task
        BY <1>3, <4>2
      <4> QED BY <4>1, <4>3
    <3>2. \/ Covered(k)'
          \/ v.round.pc = "scan" /\ [log |-> k, height |-> place'[k]] \in v.round.todo
      BY <1>2, <1>7, <2>1 DEF RoundSound
    <3> QED BY <1>7, <3>1, <3>2
  <2>3. \A k \in r.scanned : place'[k] \in r.from .. r.to
    BY <1>1, <1>2, <1>3, <1>7, <2>1 DEF RoundSound
  <2> QED BY <1>2, <1>7, <2>1, <2>2, <2>3 DEF RoundSound
<1> QED BY <1>4, <1>5, <1>9, <1>10, <1>11, RoundMoves

\* A verdict is written on a job that is there.
LEMMA ConcludeSteps ==
  ASSUME IInv, NEW p \in Watchers, NEW s \in {"open", "settled"}, Conclude(p, s)
  PROVE  IInv'
<1> USE Bounds DEF IInv
<1>1. PICK v \in Processes : v = watcher[p]
  BY DEF TypeInv
<1>2. v.round.hand \in Logs /\ v.round \in Rounds
  BY <1>1 DEF Conclude, FreeHanded, Processes, Rounds
<1>3. /\ job' \in [Logs -> StoredJobs]
      /\ \A l \in Logs : job[l].status # "absent" => job'[l].status # "absent"
      /\ UNCHANGED <<head, place, file, forgotten>>
  <2>1. PICK l \in Logs : l = v.round.hand
    BY <1>2
  <2>2. /\ [job[l] EXCEPT !.status = s, !.claim = NoWatcher] \in StoredJobs
        /\ [job[l] EXCEPT !.status = s, !.claim = NoWatcher].status = s
    BY DEF TypeInv, StoredJobs
  <2>3. \/ job' = job
        \/ job' = [job EXCEPT ![l] = [job[l] EXCEPT !.status = s, !.claim = NoWatcher]]
    BY <1>1, <2>1 DEF Conclude
  <2> QED BY <2>2, <2>3 DEF Conclude, TypeInv
<1>4. ChainStays
  BY <1>3, WriteStays
<1>5. PICK r \in Rounds : r = [v.round EXCEPT !.hand = NoLog]
  BY <1>2 DEF Rounds
<1>6. PICK w \in Processes : w = [v EXCEPT !.round = r]
  BY DEF Processes
<1>7. w.cursor = watcher[p].cursor /\ w.round = r
  BY <1>1, <1>6 DEF Processes
<1>8. watcher' = [watcher EXCEPT ![p] = w]
  BY <1>1, <1>5, <1>6 DEF Conclude
<1>9. RoundSound(r)'
  <2>1. RoundSound(v.round)'
    BY <1>1, <1>2, <1>4, SoundStays DEF Sound, ProcessSound
  <2>2. /\ r.pc = v.round.pc /\ r.from = v.round.from /\ r.to = v.round.to
        /\ r.todo = v.round.todo /\ r.scanned = v.round.scanned
    BY <1>2, <1>5 DEF Rounds
  <2> QED BY <2>1, <2>2 DEF RoundSound
<1> QED BY <1>3, <1>4, <1>7, <1>8, <1>9, RoundMoves

\* When the scan is through, every log of its range has its job; the pass takes
\* the jobs that were stored below the range.
LEMMA RevisitSteps ==
  ASSUME IInv, NEW p \in Watchers, RevisitOpenJobs(p)
  PROVE  IInv'
<1> USE Bounds DEF IInv
<1>1. PICK v \in Processes : v = watcher[p]
  BY DEF TypeInv
<1>2. /\ v.round \in Rounds /\ v.round.pc = "scan" /\ v.round.todo = {}
      /\ UNCHANGED <<head, place, job, file, forgotten>>
  BY <1>1 DEF RevisitOpenJobs, At, Processes
<1>3. ChainStays
  BY <1>2, StoreStays
<1>4. OpenJobs(p) \in SUBSET Tasks /\ \A t \in OpenJobs(p) : t.height < v.round.from
  BY <1>1 DEF OpenJobs, BehindRound, TypeInv, StoredJobs, Tasks
<1>5. PICK r \in Rounds : r = [v.round EXCEPT !.pc = "pass", !.todo = OpenJobs(p)]
  BY <1>2, <1>4 DEF Rounds
<1>6. /\ r.pc = "pass" /\ r.from = v.round.from /\ r.to = v.round.to
      /\ r.todo = OpenJobs(p) /\ r.scanned = v.round.scanned
  BY <1>2, <1>5 DEF Rounds
<1>7. PICK w \in Processes : w = [v EXCEPT !.round = r]
  BY DEF Processes
<1>8. w.cursor = watcher[p].cursor /\ w.round = r
  BY <1>1, <1>7 DEF Processes
<1>9. watcher' = [watcher EXCEPT ![p] = w]
  BY <1>1, <1>5, <1>7 DEF RevisitOpenJobs
<1>10. RoundSound(r)
  <2>1. RoundSound(v.round)
    BY <1>1 DEF Sound, ProcessSound
  <2> QED BY <1>2, <1>4, <1>6, <2>1 DEF RoundSound
<1>11. RoundSound(w.round)'
  BY <1>3, <1>8, <1>10, SoundStays
<1> QED BY <1>2, <1>3, <1>8, <1>9, <1>11, RoundMoves

\* A position is saved when everything up to the end of the range has its job.
LEMMA SaveSteps ==
  ASSUME IInv, NEW p \in Watchers, SaveCursor(p)
  PROVE  IInv'
<1> USE Bounds DEF IInv
<1>0. UNCHANGED <<head, place, job, forgotten>>
  BY DEF SaveCursor
<1>1. ChainStays
  BY <1>0, StoreStays
<1>2. PICK v \in Processes : v = watcher[p]
  BY DEF TypeInv
<1>3. /\ v.round \in Rounds /\ v.cursor \in Cursors
      /\ v.round.pc = "pass" /\ v.round.todo = {}
      /\ RoundSound(v.round) /\ CursorSound(v.cursor)
  BY <1>2 DEF SaveCursor, At, Processes, Sound, ProcessSound
<1>4. NoRound \in Rounds /\ RoundSound(NoRound)'
  BY <1>1, StartTypes, StartSound, SoundStays DEF TypeInv
<1>5. PICK w \in Processes : w = [v EXCEPT !.life = "watching", !.round = NoRound]
  BY <1>4 DEF Processes
<1>6. w.cursor = v.cursor /\ w.round = NoRound
  BY <1>5 DEF Processes
<1>7. CASE v.round.from > v.round.to
  <2>1. watcher' = [watcher EXCEPT ![p] = w] /\ file' = file
    BY <1>2, <1>5, <1>7 DEF SaveCursor, Returned
  <2> QED BY <1>1, <1>2, <1>4, <1>6, <2>1, RoundMoves
<1>8. CASE ~(v.round.from > v.round.to)
  <2>1. v.round.to \in Heights /\ v.round.to <= head /\ v.round.from >= 1
        /\ \A l \in Logs : place[l] \in 1 .. v.round.to => Covered(l)
    BY <1>3 DEF RoundSound, Rounds
  <2>2. PICK c \in Cursors : c = [next |-> v.round.to + 1, kept |-> v.round.to]
    <3>1. PICK to \in Heights : to = v.round.to
      BY <2>1
    <3>2. to + 1 \in 1 .. MaxHeight + 1
      BY DEF Heights
    <3> QED BY <3>1, <3>2 DEF Cursors
  <2>3. CursorSound(c)
    BY <2>1, <2>2 DEF CursorSound, Heights
  <2>4. PICK u \in Processes : u = [w EXCEPT !.cursor = c]
    BY DEF Processes
  <2>5. u.cursor = c /\ u.round = NoRound
    BY <1>6, <2>4 DEF Processes
  <2>6. watcher' = [watcher EXCEPT ![p] = u] /\ file' = c
    BY <1>2, <1>5, <1>8, <2>2, <2>4 DEF SaveCursor, Returned, Reached
  <2>7. CursorSound(c)'
    BY <1>1, <2>3, SoundStays
  <2> QED BY <1>1, <1>4, <2>5, <2>6, <2>7, WatcherMoves
<1> QED BY <1>7, <1>8

-----------------------------------------------------------------------------
(***************************************************************************)
(* Failures.                                                               *)
(***************************************************************************)

\* A round that throws forgets its range; the jobs it has found stay.
LEMMA ThrownSteps ==
  ASSUME IInv, NEW p \in Watchers, Thrown(p)
  PROVE  IInv'
<1> USE Bounds DEF IInv
<1>1. /\ job' \in [Logs -> StoredJobs]
      /\ \A l \in Logs : job[l].status # "absent" => job'[l].status # "absent"
      /\ UNCHANGED <<head, place, file, forgotten>>
  <2>1. \A l \in Logs : /\ [job[l] EXCEPT !.claim = NoWatcher] \in StoredJobs
                        /\ [job[l] EXCEPT !.claim = NoWatcher].status = job[l].status
    BY DEF TypeInv, StoredJobs
  <2> QED BY <2>1 DEF Thrown, Unclaimed, TypeInv
<1>2. ChainStays
  BY <1>1, WriteStays
<1>3. NoRound \in Rounds /\ RoundSound(NoRound)'
  BY <1>2, StartTypes, StartSound, SoundStays DEF TypeInv
<1>4. PICK w \in Processes :
        /\ w = [watcher[p] EXCEPT !.round = NoRound,
                                  !.life = IF @ = "starting" THEN "dead" ELSE @]
        /\ w.cursor = watcher[p].cursor /\ w.round = NoRound
  <2>1. PICK v \in Processes : v = watcher[p]
    BY DEF TypeInv
  <2>2. PICK life \in {"off", "starting", "watching", "dead"} :
          life = IF v.life = "starting" THEN "dead" ELSE v.life
    BY DEF Processes
  <2>3. /\ [v EXCEPT !.round = NoRound, !.life = life] \in Processes
        /\ [v EXCEPT !.round = NoRound, !.life = life].cursor = v.cursor
        /\ [v EXCEPT !.round = NoRound, !.life = life].round = NoRound
    BY <1>3 DEF Processes
  <2> QED BY <2>1, <2>2, <2>3
<1>5. watcher' = [watcher EXCEPT ![p] = w]
  BY <1>4 DEF Thrown
<1> QED BY <1>1, <1>2, <1>3, <1>4, <1>5, RoundMoves

\* A watcher dies, and with it all that its memory vouched for.
LEMMA CrashSteps ==
  ASSUME IInv, NEW p \in Watchers, Crash(p)
  PROVE  IInv'
<1> USE Bounds DEF IInv
<1>1. UNCHANGED <<head, place, job, file, forgotten>>
  BY DEF Crash
<1>2. ChainStays
  BY <1>1, StoreStays
<1>3. PICK w \in Processes :
        /\ w = [Unstarted EXCEPT !.life = "dead"]
        /\ w.cursor = NoCursor /\ w.round = NoRound
  <2>1. /\ [Unstarted EXCEPT !.life = "dead"] \in Processes
        /\ [Unstarted EXCEPT !.life = "dead"].cursor = Unstarted.cursor
        /\ [Unstarted EXCEPT !.life = "dead"].round = Unstarted.round
    BY StartTypes DEF Processes
  <2> QED BY <2>1, StartTypes
<1>4. watcher' = [watcher EXCEPT ![p] = w]
  BY <1>3 DEF Crash
<1>5. CursorSound(NoCursor)' /\ RoundSound(NoRound)'
  BY <1>2, StartTypes, StartSound, SoundStays DEF TypeInv
<1>6. PICK c \in Cursors : c = file
  BY DEF TypeInv
<1>7. CursorSound(c)'
  BY <1>2, <1>6, SoundStays DEF Sound
<1>8. CursorSound(w.cursor)' /\ RoundSound(w.round)'
  BY <1>3, <1>5
<1> QED BY <1>1, <1>2, <1>4, <1>6, <1>7, <1>8, WatcherMoves

\* A damaged file is no news to a round that is under way.
LEMMA QuarantineSteps ==
  ASSUME IInv, QuarantineJobs \/ QuarantineCursor
  PROVE  IInv'
<1> USE Bounds DEF IInv
<1>1. watcher' = watcher /\ UNCHANGED <<head, place>>
  BY DEF QuarantineJobs, QuarantineCursor
<1>2. ChainStays
  <2>1. CASE QuarantineJobs
    <3>1. job' \in [Logs -> StoredJobs] /\ forgotten' \in SUBSET Logs
      BY <2>1, StartTypes DEF QuarantineJobs, TypeInv
    <3>2. \A l \in Logs : Covered(l) => Covered(l)'
      BY <2>1 DEF QuarantineJobs, Covered
    <3> QED BY <1>1, <3>1, <3>2 DEF ChainStays
  <2>2. CASE QuarantineCursor
    BY <2>2, StoreStays DEF QuarantineCursor
  <2> QED BY <2>1, <2>2
<1>3. PICK c \in Cursors : file' = c /\ CursorSound(c)
  BY StartTypes, StartSound DEF QuarantineJobs, QuarantineCursor, TypeInv, Sound
<1>4. CursorSound(c)'
  BY <1>2, <1>3, SoundStays
<1>5. ASSUME NEW p \in Watchers PROVE ProcessSound(watcher[p])'
  <2>1. PICK v \in Processes : v = watcher[p]
    BY DEF TypeInv
  <2>2. CursorSound(v.cursor)' /\ RoundSound(v.round)'
    BY <1>2, <2>1, SoundStays DEF Sound, ProcessSound, Processes
  <2> QED BY <1>1, <2>1, <2>2 DEF ProcessSound, CursorSound, RoundSound, Covered
<1>6. TypeInv'
  BY <1>1, <1>2, <1>3 DEF TypeInv, ChainStays
<1>7. CursorSound(file)'
  BY <1>3, <1>4 DEF CursorSound, Covered
<1> QED BY <1>1, <1>2, <1>5, <1>6, <1>7 DEF Sound, ChainStays

-----------------------------------------------------------------------------
(***************************************************************************)
(* Theorems.                                                               *)
(***************************************************************************)

\* Every step keeps cursors and rounds sound.
LEMMA SoundStep == IInv /\ [Next]_vars => IInv'
<1> SUFFICES ASSUME IInv, [Next]_vars PROVE IInv'
  OBVIOUS
<1>1. CASE UNCHANGED vars
  BY <1>1 DEF vars, IInv, TypeInv, Sound, ProcessSound, CursorSound, RoundSound,
              Covered
<1>2. CASE ChainStep
  BY <1>2, GrowSound, ReorgSound DEF ChainStep
<1>3. ASSUME NEW p \in Watchers, RoundStep(p) PROVE IInv'
  BY <1>3, BeginSteps, TakeSteps, RevisitSteps, SaveSteps DEF RoundStep
<1>4. ASSUME NEW p \in Watchers, RoundFails(p) \/ JobNotFound(p) PROVE IInv'
  BY <1>4, ThrownSteps DEF RoundFails, JobNotFound
<1> QED BY <1>1, <1>2, <1>3, <1>4, StartSteps, ConcludeSteps, CrashSteps,
           QuarantineSteps DEF Next

\* The inductive invariant holds in every reachable state.
THEOREM SoundAlways == Spec => []IInv
BY InitSound, SoundStep, PTL DEF Spec

\* The chain, the stores and every watcher keep their types.
THEOREM TypeCorrect == Spec => []TypeOK
<1>1. IInv => TypeOK
  BY DEF IInv, TypeInv, TypeOK, Processes, Rounds, Cursors, StoredJobs, Tasks
<1> QED BY <1>1, SoundAlways, PTL

\* Whatever rounds fail, watchers crash, overlap or start late, files are
\* damaged and blocks are replaced: a log in a block that a cursor vouches for
\* has its job, unless that job was moved aside with a damaged jobs file.
THEOREM NoLogPassedBy == Spec => []LogsBehindCursorHaveJobs
<1>1. ASSUME NEW c \in Cursors, CursorSound(c), NEW l \in Logs, place[l] \in Behind(c)
      PROVE  Covered(l)
  <2>1. place[l] \in 1 .. c.kept
    BY <1>1 DEF Behind, CursorSound
  <2> QED BY <1>1, <2>1 DEF CursorSound
<1>2. IInv => LogsBehindCursorHaveJobs
  <2> SUFFICES ASSUME IInv,
                      NEW cursor \in {file} \cup {watcher[p].cursor : p \in Watchers},
                      NEW l \in Logs, place[l] \in Behind(cursor)
               PROVE  Covered(l)
    BY DEF LogsBehindCursorHaveJobs, Covered
  <2>1. cursor \in Cursors /\ CursorSound(cursor)
    BY DEF IInv, TypeInv, Sound, ProcessSound, Processes
  <2> QED BY <1>1, <2>1
<1> QED BY <1>2, SoundAlways, PTL

\* The pass over the open jobs takes up no log that its own round has scanned,
\* as long as the log is in the block its job was stored with.
THEOREM PassIsApart == Spec => []PassLeavesScannedJobs
<1>1. IInv => PassLeavesScannedJobs
  <2> SUFFICES ASSUME IInv, NEW p \in Watchers, NEW task \in watcher[p].round.todo,
                      At(p, "pass"), task.log \in watcher[p].round.scanned
               PROVE  task.height # place[task.log]
    BY DEF PassLeavesScannedJobs
  <2>1. PICK r \in Rounds : r = watcher[p].round /\ RoundSound(r)
    BY DEF IInv, TypeInv, Sound, ProcessSound, Processes
  <2>2. r.pc = "pass" /\ task \in r.todo /\ task.log \in r.scanned
    BY <2>1 DEF At
  <2>3. task.height < r.from /\ place[task.log] \in r.from .. r.to
    BY <2>1, <2>2 DEF RoundSound
  <2>4. task.height \in Nat /\ r.from \in Nat /\ r.to \in Nat
    BY <2>2, Bounds DEF Rounds, Tasks, Heights
  <2> QED BY <2>3, <2>4
<1> QED BY <1>1, SoundAlways, PTL
=============================================================================
