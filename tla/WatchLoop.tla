------------------------------ MODULE WatchLoop ------------------------------
(***************************************************************************)
(* Rounds of a watcher over the cursor file, the job store and the chain   *)
(* together: start and pollOnce of watcher/watcher.ts with its pass over   *)
(* the open jobs (revisitOpenJobs).  What ScanCursor and RunClaim show of  *)
(* the parts is taken for granted here.  A cursor whose block was replaced *)
(* makes the next round start at or below the first replaced block, and a  *)
(* job is claimed in one step.  The parts meet in the block number a job   *)
(* was stored with: it decides whether the scan or the pass owns the job.  *)
(*                                                                         *)
(* Blocks 1 .. head are final, config.fromBlock is 1.  Watchers are        *)
(* started once each and may overlap: a stopped one finishes its round     *)
(* after its lock is gone (WatcherLock).                                   *)
(***************************************************************************)
EXTENDS Naturals

CONSTANTS
  Logs, NoLog,   \* HookReady logs, each with the job of its id
  Watchers,      \* processes that watch the same state directory
  NoWatcher,
  Mishaps,       \* the failures of this deployment, by name
  MaxHeight,     \* model bound on the chain
  ReorgBound,    \* model bound on reorganisations
  MishapBound    \* model bound on failed rounds and damaged files

MishapNames == {"round",   \* a call of a round throws
                "crash",   \* a watcher dies
                "jobs",    \* jobs.json is damaged, and moved aside when read
                "cursor"}  \* the same of cursor.json

ASSUME WatchLoopAssumption ==
  /\ NoLog \notin Logs
  /\ NoWatcher \notin Watchers
  /\ Mishaps \subseteq MishapNames
  /\ {MaxHeight, ReorgBound, MishapBound} \subseteq Nat

VARIABLES
  head,       \* the finalized head
  place,      \* the block each log is in; 0: in none
  job,        \* the job store
  file,       \* the cursor file
  watcher,    \* each process: its memory and the locals of its round
  forgotten,  \* history: logs whose job was moved aside with a damaged file
  reorgs, mishaps

vars == <<head, place, job, file, watcher, forgotten, reorgs, mishaps>>

Heights == 0 .. MaxHeight

\* Open stands for detected, submitted and matched; only matched has a claim.
NoJob == [status |-> "absent", claim |-> NoWatcher, height |-> 0]

\* A saved position; `kept`: the blocks up to there are what they were then.
NoCursor == [next |-> 1, kept |-> 0]

NoRound == [pc |-> "idle", from |-> 0, to |-> 0, todo |-> {}, scanned |-> {},
            hand |-> NoLog]

Unstarted == [life |-> "off", restored |-> FALSE, cursor |-> NoCursor,
              round |-> NoRound]

Init ==
  /\ head = 0
  /\ place = [l \in Logs |-> 0]
  /\ job = [l \in Logs |-> NoJob]
  /\ file = NoCursor
  /\ watcher = [p \in Watchers |-> Unstarted]
  /\ forgotten = {}
  /\ reorgs = 0
  /\ mishaps = 0

Up(p) == watcher[p].life \in {"starting", "watching"}

At(p, stage) == Up(p) /\ watcher[p].round.pc = stage

FreeHanded(p) == watcher[p].round.hand = NoLog

(***************************************************************************)
(* The chain.                                                              *)
(***************************************************************************)
\* A block becomes final, with some of the logs that are in none.
Grow(logs) ==
  /\ head < MaxHeight
  /\ \A l \in logs : place[l] = 0
  /\ head' = head + 1
  /\ place' = [l \in Logs |-> IF l \in logs THEN head + 1 ELSE place[l]]
  /\ UNCHANGED <<job, file, watcher, forgotten, reorgs, mishaps>>

Cut(cursor, keep) == [cursor EXCEPT !.kept = IF @ > keep THEN keep ELSE @]

\* The blocks above `keep` are replaced: their logs move, vanish or turn up.
\* No round is reading them (AwayFromRound of ScanCursor).
Reorg(keep) ==
  /\ reorgs < ReorgBound
  /\ keep < head
  /\ \A p \in Watchers : watcher[p].round.to <= keep
  /\ place' \in [Logs -> 0 .. head]
  /\ \A l \in Logs : IF place[l] \in 1 .. keep THEN place'[l] = place[l]
                     ELSE place'[l] = 0 \/ place'[l] > keep
  /\ file' = Cut(file, keep)
  /\ watcher' = [p \in Watchers |-> [watcher[p] EXCEPT !.cursor = Cut(@, keep)]]
  /\ reorgs' = reorgs + 1
  /\ UNCHANGED <<head, job, forgotten, mishaps>>

(***************************************************************************)
(* A round: its range, the logs of the range in order, the pass over open  *)
(* jobs, the cursor.                                                       *)
(***************************************************************************)
Start(p) ==
  /\ watcher[p].life = "off"
  /\ watcher' = [watcher EXCEPT ![p].life = "starting"]
  /\ UNCHANGED <<head, place, job, file, forgotten, reorgs, mishaps>>

Position(p) == IF watcher[p].restored THEN watcher[p].cursor ELSE file

\* Where a round may begin: at the cursor, or above an anchor that survived.
RoundStarts(cursor) ==
  IF cursor.kept = cursor.next - 1 THEN {cursor.next} ELSE 1 .. cursor.kept + 1

LogsIn(from, to) ==
  {[log |-> l, height |-> place[l]] : l \in {k \in Logs : place[k] \in from .. to}}

\* Restore the cursor, read the head, check continuity, get the logs.  When
\* finality lags behind the cursor there is no scan.
BeginRound(p, from) ==
  /\ At(p, "idle")
  /\ from \in RoundStarts(Position(p))
  /\ watcher' = [watcher EXCEPT
       ![p].restored = TRUE,
       ![p].cursor = Position(p),
       ![p].round = [NoRound EXCEPT !.pc = "scan", !.from = from, !.to = head,
                                    !.todo = LogsIn(from, head)]]
  /\ UNCHANGED <<head, place, job, file, forgotten, reorgs, mishaps>>

\* Bug: nobody looks whether the holder of a claim lives.
HeldWhoever(claim) == claim # NoWatcher

Held(claim) == claim # NoWatcher /\ Up(claim)

\* handleLog up to the claim: detect, leave a settled or running job alone,
\* or claim it.
HandleLog(p, task) ==
  LET l == task.log
      found == IF job[l].status # "absent" THEN job[l]
               ELSE [status |-> "open", claim |-> NoWatcher, height |-> task.height]
      mine == found.status = "open" /\ ~Held(found.claim)
      round == [watcher[p].round EXCEPT
                  !.todo = @ \ {task},
                  !.scanned = IF watcher[p].round.pc = "scan" THEN @ \cup {l} ELSE @,
                  !.hand = IF mine THEN l ELSE NoLog]
  IN /\ job' = [job EXCEPT ![l] = IF mine THEN [found EXCEPT !.claim = p] ELSE found]
     /\ watcher' = [watcher EXCEPT ![p].round = round]
     /\ UNCHANGED <<head, place, file, forgotten, reorgs, mishaps>>

\* Logs are handled in the order of the chain, open jobs in the order of detection.
TakeTask(p, task) ==
  /\ At(p, "scan") \/ At(p, "pass")
  /\ FreeHanded(p)
  /\ task \in watcher[p].round.todo
  /\ At(p, "scan") => \A t \in watcher[p].round.todo : task.height <= t.height
  /\ HandleLog(p, task)

\* The verdict of the run.  A job that is gone or that another write released
\* is not written; one that is gone fails the round.
Conclude(p, status) ==
  LET l == watcher[p].round.hand
  IN /\ Up(p)
     /\ ~FreeHanded(p)
     /\ job[l].status # "absent"
     /\ job' = IF job[l].claim = NoWatcher THEN job
               ELSE [job EXCEPT ![l].status = status, ![l].claim = NoWatcher]
     /\ watcher' = [watcher EXCEPT ![p].round.hand = NoLog]
     /\ UNCHANGED <<head, place, file, forgotten, reorgs, mishaps>>

\* Bug: every job up to the end of the range counts as behind it.
BehindHead(p) == {l \in Logs : job[l].height <= watcher[p].round.to}

BehindRound(p) == {l \in Logs : job[l].height < watcher[p].round.from}

OpenJobs(p) ==
  {[log |-> l, height |-> job[l].height] :
     l \in {k \in BehindRound(p) : job[k].status = "open" /\ ~Held(job[k].claim)}}

RevisitOpenJobs(p) ==
  /\ At(p, "scan")
  /\ FreeHanded(p)
  /\ watcher[p].round.todo = {}
  /\ watcher' = [watcher EXCEPT ![p].round.pc = "pass", ![p].round.todo = OpenJobs(p)]
  /\ UNCHANGED <<head, place, job, file, forgotten, reorgs, mishaps>>

\* Back from pollOnce: start() returns, or the next tick is armed.
Returned(w) == [w EXCEPT !.life = "watching", !.round = NoRound]

\* Bug: the position goes by the head of the moment, not by the head scanned to.
ReachedNow(p) == [next |-> head + 1, kept |-> head]

\* Bug: one block too far.
ReachedBeyond(p) == [next |-> watcher[p].round.to + 2, kept |-> watcher[p].round.to]

Reached(p) == [next |-> watcher[p].round.to + 1, kept |-> watcher[p].round.to]

SaveCursor(p) ==
  /\ At(p, "pass")
  /\ FreeHanded(p)
  /\ watcher[p].round.todo = {}
  /\ IF watcher[p].round.from > watcher[p].round.to
     THEN /\ watcher' = [watcher EXCEPT ![p] = Returned(@)]
          /\ UNCHANGED file
     ELSE /\ file' = Reached(p)
          /\ watcher' = [watcher EXCEPT ![p] = [Returned(@) EXCEPT !.cursor = Reached(p)]]
  /\ UNCHANGED <<head, place, job, forgotten, reorgs, mishaps>>

(***************************************************************************)
(* Failures.                                                               *)
(***************************************************************************)
\* The claim of the run in hand, if there is one and it still is p's.
Unclaimed(p) ==
  [l \in Logs |-> IF l = watcher[p].round.hand /\ job[l].claim = p
                  THEN [job[l] EXCEPT !.claim = NoWatcher] ELSE job[l]]

\* A round that throws, its claim released.  start() rejects with its first
\* round and the process ends; a later round is tried again from memory.
Thrown(p) ==
  /\ job' = Unclaimed(p)
  /\ watcher' = [watcher EXCEPT ![p].round = NoRound,
       ![p].life = IF @ = "starting" THEN "dead" ELSE @]
  /\ UNCHANGED <<head, place, file, forgotten, reorgs>>

RoundFails(p) ==
  /\ "round" \in Mishaps
  /\ mishaps < MishapBound
  /\ Up(p) /\ ~At(p, "idle")
  /\ Thrown(p)
  /\ mishaps' = mishaps + 1

\* "job not found": the job of the run was moved aside.
JobNotFound(p) ==
  /\ Up(p)
  /\ ~FreeHanded(p)
  /\ job[watcher[p].round.hand].status = "absent"
  /\ Thrown(p)
  /\ UNCHANGED mishaps

Crash(p) ==
  /\ "crash" \in Mishaps
  /\ Up(p)
  /\ watcher' = [watcher EXCEPT ![p] = [Unstarted EXCEPT !.life = "dead"]]
  /\ UNCHANGED <<head, place, job, file, forgotten, reorgs, mishaps>>

\* A state file is found damaged: it is moved aside and starts over empty.
QuarantineJobs ==
  /\ "jobs" \in Mishaps
  /\ mishaps < MishapBound
  /\ job' = [l \in Logs |-> NoJob]
  /\ forgotten' = forgotten \cup {l \in Logs : job[l].status # "absent"}
  /\ mishaps' = mishaps + 1
  /\ UNCHANGED <<head, place, file, watcher, reorgs>>

QuarantineCursor ==
  /\ "cursor" \in Mishaps
  /\ mishaps < MishapBound
  /\ file' = NoCursor
  /\ mishaps' = mishaps + 1
  /\ UNCHANGED <<head, place, job, watcher, forgotten, reorgs>>

(***************************************************************************)
(* Specification.                                                          *)
(***************************************************************************)
RoundStep(p) ==
  \/ \E from \in 1 .. MaxHeight + 1 : BeginRound(p, from)
  \/ \E task \in watcher[p].round.todo : TakeTask(p, task)
  \/ RevisitOpenJobs(p) \/ SaveCursor(p)

ChainStep ==
  \/ \E logs \in SUBSET Logs : Grow(logs)
  \/ \E keep \in Heights : Reorg(keep)

Next ==
  \/ ChainStep \/ QuarantineJobs \/ QuarantineCursor
  \/ \E p \in Watchers :
       \/ Start(p) \/ RoundStep(p) \/ \E s \in {"open", "settled"} : Conclude(p, s)
       \/ RoundFails(p) \/ JobNotFound(p) \/ Crash(p)

Spec == Init /\ [][Next]_vars

\* A watcher polls on, its runs end, and not always without a verdict: the
\* signals of a job are mined in the end (EverySignalSettles of SignalRun).
FairSpec ==
  /\ Spec
  /\ \A p \in Watchers :
       /\ WF_vars(RoundStep(p) \/ JobNotFound(p) \/ Conclude(p, "open"))
       /\ SF_vars(Conclude(p, "settled"))

(***************************************************************************)
(* Properties.                                                             *)
(***************************************************************************)
TypeOK ==
  /\ head \in Heights /\ place \in [Logs -> Heights]
  /\ job \in [Logs -> [status : {"absent", "open", "settled"},
                       claim : Watchers \cup {NoWatcher}, height : Heights]]
  /\ file \in [next : 1 .. MaxHeight + 1, kept : Heights]
  /\ \A p \in Watchers :
       /\ watcher[p].life \in {"off", "starting", "watching", "dead"}
       /\ watcher[p].cursor \in [next : 1 .. MaxHeight + 1, kept : Heights]
       /\ watcher[p].round.pc \in {"idle", "scan", "pass"}
       /\ watcher[p].round.todo \subseteq [log : Logs, height : Heights]
       /\ watcher[p].round.hand \in Logs \cup {NoLog}

\* The blocks a cursor vouches for.
Behind(cursor) == 1 .. (IF cursor.kept < cursor.next THEN cursor.kept ELSE cursor.next - 1)

\* Every log behind a cursor, in the file or in memory, has its job: no failure,
\* crash, reorganisation or second watcher makes the scan pass a log by.  Only a
\* quarantine of the jobs file loses one (pollOnce saves the cursor last).
LogsBehindCursorHaveJobs ==
  \A cursor \in {file} \cup {watcher[p].cursor : p \in Watchers} :
    \A l \in Logs : place[l] \in Behind(cursor) =>
      job[l].status # "absent" \/ l \in forgotten

\* "the scan loop itself owns it this round, so the pass must not double-process
\* it" (revisitOpenJobs): true of every job whose log is still in the block the
\* job was stored with.
PassLeavesScannedJobs ==
  \A p \in Watchers : \A task \in watcher[p].round.todo :
    At(p, "pass") /\ task.log \in watcher[p].round.scanned =>
      task.height # place[task.log]

\* A log that stays on the final chain is settled in the end while some watcher
\* stays up, whoever claimed its job and died, wherever its round failed.
FinalLogsSettle ==
  <>[](\E p \in Watchers : Up(p)) => \A l \in Logs :
    place[l] # 0 ~> job[l].status = "settled" \/ l \in forgotten \/ place[l] = 0
=============================================================================
