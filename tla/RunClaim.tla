------------------------------ MODULE RunClaim ------------------------------
(***************************************************************************)
(* Who may run a job: the run claim of watcher/watcher.ts, the manual      *)
(* retry of watcher/jobs/retry.ts and the manual dead-letter of            *)
(* watcher/jobs/deadletter.ts, over one job store shared by several        *)
(* processes.                                                              *)
(*                                                                         *)
(* An executor is one sequential async activity of a process: the poll     *)
(* loop of a watcher, or one `jobs retry` / `jobs dead-letter` command.    *)
(* Every store call (upsertDetected, get, update, list) is one step: the   *)
(* file store makes it atomic under the jobs-file lock.  Everything        *)
(* between two store calls of one executor interleaves with the others.    *)
(* What a run does with its signals is abstracted to the status it         *)
(* concludes with.                                                         *)
(***************************************************************************)
EXTENDS JobModel

CONSTANTS
  Jobs, NoJob,   \* job ids; NoJob is "none"
  Executors,     \* sequential activities
  pidOf,         \* the process an executor lives in
  Watchers,      \* executors that poll
  Operators,     \* executors that carry out manual commands
  Handling,      \* executors configured with a handler for these hooks
  DryRun,        \* executors configured with dryRun
  PidReuse       \* may the system give a dead process's pid to a new one?

ASSUME ExecutorAssumption ==
  /\ NoJob \notin Jobs
  /\ pidOf \in [Executors -> Pids]
  /\ Watchers \subseteq Executors
  /\ Operators \subseteq Executors
  /\ Handling \subseteq Executors
  /\ DryRun \subseteq Executors
  /\ PidReuse \in BOOLEAN

VARIABLES
  job,      \* the job store
  proc,     \* process table: what process.kill(pid, 0) observes
  run,      \* the locals of each executor
  pending   \* pendingClaimReleases of each watcher instance

vars == <<job, proc, run, pending>>

Stages == {"idle", "flush", "round", "detect", "ignoreWrite", "claimRead",
           "claimWrite", "running", "release", "retryWrite", "exhaustWrite",
           "deadLetterWrite"}

RunRecord == [pc       : Stages,
              job      : Jobs \cup {NoJob},
              seen     : [status : JobStatus \cup {"absent"}, claim : Claims],
              lastTry  : BOOLEAN,
              phase    : {"command", "scan", "revisit"},
              todo     : SUBSET Jobs,
              window   : SUBSET Jobs]

NothingSeen == [status |-> "absent", claim |-> NoPid]

IdleRun == [pc |-> "idle", job |-> NoJob, seen |-> NothingSeen,
            lastTry |-> FALSE, phase |-> "command",
            todo |-> {}, window |-> {}]

Up(e) == proc[pidOf[e]] = "up"

At(e, stage) == Up(e) /\ run[e].pc = stage

\* Bug: every claim looks like the leftover of a dead process.
ForeignClaimIgnored(e, c) == c = pidOf[e]

\* A claim is held by the reader's own process or by any live one.
IsHeldRunClaim(e, c) ==
  /\ c # NoPid
  /\ c = pidOf[e] \/ proc[c] = "up"

TypeOK ==
  /\ job \in [Jobs -> JobRecord]
  /\ proc \in [Pids -> {"unborn", "up", "down"}]
  /\ run \in [Executors -> RunRecord]
  /\ pending \in [Executors -> SUBSET Jobs]

Init ==
  /\ job = [j \in Jobs |-> AbsentJob]
  /\ proc = [p \in Pids |-> "unborn"]
  /\ run = [e \in Executors |-> IdleRun]
  /\ pending = [e \in Executors |-> {}]

(***************************************************************************)
(* Processes.                                                              *)
(***************************************************************************)
Boot(p) ==
  /\ proc[p] = "unborn" \/ (PidReuse /\ proc[p] = "down")
  /\ proc' = [proc EXCEPT ![p] = "up"]
  /\ UNCHANGED <<job, run, pending>>

\* A crash, a kill or a normal exit: the memory of the process is gone.
Die(p) ==
  /\ proc[p] = "up"
  /\ proc' = [proc EXCEPT ![p] = "down"]
  /\ run' = [e \in Executors |-> IF pidOf[e] = p THEN IdleRun ELSE run[e]]
  /\ pending' = [e \in Executors |-> IF pidOf[e] = p THEN {} ELSE pending[e]]
  /\ UNCHANGED job

(***************************************************************************)
(* A poll round: retry stuck releases, handle the logs of the window, then *)
(* revisit the open jobs behind it.                                        *)
(***************************************************************************)
\* Bug: a round starts without the releases that failed before.
WakeWithoutFlush(e) ==
  /\ e \in Watchers
  /\ At(e, "idle")
  /\ run' = [run EXCEPT ![e].pc = "flush"]
  /\ UNCHANGED <<job, proc, pending>>

Wake(e) ==
  /\ e \in Watchers
  /\ At(e, "idle")
  /\ run' = [run EXCEPT ![e].pc = "flush", ![e].todo = pending[e]]
  /\ UNCHANGED <<job, proc, pending>>

\* Bug: the release write loses its guard.
ReleaseAny(e, j) == job' = [job EXCEPT ![j] = Released(@)]

\* One update of the job's claim guarded by expectClaimPid = own pid.
ReleaseOwn(e, j) ==
  job' = IF job[j].claim = pidOf[e]
         THEN [job EXCEPT ![j] = Released(@)]
         ELSE job

FlushRelease(e, j) ==
  /\ At(e, "flush")
  /\ j \in run[e].todo
  /\ ReleaseOwn(e, j)
  /\ pending' = [pending EXCEPT ![e] = @ \ {j}]
  /\ run' = [run EXCEPT ![e].todo = @ \ {j}]
  /\ UNCHANGED proc

FlushReleaseFails(e, j) ==
  /\ At(e, "flush")
  /\ j \in run[e].todo
  /\ run' = [run EXCEPT ![e].todo = @ \ {j}]
  /\ UNCHANGED <<job, proc, pending>>

\* The window holds the logs getLogs returned: none of them when the head lags.
BeginRound(e, window) ==
  /\ At(e, "flush")
  /\ run[e].todo = {}
  /\ run' = [run EXCEPT ![e].pc = "round", ![e].phase = "scan",
                        ![e].todo = window, ![e].window = window]
  /\ UNCHANGED <<job, proc, pending>>

\* An RPC or store call of the round itself throws: the round is abandoned.
RoundFails(e) ==
  /\ At(e, "round") \/ (At(e, "flush") /\ run[e].todo = {})
  /\ run' = [run EXCEPT ![e] = IdleRun]
  /\ UNCHANGED <<job, proc, pending>>

\* Bug: matched jobs are never revisited.
OpenUnlessMatched(e, j) == job[j].status \in {"detected", "submitted"}

OpenForRevisit(e, j) ==
  \/ job[j].status \in {"detected", "submitted"}
  \/ job[j].status = "matched" /\ ~IsHeldRunClaim(e, job[j].claim)

\* The window of a job is that of its stored block; a log that a reorganisation
\* moved, whose job keeps the old block, is the subject of WatchLoop.
RevisitOpenJobs(e) ==
  /\ At(e, "round")
  /\ run[e].phase = "scan"
  /\ run[e].todo = {}
  /\ run' = [run EXCEPT
       ![e].phase = "revisit",
       ![e].window = {},
       ![e].todo = {j \in Jobs \ run[e].window : OpenForRevisit(e, j)}]
  /\ UNCHANGED <<job, proc, pending>>

EndRound(e) ==
  /\ At(e, "round")
  /\ run[e].phase = "revisit"
  /\ run[e].todo = {}
  /\ run' = [run EXCEPT ![e] = IdleRun]
  /\ UNCHANGED <<job, proc, pending>>

(***************************************************************************)
(* handleLog: detect, claim, run, conclude, release.                       *)
(***************************************************************************)
\* The caller of handleLog: the round that goes on, or the command that ends.
Returned(r) ==
  IF r.phase = "command" THEN IdleRun
  ELSE [IdleRun EXCEPT !.pc = "round", !.phase = r.phase,
                       !.todo = r.todo, !.window = r.window]

Upserted(j) == IF job[j].status = "absent" THEN DetectedJob ELSE job[j]

\* A dry-run watcher leaves a job it has already rehearsed alone.
Converged(e, rec) ==
  e \in DryRun /\ rec.status = "matched" /\ rec.rehearsed

\* handleLog(raw) up to its next store call, on behalf of the caller r.
DetectFor(e, j, r) ==
  LET rec == Upserted(j)
  IN /\ job' = [job EXCEPT ![j] = rec]
     /\ run' = [run EXCEPT ![e] =
          IF IsTerminal(rec.status) \/ Converged(e, rec) THEN Returned(r)
          ELSE [r EXCEPT !.job = j,
                         !.pc = IF e \in Handling THEN "claimRead"
                                ELSE "ignoreWrite"]]
     /\ UNCHANGED <<proc, pending>>

\* The round takes up the next log of its list.
HandleLog(e, j) ==
  /\ At(e, "round")
  /\ j \in run[e].todo
  /\ DetectFor(e, j, [run[e] EXCEPT !.todo = @ \ {j}])

\* The retry command calls handleLog after its reopening write.
RetryHandleLog(e) ==
  /\ At(e, "detect")
  /\ DetectFor(e, run[e].job, run[e])

\* No handler for this hook: an unguarded write of `ignored`.
IgnoreWrite(e) ==
  LET j == run[e].job
  IN /\ At(e, "ignoreWrite")
     /\ job' = [job EXCEPT ![j] = WithConclusiveClaimRelease(@, "ignored")]
     /\ run' = [run EXCEPT ![e] = Returned(@)]
     /\ UNCHANGED <<proc, pending>>

ClaimRead(e) ==
  LET fresh == job[run[e].job]
  IN /\ At(e, "claimRead")
     /\ run' = [run EXCEPT ![e] =
          IF IsTerminal(fresh.status) \/ IsHeldRunClaim(e, fresh.claim)
          THEN Returned(@)
          ELSE [@ EXCEPT !.pc = "claimWrite",
                         !.seen = [status |-> fresh.status,
                                   claim  |-> fresh.claim]]]
     /\ UNCHANGED <<job, proc, pending>>

SeenHolds(e) ==
  PatchCasMatches(job[run[e].job], run[e].seen.status, run[e].seen.claim)

ClaimWrite(e) ==
  LET j == run[e].job
  IN /\ At(e, "claimWrite")
     /\ SeenHolds(e)
     /\ job' = [job EXCEPT ![j] = Claimed(@, pidOf[e])]
     /\ run' = [run EXCEPT ![e].pc = "running", ![e].seen = NothingSeen]
     /\ UNCHANGED <<proc, pending>>

\* Two lost races in a row: yield this round.
ClaimLost(e) ==
  /\ At(e, "claimWrite")
  /\ ~SeenHolds(e)
  /\ run' = [run EXCEPT ![e] =
       IF @.lastTry THEN Returned(@)
       ELSE [@ EXCEPT !.pc = "claimRead", !.lastTry = TRUE,
                      !.seen = NothingSeen]]
  /\ UNCHANGED <<job, proc, pending>>

\* A failed attempt inside the run, written without a guard.
RecordFailure(e) ==
  /\ At(e, "running")
  /\ job[run[e].job].attempts < AttemptBound
  /\ job' = [job EXCEPT ![run[e].job].attempts = @ + 1]
  /\ UNCHANGED <<proc, run, pending>>

\* A simulated submission joins the audit trail.
RecordRehearsal(e) ==
  /\ At(e, "running")
  /\ e \in DryRun
  /\ job' = [job EXCEPT ![run[e].job].rehearsed = TRUE]
  /\ UNCHANGED <<proc, run, pending>>

RunOutcomes(e) ==
  {"matched", "submitted", "failed", "ignored", "dead_letter"}
    \cup (IF e \in DryRun THEN {} ELSE {"confirmed"})

\* Bug: the verdict of a run is written without a guard.
ConcludedAnyway(rec, s) == WithConclusiveClaimRelease(rec, s)

Concluded(rec, s) ==
  IF rec.status = "matched" THEN WithConclusiveClaimRelease(rec, s) ELSE rec

Conclude(e, s) ==
  LET j == run[e].job
  IN /\ At(e, "running")
     /\ job' = [job EXCEPT ![j] = Concluded(@, s)]
     /\ run' = [run EXCEPT ![e].pc = "release"]
     /\ UNCHANGED <<proc, pending>>

\* A store write of the run throws: no verdict, and the round ends after the
\* release in the finally block.
RunFails(e) ==
  /\ At(e, "running")
  /\ run' = [run EXCEPT ![e] = [IdleRun EXCEPT !.pc = "release",
                                               !.job = run[e].job]]
  /\ UNCHANGED <<job, proc, pending>>

ReleaseRunClaim(e) ==
  /\ At(e, "release")
  /\ ReleaseOwn(e, run[e].job)
  /\ run' = [run EXCEPT ![e] = Returned(@)]
  /\ UNCHANGED <<proc, pending>>

\* Bug: the failed release is reported but not queued.
ReleaseFailureForgotten(e) ==
  /\ At(e, "release")
  /\ run' = [run EXCEPT ![e] = Returned(@)]
  /\ UNCHANGED <<job, proc, pending>>

ReleaseRunClaimFails(e) ==
  /\ At(e, "release")
  /\ pending' = [pending EXCEPT ![e] = @ \cup {run[e].job}]
  /\ run' = [run EXCEPT ![e] = Returned(@)]
  /\ UNCHANGED <<job, proc>>

(***************************************************************************)
(* Manual commands: read, refuse or decide, then a guarded write.          *)
(***************************************************************************)
Decided(e, j, stage) ==
  [IdleRun EXCEPT !.pc = stage, !.job = j,
                  !.seen = [status |-> job[j].status, claim |-> job[j].claim]]

RetryRead(e, j) ==
  /\ e \in Operators
  /\ At(e, "idle")
  /\ IsRetriable(job[j].status)
  /\ ~IsHeldRunClaim(e, job[j].claim)
  /\ ~(Exhausted(job[j]) /\ job[j].status = "submitted")
  /\ run' = [run EXCEPT ![e] = Decided(e, j,
       IF Exhausted(job[j]) THEN "exhaustWrite" ELSE "retryWrite")]
  /\ UNCHANGED <<job, proc, pending>>

\* Reopen, then handleLog.
RetryWrite(e) ==
  LET j == run[e].job
  IN /\ At(e, "retryWrite")
     /\ SeenHolds(e)
     /\ job' = [job EXCEPT ![j] = Reopened(@)]
     /\ run' = [run EXCEPT ![e].pc = "detect", ![e].seen = NothingSeen]
     /\ UNCHANGED <<proc, pending>>

DeadLetterWith(e, stage) ==
  /\ At(e, stage)
  /\ SeenHolds(e)
  /\ job' = [job EXCEPT ![run[e].job] = DeadLettered(@)]
  /\ run' = [run EXCEPT ![e] = IdleRun]
  /\ UNCHANGED <<proc, pending>>

ExhaustWrite(e) == DeadLetterWith(e, "exhaustWrite")

DeadLetterRead(e, j) ==
  /\ e \in Operators
  /\ At(e, "idle")
  /\ IsDeadLetterable(job[j].status)
  /\ ~IsHeldRunClaim(e, job[j].claim)
  /\ run' = [run EXCEPT ![e] = Decided(e, j, "deadLetterWrite")]
  /\ UNCHANGED <<job, proc, pending>>

DeadLetterWrite(e) == DeadLetterWith(e, "deadLetterWrite")

\* A guard of the decided write fails: the operator is told to start over.
CommandConflict(e) ==
  /\ \E s \in {"retryWrite", "exhaustWrite", "deadLetterWrite"} : At(e, s)
  /\ ~SeenHolds(e)
  /\ run' = [run EXCEPT ![e] = IdleRun]
  /\ UNCHANGED <<job, proc, pending>>

\* A store call before the run throws: the round or the command is abandoned.
StoreFails(e) ==
  /\ \E s \in {"detect", "ignoreWrite", "claimRead", "claimWrite",
               "retryWrite", "exhaustWrite", "deadLetterWrite"} : At(e, s)
  /\ run' = [run EXCEPT ![e] = IdleRun]
  /\ UNCHANGED <<job, proc, pending>>

(***************************************************************************)
(* Specification.                                                          *)
(***************************************************************************)
RunStep(e) ==
  \/ RetryHandleLog(e) \/ IgnoreWrite(e) \/ ClaimRead(e) \/ ClaimWrite(e)
  \/ ClaimLost(e) \/ RecordFailure(e) \/ RecordRehearsal(e)
  \/ \E s \in RunOutcomes(e) : Conclude(e, s)
  \/ RunFails(e) \/ ReleaseRunClaim(e) \/ ReleaseRunClaimFails(e)
  \/ StoreFails(e)

RoundStep(e) ==
  \/ Wake(e) \/ RoundFails(e) \/ RevisitOpenJobs(e) \/ EndRound(e)
  \/ \E window \in SUBSET Jobs : BeginRound(e, window)
  \/ \E j \in Jobs : FlushRelease(e, j) \/ FlushReleaseFails(e, j)
                       \/ HandleLog(e, j)

CommandStep(e) ==
  \/ \E j \in Jobs : RetryRead(e, j) \/ DeadLetterRead(e, j)
  \/ RetryWrite(e) \/ ExhaustWrite(e) \/ DeadLetterWrite(e)
  \/ CommandConflict(e)

Next ==
  \/ \E p \in Pids : Boot(p) \/ Die(p)
  \/ \E e \in Executors : RunStep(e) \/ RoundStep(e) \/ CommandStep(e)

Spec == Init /\ [][Next]_vars

\* The RPC provider and the store do not fail every time, a handler returns,
\* and the loop of pollOnce reaches every job of its list.
Fairness ==
  \A e \in Watchers :
    /\ WF_vars(Wake(e))
    /\ SF_vars(\E window \in SUBSET Jobs : BeginRound(e, window))
    /\ SF_vars(RevisitOpenJobs(e))
    /\ WF_vars(EndRound(e))
    /\ \A j \in Jobs : SF_vars(FlushRelease(e, j)) /\ SF_vars(HandleLog(e, j))
    /\ SF_vars(ClaimRead(e))
    /\ SF_vars(ClaimWrite(e))
    /\ WF_vars(ClaimLost(e))
    /\ WF_vars(IgnoreWrite(e))
    /\ SF_vars(\E s \in RunOutcomes(e) : Conclude(e, s))
    /\ WF_vars(ReleaseRunClaim(e) \/ ReleaseRunClaimFails(e))

FairSpec == Spec /\ Fairness

(***************************************************************************)
(* Properties.                                                             *)
(***************************************************************************)
Running(e, j) == run[e].pc = "running" /\ run[e].job = j

\* Two executors never run the handler of one job at the same time: the
\* purpose of the claim (handleLog's comment on the claim), because on-chain
\* idempotency does not protect a handler's off-chain effects.
MutualExclusion ==
  \A e1, e2 \in Executors : \A j \in Jobs :
    Running(e1, j) /\ Running(e2, j) => e1 = e2

Owns(e, j) == job[j].status = "matched" /\ job[j].claim = pidOf[e]

\* The one write that respects no claim: an executor without the handler closes
\* the job (handleLog, the unguarded update to `ignored`).
ClosedUnhandled == \E e \in Executors \ Handling : IgnoreWrite(e)

\* A run starts with its job `matched` under its own claim and keeps it so to its
\* end: no takeover, retry, dead-letter or late release of another executor
\* touches it.
RunOwnsItsJob ==
  [][\A e \in Executors : \A j \in Jobs :
       Running(e, j)' /\ (Running(e, j) => Owns(e, j)) =>
         Owns(e, j)' \/ ClosedUnhandled]_vars

\* A claim of a live process always belongs to a run in flight or to a release
\* that will be retried (claim.ts: "the only way it can exist is a run
\* currently in flight inside this process"): no job is locked out for good.
HeldClaimHasOwner ==
  \A j \in Jobs : \A p \in Pids :
    job[j].claim = p /\ proc[p] = "up" =>
      \E e \in Executors :
        /\ pidOf[e] = p
        /\ \/ run[e].pc \in {"running", "release"} /\ run[e].job = j
           \/ j \in pending[e]

\* A live process's claim is only ever removed by that process: the guarded
\* writes of the retry, the dead-letter and the takeover all leave it alone.
LiveClaimClearedOnlyByHolder ==
  [][\A j \in Jobs : \A p \in Pids :
       job[j].claim = p /\ proc[p] = "up" /\ job'[j].claim # p =>
         \/ \E e \in Executors : pidOf[e] = p /\ run'[e] # run[e]
         \/ ClosedUnhandled]_vars

\* A terminal verdict is only ever replaced by a manual command: a scan, a late
\* conclusion or a stale claim never reopens or rewrites a settled job.
VerdictChangesOnlyByCommand ==
  [][\A j \in Jobs :
       IsTerminal(job[j].status) /\ job'[j].status # job[j].status =>
         \/ \E e \in Operators : RetryWrite(e) \/ DeadLetterWrite(e)
         \/ ClosedUnhandled]_vars

\* The claim keeps its promise: whoever crashes, loses a race or fails to write,
\* every step of this protocol lends, takes back, settles or reopens one job, or
\* leaves the leases alone.
Lease == INSTANCE JobLease WITH
  Unhandled <- Handling # Executors,
  runners <- [j \in Jobs |-> {e \in Executors : Running(e, j)}],
  settled <- {j \in Jobs : IsTerminal(job[j].status)}
JobsAreLent == Lease!Spec

Stranded(j) ==
  /\ job[j].status = "matched"
  /\ job[j].claim # NoPid
  /\ proc[job[j].claim] = "down"

\* A job whose run died between the claim and the verdict is taken over as long
\* as some watcher stays up (the comment on revisitOpenJobs).
StrandedRunIsTakenOver ==
  \A e \in Watchers : <>[]Up(e) => \A j \in Jobs : Stranded(j) ~> ~Stranded(j)

\* A release whose write failed is eventually applied: the job does not stay
\* claimed by a process that is not running it.
StuckReleaseClears ==
  \A e \in Watchers : \A j \in Jobs : j \in pending[e] ~> j \notin pending[e]
=============================================================================
