--------------------------- MODULE RunClaim_proofs ---------------------------
(***************************************************************************)
(* Proofs about RunClaim, for every set of jobs, processes and executors.  *)
(***************************************************************************)
EXTENDS RunClaim, TLAPS

USE ExecutorAssumption, NoPidAssumption, AttemptAssumption
USE DEF ExecutorAssumption, NoPidAssumption, AttemptAssumption

\* The stages in which an executor is busy with one job.
JobStages == Stages \ {"idle", "flush", "round"}

WorksOnAJob ==
  \A e \in Executors : run[e].pc \in JobStages => run[e].job \in Jobs

TypeInv == TypeOK /\ WorksOnAJob

-----------------------------------------------------------------------------
(***************************************************************************)
(* What the patches of JobModel and the caller's continuation return.      *)
(***************************************************************************)

\* Every patch the kit applies to a stored job yields a stored job.
LEMMA PatchTypes ==
  ASSUME NEW rec \in JobRecord
  PROVE  /\ \A s \in JobStatus : WithConclusiveClaimRelease(rec, s) \in JobRecord
         /\ \A s \in JobStatus : Concluded(rec, s) \in JobRecord
         /\ \A p \in Pids : Claimed(rec, p) \in JobRecord
         /\ Released(rec) \in JobRecord
         /\ Reopened(rec) \in JobRecord
         /\ DeadLettered(rec) \in JobRecord
         /\ rec.attempts < AttemptBound =>
              [rec EXCEPT !.attempts = @ + 1] \in JobRecord
         /\ [rec EXCEPT !.rehearsed = TRUE] \in JobRecord
<1> USE DEF JobRecord, Claims
<1>1. \A s \in JobStatus : WithConclusiveClaimRelease(rec, s) \in JobRecord
  BY DEF WithConclusiveClaimRelease
<1>2. \A s \in JobStatus : Concluded(rec, s) \in JobRecord
  BY <1>1 DEF Concluded
<1>3. \A p \in Pids : Claimed(rec, p) \in JobRecord
  BY DEF Claimed, JobStatus
<1>4. Released(rec) \in JobRecord
  BY DEF Released
<1>5. Reopened(rec) \in JobRecord
  <2>1. (IF rec.status = "failed" THEN 0 ELSE rec.attempts) \in 0 .. AttemptBound
    OBVIOUS
  <2>2. NoPid \in Claims /\ "detected" \in JobStatus
    BY DEF JobStatus
  <2> QED BY <2>1, <2>2, Zenon DEF Reopened
<1>6. DeadLettered(rec) \in JobRecord
  BY DEF DeadLettered, JobStatus
<1>7. rec.attempts < AttemptBound => [rec EXCEPT !.attempts = @ + 1] \in JobRecord
  OBVIOUS
<1>8. [rec EXCEPT !.rehearsed = TRUE] \in JobRecord
  OBVIOUS
<1> QED BY <1>1, <1>2, <1>3, <1>4, <1>5, <1>6, <1>7, <1>8

\* The two records a store starts from are stored jobs.
LEMMA InitialRecordTypes == AbsentJob \in JobRecord /\ DetectedJob \in JobRecord
BY DEF AbsentJob, DetectedJob, JobRecord, JobStatus, Claims

\* An executor that is done with a job goes on with its round or is idle.
LEMMA ReturnedType ==
  ASSUME NEW r \in RunRecord
  PROVE  /\ Returned(r) \in RunRecord
         /\ Returned(r).pc \in {"idle", "round"}
         /\ IdleRun \in RunRecord
         /\ IdleRun.pc = "idle"
BY DEF Returned, RunRecord, IdleRun, NothingSeen, Stages, JobStatus, Claims

-----------------------------------------------------------------------------
(***************************************************************************)
(* Type correctness.                                                       *)
(***************************************************************************)

\* One executor moves to a well-formed record; the others stay.
LEMMA RunMoves ==
  ASSUME TypeInv, NEW e \in Executors, NEW r \in RunRecord,
         r.pc \in JobStages => r.job \in Jobs,
         run' = [run EXCEPT ![e] = r]
  PROVE  run' \in [Executors -> RunRecord] /\ WorksOnAJob'
BY DEF TypeInv, TypeOK, WorksOnAJob

\* One job is replaced by a well-formed record.
LEMMA JobMoves ==
  ASSUME TypeOK, NEW j \in Jobs, NEW rec \in JobRecord,
         job' = [job EXCEPT ![j] = rec]
  PROVE  job' \in [Jobs -> JobRecord]
BY DEF TypeOK

\* A guarded release of one's own claim leaves the store well formed.
LEMMA ReleaseType ==
  ASSUME TypeOK, NEW e \in Executors, NEW j \in Jobs, ReleaseOwn(e, j)
  PROVE  job' \in [Jobs -> JobRecord]
<1>1. Released(job[j]) \in JobRecord
  BY PatchTypes DEF TypeOK
<1> QED BY <1>1 DEF TypeOK, ReleaseOwn

\* The records an executor's step may leave behind, by the kind of step.
LEMMA RunRecordTypes ==
  ASSUME NEW r \in RunRecord
  PROVE  /\ \A pc \in Stages : [r EXCEPT !.pc = pc] \in RunRecord
         /\ \A pc \in Stages : \A sn \in [status : JobStatus \cup {"absent"}, claim : Claims] :
              [r EXCEPT !.pc = pc, !.seen = sn] \in RunRecord
         /\ \A pc \in Stages : \A j \in Jobs : [r EXCEPT !.job = j, !.pc = pc] \in RunRecord
         /\ \A pc \in Stages : \A T \in SUBSET Jobs : [r EXCEPT !.pc = pc, !.todo = T] \in RunRecord
         /\ \A T \in SUBSET Jobs : [r EXCEPT !.todo = T] \in RunRecord
         /\ NothingSeen \in [status : JobStatus \cup {"absent"}, claim : Claims]
<1> USE DEF RunRecord
<1>1. \A pc \in Stages : [r EXCEPT !.pc = pc] \in RunRecord
  OBVIOUS
<1>2. \A pc \in Stages : \A sn \in [status : JobStatus \cup {"absent"}, claim : Claims] :
        [r EXCEPT !.pc = pc, !.seen = sn] \in RunRecord
  OBVIOUS
<1>3. \A pc \in Stages : \A j \in Jobs : [r EXCEPT !.job = j, !.pc = pc] \in RunRecord
  OBVIOUS
<1>4. \A pc \in Stages : \A T \in SUBSET Jobs : [r EXCEPT !.pc = pc, !.todo = T] \in RunRecord
  OBVIOUS
<1>5. \A T \in SUBSET Jobs : [r EXCEPT !.todo = T] \in RunRecord
  OBVIOUS
<1>6. NothingSeen \in [status : JobStatus \cup {"absent"}, claim : Claims]
  BY DEF NothingSeen, Claims
<1> QED BY <1>1, <1>2, <1>3, <1>4, <1>5, <1>6

\* The common prefix of handleLog: upsert, then skip, ignore or claim.
LEMMA DetectType ==
  ASSUME TypeInv, NEW e \in Executors, NEW j \in Jobs, NEW r \in RunRecord,
         DetectFor(e, j, r)
  PROVE  TypeInv'
<1>1. Upserted(j) \in JobRecord
  BY InitialRecordTypes DEF TypeInv, TypeOK, Upserted
<1>2. job' \in [Jobs -> JobRecord]
  BY <1>1, JobMoves DEF DetectFor, TypeInv
<1>3. PICK pc \in Stages : \/ run' = [run EXCEPT ![e] = Returned(r)]
                          \/ run' = [run EXCEPT ![e] = [r EXCEPT !.job = j, !.pc = pc]]
  BY DEF DetectFor, Stages
<1>4. [r EXCEPT !.job = j, !.pc = pc] \in RunRecord
  BY <1>3, RunRecordTypes
<1>5. [r EXCEPT !.job = j, !.pc = pc].job = j
  BY DEF RunRecord
<1>6. Returned(r) \in RunRecord /\ Returned(r).pc \notin JobStages
  BY ReturnedType DEF JobStages
<1>7. run' \in [Executors -> RunRecord] /\ WorksOnAJob'
  <2>1. CASE run' = [run EXCEPT ![e] = Returned(r)]
    BY <2>1, <1>6, RunMoves
  <2>2. CASE run' = [run EXCEPT ![e] = [r EXCEPT !.job = j, !.pc = pc]]
    BY <2>2, <1>4, <1>5, RunMoves
  <2> QED BY <1>3, <2>1, <2>2
<1> QED BY <1>2, <1>7 DEF DetectFor, TypeInv, TypeOK

\* Every step of handleLog preserves the types.
LEMMA RunStepType ==
  ASSUME TypeInv, NEW e \in Executors, RunStep(e)
  PROVE  TypeInv'
<1> DEFINE j == run[e].job
<1> DEFINE sn == [status |-> job[j].status, claim |-> job[j].claim]
<1>0. run[e] \in RunRecord /\ (run[e].pc \in JobStages => j \in Jobs)
  BY DEF TypeInv, TypeOK, WorksOnAJob
<1>a. /\ Returned(run[e]) \in RunRecord /\ Returned(run[e]).pc \notin JobStages
      /\ IdleRun \in RunRecord /\ IdleRun.pc \notin JobStages
  BY <1>0, ReturnedType DEF JobStages
<1>b. ASSUME run' = [run EXCEPT ![e] = Returned(run[e])]
      PROVE  run' \in [Executors -> RunRecord] /\ WorksOnAJob'
  BY <1>a, <1>b, RunMoves
<1>1. CASE RetryHandleLog(e)
  BY <1>0, <1>1, DetectType DEF RetryHandleLog, At, JobStages, Stages
<1>2. CASE IgnoreWrite(e)
  <2>1. j \in Jobs BY <1>0, <1>2 DEF IgnoreWrite, At, JobStages, Stages
  <2>2. WithConclusiveClaimRelease(job[j], "ignored") \in JobRecord
    BY <2>1, PatchTypes DEF TypeInv, TypeOK, JobStatus
  <2>3. job' \in [Jobs -> JobRecord]
    BY <1>2, <2>1, <2>2, JobMoves DEF IgnoreWrite, TypeInv
  <2> QED BY <1>2, <1>b, <2>3 DEF IgnoreWrite, TypeInv, TypeOK
<1>3. CASE ClaimRead(e)
  <2>1. j \in Jobs BY <1>0, <1>3 DEF ClaimRead, At, JobStages, Stages
  <2>2. sn \in [status : JobStatus \cup {"absent"}, claim : Claims]
    BY <2>1 DEF TypeInv, TypeOK, JobRecord
  <2>3. [run[e] EXCEPT !.pc = "claimWrite", !.seen = sn] \in RunRecord
    BY <1>0, <2>2, RunRecordTypes DEF Stages
  <2>3a. [run[e] EXCEPT !.pc = "claimWrite", !.seen = sn].job = j
    BY <1>0 DEF RunRecord
  <2>4. \/ run' = [run EXCEPT ![e] = Returned(run[e])]
        \/ run' = [run EXCEPT ![e] = [run[e] EXCEPT !.pc = "claimWrite", !.seen = sn]]
    BY <1>3 DEF ClaimRead
  <2>5. run' \in [Executors -> RunRecord] /\ WorksOnAJob'
    BY <2>1, <2>3, <2>3a, <2>4, <1>b, RunMoves
  <2> QED BY <1>3, <2>5 DEF ClaimRead, TypeInv, TypeOK
<1>4. CASE ClaimWrite(e)
  <2>1. j \in Jobs BY <1>0, <1>4 DEF ClaimWrite, At, JobStages, Stages
  <2>2. Claimed(job[j], pidOf[e]) \in JobRecord
    BY <2>1, PatchTypes DEF TypeInv, TypeOK
  <2>3. job' \in [Jobs -> JobRecord]
    BY <1>4, <2>1, <2>2, JobMoves DEF ClaimWrite, TypeInv
  <2>4. run' = [run EXCEPT ![e] = [@ EXCEPT !.pc = "running", !.seen = NothingSeen]]
    BY <1>4 DEF ClaimWrite
  <2>5. [run[e] EXCEPT !.pc = "running", !.seen = NothingSeen] \in RunRecord
    BY <1>0, RunRecordTypes DEF Stages
  <2>6. run' \in [Executors -> RunRecord] /\ WorksOnAJob'
    BY <1>0, <2>1, <2>4, <2>5, RunMoves DEF RunRecord
  <2> QED BY <1>4, <2>3, <2>6 DEF ClaimWrite, TypeInv, TypeOK
<1>5. CASE ClaimLost(e)
  <2> DEFINE again == [run[e] EXCEPT !.pc = "claimRead", !.lastTry = TRUE,
                                     !.seen = NothingSeen]
  <2>1. j \in Jobs BY <1>0, <1>5 DEF ClaimLost, At, JobStages, Stages
  <2>2. again \in RunRecord
    <3>1. NothingSeen \in [status : JobStatus \cup {"absent"}, claim : Claims]
      BY <1>0, RunRecordTypes
    <3> QED BY <1>0, <3>1 DEF RunRecord, Stages
  <2>2a. again.job = j
    BY <1>0 DEF RunRecord
  <2>3. \/ run' = [run EXCEPT ![e] = Returned(run[e])]
        \/ run' = [run EXCEPT ![e] = again]
    BY <1>5 DEF ClaimLost
  <2>4. run' \in [Executors -> RunRecord] /\ WorksOnAJob'
    BY <2>1, <2>2, <2>2a, <2>3, <1>b, RunMoves
  <2> QED BY <1>5, <2>4 DEF ClaimLost, TypeInv, TypeOK
<1>6. CASE RecordFailure(e)
  <2>1. j \in Jobs BY <1>0, <1>6 DEF RecordFailure, At, JobStages, Stages
  <2>2. [job[j] EXCEPT !.attempts = job[j].attempts + 1] \in JobRecord
    BY <1>6, <2>1, PatchTypes DEF TypeInv, TypeOK, RecordFailure
  <2>3. job' = [job EXCEPT ![j] = [job[j] EXCEPT !.attempts = job[j].attempts + 1]]
    BY <1>6 DEF RecordFailure
  <2>4. job' \in [Jobs -> JobRecord]
    BY <2>1, <2>2, <2>3, JobMoves DEF TypeInv
  <2> QED BY <1>6, <2>4 DEF RecordFailure, TypeInv, TypeOK, WorksOnAJob
<1>7. CASE RecordRehearsal(e)
  <2>1. j \in Jobs BY <1>0, <1>7 DEF RecordRehearsal, At, JobStages, Stages
  <2>2. [job[j] EXCEPT !.rehearsed = TRUE] \in JobRecord
    BY <2>1, PatchTypes DEF TypeInv, TypeOK
  <2>3. job' = [job EXCEPT ![j] = [@ EXCEPT !.rehearsed = TRUE]]
    BY <1>7 DEF RecordRehearsal
  <2>4. job' \in [Jobs -> JobRecord]
    BY <2>1, <2>2, <2>3, JobMoves DEF TypeInv
  <2> QED BY <1>7, <2>4 DEF RecordRehearsal, TypeInv, TypeOK, WorksOnAJob
<1>8. ASSUME NEW s \in RunOutcomes(e), Conclude(e, s) PROVE TypeInv'
  <2>1. j \in Jobs BY <1>0, <1>8 DEF Conclude, At, JobStages, Stages
  <2>2. s \in JobStatus
    BY <1>8 DEF RunOutcomes, JobStatus
  <2>3. Concluded(job[j], s) \in JobRecord
    BY <2>1, <2>2, PatchTypes DEF TypeInv, TypeOK
  <2>4. job' \in [Jobs -> JobRecord]
    BY <1>8, <2>1, <2>3, JobMoves DEF Conclude, TypeInv
  <2>5. run' = [run EXCEPT ![e] = [@ EXCEPT !.pc = "release"]]
    BY <1>8 DEF Conclude
  <2>6. [run[e] EXCEPT !.pc = "release"] \in RunRecord
    BY <1>0, RunRecordTypes DEF Stages
  <2>6a. [run[e] EXCEPT !.pc = "release"].job = j
    BY <1>0 DEF RunRecord
  <2>7. run' \in [Executors -> RunRecord] /\ WorksOnAJob'
    BY <2>1, <2>5, <2>6, <2>6a, RunMoves
  <2> QED BY <1>8, <2>4, <2>7 DEF Conclude, TypeInv, TypeOK
<1>9. CASE RunFails(e)
  <2> DEFINE r == [IdleRun EXCEPT !.pc = "release", !.job = j]
  <2>1. j \in Jobs BY <1>0, <1>9 DEF RunFails, At, JobStages, Stages
  <2>2. r \in RunRecord /\ r.job = j
    BY <1>a, <2>1 DEF RunRecord, Stages
  <2>3. run' \in [Executors -> RunRecord] /\ WorksOnAJob'
    BY <1>9, <2>1, <2>2, RunMoves DEF RunFails
  <2> QED BY <1>9, <2>3 DEF RunFails, TypeInv, TypeOK
<1>10. CASE ReleaseRunClaim(e)
  <2>1. j \in Jobs BY <1>0, <1>10 DEF ReleaseRunClaim, At, JobStages, Stages
  <2>2. job' \in [Jobs -> JobRecord]
    BY <1>10, <2>1, ReleaseType DEF ReleaseRunClaim, TypeInv
  <2> QED BY <1>10, <1>b, <2>2 DEF ReleaseRunClaim, TypeInv, TypeOK
<1>11. CASE ReleaseRunClaimFails(e)
  <2>1. j \in Jobs BY <1>0, <1>11 DEF ReleaseRunClaimFails, At, JobStages, Stages
  <2>2. pending' \in [Executors -> SUBSET Jobs]
    BY <1>11, <2>1 DEF ReleaseRunClaimFails, TypeInv, TypeOK
  <2> QED BY <1>11, <1>b, <2>2 DEF ReleaseRunClaimFails, TypeInv, TypeOK
<1>12. CASE StoreFails(e)
  <2>1. run' \in [Executors -> RunRecord] /\ WorksOnAJob'
    BY <1>a, <1>12, RunMoves DEF StoreFails
  <2> QED BY <1>12, <2>1 DEF StoreFails, TypeInv, TypeOK
<1> QED BY <1>1, <1>2, <1>3, <1>4, <1>5, <1>6, <1>7, <1>8, <1>9, <1>10,
           <1>11, <1>12 DEF RunStep

\* Every step of a poll round preserves the types.
LEMMA RoundStepType ==
  ASSUME TypeInv, NEW e \in Executors, RoundStep(e)
  PROVE  TypeInv'
<1>0. run[e] \in RunRecord /\ run[e].todo \in SUBSET Jobs
  BY DEF TypeInv, TypeOK, RunRecord
<1>a. IdleRun \in RunRecord /\ IdleRun.pc \notin JobStages
  BY <1>0, ReturnedType DEF JobStages
<1>1. CASE Wake(e)
  <2> DEFINE r == [run[e] EXCEPT !.pc = "flush", !.todo = pending[e]]
  <2>1. r \in RunRecord
    BY <1>0, RunRecordTypes DEF TypeInv, TypeOK, Stages
  <2>2. r.pc = "flush"
    BY <1>0 DEF RunRecord
  <2>3. run' = [run EXCEPT ![e] = r]
    BY <1>1 DEF Wake
  <2>4. r.pc \notin JobStages
    BY <2>2 DEF JobStages
  <2>5. run' \in [Executors -> RunRecord] /\ WorksOnAJob'
    <3> HIDE DEF r
    <3> QED BY <2>1, <2>3, <2>4, RunMoves
  <2> QED BY <1>1, <2>5 DEF Wake, TypeInv, TypeOK
<1>2. CASE RoundFails(e)
  <2>1. run' \in [Executors -> RunRecord] /\ WorksOnAJob'
    BY <1>a, <1>2, RunMoves DEF RoundFails
  <2> QED BY <1>2, <2>1 DEF RoundFails, TypeInv, TypeOK
<1>3. CASE RevisitOpenJobs(e)
  <2> DEFINE T == {j \in Jobs \ run[e].window : OpenForRevisit(e, j)}
             r == [run[e] EXCEPT !.phase = "revisit", !.window = {}, !.todo = T]
  <2>1. r \in RunRecord
    <3>1. T \in SUBSET Jobs OBVIOUS
    <3> HIDE DEF T
    <3> QED BY <1>0, <3>1 DEF RunRecord
  <2>2. r.pc = "round"
    BY <1>0, <1>3 DEF RunRecord, RevisitOpenJobs, At
  <2>3. run' = [run EXCEPT ![e] = r]
    BY <1>3 DEF RevisitOpenJobs
  <2>2a. r.pc \notin JobStages
    BY <2>2 DEF JobStages
  <2> HIDE DEF T
  <2>4. run' \in [Executors -> RunRecord] /\ WorksOnAJob'
    BY <2>1, <2>2a, <2>3, RunMoves
  <2> QED BY <1>3, <2>4 DEF RevisitOpenJobs, TypeInv, TypeOK
<1>4. CASE EndRound(e)
  <2>1. run' \in [Executors -> RunRecord] /\ WorksOnAJob'
    BY <1>a, <1>4, RunMoves DEF EndRound
  <2> QED BY <1>4, <2>1 DEF EndRound, TypeInv, TypeOK
<1>5. ASSUME NEW window \in SUBSET Jobs, BeginRound(e, window) PROVE TypeInv'
  <2> DEFINE r == [run[e] EXCEPT !.pc = "round", !.phase = "scan",
                                 !.todo = window, !.window = window]
  <2>1. r \in RunRecord
    BY <1>0 DEF RunRecord, Stages
  <2>2. r.pc \notin JobStages
    BY <1>0 DEF RunRecord, JobStages
  <2>3. run' = [run EXCEPT ![e] = r]
    BY <1>5 DEF BeginRound
  <2> HIDE DEF r
  <2>4. run' \in [Executors -> RunRecord] /\ WorksOnAJob'
    BY <2>1, <2>2, <2>3, RunMoves
  <2> QED BY <1>5, <2>4 DEF BeginRound, TypeInv, TypeOK
<1>6. ASSUME NEW j \in Jobs, FlushRelease(e, j) \/ FlushReleaseFails(e, j)
      PROVE  TypeInv'
  <2> DEFINE r == [run[e] EXCEPT !.todo = run[e].todo \ {j}]
  <2>1. r \in RunRecord
    BY <1>0, RunRecordTypes
  <2>2. r.pc = "flush"
    BY <1>0, <1>6 DEF RunRecord, FlushRelease, FlushReleaseFails, At
  <2>3. run' = [run EXCEPT ![e] = r]
    BY <1>6 DEF FlushRelease, FlushReleaseFails
  <2>4. run' \in [Executors -> RunRecord] /\ WorksOnAJob'
    BY <2>1, <2>2, <2>3, RunMoves DEF JobStages
  <2>5. job' \in [Jobs -> JobRecord]
    BY <1>6, ReleaseType DEF FlushRelease, FlushReleaseFails, TypeInv, TypeOK
  <2>6. proc' = proc /\ pending' \in [Executors -> SUBSET Jobs]
    BY <1>6 DEF FlushRelease, FlushReleaseFails, TypeInv, TypeOK
  <2> QED BY <2>4, <2>5, <2>6 DEF TypeInv, TypeOK
<1>7. ASSUME NEW j \in Jobs, HandleLog(e, j) PROVE TypeInv'
  <2> DEFINE r == [run[e] EXCEPT !.todo = run[e].todo \ {j}]
  <2>1. r \in RunRecord
    BY <1>0, RunRecordTypes
  <2>2. DetectFor(e, j, r)
    BY <1>7 DEF HandleLog
  <2> QED BY <2>1, <2>2, DetectType
<1> QED BY <1>1, <1>2, <1>3, <1>4, <1>5, <1>6, <1>7 DEF RoundStep

\* Every step of a manual command preserves the types.
LEMMA CommandStepType ==
  ASSUME TypeInv, NEW e \in Executors, CommandStep(e)
  PROVE  TypeInv'
<1>0. run[e] \in RunRecord
  BY DEF TypeInv, TypeOK
<1>a. IdleRun \in RunRecord /\ IdleRun.pc \notin JobStages
  BY <1>0, ReturnedType DEF JobStages
<1>b. ASSUME NEW j \in Jobs, NEW stage \in Stages
      PROVE  Decided(e, j, stage) \in RunRecord /\ Decided(e, j, stage).job = j
  <2>1. [status |-> job[j].status, claim |-> job[j].claim]
          \in [status : JobStatus \cup {"absent"}, claim : Claims]
    BY DEF TypeInv, TypeOK, JobRecord
  <2> QED BY <1>a, <2>1 DEF Decided, RunRecord
<1>1. ASSUME NEW j \in Jobs, RetryRead(e, j) \/ DeadLetterRead(e, j)
      PROVE  TypeInv'
  <2>1. PICK stage \in Stages : run' = [run EXCEPT ![e] = Decided(e, j, stage)]
    BY <1>1 DEF RetryRead, DeadLetterRead, Stages
  <2>2. run' \in [Executors -> RunRecord] /\ WorksOnAJob'
    BY <1>b, <2>1, RunMoves
  <2> QED BY <1>1, <2>2 DEF RetryRead, DeadLetterRead, TypeInv, TypeOK
<1>2. CASE RetryWrite(e)
  <2> DEFINE j == run[e].job
             r == [run[e] EXCEPT !.pc = "detect", !.seen = NothingSeen]
  <2>1. j \in Jobs
    BY <1>2 DEF RetryWrite, At, JobStages, Stages, TypeInv, WorksOnAJob
  <2>2. Reopened(job[j]) \in JobRecord
    BY <2>1, PatchTypes DEF TypeInv, TypeOK
  <2>3. job' \in [Jobs -> JobRecord]
    BY <1>2, <2>1, <2>2, JobMoves DEF RetryWrite, TypeInv
  <2>4. r \in RunRecord
    BY <1>0, RunRecordTypes DEF Stages
  <2>5. r.job = j
    BY <1>0 DEF RunRecord
  <2>6. run' = [run EXCEPT ![e] = r]
    BY <1>2 DEF RetryWrite
  <2>7. run' \in [Executors -> RunRecord] /\ WorksOnAJob'
    <3>1. r.job \in Jobs BY <2>1, <2>5
    <3> HIDE DEF r, j
    <3> QED BY <2>4, <2>6, <3>1, RunMoves
  <2> QED BY <1>2, <2>3, <2>7 DEF RetryWrite, TypeInv, TypeOK
<1>3. ASSUME NEW stage \in JobStages, DeadLetterWith(e, stage) PROVE TypeInv'
  <2> DEFINE j == run[e].job
  <2>1. j \in Jobs
    BY <1>3 DEF DeadLetterWith, At, TypeInv, WorksOnAJob
  <2>2. DeadLettered(job[j]) \in JobRecord
    BY <2>1, PatchTypes DEF TypeInv, TypeOK
  <2>3. job' \in [Jobs -> JobRecord]
    BY <1>3, <2>1, <2>2, JobMoves DEF DeadLetterWith, TypeInv
  <2>4. run' \in [Executors -> RunRecord] /\ WorksOnAJob'
    BY <1>3, <1>a, RunMoves DEF DeadLetterWith
  <2> QED BY <1>3, <2>3, <2>4 DEF DeadLetterWith, TypeInv, TypeOK
<1>4. CASE CommandConflict(e)
  <2>1. run' \in [Executors -> RunRecord] /\ WorksOnAJob'
    BY <1>a, <1>4, RunMoves DEF CommandConflict
  <2> QED BY <1>4, <2>1 DEF CommandConflict, TypeInv, TypeOK
<1> QED BY <1>1, <1>2, <1>3, <1>4
        DEF CommandStep, ExhaustWrite, DeadLetterWrite, JobStages, Stages

\* A process starts or ends: its executors are idle afterwards.
LEMMA ProcessStepType ==
  ASSUME TypeInv, NEW p \in Pids, Boot(p) \/ Die(p)
  PROVE  TypeInv'
<1>1. CASE Boot(p)
  BY <1>1 DEF Boot, TypeInv, TypeOK, WorksOnAJob
<1>2. CASE Die(p)
  <2>1. IdleRun \in RunRecord /\ IdleRun.pc \notin JobStages
    BY DEF JobStages, IdleRun, RunRecord, NothingSeen, Stages, Claims
  <2>2. run' \in [Executors -> RunRecord] /\ WorksOnAJob'
    BY <1>2, <2>1 DEF Die, TypeInv, TypeOK, WorksOnAJob
  <2>3. proc' \in [Pids -> {"unborn", "up", "down"}] /\ job' = job
    BY <1>2 DEF Die, TypeInv, TypeOK
  <2>4. pending' \in [Executors -> SUBSET Jobs]
    BY <1>2 DEF Die, TypeInv, TypeOK
  <2> QED BY <2>2, <2>3, <2>4 DEF TypeInv, TypeOK
<1> QED BY <1>1, <1>2

\* The initial state is well formed.
LEMMA InitType == Init => TypeInv
<1>1. IdleRun \in RunRecord /\ IdleRun.pc \notin JobStages
  BY DEF JobStages, IdleRun, RunRecord, NothingSeen, Stages, Claims
<1> QED BY <1>1, InitialRecordTypes DEF Init, TypeInv, TypeOK, WorksOnAJob

\* Every step preserves the types.
LEMMA StepType == TypeInv /\ [Next]_vars => TypeInv'
<1> SUFFICES ASSUME TypeInv, [Next]_vars PROVE TypeInv'
  OBVIOUS
<1>1. CASE UNCHANGED vars
  BY <1>1 DEF vars, TypeInv, TypeOK, WorksOnAJob
<1>2. CASE Next
  BY <1>2, RunStepType, RoundStepType, CommandStepType, ProcessStepType DEF Next
<1> QED BY <1>1, <1>2

\* The stored jobs, the process table, the locals of every executor and the
\* queues of stuck releases keep their types in every reachable state.
THEOREM TypeCorrect == Spec => []TypeOK
<1>1. TypeInv => TypeOK
  BY DEF TypeInv
<1> QED BY <1>1, InitType, StepType, PTL DEF Spec

-----------------------------------------------------------------------------
(***************************************************************************)
(* Mutual exclusion of runs.  The argument: a run is entered only through  *)
(* a write guarded by a snapshot whose claim was free or belonged to a     *)
(* dead process.  A dead process runs nothing and its pid is not given     *)
(* out again, so while a run is in flight no such snapshot matches its job.*)
(***************************************************************************)

\* The deployment of the command line: no two executors share a process.
OwnProcesses == \A e1, e2 \in Executors : pidOf[e1] = pidOf[e2] => e1 = e2

Deciding == {"claimWrite", "retryWrite", "exhaustWrite", "deadLetterWrite"}

ClaimKnown == \A j \in Jobs : \A p \in Pids :
  job[j].claim = p => proc[p] # "unborn"

DownIsIdle == \A e \in Executors : ~Up(e) => run[e].pc = "idle"

\* What a pending decision has read: no held claim, and a status it may act on.
SeenSafe == \A e \in Executors :
  run[e].pc \in Deciding =>
    /\ \A p \in Pids : run[e].seen.claim = p => proc[p] = "down"
    /\ run[e].pc = "claimWrite" => ~IsTerminal(run[e].seen.status)
    /\ run[e].pc = "retryWrite" => IsRetriable(run[e].seen.status)

\* The job of a run is claimed by it, or closed for good under it.
Guarded(e, j) ==
  \/ job[j].status = "matched" /\ job[j].claim = pidOf[e]
  \/ job[j].status \in {"ignored", "dead_letter"}

RunGuard == \A e \in Executors : \A j \in Jobs :
  Running(e, j) => Guarded(e, j)

Safe == ClaimKnown /\ DownIsIdle /\ SeenSafe /\ RunGuard /\ MutualExclusion

\* A step of one executor that neither starts a run nor decides, that takes no
\* claim and leaves the guard of every other run alone, keeps Safe.
LEMMA QuietStep ==
  ASSUME TypeInv, TypeInv', Safe, NEW e \in Executors, Up(e), proc' = proc,
         \A f \in Executors : f # e => run'[f] = run[f],
         run'[e].pc \notin Deciding \cup {"running"},
         \A j \in Jobs : \A p \in Pids :
           job'[j].claim = p => job[j].claim = p \/ p = pidOf[e],
         \A f \in Executors : \A j \in Jobs :
           f # e /\ Running(f, j) => Guarded(f, j)'
  PROVE  Safe'
<1>1. ClaimKnown'
  BY DEF Safe, ClaimKnown, Up
<1>2. DownIsIdle'
  BY DEF Safe, DownIsIdle, Up
<1>3. SeenSafe'
  BY DEF Safe, SeenSafe
<1>4. \A f \in Executors : \A j \in Jobs : Running(f, j)' => f # e /\ Running(f, j)
  BY DEF Running
<1>5. RunGuard' /\ MutualExclusion'
  BY <1>4 DEF Safe, RunGuard, MutualExclusion
<1> QED BY <1>1, <1>2, <1>3, <1>5 DEF Safe

\* An update of the run record of one executor leaves the others alone.
LEMMA OthersStay ==
  ASSUME TypeInv, NEW e \in Executors, NEW r, run' = [run EXCEPT ![e] = r]
  PROVE  run'[e] = r /\ \A f \in Executors : f # e => run'[f] = run[f]
BY DEF TypeInv, TypeOK

\* If the store does not change, no run loses its guard and no claim appears.
LEMMA SameStore ==
  ASSUME Safe, job' = job
  PROVE  /\ \A f \in Executors : \A j \in Jobs : Running(f, j) => Guarded(f, j)'
         /\ \A j \in Jobs : \A p \in Pids : job'[j].claim = p => job[j].claim = p
BY DEF Safe, RunGuard, Guarded

\* A job whose snapshot still holds is not being run.
LEMMA SnapshotExcludesRun ==
  ASSUME TypeInv, Safe, NEW e \in Executors, NEW j \in Jobs, run[e].job = j,
         run[e].pc \in {"claimWrite", "retryWrite"}, SeenHolds(e),
         NEW f \in Executors
  PROVE  ~Running(f, j)
<1> SUFFICES ASSUME Running(f, j) PROVE FALSE
  OBVIOUS
<1>1. job[j].status = run[e].seen.status /\ job[j].claim = run[e].seen.claim
  BY DEF SeenHolds, PatchCasMatches
<1>2. Up(f)
  BY DEF Safe, DownIsIdle, Running
<1>3. Guarded(f, j)
  BY DEF Safe, RunGuard
<1>4. CASE job[j].claim = pidOf[f]
  <2>1. proc[pidOf[f]] = "down"
    BY <1>1, <1>4 DEF Safe, SeenSafe, Deciding
  <2> QED BY <2>1, <1>2 DEF Up
<1>5. CASE job[j].status \in {"ignored", "dead_letter"}
  BY <1>1, <1>5 DEF Safe, SeenSafe, Deciding, IsTerminal, IsRetriable
<1> QED BY <1>3, <1>4, <1>5 DEF Guarded

\* A pending read becomes a decision: only the deciding record of e is new.
LEMMA DecideStep ==
  ASSUME TypeInv, TypeInv', Safe, NEW e \in Executors, Up(e), NEW j \in Jobs,
         proc' = proc, job' = job,
         \A f \in Executors : f # e => run'[f] = run[f],
         run'[e].pc \in Deciding,
         run'[e].seen = [status |-> job[j].status, claim |-> job[j].claim],
         ~IsHeldRunClaim(e, job[j].claim),
         run'[e].pc = "claimWrite" => ~IsTerminal(job[j].status),
         run'[e].pc = "retryWrite" => IsRetriable(job[j].status)
  PROVE  Safe'
<1>1. ClaimKnown' /\ DownIsIdle'
  BY DEF Safe, ClaimKnown, DownIsIdle, Up
<1>2. \A p \in Pids : job[j].claim = p => proc[p] = "down"
  <2> SUFFICES ASSUME NEW p \in Pids, job[j].claim = p PROVE proc[p] = "down"
    OBVIOUS
  <2>1. proc[p] # "up" /\ proc[p] # "unborn"
    BY DEF IsHeldRunClaim, Safe, ClaimKnown
  <2> QED BY <2>1 DEF TypeInv, TypeOK
<1>3. SeenSafe'
  BY <1>2 DEF Safe, SeenSafe
<1>4. \A f \in Executors : \A i \in Jobs : Running(f, i)' => Running(f, i)
  BY DEF Running, Deciding
<1>5. RunGuard' /\ MutualExclusion'
  BY <1>4 DEF Safe, RunGuard, MutualExclusion, Guarded
<1> QED BY <1>1, <1>3, <1>5 DEF Safe

\* The common prefix of handleLog creates a job nobody runs yet, or nothing.
LEMMA DetectSafe ==
  ASSUME TypeInv, TypeInv', Safe, NEW e \in Executors, Up(e), NEW j \in Jobs,
         NEW r \in RunRecord, DetectFor(e, j, r)
  PROVE  Safe'
<1>1. run'[e].pc \notin Deciding \cup {"running"}
  <2>1. Returned(r).pc \in {"idle", "round"}
    BY ReturnedType
  <2>2. \A pc \in Stages : [r EXCEPT !.job = j, !.pc = pc].pc = pc
    BY DEF RunRecord
  <2> QED BY <2>1, <2>2 DEF DetectFor, TypeInv, TypeOK, Deciding, Stages
<1>2. \A f \in Executors : f # e => run'[f] = run[f]
  BY DEF DetectFor, TypeInv, TypeOK
<1>3. \A i \in Jobs : \/ job'[i] = job[i]
                      \/ job[i].status = "absent" /\ job'[i] = DetectedJob
  BY DEF DetectFor, Upserted, TypeInv, TypeOK
<1>4. \A i \in Jobs : \A p \in Pids : job'[i].claim = p => job[i].claim = p
  BY <1>3 DEF DetectedJob
<1>5. \A f \in Executors : \A i \in Jobs : Running(f, i) => Guarded(f, i)'
  BY <1>3 DEF Safe, RunGuard, Guarded
<1> QED BY <1>1, <1>2, <1>4, <1>5, QuietStep DEF DetectFor

\* A write that closes a job for good, or frees a claim that is the writer's
\* own, takes no other run's guard away.
LEMMA ReleaseSafe ==
  ASSUME TypeInv, Safe, OwnProcesses, NEW e \in Executors, NEW j \in Jobs,
         ReleaseOwn(e, j)
  PROVE  /\ \A f \in Executors : \A i \in Jobs :
              f # e /\ Running(f, i) => Guarded(f, i)'
         /\ \A i \in Jobs : \A p \in Pids : job'[i].claim = p => job[i].claim = p
<1>1. \A i \in Jobs : \/ job'[i] = job[i]
                      \/ /\ job[i].claim = pidOf[e]
                         /\ job'[i].claim = NoPid
                         /\ job'[i].status = job[i].status
  BY DEF ReleaseOwn, Released, TypeInv, TypeOK, JobRecord
<1>2. \A f \in Executors : f # e => pidOf[f] # pidOf[e]
  BY DEF OwnProcesses
<1> QED BY <1>1, <1>2 DEF Safe, RunGuard, Guarded

\* A job that is closed for good keeps every run guarded.
LEMMA CloseSafe ==
  ASSUME TypeInv, Safe,
         \A i \in Jobs : \/ job'[i] = job[i]
                         \/ /\ job'[i].status \in {"ignored", "dead_letter"}
                            /\ job'[i].claim = NoPid
  PROVE  /\ \A f \in Executors : \A i \in Jobs : Running(f, i) => Guarded(f, i)'
         /\ \A i \in Jobs : \A p \in Pids : job'[i].claim = p => job[i].claim = p
BY DEF Safe, RunGuard, Guarded

\* Every step of handleLog keeps runs exclusive.
LEMMA RunStepSafe ==
  ASSUME TypeInv, TypeInv', Safe, OwnProcesses, NEW e \in Executors, RunStep(e)
  PROVE  Safe'
<1> DEFINE j == run[e].job
<1>0. run[e] \in RunRecord
  BY DEF TypeInv, TypeOK
<1>a. Returned(run[e]).pc \in {"idle", "round"} /\ IdleRun.pc = "idle"
  BY <1>0, ReturnedType
<1>1. CASE RetryHandleLog(e)
  <2>1. j \in Jobs /\ Up(e)
    BY <1>1 DEF RetryHandleLog, At, TypeInv, WorksOnAJob, JobStages, Stages
  <2> QED BY <1>0, <1>1, <2>1, DetectSafe DEF RetryHandleLog
<1>2. CASE IgnoreWrite(e)
  <2>1. j \in Jobs /\ Up(e)
    BY <1>2 DEF IgnoreWrite, At, TypeInv, WorksOnAJob, JobStages, Stages
  <2>2. /\ WithConclusiveClaimRelease(job[j], "ignored").status = "ignored"
        /\ WithConclusiveClaimRelease(job[j], "ignored").claim = NoPid
    BY <2>1 DEF WithConclusiveClaimRelease, TypeInv, TypeOK, JobRecord
  <2>3. run' = [run EXCEPT ![e] = Returned(run[e])] /\ proc' = proc
    BY <1>2 DEF IgnoreWrite
  <2>4. job' = [job EXCEPT ![j] = WithConclusiveClaimRelease(job[j], "ignored")]
    BY <1>2 DEF IgnoreWrite
  <2>5. run'[e].pc \notin Deciding \cup {"running"}
    BY <1>a, <2>3, OthersStay DEF Deciding
  <2>6. \A f \in Executors : f # e => run'[f] = run[f]
    BY <2>3, OthersStay
  <2>7. /\ \A f \in Executors : \A i \in Jobs : Running(f, i) => Guarded(f, i)'
        /\ \A i \in Jobs : \A p \in Pids : job'[i].claim = p => job[i].claim = p
    <3>1. \A i \in Jobs :
            \/ job'[i] = job[i]
            \/ job'[i].status \in {"ignored", "dead_letter"} /\ job'[i].claim = NoPid
      BY <2>1, <2>2, <2>4 DEF TypeInv, TypeOK
    <3> QED BY <3>1, CloseSafe
  <2> QED BY <2>1, <2>3, <2>5, <2>6, <2>7, QuietStep
<1>3. CASE ClaimRead(e)
  <2>1. j \in Jobs /\ Up(e) /\ job' = job /\ proc' = proc
    BY <1>3 DEF ClaimRead, At, TypeInv, WorksOnAJob, JobStages, Stages
  <2>2. CASE run' = [run EXCEPT ![e] = Returned(run[e])]
    BY <1>a, <2>1, <2>2, SameStore, OthersStay, QuietStep DEF Deciding
  <2>3. CASE ~IsTerminal(job[j].status) /\ ~IsHeldRunClaim(e, job[j].claim)
    <3> DEFINE r == [run[e] EXCEPT !.pc = "claimWrite",
                       !.seen = [status |-> job[j].status, claim |-> job[j].claim]]
    <3>1. run' = [run EXCEPT ![e] = r]
      BY <1>3, <2>3 DEF ClaimRead
    <3>2. /\ r.pc = "claimWrite"
          /\ r.seen = [status |-> job[j].status, claim |-> job[j].claim]
      BY <1>0 DEF RunRecord
    <3>3. run'[e] = r /\ \A f \in Executors : f # e => run'[f] = run[f]
      BY <3>1, OthersStay
    <3>4. /\ run'[e].pc \in Deciding
          /\ run'[e].seen = [status |-> job[j].status, claim |-> job[j].claim]
          /\ run'[e].pc # "retryWrite"
      BY <3>2, <3>3 DEF Deciding
    <3> QED BY <2>1, <2>3, <3>3, <3>4, DecideStep
  <2> QED BY <1>3, <2>2, <2>3 DEF ClaimRead
<1>4. CASE ClaimWrite(e)
  <2>1. j \in Jobs /\ Up(e) /\ proc' = proc
    BY <1>4 DEF ClaimWrite, At, TypeInv, WorksOnAJob, JobStages, Stages
  <2>2. \A f \in Executors : ~Running(f, j)
    BY <1>4, <2>1, SnapshotExcludesRun DEF ClaimWrite, At
  <2>3. \A i \in Jobs : i # j => job'[i] = job[i]
    BY <1>4, <2>1 DEF ClaimWrite, TypeInv, TypeOK
  <2>4. job'[j].status = "matched" /\ job'[j].claim = pidOf[e]
    BY <1>4, <2>1 DEF ClaimWrite, Claimed, TypeInv, TypeOK, JobRecord
  <2>5. run'[e].pc = "running" /\ run'[e].job = j
    BY <1>0, <1>4 DEF ClaimWrite, TypeInv, TypeOK, RunRecord
  <2>6. \A f \in Executors : f # e => run'[f] = run[f]
    BY <1>4 DEF ClaimWrite, TypeInv, TypeOK
  <2>7. ClaimKnown' /\ DownIsIdle'
    BY <2>1, <2>3, <2>4, <2>6 DEF Safe, ClaimKnown, DownIsIdle, Up
  <2>8. SeenSafe'
    BY <2>1, <2>5, <2>6 DEF Safe, SeenSafe, Deciding
  <2>9. RunGuard'
    BY <2>2, <2>3, <2>4, <2>5, <2>6 DEF Safe, RunGuard, Running, Guarded
  <2>10. MutualExclusion'
    BY <2>2, <2>5, <2>6 DEF Safe, MutualExclusion, Running
  <2> QED BY <2>7, <2>8, <2>9, <2>10 DEF Safe
<1>5. CASE ClaimLost(e)
  <2> DEFINE again == [run[e] EXCEPT !.pc = "claimRead", !.lastTry = TRUE,
                                     !.seen = NothingSeen]
  <2>1. Up(e) /\ job' = job /\ proc' = proc
    BY <1>5 DEF ClaimLost, At
  <2>2. again.pc = "claimRead"
    BY <1>0 DEF RunRecord
  <2>3. run' = [run EXCEPT ![e] = Returned(run[e])] \/ run' = [run EXCEPT ![e] = again]
    BY <1>5 DEF ClaimLost
  <2> HIDE DEF again
  <2>4. run'[e].pc \notin Deciding \cup {"running"}
    BY <1>a, <2>2, <2>3, OthersStay DEF Deciding
  <2>5. \A f \in Executors : f # e => run'[f] = run[f]
    BY <2>3, OthersStay
  <2> QED BY <2>1, <2>4, <2>5, SameStore, QuietStep
<1>6. CASE RecordFailure(e) \/ RecordRehearsal(e)
  <2>1. \A i \in Jobs : job'[i].status = job[i].status /\ job'[i].claim = job[i].claim
    BY <1>6 DEF RecordFailure, RecordRehearsal, TypeInv, TypeOK, JobRecord
  <2>2. run' = run /\ proc' = proc
    BY <1>6 DEF RecordFailure, RecordRehearsal
  <2> QED BY <2>1, <2>2 DEF Safe, ClaimKnown, DownIsIdle, SeenSafe, RunGuard,
                            MutualExclusion, Guarded, Running, Up
<1>7. ASSUME NEW s \in RunOutcomes(e), Conclude(e, s) PROVE Safe'
  <2>1. j \in Jobs /\ Up(e) /\ proc' = proc /\ Running(e, j)
    BY <1>7 DEF Conclude, At, Running, TypeInv, WorksOnAJob, JobStages, Stages
  <2>2. run'[e].pc = "release" /\ \A f \in Executors : f # e => run'[f] = run[f]
    BY <1>0, <1>7 DEF Conclude, TypeInv, TypeOK, RunRecord
  <2>3. \A i \in Jobs : i # j => job'[i] = job[i]
    BY <1>7 DEF Conclude, TypeInv, TypeOK
  <2>4. job'[j].claim = job[j].claim \/ job'[j].claim = NoPid
    BY <1>7, <2>1 DEF Conclude, Concluded, WithConclusiveClaimRelease,
                      TypeInv, TypeOK, JobRecord
  <2>5. \A f \in Executors : f # e => ~Running(f, j)
    BY <2>1 DEF Safe, MutualExclusion
  <2>6. \A f \in Executors : \A i \in Jobs :
          f # e /\ Running(f, i) => Guarded(f, i)'
    BY <2>3, <2>5 DEF Safe, RunGuard, Guarded
  <2>7. \A i \in Jobs : \A p \in Pids : job'[i].claim = p => job[i].claim = p
    BY <2>3, <2>4
  <2> QED BY <2>1, <2>2, <2>6, <2>7, QuietStep DEF Deciding
<1>8. CASE RunFails(e)
  <2> DEFINE r == [IdleRun EXCEPT !.pc = "release", !.job = j]
  <2>1. Up(e) /\ job' = job /\ proc' = proc /\ run' = [run EXCEPT ![e] = r]
    BY <1>8 DEF RunFails, At
  <2>2. r.pc = "release"
    BY DEF IdleRun
  <2> HIDE DEF r
  <2> QED BY <2>1, <2>2, SameStore, OthersStay, QuietStep DEF Deciding
<1>9. CASE ReleaseRunClaim(e)
  <2>1. /\ j \in Jobs /\ Up(e) /\ proc' = proc /\ ReleaseOwn(e, j)
        /\ run' = [run EXCEPT ![e] = Returned(run[e])]
    BY <1>9 DEF ReleaseRunClaim, At, TypeInv, WorksOnAJob, JobStages, Stages
  <2>2. run'[e].pc \notin Deciding \cup {"running"}
    BY <1>a, <2>1, OthersStay DEF Deciding
  <2>3. \A f \in Executors : f # e => run'[f] = run[f]
    BY <2>1, OthersStay
  <2>4. /\ \A f \in Executors : \A i \in Jobs :
              f # e /\ Running(f, i) => Guarded(f, i)'
        /\ \A i \in Jobs : \A p \in Pids : job'[i].claim = p => job[i].claim = p
    BY <2>1, ReleaseSafe
  <2> QED BY <2>1, <2>2, <2>3, <2>4, QuietStep
<1>10. CASE ReleaseRunClaimFails(e)
  <2>1. /\ Up(e) /\ job' = job /\ proc' = proc
        /\ run' = [run EXCEPT ![e] = Returned(run[e])]
    BY <1>10 DEF ReleaseRunClaimFails, At
  <2> QED BY <1>a, <2>1, SameStore, OthersStay, QuietStep DEF Deciding
<1>11. CASE StoreFails(e)
  <2>1. /\ Up(e) /\ job' = job /\ proc' = proc
        /\ run' = [run EXCEPT ![e] = IdleRun]
    BY <1>11 DEF StoreFails, At
  <2> QED BY <1>a, <2>1, SameStore, OthersStay, QuietStep DEF Deciding
<1> QED BY <1>1, <1>2, <1>3, <1>4, <1>5, <1>6, <1>7, <1>8, <1>9, <1>10,
           <1>11 DEF RunStep

\* Every step of a poll round keeps runs exclusive.
LEMMA RoundStepSafe ==
  ASSUME TypeInv, TypeInv', Safe, OwnProcesses, NEW e \in Executors, RoundStep(e)
  PROVE  Safe'
<1>0. run[e] \in RunRecord
  BY DEF TypeInv, TypeOK
<1>a. IdleRun.pc = "idle"
  BY <1>0, ReturnedType
<1>b. ASSUME NEW r, run' = [run EXCEPT ![e] = r], Up(e), job' = job, proc' = proc,
             r.pc \notin Deciding \cup {"running"}
      PROVE  Safe'
  <2>1. run'[e].pc \notin Deciding \cup {"running"}
    BY <1>b, OthersStay
  <2>2. \A f \in Executors : f # e => run'[f] = run[f]
    BY <1>b, OthersStay
  <2> QED BY <1>b, <2>1, <2>2, SameStore, QuietStep
<1>1. CASE Wake(e)
  <2> DEFINE r == [run[e] EXCEPT !.pc = "flush", !.todo = pending[e]]
  <2>1. r.pc = "flush"
    BY <1>0 DEF RunRecord
  <2>2. run' = [run EXCEPT ![e] = r] /\ Up(e) /\ job' = job /\ proc' = proc
    BY <1>1 DEF Wake, At
  <2> HIDE DEF r
  <2> QED BY <1>b, <2>1, <2>2 DEF Deciding
<1>2. CASE RoundFails(e) \/ EndRound(e)
  <2>1. run' = [run EXCEPT ![e] = IdleRun] /\ Up(e) /\ job' = job /\ proc' = proc
    BY <1>2 DEF RoundFails, EndRound, At
  <2> QED BY <1>a, <1>b, <2>1 DEF Deciding
<1>3. CASE RevisitOpenJobs(e)
  <2> DEFINE r == [run[e] EXCEPT !.phase = "revisit", !.window = {},
                     !.todo = {j \in Jobs \ run[e].window : OpenForRevisit(e, j)}]
  <2>1. r.pc = "round"
    BY <1>0, <1>3 DEF RunRecord, RevisitOpenJobs, At
  <2>2. run' = [run EXCEPT ![e] = r] /\ Up(e) /\ job' = job /\ proc' = proc
    BY <1>3 DEF RevisitOpenJobs, At
  <2> HIDE DEF r
  <2> QED BY <1>b, <2>1, <2>2 DEF Deciding
<1>4. ASSUME NEW window \in SUBSET Jobs, BeginRound(e, window) PROVE Safe'
  <2> DEFINE r == [run[e] EXCEPT !.pc = "round", !.phase = "scan",
                                 !.todo = window, !.window = window]
  <2>1. r.pc = "round"
    BY <1>0 DEF RunRecord
  <2>2. run' = [run EXCEPT ![e] = r] /\ Up(e) /\ job' = job /\ proc' = proc
    BY <1>4 DEF BeginRound, At
  <2> HIDE DEF r
  <2> QED BY <1>b, <2>1, <2>2 DEF Deciding
<1>5. ASSUME NEW j \in Jobs, FlushRelease(e, j) PROVE Safe'
  <2> DEFINE r == [run[e] EXCEPT !.todo = run[e].todo \ {j}]
  <2>1. r.pc = "flush"
    BY <1>0, <1>5 DEF RunRecord, FlushRelease, At
  <2>2. /\ run' = [run EXCEPT ![e] = r] /\ Up(e) /\ proc' = proc
        /\ ReleaseOwn(e, j)
    BY <1>5 DEF FlushRelease, At
  <2> HIDE DEF r
  <2>3. run'[e].pc \notin Deciding \cup {"running"}
    BY <2>1, <2>2, OthersStay DEF Deciding
  <2>4. \A f \in Executors : f # e => run'[f] = run[f]
    BY <2>2, OthersStay
  <2>5. /\ \A f \in Executors : \A i \in Jobs :
              f # e /\ Running(f, i) => Guarded(f, i)'
        /\ \A i \in Jobs : \A p \in Pids : job'[i].claim = p => job[i].claim = p
    BY <2>2, ReleaseSafe
  <2> QED BY <2>2, <2>3, <2>4, <2>5, QuietStep
<1>6. ASSUME NEW j \in Jobs, FlushReleaseFails(e, j) PROVE Safe'
  <2> DEFINE r == [run[e] EXCEPT !.todo = run[e].todo \ {j}]
  <2>1. r.pc = "flush"
    BY <1>0, <1>6 DEF RunRecord, FlushReleaseFails, At
  <2>2. run' = [run EXCEPT ![e] = r] /\ Up(e) /\ job' = job /\ proc' = proc
    BY <1>6 DEF FlushReleaseFails, At
  <2> HIDE DEF r
  <2> QED BY <1>b, <2>1, <2>2 DEF Deciding
<1>7. ASSUME NEW j \in Jobs, HandleLog(e, j) PROVE Safe'
  <2> DEFINE r == [run[e] EXCEPT !.todo = run[e].todo \ {j}]
  <2>1. r \in RunRecord
    BY <1>0 DEF RunRecord
  <2>2. DetectFor(e, j, r) /\ Up(e)
    BY <1>7 DEF HandleLog, At
  <2> HIDE DEF r
  <2> QED BY <2>1, <2>2, DetectSafe
<1> QED BY <1>1, <1>2, <1>3, <1>4, <1>5, <1>6, <1>7 DEF RoundStep

\* Every step of a manual command keeps runs exclusive.
LEMMA CommandStepSafe ==
  ASSUME TypeInv, TypeInv', Safe, OwnProcesses, NEW e \in Executors, CommandStep(e)
  PROVE  Safe'
<1> DEFINE i == run[e].job
<1>0. run[e] \in RunRecord
  BY DEF TypeInv, TypeOK
<1>a. IdleRun.pc = "idle"
  BY <1>0, ReturnedType
<1>b. ASSUME NEW j \in Jobs, NEW stage \in Deciding, Up(e), job' = job, proc' = proc,
             run' = [run EXCEPT ![e] = Decided(e, j, stage)],
             ~IsHeldRunClaim(e, job[j].claim), stage # "claimWrite",
             IsRetriable(job[j].status) \/ stage # "retryWrite"
      PROVE  Safe'
  <2>1. /\ Decided(e, j, stage).pc = stage
        /\ Decided(e, j, stage).seen = [status |-> job[j].status, claim |-> job[j].claim]
    BY DEF Decided, IdleRun
  <2>2. run'[e] = Decided(e, j, stage) /\ \A f \in Executors : f # e => run'[f] = run[f]
    BY <1>b, OthersStay
  <2> QED BY <1>b, <2>1, <2>2, DecideStep
<1>1. ASSUME NEW j \in Jobs, RetryRead(e, j) PROVE Safe'
  <2>1. /\ Up(e) /\ job' = job /\ proc' = proc /\ IsRetriable(job[j].status)
        /\ ~IsHeldRunClaim(e, job[j].claim)
    BY <1>1 DEF RetryRead, At
  <2>2. \/ run' = [run EXCEPT ![e] = Decided(e, j, "exhaustWrite")]
        \/ run' = [run EXCEPT ![e] = Decided(e, j, "retryWrite")]
    BY <1>1 DEF RetryRead
  <2>3. {"exhaustWrite", "retryWrite"} \subseteq Deciding
    BY DEF Deciding
  <2> QED BY <1>b, <2>1, <2>2, <2>3
<1>2. ASSUME NEW j \in Jobs, DeadLetterRead(e, j) PROVE Safe'
  <2>1. /\ Up(e) /\ job' = job /\ proc' = proc
        /\ ~IsHeldRunClaim(e, job[j].claim)
        /\ run' = [run EXCEPT ![e] = Decided(e, j, "deadLetterWrite")]
    BY <1>2 DEF DeadLetterRead, At
  <2>2. "deadLetterWrite" \in Deciding
    BY DEF Deciding
  <2> QED BY <1>b, <2>1, <2>2
<1>3. CASE RetryWrite(e)
  <2> DEFINE r == [run[e] EXCEPT !.pc = "detect", !.seen = NothingSeen]
  <2>1. i \in Jobs /\ Up(e) /\ proc' = proc /\ run' = [run EXCEPT ![e] = r]
    BY <1>3 DEF RetryWrite, At, TypeInv, WorksOnAJob, JobStages, Stages
  <2>2. r.pc = "detect"
    BY <1>0 DEF RunRecord
  <2> HIDE DEF r
  <2>3. run'[e].pc \notin Deciding \cup {"running"}
    BY <2>1, <2>2, OthersStay DEF Deciding
  <2>4. \A f \in Executors : f # e => run'[f] = run[f]
    BY <2>1, OthersStay
  <2>5. \A f \in Executors : ~Running(f, i)
    BY <1>3, <2>1, SnapshotExcludesRun DEF RetryWrite, At
  <2>6. \A k \in Jobs : \/ job'[k] = job[k]
                        \/ k = i /\ job'[k].claim = NoPid
    BY <1>3, <2>1 DEF RetryWrite, Reopened, TypeInv, TypeOK, JobRecord
  <2>7. \A f \in Executors : \A k \in Jobs : Running(f, k) => Guarded(f, k)'
    BY <2>5, <2>6 DEF Safe, RunGuard, Guarded
  <2>8. \A k \in Jobs : \A p \in Pids : job'[k].claim = p => job[k].claim = p
    BY <2>6
  <2> QED BY <2>1, <2>3, <2>4, <2>7, <2>8, QuietStep
<1>4. ASSUME NEW stage \in Deciding, DeadLetterWith(e, stage) PROVE Safe'
  <2>1. Up(e) /\ proc' = proc /\ run' = [run EXCEPT ![e] = IdleRun]
    BY <1>4 DEF DeadLetterWith, At
  <2>2. run'[e].pc \notin Deciding \cup {"running"}
    BY <1>a, <2>1, OthersStay DEF Deciding
  <2>3. \A f \in Executors : f # e => run'[f] = run[f]
    BY <2>1, OthersStay
  <2>4. \A k \in Jobs :
          \/ job'[k] = job[k]
          \/ job'[k].status \in {"ignored", "dead_letter"} /\ job'[k].claim = NoPid
    BY <1>4 DEF DeadLetterWith, DeadLettered, TypeInv, TypeOK, JobRecord
  <2>5. /\ \A f \in Executors : \A k \in Jobs : Running(f, k) => Guarded(f, k)'
        /\ \A k \in Jobs : \A p \in Pids : job'[k].claim = p => job[k].claim = p
    BY <2>4, CloseSafe
  <2> QED BY <2>1, <2>2, <2>3, <2>5, QuietStep
<1>5. CASE CommandConflict(e)
  <2>1. /\ Up(e) /\ job' = job /\ proc' = proc
        /\ run' = [run EXCEPT ![e] = IdleRun]
    BY <1>5 DEF CommandConflict, At
  <2> QED BY <1>a, <2>1, SameStore, OthersStay, QuietStep DEF Deciding
<1>6. {"exhaustWrite", "deadLetterWrite"} \subseteq Deciding
  BY DEF Deciding
<1> QED BY <1>1, <1>2, <1>3, <1>4, <1>5, <1>6
        DEF CommandStep, ExhaustWrite, DeadLetterWrite

\* A process starts with a fresh pid, or dies and takes its runs with it.
LEMMA ProcessStepSafe ==
  ASSUME TypeInv, TypeInv', Safe, ~PidReuse, NEW p \in Pids, Boot(p) \/ Die(p)
  PROVE  Safe'
<1>1. CASE Boot(p)
  <2>1. /\ proc[p] = "unborn" /\ job' = job /\ run' = run
        /\ \A q \in Pids : proc'[q] = IF q = p THEN "up" ELSE proc[q]
    BY <1>1 DEF Boot, TypeInv, TypeOK
  <2>2. ClaimKnown' /\ DownIsIdle'
    BY <2>1 DEF Safe, ClaimKnown, DownIsIdle, Up
  <2>3. SeenSafe'
    BY <2>1 DEF Safe, SeenSafe
  <2>4. RunGuard' /\ MutualExclusion'
    BY <2>1 DEF Safe, RunGuard, MutualExclusion, Running, Guarded
  <2> QED BY <2>2, <2>3, <2>4 DEF Safe
<1>2. CASE Die(p)
  <2>1. /\ job' = job
        /\ \A q \in Pids : proc'[q] = IF q = p THEN "down" ELSE proc[q]
        /\ \A f \in Executors : run'[f] = IF pidOf[f] = p THEN IdleRun ELSE run[f]
    BY <1>2 DEF Die, TypeInv, TypeOK
  <2>2. IdleRun.pc = "idle"
    BY DEF IdleRun
  <2>3. ClaimKnown' /\ DownIsIdle'
    BY <2>1, <2>2 DEF Safe, ClaimKnown, DownIsIdle, Up
  <2>4. SeenSafe'
    BY <2>1, <2>2 DEF Safe, SeenSafe, Deciding
  <2>5. \A f \in Executors : \A j \in Jobs : Running(f, j)' => Running(f, j)
    BY <2>1, <2>2 DEF Running
  <2>6. RunGuard' /\ MutualExclusion'
    BY <2>1, <2>5 DEF Safe, RunGuard, MutualExclusion, Guarded
  <2> QED BY <2>3, <2>4, <2>6 DEF Safe
<1> QED BY <1>1, <1>2

\* Nothing runs, decides or is claimed at the start.
LEMMA InitSafe == Init => Safe
<1>1. Init => ClaimKnown
  BY DEF Init, ClaimKnown, AbsentJob
<1>2. Init => DownIsIdle /\ SeenSafe /\ RunGuard /\ MutualExclusion
  BY DEF Init, DownIsIdle, SeenSafe, RunGuard, MutualExclusion, Running,
         IdleRun, Deciding
<1> QED BY <1>1, <1>2 DEF Safe

\* Every step keeps runs exclusive.
LEMMA SafeStep ==
  ASSUME OwnProcesses, ~PidReuse, TypeInv, TypeInv', Safe, [Next]_vars
  PROVE  Safe'
<1>1. CASE UNCHANGED vars
  BY <1>1 DEF vars, Safe, ClaimKnown, DownIsIdle, SeenSafe, RunGuard,
              MutualExclusion, Guarded, Running, Up
<1>2. CASE Next
  BY <1>2, RunStepSafe, RoundStepSafe, CommandStepSafe, ProcessStepSafe DEF Next
<1> QED BY <1>1, <1>2

\* Where no two executors share a process and the system never hands out the
\* pid of a dead process again, no job is run twice at the same time, whatever
\* the number of watchers, commands and jobs, crashes and lost races included.
THEOREM RunsExclude ==
  ASSUME OwnProcesses, ~PidReuse PROVE Spec => []MutualExclusion
<1>1. Init => TypeInv /\ Safe
  BY InitType, InitSafe
<1>2. TypeInv /\ Safe /\ [Next]_vars => (TypeInv /\ Safe)'
  BY StepType, SafeStep
<1>3. Safe => MutualExclusion
  BY DEF Safe
<1> QED BY <1>1, <1>2, <1>3, PTL DEF Spec
-----------------------------------------------------------------------------
(***************************************************************************)
(* Who may be where: what an executor has read and is configured with when *)
(* it comes to a write.                                                    *)
(***************************************************************************)

\* Only an executor without the handler writes `ignored`, only an operator
\* reopens or dead-letters, and a claim or the dead-letter of an exhausted job
\* is decided on a job that had no verdict.
Earned(e, r) ==
  /\ r.pc = "ignoreWrite" => e \notin Handling
  /\ r.pc \in {"retryWrite", "deadLetterWrite"} => e \in Operators
  /\ r.pc \in {"claimWrite", "exhaustWrite"} => ~IsTerminal(r.seen.status)

StagesEarned == \A e \in Executors : Earned(e, run[e])

EarnedStages == {"ignoreWrite", "retryWrite", "deadLetterWrite", "claimWrite",
                 "exhaustWrite"}

\* One executor moves to an earned stage; the others stay.
LEMMA EarnedMoves ==
  ASSUME TypeInv, StagesEarned, NEW e \in Executors, NEW r, Earned(e, r),
         run' = [run EXCEPT ![e] = r]
  PROVE  StagesEarned'
<1>1. run'[e] = r /\ \A f \in Executors : f # e => run'[f] = run[f]
  BY OthersStay
<1> QED BY <1>1 DEF StagesEarned

\* Stages other than these five ask for nothing.
LEMMA OtherStages ==
  ASSUME NEW e \in Executors, NEW r, r.pc \notin EarnedStages
  PROVE  Earned(e, r)
BY DEF Earned, EarnedStages

\* handleLog decides by the configuration of the executor what comes next.
LEMMA DetectEarned ==
  ASSUME TypeInv, StagesEarned, NEW e \in Executors, NEW j \in Jobs,
         NEW r \in RunRecord, DetectFor(e, j, r)
  PROVE  StagesEarned'
<1> DEFINE on == [r EXCEPT !.job = j, !.pc = IF e \in Handling THEN "claimRead"
                                             ELSE "ignoreWrite"]
<1>1. run' = [run EXCEPT ![e] = Returned(r)] \/ run' = [run EXCEPT ![e] = on]
  BY DEF DetectFor
<1>2. Earned(e, Returned(r))
  BY ReturnedType, OtherStages DEF EarnedStages
<1>3. Earned(e, on)
  <2>1. on.pc = IF e \in Handling THEN "claimRead" ELSE "ignoreWrite"
    BY DEF RunRecord
  <2> HIDE DEF on
  <2> QED BY <2>1 DEF Earned
<1> HIDE DEF on
<1> QED BY <1>1, <1>2, <1>3, EarnedMoves

\* Every stage a step of handleLog leads to is earned.
LEMMA RunStepEarned ==
  ASSUME TypeInv, StagesEarned, NEW e \in Executors, RunStep(e)
  PROVE  StagesEarned'
<1> DEFINE j == run[e].job
<1>0. run[e] \in RunRecord /\ (run[e].pc \in JobStages => j \in Jobs)
  BY DEF TypeInv, TypeOK, WorksOnAJob
<1>a. Earned(e, Returned(run[e])) /\ Earned(e, IdleRun)
  BY <1>0, ReturnedType, OtherStages DEF EarnedStages
<1>1. CASE RetryHandleLog(e)
  BY <1>0, <1>1, DetectEarned DEF RetryHandleLog, At, JobStages, Stages
<1>2. CASE IgnoreWrite(e) \/ ReleaseRunClaim(e) \/ ReleaseRunClaimFails(e)
  <2>1. run' = [run EXCEPT ![e] = Returned(run[e])]
    BY <1>2 DEF IgnoreWrite, ReleaseRunClaim, ReleaseRunClaimFails
  <2> QED BY <1>a, <2>1, EarnedMoves
<1>3. CASE ClaimRead(e)
  <2> DEFINE sn == [status |-> job[j].status, claim |-> job[j].claim]
             r == [run[e] EXCEPT !.pc = "claimWrite", !.seen = sn]
  <2>1. \/ run' = [run EXCEPT ![e] = Returned(run[e])]
        \/ ~IsTerminal(job[j].status) /\ run' = [run EXCEPT ![e] = r]
    BY <1>3 DEF ClaimRead
  <2>2. r.pc = "claimWrite" /\ r.seen.status = job[j].status
    BY <1>0 DEF RunRecord
  <2> HIDE DEF r
  <2>3. ~IsTerminal(job[j].status) => Earned(e, r)
    BY <2>2 DEF Earned
  <2> QED BY <1>a, <2>1, <2>3, EarnedMoves
<1>4. CASE ClaimWrite(e) \/ ClaimLost(e)
  <2> DEFINE won == [run[e] EXCEPT !.pc = "running", !.seen = NothingSeen]
             again == [run[e] EXCEPT !.pc = "claimRead", !.lastTry = TRUE,
                                     !.seen = NothingSeen]
  <2>1. \/ run' = [run EXCEPT ![e] = Returned(run[e])]
        \/ run' = [run EXCEPT ![e] = won]
        \/ run' = [run EXCEPT ![e] = again]
    BY <1>4 DEF ClaimWrite, ClaimLost
  <2>2. won.pc = "running" /\ again.pc = "claimRead"
    BY <1>0 DEF RunRecord
  <2> HIDE DEF won, again
  <2>3. Earned(e, won) /\ Earned(e, again)
    BY <2>2, OtherStages DEF EarnedStages
  <2> QED BY <1>a, <2>1, <2>3, EarnedMoves
<1>5. CASE RecordFailure(e) \/ RecordRehearsal(e)
  BY <1>5 DEF RecordFailure, RecordRehearsal, StagesEarned
<1>6. ASSUME NEW s \in RunOutcomes(e), Conclude(e, s) PROVE StagesEarned'
  <2> DEFINE r == [run[e] EXCEPT !.pc = "release"]
  <2>1. run' = [run EXCEPT ![e] = r]
    BY <1>6 DEF Conclude
  <2>2. r.pc = "release"
    BY <1>0 DEF RunRecord
  <2> HIDE DEF r
  <2> QED BY <2>1, <2>2, OtherStages, EarnedMoves DEF EarnedStages
<1>7. CASE RunFails(e)
  <2> DEFINE r == [IdleRun EXCEPT !.pc = "release", !.job = j]
  <2>1. run' = [run EXCEPT ![e] = r]
    BY <1>7 DEF RunFails
  <2>2. r.pc = "release"
    BY DEF IdleRun
  <2> HIDE DEF r
  <2> QED BY <2>1, <2>2, OtherStages, EarnedMoves DEF EarnedStages
<1>8. CASE StoreFails(e)
  BY <1>a, <1>8, EarnedMoves DEF StoreFails
<1> QED BY <1>1, <1>2, <1>3, <1>4, <1>5, <1>6, <1>7, <1>8 DEF RunStep

\* A poll round leads to none of these stages before handleLog.
LEMMA RoundStepEarned ==
  ASSUME TypeInv, StagesEarned, NEW e \in Executors, RoundStep(e)
  PROVE  StagesEarned'
<1>0. run[e] \in RunRecord
  BY DEF TypeInv, TypeOK
<1>a. IdleRun.pc = "idle"
  BY <1>0, ReturnedType
<1>b. ASSUME NEW r, run' = [run EXCEPT ![e] = r], r.pc \in {"idle", "flush", "round"}
      PROVE  StagesEarned'
  BY <1>b, OtherStages, EarnedMoves DEF EarnedStages
<1>1. CASE Wake(e)
  <2> DEFINE r == [run[e] EXCEPT !.pc = "flush", !.todo = pending[e]]
  <2>1. r.pc = "flush" /\ run' = [run EXCEPT ![e] = r]
    <3>1. r.pc = "flush"
      BY <1>0 DEF RunRecord
    <3>2. run' = [run EXCEPT ![e] = r]
      BY <1>1 DEF Wake
    <3> QED BY <3>1, <3>2
  <2> HIDE DEF r
  <2> QED BY <1>b, <2>1
<1>2. CASE RoundFails(e) \/ EndRound(e)
  <2>1. run' = [run EXCEPT ![e] = IdleRun]
    BY <1>2 DEF RoundFails, EndRound
  <2> QED BY <1>a, <1>b, <2>1
<1>3. CASE RevisitOpenJobs(e)
  <2> DEFINE r == [run[e] EXCEPT !.phase = "revisit", !.window = {},
                     !.todo = {j \in Jobs \ run[e].window : OpenForRevisit(e, j)}]
  <2>1. r.pc = "round"
    BY <1>0, <1>3 DEF RunRecord, RevisitOpenJobs, At
  <2>2. run' = [run EXCEPT ![e] = r]
    BY <1>3 DEF RevisitOpenJobs
  <2> HIDE DEF r
  <2> QED BY <1>b, <2>1, <2>2
<1>4. ASSUME NEW window \in SUBSET Jobs, BeginRound(e, window) PROVE StagesEarned'
  <2> DEFINE r == [run[e] EXCEPT !.pc = "round", !.phase = "scan",
                                 !.todo = window, !.window = window]
  <2>1. r.pc = "round" /\ run' = [run EXCEPT ![e] = r]
    <3>1. r.pc = "round"
      BY <1>0 DEF RunRecord
    <3>2. run' = [run EXCEPT ![e] = r]
      BY <1>4 DEF BeginRound
    <3> QED BY <3>1, <3>2
  <2> HIDE DEF r
  <2> QED BY <1>b, <2>1
<1>5. ASSUME NEW j \in Jobs, FlushRelease(e, j) \/ FlushReleaseFails(e, j)
      PROVE  StagesEarned'
  <2> DEFINE r == [run[e] EXCEPT !.todo = run[e].todo \ {j}]
  <2>1. r.pc = "flush"
    BY <1>0, <1>5 DEF RunRecord, FlushRelease, FlushReleaseFails, At
  <2>2. run' = [run EXCEPT ![e] = r]
    BY <1>5 DEF FlushRelease, FlushReleaseFails
  <2> HIDE DEF r
  <2> QED BY <1>b, <2>1, <2>2
<1>6. ASSUME NEW j \in Jobs, HandleLog(e, j) PROVE StagesEarned'
  <2> DEFINE r == [run[e] EXCEPT !.todo = run[e].todo \ {j}]
  <2>1. r \in RunRecord /\ DetectFor(e, j, r)
    BY <1>0, <1>6 DEF RunRecord, HandleLog
  <2> HIDE DEF r
  <2> QED BY <2>1, DetectEarned
<1> QED BY <1>1, <1>2, <1>3, <1>4, <1>5, <1>6 DEF RoundStep

\* A command comes to its write as an operator; an exhausted job had no verdict.
LEMMA CommandStepEarned ==
  ASSUME TypeInv, StagesEarned, NEW e \in Executors, CommandStep(e)
  PROVE  StagesEarned'
<1>0. run[e] \in RunRecord
  BY DEF TypeInv, TypeOK
<1>a. Earned(e, IdleRun)
  BY <1>0, ReturnedType, OtherStages DEF EarnedStages
<1>b. \A j \in Jobs : \A stage \in Stages :
        /\ Decided(e, j, stage).pc = stage
        /\ Decided(e, j, stage).seen.status = job[j].status
  BY DEF Decided, IdleRun
<1>1. ASSUME NEW j \in Jobs, RetryRead(e, j) PROVE StagesEarned'
  <2>1. e \in Operators /\ IsRetriable(job[j].status)
    BY <1>1 DEF RetryRead
  <2>2. Exhausted(job[j]) => ~IsTerminal(job[j].status)
    BY <2>1 DEF Exhausted, IsRetriable, IsTerminal
  <2>3. \/ /\ Exhausted(job[j])
           /\ run' = [run EXCEPT ![e] = Decided(e, j, "exhaustWrite")]
        \/ run' = [run EXCEPT ![e] = Decided(e, j, "retryWrite")]
    BY <1>1 DEF RetryRead
  <2>4. /\ Exhausted(job[j]) => Earned(e, Decided(e, j, "exhaustWrite"))
        /\ Earned(e, Decided(e, j, "retryWrite"))
    BY <1>b, <2>1, <2>2 DEF Earned, Stages
  <2> QED BY <2>3, <2>4, EarnedMoves
<1>2. ASSUME NEW j \in Jobs, DeadLetterRead(e, j) PROVE StagesEarned'
  <2>1. e \in Operators /\ run' = [run EXCEPT ![e] = Decided(e, j, "deadLetterWrite")]
    BY <1>2 DEF DeadLetterRead
  <2>2. Earned(e, Decided(e, j, "deadLetterWrite"))
    BY <1>b, <2>1 DEF Earned, Stages
  <2> QED BY <2>1, <2>2, EarnedMoves
<1>3. CASE RetryWrite(e)
  <2> DEFINE r == [run[e] EXCEPT !.pc = "detect", !.seen = NothingSeen]
  <2>1. r.pc = "detect" /\ run' = [run EXCEPT ![e] = r]
    <3>1. r.pc = "detect"
      BY <1>0 DEF RunRecord
    <3>2. run' = [run EXCEPT ![e] = r]
      BY <1>3 DEF RetryWrite
    <3> QED BY <3>1, <3>2
  <2> HIDE DEF r
  <2> QED BY <2>1, OtherStages, EarnedMoves DEF EarnedStages
<1>4. CASE ExhaustWrite(e) \/ DeadLetterWrite(e) \/ CommandConflict(e)
  <2>1. run' = [run EXCEPT ![e] = IdleRun]
    BY <1>4 DEF ExhaustWrite, DeadLetterWrite, DeadLetterWith, CommandConflict
  <2> QED BY <1>a, <2>1, EarnedMoves
<1> QED BY <1>1, <1>2, <1>3, <1>4 DEF CommandStep

\* No executor comes to a write it has not earned.
LEMMA EarnedInvariant ==
  /\ Init => StagesEarned
  /\ TypeInv /\ StagesEarned /\ [Next]_vars => StagesEarned'
<1>1. Init => StagesEarned
  BY DEF Init, StagesEarned, Earned, IdleRun
<1>2. ASSUME TypeInv, StagesEarned, [Next]_vars PROVE StagesEarned'
  <2>1. CASE UNCHANGED vars
    BY <1>2, <2>1 DEF vars, StagesEarned
  <2>2. ASSUME NEW p \in Pids, Boot(p) \/ Die(p) PROVE StagesEarned'
    BY <1>2, <2>2 DEF Boot, Die, StagesEarned, Earned, IdleRun
  <2> QED BY <1>2, <2>1, <2>2, RunStepEarned, RoundStepEarned, CommandStepEarned
          DEF Next
<1> QED BY <1>1, <1>2

-----------------------------------------------------------------------------
(***************************************************************************)
(* Who writes a status or a claim.  The other steps leave both alone.      *)
(***************************************************************************)

\* A guarded release frees the claim of its own process and nothing else.
Frees(e, j) ==
  /\ job[j].claim = pidOf[e]
  /\ job'[j].claim = NoPid
  /\ job'[j].status = job[j].status
  /\ run'[e] # run[e]

\* The writers of job j, among the steps of executor e.
Writes(e, j) ==
  \/ Frees(e, j)
  \/ /\ run[e].job = j
     /\ \/ IgnoreWrite(e)
        \/ ClaimWrite(e)
        \/ job[j].status = "matched" /\ \E s \in RunOutcomes(e) : Conclude(e, s)
        \/ RetryWrite(e)
        \/ ExhaustWrite(e)
        \/ DeadLetterWrite(e)

\* The claim and the status of a job that is no longer absent.
Untouched(j) ==
  job'[j].status = job[j].status /\ job'[j].claim = job[j].claim

Created(j) == job[j].status = "absent" /\ job'[j] = DetectedJob

\* A release of one's own claim, whose executor moves on.
LEMMA ReleaseWrites ==
  ASSUME TypeInv, NEW e \in Executors, NEW k \in Jobs, ReleaseOwn(e, k),
         run'[e] # run[e], NEW j \in Jobs
  PROVE  Untouched(j) \/ Frees(e, j)
<1>1. \/ job'[j] = job[j]
      \/ /\ job[j].claim = pidOf[e]
         /\ job'[j].claim = NoPid
         /\ job'[j].status = job[j].status
  BY DEF ReleaseOwn, Released, TypeInv, TypeOK, JobRecord
<1> QED BY <1>1 DEF Untouched, Frees

\* handleLog up to the claim creates a job or leaves it alone.
LEMMA DetectWrites ==
  ASSUME TypeInv, NEW e \in Executors, NEW k \in Jobs, NEW r, DetectFor(e, k, r),
         NEW j \in Jobs
  PROVE  Untouched(j) \/ Created(j)
BY DEF DetectFor, Upserted, TypeInv, TypeOK, Untouched, Created

\* The writers among the steps of handleLog.
LEMMA RunStepWrites ==
  ASSUME TypeInv, NEW e \in Executors, RunStep(e), NEW j \in Jobs
  PROVE  Untouched(j) \/ Created(j) \/ Writes(e, j)
<1> DEFINE k == run[e].job
<1>0. run[e] \in RunRecord /\ (run[e].pc \in JobStages => k \in Jobs)
  BY DEF TypeInv, TypeOK, WorksOnAJob
<1>1. CASE RetryHandleLog(e)
  BY <1>0, <1>1, DetectWrites DEF RetryHandleLog, At, JobStages, Stages
<1>2. CASE IgnoreWrite(e) \/ ClaimWrite(e)
  <2>1. k # j => job'[j] = job[j]
    BY <1>2 DEF IgnoreWrite, ClaimWrite, TypeInv, TypeOK
  <2> QED BY <1>2, <2>1 DEF Untouched, Writes
<1>3. CASE \/ ClaimRead(e) \/ ClaimLost(e) \/ RunFails(e) \/ StoreFails(e)
           \/ ReleaseRunClaimFails(e)
  <2>1. job' = job
    BY <1>3 DEF ClaimRead, ClaimLost, RunFails, StoreFails, ReleaseRunClaimFails
  <2> QED BY <2>1 DEF Untouched
<1>4. CASE RecordFailure(e) \/ RecordRehearsal(e)
  BY <1>4 DEF RecordFailure, RecordRehearsal, TypeInv, TypeOK, JobRecord, Untouched
<1>5. ASSUME NEW s \in RunOutcomes(e), Conclude(e, s)
      PROVE  Untouched(j) \/ Writes(e, j)
  <2>1. k # j => job'[j] = job[j]
    BY <1>5 DEF Conclude, TypeInv, TypeOK
  <2>2. k = j /\ job[j].status # "matched" => job'[j] = job[j]
    BY <1>5 DEF Conclude, Concluded, TypeInv, TypeOK
  <2> QED BY <1>5, <2>1, <2>2 DEF Untouched, Writes
<1>6. CASE ReleaseRunClaim(e)
  <2>1. /\ k \in Jobs /\ ReleaseOwn(e, k) /\ run[e].pc = "release"
        /\ run' = [run EXCEPT ![e] = Returned(run[e])]
    BY <1>0, <1>6 DEF ReleaseRunClaim, At, JobStages, Stages
  <2>2. run'[e].pc \in {"idle", "round"}
    BY <1>0, <2>1, ReturnedType, OthersStay
  <2>3. run'[e] # run[e]
    BY <2>1, <2>2
  <2> QED BY <2>1, <2>3, ReleaseWrites DEF Writes
<1> QED BY <1>1, <1>2, <1>3, <1>4, <1>5, <1>6 DEF RunStep

\* The writers among the steps of a poll round.
LEMMA RoundStepWrites ==
  ASSUME TypeInv, NEW e \in Executors, RoundStep(e), NEW j \in Jobs
  PROVE  Untouched(j) \/ Created(j) \/ Writes(e, j)
<1>1. CASE Wake(e) \/ RoundFails(e) \/ RevisitOpenJobs(e) \/ EndRound(e)
  BY <1>1 DEF Wake, RoundFails, RevisitOpenJobs, EndRound, Untouched
<1>2. ASSUME NEW window \in SUBSET Jobs, BeginRound(e, window) PROVE Untouched(j)
  BY <1>2 DEF BeginRound, Untouched
<1>3. ASSUME NEW k \in Jobs, FlushRelease(e, k)
      PROVE  Untouched(j) \/ Writes(e, j)
  <2> DEFINE r == [run[e] EXCEPT !.todo = run[e].todo \ {k}]
  <2>1. ReleaseOwn(e, k) /\ k \in run[e].todo /\ run' = [run EXCEPT ![e] = r]
    BY <1>3 DEF FlushRelease
  <2>2. k \notin r.todo
    BY DEF TypeInv, TypeOK, RunRecord
  <2> HIDE DEF r
  <2>3. run'[e] # run[e]
    BY <2>1, <2>2, OthersStay
  <2> QED BY <2>1, <2>3, ReleaseWrites DEF Writes
<1>4. ASSUME NEW k \in Jobs, FlushReleaseFails(e, k) PROVE Untouched(j)
  BY <1>4 DEF FlushReleaseFails, Untouched
<1>5. ASSUME NEW k \in Jobs, HandleLog(e, k) PROVE Untouched(j) \/ Created(j)
  BY <1>5, DetectWrites DEF HandleLog
<1> QED BY <1>1, <1>2, <1>3, <1>4, <1>5 DEF RoundStep

\* The writers among the steps of a manual command.
LEMMA CommandStepWrites ==
  ASSUME TypeInv, NEW e \in Executors, CommandStep(e), NEW j \in Jobs
  PROVE  Untouched(j) \/ Writes(e, j)
<1>1. ASSUME NEW k \in Jobs, RetryRead(e, k) \/ DeadLetterRead(e, k)
      PROVE  Untouched(j)
  BY <1>1 DEF RetryRead, DeadLetterRead, Untouched
<1>2. CASE RetryWrite(e) \/ ExhaustWrite(e) \/ DeadLetterWrite(e)
  <2>1. run[e].job # j => job'[j] = job[j]
    BY <1>2 DEF RetryWrite, ExhaustWrite, DeadLetterWrite, DeadLetterWith,
                TypeInv, TypeOK
  <2> QED BY <1>2, <2>1 DEF Untouched, Writes
<1>3. CASE CommandConflict(e)
  BY <1>3 DEF CommandConflict, Untouched
<1> QED BY <1>1, <1>2, <1>3 DEF CommandStep

\* Every step leaves a job alone, creates it, or is one of its writers.
LEMMA StepWrites ==
  ASSUME TypeInv, [Next]_vars, NEW j \in Jobs
  PROVE  Untouched(j) \/ Created(j) \/ \E e \in Executors : Writes(e, j)
<1>1. CASE UNCHANGED vars
  BY <1>1 DEF vars, Untouched
<1>2. ASSUME NEW p \in Pids, Boot(p) \/ Die(p) PROVE Untouched(j)
  BY <1>2 DEF Boot, Die, Untouched
<1> QED BY <1>1, <1>2, RunStepWrites, RoundStepWrites, CommandStepWrites DEF Next

\* A step whose guard is a snapshot writes the job that was read.
LEMMA SnapshotWrites ==
  ASSUME NEW e \in Executors, NEW j \in Jobs, run[e].job = j,
         ClaimWrite(e) \/ RetryWrite(e) \/ ExhaustWrite(e) \/ DeadLetterWrite(e)
  PROVE  /\ run[e].pc \in Deciding
         /\ job[j].status = run[e].seen.status
         /\ job[j].claim = run[e].seen.claim
BY DEF ClaimWrite, RetryWrite, ExhaustWrite, DeadLetterWrite, DeadLetterWith, At,
       SeenHolds, PatchCasMatches, Deciding

\* A terminal verdict is only ever replaced by a manual command, or by the
\* write of an executor that lacks the handler: with any number of processes,
\* shared or not, with pids given out again or not.
THEOREM VerdictsStand == Spec => VerdictChangesOnlyByCommand
<1> DEFINE ByCommand(j) ==
      IsTerminal(job[j].status) /\ job'[j].status # job[j].status =>
        \/ \E e \in Operators : RetryWrite(e) \/ DeadLetterWrite(e)
        \/ ClosedUnhandled
<1>1. ASSUME TypeInv, StagesEarned, [Next]_vars, NEW j \in Jobs PROVE ByCommand(j)
  <2> SUFFICES ASSUME IsTerminal(job[j].status), job'[j].status # job[j].status
               PROVE  \/ \E e \in Operators : RetryWrite(e) \/ DeadLetterWrite(e)
                      \/ ClosedUnhandled
    OBVIOUS
  <2>1. PICK e \in Executors : Writes(e, j)
    BY <1>1, StepWrites DEF Untouched, Created, IsTerminal
  <2>2. CASE run[e].job = j /\ (ClaimWrite(e) \/ ExhaustWrite(e))
    <3>1. job[j].status = run[e].seen.status
      BY <2>2, SnapshotWrites
    <3>2. run[e].pc \in {"claimWrite", "exhaustWrite"}
      BY <2>2 DEF ClaimWrite, ExhaustWrite, DeadLetterWith, At
    <3> QED BY <1>1, <3>1, <3>2 DEF StagesEarned, Earned
  <2>3. CASE IgnoreWrite(e)
    BY <1>1, <2>3 DEF IgnoreWrite, At, StagesEarned, Earned, ClosedUnhandled
  <2>4. CASE RetryWrite(e) \/ DeadLetterWrite(e)
    BY <1>1, <2>4 DEF RetryWrite, DeadLetterWrite, DeadLetterWith, At,
                      StagesEarned, Earned
  <2> QED BY <2>1, <2>2, <2>3, <2>4 DEF Writes, Frees, IsTerminal
<1>2. TypeInv /\ StagesEarned /\ [Next]_vars =>
        [\A j \in Jobs : ByCommand(j)]_vars
  BY <1>1
<1>3. Spec => [](TypeInv /\ StagesEarned)
  BY InitType, StepType, EarnedInvariant, PTL DEF Spec
<1> QED BY <1>2, <1>3, PTL DEF Spec, VerdictChangesOnlyByCommand

-----------------------------------------------------------------------------
(***************************************************************************)
(* Whose claims are there.                                                 *)
(***************************************************************************)

\* What a writer leaves behind.
LEMMA Written ==
  ASSUME TypeInv, NEW e \in Executors, NEW j \in Jobs, run[e].job = j
  PROVE  /\ IgnoreWrite(e) => job'[j].claim = NoPid /\ job'[j].status = "ignored"
         /\ ClaimWrite(e) => job'[j].claim = pidOf[e] /\ job'[j].status = "matched"
         /\ \A s \in RunOutcomes(e) : Conclude(e, s) =>
              /\ job'[j].claim \in {job[j].claim, NoPid}
              /\ job'[j].status \in {job[j].status, s}
         /\ RetryWrite(e) => job'[j].claim = NoPid /\ job'[j].status = "detected"
         /\ ExhaustWrite(e) \/ DeadLetterWrite(e) =>
              job'[j].claim = NoPid /\ job'[j].status = "dead_letter"
<1> USE DEF TypeInv, TypeOK, JobRecord
<1>1. IgnoreWrite(e) => job'[j].claim = NoPid /\ job'[j].status = "ignored"
  BY DEF IgnoreWrite, WithConclusiveClaimRelease
<1>2. ClaimWrite(e) => job'[j].claim = pidOf[e] /\ job'[j].status = "matched"
  BY DEF ClaimWrite, Claimed
<1>3. \A s \in RunOutcomes(e) : Conclude(e, s) =>
        /\ job'[j].claim \in {job[j].claim, NoPid}
        /\ job'[j].status \in {job[j].status, s}
  BY DEF Conclude, Concluded, WithConclusiveClaimRelease
<1>4. RetryWrite(e) => job'[j].claim = NoPid /\ job'[j].status = "detected"
  BY DEF RetryWrite, Reopened
<1>5. ExhaustWrite(e) \/ DeadLetterWrite(e) =>
        job'[j].claim = NoPid /\ job'[j].status = "dead_letter"
  <2>1. DeadLettered(job[j]).claim = NoPid /\ DeadLettered(job[j]).status = "dead_letter"
    BY DEF DeadLettered
  <2>2. ExhaustWrite(e) \/ DeadLetterWrite(e) => job'[j] = DeadLettered(job[j])
    BY DEF ExhaustWrite, DeadLetterWrite, DeadLetterWith
  <2> QED BY <2>1, <2>2
<1> QED BY <1>1, <1>2, <1>3, <1>4, <1>5

\* A job the store does not hold carries no claim.
AbsentUnclaimed ==
  \A j \in Jobs : job[j].status = "absent" => job[j].claim = NoPid

\* No step leaves a claim on a job the store does not hold.
LEMMA AbsentInvariant ==
  /\ Init => AbsentUnclaimed
  /\ TypeInv /\ AbsentUnclaimed /\ [Next]_vars => AbsentUnclaimed'
<1>1. Init => AbsentUnclaimed
  BY DEF Init, AbsentUnclaimed, AbsentJob
<1>2. ASSUME TypeInv, AbsentUnclaimed, [Next]_vars, NEW j \in Jobs,
             job'[j].status = "absent"
      PROVE  job'[j].claim = NoPid
  <2>1. CASE Untouched(j) \/ Created(j)
    BY <1>2, <2>1 DEF AbsentUnclaimed, Untouched, Created, DetectedJob
  <2>2. ASSUME NEW e \in Executors, Writes(e, j) PROVE job'[j].claim = NoPid
    <3>1. CASE Frees(e, j)
      BY <3>1 DEF Frees
    <3>2. ASSUME NEW s \in RunOutcomes(e), Conclude(e, s), run[e].job = j,
                 job[j].status = "matched"
          PROVE  FALSE
      BY <1>2, <3>2, Written DEF RunOutcomes
    <3> QED BY <1>2, <2>2, <3>1, <3>2, Written DEF Writes
  <2> QED BY <1>2, <2>1, <2>2, StepWrites
<1> QED BY <1>1, <1>2 DEF AbsentUnclaimed

\* A claim appears only with the write that starts a run.
LEMMA ClaimAppears ==
  ASSUME TypeInv, [Next]_vars, NEW j \in Jobs, NEW p \in Pids, job'[j].claim = p
  PROVE  \/ job[j].claim = p
         \/ \E e \in Executors : ClaimWrite(e) /\ run[e].job = j /\ pidOf[e] = p
<1>1. CASE Untouched(j) \/ Created(j)
  BY <1>1 DEF Untouched, Created, DetectedJob
<1>2. ASSUME NEW e \in Executors, Writes(e, j)
      PROVE  \/ job[j].claim = p
             \/ ClaimWrite(e) /\ run[e].job = j /\ pidOf[e] = p
  BY <1>2, Written DEF Writes, Frees
<1> QED BY <1>1, <1>2, StepWrites

\* The executor that answers for a claim: it runs the job, is about to release
\* it, or has the release in its queue.
Answers(e, j) ==
  \/ run[e].pc \in {"running", "release"} /\ run[e].job = j
  \/ j \in pending[e]

\* A step of e, seen from e: a run is only begun by the claim and only ended
\* towards the release, which frees the claim or queues it.
OwnStep(e) ==
  /\ run'[e].pc = "running" =>
       \/ run'[e] = run[e]
       \/ ClaimWrite(e) /\ run'[e].job = run[e].job
  /\ \A j \in Jobs : Answers(e, j) => Answers(e, j)' \/ job'[j].claim # pidOf[e]

\* A step of e leaves the others and the processes alone.
LEMMA StepLeavesOthers ==
  ASSUME TypeInv, NEW e \in Executors, RunStep(e) \/ RoundStep(e) \/ CommandStep(e)
  PROVE  /\ proc' = proc
         /\ \A f \in Executors : f # e =>
              run'[f] = run[f] /\ pending'[f] = pending[f]
<1> USE DEF TypeInv, TypeOK
<1>1. CASE RunStep(e)
  BY <1>1 DEF RunStep, RetryHandleLog, DetectFor, IgnoreWrite, ClaimRead, ClaimWrite,
     ClaimLost, RecordFailure, RecordRehearsal, Conclude, RunFails, ReleaseRunClaim,
     ReleaseRunClaimFails, StoreFails
<1>2. CASE RoundStep(e)
  BY <1>2 DEF RoundStep, Wake, RoundFails, RevisitOpenJobs, EndRound, BeginRound,
     FlushRelease, FlushReleaseFails, HandleLog, DetectFor
<1>3. CASE CommandStep(e)
  BY <1>3 DEF CommandStep, RetryRead, DeadLetterRead, RetryWrite, ExhaustWrite,
     DeadLetterWrite, DeadLetterWith, CommandConflict
<1> QED BY <1>1, <1>2, <1>3

\* A step that neither comes from a run nor leads to one, and forgets no release.
LEMMA AsideIsOwnStep ==
  ASSUME TypeInv, NEW e \in Executors, NEW r, run' = [run EXCEPT ![e] = r],
         run[e].pc \notin {"running", "release"}, r.pc # "running",
         \A j \in pending[e] : j \in pending'[e] \/ job'[j].claim # pidOf[e]
  PROVE  OwnStep(e)
<1>1. run'[e] = r
  BY OthersStay
<1> QED BY <1>1 DEF OwnStep, Answers

\* handleLog up to the claim does not touch the runs.
LEMMA DetectIsOwnStep ==
  ASSUME TypeInv, NEW e \in Executors, NEW j \in Jobs, NEW r \in RunRecord,
         DetectFor(e, j, r), run[e].pc \notin {"running", "release"}
  PROVE  OwnStep(e)
<1> DEFINE on == [r EXCEPT !.job = j, !.pc = IF e \in Handling THEN "claimRead"
                                             ELSE "ignoreWrite"]
<1>1. run' = [run EXCEPT ![e] = Returned(r)] \/ run' = [run EXCEPT ![e] = on]
  BY DEF DetectFor
<1>2. Returned(r).pc # "running" /\ on.pc # "running"
  BY ReturnedType DEF RunRecord
<1>3. pending' = pending
  BY DEF DetectFor
<1> HIDE DEF on
<1> QED BY <1>1, <1>2, <1>3, AsideIsOwnStep

\* A release that is carried out frees the claim of its own process.
LEMMA ReleaseFrees ==
  ASSUME TypeInv, NEW e \in Executors, NEW j \in Jobs, ReleaseOwn(e, j)
  PROVE  job'[j].claim # pidOf[e]
BY DEF ReleaseOwn, Released, TypeInv, TypeOK, JobRecord

\* The steps of handleLog, seen from their executor.
LEMMA RunStepOwn ==
  ASSUME TypeInv, NEW e \in Executors, RunStep(e)
  PROVE  OwnStep(e)
<1> DEFINE k == run[e].job
<1>0. run[e] \in RunRecord /\ (run[e].pc \in JobStages => k \in Jobs)
  BY DEF TypeInv, TypeOK, WorksOnAJob
<1>a. Returned(run[e]).pc \in {"idle", "round"} /\ IdleRun.pc = "idle"
  BY <1>0, ReturnedType
<1>1. CASE RetryHandleLog(e)
  BY <1>0, <1>1, DetectIsOwnStep DEF RetryHandleLog, At, JobStages, Stages
<1>2. CASE IgnoreWrite(e) \/ StoreFails(e)
  <2>1. /\ \/ run' = [run EXCEPT ![e] = Returned(run[e])]
           \/ run' = [run EXCEPT ![e] = IdleRun]
        /\ run[e].pc \notin {"running", "release"}
        /\ pending' = pending
    BY <1>2 DEF IgnoreWrite, StoreFails, At
  <2> QED BY <1>a, <2>1, AsideIsOwnStep
<1>3. CASE ClaimRead(e) \/ ClaimLost(e)
  <2> DEFINE sn == [status |-> job[k].status, claim |-> job[k].claim]
             r == [run[e] EXCEPT !.pc = "claimWrite", !.seen = sn]
             again == [run[e] EXCEPT !.pc = "claimRead", !.lastTry = TRUE,
                                     !.seen = NothingSeen]
  <2>1. /\ \/ run' = [run EXCEPT ![e] = Returned(run[e])]
           \/ run' = [run EXCEPT ![e] = r]
           \/ run' = [run EXCEPT ![e] = again]
        /\ run[e].pc \notin {"running", "release"}
        /\ pending' = pending
    BY <1>3 DEF ClaimRead, ClaimLost, At
  <2>2. r.pc = "claimWrite" /\ again.pc = "claimRead"
    BY <1>0 DEF RunRecord
  <2> HIDE DEF r, again
  <2> QED BY <1>a, <2>1, <2>2, AsideIsOwnStep
<1>4. CASE ClaimWrite(e)
  <2>1. /\ run'[e].pc = "running" /\ run'[e].job = k
        /\ run[e].pc = "claimWrite" /\ pending' = pending
    BY <1>0, <1>4 DEF ClaimWrite, At, TypeInv, TypeOK, RunRecord
  <2> QED BY <1>4, <2>1 DEF OwnStep, Answers
<1>5. CASE RecordFailure(e) \/ RecordRehearsal(e)
  BY <1>5 DEF RecordFailure, RecordRehearsal, OwnStep, Answers
<1>6. ASSUME NEW s \in RunOutcomes(e), Conclude(e, s) \/ RunFails(e) PROVE OwnStep(e)
  <2> DEFINE stop == [run[e] EXCEPT !.pc = "release"]
             drop == [IdleRun EXCEPT !.pc = "release", !.job = k]
  <2>a. /\ stop.pc = "release" /\ stop.job = k
        /\ drop.pc = "release" /\ drop.job = k
    BY <1>0 DEF IdleRun, RunRecord
  <2>b. /\ run' = [run EXCEPT ![e] = stop] \/ run' = [run EXCEPT ![e] = drop]
        /\ pending' = pending
    BY <1>6 DEF Conclude, RunFails
  <2> HIDE DEF stop, drop
  <2>1. /\ run'[e].pc = "release" /\ run'[e].job = k
        /\ pending' = pending
    BY <2>a, <2>b, OthersStay
  <2> QED BY <1>6, <2>1 DEF Conclude, RunFails, At, OwnStep, Answers
<1>7. CASE ReleaseRunClaim(e)
  <2>1. k \in Jobs /\ ReleaseOwn(e, k) /\ run[e].pc = "release" /\ pending' = pending
    BY <1>0, <1>7 DEF ReleaseRunClaim, At, JobStages, Stages
  <2>2. run'[e].pc # "running"
    BY <1>a, <1>7, OthersStay DEF ReleaseRunClaim
  <2> QED BY <2>1, <2>2, ReleaseFrees DEF OwnStep, Answers
<1>8. CASE ReleaseRunClaimFails(e)
  <2>1. /\ k \in Jobs /\ run[e].pc = "release"
        /\ pending'[e] = pending[e] \cup {k}
    BY <1>0, <1>8 DEF ReleaseRunClaimFails, At, JobStages, Stages, TypeInv, TypeOK
  <2>2. run'[e].pc # "running"
    BY <1>a, <1>8, OthersStay DEF ReleaseRunClaimFails
  <2> QED BY <2>1, <2>2 DEF OwnStep, Answers
<1>9. CASE RunFails(e)
  BY <1>6, <1>9 DEF RunOutcomes
<1> QED BY <1>1, <1>2, <1>3, <1>4, <1>5, <1>6, <1>7, <1>8, <1>9 DEF RunStep

\* The steps of a poll round, seen from their executor.
LEMMA RoundStepOwn ==
  ASSUME TypeInv, NEW e \in Executors, RoundStep(e)
  PROVE  OwnStep(e)
<1>0. run[e] \in RunRecord
  BY DEF TypeInv, TypeOK
<1>a. IdleRun.pc = "idle"
  BY <1>0, ReturnedType
<1>1. CASE Wake(e) \/ RoundFails(e) \/ EndRound(e)
  <2> DEFINE r == [run[e] EXCEPT !.pc = "flush", !.todo = pending[e]]
  <2>1. /\ run' = [run EXCEPT ![e] = r] \/ run' = [run EXCEPT ![e] = IdleRun]
        /\ run[e].pc \notin {"running", "release"} /\ pending' = pending
    BY <1>1 DEF Wake, RoundFails, EndRound, At
  <2>2. r.pc = "flush"
    BY <1>0 DEF RunRecord
  <2> HIDE DEF r
  <2> QED BY <1>a, <2>1, <2>2, AsideIsOwnStep
<1>2. CASE RevisitOpenJobs(e)
  <2> DEFINE r == [run[e] EXCEPT !.phase = "revisit", !.window = {},
                     !.todo = {j \in Jobs \ run[e].window : OpenForRevisit(e, j)}]
  <2>1. r.pc = "round"
    BY <1>0, <1>2 DEF RunRecord, RevisitOpenJobs, At
  <2>2. run' = [run EXCEPT ![e] = r] /\ run[e].pc = "round" /\ pending' = pending
    BY <1>2 DEF RevisitOpenJobs, At
  <2> HIDE DEF r
  <2> QED BY <2>1, <2>2, AsideIsOwnStep
<1>3. ASSUME NEW window \in SUBSET Jobs, BeginRound(e, window) PROVE OwnStep(e)
  <2> DEFINE r == [run[e] EXCEPT !.pc = "round", !.phase = "scan",
                                 !.todo = window, !.window = window]
  <2>1. r.pc = "round"
    BY <1>0 DEF RunRecord
  <2>2. run' = [run EXCEPT ![e] = r] /\ run[e].pc = "flush" /\ pending' = pending
    BY <1>3 DEF BeginRound, At
  <2> HIDE DEF r
  <2> QED BY <2>1, <2>2, AsideIsOwnStep
<1>4. ASSUME NEW j \in Jobs, FlushRelease(e, j) \/ FlushReleaseFails(e, j)
      PROVE  OwnStep(e)
  <2> DEFINE r == [run[e] EXCEPT !.todo = run[e].todo \ {j}]
  <2>1. r.pc = "flush"
    BY <1>0, <1>4 DEF RunRecord, FlushRelease, FlushReleaseFails, At
  <2>2. run' = [run EXCEPT ![e] = r] /\ run[e].pc = "flush"
    BY <1>4 DEF FlushRelease, FlushReleaseFails, At
  <2> HIDE DEF r
  <2>3. \/ pending' = pending
        \/ pending'[e] = pending[e] \ {j} /\ ReleaseOwn(e, j)
    BY <1>4 DEF FlushRelease, FlushReleaseFails, TypeInv, TypeOK
  <2> QED BY <2>1, <2>2, <2>3, ReleaseFrees, AsideIsOwnStep
<1>5. ASSUME NEW j \in Jobs, HandleLog(e, j) PROVE OwnStep(e)
  <2> DEFINE r == [run[e] EXCEPT !.todo = run[e].todo \ {j}]
  <2>1. r \in RunRecord
    BY <1>0 DEF RunRecord
  <2>2. DetectFor(e, j, r) /\ run[e].pc = "round"
    BY <1>5 DEF HandleLog, At
  <2> HIDE DEF r
  <2> QED BY <2>1, <2>2, DetectIsOwnStep
<1> QED BY <1>1, <1>2, <1>3, <1>4, <1>5 DEF RoundStep

\* The steps of a command, seen from their executor.
LEMMA CommandStepOwn ==
  ASSUME TypeInv, NEW e \in Executors, CommandStep(e)
  PROVE  OwnStep(e)
<1>0. run[e] \in RunRecord
  BY DEF TypeInv, TypeOK
<1>a. IdleRun.pc = "idle"
  BY <1>0, ReturnedType
<1>1. ASSUME NEW j \in Jobs, RetryRead(e, j) \/ DeadLetterRead(e, j) PROVE OwnStep(e)
  <2>1. PICK stage \in Deciding : run' = [run EXCEPT ![e] = Decided(e, j, stage)]
    BY <1>1 DEF RetryRead, DeadLetterRead, Deciding
  <2>2. Decided(e, j, stage).pc # "running"
    BY DEF Decided, IdleRun, Deciding
  <2>3. run[e].pc = "idle" /\ pending' = pending
    BY <1>1 DEF RetryRead, DeadLetterRead, At
  <2> QED BY <2>1, <2>2, <2>3, AsideIsOwnStep
<1>2. CASE RetryWrite(e)
  <2> DEFINE r == [run[e] EXCEPT !.pc = "detect", !.seen = NothingSeen]
  <2>1. r.pc = "detect"
    BY <1>0 DEF RunRecord
  <2>2. run' = [run EXCEPT ![e] = r] /\ run[e].pc = "retryWrite" /\ pending' = pending
    BY <1>2 DEF RetryWrite, At
  <2> HIDE DEF r
  <2> QED BY <2>1, <2>2, AsideIsOwnStep
<1>3. CASE ExhaustWrite(e) \/ DeadLetterWrite(e) \/ CommandConflict(e)
  <2>1. /\ run' = [run EXCEPT ![e] = IdleRun] /\ pending' = pending
        /\ run[e].pc \notin {"running", "release"}
    BY <1>3 DEF ExhaustWrite, DeadLetterWrite, DeadLetterWith, CommandConflict, At
  <2> QED BY <1>a, <2>1, AsideIsOwnStep
<1> QED BY <1>1, <1>2, <1>3 DEF CommandStep

\* A run begins only with the write of its claim.
LEMMA RunBegins ==
  ASSUME TypeInv, [Next]_vars, NEW e \in Executors, NEW j \in Jobs,
         Running(e, j)', ~Running(e, j)
  PROVE  ClaimWrite(e) /\ run[e].job = j
<1>1. CASE UNCHANGED vars
  BY <1>1 DEF vars, Running
<1>2. ASSUME NEW p \in Pids, Boot(p) \/ Die(p) PROVE FALSE
  BY <1>2 DEF Boot, Die, Running, IdleRun
<1>3. ASSUME NEW f \in Executors, RunStep(f) \/ RoundStep(f) \/ CommandStep(f)
      PROVE  ClaimWrite(e) /\ run[e].job = j
  <2>1. f = e
    BY <1>3, StepLeavesOthers DEF Running
  <2>2. OwnStep(e)
    BY <1>3, <2>1, RunStepOwn, RoundStepOwn, CommandStepOwn
  <2> QED BY <2>2 DEF OwnStep, Running
<1> QED BY <1>1, <1>2, <1>3 DEF Next

\* A claim bears the pid of a process that has been started.
LEMMA KnownInvariant ==
  /\ Init => ClaimKnown
  /\ TypeInv /\ ClaimKnown /\ [Next]_vars => ClaimKnown'
<1>1. Init => ClaimKnown
  BY DEF Init, ClaimKnown, AbsentJob
<1>2. ASSUME TypeInv, ClaimKnown, [Next]_vars, NEW j \in Jobs, NEW p \in Pids,
             job'[j].claim = p
      PROVE  proc'[p] # "unborn"
  <2>1. proc[p] # "unborn"
    <3>1. \A e \in Executors : ClaimWrite(e) => proc[pidOf[e]] = "up"
      BY DEF ClaimWrite, At, Up
    <3> QED BY <1>2, <3>1, ClaimAppears DEF ClaimKnown
  <2>2. CASE proc' = proc
    BY <2>1, <2>2
  <2>3. ASSUME NEW q \in Pids, Boot(q) \/ Die(q) PROVE proc'[p] # "unborn"
    BY <1>2, <2>1, <2>3 DEF Boot, Die, TypeInv, TypeOK
  <2> QED BY <1>2, <2>2, <2>3, StepLeavesOthers DEF Next, vars
<1> QED BY <1>1, <1>2 DEF ClaimKnown

\* Every step keeps an answer for each claim of a live process.
LEMMA HeldStep ==
  ASSUME ~PidReuse, TypeInv, ClaimKnown, HeldClaimHasOwner, [Next]_vars
  PROVE  HeldClaimHasOwner'
<1> SUFFICES ASSUME NEW j \in Jobs, NEW p \in Pids, job'[j].claim = p, proc'[p] = "up"
             PROVE  \E e \in Executors : pidOf[e] = p /\ Answers(e, j)'
  BY DEF HeldClaimHasOwner, Answers
<1>1. job[j].claim = p /\ proc[p] = "up" =>
        \E e \in Executors : pidOf[e] = p /\ Answers(e, j)
  BY DEF HeldClaimHasOwner, Answers
<1>2. CASE UNCHANGED vars
  BY <1>1, <1>2 DEF vars, Answers
<1>3. ASSUME NEW q \in Pids, Boot(q)
      PROVE  \E e \in Executors : pidOf[e] = p /\ Answers(e, j)'
  <2>1. job' = job /\ run' = run /\ pending' = pending /\ proc[q] = "unborn"
    BY <1>3 DEF Boot
  <2>2. p # q
    BY <2>1 DEF ClaimKnown
  <2>3. proc[p] = "up"
    BY <1>3, <2>2 DEF Boot, TypeInv, TypeOK
  <2> QED BY <1>1, <2>1, <2>3 DEF Answers
<1>4. ASSUME NEW q \in Pids, Die(q)
      PROVE  \E e \in Executors : pidOf[e] = p /\ Answers(e, j)'
  <2>1. p # q /\ proc[p] = "up" /\ job' = job
    BY <1>4 DEF Die, TypeInv, TypeOK
  <2>2. \A e \in Executors : pidOf[e] = p =>
          run'[e] = run[e] /\ pending'[e] = pending[e]
    BY <1>4, <2>1 DEF Die
  <2> QED BY <1>1, <2>1, <2>2 DEF Answers
<1>5. ASSUME NEW e \in Executors, RunStep(e) \/ RoundStep(e) \/ CommandStep(e)
      PROVE  \E f \in Executors : pidOf[f] = p /\ Answers(f, j)'
  <2>1. /\ proc' = proc
        /\ \A f \in Executors : f # e =>
             run'[f] = run[f] /\ pending'[f] = pending[f]
    BY <1>5, StepLeavesOthers
  <2>2. OwnStep(e)
    BY <1>5, RunStepOwn, RoundStepOwn, CommandStepOwn
  <2>3. CASE job[j].claim = p
    <3>1. PICK f \in Executors : pidOf[f] = p /\ Answers(f, j)
      BY <1>1, <2>1, <2>3
    <3>2. CASE f = e
      BY <2>2, <3>1, <3>2 DEF OwnStep
    <3>3. CASE f # e
      BY <2>1, <3>1, <3>3 DEF Answers
    <3> QED BY <3>2, <3>3
  <2>4. ASSUME NEW f \in Executors, ClaimWrite(f), run[f].job = j, pidOf[f] = p
        PROVE  Answers(f, j)'
    <3> DEFINE r == [run[f] EXCEPT !.pc = "running", !.seen = NothingSeen]
    <3>1. r.pc = "running" /\ r.job = j
      BY <2>4 DEF TypeInv, TypeOK, RunRecord
    <3>2. run' = [run EXCEPT ![f] = r]
      BY <2>4 DEF ClaimWrite
    <3> HIDE DEF r
    <3> QED BY <3>1, <3>2, OthersStay DEF Answers
  <2> QED BY <2>3, <2>4, ClaimAppears
<1> QED BY <1>2, <1>3, <1>4, <1>5 DEF Next

\* No job is locked out for good by a live process: the claim always belongs
\* to a run in flight, or to a release that is carried out or queued for the
\* next round, also where several executors share one process.
THEOREM HeldClaimsHaveOwners ==
  ASSUME ~PidReuse PROVE Spec => []HeldClaimHasOwner
<1>1. Init => TypeInv /\ ClaimKnown /\ HeldClaimHasOwner
  BY InitType, KnownInvariant DEF Init, HeldClaimHasOwner, AbsentJob
<1>2. TypeInv /\ ClaimKnown /\ HeldClaimHasOwner /\ [Next]_vars =>
        (TypeInv /\ ClaimKnown /\ HeldClaimHasOwner)'
  BY StepType, KnownInvariant, HeldStep
<1> QED BY <1>1, <1>2, PTL DEF Spec

-----------------------------------------------------------------------------
(***************************************************************************)
(* What nobody else does to a run: the consequences of Safe for one step.  *)
(***************************************************************************)

\* A write guarded by a snapshot never meets the claim of a live process.
LEMMA SnapshotSparesLive ==
  ASSUME Safe, NEW e \in Executors, NEW j \in Jobs, run[e].job = j,
         ClaimWrite(e) \/ RetryWrite(e) \/ ExhaustWrite(e) \/ DeadLetterWrite(e),
         NEW p \in Pids, proc[p] = "up"
  PROVE  job[j].claim # p
BY SnapshotWrites DEF Safe, SeenSafe

\* A conclusion that reaches its job is that of the run which owns it.
LEMMA ConcludesOwn ==
  ASSUME TypeInv, Safe, NEW e \in Executors, NEW j \in Jobs, run[e].job = j,
         job[j].status = "matched", NEW s \in RunOutcomes(e), Conclude(e, s)
  PROVE  Running(e, j) /\ Owns(e, j) /\ run'[e].pc = "release"
<1>1. Running(e, j)
  BY DEF Conclude, At, Running
<1>2. Owns(e, j)
  BY <1>1 DEF Safe, RunGuard, Guarded, Owns
<1>3. run'[e].pc = "release"
  BY DEF Conclude, TypeInv, TypeOK, RunRecord
<1> QED BY <1>1, <1>2, <1>3

\* Where no two executors share a process and no pid is given out again, a run
\* starts with the job under its own claim and keeps it so to its end, unless
\* an executor without the handler closes the job.
THEOREM RunsOwnTheirJobs ==
  ASSUME OwnProcesses, ~PidReuse PROVE Spec => RunOwnsItsJob
<1> DEFINE KeepsJob(e, j) ==
      Running(e, j)' /\ (Running(e, j) => Owns(e, j)) =>
        Owns(e, j)' \/ ClosedUnhandled
<1>1. ASSUME TypeInv, Safe, Safe', StagesEarned, [Next]_vars,
             NEW e \in Executors, NEW j \in Jobs
      PROVE  KeepsJob(e, j)
  <2> SUFFICES ASSUME Running(e, j)', Running(e, j) => Owns(e, j)
               PROVE  Owns(e, j)' \/ ClosedUnhandled
    OBVIOUS
  <2>1. CASE ~Running(e, j)
    <3>1. ClaimWrite(e) /\ run[e].job = j
      BY <1>1, <2>1, RunBegins
    <3> QED BY <1>1, <3>1, Written DEF Owns
  <2>2. CASE Running(e, j)
    <3>1. Owns(e, j) /\ Up(e)
      BY <1>1, <2>2 DEF Safe, DownIsIdle, Running
    <3>2. Owns(e, j)' \/ job'[j].status \in {"ignored", "dead_letter"}
      BY <1>1 DEF Safe, RunGuard, Guarded, Owns
    <3>3. ASSUME job'[j].status \in {"ignored", "dead_letter"}
          PROVE  ClosedUnhandled
      <4>1. PICK f \in Executors : Writes(f, j)
        BY <1>1, <3>1, <3>3, StepWrites DEF Untouched, Created, Owns
      <4>2. ~Frees(f, j)
        BY <3>1, <3>3 DEF Frees, Owns
      <4>3. CASE IgnoreWrite(f)
        BY <1>1, <4>3 DEF IgnoreWrite, At, StagesEarned, Earned, ClosedUnhandled
      <4>4. CASE run[f].job = j /\ (\/ ClaimWrite(f) \/ RetryWrite(f)
                                    \/ ExhaustWrite(f) \/ DeadLetterWrite(f))
        BY <1>1, <3>1, <4>4, SnapshotSparesLive DEF Owns, Up
      <4>5. ASSUME run[f].job = j, NEW s \in RunOutcomes(f), Conclude(f, s)
            PROVE  FALSE
        <5>1. Running(f, j) /\ run'[f].pc = "release"
          BY <1>1, <3>1, <4>5, ConcludesOwn DEF Owns
        <5>2. f = e
          BY <1>1, <2>2, <5>1 DEF Safe, MutualExclusion
        <5> QED BY <5>1, <5>2 DEF Running
      <4> QED BY <4>1, <4>2, <4>3, <4>4, <4>5 DEF Writes
    <3> QED BY <3>2, <3>3
  <2> QED BY <2>1, <2>2
<1>2. TypeInv /\ Safe /\ Safe' /\ StagesEarned /\ [Next]_vars =>
        [\A e \in Executors : \A j \in Jobs : KeepsJob(e, j)]_vars
  BY <1>1
<1>3. Init => TypeInv /\ Safe /\ StagesEarned
  BY InitType, InitSafe, EarnedInvariant
<1>4. TypeInv /\ Safe /\ StagesEarned /\ [Next]_vars =>
        (TypeInv /\ Safe /\ StagesEarned)'
  BY StepType, SafeStep, EarnedInvariant
<1> QED BY <1>2, <1>3, <1>4, PTL DEF Spec, RunOwnsItsJob

\* Under the same deployment, the claim of a live process is removed by that
\* process alone, unless an executor without the handler closes the job.
THEOREM LiveClaimsStay ==
  ASSUME OwnProcesses, ~PidReuse PROVE Spec => LiveClaimClearedOnlyByHolder
<1> DEFINE KeepsClaim(j, p) ==
      job[j].claim = p /\ proc[p] = "up" /\ job'[j].claim # p =>
        \/ \E e \in Executors : pidOf[e] = p /\ run'[e] # run[e]
        \/ ClosedUnhandled
<1>1. ASSUME TypeInv, Safe, StagesEarned, AbsentUnclaimed, [Next]_vars,
             NEW j \in Jobs, NEW p \in Pids
      PROVE  KeepsClaim(j, p)
  <2> SUFFICES ASSUME job[j].claim = p, proc[p] = "up", job'[j].claim # p
               PROVE  \/ \E e \in Executors : pidOf[e] = p /\ run'[e] # run[e]
                      \/ ClosedUnhandled
    OBVIOUS
  <2>1. PICK f \in Executors : Writes(f, j)
    BY <1>1, StepWrites DEF Untouched, Created, AbsentUnclaimed
  <2>2. CASE Frees(f, j)
    BY <2>2 DEF Frees
  <2>3. CASE IgnoreWrite(f)
    BY <1>1, <2>3 DEF IgnoreWrite, At, StagesEarned, Earned, ClosedUnhandled
  <2>4. CASE run[f].job = j /\ (\/ ClaimWrite(f) \/ RetryWrite(f)
                                \/ ExhaustWrite(f) \/ DeadLetterWrite(f))
    BY <1>1, <2>4, SnapshotSparesLive
  <2>5. ASSUME run[f].job = j, job[j].status = "matched",
               NEW s \in RunOutcomes(f), Conclude(f, s)
        PROVE  pidOf[f] = p /\ run'[f] # run[f]
    BY <1>1, <2>5, ConcludesOwn DEF Owns, Running
  <2> QED BY <2>1, <2>2, <2>3, <2>4, <2>5 DEF Writes
<1>2. TypeInv /\ Safe /\ StagesEarned /\ AbsentUnclaimed /\ [Next]_vars =>
        [\A j \in Jobs : \A p \in Pids : KeepsClaim(j, p)]_vars
  BY <1>1
<1>3. Init => TypeInv /\ Safe /\ StagesEarned /\ AbsentUnclaimed
  BY InitType, InitSafe, EarnedInvariant, AbsentInvariant
<1>4. TypeInv /\ Safe /\ StagesEarned /\ AbsentUnclaimed /\ [Next]_vars =>
        (TypeInv /\ Safe /\ StagesEarned /\ AbsentUnclaimed)'
  BY StepType, SafeStep, EarnedInvariant, AbsentInvariant
<1> QED BY <1>2, <1>3, <1>4, PTL DEF Spec, LiveClaimClearedOnlyByHolder

-----------------------------------------------------------------------------
(***************************************************************************)
(* RunClaim implements JobLease, for every set of jobs, processes and      *)
(* executors.                                                              *)
(***************************************************************************)
\* Only an executor without the handler gets to the write of `ignored`.
IgnoresUnhandled ==
  \A e \in Executors : run[e].pc = "ignoreWrite" => e \notin Handling

LeaseInv == TypeInv /\ Safe /\ IgnoresUnhandled

Settled(j) == IsTerminal(job[j].status)

\* What a step does to the leases, in the words of JobLease.
LeaseStep == [Lease!Next]_(Lease!lease)

-----------------------------------------------------------------------------
(***************************************************************************)
(* The steps of JobLease, seen from RunClaim.                              *)
(***************************************************************************)

\* Nobody starts or ends a run and no job is settled or reopened.
LEMMA LeasesStay ==
  ASSUME \A f \in Executors : \A i \in Jobs : Running(f, i)' <=> Running(f, i),
         \A i \in Jobs : Settled(i)' <=> Settled(i)
  PROVE  LeaseStep
<1>1. [j \in Jobs |-> {e \in Executors : Running(e, j)}]'
        = [j \in Jobs |-> {e \in Executors : Running(e, j)}]
  OBVIOUS
<1>2. {j \in Jobs : Settled(j)}' = {j \in Jobs : Settled(j)}
  OBVIOUS
<1> QED BY <1>1, <1>2 DEF LeaseStep, Lease!lease, Settled

\* A run begins on a job nobody runs.
LEMMA Takes ==
  ASSUME NEW e \in Executors, NEW j \in Jobs,
         \A i \in Jobs : ~Running(e, i),
         \A f \in Executors : ~Running(f, j),
         ~Settled(j),
         \A f \in Executors : \A i \in Jobs :
           Running(f, i)' <=> (Running(f, i) \/ (f = e /\ i = j)),
         \A i \in Jobs : Settled(i)' <=> Settled(i)
  PROVE  LeaseStep
<1> DEFINE R == [i \in Jobs |-> {f \in Executors : Running(f, i)}]
           S == {i \in Jobs : Settled(i)}
<1>1. R' = [R EXCEPT ![j] = {e}]
  <2>1. \A i \in Jobs : i # j =>
          {f \in Executors : Running(f, i)'} = {f \in Executors : Running(f, i)}
    OBVIOUS
  <2>2. {f \in Executors : Running(f, j)'} = {e}
    OBVIOUS
  <2>3. \A i \in Jobs : R'[i] = IF i = j THEN {e} ELSE R[i]
    BY <2>1, <2>2
  <2>4. R' = [i \in Jobs |-> R'[i]] /\ R = [i \in Jobs |-> R[i]]
    OBVIOUS
  <2> HIDE DEF R
  <2> QED BY <2>3, <2>4
<1>2. S' = S /\ j \notin S
  OBVIOUS
<1>3. R[j] = {} /\ \A k \in Jobs : e \notin R[k]
  OBVIOUS
<1> QED BY <1>1, <1>2, <1>3 DEF LeaseStep, Lease!Next, Lease!Take, Settled

\* A run ends, and may settle its job.
LEMMA Returns ==
  ASSUME NEW e \in Executors, NEW j \in Jobs, Running(e, j),
         \A f \in Executors : \A i \in Jobs :
           Running(f, i)' <=> (Running(f, i) /\ f # e),
         \A i \in Jobs : Settled(i) => Settled(i)',
         \A i \in Jobs : i # j => (Settled(i)' <=> Settled(i))
  PROVE  LeaseStep
<1> DEFINE R == [i \in Jobs |-> {f \in Executors : Running(f, i)}]
           S == {i \in Jobs : Settled(i)}
<1>0. \A i \in Jobs : Running(e, i) => i = j
  BY DEF Running
<1>1. R' = [R EXCEPT ![j] = @ \ {e}]
  BY <1>0
<1>2. S' \in {S, S \cup {j}}
  OBVIOUS
<1>3. e \in R[j]
  OBVIOUS
<1> QED BY <1>1, <1>2, <1>3 DEF LeaseStep, Lease!Next, Lease!Return, Settled

\* A job is closed by somebody who does not run it.
LEMMA Closes ==
  ASSUME NEW j \in Jobs,
         Handling # Executors \/ \A f \in Executors : ~Running(f, j),
         \A f \in Executors : \A i \in Jobs : Running(f, i)' <=> Running(f, i),
         Settled(j)',
         \A i \in Jobs : i # j => (Settled(i)' <=> Settled(i))
  PROVE  LeaseStep
<1> DEFINE R == [i \in Jobs |-> {f \in Executors : Running(f, i)}]
           S == {i \in Jobs : Settled(i)}
<1>1. R' = R
  OBVIOUS
<1>2. S' = S \cup {j}
  OBVIOUS
<1>3. R[j] = {} \/ Handling # Executors
  OBVIOUS
<1> QED BY <1>1, <1>2, <1>3 DEF LeaseStep, Lease!Next, Lease!Close, Settled

\* A job nobody runs is opened again.
LEMMA Reopens ==
  ASSUME NEW j \in Jobs,
         \A f \in Executors : ~Running(f, j),
         \A f \in Executors : \A i \in Jobs : Running(f, i)' <=> Running(f, i),
         ~Settled(j)',
         \A i \in Jobs : i # j => (Settled(i)' <=> Settled(i))
  PROVE  LeaseStep
<1> DEFINE R == [i \in Jobs |-> {f \in Executors : Running(f, i)}]
           S == {i \in Jobs : Settled(i)}
<1>1. R' = R /\ R[j] = {}
  OBVIOUS
<1>2. S' = S \ {j}
  OBVIOUS
<1> QED BY <1>1, <1>2 DEF LeaseStep, Lease!Next, Lease!Reopen, Settled

-----------------------------------------------------------------------------
(***************************************************************************)
(* The steps of RunClaim.  All but a few are quiet: they start or end no   *)
(* run and change no job's verdict.                                        *)
(***************************************************************************)

\* An executor moves on without having run or starting to run a job.
LEMMA MovesAside ==
  ASSUME TypeInv, IgnoresUnhandled, NEW e \in Executors, NEW r,
         run' = [run EXCEPT ![e] = r],
         run[e].pc # "running", r.pc # "running",
         r.pc = "ignoreWrite" => e \notin Handling
  PROVE  /\ \A f \in Executors : \A i \in Jobs : Running(f, i)' <=> Running(f, i)
         /\ IgnoresUnhandled'
<1>1. run'[e] = r /\ \A f \in Executors : f # e => run'[f] = run[f]
  BY OthersStay
<1> QED BY <1>1 DEF Running, IgnoresUnhandled

\* If moreover no job gains or loses its verdict, the leases stay.
LEMMA QuietLease ==
  ASSUME TypeInv, IgnoresUnhandled, NEW e \in Executors, NEW r,
         run' = [run EXCEPT ![e] = r],
         run[e].pc # "running", r.pc # "running",
         r.pc = "ignoreWrite" => e \notin Handling,
         \A i \in Jobs : job'[i].status = job[i].status
  PROVE  LeaseStep /\ IgnoresUnhandled'
<1>1. \A i \in Jobs : Settled(i)' <=> Settled(i)
  BY DEF Settled
<1> QED BY <1>1, MovesAside, LeasesStay

\* Freeing a claim is no verdict.
LEMMA ReleaseKeepsStatus ==
  ASSUME TypeInv, NEW e \in Executors, NEW j \in Jobs, ReleaseOwn(e, j)
  PROVE  \A i \in Jobs : job'[i].status = job[i].status
BY DEF ReleaseOwn, Released, TypeInv, TypeOK, JobRecord

\* handleLog up to its first decision stores a job that has no verdict.
LEMMA DetectLease ==
  ASSUME TypeInv, IgnoresUnhandled, NEW e \in Executors, NEW j \in Jobs,
         NEW r \in RunRecord, DetectFor(e, j, r), run[e].pc # "running"
  PROVE  LeaseStep /\ IgnoresUnhandled'
<1> DEFINE on == [r EXCEPT !.job = j, !.pc = IF e \in Handling THEN "claimRead"
                                             ELSE "ignoreWrite"]
<1>1. \A i \in Jobs : \/ job'[i] = job[i]
                      \/ job[i].status = "absent" /\ job'[i] = DetectedJob
  BY DEF DetectFor, Upserted, TypeInv, TypeOK
<1>2. \A i \in Jobs : Settled(i)' <=> Settled(i)
  BY <1>1 DEF Settled, IsTerminal, DetectedJob
<1>3. run' = [run EXCEPT ![e] = Returned(r)] \/ run' = [run EXCEPT ![e] = on]
  BY DEF DetectFor
<1>4. Returned(r).pc \in {"idle", "round"}
  BY ReturnedType
<1>5. on.pc = IF e \in Handling THEN "claimRead" ELSE "ignoreWrite"
  BY DEF RunRecord
<1> HIDE DEF on
<1>6. /\ \A f \in Executors : \A i \in Jobs : Running(f, i)' <=> Running(f, i)
      /\ IgnoresUnhandled'
  <2>1. CASE run' = [run EXCEPT ![e] = Returned(r)]
    BY <1>4, <2>1, MovesAside
  <2>2. CASE run' = [run EXCEPT ![e] = on]
    BY <1>5, <2>2, MovesAside
  <2> QED BY <1>3, <2>1, <2>2
<1> QED BY <1>2, <1>6, LeasesStay

\* Every step of handleLog is a step of the leases.
LEMMA RunStepLease ==
  ASSUME TypeInv, Safe, IgnoresUnhandled, NEW e \in Executors, RunStep(e)
  PROVE  LeaseStep /\ IgnoresUnhandled'
<1> DEFINE j == run[e].job
<1>0. run[e] \in RunRecord /\ (run[e].pc \in JobStages => j \in Jobs)
  BY DEF TypeInv, TypeOK, WorksOnAJob
<1>a. Returned(run[e]).pc \in {"idle", "round"} /\ IdleRun.pc = "idle"
  BY <1>0, ReturnedType
<1>1. CASE RetryHandleLog(e)
  BY <1>0, <1>1, DetectLease DEF RetryHandleLog, At, JobStages, Stages
<1>2. CASE IgnoreWrite(e)
  <2>1. PICK k \in Jobs :
          /\ run[e].pc = "ignoreWrite"
          /\ run' = [run EXCEPT ![e] = Returned(run[e])]
          /\ job' = [job EXCEPT ![k] = WithConclusiveClaimRelease(job[k], "ignored")]
    BY <1>0, <1>2 DEF IgnoreWrite, At, JobStages, Stages
  <2>2. Handling # Executors
    BY <2>1 DEF IgnoresUnhandled
  <2>3. Settled(k)'
    BY <2>1 DEF Settled, IsTerminal, WithConclusiveClaimRelease,
                TypeInv, TypeOK, JobRecord
  <2>4. \A i \in Jobs : i # k => (Settled(i)' <=> Settled(i))
    BY <2>1 DEF Settled, TypeInv, TypeOK
  <2>5. /\ \A f \in Executors : \A i \in Jobs : Running(f, i)' <=> Running(f, i)
        /\ IgnoresUnhandled'
    BY <1>a, <2>1, MovesAside
  <2> QED BY <2>1, <2>2, <2>3, <2>4, <2>5, Closes
<1>3. CASE ClaimRead(e)
  <2> DEFINE r == [run[e] EXCEPT !.pc = "claimWrite",
                     !.seen = [status |-> job[j].status, claim |-> job[j].claim]]
  <2>1. /\ run' = [run EXCEPT ![e] = Returned(run[e])] \/ run' = [run EXCEPT ![e] = r]
        /\ job' = job /\ run[e].pc = "claimRead"
    BY <1>3 DEF ClaimRead, At
  <2>2. r.pc = "claimWrite"
    BY <1>0 DEF RunRecord
  <2> HIDE DEF r
  <2> QED BY <1>a, <2>1, <2>2, QuietLease
<1>4. CASE ClaimWrite(e)
  <2>1. /\ j \in Jobs /\ run[e].pc = "claimWrite" /\ SeenHolds(e)
        /\ job' = [job EXCEPT ![j] = Claimed(job[j], pidOf[e])]
    BY <1>0, <1>4 DEF ClaimWrite, At, JobStages, Stages
  <2>2. /\ run'[e].pc = "running" /\ run'[e].job = j
        /\ \A f \in Executors : f # e => run'[f] = run[f]
    BY <1>0, <1>4 DEF ClaimWrite, TypeInv, TypeOK, RunRecord
  <2>3. \A f \in Executors : ~Running(f, j)
    BY <2>1, SnapshotExcludesRun
  <2>4. ~Settled(j)
    BY <2>1 DEF Settled, SeenHolds, PatchCasMatches, Safe, SeenSafe, Deciding
  <2>5. job'[j].status = "matched" /\ \A i \in Jobs : i # j => job'[i] = job[i]
    BY <2>1 DEF Claimed, TypeInv, TypeOK, JobRecord
  <2>6. \A i \in Jobs : Settled(i)' <=> Settled(i)
    BY <2>4, <2>5 DEF Settled, IsTerminal
  <2>7. \A i \in Jobs : ~Running(e, i)
    BY <2>1 DEF Running
  <2>8. \A f \in Executors : \A i \in Jobs :
          Running(f, i)' <=> (Running(f, i) \/ (f = e /\ i = j))
    BY <2>1, <2>2 DEF Running
  <2>9. IgnoresUnhandled'
    BY <2>2 DEF IgnoresUnhandled
  <2> QED BY <2>1, <2>3, <2>4, <2>6, <2>7, <2>8, <2>9, Takes
<1>5. CASE ClaimLost(e)
  <2> DEFINE again == [run[e] EXCEPT !.pc = "claimRead", !.lastTry = TRUE,
                                     !.seen = NothingSeen]
  <2>1. /\ \/ run' = [run EXCEPT ![e] = Returned(run[e])]
           \/ run' = [run EXCEPT ![e] = again]
        /\ job' = job /\ run[e].pc = "claimWrite"
    BY <1>5 DEF ClaimLost, At
  <2>2. again.pc = "claimRead"
    BY <1>0 DEF RunRecord
  <2> HIDE DEF again
  <2>3. CASE run' = [run EXCEPT ![e] = Returned(run[e])]
    <3>1. PICK r : r = Returned(run[e])
      OBVIOUS
    <3>2. /\ run' = [run EXCEPT ![e] = r] /\ run[e].pc # "running"
          /\ r.pc # "running" /\ r.pc # "ignoreWrite"
          /\ \A i \in Jobs : job'[i].status = job[i].status
      BY <1>a, <2>1, <2>3, <3>1
    <3> QED BY <3>2, QuietLease
  <2>4. CASE run' = [run EXCEPT ![e] = again]
    <3>1. /\ run[e].pc # "running" /\ again.pc # "running" /\ again.pc # "ignoreWrite"
          /\ \A i \in Jobs : job'[i].status = job[i].status
      BY <2>1, <2>2
    <3> QED BY <2>4, <3>1, QuietLease
  <2>5. run' = [run EXCEPT ![e] = Returned(run[e])] \/ run' = [run EXCEPT ![e] = again]
    BY <2>1
  <2> QED BY <2>3, <2>4, <2>5, Zenon
<1>6. CASE RecordFailure(e) \/ RecordRehearsal(e)
  <2>1. \A i \in Jobs : job'[i].status = job[i].status
    <3>0. \A i \in Jobs : job[i] \in JobRecord /\ job \in [Jobs -> JobRecord]
      BY DEF TypeInv, TypeOK
    <3>1. CASE RecordFailure(e)
      BY <3>0, <3>1 DEF RecordFailure, JobRecord
    <3>2. CASE RecordRehearsal(e)
      BY <3>0, <3>2 DEF RecordRehearsal, JobRecord
    <3> QED BY <1>6, <3>1, <3>2
  <2>2. run' = run
    BY <1>6 DEF RecordFailure, RecordRehearsal
  <2>3. /\ \A f \in Executors : \A i \in Jobs : Running(f, i)' <=> Running(f, i)
        /\ \A i \in Jobs : Settled(i)' <=> Settled(i)
    BY <2>1, <2>2 DEF Running, Settled
  <2> QED BY <2>2, <2>3, LeasesStay DEF IgnoresUnhandled
<1>b. ASSUME NEW r, run[e].pc = "running", j \in Jobs, run' = [run EXCEPT ![e] = r],
             r.pc = "release"
      PROVE  /\ Running(e, j)
             /\ \A f \in Executors : \A i \in Jobs :
                  Running(f, i)' <=> (Running(f, i) /\ f # e)
             /\ IgnoresUnhandled'
  <2>1. run'[e] = r /\ \A f \in Executors : f # e => run'[f] = run[f]
    BY <1>b, OthersStay
  <2> QED BY <1>b, <2>1 DEF Running, IgnoresUnhandled
<1>7. ASSUME NEW s \in RunOutcomes(e), Conclude(e, s)
      PROVE  LeaseStep /\ IgnoresUnhandled'
  <2> DEFINE r == [run[e] EXCEPT !.pc = "release"]
  <2>1. /\ j \in Jobs /\ run[e].pc = "running" /\ run' = [run EXCEPT ![e] = r]
        /\ job' = [job EXCEPT ![j] = Concluded(job[j], s)]
    BY <1>0, <1>7 DEF Conclude, At, JobStages, Stages
  <2>2. r.pc = "release"
    BY <1>0 DEF RunRecord
  <2> HIDE DEF r
  <2>3. \A i \in Jobs : i # j => job'[i] = job[i]
    BY <2>1 DEF TypeInv, TypeOK
  <2>4. job[j].status # "matched" => job'[j] = job[j]
    BY <2>1 DEF Concluded, TypeInv, TypeOK
  <2>5. /\ \A i \in Jobs : Settled(i) => Settled(i)'
        /\ \A i \in Jobs : i # j => (Settled(i)' <=> Settled(i))
    BY <2>3, <2>4 DEF Settled, IsTerminal
  <2> QED BY <1>b, <2>1, <2>2, <2>5, Returns
<1>8. CASE RunFails(e)
  <2> DEFINE r == [IdleRun EXCEPT !.pc = "release", !.job = j]
  <2>1. /\ j \in Jobs /\ run[e].pc = "running" /\ run' = [run EXCEPT ![e] = r]
        /\ job' = job
    BY <1>0, <1>8 DEF RunFails, At, JobStages, Stages
  <2>2. r.pc = "release"
    BY DEF IdleRun
  <2> HIDE DEF r
  <2>3. \A i \in Jobs : Settled(i)' <=> Settled(i)
    BY <2>1 DEF Settled
  <2> QED BY <1>b, <2>1, <2>2, <2>3, Returns
<1>9. CASE ReleaseRunClaim(e)
  <2>1. /\ j \in Jobs /\ run[e].pc = "release" /\ ReleaseOwn(e, j)
        /\ run' = [run EXCEPT ![e] = Returned(run[e])]
    BY <1>0, <1>9 DEF ReleaseRunClaim, At, JobStages, Stages
  <2> QED BY <1>a, <2>1, ReleaseKeepsStatus, QuietLease
<1>10. CASE ReleaseRunClaimFails(e)
  <2>1. /\ run[e].pc = "release" /\ job' = job
        /\ run' = [run EXCEPT ![e] = Returned(run[e])]
    BY <1>10 DEF ReleaseRunClaimFails, At
  <2> QED BY <1>a, <2>1, QuietLease
<1>11. CASE StoreFails(e)
  <2>1. /\ run[e].pc # "running" /\ job' = job
        /\ run' = [run EXCEPT ![e] = IdleRun]
    BY <1>11 DEF StoreFails, At
  <2> QED BY <1>a, <2>1, QuietLease
<1> QED BY <1>1, <1>2, <1>3, <1>4, <1>5, <1>6, <1>7, <1>8, <1>9, <1>10,
           <1>11 DEF RunStep

\* Every step of a poll round is quiet.
LEMMA RoundStepLease ==
  ASSUME TypeInv, IgnoresUnhandled, NEW e \in Executors, RoundStep(e)
  PROVE  LeaseStep /\ IgnoresUnhandled'
<1>0. run[e] \in RunRecord
  BY DEF TypeInv, TypeOK
<1>a. IdleRun.pc = "idle"
  BY <1>0, ReturnedType
<1>1. CASE Wake(e)
  <2> DEFINE r == [run[e] EXCEPT !.pc = "flush", !.todo = pending[e]]
  <2>1. r.pc = "flush"
    BY <1>0 DEF RunRecord
  <2>2. run' = [run EXCEPT ![e] = r] /\ job' = job /\ run[e].pc = "idle"
    BY <1>1 DEF Wake, At
  <2> HIDE DEF r
  <2> QED BY <2>1, <2>2, QuietLease
<1>2. CASE RoundFails(e) \/ EndRound(e)
  <2>1. /\ run' = [run EXCEPT ![e] = IdleRun] /\ job' = job
        /\ run[e].pc \in {"round", "flush"}
    BY <1>2 DEF RoundFails, EndRound, At
  <2> QED BY <1>a, <2>1, QuietLease
<1>3. CASE RevisitOpenJobs(e)
  <2> DEFINE r == [run[e] EXCEPT !.phase = "revisit", !.window = {},
                     !.todo = {j \in Jobs \ run[e].window : OpenForRevisit(e, j)}]
  <2>1. r.pc = "round"
    BY <1>0, <1>3 DEF RunRecord, RevisitOpenJobs, At
  <2>2. run' = [run EXCEPT ![e] = r] /\ job' = job /\ run[e].pc = "round"
    BY <1>3 DEF RevisitOpenJobs, At
  <2> HIDE DEF r
  <2> QED BY <2>1, <2>2, QuietLease
<1>4. ASSUME NEW window \in SUBSET Jobs, BeginRound(e, window)
      PROVE  LeaseStep /\ IgnoresUnhandled'
  <2> DEFINE r == [run[e] EXCEPT !.pc = "round", !.phase = "scan",
                                 !.todo = window, !.window = window]
  <2>1. r.pc = "round"
    BY <1>0 DEF RunRecord
  <2>2. run' = [run EXCEPT ![e] = r] /\ job' = job /\ run[e].pc = "flush"
    BY <1>4 DEF BeginRound, At
  <2> HIDE DEF r
  <2> QED BY <2>1, <2>2, QuietLease
<1>5. ASSUME NEW j \in Jobs, FlushRelease(e, j) \/ FlushReleaseFails(e, j)
      PROVE  LeaseStep /\ IgnoresUnhandled'
  <2> DEFINE r == [run[e] EXCEPT !.todo = run[e].todo \ {j}]
  <2>1. r.pc = "flush"
    BY <1>0, <1>5 DEF RunRecord, FlushRelease, FlushReleaseFails, At
  <2>2. run' = [run EXCEPT ![e] = r] /\ run[e].pc = "flush"
    BY <1>5 DEF FlushRelease, FlushReleaseFails, At
  <2> HIDE DEF r
  <2>3. \A i \in Jobs : job'[i].status = job[i].status
    BY <1>5, ReleaseKeepsStatus DEF FlushRelease, FlushReleaseFails
  <2> QED BY <2>1, <2>2, <2>3, QuietLease
<1>6. ASSUME NEW j \in Jobs, HandleLog(e, j)
      PROVE  LeaseStep /\ IgnoresUnhandled'
  <2> DEFINE r == [run[e] EXCEPT !.todo = run[e].todo \ {j}]
  <2>1. r \in RunRecord
    BY <1>0 DEF RunRecord
  <2>2. DetectFor(e, j, r) /\ run[e].pc = "round"
    BY <1>6 DEF HandleLog, At
  <2> HIDE DEF r
  <2> QED BY <2>1, <2>2, DetectLease
<1> QED BY <1>1, <1>2, <1>3, <1>4, <1>5, <1>6 DEF RoundStep

\* A command reopens or closes only a job nobody runs.
LEMMA CommandStepLease ==
  ASSUME TypeInv, Safe, IgnoresUnhandled, NEW e \in Executors, CommandStep(e)
  PROVE  LeaseStep /\ IgnoresUnhandled'
<1> DEFINE j == run[e].job
<1>0. run[e] \in RunRecord /\ (run[e].pc \in JobStages => j \in Jobs)
  BY DEF TypeInv, TypeOK, WorksOnAJob
<1>a. IdleRun.pc = "idle"
  BY <1>0, ReturnedType
<1>1. ASSUME NEW i \in Jobs, RetryRead(e, i) \/ DeadLetterRead(e, i)
      PROVE  LeaseStep /\ IgnoresUnhandled'
  <2>1. PICK stage \in Deciding : run' = [run EXCEPT ![e] = Decided(e, i, stage)]
    BY <1>1 DEF RetryRead, DeadLetterRead, Deciding
  <2>2. Decided(e, i, stage).pc \in Deciding
    BY DEF Decided, IdleRun
  <2>3. job' = job /\ run[e].pc = "idle"
    BY <1>1 DEF RetryRead, DeadLetterRead, At
  <2> QED BY <2>1, <2>2, <2>3, QuietLease DEF Deciding
<1>2. CASE RetryWrite(e)
  <2> DEFINE r == [run[e] EXCEPT !.pc = "detect", !.seen = NothingSeen]
  <2>1. PICK k \in Jobs :
          /\ k = j /\ run[e].pc = "retryWrite" /\ SeenHolds(e)
          /\ run' = [run EXCEPT ![e] = r]
          /\ job' = [job EXCEPT ![k] = Reopened(job[k])]
    BY <1>0, <1>2 DEF RetryWrite, At, JobStages, Stages
  <2>2. r.pc = "detect"
    BY <1>0 DEF RunRecord
  <2> HIDE DEF r
  <2>3. \A f \in Executors : ~Running(f, k)
    BY <2>1, SnapshotExcludesRun
  <2>4. /\ job'[k].status = "detected"
        /\ \A i \in Jobs : i # k => job'[i] = job[i]
    BY <2>1 DEF Reopened, TypeInv, TypeOK, JobRecord
  <2>5. ~Settled(k)' /\ \A i \in Jobs : i # k => (Settled(i)' <=> Settled(i))
    BY <2>1, <2>4 DEF Settled, IsTerminal
  <2>6. /\ \A f \in Executors : \A i \in Jobs : Running(f, i)' <=> Running(f, i)
        /\ IgnoresUnhandled'
    BY <2>1, <2>2, MovesAside
  <2> QED BY <2>1, <2>3, <2>5, <2>6, Reopens
<1>3. CASE ExhaustWrite(e) \/ DeadLetterWrite(e)
  <2>1. PICK k \in Jobs :
          /\ k = j /\ run[e].pc \in {"exhaustWrite", "deadLetterWrite"}
          /\ SeenHolds(e) /\ run' = [run EXCEPT ![e] = IdleRun]
          /\ job' = [job EXCEPT ![k] = DeadLettered(job[k])]
    BY <1>0, <1>3 DEF ExhaustWrite, DeadLetterWrite, DeadLetterWith, At,
                      JobStages, Stages
  <2>2. /\ job'[k].status = "dead_letter"
        /\ \A i \in Jobs : i # k => job'[i] = job[i]
    BY <2>1 DEF DeadLettered, TypeInv, TypeOK, JobRecord
  <2>3. Settled(k)' /\ \A i \in Jobs : i # k => (Settled(i)' <=> Settled(i))
    BY <2>1, <2>2 DEF Settled, IsTerminal
  <2>4. /\ \A f \in Executors : \A i \in Jobs : Running(f, i)' <=> Running(f, i)
        /\ IgnoresUnhandled'
    BY <1>a, <2>1, MovesAside
  <2>5. CASE Settled(k)
    BY <2>3, <2>4, <2>5, LeasesStay
  <2>6. CASE ~Settled(k)
    <3>1. \A f \in Executors : ~Running(f, k)
      <4> SUFFICES ASSUME NEW f \in Executors, Running(f, k) PROVE FALSE
        OBVIOUS
      <4>1. Up(f) /\ Guarded(f, k)
        BY <2>1 DEF Safe, DownIsIdle, RunGuard, Running
      <4>2. job[k].claim = pidOf[f]
        BY <2>6, <4>1 DEF Guarded, Settled, IsTerminal
      <4>3. proc[pidOf[f]] = "down"
        BY <2>1, <4>2 DEF SeenHolds, PatchCasMatches, Safe, SeenSafe, Deciding
      <4> QED BY <4>1, <4>3 DEF Up
    <3> QED BY <2>1, <2>3, <2>4, <3>1, Closes
  <2> QED BY <2>5, <2>6
<1>4. CASE CommandConflict(e)
  <2>1. /\ run[e].pc # "running" /\ job' = job
        /\ run' = [run EXCEPT ![e] = IdleRun]
    BY <1>4 DEF CommandConflict, At
  <2> QED BY <1>a, <2>1, QuietLease
<1> QED BY <1>1, <1>2, <1>3, <1>4 DEF CommandStep

\* A process that starts runs nothing; one that dies gives its job back.
LEMMA ProcessStepLease ==
  ASSUME TypeInv, OwnProcesses, IgnoresUnhandled, NEW p \in Pids, Boot(p) \/ Die(p)
  PROVE  LeaseStep /\ IgnoresUnhandled'
<1>1. \A i \in Jobs : Settled(i)' <=> Settled(i)
  BY DEF Boot, Die, Settled
<1>2. CASE Boot(p)
  <2>1. \A f \in Executors : \A i \in Jobs : Running(f, i)' <=> Running(f, i)
    BY <1>2 DEF Boot, Running
  <2>2. IgnoresUnhandled'
    BY <1>2 DEF Boot, IgnoresUnhandled
  <2> QED BY <1>1, <2>1, <2>2, LeasesStay
<1>3. CASE Die(p)
  <2>1. /\ IdleRun.pc = "idle"
        /\ \A f \in Executors : run'[f] = IF pidOf[f] = p THEN IdleRun ELSE run[f]
    BY <1>3 DEF Die, IdleRun
  <2>2. IgnoresUnhandled'
    BY <2>1 DEF IgnoresUnhandled
  <2>3. \A f \in Executors : \A i \in Jobs :
          Running(f, i)' <=> (Running(f, i) /\ pidOf[f] # p)
    BY <2>1 DEF Running
  <2>4. CASE \A f \in Executors : pidOf[f] = p => run[f].pc # "running"
    <3>1. \A f \in Executors : \A i \in Jobs : Running(f, i)' <=> Running(f, i)
      BY <2>3, <2>4 DEF Running
    <3> QED BY <1>1, <2>2, <3>1, LeasesStay
  <2>5. ASSUME NEW e \in Executors, pidOf[e] = p, run[e].pc = "running"
        PROVE  LeaseStep /\ IgnoresUnhandled'
    <3>1. run[e].job \in Jobs /\ Running(e, run[e].job)
      BY <2>5 DEF TypeInv, WorksOnAJob, JobStages, Stages, Running
    <3>2. \A f \in Executors : \A i \in Jobs :
            Running(f, i)' <=> (Running(f, i) /\ f # e)
      BY <2>3, <2>5 DEF OwnProcesses
    <3> QED BY <1>1, <2>2, <3>1, <3>2, Returns
  <2> QED BY <2>4, <2>5
<1> QED BY <1>2, <1>3

\* No job is lent or settled at the start.
LEMMA InitLease == Init => Lease!Init /\ IgnoresUnhandled
<1> SUFFICES ASSUME Init PROVE Lease!Init /\ IgnoresUnhandled
  OBVIOUS
<1>1. \A e \in Executors : run[e].pc = "idle"
  BY DEF Init, IdleRun
<1>2. \A j \in Jobs : ~IsTerminal(job[j].status)
  BY DEF Init, AbsentJob, IsTerminal
<1>3. \A j \in Jobs : {e \in Executors : Running(e, j)} = {}
  BY <1>1 DEF Running
<1>4. [j \in Jobs |-> {e \in Executors : Running(e, j)}] = [j \in Jobs |-> {}]
  BY <1>3
<1>5. {j \in Jobs : IsTerminal(job[j].status)} = {}
  BY <1>2
<1> QED BY <1>1, <1>4, <1>5 DEF Lease!Init, IgnoresUnhandled

\* Every step of RunClaim is a step of the leases or leaves them alone.
LEMMA StepLease ==
  ASSUME OwnProcesses, LeaseInv, [Next]_vars
  PROVE  LeaseStep /\ IgnoresUnhandled'
<1> USE DEF LeaseInv
<1>1. CASE UNCHANGED vars
  <2>1. /\ \A f \in Executors : \A i \in Jobs : Running(f, i)' <=> Running(f, i)
        /\ \A i \in Jobs : Settled(i)' <=> Settled(i)
    BY <1>1 DEF vars, Running, Settled
  <2>2. IgnoresUnhandled'
    BY <1>1 DEF vars, IgnoresUnhandled
  <2> QED BY <2>1, <2>2, LeasesStay
<1>2. CASE Next
  BY <1>2, RunStepLease, RoundStepLease, CommandStepLease, ProcessStepLease DEF Next
<1> QED BY <1>1, <1>2

\* Where no two executors share a process and no pid is given out again, the
\* run claim implements the lease, whatever the number of watchers, commands
\* and jobs: each job is lent to one executor at a time, a settled job to none,
\* and a verdict stands until a command reopens a job nobody is running.
THEOREM ClaimImplementsLease ==
  ASSUME OwnProcesses, ~PidReuse PROVE Spec => JobsAreLent
<1>1. Init => Lease!Init /\ LeaseInv
  BY InitLease, InitType, InitSafe DEF LeaseInv
<1>2. LeaseInv /\ [Next]_vars => LeaseInv' /\ LeaseStep
  BY StepLease, StepType, SafeStep DEF LeaseInv
<1> QED BY <1>1, <1>2, PTL DEF Spec, JobsAreLent, Lease!Spec, LeaseStep
=============================================================================
