----------------------------- MODULE SignalRun -----------------------------
(***************************************************************************)
(* What a claimed run does with the signals of one job: processClaimedRun  *)
(* of watcher/watcher.ts with the evidence rules of                        *)
(* watcher/execution/receipt.ts and the status of watcher/jobs/retry.ts,   *)
(* against a chain that mines, drops and reorganises transactions.         *)
(*                                                                         *)
(* Runs of one job exclude each other (module RunClaim), so there is one   *)
(* run at a time; a retry command writes `detected` first and starts its   *)
(* run afterwards, and a scan may start one in between.  Every await of    *)
(* the run (handler, RPC call, store write) ends a step.  A run that dies, *)
(* or whose store write throws, leaves the job `matched` with the records  *)
(* written so far.  Only the hash the kit holds in memory is lost.         *)
(***************************************************************************)
EXTENDS Integers, SequencesExt

CONSTANTS
  Signals, NoSignal,  \* logical signals; NoSignal: a record without request
  Handlers,           \* what a handler may do: submit `ctx` through its
                      \* context, then return `ret`
  Deployments,        \* configurations of the kit, with the failures around it
  ReorgBound          \* model bound on transactions taken off the chain

FaultNames == {"transient",   \* a submission fails before it is sent, retryable
               "permanent",   \* the same, not retryable
               "lostSend",    \* the send fails although the node took it
               "receiptWait", \* waiting for the receipt fails, retryable
               "receiptText", \* the same with an unrecognised error
               "lookup",      \* a receipt lookup fails
               "handler",     \* the handler throws
               "revert",      \* the contract refuses a signal for good
               "drop",        \* the pool drops a transaction
               "reorg",       \* a mined transaction is taken off the chain
               "crash"}       \* the run dies or its store write throws

ASSUME SignalRunAssumption ==
  /\ NoSignal \notin Signals
  /\ \A p \in Handlers : p \in [ctx : Seq(Signals), ret : Seq(Signals)]
  /\ ReorgBound \in Nat
  /\ \A d \in Deployments : d \in
       [plans          : SUBSET Handlers,  \* what the handler may do
        maxAttempts    : Nat \ {0},        \* config.retry.maxAttempts
        waitForReceipt : BOOLEAN,          \* config.waitForReceipt
        dryRuns        : SUBSET BOOLEAN,   \* dryRun settings it is started with
        operators      : BOOLEAN,          \* are there manual commands?
        faults         : SUBSET FaultNames,
        txBound        : Nat,    \* model bound on broadcasts
        trailBound     : Nat]    \* no run starts with more audit records

VARIABLES
  config,   \* the deployment the job lives in
  job,      \* the stored job: status, attempts, submissions, cooled
  run,      \* the locals of the run in flight
  command,  \* a retry between its reopening write and its run
  tx,       \* transactions the node accepted, in the order of acceptance
  reorgs    \* transactions taken off the chain so far

vars == <<config, job, run, command, tx, reorgs>>

Plans == config.plans
MaxAttempts == config.maxAttempts
WaitForReceipt == config.waitForReceipt
DryRuns == config.dryRuns
Operators == config.operators
Faults == config.faults
TxBound == config.txBound
TrailBound == config.trailBound

Statuses == {"detected", "matched", "submitted", "confirmed",
             "failed", "ignored", "dead_letter"}

\* Bug: only a confirmed job counts as terminal.
OpenUnlessConfirmed(s) == s # "confirmed"

Open(s) == s \in {"detected", "matched", "submitted"}

(***************************************************************************)
(* The audit trail.  A record names the lane index of its signal, the      *)
(* request it carries, its transaction (0: none) and its outcome.          *)
(***************************************************************************)
Marks == {"dry", "sent", "confirmed", "duplicate", "failed"}

Record(i, s, t, m) == [index |-> i, sig |-> s, tx |-> t, mark |-> m]

Trail == ToSet(job.submissions)

\* An equal dry-run record is not repeated; real broadcasts always are.
AppendJobSubmission(subs, r) ==
  IF r.mark = "dry" /\ r \in ToSet(subs) THEN subs ELSE Append(subs, r)

\* Bug: a broadcast without an observed receipt counts as delivered.
BroadcastIsEvidence(r) == r.mark = "duplicate" \/ r.tx # 0

IsEvidence(r) == r.mark \in {"confirmed", "duplicate"}

\* Bug: evidence settled by a recheck of a record without request is lost.
EvidenceNeedsRequest(subs) ==
  {r.index : r \in {q \in subs : IsEvidence(q) /\ q.sig # NoSignal}}

DeliveredSignalIndexes(subs) == {r.index : r \in {q \in subs : IsEvidence(q)}}

IsUnconfirmedBroadcast(r) == r.tx # 0 /\ r.mark \in {"sent", "failed"}

HasUnresolvedBroadcast ==
  \E r \in Trail :
    IsUnconfirmedBroadcast(r) /\ r.index \notin DeliveredSignalIndexes(Trail)

ContextIndexes == {r.index : r \in {q \in Trail : q.index < 0}}

(***************************************************************************)
(* The chain.  The contract accepts a signal once: the first transaction   *)
(* mined for it succeeds, the others revert with SignalAlreadyExists.      *)
(***************************************************************************)
OnChain(s) == \E t \in DOMAIN tx : tx[t].sig = s /\ tx[t].state = "success"

\* `young`: history, no resend backoff has elapsed since the broadcast.
Accept(s) ==
  tx' = Append(tx, [sig |-> s, state |-> "pending", young |-> TRUE])

Mine(t) ==
  /\ tx[t].state = "pending"
  /\ \/ ~OnChain(tx[t].sig) /\ tx' = [tx EXCEPT ![t].state = "success"]
     \/ /\ OnChain(tx[t].sig) \/ "revert" \in Faults
        /\ tx' = [tx EXCEPT ![t].state = "reverted"]
  /\ UNCHANGED <<config, job, run, command, reorgs>>

Drop(t) ==
  /\ "drop" \in Faults
  /\ tx[t].state = "pending"
  /\ tx' = [tx EXCEPT ![t].state = "dropped"]
  /\ UNCHANGED <<config, job, run, command, reorgs>>

Reorg(t) ==
  /\ "reorg" \in Faults
  /\ reorgs < ReorgBound
  /\ tx[t].state = "success"
  /\ \E s \in {"pending", "dropped"} : tx' = [tx EXCEPT ![t].state = s]
  /\ reorgs' = reorgs + 1
  /\ UNCHANGED <<config, job, run, command>>

\* What lookupBroadcastReceipt may answer for a recorded hash.
Receipt(t) ==
  CASE tx[t].state = "success"  -> {"success"}
    [] tx[t].state = "reverted" -> {"reverted"}
    [] OTHER                    -> {"unknown"}

LookupBroadcastReceipt(t) ==
  Receipt(t) \cup (IF "lookup" \in Faults THEN {"unknown"} ELSE {})

(***************************************************************************)
(* A run starts, fails or concludes.                                       *)
(***************************************************************************)
NoPlan == [ctx |-> <<>>, ret |-> <<>>]

IdleRun == [pc |-> "idle", plan |-> NoPlan, dry |-> FALSE, resubmit |-> FALSE,
            bypass |-> FALSE, pos |-> 1, try |-> 1, prior |-> 0, count |-> 0,
            deferred |-> FALSE, base |-> 0, delivered |-> {}, tx |-> 0,
            err |-> "none"]

BackoffElapses ==
  /\ ~job.cooled
  /\ job' = [job EXCEPT !.cooled = TRUE]
  /\ tx' = [t \in DOMAIN tx |-> [tx[t] EXCEPT !.young = FALSE]]
  /\ UNCHANGED <<config, run, command, reorgs>>

\* A finished dry run has converged: the next one would only repeat it.
Converged(dry) ==
  dry /\ job.status = "matched" /\ \E r \in Trail : r.mark = "dry"

StartRun(plan, dry, resubmit, bypass) ==
  /\ run.pc = "idle"
  /\ Open(job.status)
  /\ ~Converged(dry)
  /\ Len(job.submissions) <= TrailBound
  /\ job' = [job EXCEPT !.status = "matched"]
  /\ run' = [IdleRun EXCEPT
       !.pc = "handler", !.plan = plan, !.dry = dry, !.resubmit = resubmit,
       !.bypass = bypass, !.prior = Cardinality(ContextIndexes)]
  /\ UNCHANGED <<config, tx, reorgs>>

\* A poll round takes the job up: its log is in the window, or it is open.
Scan(plan, dry) ==
  /\ StartRun(plan, dry, FALSE, FALSE)
  /\ UNCHANGED command

\* The run dies, or a store write of it throws; a retry command may die too.
Abort ==
  /\ "crash" \in Faults
  /\ run.pc # "idle" \/ command # "none"
  /\ run' = IdleRun
  /\ command' = "none"
  /\ UNCHANGED <<config, job, tx, reorgs>>

Bump(n) == IF n < MaxAttempts THEN n + 1 ELSE n

StatusForError(err) ==
  CASE err = "duplicate" -> "ignored"
    [] err = "retryable" -> "failed"
    [] OTHER             -> "dead_letter"

\* Bug: a failure with an unresolved broadcast beside it is terminal.
TerminalRegardless(err) == StatusForError(err)

StatusForTerminalError(err) ==
  IF err # "reverted" /\ HasUnresolvedBroadcast THEN "submitted"
  ELSE StatusForError(err)

StatusForCompletedRun ==
  LET proven == DeliveredSignalIndexes(Trail)
      returned == {i - 1 : i \in DOMAIN run.plan.ret}
  IN IF run.dry THEN "matched"
     ELSE IF /\ returned \cup ContextIndexes \subseteq proven
             /\ returned \cup ContextIndexes # {}
             /\ ~HasUnresolvedBroadcast
          THEN "confirmed"
     ELSE IF \/ Len(job.submissions) > run.base
             \/ run.delivered # {}
             \/ \E r \in Trail : r.mark # "dry"
          THEN "submitted"
     ELSE "matched"

ConcludeRun(s) ==
  /\ job' = [job EXCEPT !.status = s]
  /\ run' = IdleRun
  /\ UNCHANGED <<config, command, tx, reorgs>>

\* The failed attempt is written; the concluding write comes next.
EndWith(err) == run' = [run EXCEPT !.pc = "ending", !.err = err]

ConcludeFailure ==
  /\ run.pc = "ending"
  /\ ConcludeRun(StatusForTerminalError(run.err))

(***************************************************************************)
(* The handler and its context lane.                                       *)
(***************************************************************************)
ContextIndex == 0 - 1 - run.prior - run.count

ContextCall(s) ==
  /\ run.pc = "handler"
  /\ run.pos <= Len(run.plan.ctx)
  /\ s = run.plan.ctx[run.pos]

\* submitSignal returns to the handler, or throws into it.
ContextReturns(deferred) ==
  run' = [run EXCEPT !.pc = "handler", !.pos = @ + 1, !.count = @ + 1,
                     !.deferred = @ \/ deferred]

ContextThrows(err) ==
  run' = [run EXCEPT !.pc = "thrown", !.err = err, !.count = @ + 1]

FirstEvidence(s) ==
  SelectInSeq(job.submissions, LAMBDA r : r.sig = s /\ IsEvidence(r))

\* Bug: the context lane has no replay guard.
PriorBroadcastForgotten(s) == 0

LastUnresolved(s) ==
  SelectLastInSeq(job.submissions,
                  LAMBDA r : r.sig = s /\ IsUnconfirmedBroadcast(r))

\* A recorded delivery with a hash answers the call.
Answered(s) ==
  /\ ~run.resubmit
  /\ FirstEvidence(s) # 0
  /\ job.submissions[FirstEvidence(s)].tx # 0

ContextAnswered(s) ==
  /\ ContextCall(s)
  /\ Answered(s)
  /\ ContextReturns(FALSE)
  /\ UNCHANGED <<config, job, command, tx, reorgs>>

ContextSubmit ==
  /\ run' = [run EXCEPT !.pc = "ctxSubmit"]
  /\ UNCHANGED job

\* An earlier broadcast of the signal is settled by its receipt first.
ContextRecheck(s) ==
  /\ ContextCall(s)
  /\ ~Answered(s)
  /\ LastUnresolved(s) # 0
  /\ LET prior == job.submissions[LastUnresolved(s)]
     IN \E receipt \in LookupBroadcastReceipt(prior.tx) :
          \/ /\ receipt = "success"
             /\ job' = [job EXCEPT !.submissions =
                  Append(@, Record(prior.index, s, prior.tx, "confirmed"))]
             /\ ContextReturns(FALSE)
          \/ /\ receipt = "reverted"
             /\ ContextThrows("reverted")
             /\ UNCHANGED job
          \/ /\ receipt = "unknown"
             /\ IF run.bypass \/ job.cooled
                THEN ContextSubmit
                ELSE ContextReturns(TRUE) /\ UNCHANGED job
  /\ UNCHANGED <<config, command, tx, reorgs>>

ContextFirst(s) ==
  /\ ContextCall(s)
  /\ ~Answered(s)
  /\ LastUnresolved(s) = 0
  /\ ContextSubmit
  /\ UNCHANGED <<config, command, tx, reorgs>>

\* How submitStateMachineSignal may fail before the kit holds a hash.
SendErrors(s) ==
  (IF "transient" \in Faults THEN {"retryable"} ELSE {}) \cup
  (IF "permanent" \in Faults THEN {"permanent"} ELSE {}) \cup
  (IF OnChain(s) THEN {"duplicate"} ELSE {})

\* Bug: the error kind is stored as the outcome.
ErrorAsOutcome(err) == err

ErrorMark(err) == IF err = "duplicate" THEN "duplicate" ELSE "failed"

\* The send is refused; or, unnoticed, accepted by the node.
SendFails(s, err) ==
  \/ err \in SendErrors(s) /\ UNCHANGED tx
  \/ /\ "lostSend" \in Faults /\ err = "retryable"
     /\ ~OnChain(s)
     /\ Len(tx) < TxBound
     /\ Accept(s)

Errors == {"retryable", "permanent", "duplicate", "reverted"}

ContextSendFails(err) ==
  LET s == run.plan.ctx[run.pos]
  IN /\ run.pc = "ctxSubmit" /\ ~run.dry
     /\ SendFails(s, err)
     /\ job' = [job EXCEPT
          !.submissions = Append(@, Record(ContextIndex, s, 0, ErrorMark(err))),
          !.cooled = FALSE]
     /\ ContextThrows(err)
     /\ UNCHANGED <<config, command, reorgs>>

ContextDryRun ==
  /\ run.pc = "ctxSubmit" /\ run.dry
  /\ job' = [job EXCEPT !.submissions = AppendJobSubmission(@,
       Record(ContextIndex, run.plan.ctx[run.pos], 0, "dry"))]
  /\ ContextReturns(FALSE)
  /\ UNCHANGED <<config, command, tx, reorgs>>

\* The node accepts the transaction and the kit holds its hash.
Broadcast(s, pc) ==
  /\ ~run.dry
  /\ ~OnChain(s)
  /\ Len(tx) < TxBound
  /\ Accept(s)
  /\ run' = [run EXCEPT !.pc = pc, !.tx = Len(tx) + 1]
  /\ UNCHANGED <<config, job, command, reorgs>>

ContextBroadcast ==
  /\ run.pc = "ctxSubmit"
  /\ Broadcast(run.plan.ctx[run.pos], "ctxSent")

\* What waiting for the receipt of the transaction in flight may end with.
WaitOutcomes ==
  IF ~WaitForReceipt THEN {"sent"}
  ELSE (Receipt(run.tx) \ {"unknown"})
         \cup (IF "receiptWait" \in Faults THEN {"retryable"} ELSE {})
         \cup (IF "receiptText" \in Faults THEN {"permanent"} ELSE {})

WithRecord(r) ==
  job' = [job EXCEPT !.submissions = Append(@, r), !.cooled = FALSE]

ContextSent(outcome) ==
  LET s == run.plan.ctx[run.pos]
      failed == Record(ContextIndex, s, run.tx, "failed")
      mined == Record(ContextIndex, s, run.tx, "confirmed")
  IN /\ run.pc = "ctxSent"
     /\ outcome \in WaitOutcomes
     /\ CASE outcome = "sent" ->
               /\ WithRecord(Record(ContextIndex, s, run.tx, "sent"))
               /\ ContextReturns(FALSE)
          [] outcome = "success" -> WithRecord(mined) /\ ContextReturns(FALSE)
          [] outcome = "reverted" -> WithRecord(failed) /\ ContextThrows("reverted")
          [] OTHER ->
               \* One lookup; a revert it shows is swallowed like any failure.
               \E receipt \in LookupBroadcastReceipt(run.tx) :
                 IF receipt = "success"
                 THEN /\ job' = [job EXCEPT !.submissions = @ \o <<failed, mined>>]
                      /\ ContextReturns(FALSE)
                 ELSE WithRecord(failed) /\ ContextReturns(TRUE)
     /\ UNCHANGED <<config, command, tx, reorgs>>

\* The handler may catch what submitSignal threw and go on.
HandlerCatches ==
  /\ run.pc = "thrown"
  /\ run' = [run EXCEPT !.pc = "handler", !.pos = @ + 1, !.err = "none"]
  /\ UNCHANGED <<config, job, command, tx, reorgs>>

\* The handler throws an error of its own, or lets one through.
HandlerThrows(err) ==
  /\ \/ run.pc = "thrown" /\ err = run.err
     \/ /\ run.pc = "handler" /\ "handler" \in Faults
        /\ err \in Errors \ {"reverted"}
  /\ job' = [job EXCEPT !.attempts = Bump(@)]
  /\ IF err = "retryable" /\ run.try < MaxAttempts
     THEN run' = [run EXCEPT !.pc = "handler", !.pos = 1, !.try = @ + 1,
                             !.err = "none"]
     ELSE EndWith(err)
  /\ UNCHANGED <<config, command, tx, reorgs>>

HandlerReturns ==
  /\ run.pc = "handler"
  /\ run.pos > Len(run.plan.ctx)
  /\ run' = [run EXCEPT
       !.pc = "recheck", !.pos = 1, !.base = Len(job.submissions),
       !.delivered = IF run.resubmit THEN {} ELSE DeliveredSignalIndexes(Trail)]
  /\ UNCHANGED <<config, job, command, tx, reorgs>>

(***************************************************************************)
(* The receipt recheck over the records the run found, in order.           *)
(***************************************************************************)
RecheckReceipt ==
  LET r == job.submissions[run.pos]
      next == [run EXCEPT !.pos = @ + 1]
  IN /\ run.pc = "recheck"
     /\ run.pos <= run.base
     /\ IF IsUnconfirmedBroadcast(r)
        THEN \E receipt \in LookupBroadcastReceipt(r.tx) :
          \/ receipt = "unknown" /\ run' = next /\ UNCHANGED job
          \/ /\ receipt = "success"
             /\ job' = [job EXCEPT !.submissions =
                  Append(@, [r EXCEPT !.mark = "confirmed"])]
             /\ run' = [next EXCEPT !.delivered = @ \cup {r.index}]
          \/ /\ receipt = "reverted"
             /\ job' = [job EXCEPT !.attempts = Bump(@),
                                   !.status = StatusForError("reverted")]
             /\ run' = IdleRun
        ELSE run' = next /\ UNCHANGED job
     /\ UNCHANGED <<config, command, tx, reorgs>>

RecheckDone ==
  /\ run.pc = "recheck"
  /\ run.pos > run.base
  /\ run' = [run EXCEPT !.pc = "signals", !.pos = 1]
  /\ UNCHANGED <<config, job, command, tx, reorgs>>

(***************************************************************************)
(* The returned signals.                                                   *)
(***************************************************************************)
Index == run.pos - 1

NextSignal(deferred, delivered) ==
  run' = [run EXCEPT !.pc = "signals", !.pos = @ + 1,
                     !.deferred = @ \/ deferred,
                     !.delivered = @ \cup delivered]

BacksOff ==
  /\ \E r \in Trail : r.index = Index /\ IsUnconfirmedBroadcast(r)
  /\ ~run.bypass
  /\ ~job.cooled

TakeSignal ==
  /\ run.pc = "signals"
  /\ run.pos <= Len(run.plan.ret)
  /\ IF Index \in run.delivered THEN NextSignal(FALSE, {})
     ELSE IF BacksOff THEN NextSignal(TRUE, {})
     ELSE run' = [run EXCEPT !.pc = "submit", !.try = 1]
  /\ UNCHANGED <<config, job, command, tx, reorgs>>

SubmitDryRun ==
  /\ run.pc = "submit" /\ run.dry
  /\ job' = [job EXCEPT
       !.submissions = AppendJobSubmission(@,
                         Record(Index, run.plan.ret[run.pos], 0, "dry")),
       !.cooled = FALSE]
  /\ NextSignal(FALSE, {})
  /\ UNCHANGED <<config, command, tx, reorgs>>

\* A failed attempt counts against the job and leaves a record.
WithFailure(subs) ==
  job' = [job EXCEPT !.submissions = @ \o subs, !.cooled = FALSE,
                     !.attempts = Bump(@)]

SubmitFails(err) ==
  /\ run.pc = "submit" /\ ~run.dry
  /\ SendFails(run.plan.ret[run.pos], err)
  /\ WithFailure(<<Record(Index, NoSignal, 0, ErrorMark(err))>>)
  /\ IF err = "retryable" /\ run.try < MaxAttempts
     THEN run' = [run EXCEPT !.try = @ + 1]
     ELSE IF err = "duplicate" THEN NextSignal(FALSE, {Index})
     ELSE EndWith(err)
  /\ UNCHANGED <<config, command, reorgs>>

SubmitBroadcast ==
  /\ run.pc = "submit"
  /\ Broadcast(run.plan.ret[run.pos], "sent")

SentOutcomes == {"sent", "success", "reverted", "retryable", "permanent"}

Sent(outcome) ==
  LET s == run.plan.ret[run.pos]
      failed == Record(Index, NoSignal, run.tx, "failed")
      mined == Record(Index, s, run.tx, "confirmed")
  IN /\ run.pc = "sent"
     /\ outcome \in WaitOutcomes
     /\ CASE outcome = "sent" ->
               /\ WithRecord(Record(Index, s, run.tx, "sent"))
               /\ NextSignal(FALSE, {Index})
          [] outcome = "success" -> WithRecord(mined) /\ NextSignal(FALSE, {Index})
          [] outcome = "retryable" ->
               \E receipt \in LookupBroadcastReceipt(run.tx) :
                 \/ /\ receipt = "success"
                    /\ WithFailure(<<failed, mined>>)
                    /\ NextSignal(FALSE, {Index})
                 \/ /\ receipt = "reverted"
                    /\ WithFailure(<<failed>>)
                    /\ EndWith("reverted")
                 \/ /\ receipt = "unknown"
                    /\ WithFailure(<<failed>>)
                    /\ NextSignal(TRUE, {})
          [] OTHER -> WithFailure(<<failed>>) /\ EndWith(outcome)
     /\ UNCHANGED <<config, command, tx, reorgs>>

\* A deferred signal keeps the job open.
FinishRun ==
  /\ run.pc = "signals"
  /\ run.pos > Len(run.plan.ret)
  /\ ConcludeRun(IF run.deferred /\ StatusForCompletedRun = "matched"
                 THEN "submitted" ELSE StatusForCompletedRun)

(***************************************************************************)
(* Manual commands, issued while no run holds the job.                     *)
(***************************************************************************)
Retriable == {"detected", "matched", "submitted", "confirmed", "failed"}

SpentOut ==
  /\ job.attempts = MaxAttempts
  /\ job.status \notin {"failed", "confirmed"}

RetryCommand ==
  /\ Operators
  /\ run.pc = "idle" /\ command = "none"
  /\ job.status \in Retriable
  /\ ~SpentOut
  /\ job' = [job EXCEPT !.status = "detected",
                        !.attempts = IF job.status = "failed" THEN 0 ELSE @]
  /\ command' = IF job.status = "confirmed" THEN "resubmit" ELSE "retry"
  /\ UNCHANGED <<config, run, tx, reorgs>>

\* The budget is spent: anything but `submitted` is dead-lettered.
RetryExhausted ==
  /\ Operators
  /\ run.pc = "idle" /\ command = "none"
  /\ job.status \in Retriable \ {"submitted"}
  /\ SpentOut
  /\ job' = [job EXCEPT !.status = "dead_letter"]
  /\ UNCHANGED <<config, run, command, tx, reorgs>>

DeadLetterCommand ==
  /\ Operators
  /\ run.pc = "idle"
  /\ job.status \notin {"confirmed", "submitted", "dead_letter"}
  /\ job' = [job EXCEPT !.status = "dead_letter"]
  /\ UNCHANGED <<config, run, command, tx, reorgs>>

\* The run of the retry, with the flags only the command's memory holds.
CommandRun(plan, dry) ==
  /\ command # "none"
  /\ StartRun(plan, dry, command = "resubmit", TRUE)
  /\ command' = "none"

\* A scan took the job first, or it is settled or converged: no run.
CommandYields ==
  /\ command # "none"
  /\ run.pc # "idle" \/ ~Open(job.status) \/ \E dry \in DryRuns : Converged(dry)
  /\ command' = "none"
  /\ UNCHANGED <<config, job, run, tx, reorgs>>

(***************************************************************************)
(* Specification.                                                          *)
(***************************************************************************)
Init ==
  /\ config \in Deployments
  /\ job = [status |-> "detected", attempts |-> 0, submissions |-> <<>>,
            cooled |-> TRUE]
  /\ run = IdleRun
  /\ command = "none"
  /\ tx = <<>>
  /\ reorgs = 0

ContextStep ==
  \/ \E s \in Signals : ContextAnswered(s) \/ ContextRecheck(s) \/ ContextFirst(s)
  \/ \E err \in Errors : ContextSendFails(err)
  \/ ContextDryRun \/ ContextBroadcast
  \/ \E o \in SentOutcomes : ContextSent(o)
  \/ HandlerCatches \/ HandlerReturns
  \/ \E err \in Errors : HandlerThrows(err)

SignalStep ==
  \/ RecheckReceipt \/ RecheckDone \/ TakeSignal \/ SubmitDryRun
  \/ \E err \in Errors : SubmitFails(err)
  \/ SubmitBroadcast
  \/ \E o \in SentOutcomes : Sent(o)
  \/ ConcludeFailure \/ FinishRun

CommandStep ==
  \/ RetryCommand \/ RetryExhausted \/ DeadLetterCommand \/ CommandYields
  \/ \E plan \in Plans, dry \in DryRuns : CommandRun(plan, dry)

ChainStep == \E t \in DOMAIN tx : Mine(t) \/ Drop(t) \/ Reorg(t)

ScanStep == \E plan \in Plans, dry \in DryRuns : Scan(plan, dry)

Next ==
  \/ ContextStep \/ SignalStep \/ CommandStep \/ ChainStep \/ ScanStep
  \/ BackoffElapses \/ Abort

Spec == Init /\ [][Next]_vars

\* The chain mines what it has; the watcher polls and its RPC provider and
\* store do not fail every time; the backoff is finite.
Fairness ==
  /\ \A t \in 1 .. Max({d.txBound : d \in Deployments}) :
       WF_vars(t \in DOMAIN tx /\ Mine(t))
  /\ WF_vars(ScanStep)
  /\ WF_vars(ContextStep)
  /\ WF_vars(SignalStep)
  /\ SF_vars(RecheckReceipt /\ job'.submissions # job.submissions)
  /\ WF_vars(BackoffElapses)

FairSpec == Spec /\ Fairness

(***************************************************************************)
(* Properties.                                                             *)
(***************************************************************************)
TypeOK ==
  /\ config \in Deployments
  /\ job.status \in Statuses /\ job.attempts \in 0 .. MaxAttempts
  /\ job.cooled \in BOOLEAN
  /\ \A r \in Trail :
       /\ r.index \in Int /\ r.sig \in Signals \cup {NoSignal}
       /\ r.tx \in 0 .. Len(tx) /\ r.mark \in Marks
  /\ run.pc \in {"idle", "handler", "thrown", "ctxSubmit", "ctxSent",
                 "recheck", "signals", "submit", "sent", "ending"}
  /\ run.plan \in Plans \cup {NoPlan}
  /\ run.tx \in 0 .. Len(tx)
  /\ run.err \in Errors \cup {"none"}
  /\ command \in {"none", "retry", "resubmit"}
  /\ \A t \in DOMAIN tx :
       tx[t].sig \in Signals
         /\ tx[t].state \in {"pending", "success", "reverted", "dropped"}
  /\ reorgs \in 0 .. ReorgBound

PlanSignals(plan) == ToSet(plan.ctx) \cup ToSet(plan.ret)

\* A run that confirms its job has every signal of its handler, of both lanes,
\* on chain (statusForCompletedRun): no unresolved broadcast, dry-run record or
\* failed attempt is ever taken for delivery.  Only a reorganisation may have
\* taken back what a receipt had shown.
ConfirmedMeansDelivered ==
  [][job.status # "confirmed" /\ job'.status = "confirmed" =>
       reorgs > 0 \/ \A s \in PlanSignals(run.plan) : OnChain(s)]_vars

\* A run never closes a job with a recorded broadcast of unknown outcome: the job
\* stays in the lane the watcher rechecks, unless a receipt shows a revert
\* (statusForTerminalError, README on the job semantics).
UnknownOutcomeStaysOpen ==
  [][run.pc # "idle" /\ Open(job.status) /\ ~Open(job'.status) /\ HasUnresolvedBroadcast' =>
       \E r \in Trail : r.tx # 0 /\ tx[r.tx].state = "reverted"]_vars

\* No run the operator did not ask for broadcasts a signal again while an
\* earlier recorded broadcast of it is pending and its backoff has not elapsed.
NoBlindRebroadcast ==
  [][Len(tx') > Len(tx) /\ ~run.bypass =>
       ~\E r \in Trail :
          /\ IsUnconfirmedBroadcast(r)
          /\ tx[r.tx].sig = tx'[Len(tx')].sig
          /\ tx[r.tx].state = "pending"
          /\ tx[r.tx].young]_vars

\* An operator's dead-letter is final: a retry still on its way, or a scan, never
\* starts the job again.
DeadLetterIsFinal ==
  [][job.status = "dead_letter" => job'.status = "dead_letter"]_vars

\* Whatever receipts are late, every job is settled in the end.
EverySignalSettles == Open(job.status) ~> ~Open(job.status)
=============================================================================
