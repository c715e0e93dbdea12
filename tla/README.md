# Verification of the UVP executor kit

TLA+ models of the executor kit in `src/package`, the TLC runs that check them on
small instances, and the theorems TLAPS proves about them for every instance.
`PROJECT.json` lists the components, the runs, the source lines every definition
models, the hazards the properties are aimed at, and the disagreements between code
and documents the runs show.

## 1. The system

The kit watches `HookReady` logs of a state-machine contract, runs a configured
handler for each, and sends the signals the handler asks for as `submitSignal`
transactions. It is an at-least-once program around a chain that refuses duplicates.
All paths below are under `src/package/src`.

| Component | State | Operations | Talks to |
|---|---|---|---|
| Watcher rounds (`watcher/watcher.ts` `pollOnce`, `start`) | `nextBlock`, `cursorBlockHash`, `checkpoints`, `adoptedStoredCursor`, pending claim releases | restore cursor, check continuity, read logs, handle each, revisit open jobs, save cursor; start, tick, stop | RPC provider, job store, cursor store |
| Run claim (`claimForRun`, `releaseRunClaim`, `jobs/claim.ts`) | `claim` of a job record (pid) | claim, conclude, release, retry of a failed release | job store, operating system (pid test) |
| One job's run (`processClaimedRun`, `execution/receipt.ts`, `signal/submit.ts`) | the job's `submissions`, `attempts`, `status`, `lastSignalAttemptAt` | handler attempts, context submissions, returned signals, receipt recheck, backoff, verdict | handler, RPC provider, job store |
| Manual commands (`jobs/retry.ts`, `jobs/deadletter.ts`) | none of their own | retry, dead-letter | job store, then a run |
| Job store (`storage/file.ts`, `storage/memory.ts`, `storage/lock.ts`) | `jobs.json`, `jobs.json.lock` | upsertDetected, update (compare and set), get, list | file system, other processes |
| Cursor store (`storage/cursor.ts`) | `cursor.json` | load, save | file system |
| State-directory lock (`storage/lock.ts`, `cli/commands/chain.ts`) | `watcher.lock` | acquire with takeover, release | file system, operating system |
| Executor server (`server.ts`) | jobs in memory | dispatch, list, get; handler; callbacks with retries | dispatcher, callback endpoint |
| Product client (`product.ts`, `cli/commands/product.ts`) | the prepared file | prepare, sign and submit; list, show, proof | HTTP service, file |
| Doctor (`doctor.ts`) | none | task readiness and other reports | HTTP service, clock |
| Wallet, configuration, output | none between calls | | files |

What is hard about it:

* **Several processes on one store.** A watcher, `jobs retry` and `jobs dead-letter`
  read and write the same jobs. Between any two store calls of one the others may act.
* **Crashes.** A run may die after any store call and after a broadcast that is not
  yet recorded; locks and claims of the dead stay behind.
* **Unknown outcomes.** A send, a receipt wait or a callback may fail although it
  took effect.
* **A chain that takes things back**, shrinks, is reset, and changes between two
  reads of one round.
* **Time**: stale locks, resend backoff, pids that are given out again.

What makes each component correct:

* Run claim: no job is run by two executors at once; a claim never outlives its run.
* One job's run: `confirmed` means on chain; a broadcast of unknown outcome stays in
  the recheck lane; nothing is broadcast again while the first may still be mined.
* Scan: no block is skipped whatever fails; a rollback lands on a common ancestor.
* Job store: updates are atomic, none is lost, a dead holder does not block it.
* State-directory lock: whoever made the lock file keeps it until its release; the rounds
  of two watchers do not overlap.
* Watch loop: no log behind a saved cursor is without its job, whoever crashed or moved
  a damaged file aside; a final log is settled in the end.
* Server: one handler run per dispatch id; a record of every delivery, and a true one, of
  a dispatch that failed too; a signal broadcast once although a restart forgets the
  dispatch and another hook may ask for the same signal.
* Product client: a signature only on what the command names. Doctor: the service's
  verdict, not the local clock's.

## 2. Modules

```
JobModel ---> RunClaim ---> RunClaim_proofs      who may run a job
JobLease <-(refines)- RunClaim -> RunClaim_proofs   what a claim promises
AtomicStore <-(refines)- JobsFile -> JobsFile_proofs   the file under its lock
              SignalRun ---> SignalRun_proofs    what a run does with its signals
              ScanCursor ---> ScanCursor_proofs  which blocks a watcher has scanned
              WatchLoop ---> WatchLoop_proofs    rounds over cursor, jobs and chain
              WatcherLock ---> WatcherLock_proofs  one watcher per state directory
              ExecutorServer ---> ExecutorServer_proofs   dispatches and callbacks
              ProductFlow ---> ProductFlow_proofs  prepare, submit and doctor
```

The interfaces between them: `RunClaim` takes every store call as one step, which is
what `JobsFile` shows of the file store (`UpdatesAreAtomic`); `SignalRun` takes runs of
one job one at a time, which is what `RunClaim` shows (`MutualExclusion`); `ScanCursor`
takes the handling of a log as one step that may fail, the job being open in the store
afterwards. `WatchLoop` puts the parts together at the level these modules establish: a
claim is one step (`JobsAreLent`), and a cursor whose block was replaced sets the next
round back to the first replaced block (`AnchorsAreCommonAncestors`, `CursorHidesNoBlock`,
for reorganisations within the window).

**JobModel** holds the job record as far as claims and statuses go and the guarded
update of the store: `PatchCasMatches` is `patchCasMatches` (`expectStatus`,
`expectClaimPid`), `WithConclusiveClaimRelease` the rule of `jobs/claim.ts`.

**RunClaim.** An executor is one sequential activity of a process: a watcher's poll loop
or one command. `proc` says which processes live, `run` where each executor stands,
`job` the store, `pending` the claim releases that failed. One action per store call:
`HandleLog` is `upsertDetected`; `ClaimRead`, `ClaimWrite` and `ClaimLost` are the loop
of `claimForRun`; `Conclude` the verdict; `ReleaseRunClaim` and its failure the
`finally` of `handleLog`; `FlushRelease` the retry at the start of the next round;
`RetryRead`, `RetryWrite`, `DeadLetterRead`, `DeadLetterWrite`, `ExhaustWrite`,
`CommandConflict` the commands. `Boot` and `Die` start and kill processes. The outcome
of a run is any of `RunOutcomes`.

**JobLease** is the abstract specification of the claim: `runners` says who has each job,
`settled` whether it has its verdict; a job is taken, returned, closed and reopened.
`RunClaim` maps to it by the executors between a won claim and the end of their run, and
by the terminal statuses. Where an executor lacks the handler of a job the lease allows
a close of a job that is out (`Unhandled`), because the code's write of `ignored` does.

**SignalRun.** `job` is the record, `tx` the transactions the node has seen, `run` the
local state of `processClaimedRun`, `command` what a retry still has to do. A
submission is its index, signal, transaction and a mark (`unconfirmed`, `confirmed`,
`duplicate`, an error, a dry run). `Context*` actions are the context lane, `TakeSignal`
to `FinishRun` the returned lane, `RecheckReceipt` the recheck, `Mine`, `Drop` and
`Reorg` the chain. Every await of the code ends a step. `config` is chosen in the first state
from `Deployments`: the handler's plans, the retry budget, whether receipts are awaited,
dry runs, operators and the failures around it, each with its bounds.

**ScanCursor.** A block is its hash and carries one log. `mem` is the watcher's memory,
`file` the saved cursor, `round` the round in progress, `handled` the logs handled.
Every RPC read and the save is a step; `RoundFails` and `Crash` come in between. `config`
is a deployment here too: `fromBlock` (`NoBlock` where it is not set), window and the
behaviour of chain and node. Without a `fromBlock` a watcher begins at the finalized
head (`watcher.ts:320`), only waits when its cursor is beyond the head (`watcher.ts:332`)
and rescans from block 0 (`watcher.ts:1315`). `start` is history, read by no action: the
block from which the first cursor was saved, `fromBlock` where it is set. What was
scanned is counted from there.

**WatchLoop.** `place` is the block a log is in, `job` the store with the block a job was
stored with, `file` the cursor file, `watcher` the memory and the round of each process.
`BeginRound` restores the cursor and reads head and logs, `TakeTask` stores a job and
claims it, `Conclude` ends a run, `RevisitOpenJobs` computes the pass over open jobs with
the test of `watcher.ts:1350`, `SaveCursor` closes the round. `QuarantineJobs` and
`QuarantineCursor` are a state file that is damaged and moved aside by the next read. A cursor carries `kept`, up to where the chain is
still what was scanned; it stands for the saved block hash.

**JobsFile.** `lock` is the marker file, `content` the jobs file as the number of updates
of each writer it contains, `written` how many were written, `caller` where each store
call stands and the copy it read. One action per file-system call. `AtomicStore` is
the store the watcher is written against: an update changes the current contents in
one step.

**WatcherLock.** `lock` is `watcher.lock` (who made it, the pid in it, whether it is
old), `proc` one record per process: the command, the attempt of the acquire loop, the
pid it read, whether a round is in flight. A process is started once and has a pid of its
own, so that a restart is another instance. `judged` is history, read by no action: the
maker of the file a process has tested before it takes over. `Stop` releases what
`chain.ts` releases and leaves the round of a stopped watcher in flight, as `stop()` does.

**ExecutorServer.** `jobs` is the in-memory store, `worker` what the server does for
each request, `endpoint` how often the callback endpoint took each signal of a job and how
often its answer was a success. `Accept` and `Refuse` are the conditional insert, `Post`
one attempt of one callback, `Conclude` the write of the verdict. A dispatch id stands for
an order and a hook (`effectOf`); `handlers` says which signals the handler of a hook
lists and which key is configured for each. `IdempotencyKey` is that of `server.ts:199`:
the configured key, else order, source and name, without the hook, so that two hooks of
an order that ask for one signal share it. `platform` is external: it stands behind the
endpoint and broadcasts what comes under a key it does not know. `Restart` empties the
in-memory store only.

**ProductFlow.** A command is a process: `prepare` asks, parses the answer and writes the
prepared file by emptying and filling it; `submit` reads it, compares task and id, parses
it again (deadline), passes the gate of `signPreparedSignalContainer` and posts. The
service is external: what it answers has the right shape and may be for another task,
wallet or domain. `NextAction` is the readiness verdict of `doctor.ts`, a function of the
service's view of a task, the configured wallet and the clock.

Operators under a comment that begins with "Bug:", right above the one they resemble,
are broken variants of it. Each shows that a property can fail: the property it breaks
is named in `PROJECT.json`.

## 3. Runs

Ten runs pass; two, `ScanCursor_deep` and `WatcherLock_drain`, find a state in which a
document does not hold (section 5). Each takes under four minutes with two workers.

| Run | Instance | Shows |
|---|---|---|
| `RunClaim_cli` | a dry-run watcher and two operators (one without the handler) in processes of their own, one job, crashes, failing store calls; 650,766 states | type correctness; one run of a job at a time; a run's job stays its own; no claim left by a live process; live claims and verdicts are changed only by whom the code means |
| `RunClaim_live` | a watcher and an operator, fairness | a run stranded by a crash is taken over; a failed release is applied in the end; the protocol implements `JobLease` (`JobsAreLent`) |
| `SignalRun_lanes` | one signal per lane, in two deployments: receipts awaited with all failures of sends, waits, lookups and handlers, reverts, dropped transactions and crashes; and fire-and-forget with operators, dry and real runs, transient and permanent failures, crashes and one reorganised transaction; 3,556,081 states | type correctness; `confirmed` is on chain, an unknown outcome stays open, nothing is broadcast again blindly unless an operator asked, dead-letter is final |
| `SignalRun_live` | one returned signal, late and unreadable receipts, fairness; 719 states | every job settles |
| `ScanCursor_reorg` | three deployments: a configured first block, and a chain that reorganises to any depth and loses height under a watcher that crashes; no first block, and failing rounds, crashes and unreadable hashes over reorganisations within a window of three; no first block, and a chain that is replaced under a watcher that crashes; fairness; 1,841,140 states | type correctness; no cursor hides a block; anchors are common ancestors; no rollback without a reorganisation; every finalized block is handled, all from where the watcher began |
| `ScanCursor_deep` | one reorganisation deeper than the window, one failing round | violates `CursorHidesNoBlock` |
| `WatchLoop_rounds` | two overlapping watchers, one log, two blocks, one reorganisation that may move the log, one mishap (failing round, crash, damaged jobs or cursor file), fairness; 168,119 states | type correctness; no log behind a cursor lacks its job; the pass takes no job the scan just handled, unless its log was moved; a final log is settled |
| `JobsFile_crash` | two callers that may crash, fairness; 657 states | type correctness; exclusion; the file implements `AtomicStore`; the marker of the dead is broken |
| `WatcherLock_faults` | three instances of either command, crashes, failing file calls, fairness; 139,274 states | type correctness; the lock file is its maker's until the release, but for a takeover that judged another file; residue is taken over |
| `WatcherLock_drain` | two instances of `chain-watch`, no fault | violates `OneWatcher` |
| `ExecutorServer_requests` | two requests for one or two dispatch ids of one order, two hooks that share a signal, two signals each, one with a configured key, two attempts, one restart, fairness; 140,360 states | type correctness; one handler run per dispatch; true delivery records; a signal with its default key broadcast once, and one recorded as delivered exactly once; no delivery missing from a settled job; every accepted dispatch is settled |
| `ProductFlow_commands` | two commands at a time, two tasks, wallets and domains, two prepared submissions, two hours; 103,650 states | type correctness; only what the command names is signed; the service's verdict stands at every hour |

**Bounds.** `Jobs` is one job: claims of different jobs share nothing but the store, and
`MutualExclusion` is proved for any number. Three executors are enough for a claim to
be lost, taken over and lost again. `maxAttempts` is 1 or 2, and 2 for the server: with
2 there is an attempt that is not the last. `txBound`, `trailBound` and `ReorgBound` cap
transactions, submission records and reorganisations. A trail longer than `trailBound`
starts no further run, so a run may begin with two records from before: one per signal,
or a broadcast and what a recheck said of it. `txBound = 3` is one transaction per
signal and one resubmission. The handler of a run is deterministic (`plans` is one
plan): what happens to evidence kept by position otherwise is in section 5. `MaxHeight`
of `ScanCursor` is enough above the floor for rounds longer than the span, anchors
beyond the window and reorganisations deeper than it. `FaultBound` counts failing rounds
and crashes. `WatchLoop` has one log because logs meet only in a round's failure, and two
blocks so that a log can move; its invariants also hold with two logs and with three
blocks (4,385,947 and 979,341 states). `RestartBound = 1` is a dispatch before and after
a restart. `PrepareBound = 2` is a prepared file written over once; `MaxTime = 1` a
deadline that is met when prepared and missed when signed. `WriteBound = 2` makes a
caller of the store come back. Two callers of the store are the smallest case in which
one meets the marker of another; with three the takeover of a stale marker itself races
(section 5). `WatcherLock_faults` has three starts, which is what that race takes: one
ends, one starts, and one acts on what it read before. `WatcherLock_drain` needs two.

**What the deployments leave out.** `SignalRun` and `ScanCursor` have one name per kind of
failure, and no deployment combines all of them. In `ScanCursor_reorg`, the chain that
does anything has a node whose rounds do not fail: a failing round right after a deep
reorganisation or an overshoot loses the correction. The failing node has a chain whose
reorganisations stay within the window, which the model states as a canonical anchor that
is left below the fork (`WithinWindow`). In the same spirit a block hash may be
unreadable only while the chain has not reorganised: a node that cannot give the hash of
the common ancestor makes any reorganisation a deep one. A reorganisation never enters
the range of the round in progress (`AwayFromRound`), which is what the finality buffer
is for. `WatchLoop` has no deep reorganisation for the same reason.

**Deadlock** is off (`CHECK_DEADLOCK FALSE`) where the system really may stop: every
process dead or ended, every job settled with the bounds used up, every caller crashed,
every request answered. It is on for the `ScanCursor` runs, where the watcher polls for
ever, and for `ProductFlow`, where another command can always be started.

**Fairness.**

* `RunClaim_live`: the loop of `start` re-arms itself after every round, failed or not,
  so a watcher that stays up begins rounds for ever; strong fairness of the store calls
  and of `Conclude` says that the store and the provider do not fail every single time
  and that a handler returns. Operators and crashes are not fair, and the property
  asks for a watcher that stays up.
* `SignalRun_live`: the chain mines what it has, the watcher polls, receipts are not
  unreadable for ever, the backoff (capped at `maxDelayMs`) elapses.
* `ScanCursor_reorg`: rounds go on and the chain grows. No fairness stops the faults;
  they are bounded.
* `WatchLoop_rounds`: a watcher that is up goes on with its round, and a run that is tried
  again and again settles its job at some time (strong fairness; that it does is
  `EverySignalSettles` of `SignalRun`). The property asks for a watcher that stays up.
* `JobsFile_crash`: live callers make progress, time passes, making and removing the
  marker does not fail for ever.
* `WatcherLock_faults`: a started process goes on. It may give up after its attempts, as
  the code does.
* `ExecutorServer_requests`: the event loop gets to every request, a handler and an
  HTTP request end.

**Timing.** `JobsFile` lets a marker become stale only if its holder crashed or the
fault `slow` is on: without it nobody takes ten seconds between creating and removing
the marker. `WatcherLock` likewise assumes that nobody takes ten seconds between
creating and stamping the lock file, or from reading it to its `stat`.

## 4. Proofs

Checked by TLAPS for every value of the constants that meets the named assumptions.

* `RunClaim_proofs!TypeCorrect`: `Spec => []TypeOK`. `TypeOK` alone is not inductive: that
  an executor working on a job has one (`WorksOnAJob`) is needed to type the next store
  call.
* `RunClaim_proofs!RunsExclude`: `Spec => []MutualExclusion` assuming `OwnProcesses` (every
  executor has a process of its own, as on the command line) and `~PidReuse`. Both are
  needed: with two executors on one pid, or with a pid given out again, TLC finds a
  counterexample. The
  inductive invariant `Safe` adds: claims name processes that have existed; a dead
  process runs nothing; what a pending decision has read carried no claim of a live
  process and a status the decision allows (`SeenSafe`); the job of a run is claimed by
  it or closed for good (`RunGuard`). A second run would have to be entered by a write
  whose guard matches the job of the first; the job carries the pid of a live process,
  the snapshot behind the guard does not.
* `RunClaim_proofs!ClaimImplementsLease`: `Spec => JobsAreLent` under the same two assumptions,
  with `RunClaim_live` as its small instance. Beyond `Safe` it needs that only an executor
  without the handler gets to the write of `ignored` (`IgnoresUnhandled`). A claim that is
  won is `Take`, because the snapshot behind it excludes a run and a verdict; a verdict, a
  failed run or a death is `Return`; the writes of the commands are `Close` and `Reopen`, on
  a job nobody runs; every other step is quiet (`QuietLease`).
* `JobsFile_proofs!TypeCorrect`: `Spec => []TypeOK`, with `NothingInvented`: neither the file
  nor a copy contains more of a writer's updates than it has written.
* `JobsFile_proofs!WritersExclude`: `Spec => []OneWriterAtATime`, assuming `Faults = {}`. The
  invariant `LockInv`: the marker names the one caller in its critical section and is not
  stale, nobody is about to break it, and a copy held at the write is the file. With
  three callers and any of the faults the theorem is false; with two, `JobsFile_crash`
  shows that a crash alone does no harm.
* `JobsFile_proofs!StoreIsAtomic`: `Spec => UpdatesAreAtomic`, assuming `Faults = {}`: the initial
  states agree, `WriteFile` is an update of the abstract store because of `CopyIsCurrent`,
  and every other step leaves the contents alone.

* `RunClaim_proofs!HeldClaimsHaveOwners`: `Spec => []HeldClaimHasOwner` assuming `~PidReuse`
  only. With `TypeInv` and `ClaimKnown` it is its own inductive invariant: the release of
  an executor is guarded by its pid, and the release that fails goes to `pending`.
* `RunClaim_proofs!RunsOwnTheirJobs`, `!LiveClaimsStay`: `Spec => RunOwnsItsJob` and
  `Spec => LiveClaimClearedOnlyByHolder`, assuming `OwnProcesses` and `~PidReuse`. Both go by
  the writes of a job: whoever writes one that carries the pid of a live process is of
  that process, or is an executor without the handler. They follow from `Safe`.
* `RunClaim_proofs!VerdictsStand`: `Spec => VerdictChangesOnlyByCommand`, with no assumption.
  A write is guarded by the status it has read (`StagesEarned`), which no terminal status
  matches; the one exception is the write of `ignored`, which the property names.
* `WatchLoop_proofs!TypeCorrect`, `!NoLogPassedBy`, `!PassIsApart`: `Spec => []TypeOK`,
  `[]LogsBehindCursorHaveJobs` and `[]PassLeavesScannedJobs`, with no assumption. The
  invariant says of every cursor, in the file or in a watcher, that its logs are covered
  up to `kept`, and of every round that a log of its range is covered, or still to do or in
  hand (`RoundSound`). A reorganisation lowers `kept` of every cursor and moves logs only
  above it, which is why two watchers that overlap do no harm.
* `ExecutorServer_proofs!TypeCorrect`, `!HandlerRunsOnce`, `!RecordsAreTruthful`,
  `!SignalsAreBroadcastOnce`, `!OutcomesNeverErased`: the five invariants of `ExecutorServer`,
  with no assumption. The invariant `Sound` ties the job of a dispatch to the one request
  that processes it: the records it has made are in order and booked against the counts of
  the endpoint, the next callback starts where the records end, and nothing is at the
  endpoint that no record or attempt accounts for. A verdict hands exactly those records to
  the job. `PlatformSound` does the same for the platform: a signal with its default key was
  broadcast once if its key is known and never otherwise, and every signal the endpoint
  took has its key there. The latter outlives a restart, the former job does not have to.
* `ProductFlow_proofs!TypeCorrect`, `!SignaturesAreNamed`, `!VerdictsAreNotOverturned`:
  `Spec => []TypeOK`, `[]SignsOnlyWhatWasNamed`, `[]ServerVerdictStands`, with no assumption.
  `SoundCommand` says what each stage of `submit` has compared; issued submissions are never
  changed, so that a comparison made before an await still holds after it.
* `ScanCursor_proofs!TypeCorrect`, `!NoFalseReorgEver`: `Spec => []TypeOK` and `Spec =>
  []NoFalseReorg`, in every deployment. `TypeInv` adds to the types what the anchors of a
  cursor are (at most one per height, none above the cursor, at most `ReorgWindow`), and what a
  chain that was never reorganised implies: hash and anchors are those of the chain.
  `StartInv`, a layer of its own, places `start`: at `fromBlock` where that is configured,
  never below the floor of a rescan.
* `ScanCursor_proofs!NoBlockHidden`, `!AnchorsAreAncestors`: `Spec => []CursorHidesNoBlock` and
  `Spec => []AnchorsAreCommonAncestors`, assuming `SafeDeployments`. The second layer `Sound` of
  the invariant rests on one idea: a remembered hash `Vouches` for the blocks up to it at
  whatever height it is canonical, and as no hash is used twice a chain that changes
  cannot make it say more than it did. What is left is a cursor without a hash. Nothing
  exposes it, so it must be true outright and nothing below it may still be replaced
  (`HashlessFile`, `HashlessMem`), unless its round is bound to scan again before it can end.
  That is what `SafeDeployments` guarantees, and for each of its five conditions TLC finds a lost block where it is
  dropped (section 5): they are the limits of the code, not of the proof.

* `SignalRun_proofs!TypeCorrect`, `!DeadLettersAreFinal`, `!UnknownOutcomesStayOpen`:
  `Spec => []TypeOK`, `Spec => DeadLetterIsFinal` and `Spec => UnknownOutcomeStaysOpen`, in every
  deployment. Beside the types the invariant says what a stage has earned (`RunSound`): a run in
  flight holds its job `matched`; the hash it waits for is that of its signal; each call of the
  context lane that is over has left a record; an error `reverted` stands on a revert that
  is on record. The last is why `statusForTerminalError` may close over an open broadcast.
* `SignalRun_proofs!ConfirmedIsDelivered`: `Spec => ConfirmedMeansDelivered`, assuming
  `OneHandler`: each deployment has one plan, and the context lane names one signal. Every
  step is summed up by `Advances`: transactions keep signal and verdict, and each new
  record is about the signal at hand or settles an old one (`Fresh`). Hence `EvidenceInv`:
  a record is about the signal of its position, its transaction is of that signal, and evidence
  without a reorganisation means the chain has it. Evidence at every index is then
  delivery of every signal. Evidence by position carries no more than that: with two plans,
  or two signals in the context lane whose indexes shift, TLC finds a confirmed job with a
  signal that is not on chain (section 5).
* `SignalRun_proofs!NothingResentBlindly`: `Spec => NoBlindRebroadcast`, assuming `OneHandler` and
  `DistinctSignals` (no signal in two places of the plan, no `reorg`). The invariant adds that
  a cooled job has no recorded broadcast pending within its backoff (`CooledInv`), and that a
  run about to send has none of its signal (`GuardInv`): it has been through `BacksOff`,
  or through the lookup of the context lane. The assumptions are needed: a handler that
  returns a signal twice sends it twice, and after two reorganisations a broadcast
  that was settled is pending again on a job that has cooled; TLC finds both. With at
  most one reorganisation the property is checked by `SignalRun_lanes`.

* `WatcherLock_proofs!TypeCorrect`, `!LocksAreKept`: `Spec => []TypeOK` and `Spec =>
  LockLostOnlyToStaleTakeover`, for any number of process starts, whatever crashes or fails.
  The invariant `LockInv` has two parts. `FileSound`: the file carries the pid of its maker
  or none, and none only while the maker has yet to write it or is over. `JudgedTheDead`:
  whoever is about to take a lock over has tested a file whose maker is over for good.
  While every maker has its lock, a removal that takes one away is then the removal of
  another file than the one that was tested, or its maker would be over; every other step
  changes only a lock of its own or an absent one. `Moves` sums up the steps of a
  process for this.

Where `TypeOK` is proved, it follows from an invariant `TypeInv` that is inductive and
stronger: it gives every record its full type and says at which stage a field is in use.

Every invariant and action property that a passing run checks is stated by a theorem,
some of them under the assumptions named above. Only model-checked: liveness, which is out of
the prover's reach (`StrandedRunIsTakenOver`, `StuckReleaseClears`, `EverySignalSettles`,
`FinalizedIsScanned`, `FinalLogsSettle`, `AcceptedIsSettled`, the takeover properties of
the two locks, the fairness of the two refinements).

## 5. Where code and documents disagree

Two disagreements have a run that finds them and an entry under `findings` that quotes
the document:

* `ScanCursor_deep`: a reorganisation deeper than the window falls back to a rescan from
  the floor, but the decision is half in memory and half in a local variable. A round
  that fails in between forgets it, and the cursor goes on past unscanned blocks.
* `WatcherLock_drain`: `stop()` resolves `done` without waiting for the round in flight, so
  `chain-watch` releases its lock while it still scans and writes.

The models also reach the following with other constants. Most are listed under `hazards`
with the line and the reason why no property covers them yet; they are the first
candidates for runs of their own.

* Claims: a late release, guarded by the pid only, removes the claim of another executor
  of the same process; a restart under the pid of the crashed process takes the
  stranded claim for a run in flight; the write of `ignored` has no guard, so an executor
  without the handler closes a job that another one runs (the properties of `RunClaim`
  name this exception: `ClosedUnhandled`).
* Evidence: it is kept by position, so that a handler whose list changes has one signal
  covered by the evidence of another; a context index may name two signals; a settlement
  is recorded again by later rechecks; a retry of a confirmed job that crashes forgets
  that it must resubmit.
* Unknown outcomes: an observed revert closes a job with another broadcast pending; the
  revert of an own rebroadcast dead-letters a job whose signal is on chain; dead-letter
  after a crash does not see a broadcast without a record.
* Watch loop: the pass over open jobs goes by the block stored with a job. A log that a
  reorganisation moved into the range of the round keeps its old block in the store, so
  the scan and the pass both take the job in one round, which the comment at
  `watcher.ts:1351` excludes. `PassLeavesScannedJobs` names this exception; the claim and
  the recheck of broadcasts keep the second run harmless.
* State files: a reader outside the lock that has read damaged bytes moves the file aside
  by name, be it the good one a writer has put there since (`file.ts:175`).
* Doctor: a refusal (`canSubmit: false`) with an empty `blockedReason` counts as no verdict,
  so the local clock decides (`doctor.ts:308`), against the comment at `doctor.ts:284`;
  `ServerVerdictStands` leaves this case out. The text at `doctor.ts:320` says that no
  verdict was provided also when the service said yes for another wallet.
* Scan: the correction of an overshooting cursor is lost when its round fails. After a
  restart with no confirmations every cursor that has caught up counts as overshooting
  (`watcher.ts:322` compares the next block with the head), so that any failing round
  drops its hash, and a reorganisation at that time goes unseen. If the chain shrank so
  far that the floor is not final any more, a rescan from the floor ends its round with the
  hash dropped and the old next block kept (`watcher.ts:1315-1323`, `348`). A hash
  read after the logs vouches for a block never scanned, if the finality buffer does not
  keep the chain still; and one that cannot be read leaves a cursor without a hash, which
  a reorganisation deeper than the window passes unseen.
* First round: without a configured `fromBlock` (the default of the command line,
  `cli/watcher.ts:181`) a first round that fails leaves no position, and the next begins
  at the finalized head of its own time (`watcher.ts:320`): the logs in between are never
  scanned. The properties of `ScanCursor` count from the first cursor that is saved.
* Locks: two of three callers break the same stale marker, or a holder is slower than the
  stale age, and an update is lost. With `watcher.lock` three starts are enough, and no
  fault: one reads the pid of a command, which ends and releases; another makes a lock of
  its own; the first finds the pid dead and removes that one, since a removal names no
  file. A restarted process is such a start. `LockLostOnlyToStaleTakeover` says that there is
  no other way to lose the lock.
* Idempotency keys: a configured `idempotencyKey` is a constant (`server.ts:199`), so that
  two orders send their signals under one key and the second is swallowed;
  `SignalBroadcastOnce` leaves such signals out. The default key (`server.ts:200`) names no
  plan, where that of the watcher does (`signal/build.ts:204`); the model has one plan.

## 6. Not modelled

* ABI encoding and log decoding, configuration parsing, output, wallet: pure functions or
  plain I/O. They enter as equalities of signals and as the handlers' plans.
* The read-only commands of the product client, evidence hashing and the shape checks of
  its parsers: one request or one function each, nothing to come between. That the order
  in an envelope is the order in its typed data is left to the service, by the code too.
* The checks of doctor other than task readiness: single requests.
* Reads outside the jobs-file lock that race with a quarantine (section 5); the quarantine
  itself is a step of `WatchLoop`.
* The tables of `errors.ts`: `SignalRun` takes the classes.
* The length of delays, the failure backoff of `start` included: a delay either has
  elapsed or has not.
* Webhook signatures and the replay guard of `server.ts`: checks for the receiver of
  callbacks, who is not part of the kit.
* A job store of the embedder's own for the server: the model is the in-memory store. With
  one whose `update` throws, the catch at `server.ts:381` writes `callback_failed`
  without the callbacks. A handler that is not built from the configuration is taken to
  key its signals as the configured ones do.

## 7. Plan

Done: the components of section 2, the two refinements, and the theorems of section 4.
Next, in this order:

1. The observations of section 5 that have no run, as properties with a run that shows
   the sequence that breaks each.
2. Several state machines in one watcher.
