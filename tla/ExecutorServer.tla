--------------------------- MODULE ExecutorServer ---------------------------
(***************************************************************************)
(* The webhook executor of server.ts: dispatch requests that arrive        *)
(* together, the job each accepted one opens, its handler, and the         *)
(* callbacks that carry the handler's signals to the endpoint of the        *)
(* dispatcher, one after the other and each with retries of its own.        *)
(*                                                                         *)
(* Requests refused before they reach the job store (authorization, body,  *)
(* unknown handler, callback host) change nothing and are left out.  The   *)
(* store is the in-memory one: a restarted server has no jobs, and the     *)
(* dispatcher may send again what it was not told about.  One effect may   *)
(* come under several ids (a HookReady that is emitted again), and several *)
(* hooks of an order may ask for one signal.                               *)
(***************************************************************************)
EXTENDS Naturals, Sequences

CONSTANTS Requests,       \* the requests that may be in progress
          Ids,            \* the dispatch ids they may carry
          NoId,
          NoOrder,
          effectOf,       \* the order and the hook each id dispatches
          handlers,       \* per hook the signals its handler lists: the source
                          \* and name as one, and the key configured for it
          NoKey,          \* no key is configured
          SignalBound,    \* most signals one handler returns
          MaxAttempts,    \* callbackMaxAttempts
          RestartBound    \* model bound on restarts

ASSUME Bounds ==
  /\ {SignalBound, RestartBound} \subseteq Nat
  /\ MaxAttempts \in Nat \ {0}
  /\ NoId \notin Ids
  /\ DOMAIN effectOf = Ids
  /\ \A id \in Ids : /\ effectOf[id].order # NoOrder
                      /\ effectOf[id].hook \in DOMAIN handlers
  /\ \A hook \in DOMAIN handlers : DOMAIN handlers[hook] = 1 .. SignalBound

VARIABLES jobs,           \* the job store: status and callbacks per id
          worker,         \* what the server is doing for each request
          endpoint,       \* how often the endpoint took each signal of a job,
                          \* and how often its answer was a success
          platform,       \* behind the endpoint: the keys it knows, and how
                          \* often it broadcast each signal
          restarts

vars == <<jobs, worker, endpoint, platform, restarts>>

Statuses == {"none", "accepted", "callback_succeeded", "callback_failed",
             "handler_failed"}

Delivery == [delivered : BOOLEAN, attempts : 1 .. MaxAttempts]

NoJob == [status |-> "none", callbacks |-> <<>>]

Untouched == [taken |-> 0, acks |-> 0]

NothingTaken == [i \in 1 .. SignalBound |-> Untouched]

\* What the handler of a dispatch lists at a position.
Listed(id, i) == handlers[effectOf[id].hook][i]

\* A signal of an order, as the chain knows it.
SignalOf(id, i) == [order |-> effectOf[id].order, signal |-> Listed(id, i).signal]

LogicalSignals == {SignalOf(id, i) : id \in Ids, i \in 1 .. SignalBound}

Idle == [pc |-> "idle", id |-> NoId, signals |-> 0, attempt |-> 1,
         deliveries |-> <<>>]

Init ==
  /\ jobs = [id \in Ids |-> NoJob]
  /\ worker = [r \in Requests |-> Idle]
  /\ endpoint = [id \in Ids |-> NothingTaken]
  /\ platform = [keys |-> {}, broadcasts |-> [s \in LogicalSignals |-> 0]]
  /\ restarts = 0

At(r, pc) == worker[r].pc = pc

(***************************************************************************)
(* routeExecutorRequest.  Reading the body yields to other requests; the   *)
(* store's create does not: it tests and sets in one turn.                  *)
(***************************************************************************)
Arrive(r, id) ==
  /\ At(r, "idle")
  /\ worker' = [worker EXCEPT ![r] = [Idle EXCEPT !.pc = "create", !.id = id]]
  /\ UNCHANGED <<jobs, endpoint, platform, restarts>>

\* Bug: the existing job is overwritten.
AlwaysFree(id) == TRUE
\* The test of InMemoryExecutorJobStore.create.
IsFree(id) == jobs[id].status = "none"

\* 202: the job is open and its processing queued.
Accept(r) ==
  /\ At(r, "create")
  /\ IsFree(worker[r].id)
  /\ jobs' = [jobs EXCEPT ![worker[r].id] = [NoJob EXCEPT !.status = "accepted"]]
  /\ worker' = [worker EXCEPT ![r].pc = "queued"]
  /\ endpoint' = [endpoint EXCEPT ![worker[r].id] = NothingTaken]
  /\ UNCHANGED <<platform, restarts>>

\* 409: another request opened the job.
Refuse(r) ==
  /\ At(r, "create")
  /\ ~IsFree(worker[r].id)
  /\ worker' = [worker EXCEPT ![r] = Idle]
  /\ UNCHANGED <<jobs, endpoint, platform, restarts>>

(***************************************************************************)
(* processDispatch                                                         *)
(***************************************************************************)
\* Bugs of the verdict: it is not written; its record is written only for a
\* success.
ConcludeUnrecorded(r, status, callbacks) ==
  /\ worker' = [worker EXCEPT ![r].pc = "done"]
  /\ UNCHANGED jobs
ConcludeErasing(r, status, callbacks) ==
  /\ jobs' = [jobs EXCEPT
       ![worker[r].id].status = status,
       ![worker[r].id].callbacks = IF status = "callback_succeeded" THEN callbacks ELSE @]
  /\ worker' = [worker EXCEPT ![r].pc = "done"]

Conclude(r, status, callbacks) ==
  /\ jobs' = [jobs EXCEPT
       ![worker[r].id].status = status,
       ![worker[r].id].callbacks = IF callbacks = <<>> THEN @ ELSE callbacks]
  /\ worker' = [worker EXCEPT ![r].pc = "done"]

StartHandler(r) ==
  /\ At(r, "queued")
  /\ worker' = [worker EXCEPT ![r].pc = "handler"]
  /\ UNCHANGED <<jobs, endpoint, platform, restarts>>

HandlerReturns(r, signals) ==
  /\ At(r, "handler")
  /\ worker' = [worker EXCEPT ![r].pc = "deliver", ![r].signals = signals]
  /\ UNCHANGED <<jobs, endpoint, platform, restarts>>

\* The handler answers with a failure, or throws.
HandlerFails(r) ==
  /\ At(r, "handler")
  /\ \E status \in {"handler_failed", "callback_failed"} : Conclude(r, status, <<>>)
  /\ UNCHANGED <<endpoint, platform, restarts>>

Current(r) == Len(worker[r].deliveries) + 1

(***************************************************************************)
(* deliverSignalCallback and postSignalCallback: one attempt.  The endpoint *)
(* may take the signal although the answer is lost or is an error.          *)
(***************************************************************************)
\* Bug: a key per dispatch, not per logical signal.
KeyOfDispatch(id, i) == [order |-> id, name |-> Listed(id, i).signal]
\* The key configured for the signal, else one of the order, the source and the
\* name.  A handler of one's own is taken to key its signals likewise.
IdempotencyKey(id, i) ==
  IF Listed(id, i).key # NoKey
  THEN [order |-> NoOrder, name |-> Listed(id, i).key]
  ELSE [order |-> effectOf[id].order, name |-> Listed(id, i).signal]

\* The platform broadcasts what comes under a key it does not know.
Submitted(id, i) ==
  IF IdempotencyKey(id, i) \in platform.keys THEN platform
  ELSE [platform EXCEPT !.keys = @ \cup {IdempotencyKey(id, i)},
                        !.broadcasts[SignalOf(id, i)] = @ + 1]

Outcomes == [taken : BOOLEAN, ok : BOOLEAN]

TakenOnceMore(entry, ok) ==
  [taken |-> entry.taken + 1, acks |-> IF ok THEN entry.acks + 1 ELSE entry.acks]

Recorded(r, delivered) ==
  [worker[r] EXCEPT !.attempt = 1,
     !.deliveries = Append(@, [delivered |-> delivered, attempts |-> worker[r].attempt])]

\* Bug: retries without end.
RetriedWithoutBound(r) == [worker[r] EXCEPT !.attempt = @ + 1]
AfterFailure(r) ==
  IF worker[r].attempt < MaxAttempts
  THEN [worker[r] EXCEPT !.attempt = @ + 1]
  ELSE Recorded(r, FALSE)

Post(r) ==
  /\ At(r, "deliver")
  /\ Current(r) <= worker[r].signals
  /\ \E outcome \in Outcomes :
       /\ outcome.ok => outcome.taken
       /\ IF outcome.taken
          THEN /\ endpoint' = [endpoint EXCEPT ![worker[r].id][Current(r)] =
                                               TakenOnceMore(@, outcome.ok)]
               /\ platform' = Submitted(worker[r].id, Current(r))
          ELSE UNCHANGED <<endpoint, platform>>
       /\ worker' = [worker EXCEPT ![r] = IF outcome.ok THEN Recorded(r, TRUE)
                                                        ELSE AfterFailure(r)]
  /\ UNCHANGED <<jobs, restarts>>

\* Bug: one delivered signal makes the dispatch a success.
AnyDelivered(deliveries) ==
  deliveries = <<>> \/ \E i \in DOMAIN deliveries : deliveries[i].delivered
AllDelivered(deliveries) == \A i \in DOMAIN deliveries : deliveries[i].delivered

Finish(r) ==
  /\ At(r, "deliver")
  /\ Current(r) > worker[r].signals
  /\ Conclude(r, IF AllDelivered(worker[r].deliveries)
                 THEN "callback_succeeded" ELSE "callback_failed",
              worker[r].deliveries)
  /\ UNCHANGED <<endpoint, platform, restarts>>

\* The process ends, with everything it had in memory.
Restart ==
  /\ restarts < RestartBound
  /\ jobs' = [id \in Ids |-> NoJob]
  /\ worker' = [r \in Requests |-> Idle]
  /\ restarts' = restarts + 1
  /\ UNCHANGED <<endpoint, platform>>

Work(r) ==
  \/ Accept(r)
  \/ Refuse(r)
  \/ StartHandler(r)
  \/ \E signals \in 0 .. SignalBound : HandlerReturns(r, signals)
  \/ HandlerFails(r)
  \/ Post(r)
  \/ Finish(r)

Next ==
  \/ \E r \in Requests : Work(r) \/ \E id \in Ids : Arrive(r, id)
  \/ Restart

Spec == Init /\ [][Next]_vars

\* The event loop gets to every request; a handler and a post end in some way.
FairSpec == Spec /\ \A r \in Requests : WF_vars(Work(r))

-----------------------------------------------------------------------------
TypeOK ==
  /\ jobs \in [Ids -> [status : Statuses, callbacks : Seq(Delivery)]]
  /\ worker \in [Requests ->
       [pc : {"idle", "create", "queued", "handler", "deliver", "done"},
        id : Ids \cup {NoId}, signals : 0 .. SignalBound,
        attempt : 1 .. MaxAttempts, deliveries : Seq(Delivery)]]
  /\ endpoint \in [Ids -> [1 .. SignalBound -> [taken : Nat, acks : Nat]]]
  /\ platform \in
       [keys : SUBSET {IdempotencyKey(id, i) : id \in Ids, i \in 1 .. SignalBound},
        broadcasts : [LogicalSignals -> Nat]]
  /\ restarts \in 0 .. RestartBound

Accepted(r) == worker[r].pc \in {"queued", "handler", "deliver", "done"}

\* Of the requests with one dispatch id, however they interleave, one is
\* processed: its handler never runs twice (the 409 of routeExecutorRequest).
DispatchRunsOnce ==
  \A r, s \in Requests :
    Accepted(r) /\ Accepted(s) /\ worker[r].id = worker[s].id => r = s

\* "recorded truthfully" (processDispatch): a delivery recorded as made was
\* taken by the endpoint, the endpoint never took a signal more often than its
\* record says it was sent, and the job counts as a success only if the endpoint
\* has each of its signals.
DeliveryRecordIsTruthful ==
  /\ \A id \in Ids : \A i \in DOMAIN jobs[id].callbacks :
       /\ jobs[id].callbacks[i].delivered => endpoint[id][i].taken > 0
       /\ endpoint[id][i].taken <= jobs[id].callbacks[i].attempts
  /\ \A r \in Requests :
       At(r, "done") /\ jobs[worker[r].id].status = "callback_succeeded" =>
         \A i \in 1 .. worker[r].signals : endpoint[worker[r].id][i].taken > 0

KeyedByDefault(s) ==
  \A id \in Ids, i \in 1 .. SignalBound : SignalOf(id, i) = s => Listed(id, i).key = NoKey

\* "a fresh key per event anchor turns a re-emitted HookReady into a
\* guaranteed-reverting duplicate broadcast" (createHandlersFromExecutorConfig):
\* with its default key a signal is broadcast at most once, whatever is retried,
\* dispatched again after a restart, emitted again or asked for by another hook;
\* and exactly once if a job says that it was delivered.  A key that is too fine
\* breaks the first part, one that is too coarse the second.
SignalBroadcastOnce ==
  /\ \A s \in LogicalSignals : KeyedByDefault(s) => platform.broadcasts[s] <= 1
  /\ \A id \in Ids : \A i \in DOMAIN jobs[id].callbacks :
       jobs[id].callbacks[i].delivered /\ KeyedByDefault(SignalOf(id, i)) =>
         platform.broadcasts[SignalOf(id, i)] = 1

Settled(id) == jobs[id].status \notin {"none", "accepted"}

\* "a partial failure must never erase the fact that earlier signals were
\* delivered" (processDispatch): the job of a settled dispatch, failed or not,
\* has an entry for every signal the endpoint took, and the entry says delivered
\* exactly if the endpoint answered well.  It did so once at most: such a signal
\* is not sent again for the sake of a later one.
OutcomesStand ==
  \A id \in Ids : \A i \in 1 .. SignalBound :
    /\ endpoint[id][i].acks <= 1
    /\ Settled(id) => /\ endpoint[id][i].taken > 0 => i \in DOMAIN jobs[id].callbacks
                      /\ i \in DOMAIN jobs[id].callbacks =>
                           (jobs[id].callbacks[i].delivered <=> endpoint[id][i].acks = 1)

\* Whatever the endpoint answers, an accepted dispatch gets its verdict, unless
\* the server is restarted first.
AcceptedIsSettled ==
  \A id \in Ids : jobs[id].status = "accepted" ~> jobs[id].status # "accepted"
=============================================================================
