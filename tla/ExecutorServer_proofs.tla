------------------------ MODULE ExecutorServer_proofs ------------------------
(***************************************************************************)
(* Proofs about ExecutorServer, for every set of requests and dispatch     *)
(* ids, every number of signals, attempts and restarts.                    *)
(***************************************************************************)
EXTENDS ExecutorServer, SequenceTheorems, TLAPS

USE Bounds

-----------------------------------------------------------------------------
(***************************************************************************)
(* The inductive invariant.                                                *)
(***************************************************************************)
StoredJobs == [status : Statuses, callbacks : Seq(Delivery)]

Workers ==
  [pc : {"idle", "create", "queued", "handler", "deliver", "done"},
   id : Ids \cup {NoId}, signals : 0 .. SignalBound,
   attempt : 1 .. MaxAttempts, deliveries : Seq(Delivery)]

Counts == [1 .. SignalBound -> [taken : Nat, acks : Nat]]

Platforms ==
  [keys : SUBSET {IdempotencyKey(id, i) : id \in Ids, i \in 1 .. SignalBound},
   broadcasts : [LogicalSignals -> Nat]]

OpenedJob == [NoJob EXCEPT !.status = "accepted"]

\* What is recorded of the first signals agrees with what the endpoint did.
Truthful(list, seen) ==
  \A i \in DOMAIN list :
    /\ i \in 1 .. SignalBound
    /\ list[i].delivered => seen[i].taken > 0
    /\ seen[i].taken <= list[i].attempts
    /\ seen[i].acks = IF list[i].delivered THEN 1 ELSE 0

\* A verdict leaves out no signal the endpoint has seen.
Complete(rec, seen) ==
  rec.status \notin {"none", "accepted"} =>
    \A i \in 1 .. SignalBound : i \notin DOMAIN rec.callbacks => seen[i] = Untouched

\* What is known of a dispatch, whoever works on it.
Booked(rec, seen) ==
  /\ Truthful(rec.callbacks, seen)
  /\ Complete(rec, seen)
  /\ \A i \in 1 .. SignalBound : seen[i].acks <= 1

\* The signals are sent in order: the endpoint took the current one at most once
\* per failed attempt and answered none well, and it saw none of the later ones.
InOrder(w) ==
  /\ Len(w.deliveries) <= w.signals
  /\ Len(w.deliveries) = w.signals => w.attempt = 1
  /\ Truthful(w.deliveries, endpoint[w.id])
  /\ \A i \in 1 .. SignalBound :
       /\ i = Len(w.deliveries) + 1 =>
            endpoint[w.id][i].taken < w.attempt /\ endpoint[w.id][i].acks = 0
       /\ i > Len(w.deliveries) + 1 => endpoint[w.id][i] = Untouched

\* Until its deliveries begin a request has nothing to report; from its
\* acceptance to its verdict the job is open for it.
WorkerSound(w) ==
  /\ w.pc # "idle" => w.id \in Ids
  /\ w.pc \in {"idle", "create", "queued", "handler"} =>
       w.deliveries = <<>> /\ w.attempt = 1
  /\ w.pc \in {"queued", "handler", "deliver"} => jobs[w.id] = OpenedJob
  /\ w.pc \in {"queued", "handler"} => endpoint[w.id] = NothingTaken
  /\ w.pc = "deliver" => InOrder(w)
  /\ w.pc = "done" =>
       /\ jobs[w.id].status # "none"
       /\ jobs[w.id].status = "callback_succeeded" =>
            \A i \in 1 .. w.signals : endpoint[w.id][i].taken > 0

TypeInv ==
  /\ jobs \in [Ids -> StoredJobs]
  /\ worker \in [Requests -> Workers]
  /\ endpoint \in [Ids -> Counts]
  /\ platform \in Platforms
  /\ restarts \in 0 .. RestartBound

\* The platform knows the key of whatever the endpoint took, and has broadcast a
\* signal with its default key once if it knows the key, and not otherwise.
PlatformSound ==
  \A id \in Ids, i \in 1 .. SignalBound :
    /\ endpoint[id][i].taken > 0 => IdempotencyKey(id, i) \in platform.keys
    /\ KeyedByDefault(SignalOf(id, i)) =>
         platform.broadcasts[SignalOf(id, i)] =
           IF IdempotencyKey(id, i) \in platform.keys THEN 1 ELSE 0

Sound ==
  /\ \A r \in Requests : WorkerSound(worker[r])
  /\ \A id \in Ids : Booked(jobs[id], endpoint[id])
  /\ DispatchRunsOnce

IInv == TypeInv /\ PlatformSound /\ Sound

\* The bounds, as the provers read them.
LEMMA BoundsMean ==
  /\ SignalBound \in Nat /\ RestartBound \in Nat
  /\ MaxAttempts \in Nat /\ MaxAttempts >= 1
  /\ NoId \notin Ids
BY DEF Bounds

\* The records the server starts from.
LEMMA StartTypes ==
  /\ NoJob \in StoredJobs /\ NoJob.status = "none" /\ NoJob.callbacks = <<>>
  /\ OpenedJob \in StoredJobs
  /\ OpenedJob.status = "accepted" /\ OpenedJob.callbacks = <<>>
  /\ NothingTaken \in Counts
  /\ \A i \in 1 .. SignalBound : NothingTaken[i] = Untouched
  /\ Untouched.taken = 0 /\ Untouched.acks = 0
  /\ Idle \in Workers /\ Idle.pc = "idle" /\ Idle.deliveries = <<>>
  /\ Idle.attempt = 1
<1> USE BoundsMean
<1>1. <<>> \in Seq(Delivery)
  OBVIOUS
<1>2. NoJob \in StoredJobs /\ NoJob.status = "none" /\ NoJob.callbacks = <<>>
  BY <1>1 DEF NoJob, StoredJobs, Statuses
<1>3. /\ OpenedJob \in StoredJobs
      /\ OpenedJob.status = "accepted" /\ OpenedJob.callbacks = <<>>
  BY <1>1 DEF OpenedJob, NoJob, StoredJobs, Statuses
<1>4. /\ NothingTaken \in Counts /\ Untouched.taken = 0 /\ Untouched.acks = 0
      /\ \A i \in 1 .. SignalBound : NothingTaken[i] = Untouched
  BY DEF NothingTaken, Untouched, Counts
<1>5. /\ Idle \in Workers /\ Idle.pc = "idle" /\ Idle.deliveries = <<>>
      /\ Idle.attempt = 1
  <2>1. 1 \in 1 .. MaxAttempts /\ 0 \in 0 .. SignalBound
    OBVIOUS
  <2> QED BY <1>1, <2>1 DEF Idle, Workers
<1> QED BY <1>2, <1>3, <1>4, <1>5

\* A request that is not in progress is sound, whatever the store holds.
LEMMA IdleSound ==
  ASSUME NEW w \in Workers, w.pc \in {"idle", "create"}, w.pc = "create" => w.id \in Ids,
         w.deliveries = <<>>, w.attempt = 1
  PROVE  WorkerSound(w)
BY DEF WorkerSound

\* An empty list of callbacks is truthful.
LEMMA NothingRecorded == \A taken : Truthful(<<>>, taken)
BY DEF Truthful

\* A dispatch of which the endpoint has seen nothing, with no callbacks.
LEMMA NothingBooked ==
  ASSUME NEW rec, rec.callbacks = <<>>
  PROVE  Booked(rec, NothingTaken)
BY StartTypes, NothingRecorded DEF Booked, Complete

\* Before the first request nobody works and nothing is recorded.
LEMMA InitSound == Init => IInv
<1> SUFFICES ASSUME Init PROVE IInv
  OBVIOUS
<1>1. TypeInv
  <2>1. platform \in Platforms
    BY DEF Init, Platforms
  <2> QED BY <2>1, StartTypes, BoundsMean DEF Init, TypeInv
<1>2. \A r \in Requests : WorkerSound(worker[r])
  <2>1. WorkerSound(Idle)
    BY StartTypes, IdleSound
  <2> QED BY <2>1 DEF Init
<1>3. \A id \in Ids : Booked(jobs[id], endpoint[id])
  BY StartTypes, NothingBooked DEF Init
<1>4. DispatchRunsOnce
  BY StartTypes DEF Init, DispatchRunsOnce, Accepted
<1>5. PlatformSound
  <2>1. \A id \in Ids, i \in 1 .. SignalBound :
          /\ endpoint[id][i].taken = 0
          /\ IdempotencyKey(id, i) \notin platform.keys
          /\ platform.broadcasts[SignalOf(id, i)] = 0
    BY StartTypes DEF Init, LogicalSignals
  <2> QED BY <2>1 DEF PlatformSound
<1> QED BY <1>1, <1>2, <1>3, <1>4, <1>5 DEF IInv, Sound

AcceptedStages == {"queued", "handler", "deliver", "done"}

\* No other accepted request has this dispatch id.
AloneOn(r, id) == \A s \in Requests : s # r /\ Accepted(s) => worker[s].id # id

\* The step touches the job and the endpoint of one dispatch only.
TouchesOnly(id) ==
  /\ jobs' \in [Ids -> StoredJobs] /\ endpoint' \in [Ids -> Counts]
  /\ restarts' = restarts /\ platform' \in Platforms
  /\ \A k \in Ids : k # id => jobs'[k] = jobs[k] /\ endpoint'[k] = endpoint[k]

\* One request works on one dispatch: if no other accepted request has its id,
\* what the step leaves of that request and that job decides.
LEMMA OneWorks ==
  ASSUME IInv, NEW r \in Requests, NEW w \in Workers,
         worker' = [worker EXCEPT ![r] = w], NEW id \in Ids, w.id = id,
         AloneOn(r, id), TouchesOnly(id), PlatformSound',
         WorkerSound(w)', Booked(jobs[id], endpoint[id])'
  PROVE  IInv'
<1> USE DEF IInv, AloneOn, TouchesOnly
<1>1. TypeInv'
  BY DEF TypeInv
<1>2. worker'[r] = w /\ \A s \in Requests : s # r => worker'[s] = worker[s]
  BY DEF TypeInv
<1>3. ASSUME NEW s \in Requests, s # r PROVE WorkerSound(worker[s])'
  <2>1. PICK v \in Workers : v = worker[s]
    BY DEF TypeInv
  <2>2. WorkerSound(v) /\ worker'[s] = v
    BY <1>2, <1>3, <2>1 DEF Sound
  <2>3. v.pc \in AcceptedStages => v.id # id
    BY <1>3, <2>1 DEF Accepted, AcceptedStages
  <2>4. v.pc \in AcceptedStages => /\ v.id \in Ids
                                   /\ jobs'[v.id] = jobs[v.id]
                                   /\ endpoint'[v.id] = endpoint[v.id]
    BY <2>2, <2>3 DEF WorkerSound, AcceptedStages
  <2>5. WorkerSound(v)'
    <3>1. InOrder(v) /\ v.pc = "deliver" => InOrder(v)'
      BY <2>4 DEF InOrder, AcceptedStages
    <3> QED BY <2>2, <2>4, <3>1 DEF WorkerSound, AcceptedStages
  <2> QED BY <2>2, <2>5 DEF WorkerSound, InOrder
<1>4. WorkerSound(worker[r])'
  BY <1>2 DEF WorkerSound, InOrder
<1>5. ASSUME NEW k \in Ids PROVE Booked(jobs[k], endpoint[k])'
  <2>1. CASE k # id
    <3>1. Booked(jobs[k], endpoint[k]) /\ jobs'[k] = jobs[k] /\ endpoint'[k] = endpoint[k]
      BY <2>1 DEF Sound
    <3> QED BY <3>1
  <2> QED BY <2>1
<1>6. DispatchRunsOnce'
  BY <1>2 DEF Sound, DispatchRunsOnce, Accepted
<1> QED BY <1>1, <1>3, <1>4, <1>5, <1>6 DEF Sound

\* A request that is at none of the stages behind the acceptance changes nothing.
LEMMA NobodyWorks ==
  ASSUME IInv, NEW r \in Requests, NEW w \in Workers,
         worker' = [worker EXCEPT ![r] = w],
         UNCHANGED <<jobs, endpoint, platform, restarts>>,
         w.pc \in {"idle", "create"}, w.pc = "create" => w.id \in Ids,
         w.deliveries = <<>>, w.attempt = 1
  PROVE  IInv'
<1> USE DEF IInv
<1>1. TypeInv' /\ PlatformSound'
  BY DEF TypeInv, PlatformSound
<1>2. worker'[r] = w /\ \A s \in Requests : s # r => worker'[s] = worker[s]
  BY DEF TypeInv
<1>3. ASSUME NEW s \in Requests PROVE WorkerSound(worker[s])'
  <2>1. PICK v \in Workers : v = worker'[s]
    BY <1>1 DEF TypeInv
  <2>2. WorkerSound(v)
    BY <1>2, <2>1, IdleSound DEF Sound
  <2> QED BY <2>1, <2>2 DEF WorkerSound, InOrder
<1>4. \A id \in Ids : Booked(jobs[id], endpoint[id])'
  BY DEF Sound
<1>5. DispatchRunsOnce'
  BY <1>2 DEF Sound, DispatchRunsOnce, Accepted
<1> QED BY <1>1, <1>3, <1>4, <1>5 DEF Sound

\* The platform learns nothing, and the endpoint took nothing that it had not.
LEMMA PlatformQuiet ==
  ASSUME PlatformSound, platform' = platform,
         \A id \in Ids, i \in 1 .. SignalBound :
           endpoint'[id][i].taken > 0 => endpoint[id][i].taken > 0
  PROVE  PlatformSound'
BY DEF PlatformSound

\* Accepted requests have their job in the store.
LEMMA AcceptedHasJob ==
  ASSUME IInv, NEW s \in Requests, Accepted(s)
  PROVE  worker[s].id \in Ids /\ jobs[worker[s].id].status # "none"
BY StartTypes DEF IInv, Sound, WorkerSound, Accepted

\* Another request with the same id is not accepted.
LEMMA AloneOnDispatch ==
  ASSUME IInv, NEW r \in Requests, Accepted(r), NEW s \in Requests, s # r, Accepted(s)
  PROVE  worker[s].id # worker[r].id
BY DEF IInv, Sound, DispatchRunsOnce

-----------------------------------------------------------------------------
(***************************************************************************)
(* The steps.                                                              *)
(***************************************************************************)

\* A request arrives; it has no dispatch yet.
LEMMA ArriveSteps ==
  ASSUME IInv, NEW r \in Requests, NEW id \in Ids, Arrive(r, id)
  PROVE  IInv'
<1>1. PICK w : w = [Idle EXCEPT !.pc = "create", !.id = id]
  OBVIOUS
<1>2. /\ w \in Workers /\ w.pc = "create" /\ w.id = id
      /\ w.deliveries = <<>> /\ w.attempt = 1
  BY <1>1, StartTypes DEF Workers
<1> QED BY <1>1, <1>2, NobodyWorks DEF Arrive

\* A duplicate is answered and the request is done.
LEMMA RefuseSteps ==
  ASSUME IInv, NEW r \in Requests, Refuse(r)
  PROVE  IInv'
BY StartTypes, NobodyWorks DEF Refuse

\* The store's test makes the request the only one with its id.
LEMMA AcceptSteps ==
  ASSUME IInv, NEW r \in Requests, Accept(r)
  PROVE  IInv'
<1> USE DEF IInv
<1>1. PICK v \in Workers : v = worker[r] /\ v.pc = "create" /\ v.id \in Ids
  BY DEF TypeInv, Sound, WorkerSound, Accept, At
<1>2. PICK id \in Ids : id = v.id
  BY <1>1
<1>3. PICK w \in Workers : w = [v EXCEPT !.pc = "queued"]
  BY DEF Workers
<1>4. /\ w.pc = "queued" /\ w.id = id /\ w.deliveries = <<>> /\ w.attempt = 1
  <2>1. v.deliveries = <<>> /\ v.attempt = 1
    BY <1>1 DEF Sound, WorkerSound
  <2> QED BY <1>2, <1>3, <2>1 DEF Workers
<1>5. /\ worker' = [worker EXCEPT ![r] = w]
      /\ jobs' = [jobs EXCEPT ![id] = OpenedJob]
      /\ endpoint' = [endpoint EXCEPT ![id] = NothingTaken]
      /\ platform' = platform /\ restarts' = restarts /\ jobs[id].status = "none"
  BY <1>1, <1>2, <1>3 DEF Accept, IsFree, OpenedJob
<1>6. /\ jobs' \in [Ids -> StoredJobs] /\ endpoint' \in [Ids -> Counts]
      /\ jobs'[id] = OpenedJob /\ endpoint'[id] = NothingTaken
      /\ \A k \in Ids : k # id => jobs'[k] = jobs[k] /\ endpoint'[k] = endpoint[k]
  BY <1>5, StartTypes DEF TypeInv
<1>7. AloneOn(r, id)
  BY <1>5, AcceptedHasJob DEF AloneOn
<1>8. WorkerSound(w)'
  BY <1>4, <1>6 DEF WorkerSound
<1>9. Booked(jobs[id], endpoint[id])'
  BY <1>6, StartTypes, NothingBooked
<1>10. PlatformSound'
  <2>1. ASSUME NEW k \in Ids, NEW i \in 1 .. SignalBound, endpoint'[k][i].taken > 0
        PROVE  endpoint[k][i].taken > 0
    BY <1>6, <2>1, StartTypes
  <2> QED BY <1>5, <2>1, PlatformQuiet
<1>11. TouchesOnly(id)
  BY <1>5, <1>6 DEF TouchesOnly, TypeInv
<1> HIDE DEF IInv
<1> QED BY <1>4, <1>5, <1>7, <1>8, <1>9, <1>10, <1>11, OneWorks

\* The job and the endpoint wait while the handler works.
LEMMA HandlerSteps ==
  ASSUME IInv, NEW r \in Requests,
         StartHandler(r) \/ \E n \in 0 .. SignalBound : HandlerReturns(r, n)
  PROVE  IInv'
<1> USE DEF IInv
<1>1. PICK v \in Workers : v = worker[r] /\ v.pc \in {"queued", "handler"}
  BY DEF TypeInv, StartHandler, HandlerReturns, At
<1>2. /\ v.id \in Ids /\ v.deliveries = <<>> /\ v.attempt = 1
      /\ jobs[v.id] = OpenedJob /\ endpoint[v.id] = NothingTaken
  BY <1>1 DEF Sound, WorkerSound
<1>3. PICK w \in Workers :
        /\ worker' = [worker EXCEPT ![r] = w]
        /\ w.pc \in {"handler", "deliver"} /\ w.id = v.id
        /\ w.deliveries = <<>> /\ w.attempt = 1 /\ w.signals \in 0 .. SignalBound
  <2>1. CASE StartHandler(r)
    <3>1. PICK w \in Workers : w = [v EXCEPT !.pc = "handler"]
      BY DEF Workers
    <3>2. /\ w.pc = "handler" /\ w.id = v.id /\ w.signals \in 0 .. SignalBound
          /\ w.deliveries = v.deliveries /\ w.attempt = v.attempt
      BY <3>1 DEF Workers
    <3> QED BY <1>1, <1>2, <2>1, <3>1, <3>2 DEF StartHandler
  <2>2. ASSUME NEW n \in 0 .. SignalBound, HandlerReturns(r, n)
        PROVE  \E w \in Workers :
                 /\ worker' = [worker EXCEPT ![r] = w]
                 /\ w.pc \in {"handler", "deliver"} /\ w.id = v.id
                 /\ w.deliveries = <<>> /\ w.attempt = 1
                 /\ w.signals \in 0 .. SignalBound
    <3>1. PICK w \in Workers : w = [v EXCEPT !.pc = "deliver", !.signals = n]
      BY DEF Workers
    <3>2. /\ w.pc = "deliver" /\ w.id = v.id /\ w.signals = n
          /\ w.deliveries = v.deliveries /\ w.attempt = v.attempt
      BY <3>1 DEF Workers
    <3>3. worker' = [worker EXCEPT ![r] = w]
      BY <1>1, <2>2, <3>1 DEF HandlerReturns
    <3> QED BY <1>2, <3>2, <3>3
  <2> QED BY <2>1, <2>2
<1>4. UNCHANGED <<jobs, endpoint, platform, restarts>>
  BY DEF StartHandler, HandlerReturns
<1>5. InOrder(w)
  <2>1. Len(w.deliveries) = 0 /\ Len(w.deliveries) <= w.signals
    BY <1>3, BoundsMean
  <2>2. Truthful(w.deliveries, endpoint[w.id])
    BY <1>3, NothingRecorded
  <2>3. \A i \in 1 .. SignalBound : endpoint[w.id][i] = Untouched
    BY <1>2, <1>3, StartTypes
  <2> QED BY <1>3, <2>1, <2>2, <2>3, StartTypes DEF InOrder
<1>6. WorkerSound(w)
  BY <1>2, <1>3, <1>5 DEF WorkerSound
<1>7. WorkerSound(w)'
  BY <1>4, <1>6 DEF WorkerSound, InOrder
<1>8. PICK id \in Ids : id = v.id
  BY <1>2
<1>9. AloneOn(r, id)
  BY <1>1, <1>8, AloneOnDispatch DEF Accepted, AloneOn
<1>10. Booked(jobs[id], endpoint[id])'
  BY <1>4 DEF Sound
<1>11. PlatformSound'
  BY <1>4, PlatformQuiet
<1>12. TouchesOnly(id)
  BY <1>4 DEF TouchesOnly, TypeInv
<1> HIDE DEF IInv
<1> QED BY <1>3, <1>7, <1>8, <1>9, <1>10, <1>11, <1>12, OneWorks

\* A verdict closes the job with what was recorded.
LEMMA ConcludeSteps ==
  ASSUME IInv, NEW r \in Requests, worker[r].pc \in {"handler", "deliver"},
         NEW status \in Statuses \ {"none", "accepted"}, NEW list \in Seq(Delivery),
         Conclude(r, status, list), UNCHANGED <<endpoint, platform, restarts>>,
         Truthful(list, endpoint[worker[r].id]),
         \A i \in 1 .. SignalBound :
           i \notin DOMAIN list => endpoint[worker[r].id][i] = Untouched,
         status = "callback_succeeded" =>
           \A i \in 1 .. worker[r].signals : endpoint[worker[r].id][i].taken > 0
  PROVE  IInv'
<1> USE DEF IInv
<1>1. PICK v \in Workers : v = worker[r]
  BY DEF TypeInv
<1>2. v.id \in Ids /\ jobs[v.id] = OpenedJob
  BY <1>1 DEF Sound, WorkerSound
<1>3. PICK id \in Ids : id = v.id
  BY <1>2
<1>4. PICK w \in Workers : w = [v EXCEPT !.pc = "done"]
  BY DEF Workers
<1>5. /\ w.pc = "done" /\ w.id = id /\ w.signals = v.signals
      /\ worker' = [worker EXCEPT ![r] = w]
  BY <1>1, <1>3, <1>4 DEF Conclude, Workers
<1>6. PICK rec \in StoredJobs :
        jobs' = [jobs EXCEPT ![id] = rec] /\ rec.status = status /\ rec.callbacks = list
  <2>1. PICK old \in StoredJobs : old = jobs[id] /\ old.callbacks = <<>>
    BY <1>2, <1>3, StartTypes
  <2>2. PICK callbacks : callbacks = IF list = <<>> THEN old.callbacks ELSE list
    OBVIOUS
  <2>3. callbacks = list
    BY <2>1, <2>2
  <2>4. jobs' = [jobs EXCEPT ![id] = [old EXCEPT !.status = status,
                                                 !.callbacks = callbacks]]
    BY <1>1, <1>3, <2>1, <2>2 DEF Conclude
  <2>5. [old EXCEPT !.status = status, !.callbacks = list] \in StoredJobs
        /\ [old EXCEPT !.status = status, !.callbacks = list].status = status
        /\ [old EXCEPT !.status = status, !.callbacks = list].callbacks = list
    BY DEF StoredJobs
  <2> QED BY <2>3, <2>4, <2>5
<1>7. jobs'[id] = rec /\ endpoint' = endpoint
  BY <1>6 DEF TypeInv
<1>8. TouchesOnly(id)
  BY <1>6 DEF TouchesOnly, TypeInv
<1>9. WorkerSound(w)'
  BY <1>1, <1>3, <1>5, <1>6, <1>7 DEF WorkerSound
<1>10. Booked(jobs[id], endpoint[id])'
  <2>1. \A i \in 1 .. SignalBound : endpoint[id][i].acks <= 1
    BY DEF Sound, Booked
  <2>2. Truthful(rec.callbacks, endpoint[id]) /\ Complete(rec, endpoint[id])
    BY <1>1, <1>3, <1>6 DEF Complete
  <2>3. Booked(rec, endpoint[id])
    BY <2>1, <2>2 DEF Booked
  <2> QED BY <1>7, <2>3
<1>11. AloneOn(r, id)
  BY <1>1, <1>3, AloneOnDispatch DEF Accepted, AloneOn
<1>12. PlatformSound'
  BY PlatformQuiet
<1> HIDE DEF IInv
<1> QED BY <1>5, <1>8, <1>9, <1>10, <1>11, <1>12, OneWorks

\* The handler throws: the dispatch is concluded without a callback.
LEMMA HandlerFailsSteps ==
  ASSUME IInv, NEW r \in Requests, HandlerFails(r)
  PROVE  IInv'
<1>1. PICK status \in {"handler_failed", "callback_failed"} : Conclude(r, status, <<>>)
  BY DEF HandlerFails
<1>2. status \in Statuses \ {"none", "accepted"} /\ status # "callback_succeeded"
  BY DEF Statuses
<1>3. <<>> \in Seq(Delivery) /\ Truthful(<<>>, endpoint[worker[r].id])
  BY NothingRecorded
<1>4. worker[r].pc = "handler" /\ UNCHANGED <<endpoint, platform, restarts>>
  BY DEF HandlerFails, At
<1>5. \A i \in 1 .. SignalBound : endpoint[worker[r].id][i] = Untouched
  BY <1>4, StartTypes DEF IInv, Sound, WorkerSound
<1> QED BY <1>1, <1>2, <1>3, <1>4, <1>5, ConcludeSteps

\* A dispatch is a success when every signal has its delivery, and every
\* delivery was made.
LEMMA FinishSteps ==
  ASSUME IInv, NEW r \in Requests, Finish(r)
  PROVE  IInv'
<1>1. PICK v \in Workers : v = worker[r] /\ v.pc = "deliver"
  BY DEF IInv, TypeInv, Finish, At
<1>2. /\ InOrder(v) /\ Len(v.deliveries) + 1 > v.signals
      /\ v.deliveries \in Seq(Delivery)
  BY <1>1 DEF IInv, Sound, WorkerSound, Finish, Current, Workers
<1>3. DOMAIN v.deliveries = 1 .. v.signals
  BY <1>2, BoundsMean DEF InOrder, Workers
<1>4. PICK status \in Statuses \ {"none", "accepted"} :
        /\ Conclude(r, status, v.deliveries)
        /\ status = "callback_succeeded" => AllDelivered(v.deliveries)
  <2>1. CASE AllDelivered(v.deliveries)
    <3>1. Conclude(r, "callback_succeeded", v.deliveries)
      BY <1>1, <2>1 DEF Finish
    <3> QED BY <2>1, <3>1 DEF Statuses
  <2>2. CASE ~AllDelivered(v.deliveries)
    <3>1. Conclude(r, "callback_failed", v.deliveries)
      BY <1>1, <2>2 DEF Finish
    <3> QED BY <3>1 DEF Statuses
  <2> QED BY <2>1, <2>2
<1>5. Truthful(v.deliveries, endpoint[worker[r].id])
  BY <1>1, <1>2 DEF InOrder
<1>6. status = "callback_succeeded" =>
        \A i \in 1 .. worker[r].signals : endpoint[worker[r].id][i].taken > 0
  BY <1>1, <1>3, <1>4, <1>5 DEF Truthful, AllDelivered
<1>7. UNCHANGED <<endpoint, platform, restarts>>
  BY DEF Finish
<1>8. ASSUME NEW i \in 1 .. SignalBound, i \notin DOMAIN v.deliveries
      PROVE  endpoint[v.id][i] = Untouched
  <2>1. i > v.signals /\ Len(v.deliveries) = v.signals /\ v.attempt = 1
    BY <1>2, <1>3, <1>8, BoundsMean DEF InOrder, Workers
  <2>2. CASE i > v.signals + 1
    BY <1>2, <2>1, <2>2 DEF InOrder
  <2>3. CASE i = v.signals + 1
    <3>1. endpoint[v.id][i].taken < 1 /\ endpoint[v.id][i].acks = 0
      BY <1>2, <2>1, <2>3 DEF InOrder
    <3>2. endpoint[v.id][i] \in [taken : Nat, acks : Nat]
      BY <1>1 DEF IInv, TypeInv, Sound, WorkerSound, Counts
    <3>3. endpoint[v.id][i].taken = 0
      BY <3>1, <3>2
    <3> QED BY <3>1, <3>2, <3>3 DEF Untouched
  <2> QED BY <2>1, <2>2, <2>3, BoundsMean DEF Workers
<1> QED BY <1>1, <1>2, <1>4, <1>5, <1>6, <1>7, <1>8, ConcludeSteps

\* With the default key, two signals have one key exactly if they are the same.
LEMMA KeysMeanSignals ==
  ASSUME NEW id \in Ids, NEW i \in 1 .. SignalBound, NEW k \in Ids, NEW n \in 1 .. SignalBound,
         KeyedByDefault(SignalOf(k, n))
  PROVE  IdempotencyKey(id, i) = IdempotencyKey(k, n) <=> SignalOf(id, i) = SignalOf(k, n)
<1>1. Listed(k, n).key = NoKey
  BY DEF KeyedByDefault
<1>2. IdempotencyKey(k, n) = [order |-> effectOf[k].order, name |-> Listed(k, n).signal]
  BY <1>1 DEF IdempotencyKey
<1>3. effectOf[k].order # NoOrder
  OBVIOUS
<1>4. CASE Listed(id, i).key # NoKey
  <2>1. IdempotencyKey(id, i) = [order |-> NoOrder, name |-> Listed(id, i).key]
    BY <1>4 DEF IdempotencyKey
  <2>2. IdempotencyKey(id, i) # IdempotencyKey(k, n)
    BY <1>2, <1>3, <2>1
  <2>3. SignalOf(id, i) # SignalOf(k, n)
    BY <1>4 DEF KeyedByDefault
  <2> QED BY <2>2, <2>3
<1>5. CASE Listed(id, i).key = NoKey
  <2>1. IdempotencyKey(id, i)
          = [order |-> effectOf[id].order, name |-> Listed(id, i).signal]
    BY <1>5 DEF IdempotencyKey
  <2> QED BY <1>2, <2>1 DEF SignalOf
<1> QED BY <1>4, <1>5

\* What the platform does with a signal, in full.
LEMMA SubmittedIs ==
  ASSUME platform \in Platforms, NEW id \in Ids, NEW i \in 1 .. SignalBound
  PROVE  /\ Submitted(id, i) \in Platforms
         /\ IdempotencyKey(id, i) \in platform.keys => Submitted(id, i) = platform
         /\ IdempotencyKey(id, i) \notin platform.keys =>
              /\ Submitted(id, i).keys = platform.keys \cup {IdempotencyKey(id, i)}
              /\ \A s \in LogicalSignals :
                   Submitted(id, i).broadcasts[s] =
                     IF s = SignalOf(id, i) THEN platform.broadcasts[s] + 1
                     ELSE platform.broadcasts[s]
<1> DEFINE key == IdempotencyKey(id, i)
           s0 == SignalOf(id, i)
<1>1. s0 \in LogicalSignals
  BY DEF LogicalSignals
<1>2. key \in {IdempotencyKey(d, n) : d \in Ids, n \in 1 .. SignalBound}
  OBVIOUS
<1>3. CASE key \in platform.keys
  BY <1>3 DEF Submitted
<1>4. CASE key \notin platform.keys
  <2>1. Submitted(id, i) = [platform EXCEPT !.keys = platform.keys \cup {key},
                                            !.broadcasts[s0] = platform.broadcasts[s0] + 1]
    BY <1>4 DEF Submitted
  <2> HIDE DEF key, s0
  <2>2. PICK b : b = [platform.broadcasts EXCEPT ![s0] = platform.broadcasts[s0] + 1]
    OBVIOUS
  <2>3. /\ b \in [LogicalSignals -> Nat]
        /\ \A s \in LogicalSignals :
             b[s] = IF s = s0 THEN platform.broadcasts[s] + 1 ELSE platform.broadcasts[s]
    BY <1>1, <2>2 DEF Platforms
  <2>4. /\ Submitted(id, i).keys = platform.keys \cup {key}
        /\ Submitted(id, i).broadcasts = b
        /\ Submitted(id, i) = [keys |-> platform.keys \cup {key}, broadcasts |-> b]
    <3>1. Submitted(id, i) = [platform EXCEPT !.keys = platform.keys \cup {key},
                                              !.broadcasts = b]
      BY <2>1, <2>2 DEF Platforms
    <3>2. platform = [keys |-> platform.keys, broadcasts |-> platform.broadcasts]
      BY DEF Platforms
    <3> QED BY <3>1, <3>2
  <2>5. Submitted(id, i) \in Platforms
    BY <1>2, <2>3, <2>4 DEF Platforms
  <2> QED BY <1>4, <2>3, <2>4, <2>5 DEF key, s0
<1> QED BY <1>3, <1>4

\* The endpoint took a signal of a dispatch once more, and the platform saw it.
LEMMA PlatformStep ==
  ASSUME platform \in Platforms, PlatformSound,
         NEW id \in Ids, NEW i \in 1 .. SignalBound, platform' = Submitted(id, i),
         \A k \in Ids, n \in 1 .. SignalBound :
           k # id \/ n # i => endpoint'[k][n] = endpoint[k][n]
  PROVE  PlatformSound'
<1> DEFINE key == IdempotencyKey(id, i)
<1>1. /\ platform'.keys = platform.keys \cup {key}
      /\ key \in platform.keys => platform' = platform
      /\ key \notin platform.keys => \A s \in LogicalSignals :
           platform'.broadcasts[s] = IF s = SignalOf(id, i) THEN platform.broadcasts[s] + 1
                                     ELSE platform.broadcasts[s]
  BY SubmittedIs
<1>2. ASSUME NEW k \in Ids, NEW n \in 1 .. SignalBound, endpoint'[k][n].taken > 0
      PROVE  IdempotencyKey(k, n) \in platform'.keys
  <2>1. CASE k = id /\ n = i
    BY <1>1, <2>1
  <2>2. CASE k # id \/ n # i
    BY <1>1, <1>2, <2>2 DEF PlatformSound
  <2> QED BY <2>1, <2>2
<1>3. ASSUME NEW k \in Ids, NEW n \in 1 .. SignalBound, KeyedByDefault(SignalOf(k, n))
      PROVE  platform'.broadcasts[SignalOf(k, n)] =
               IF IdempotencyKey(k, n) \in platform'.keys THEN 1 ELSE 0
  <2> DEFINE kn == IdempotencyKey(k, n)
             s == SignalOf(k, n)
  <2>1. platform.broadcasts[s] = IF kn \in platform.keys THEN 1 ELSE 0
    BY <1>3 DEF PlatformSound
  <2>2. key = kn <=> SignalOf(id, i) = s
    BY <1>3, KeysMeanSignals
  <2>3. s \in LogicalSignals
    BY DEF LogicalSignals
  <2>4. platform'.broadcasts[s] = IF kn \in platform'.keys THEN 1 ELSE 0
    <3> HIDE DEF key, kn, s
    <3>1. CASE key \in platform.keys
      BY <1>1, <2>1, <3>1
    <3>2. CASE key \notin platform.keys /\ key = kn
      BY <1>1, <2>1, <2>2, <2>3, <3>2
    <3>3. CASE key \notin platform.keys /\ key # kn
      BY <1>1, <2>1, <2>2, <2>3, <3>3
    <3> QED BY <3>1, <3>2, <3>3
  <2> QED BY <2>4
<1> QED BY <1>2, <1>3 DEF PlatformSound

\* What a callback does: the worker v that posts its n-th callback becomes w,
\* and the counts of its dispatch become seen.
PostMove(r, v, w, seen, n) ==
    /\ v = worker[r] /\ v.pc = "deliver" /\ v.id \in Ids
    /\ worker' = [worker EXCEPT ![r] = w]
    /\ w.pc = "deliver" /\ w.id = v.id /\ w.signals = v.signals
    /\ n = Len(v.deliveries) + 1 /\ n \in 1 .. v.signals
    /\ endpoint' = [endpoint EXCEPT ![v.id] = seen]
    /\ \A i \in 1 .. SignalBound : i # n => seen[i] = endpoint[v.id][i]
    /\ \/ platform' = platform /\ seen = endpoint[v.id]
       \/ /\ platform' = Submitted(v.id, n)
          /\ seen[n].taken = endpoint[v.id][n].taken + 1
    /\ \/ /\ w.deliveries = v.deliveries /\ w.attempt = v.attempt + 1
          /\ seen[n].acks = endpoint[v.id][n].acks
       \/ \E d \in Delivery :
            /\ w.deliveries = Append(v.deliveries, d) /\ w.attempt = 1
            /\ d.attempts = v.attempt
            /\ d.delivered => seen[n].taken = endpoint[v.id][n].taken + 1
            /\ seen[n].acks = IF d.delivered THEN endpoint[v.id][n].acks + 1
                              ELSE endpoint[v.id][n].acks

\* One attempt: the endpoint takes the current signal once more or not at all,
\* and the record grows by that signal or not at all.
LEMMA PostMoves ==
  ASSUME IInv, NEW r \in Requests, Post(r)
  PROVE  \E v \in Workers, w \in Workers, seen \in Counts, n \in 1 .. SignalBound :
           PostMove(r, v, w, seen, n)
<1> USE DEF IInv
<1>1. PICK v \in Workers : v = worker[r] /\ v.pc = "deliver" /\ v.id \in Ids
  BY DEF TypeInv, Sound, WorkerSound, Post, At
<1> DEFINE nth == Len(v.deliveries) + 1
<1>2. /\ nth \in 1 .. v.signals /\ nth \in 1 .. SignalBound
      /\ v.deliveries \in Seq(Delivery) /\ v.attempt \in 1 .. MaxAttempts
      /\ Current(r) = nth
  BY <1>1, BoundsMean DEF Workers, Post, Current
<1> HIDE DEF nth
<1>3. PICK outcome \in Outcomes :
        /\ outcome.ok => outcome.taken
        /\ IF outcome.taken
           THEN /\ endpoint' = [endpoint EXCEPT ![v.id][nth] = TakenOnceMore(@, outcome.ok)]
                /\ platform' = Submitted(v.id, nth)
           ELSE UNCHANGED <<endpoint, platform>>
        /\ worker' = [worker EXCEPT ![r] = IF outcome.ok THEN Recorded(r, TRUE)
                                           ELSE AfterFailure(r)]
  BY <1>1, <1>2 DEF Post
<1>4. PICK seen \in Counts :
        /\ endpoint' = [endpoint EXCEPT ![v.id] = seen]
        /\ \A i \in 1 .. SignalBound : i # nth => seen[i] = endpoint[v.id][i]
        /\ \/ platform' = platform /\ seen = endpoint[v.id]
           \/ /\ platform' = Submitted(v.id, nth)
              /\ seen[nth].taken = endpoint[v.id][nth].taken + 1
        /\ outcome.taken => seen[nth].taken = endpoint[v.id][nth].taken + 1
        /\ seen[nth].acks = IF outcome.ok THEN endpoint[v.id][nth].acks + 1
                          ELSE endpoint[v.id][nth].acks
  <2>1. PICK e \in Counts : e = endpoint[v.id]
    BY <1>1 DEF TypeInv
  <2>2. CASE outcome.taken
    <3>1. PICK more \in [taken : Nat, acks : Nat] :
            /\ more = TakenOnceMore(e[nth], outcome.ok)
            /\ more.taken = e[nth].taken + 1
            /\ more.acks = IF outcome.ok THEN e[nth].acks + 1 ELSE e[nth].acks
      <4>1. e[nth].taken \in Nat /\ e[nth].acks \in Nat
        BY <1>2 DEF Counts
      <4>2. PICK m \in Nat : m = IF outcome.ok THEN e[nth].acks + 1 ELSE e[nth].acks
        BY <4>1
      <4>3. TakenOnceMore(e[nth], outcome.ok) = [taken |-> e[nth].taken + 1, acks |-> m]
        BY <4>2 DEF TakenOnceMore
      <4> QED BY <4>1, <4>2, <4>3
    <3>2. PICK t : t = [e EXCEPT ![nth] = more]
      OBVIOUS
    <3>3. /\ t \in Counts /\ t[nth] = more
          /\ \A i \in 1 .. SignalBound : i # nth => t[i] = e[i]
      BY <1>2, <3>2 DEF Counts
    <3>4. endpoint' = [endpoint EXCEPT ![v.id] = t]
      BY <1>3, <2>1, <2>2, <3>1, <3>2
    <3>5. platform' = Submitted(v.id, nth)
      BY <1>3, <2>2
    <3> QED BY <2>1, <3>1, <3>3, <3>4, <3>5
  <2>3. CASE ~outcome.taken
    <3>1. endpoint' = [endpoint EXCEPT ![v.id] = e] /\ ~outcome.ok /\ platform' = platform
      BY <1>1, <1>3, <2>1, <2>3 DEF TypeInv
    <3> QED BY <2>1, <2>3, <3>1
  <2> QED BY <2>2, <2>3
<1>5. ASSUME NEW b \in BOOLEAN
      PROVE  \E d \in Delivery :
               /\ d.delivered = b /\ d.attempts = v.attempt
               /\ Recorded(r, b) \in Workers
               /\ Recorded(r, b).pc = "deliver" /\ Recorded(r, b).id = v.id
               /\ Recorded(r, b).signals = v.signals /\ Recorded(r, b).attempt = 1
               /\ Recorded(r, b).deliveries = Append(v.deliveries, d)
  <2>1. PICK d \in Delivery : d = [delivered |-> b, attempts |-> v.attempt]
    BY <1>2, Zenon DEF Delivery
  <2>2. PICK list \in Seq(Delivery) : list = Append(v.deliveries, d)
    BY <1>2, AppendProperties
  <2>3. Recorded(r, b) = [v EXCEPT !.attempt = 1, !.deliveries = list]
    BY <1>1, <2>1, <2>2 DEF Recorded
  <2>4. 1 \in 1 .. MaxAttempts
    BY BoundsMean
  <2>5. /\ Recorded(r, b) \in Workers
        /\ Recorded(r, b).pc = "deliver" /\ Recorded(r, b).id = v.id
        /\ Recorded(r, b).signals = v.signals /\ Recorded(r, b).attempt = 1
        /\ Recorded(r, b).deliveries = list
    BY <1>1, <2>3, <2>4 DEF Workers
  <2>6. d.delivered = b /\ d.attempts = v.attempt
    BY <2>1
  <2> QED BY <2>2, <2>5, <2>6
<1>6. PICK w \in Workers :
        /\ worker' = [worker EXCEPT ![r] = w]
        /\ w.pc = "deliver" /\ w.id = v.id /\ w.signals = v.signals
        /\ \/ /\ w.deliveries = v.deliveries /\ w.attempt = v.attempt + 1
              /\ seen[nth].acks = endpoint[v.id][nth].acks
           \/ \E d \in Delivery :
                /\ w.deliveries = Append(v.deliveries, d) /\ w.attempt = 1
                /\ d.attempts = v.attempt
                /\ d.delivered => seen[nth].taken = endpoint[v.id][nth].taken + 1
                /\ seen[nth].acks = IF d.delivered THEN endpoint[v.id][nth].acks + 1
                                  ELSE endpoint[v.id][nth].acks
  <2>1. CASE outcome.ok
    <3>1. worker' = [worker EXCEPT ![r] = Recorded(r, TRUE)]
      BY <1>3, <2>1
    <3>2. PICK d \in Delivery :
            /\ d.delivered = TRUE /\ d.attempts = v.attempt
            /\ Recorded(r, TRUE) \in Workers
            /\ Recorded(r, TRUE).pc = "deliver" /\ Recorded(r, TRUE).id = v.id
            /\ Recorded(r, TRUE).signals = v.signals /\ Recorded(r, TRUE).attempt = 1
            /\ Recorded(r, TRUE).deliveries = Append(v.deliveries, d)
      BY <1>5
    <3> QED BY <1>3, <1>4, <2>1, <3>1, <3>2
  <2>2. CASE ~outcome.ok /\ ~(v.attempt < MaxAttempts)
    <3>1. worker' = [worker EXCEPT ![r] = Recorded(r, FALSE)]
      BY <1>1, <1>3, <2>2 DEF AfterFailure
    <3>2. PICK d \in Delivery :
            /\ d.delivered = FALSE /\ d.attempts = v.attempt
            /\ Recorded(r, FALSE) \in Workers
            /\ Recorded(r, FALSE).pc = "deliver" /\ Recorded(r, FALSE).id = v.id
            /\ Recorded(r, FALSE).signals = v.signals /\ Recorded(r, FALSE).attempt = 1
            /\ Recorded(r, FALSE).deliveries = Append(v.deliveries, d)
      BY <1>5
    <3> QED BY <1>4, <2>2, <3>1, <3>2
  <2>3. CASE ~outcome.ok /\ v.attempt < MaxAttempts
    <3>1. PICK w : w = [v EXCEPT !.attempt = v.attempt + 1]
      OBVIOUS
    <3>2. worker' = [worker EXCEPT ![r] = w]
      BY <1>1, <1>3, <2>3, <3>1 DEF AfterFailure
    <3>3. v.attempt + 1 \in 1 .. MaxAttempts
      BY <1>2, <2>3, BoundsMean
    <3>4. /\ w \in Workers /\ w.pc = "deliver" /\ w.id = v.id /\ w.signals = v.signals
          /\ w.deliveries = v.deliveries /\ w.attempt = v.attempt + 1
      BY <1>1, <3>1, <3>3 DEF Workers
    <3> QED BY <1>4, <2>3, <3>2, <3>4
  <2> QED BY <2>1, <2>2, <2>3
<1>7. nth = Len(v.deliveries) + 1
  BY DEF nth
<1>8. /\ v = worker[r] /\ v.pc = "deliver" /\ v.id \in Ids
      /\ nth = Len(v.deliveries) + 1 /\ nth \in 1 .. v.signals
      /\ nth \in 1 .. SignalBound
  BY <1>1, <1>2, <1>7
<1>9. PostMove(r, v, w, seen, nth)
  BY <1>4, <1>6, <1>8, Zenon DEF PostMove
<1> QED BY <1>8, <1>9

\* A callback is posted, answered, lost or tried again.
LEMMA PostSteps ==
  ASSUME IInv, NEW r \in Requests, Post(r)
  PROVE  IInv'
<1> USE DEF IInv
<1>1. PICK v \in Workers, w \in Workers, seen \in Counts, n \in 1 .. SignalBound :
        /\ v = worker[r] /\ v.pc = "deliver" /\ v.id \in Ids
        /\ worker' = [worker EXCEPT ![r] = w]
        /\ w.pc = "deliver" /\ w.id = v.id /\ w.signals = v.signals
        /\ n = Len(v.deliveries) + 1 /\ n \in 1 .. v.signals
        /\ endpoint' = [endpoint EXCEPT ![v.id] = seen]
        /\ \A i \in 1 .. SignalBound : i # n => seen[i] = endpoint[v.id][i]
        /\ \/ platform' = platform /\ seen = endpoint[v.id]
           \/ /\ platform' = Submitted(v.id, n)
              /\ seen[n].taken = endpoint[v.id][n].taken + 1
        /\ \/ /\ w.deliveries = v.deliveries /\ w.attempt = v.attempt + 1
              /\ seen[n].acks = endpoint[v.id][n].acks
           \/ \E d \in Delivery :
                /\ w.deliveries = Append(v.deliveries, d) /\ w.attempt = 1
                /\ d.attempts = v.attempt
                /\ d.delivered => seen[n].taken = endpoint[v.id][n].taken + 1
                /\ seen[n].acks = IF d.delivered THEN endpoint[v.id][n].acks + 1
                                  ELSE endpoint[v.id][n].acks
  BY PostMoves, Zenon DEF PostMove
<1>2. PICK id \in Ids : id = v.id
  BY <1>1
<1>at. /\ n = Len(v.deliveries) + 1 /\ n \in 1 .. v.signals
       /\ w.id = id /\ w.signals = v.signals
  BY <1>1, <1>2
<1>3. PICK had \in Counts : had = endpoint[id]
  BY DEF TypeInv
<1>4. endpoint'[id] = seen /\ jobs[id] = OpenedJob /\ UNCHANGED <<jobs, restarts>>
  BY <1>1, <1>2 DEF TypeInv, Sound, WorkerSound, Post
<1>5. /\ v.deliveries \in Seq(Delivery) /\ v.attempt \in Nat /\ v.signals \in Nat
      /\ \A i \in 1 .. SignalBound : had[i].taken \in Nat /\ seen[i].taken \in Nat
  <2>1. v.deliveries \in Seq(Delivery) /\ v.attempt \in Nat /\ v.signals \in Nat
    BY BoundsMean DEF Workers
  <2>2. \A i \in 1 .. SignalBound : had[i].taken \in Nat /\ seen[i].taken \in Nat
    BY DEF Counts
  <2> QED BY <2>1, <2>2
<1>6. /\ Truthful(v.deliveries, had)
      /\ had[n].taken < v.attempt /\ had[n].acks = 0
      /\ \A i \in 1 .. SignalBound : i > n => had[i] = Untouched
  BY <1>1, <1>2, <1>3 DEF Sound, WorkerSound, InOrder
<1>7. Truthful(v.deliveries, seen)
  <2>1. \A i \in DOMAIN v.deliveries : i # n
    BY <1>at, <1>5
  <2>2. \A i \in 1 .. SignalBound : i # n => seen[i] = had[i]
    BY <1>1, <1>2, <1>3
  <2> QED BY <1>6, <2>1, <2>2 DEF Truthful
<1>8. /\ seen[n].taken <= v.attempt
      /\ \A i \in 1 .. SignalBound : i > n => seen[i] = Untouched
  <2>1. /\ seen[n].taken \in {had[n].taken, had[n].taken + 1}
        /\ \A i \in 1 .. SignalBound : i # n => seen[i] = had[i]
    BY <1>1, <1>2, <1>3
  <2>2. seen[n].taken <= v.attempt
    BY <1>5, <1>6, <2>1
  <2>3. \A i \in 1 .. SignalBound : i > n => i # n
    OBVIOUS
  <2> QED BY <1>6, <2>1, <2>2, <2>3
<1>9. InOrder(w)'
  <2>1. CASE /\ w.deliveries = v.deliveries /\ w.attempt = v.attempt + 1
             /\ seen[n].acks = endpoint[v.id][n].acks
    <3>1. w.id = id /\ w.signals = v.signals /\ Len(w.deliveries) < w.signals
          /\ Len(w.deliveries) + 1 = n
      BY <1>1, <1>2, <1>5, <2>1
    <3>2. Truthful(w.deliveries, seen) /\ seen[n].taken < w.attempt /\ seen[n].acks = 0
      BY <1>2, <1>3, <1>5, <1>6, <1>7, <1>8, <2>1
    <3>3. Len(w.deliveries) <= w.signals /\ Len(w.deliveries) # w.signals
      BY <1>5, <2>1, <3>1
    <3> QED BY <1>4, <1>8, <3>1, <3>2, <3>3 DEF InOrder
  <2>2. ASSUME NEW d \in Delivery, w.deliveries = Append(v.deliveries, d),
               w.attempt = 1, d.attempts = v.attempt,
               d.delivered => seen[n].taken = endpoint[v.id][n].taken + 1,
               seen[n].acks = IF d.delivered THEN endpoint[v.id][n].acks + 1
                              ELSE endpoint[v.id][n].acks
        PROVE  InOrder(w)'
    <3>1. /\ DOMAIN w.deliveries = 1 .. n /\ Len(w.deliveries) = n
          /\ w.deliveries[n] = d
          /\ \A i \in 1 .. n : i # n =>
               i \in DOMAIN v.deliveries /\ w.deliveries[i] = v.deliveries[i]
      <4>1. Len(v.deliveries) = n - 1 /\ n \in Nat
        BY <1>at, <1>5
      <4> QED BY <1>5, <2>2, <4>1, AppendProperties
    <3>2. /\ d.delivered => seen[n].taken > 0
          /\ seen[n].acks = IF d.delivered THEN 1 ELSE 0
      <4>1. endpoint[v.id] = had /\ had[n].taken \in Nat /\ had[n].acks = 0
        BY <1>2, <1>3, <1>5, <1>6
      <4> QED BY <2>2, <4>1
    <3>3. Truthful(w.deliveries, seen)
      BY <1>7, <1>8, <2>2, <3>1, <3>2 DEF Truthful
    <3>4. \A i \in 1 .. SignalBound :
            /\ i = n + 1 => seen[i].taken < w.attempt /\ seen[i].acks = 0
            /\ i > n + 1 => seen[i] = Untouched
      BY <1>8, <2>2, StartTypes
    <3>5. Len(w.deliveries) <= w.signals
      BY <1>at, <1>5, <3>1
    <3> QED BY <1>at, <1>4, <2>2, <3>1, <3>3, <3>4, <3>5 DEF InOrder
  <2> QED BY <1>1, <2>1, <2>2
<1>10. WorkerSound(w)'
  BY <1>1, <1>2, <1>4, <1>9 DEF WorkerSound
<1>11. TouchesOnly(id)
  <2>1. platform' \in Platforms
    <3>1. platform' = platform \/ platform' = Submitted(v.id, n)
      BY <1>1
    <3> QED BY <1>2, <3>1, SubmittedIs DEF TypeInv
  <2> QED BY <1>1, <1>2, <1>4, <2>1 DEF TouchesOnly, TypeInv
<1>12. Booked(jobs[id], endpoint[id])'
  <2>1. ASSUME NEW i \in 1 .. SignalBound PROVE seen[i].acks <= 1
    <3>1. CASE i = n
      <4>1. endpoint[v.id][n].acks = 0
        BY <1>2, <1>3, <1>6
      <4>2. \/ seen[n].acks = endpoint[v.id][n].acks
            \/ \E d \in Delivery :
                 seen[n].acks = IF d.delivered THEN endpoint[v.id][n].acks + 1
                                ELSE endpoint[v.id][n].acks
        BY <1>1, Zenon
      <4>3. seen[n].acks \in {0, 1}
        BY <4>1, <4>2
      <4> QED BY <3>1, <4>3
    <3>2. CASE i # n
      BY <1>1, <1>2, <3>2 DEF Sound, Booked
    <3> QED BY <3>1, <3>2
  <2>2. Booked(OpenedJob, seen)
    BY <2>1, StartTypes, NothingRecorded DEF Booked, Complete
  <2> QED BY <1>4, <2>2
<1>13. AloneOn(r, id)
  BY <1>1, <1>2, AloneOnDispatch DEF Accepted, AloneOn
<1>14. PlatformSound'
  <2>1. \A k \in Ids, i \in 1 .. SignalBound :
          k # id \/ i # n => endpoint'[k][i] = endpoint[k][i]
    <3>1. endpoint \in [Ids -> Counts]
      BY DEF TypeInv
    <3>2. /\ endpoint' = [endpoint EXCEPT ![id] = seen]
          /\ \A i \in 1 .. SignalBound : i # n => seen[i] = endpoint[id][i]
      BY <1>1, <1>2, Zenon
    <3>3. \A k \in Ids : k # id => endpoint'[k] = endpoint[k]
      BY <3>1, <3>2
    <3>4. endpoint'[id] = seen
      BY <3>1, <3>2
    <3> QED BY <3>2, <3>3, <3>4
  <2>2. CASE platform' = Submitted(id, n)
    BY <2>1, <2>2, PlatformStep DEF TypeInv
  <2>3. CASE platform' = platform /\ seen = endpoint[id]
    <3>1. endpoint'[id] = endpoint[id]
      BY <1>4, <2>3
    <3> QED BY <2>1, <2>3, <3>1, PlatformQuiet
  <2> QED BY <1>1, <1>2, <2>2, <2>3
<1> HIDE DEF IInv
<1> QED BY <1>1, <1>2, <1>10, <1>11, <1>12, <1>13, <1>14, OneWorks

\* A restarted server has no jobs and works on nothing.
LEMMA RestartSteps ==
  ASSUME IInv, Restart
  PROVE  IInv'
<1> USE DEF IInv
<1>1. TypeInv'
  BY StartTypes, BoundsMean DEF Restart, TypeInv
<1>2. \A r \in Requests : WorkerSound(worker[r])'
  <2>1. \A r \in Requests : worker'[r] = Idle
    BY DEF Restart
  <2> QED BY <2>1, StartTypes DEF WorkerSound
<1>3. \A id \in Ids : Booked(jobs[id], endpoint[id])'
  <2>1. \A id \in Ids : Booked(NoJob, endpoint[id])
    BY StartTypes, NothingRecorded DEF Booked, Complete, Sound
  <2> QED BY <2>1 DEF Restart
<1>4. DispatchRunsOnce'
  BY StartTypes DEF Restart, DispatchRunsOnce, Accepted
<1>5. PlatformSound'
  BY PlatformQuiet DEF Restart
<1> QED BY <1>1, <1>2, <1>3, <1>4, <1>5 DEF Sound

\* The invariant is inductive.
LEMMA SoundStep == IInv /\ [Next]_vars => IInv'
<1> SUFFICES ASSUME IInv, [Next]_vars PROVE IInv'
  OBVIOUS
<1>1. CASE UNCHANGED vars
  BY <1>1 DEF vars, IInv, TypeInv, PlatformSound, Sound, WorkerSound, InOrder,
              DispatchRunsOnce, Accepted
<1>2. ASSUME NEW r \in Requests, Work(r) PROVE IInv'
  BY <1>2, AcceptSteps, RefuseSteps, HandlerSteps, HandlerFailsSteps, PostSteps,
     FinishSteps DEF Work
<1>3. ASSUME NEW r \in Requests, NEW id \in Ids, Arrive(r, id) PROVE IInv'
  BY <1>3, ArriveSteps
<1> QED BY <1>1, <1>2, <1>3, RestartSteps DEF Next

-----------------------------------------------------------------------------
(***************************************************************************)
(* Theorems.                                                               *)
(***************************************************************************)

\* The inductive invariant holds in every reachable state.
THEOREM SoundAlways == Spec => []IInv
BY InitSound, SoundStep, PTL DEF Spec

\* The store, the requests, the endpoint and the chain keep their types.
THEOREM TypeCorrect == Spec => []TypeOK
<1>1. IInv => TypeOK
  BY DEF IInv, TypeInv, TypeOK, StoredJobs, Workers, Counts, Platforms
<1> QED BY <1>1, SoundAlways, PTL

\* However requests with one dispatch id interleave, one is processed.
THEOREM HandlerRunsOnce == Spec => []DispatchRunsOnce
<1>1. IInv => DispatchRunsOnce
  BY DEF IInv, Sound
<1> QED BY <1>1, SoundAlways, PTL

\* What the job records of its deliveries is what the endpoint took, and a job
\* that counts as a success has all its signals there.
THEOREM RecordsAreTruthful == Spec => []DeliveryRecordIsTruthful
<1>1. IInv => DeliveryRecordIsTruthful
  <2> SUFFICES ASSUME IInv PROVE DeliveryRecordIsTruthful
    OBVIOUS
  <2>1. ASSUME NEW id \in Ids, NEW i \in DOMAIN jobs[id].callbacks
        PROVE  /\ jobs[id].callbacks[i].delivered => endpoint[id][i].taken > 0
               /\ endpoint[id][i].taken <= jobs[id].callbacks[i].attempts
    BY DEF IInv, Sound, Booked, Truthful
  <2>2. ASSUME NEW r \in Requests, At(r, "done"),
               jobs[worker[r].id].status = "callback_succeeded",
               NEW i \in 1 .. worker[r].signals
        PROVE  endpoint[worker[r].id][i].taken > 0
    BY <2>2 DEF IInv, Sound, WorkerSound, At
  <2> QED BY <2>1, <2>2 DEF DeliveryRecordIsTruthful
<1> QED BY <1>1, SoundAlways, PTL

\* A signal with its default key has one key under every dispatch and hook, and no
\* other signal has it; so the platform broadcasts it once, whatever is retried,
\* dispatched again after a restart or emitted again under another id.
THEOREM SignalsAreBroadcastOnce == Spec => []SignalBroadcastOnce
<1>1. IInv => SignalBroadcastOnce
  <2> SUFFICES ASSUME IInv PROVE SignalBroadcastOnce
    OBVIOUS
  <2>1. ASSUME NEW s \in LogicalSignals, KeyedByDefault(s)
        PROVE  platform.broadcasts[s] <= 1
    <3>1. PICK id \in Ids, i \in 1 .. SignalBound : s = SignalOf(id, i)
      BY DEF LogicalSignals
    <3>2. platform.broadcasts[s] \in {0, 1}
      BY <2>1, <3>1 DEF IInv, PlatformSound
    <3> QED BY <3>2
  <2>2. ASSUME NEW id \in Ids, NEW i \in DOMAIN jobs[id].callbacks,
               jobs[id].callbacks[i].delivered, KeyedByDefault(SignalOf(id, i))
        PROVE  platform.broadcasts[SignalOf(id, i)] = 1
    <3>1. i \in 1 .. SignalBound /\ endpoint[id][i].taken > 0
      BY <2>2 DEF IInv, Sound, Booked, Truthful
    <3> QED BY <2>2, <3>1 DEF IInv, PlatformSound
  <2> QED BY <2>1, <2>2 DEF SignalBroadcastOnce
<1> QED BY <1>1, SoundAlways, PTL

\* The job of a settled dispatch says of every signal the endpoint took whether it
\* answered well, and no signal is sent again once it has.
THEOREM OutcomesNeverErased == Spec => []OutcomesStand
<1>1. IInv => OutcomesStand
  <2> SUFFICES ASSUME IInv, NEW id \in Ids, NEW i \in 1 .. SignalBound
               PROVE  /\ endpoint[id][i].acks <= 1
                      /\ Settled(id) =>
                           /\ endpoint[id][i].taken > 0 => i \in DOMAIN jobs[id].callbacks
                           /\ i \in DOMAIN jobs[id].callbacks =>
                                (jobs[id].callbacks[i].delivered
                                   <=> endpoint[id][i].acks = 1)
    BY DEF OutcomesStand
  <2>1. Booked(jobs[id], endpoint[id])
    BY DEF IInv, Sound
  <2>2. endpoint[id][i].acks <= 1
    BY <2>1 DEF Booked
  <2>3. Settled(id) /\ endpoint[id][i].taken > 0 => i \in DOMAIN jobs[id].callbacks
    BY <2>1, StartTypes DEF Booked, Complete, Settled
  <2>4. i \in DOMAIN jobs[id].callbacks =>
          (jobs[id].callbacks[i].delivered <=> endpoint[id][i].acks = 1)
    BY <2>1 DEF Booked, Truthful
  <2> QED BY <2>2, <2>3, <2>4
<1> QED BY <1>1, SoundAlways, PTL
=============================================================================
