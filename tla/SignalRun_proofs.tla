-------------------------- MODULE SignalRun_proofs --------------------------
(***************************************************************************)
(* What is proved of SignalRun for every handler, every deployment and     *)
(* every bound.                                                            *)
(*                                                                         *)
(* Every step is first reduced to what it does to the three things the     *)
(* properties speak of: the transactions grow (TxGrows), the trail grows   *)
(* by fresh records (Fresh), and the run moves to a stage it has earned    *)
(* (RunSound).  What the records mean follows from that summary alone.     *)
(***************************************************************************)
EXTENDS SignalRun, FiniteSetTheorems, SequenceTheorems, WellFoundedInduction, TLAPS

(***************************************************************************)
(* Types.                                                                  *)
(***************************************************************************)
States == {"pending", "success", "reverted", "dropped"}
Stages == {"idle", "handler", "thrown", "ctxSubmit", "ctxSent",
           "recheck", "signals", "submit", "sent", "ending"}
InContext == {"ctxSubmit", "ctxSent"}
InReturned == {"submit", "sent"}
AfterHandler == {"recheck", "signals", "submit", "sent"}

Records == [index : Int, sig : Signals \cup {NoSignal}, tx : Nat, mark : Marks]
JobRecords == [status : Statuses, attempts : Nat, submissions : Seq(Records),
               cooled : BOOLEAN]
Txs == [sig : Signals, state : States, young : BOOLEAN]
Runs == [pc : Stages, plan : Handlers \cup {NoPlan}, dry : BOOLEAN,
         resubmit : BOOLEAN, bypass : BOOLEAN, pos : Nat \ {0}, try : Nat,
         prior : Nat, count : Nat, deferred : BOOLEAN, base : Nat,
         delivered : SUBSET Int, tx : Nat, err : Errors \cup {"none"}]

(***************************************************************************)
(* The run.                                                                *)
(***************************************************************************)
\* The signal a run is about to send, or has just sent.
AtHand(r) == IF r.pc \in InContext THEN r.plan.ctx[r.pos] ELSE r.plan.ret[r.pos]

\* The calls of the context lane the handler has behind it.
Passed(r) ==
  {k \in DOMAIN r.plan.ctx :
     \/ r.pc \in {"handler"} \cup InContext /\ k < r.pos
     \/ r.pc = "thrown" /\ k <= r.pos
     \/ r.pc \in AfterHandler}

RevertOnRecord == \E r \in Trail : r.tx # 0 /\ tx[r.tx].state = "reverted"

RunSound ==
  /\ run.plan \in Plans \cup {NoPlan}
  /\ run.pc # "idle" => run.plan \in Plans /\ job.status = "matched"
  /\ run.tx <= Len(tx)
  /\ run.base <= Len(job.submissions)
  /\ run.pc \in InContext => run.pos \in DOMAIN run.plan.ctx
  /\ run.pc \in InReturned => run.pos \in DOMAIN run.plan.ret
  /\ run.pc \in {"ctxSent", "sent"} => run.tx # 0 /\ tx[run.tx].sig = AtHand(run)
  /\ \A k \in Passed(run) : \E q \in Trail : q.sig = run.plan.ctx[k]
  /\ run.err = "reverted" => RevertOnRecord

TypeInv ==
  /\ config \in Deployments
  /\ job \in JobRecords /\ job.attempts <= MaxAttempts
  /\ run \in Runs
  /\ command \in {"none", "retry", "resubmit"}
  /\ tx \in Seq(Txs)
  /\ reorgs \in 0 .. ReorgBound
  /\ \A r \in Trail : r.tx <= Len(tx)
  /\ RunSound

(***************************************************************************)
(* One step.                                                               *)
(***************************************************************************)
\* Transactions are added; what was accepted keeps its signal, a revert is final,
\* and only a reorganisation takes a success back.
TxKept(t) ==
  /\ tx'[t].sig = tx[t].sig
  /\ tx[t].state = "reverted" => tx'[t].state = "reverted"
  /\ tx'[t].young => tx[t].young
  /\ reorgs' = reorgs =>
       /\ tx[t].state = "success" => tx'[t].state = "success"
       /\ tx'[t].state = "pending" => tx[t].state = "pending"

TxGrows == Len(tx) <= Len(tx') /\ \A t \in 1 .. Len(tx) : TxKept(t)

\* A record a run writes about the signal at hand.
OfTheRun(r) ==
  \/ run.pc \in InContext /\ r.index < 0 /\ r.sig = AtHand(run)
  \/ run.pc \in InReturned /\ r.index = run.pos - 1 /\ r.sig \in {AtHand(run), NoSignal}

Fresh(r) ==
  /\ r \in Records
  /\ \/ /\ OfTheRun(r)
        /\ r.tx = 0
        /\ IsEvidence(r) => OnChain(AtHand(run))
     \/ /\ OfTheRun(r)
        /\ run.pc \in {"ctxSent", "sent"}
        /\ r.tx = run.tx
        /\ IsEvidence(r) => tx[run.tx].state = "success"
     \/ \E q \in Trail :
          /\ r = [q EXCEPT !.mark = "confirmed"]
          /\ q.tx # 0 /\ tx[q.tx].state = "success"

TrailGrows ==
  /\ Trail \subseteq Trail'
  /\ Len(job.submissions) <= Len(job'.submissions)
  /\ \A r \in Trail' : r \in Trail \/ Fresh(r)

\* The backoff counts from the last broadcast the job has a record of.
CoolsRightly ==
  job'.cooled =>
    \/ \A t \in 1 .. Len(tx') : ~tx'[t].young
    \/ job.cooled /\ \A r \in Trail' \ Trail : r.tx = 0 \/ tx[r.tx].state = "success"

Advances == config' = config /\ TxGrows /\ TrailGrows /\ CoolsRightly

-----------------------------------------------------------------------------
(***************************************************************************)
(* Lemmas on sequences and records.                                        *)
(***************************************************************************)
\* A deployment has the fields the code is configured with.
LEMMA Configured ==
  ASSUME config \in Deployments
  PROVE  /\ Plans \subseteq Handlers /\ MaxAttempts \in Nat \ {0}
         /\ DryRuns \subseteq BOOLEAN /\ TxBound \in Nat /\ TrailBound \in Nat
BY SignalRunAssumption DEF Plans, MaxAttempts, DryRuns, TxBound, TrailBound

\* A handler's lists are sequences of signals.
LEMMA PlanLists ==
  ASSUME NEW p \in Handlers \cup {NoPlan}
  PROVE  /\ p.ctx \in Seq(Signals) /\ p.ret \in Seq(Signals)
         /\ DOMAIN p.ctx = 1 .. Len(p.ctx) /\ Len(p.ctx) \in Nat
         /\ DOMAIN p.ret = 1 .. Len(p.ret) /\ Len(p.ret) \in Nat
<1>1. CASE p \in Handlers
  BY <1>1, SignalRunAssumption
<1>2. CASE p = NoPlan
  BY <1>2 DEF NoPlan
<1> QED BY <1>1, <1>2

\* A record at the end of a trail.
LEMMA Appended ==
  ASSUME NEW S, NEW s \in Seq(S), NEW r \in S
  PROVE  /\ Append(s, r) \in Seq(S)
         /\ ToSet(Append(s, r)) = ToSet(s) \cup {r}
         /\ Len(Append(s, r)) = Len(s) + 1
<1>1. /\ Append(s, r) \in Seq(S) /\ Len(Append(s, r)) = Len(s) + 1
      /\ DOMAIN Append(s, r) = 1 .. Len(s) + 1 /\ DOMAIN s = 1 .. Len(s)
      /\ Len(s) \in Nat
  OBVIOUS
<1>2. /\ \A i \in 1 .. Len(s) : Append(s, r)[i] = s[i]
      /\ Append(s, r)[Len(s) + 1] = r
  OBVIOUS
<1>3. 1 .. Len(s) + 1 = (1 .. Len(s)) \cup {Len(s) + 1}
  BY <1>1
<1> QED BY <1>1, <1>2, <1>3 DEF ToSet

\* Two lists of records in a row.
LEMMA Joined ==
  ASSUME NEW s \in Seq(Records), NEW t \in Seq(Records)
  PROVE  /\ s \o t \in Seq(Records)
         /\ ToSet(s \o t) = ToSet(s) \cup ToSet(t)
         /\ Len(s \o t) = Len(s) + Len(t)
<1>1. /\ s \o t \in Seq(Records) /\ Len(s \o t) = Len(s) + Len(t)
      /\ \A i \in 1 .. Len(s) + Len(t) :
           (s \o t)[i] = IF i <= Len(s) THEN s[i] ELSE t[i - Len(s)]
  BY ConcatProperties
<1>2. /\ DOMAIN (s \o t) = 1 .. Len(s) + Len(t)
      /\ DOMAIN s = 1 .. Len(s) /\ DOMAIN t = 1 .. Len(t)
      /\ Len(s) \in Nat /\ Len(t) \in Nat
  BY <1>1
<1>3. \A i \in DOMAIN s : i \in DOMAIN (s \o t) /\ (s \o t)[i] = s[i]
  BY <1>1, <1>2
<1>4. \A i \in DOMAIN t : i + Len(s) \in DOMAIN (s \o t) /\ (s \o t)[i + Len(s)] = t[i]
  BY <1>1, <1>2
<1>5. \A i \in DOMAIN (s \o t) :
        \/ i \in DOMAIN s /\ (s \o t)[i] = s[i]
        \/ i - Len(s) \in DOMAIN t /\ (s \o t)[i] = t[i - Len(s)]
  BY <1>1, <1>2
<1>6. ToSet(s \o t) \subseteq ToSet(s) \cup ToSet(t)
  BY <1>5 DEF ToSet
<1>7. ToSet(s) \subseteq ToSet(s \o t) /\ ToSet(t) \subseteq ToSet(s \o t)
  BY <1>3, <1>4, Zenon DEF ToSet
<1> QED BY <1>1, <1>6, <1>7

\* The records of one or two in a row.
LEMMA FewRecords ==
  ASSUME NEW a \in Records, NEW b \in Records
  PROVE  /\ <<a>> \in Seq(Records) /\ ToSet(<<a>>) = {a} /\ Len(<<a>>) = 1
         /\ <<a, b>> \in Seq(Records) /\ ToSet(<<a, b>>) = {a, b} /\ Len(<<a, b>>) = 2
<1>1. DOMAIN <<a>> = {1} /\ DOMAIN <<a, b>> = {1, 2}
  OBVIOUS
<1> QED BY <1>1 DEF ToSet

\* What the trail holds are records.
LEMMA TrailFacts ==
  ASSUME job \in JobRecords
  PROVE  /\ job.submissions \in Seq(Records) /\ Trail \subseteq Records
         /\ Len(job.submissions) \in Nat
         /\ \A i \in 1 .. Len(job.submissions) : job.submissions[i] \in Trail
         /\ IsFiniteSet(Trail)
<1>1. job.submissions \in Seq(Records)
  BY DEF JobRecords
<1>2. /\ Trail \subseteq Records /\ Len(job.submissions) \in Nat
      /\ DOMAIN job.submissions = 1 .. Len(job.submissions)
  BY <1>1 DEF Trail, ToSet
<1>3. \A i \in 1 .. Len(job.submissions) : job.submissions[i] \in Trail
  BY <1>2 DEF Trail, ToSet
<1>4. Trail = {job.submissions[i] : i \in 1 .. Len(job.submissions)}
  BY <1>2 DEF Trail, ToSet
<1>5. IsFiniteSet(Trail)
  <2> DEFINE n == Len(job.submissions)
  <2>1. IsFiniteSet(1 .. n)
    BY <1>2, FS_Interval
  <2> DEFINE f == [i \in 1 .. n |-> job.submissions[i]]
  <2>2. f \in Surjection(1 .. n, Trail)
    BY <1>4 DEF Surjection
  <2> QED BY <2>1, <2>2, FS_Surjection
<1> QED BY <1>1, <1>2, <1>3, <1>5

-----------------------------------------------------------------------------
(***************************************************************************)
(* From the parts of a step to the invariant.                              *)
(***************************************************************************)
\* What TypeInv gives every step.
LEMMA Typed ==
  ASSUME TypeInv
  PROVE  /\ job \in JobRecords /\ run \in Runs /\ tx \in Seq(Txs)
         /\ Len(tx) \in Nat /\ DOMAIN tx = 1 .. Len(tx)
         /\ \A t \in 1 .. Len(tx) : tx[t] \in Txs
         /\ Plans \subseteq Handlers /\ MaxAttempts \in Nat \ {0}
         /\ run.plan \in Handlers \cup {NoPlan}
BY Configured DEF TypeInv, RunSound, Runs

\* Where the chain and the pool are left alone nothing happens to them.
LEMMA TxStays ==
  ASSUME TypeInv, tx' = tx, reorgs' = reorgs
  PROVE  TxGrows /\ tx' \in Seq(Txs) /\ Len(tx') = Len(tx) /\ reorgs' \in 0 .. ReorgBound
BY Typed DEF TypeInv, TxGrows, TxKept

\* A trail that is not written does not change.
LEMMA TrailStays ==
  ASSUME TypeInv, job'.submissions = job.submissions
  PROVE  TrailGrows /\ Trail' = Trail /\ Len(job'.submissions) = Len(job.submissions)
BY Typed, TrailFacts DEF TrailGrows, Trail

\* The new trail is the old one and the records in R.
LEMMA TrailAdds ==
  ASSUME TypeInv, NEW R, ToSet(job'.submissions) = Trail \cup R,
         Len(job.submissions) <= Len(job'.submissions),
         \A r \in R : Fresh(r)
  PROVE  TrailGrows /\ Trail' = Trail \cup R
BY DEF TrailGrows, Trail

\* A record on the trail, now or after the step, is about a known transaction.
LEMMA TrailKnown ==
  ASSUME TypeInv, TxGrows, TrailGrows, Len(tx') \in Nat
  PROVE  \A r \in Trail' : r.tx <= Len(tx')
<1>1. \A r \in Trail : r \in Records /\ r.tx <= Len(tx)
  BY Typed, TrailFacts DEF TypeInv
<1>2. ASSUME NEW r, Fresh(r) PROVE r \in Records /\ r.tx <= Len(tx)
  <2>1. CASE r.tx = 0
    BY <1>2, <2>1, Typed DEF Fresh
  <2>2. CASE r.tx = run.tx
    BY <1>2, <2>2 DEF Fresh, TypeInv, RunSound
  <2>3. CASE \E q \in Trail : r = [q EXCEPT !.mark = "confirmed"]
    <3>1. PICK q \in Trail : r = [q EXCEPT !.mark = "confirmed"]
      BY <2>3
    <3>2. r.tx = q.tx
      BY <1>1, <3>1 DEF Records
    <3> QED BY <1>1, <1>2, <3>1, <3>2 DEF Fresh
  <2> QED BY <1>2, <2>1, <2>2, <2>3 DEF Fresh
<1> QED BY <1>1, <1>2, Typed DEF TrailGrows, TxGrows, Records

\* A step whose parts are in order preserves the invariant.
LEMMA Assemble ==
  ASSUME TypeInv, config' = config, job' \in JobRecords, run' \in Runs,
         tx' \in Seq(Txs), TxGrows, TrailGrows, job'.attempts <= MaxAttempts,
         command' \in {"none", "retry", "resubmit"}, reorgs' \in 0 .. ReorgBound,
         RunSound'
  PROVE  TypeInv'
<1>1. \A r \in Trail' : r.tx <= Len(tx')
  BY TrailKnown
<1>2. MaxAttempts' = MaxAttempts
  BY DEF MaxAttempts
<1>3. config' \in Deployments
  BY DEF TypeInv
<1> QED BY <1>1, <1>2, <1>3 DEF TypeInv

\* A revert on record stays there.
LEMMA RevertStays ==
  ASSUME TypeInv, TxGrows, TrailGrows, RevertOnRecord
  PROVE  RevertOnRecord'
<1>1. PICK r \in Trail : r.tx # 0 /\ tx[r.tx].state = "reverted"
  BY DEF RevertOnRecord
<1>2. r \in Trail' /\ r.tx \in 1 .. Len(tx)
  BY <1>1, Typed, TrailFacts DEF TrailGrows, TypeInv, Records
<1>3. tx'[r.tx].state = "reverted"
  BY <1>1, <1>2 DEF TxGrows, TxKept
<1> QED BY <1>1, <1>2, <1>3 DEF RevertOnRecord

\* The run goes on: where it has come to is a place it has earned.
LEMMA RunMoves ==
  ASSUME TypeInv, config' = config, TxGrows, TrailGrows, tx' \in Seq(Txs),
         run.pc # "idle", job'.status = job.status,
         NEW r \in Runs, run' = r, r.plan = run.plan,
         r.tx <= Len(tx'), r.base <= Len(job'.submissions),
         r.pc \in InContext => r.pos \in DOMAIN run.plan.ctx,
         r.pc \in InReturned => r.pos \in DOMAIN run.plan.ret,
         r.pc \in {"ctxSent", "sent"} => r.tx # 0 /\ tx'[r.tx].sig = AtHand(r),
         \A k \in Passed(r) : k \in Passed(run) \/ \E q \in Trail' : q.sig = run.plan.ctx[k],
         r.err = "reverted" => run.err = "reverted" \/ RevertOnRecord'
  PROVE  RunSound'
<1>1. RunSound /\ run.plan \in Plans /\ job.status = "matched"
  BY DEF TypeInv, RunSound
<1>2. Plans' = Plans
  BY DEF Plans
<1>3. \A k \in Passed(r) : \E q \in Trail' : q.sig = r.plan.ctx[k]
  BY <1>1 DEF RunSound, TrailGrows
<1>4. r.err = "reverted" => RevertOnRecord'
  BY <1>1, RevertStays DEF RunSound
<1>5. /\ run'.plan \in Plans' \cup {NoPlan}
      /\ run'.pc # "idle" => run'.plan \in Plans' /\ job'.status = "matched"
      /\ run'.tx <= Len(tx') /\ run'.base <= Len(job'.submissions)
      /\ run'.pc \in InContext => run'.pos \in DOMAIN run'.plan.ctx
      /\ run'.pc \in InReturned => run'.pos \in DOMAIN run'.plan.ret
      /\ run'.pc \in {"ctxSent", "sent"} => run'.tx # 0 /\ tx'[run'.tx].sig = AtHand(r)
  BY <1>1, <1>2
<1> QED BY <1>3, <1>4, <1>5 DEF RunSound

\* An idle run has nothing to answer for.
LEMMA IdleFacts ==
  /\ IdleRun \in Runs /\ IdleRun.pc = "idle" /\ IdleRun.plan = NoPlan
  /\ IdleRun.tx = 0 /\ IdleRun.base = 0 /\ IdleRun.err = "none" /\ IdleRun.bypass = FALSE
  /\ Passed(IdleRun) = {}
<1>1. /\ IdleRun \in Runs /\ IdleRun.pc = "idle" /\ IdleRun.plan = NoPlan
      /\ IdleRun.tx = 0 /\ IdleRun.base = 0 /\ IdleRun.err = "none"
      /\ IdleRun.bypass = FALSE
  BY DEF IdleRun, Runs, Stages, Errors
<1> QED BY <1>1 DEF Passed, InContext, AfterHandler

\* A run that is over, however it ended.
LEMMA RunIdles ==
  ASSUME run' = IdleRun, Len(tx') \in Nat, Len(job'.submissions) \in Nat
  PROVE  run' \in Runs /\ RunSound'
<1>1. Passed(run') = {}
  BY IdleFacts
<1>2. run' \in Runs /\ run'.pc = "idle" /\ run'.plan = NoPlan
      /\ run'.tx = 0 /\ run'.base = 0 /\ run'.err = "none"
  BY IdleFacts
<1>3. \A k \in Passed(run') : \E q \in Trail' : q.sig = run'.plan.ctx[k]
  BY <1>1
<1> QED BY <1>2, <1>3 DEF RunSound, InContext, InReturned

\* A step of somebody else leaves the run where it is.
LEMMA RunStays ==
  ASSUME TypeInv, config' = config, TxGrows, TrailGrows, tx' \in Seq(Txs),
         job' \in JobRecords, run' = run, run.pc # "idle" => job'.status = job.status
  PROVE  run' \in Runs /\ RunSound'
<1>1. RunSound /\ run \in Runs /\ Len(tx') \in Nat /\ Len(job'.submissions) \in Nat
      /\ Len(tx) <= Len(tx') /\ Len(job.submissions) <= Len(job'.submissions)
      /\ Len(tx) \in Nat /\ Len(job.submissions) \in Nat
  BY Typed, TrailFacts DEF TypeInv, TxGrows, TrailGrows, JobRecords
<1>2. Plans' = Plans
  BY DEF Plans
<1>3. \A k \in Passed(run) : \E q \in Trail' : q.sig = run.plan.ctx[k]
  BY <1>1 DEF RunSound, TrailGrows
<1>4. run.err = "reverted" => RevertOnRecord'
  BY <1>1, RevertStays DEF RunSound
<1>5. /\ run'.plan \in Plans' \cup {NoPlan}
      /\ run'.pc # "idle" => run'.plan \in Plans' /\ job'.status = "matched"
      /\ run'.tx <= Len(tx') /\ run'.base <= Len(job'.submissions)
      /\ run'.pc \in InContext => run'.pos \in DOMAIN run'.plan.ctx
      /\ run'.pc \in InReturned => run'.pos \in DOMAIN run'.plan.ret
  BY <1>1, <1>2 DEF RunSound, Runs
<1>6. run'.pc \in {"ctxSent", "sent"} => run'.tx # 0 /\ tx'[run'.tx].sig = AtHand(run)
  BY <1>1 DEF RunSound, TxGrows, TxKept, Runs
<1>7. run' \in Runs
  BY <1>1
<1> QED BY <1>3, <1>4, <1>5, <1>6, <1>7 DEF RunSound

-----------------------------------------------------------------------------
(***************************************************************************)
(* The chain, the clock, the scan and the operator.                        *)
(***************************************************************************)
\* A transaction that changes its state, not its signal.
LEMMA TxChanges ==
  ASSUME TypeInv, NEW t \in DOMAIN tx, NEW s \in States,
         tx' = [tx EXCEPT ![t].state = s],
         tx[t].state # "reverted",
         reorgs' = reorgs => tx[t].state # "success" /\ s # "pending"
  PROVE  TxGrows /\ tx' \in Seq(Txs) /\ Len(tx') = Len(tx)
<1>1. [tx[t] EXCEPT !.state = s] \in Txs
  BY Typed DEF Txs
<1>2. tx' = [tx EXCEPT ![t] = [tx[t] EXCEPT !.state = s]]
  OBVIOUS
<1>3. /\ tx' \in Seq(Txs) /\ Len(tx') = Len(tx)
      /\ \A u \in 1 .. Len(tx) :
           tx'[u] = IF u = t THEN [tx[t] EXCEPT !.state = s] ELSE tx[u]
  BY <1>1, <1>2, ExceptSeq, Typed
<1>4. ASSUME NEW u \in 1 .. Len(tx) PROVE TxKept(u)
  <2>1. CASE u = t
    BY <1>3, <2>1, Typed DEF TxKept, Txs
  <2>2. CASE u # t
    BY <1>3, <2>2 DEF TxKept
  <2> QED BY <2>1, <2>2
<1> QED BY <1>3, <1>4, Typed DEF TxGrows

\* The chain mines, drops and takes back what it has.
LEMMA ChainSteps ==
  ASSUME TypeInv, ChainStep
  PROVE  TypeInv' /\ Advances
<1>1. PICK t \in DOMAIN tx : Mine(t) \/ Drop(t) \/ Reorg(t)
  BY DEF ChainStep
<1>2. PICK s \in States : tx' = [tx EXCEPT ![t].state = s]
  BY <1>1 DEF Mine, Drop, Reorg, States
<1>3. /\ config' = config /\ job' = job /\ run' = run /\ command' = command
      /\ tx[t].state # "reverted" /\ reorgs' \in 0 .. ReorgBound
  BY <1>1, SignalRunAssumption DEF Mine, Drop, Reorg, TypeInv
<1>4. reorgs' = reorgs => tx[t].state # "success" /\ s # "pending"
  <2>1. CASE Mine(t)
    BY <1>2, <2>1, Typed DEF Mine, Txs
  <2>2. CASE Drop(t)
    BY <1>2, <2>2, Typed DEF Drop, Txs
  <2>3. CASE Reorg(t)
    BY <2>3 DEF Reorg, TypeInv
  <2> QED BY <1>1, <2>1, <2>2, <2>3
<1>5. TxGrows /\ tx' \in Seq(Txs) /\ Len(tx') = Len(tx)
  BY <1>2, <1>3, <1>4, TxChanges
<1>6. TrailGrows /\ Trail' = Trail
  BY <1>3, TrailStays
<1>7. run' \in Runs /\ RunSound'
  BY <1>3, <1>5, <1>6, RunStays, Typed
<1>8. CoolsRightly
  BY <1>3, <1>6 DEF CoolsRightly
<1>9. TypeInv'
  BY <1>3, <1>5, <1>6, <1>7, Assemble DEF TypeInv
<1> QED BY <1>3, <1>5, <1>6, <1>8, <1>9 DEF Advances

\* The backoff of the job has elapsed.
LEMMA BackoffStep ==
  ASSUME TypeInv, BackoffElapses
  PROVE  TypeInv' /\ Advances
<1>1. /\ config' = config /\ run' = run /\ command' = command /\ reorgs' = reorgs
      /\ job' = [job EXCEPT !.cooled = TRUE]
      /\ tx' = [t \in 1 .. Len(tx) |-> [tx[t] EXCEPT !.young = FALSE]]
  BY Typed DEF BackoffElapses
<1>2. \A t \in 1 .. Len(tx) :
        /\ [tx[t] EXCEPT !.young = FALSE] \in Txs
        /\ tx'[t].sig = tx[t].sig /\ tx'[t].state = tx[t].state /\ tx'[t].young = FALSE
  BY <1>1, Typed DEF Txs
<1>3. tx' \in [1 .. Len(tx) -> Txs]
  BY <1>1, <1>2
<1>4. tx' \in Seq(Txs) /\ Len(tx') = Len(tx)
  BY <1>3, Typed
<1>5. TxGrows
  <2>1. ASSUME NEW t \in 1 .. Len(tx) PROVE TxKept(t)
    <3>1. tx'[t].sig = tx[t].sig /\ tx'[t].state = tx[t].state /\ ~tx'[t].young
      BY <1>2
    <3> QED BY <3>1 DEF TxKept
  <2> QED BY <1>4, <2>1, Typed DEF TxGrows
<1>6. /\ job' \in JobRecords /\ job'.submissions = job.submissions
      /\ job'.status = job.status /\ job'.attempts = job.attempts
  BY <1>1, Typed DEF JobRecords
<1>7. TrailGrows
  BY <1>6, TrailStays
<1>8. run' \in Runs /\ RunSound'
  BY <1>1, <1>4, <1>5, <1>6, <1>7, RunStays
<1>9. CoolsRightly
  BY <1>2, <1>4 DEF CoolsRightly
<1>10. TypeInv'
  BY <1>1, <1>4, <1>5, <1>6, <1>7, <1>8, Assemble DEF TypeInv
<1> QED BY <1>1, <1>5, <1>7, <1>9, <1>10 DEF Advances

\* A run starts on an open job.
LEMMA StartStep ==
  ASSUME TypeInv, NEW plan \in Plans, NEW dry \in BOOLEAN, NEW resubmit \in BOOLEAN,
         NEW bypass \in BOOLEAN, StartRun(plan, dry, resubmit, bypass),
         command' \in {"none", "retry", "resubmit"}
  PROVE  TypeInv' /\ Advances
<1> DEFINE prior == Cardinality(ContextIndexes)
<1>1. prior \in Nat
  <2> DEFINE T == {q \in Trail : q.index < 0}
  <2>1. IsFiniteSet(T)
    BY Typed, TrailFacts, FS_Subset
  <2> DEFINE f == [q \in T |-> q.index]
  <2>2. f \in Surjection(T, ContextIndexes)
    BY DEF Surjection, ContextIndexes
  <2>3. IsFiniteSet(ContextIndexes)
    BY <2>1, <2>2, FS_Surjection
  <2> QED BY <2>3, FS_CardinalityType
<1>2. PICK n \in Nat : n = prior
  BY <1>1
<1>3. PICK r \in Runs :
        /\ run' = r /\ r.pc = "handler" /\ r.plan = plan /\ r.pos = 1 /\ r.base = 0
        /\ r.tx = 0 /\ r.err = "none" /\ r.bypass = bypass
  <2> DEFINE R == [pc |-> "handler", plan |-> plan, dry |-> dry, resubmit |-> resubmit,
                   bypass |-> bypass, pos |-> 1, try |-> 1, prior |-> n, count |-> 0,
                   deferred |-> FALSE, base |-> 0, delivered |-> {}, tx |-> 0,
                   err |-> "none"]
  <2>1. run' = R
    BY <1>2 DEF StartRun, IdleRun
  <2>2. plan \in Handlers
    BY Typed
  <2>3. /\ R \in Runs /\ R.pc = "handler" /\ R.plan = plan /\ R.pos = 1 /\ R.base = 0
        /\ R.tx = 0 /\ R.err = "none" /\ R.bypass = bypass
    BY <2>2 DEF Runs, Stages
  <2> QED BY <2>1, <2>3
<1>4. /\ config' = config /\ tx' = tx /\ reorgs' = reorgs /\ run.pc = "idle"
      /\ job' = [job EXCEPT !.status = "matched"]
  BY DEF StartRun
<1>5. /\ job' \in JobRecords /\ job'.submissions = job.submissions
      /\ job'.status = "matched" /\ job'.attempts = job.attempts
      /\ job'.cooled = job.cooled
  BY <1>4, Typed DEF JobRecords, Statuses
<1>6. TrailGrows /\ Trail' = Trail /\ Len(job'.submissions) = Len(job.submissions)
  BY <1>5, TrailStays
<1>7. TxGrows /\ tx' \in Seq(Txs) /\ Len(tx') = Len(tx) /\ reorgs' \in 0 .. ReorgBound
  BY <1>4, TxStays
<1>8. Passed(r) = {}
  BY <1>3, PlanLists, Typed DEF Passed, AfterHandler
<1>9. RunSound'
  <2>1. Plans' = Plans
    BY <1>4 DEF Plans
  <2>2. \A k \in Passed(run') : \E q \in Trail' : q.sig = run'.plan.ctx[k]
    BY <1>3, <1>8
  <2>3. Len(tx') \in Nat /\ Len(job'.submissions) \in Nat
    BY <1>6, <1>7, Typed, TrailFacts
  <2> QED BY <1>3, <1>5, <2>1, <2>2, <2>3 DEF RunSound, InContext, InReturned
<1>10. TypeInv'
  BY <1>3, <1>4, <1>5, <1>6, <1>7, <1>9, Assemble DEF TypeInv
<1> QED BY <1>4, <1>5, <1>6, <1>7, <1>10 DEF Advances, CoolsRightly

\* A step that only changes the status of an idle job, or nothing but the command.
LEMMA StatusStep ==
  ASSUME TypeInv, UNCHANGED <<config, run, tx, reorgs>>,
         NEW s \in Statuses, NEW n \in Nat, n <= MaxAttempts,
         job' = [job EXCEPT !.status = s, !.attempts = n],
         s # job.status => run.pc = "idle",
         command' \in {"none", "retry", "resubmit"}
  PROVE  TypeInv' /\ Advances
<1>1. /\ job' \in JobRecords /\ job'.submissions = job.submissions
      /\ job'.status = s /\ job'.attempts = n /\ job'.cooled = job.cooled
  BY Typed DEF JobRecords
<1>2. TrailGrows /\ Trail' = Trail
  BY <1>1, TrailStays
<1>3. TxGrows /\ tx' \in Seq(Txs) /\ reorgs' \in 0 .. ReorgBound
  BY TxStays
<1>4. run' \in Runs /\ RunSound'
  BY <1>1, <1>2, <1>3, RunStays
<1>5. TypeInv'
  BY <1>1, <1>2, <1>3, <1>4, Assemble
<1> QED BY <1>1, <1>2, <1>3, <1>5 DEF Advances, CoolsRightly

\* What the operator's commands do.
LEMMA CommandSteps ==
  ASSUME TypeInv, CommandStep
  PROVE  TypeInv' /\ Advances
<1>1. CASE RetryCommand
  <2>1. PICK n \in {0, job.attempts} :
          job' = [job EXCEPT !.status = "detected", !.attempts = n]
    BY <1>1 DEF RetryCommand
  <2>2. n \in Nat /\ n <= MaxAttempts
    BY <2>1, Typed DEF TypeInv, JobRecords
  <2>3. /\ UNCHANGED <<config, run, tx, reorgs>> /\ run.pc = "idle"
        /\ command' \in {"none", "retry", "resubmit"}
    BY <1>1 DEF RetryCommand
  <2> QED BY <2>1, <2>2, <2>3, StatusStep DEF Statuses
<1>2. CASE RetryExhausted \/ DeadLetterCommand
  <2>1. /\ job' = [job EXCEPT !.status = "dead_letter"]
        /\ UNCHANGED <<config, run, tx, reorgs>> /\ run.pc = "idle"
        /\ command' \in {"none", "retry", "resubmit"}
    BY <1>2 DEF RetryExhausted, DeadLetterCommand, TypeInv
  <2>2. PICK n \in Nat : n = job.attempts /\ n <= MaxAttempts
    BY Typed DEF TypeInv, JobRecords
  <2>3. job' = [job EXCEPT !.status = "dead_letter", !.attempts = n]
    BY <2>1, <2>2, Typed DEF JobRecords
  <2> QED BY <2>1, <2>2, <2>3, StatusStep DEF Statuses
<1>3. CASE CommandYields
  <2>1. /\ job' = job /\ UNCHANGED <<config, run, tx, reorgs>>
        /\ command' \in {"none", "retry", "resubmit"}
    BY <1>3 DEF CommandYields
  <2>2. PICK n \in Nat : n = job.attempts /\ n <= MaxAttempts
    BY Typed DEF TypeInv, JobRecords
  <2>3. PICK s \in Statuses : s = job.status
    BY Typed DEF JobRecords
  <2>4. job' = [job EXCEPT !.status = s, !.attempts = n]
    BY <2>1, <2>2, <2>3, Typed DEF JobRecords
  <2> QED BY <2>1, <2>2, <2>3, <2>4, StatusStep
<1>4. CASE \E plan \in Plans, dry \in DryRuns : CommandRun(plan, dry)
  <2>1. PICK plan \in Plans, dry \in DryRuns : CommandRun(plan, dry)
    BY <1>4
  <2>2. dry \in BOOLEAN
    BY Configured DEF TypeInv
  <2>3. PICK b \in BOOLEAN : b = (command = "resubmit")
    OBVIOUS
  <2>4. StartRun(plan, dry, b, TRUE) /\ command' = "none"
    BY <2>1, <2>3 DEF CommandRun
  <2> QED BY <2>2, <2>4, StartStep
<1> QED BY <1>1, <1>2, <1>3, <1>4 DEF CommandStep

\* A poll round takes the job up.
LEMMA ScanSteps ==
  ASSUME TypeInv, ScanStep
  PROVE  TypeInv' /\ Advances
<1>1. PICK plan \in Plans, dry \in DryRuns : Scan(plan, dry)
  BY DEF ScanStep
<1>2. dry \in BOOLEAN
  BY Configured DEF TypeInv
<1>3. StartRun(plan, dry, FALSE, FALSE) /\ command' = command
  BY <1>1 DEF Scan
<1> QED BY <1>2, <1>3, StartStep DEF TypeInv

\* A run that ends: the job gets a status, or keeps the one it has.
LEMMA RunEnds ==
  ASSUME TypeInv, UNCHANGED <<config, tx, reorgs>>, run' = IdleRun,
         job' \in JobRecords, job'.attempts <= MaxAttempts,
         job'.submissions = job.submissions, job'.cooled = job.cooled,
         command' \in {"none", "retry", "resubmit"}
  PROVE  TypeInv' /\ Advances
<1>1. TrailGrows /\ Trail' = Trail /\ Len(job'.submissions) = Len(job.submissions)
  BY TrailStays
<1>2. TxGrows /\ tx' \in Seq(Txs) /\ reorgs' \in 0 .. ReorgBound /\ Len(tx') = Len(tx)
  BY TxStays
<1>3. run' \in Runs /\ RunSound'
  BY <1>1, <1>2, RunIdles, Typed, TrailFacts
<1>4. TypeInv'
  BY <1>1, <1>2, <1>3, Assemble
<1> QED BY <1>1, <1>2, <1>4 DEF Advances, CoolsRightly

\* The run dies.
LEMMA AbortStep ==
  ASSUME TypeInv, Abort
  PROVE  TypeInv' /\ Advances
BY RunEnds DEF Abort, TypeInv

\* The run writes its conclusion.
LEMMA ConcludeStep ==
  ASSUME TypeInv, NEW s \in Statuses, ConcludeRun(s)
  PROVE  TypeInv' /\ Advances
<1>1. /\ job' \in JobRecords /\ job'.attempts = job.attempts
      /\ job'.submissions = job.submissions /\ job'.cooled = job.cooled
  BY Typed DEF ConcludeRun, JobRecords
<1> QED BY <1>1, RunEnds DEF ConcludeRun, TypeInv

-----------------------------------------------------------------------------
(***************************************************************************)
(* What a run looks up.                                                    *)
(***************************************************************************)
\* A set of naturals that is not empty has a least element.
LEMMA LeastExists ==
  ASSUME NEW S \in SUBSET Nat, S # {}
  PROVE  \E h \in S : \A g \in S : h <= g
<1>1. IsWellFoundedOn(OpToRel(<, Nat), Nat)
  BY NatLessThanWellFounded, Zenon
<1>2. PICK x \in S : \A y \in S : ~ (<<y, x>> \in OpToRel(<, Nat))
  BY <1>1, WFMin, Zenon
<1>3. \A y \in S : ~(y < x)
  BY <1>2 DEF OpToRel
<1> QED BY <1>3

\* A set of positions has a smallest and a largest one.
LEMMA Extremes ==
  ASSUME NEW n \in Nat, NEW S \in SUBSET (1 .. n), S # {}
  PROVE  Min(S) \in S /\ Max(S) \in S
<1>1. \E x \in S : \A y \in S : x <= y
  BY LeastExists
<1>2. \E x \in S : \A y \in S : x >= y
  <2> DEFINE T == {n - x : x \in S}
  <2>1. \A x \in S : n - x \in Nat
    OBVIOUS
  <2>2. T \in SUBSET Nat /\ T # {}
    BY <2>1
  <2>3. PICK m \in T : \A y \in T : m <= y
    BY <2>2, LeastExists
  <2>4. PICK x \in S : m = n - x
    BY <2>3
  <2>5. \A y \in S : m <= n - y
    BY <2>3
  <2>6. \A y \in S : x >= y
    BY <2>4, <2>5
  <2> QED BY <2>6
<1> QED BY <1>1, <1>2 DEF Min, Max

\* A recorded delivery of the signal, if there is one.
LEMMA EvidenceFound ==
  ASSUME TypeInv, NEW s, FirstEvidence(s) # 0
  PROVE  \E q \in Trail : q.sig = s
<1> DEFINE n == Len(job.submissions)
           I == {i \in 1 .. n : /\ job.submissions[i].sig = s
                                /\ IsEvidence(job.submissions[i])}
<1>1. I # {} /\ FirstEvidence(s) = Min(I)
  BY DEF FirstEvidence, SelectInSeq
<1>2. n \in Nat /\ \A i \in 1 .. n : job.submissions[i] \in Trail
  BY Typed, TrailFacts
<1>3. Min(I) \in I
  BY <1>1, <1>2, Extremes
<1> QED BY <1>2, <1>3

\* The last broadcast of the signal without a known outcome, or that there is none.
LEMMA UnresolvedFound ==
  ASSUME TypeInv, NEW s
  PROVE  /\ LastUnresolved(s) # 0 =>
              /\ job.submissions[LastUnresolved(s)] \in Trail
              /\ job.submissions[LastUnresolved(s)].sig = s
              /\ IsUnconfirmedBroadcast(job.submissions[LastUnresolved(s)])
         /\ LastUnresolved(s) = 0 =>
              \A q \in Trail : q.sig = s => ~IsUnconfirmedBroadcast(q)
<1> DEFINE n == Len(job.submissions)
           I == {i \in 1 .. n : /\ job.submissions[i].sig = s
                                /\ IsUnconfirmedBroadcast(job.submissions[i])}
<1>1. LastUnresolved(s) = IF I # {} THEN Max(I) ELSE 0
  BY DEF LastUnresolved, SelectLastInSeq
<1>2. n \in Nat /\ \A i \in 1 .. n : job.submissions[i] \in Trail
  BY Typed, TrailFacts
<1>3. CASE I # {}
  <2>1. Max(I) \in I
    BY <1>2, <1>3, Extremes
  <2>2. LastUnresolved(s) \in I
    BY <1>1, <1>3, <2>1
  <2>3. LastUnresolved(s) # 0
    BY <1>2, <2>2
  <2> QED BY <1>2, <2>2, <2>3
<1>4. CASE I = {}
  <2>1. \A q \in Trail : \E i \in 1 .. n : q = job.submissions[i]
    BY Typed DEF Trail, ToSet, JobRecords
  <2> QED BY <1>1, <1>4, <2>1
<1> QED BY <1>3, <1>4

\* A receipt that says something is that of the transaction.
LEMMA Receipts ==
  ASSUME NEW t, NEW receipt \in LookupBroadcastReceipt(t)
  PROVE  /\ receipt \in {"success", "reverted", "unknown"}
         /\ receipt = "success" => tx[t].state = "success"
         /\ receipt = "reverted" => tx[t].state = "reverted"
<1>1. receipt \in Receipt(t) \cup {"unknown"}
  BY DEF LookupBroadcastReceipt
<1> QED BY <1>1 DEF Receipt

\* The same of what a wait for the receipt ends with.
LEMMA Waits ==
  ASSUME NEW outcome \in WaitOutcomes
  PROVE  /\ outcome \in SentOutcomes
         /\ outcome = "success" => tx[run.tx].state = "success"
         /\ outcome = "reverted" => tx[run.tx].state = "reverted"
<1>1. outcome \in {"sent", "retryable", "permanent"} \cup (Receipt(run.tx) \ {"unknown"})
  BY DEF WaitOutcomes
<1> QED BY <1>1 DEF Receipt, SentOutcomes

(***************************************************************************)
(* What a run writes.                                                      *)
(***************************************************************************)
\* A write of the trail, the attempts and the time of the last broadcast.
LEMMA Writing ==
  ASSUME TypeInv, NEW S \in Seq(Records), NEW R, ToSet(S) = Trail \cup R,
         Len(job.submissions) <= Len(S), \A r \in R : Fresh(r),
         NEW n \in Nat, n <= MaxAttempts, NEW c \in BOOLEAN,
         c => job.cooled /\ \A r \in R : r.tx = 0 \/ tx[r.tx].state = "success",
         job' = [job EXCEPT !.submissions = S, !.attempts = n, !.cooled = c]
  PROVE  /\ job' \in JobRecords /\ job'.status = job.status
         /\ job'.attempts <= MaxAttempts
         /\ TrailGrows /\ Trail' = Trail \cup R /\ CoolsRightly
<1>1. /\ job' \in JobRecords /\ job'.status = job.status /\ job'.submissions = S
      /\ job'.attempts = n /\ job'.cooled = c
  BY Typed DEF JobRecords
<1>2. TrailGrows /\ Trail' = Trail \cup R
  BY <1>1, TrailAdds
<1> QED BY <1>1, <1>2 DEF CoolsRightly

\* One record, with the broadcast time reset.
LEMMA WritesOne ==
  ASSUME TypeInv, NEW r, Fresh(r), WithRecord(r)
  PROVE  /\ job' \in JobRecords /\ job'.status = job.status
         /\ job'.attempts <= MaxAttempts
         /\ TrailGrows /\ Trail' = Trail \cup {r} /\ CoolsRightly
<1>1. r \in Records /\ job.submissions \in Seq(Records)
  BY Typed, TrailFacts DEF Fresh
<1>2. PICK S \in Seq(Records) : /\ S = Append(job.submissions, r)
                                /\ ToSet(S) = Trail \cup {r}
                                /\ Len(S) = Len(job.submissions) + 1
  BY <1>1, Appended DEF Trail
<1>3. PICK n \in Nat : n = job.attempts /\ n <= MaxAttempts
  BY Typed DEF TypeInv, JobRecords
<1>4. job' = [job EXCEPT !.submissions = S, !.attempts = n, !.cooled = FALSE]
  BY <1>2, <1>3, Typed DEF WithRecord, JobRecords
<1>5. Len(job.submissions) <= Len(S)
  BY <1>1, <1>2
<1>6. PICK R : R = {r}
  OBVIOUS
<1>7. /\ ToSet(S) = Trail \cup R /\ \A q \in R : Fresh(q)
  BY <1>2, <1>6
<1> QED BY <1>3, <1>4, <1>5, <1>6, <1>7, Writing

\* One record that settles a transaction, or of none; the broadcast time stays.
LEMMA WritesQuietly ==
  ASSUME TypeInv, NEW r, Fresh(r), r.tx = 0 \/ tx[r.tx].state = "success",
         job' = [job EXCEPT !.submissions = Append(@, r)]
  PROVE  /\ job' \in JobRecords /\ job'.status = job.status
         /\ job'.attempts <= MaxAttempts
         /\ TrailGrows /\ Trail' = Trail \cup {r} /\ CoolsRightly
<1>1. r \in Records /\ job.submissions \in Seq(Records)
  BY Typed, TrailFacts DEF Fresh
<1>2. PICK S \in Seq(Records) : /\ S = Append(job.submissions, r)
                                /\ ToSet(S) = Trail \cup {r}
                                /\ Len(S) = Len(job.submissions) + 1
  BY <1>1, Appended DEF Trail
<1>3. PICK n \in Nat : n = job.attempts /\ n <= MaxAttempts
  BY Typed DEF TypeInv, JobRecords
<1>4. PICK c \in BOOLEAN : c = job.cooled
  BY Typed DEF JobRecords
<1>5. job' = [job EXCEPT !.submissions = S, !.attempts = n, !.cooled = c]
  BY <1>2, <1>3, <1>4, Typed DEF JobRecords
<1>6. Len(job.submissions) <= Len(S)
  BY <1>1, <1>2
<1>7. PICK R : R = {r}
  OBVIOUS
<1>8. /\ ToSet(S) = Trail \cup R /\ \A q \in R : Fresh(q)
      /\ c => job.cooled /\ \A q \in R : q.tx = 0 \/ tx[q.tx].state = "success"
  BY <1>2, <1>4, <1>7
<1> QED BY <1>3, <1>5, <1>6, <1>7, <1>8, Writing

\* Nothing is written.
LEMMA WritesNothing ==
  ASSUME TypeInv, job' = job
  PROVE  /\ job' \in JobRecords /\ job'.status = job.status
         /\ job'.attempts <= MaxAttempts
         /\ TrailGrows /\ Trail' = Trail /\ CoolsRightly
<1>1. TrailGrows /\ Trail' = Trail
  BY TrailStays
<1> QED BY <1>1, Typed DEF TypeInv, CoolsRightly

\* The copy of a record that a receipt has confirmed.
LEMMA Settles ==
  ASSUME TypeInv, NEW q \in Trail, q.tx # 0, tx[q.tx].state = "success", NEW r,
         r = [q EXCEPT !.mark = "confirmed"]
  PROVE  Fresh(r) /\ r.tx = q.tx /\ r.sig = q.sig /\ r.index = q.index
<1>1. q \in Records
  BY Typed, TrailFacts
<1>2. r \in Records /\ r.tx = q.tx /\ r.sig = q.sig /\ r.index = q.index
  BY <1>1 DEF Records, Marks
<1> QED BY <1>2 DEF Fresh

\* One more attempt stays within the budget.
LEMMA Bumped ==
  ASSUME TypeInv
  PROVE  Bump(job.attempts) \in Nat /\ Bump(job.attempts) <= MaxAttempts
BY Typed DEF Bump, TypeInv, JobRecords

(***************************************************************************)
(* Where a run goes next.                                                  *)
(***************************************************************************)
\* A step of the run whose parts are in order.
LEMMA RunStep ==
  ASSUME TypeInv, config' = config, command' = command, reorgs' = reorgs,
         TxGrows, tx' \in Seq(Txs), job' \in JobRecords, job'.attempts <= MaxAttempts,
         TrailGrows, CoolsRightly, run' \in Runs, RunSound'
  PROVE  TypeInv' /\ Advances
BY Assemble DEF TypeInv, Advances

\* The lists of the handler that runs, and where the run is in them.
LEMMA HandlerLists ==
  ASSUME TypeInv
  PROVE  /\ run.plan.ctx \in Seq(Signals) /\ run.plan.ret \in Seq(Signals)
         /\ DOMAIN run.plan.ctx = 1 .. Len(run.plan.ctx) /\ Len(run.plan.ctx) \in Nat
         /\ DOMAIN run.plan.ret = 1 .. Len(run.plan.ret) /\ Len(run.plan.ret) \in Nat
         /\ run.pos \in Nat \ {0}
<1>1. PICK p \in Handlers \cup {NoPlan} : p = run.plan
  BY Typed
<1>2. run.pos \in Nat \ {0}
  BY Typed DEF Runs
<1> QED BY <1>1, <1>2, PlanLists

\* What was within the trail and the transactions known so far still is.
LEMMA StillWithin ==
  ASSUME TypeInv, TxGrows, TrailGrows, tx' \in Seq(Txs), job' \in JobRecords
  PROVE  /\ run.tx <= Len(tx') /\ run.base <= Len(job'.submissions)
         /\ Len(tx') \in Nat /\ Len(job'.submissions) \in Nat
<1>1. /\ Len(tx) \in Nat /\ Len(tx') \in Nat /\ run.tx \in Nat /\ run.base \in Nat
      /\ Len(job.submissions) \in Nat /\ Len(job'.submissions) \in Nat
  BY Typed, TrailFacts DEF Runs, JobRecords
<1> QED BY <1>1 DEF TypeInv, RunSound, TxGrows, TrailGrows

\* submitSignal returns to the handler: it leaves a record of the signal.
LEMMA Returning ==
  ASSUME TypeInv, config' = config, TxGrows, TrailGrows, tx' \in Seq(Txs),
         job' \in JobRecords, job'.status = job.status,
         run.pc \in {"handler"} \cup InContext, run.pos \in DOMAIN run.plan.ctx,
         NEW q \in Trail', q.sig = run.plan.ctx[run.pos],
         NEW d \in BOOLEAN, ContextReturns(d)
  PROVE  run' \in Runs /\ RunSound'
<1>1. PICK r \in Runs :
        /\ run' = r /\ r.pc = "handler" /\ r.pos = run.pos + 1 /\ r.plan = run.plan
        /\ r.tx = run.tx /\ r.base = run.base /\ r.err = run.err
  <2>1. PICK b \in BOOLEAN : b = (run.deferred \/ d)
    OBVIOUS
  <2>2. PICK n \in Nat \ {0} : n = run.pos + 1
    BY Typed DEF Runs
  <2>3. PICK m \in Nat : m = run.count + 1
    BY Typed DEF Runs
  <2> DEFINE R == [run EXCEPT !.pc = "handler", !.pos = n, !.count = m, !.deferred = b]
  <2>4. run' = R
    BY <2>1, <2>2, <2>3, Typed DEF ContextReturns, Runs
  <2>5. /\ R \in Runs /\ R.pc = "handler" /\ R.pos = n /\ R.plan = run.plan
        /\ R.tx = run.tx /\ R.base = run.base /\ R.err = run.err
    BY Typed DEF Runs, Stages
  <2> QED BY <2>2, <2>4, <2>5
<1>2. /\ run.pc # "idle" /\ r.tx <= Len(tx') /\ r.base <= Len(job'.submissions)
  BY <1>1, StillWithin DEF InContext
<1>3. ASSUME NEW k \in Passed(r)
      PROVE  k \in Passed(run) \/ \E p \in Trail' : p.sig = run.plan.ctx[k]
  <2>1. k \in DOMAIN run.plan.ctx /\ k < run.pos + 1
    BY <1>1, <1>3 DEF Passed, AfterHandler, InContext
  <2>2. k < run.pos \/ k = run.pos
    <3>1. k \in Nat /\ run.pos \in Nat
      BY <2>1, HandlerLists
    <3> QED BY <2>1, <3>1
  <2> QED BY <2>1, <2>2 DEF Passed
<1> QED BY <1>1, <1>2, <1>3, RunMoves DEF InContext, InReturned

\* submitSignal throws into the handler, which leaves a record as well.
LEMMA Throwing ==
  ASSUME TypeInv, config' = config, TxGrows, TrailGrows, tx' \in Seq(Txs),
         job' \in JobRecords, job'.status = job.status,
         run.pc \in {"handler"} \cup InContext, run.pos \in DOMAIN run.plan.ctx,
         NEW q \in Trail', q.sig = run.plan.ctx[run.pos],
         NEW err \in Errors, ContextThrows(err),
         err = "reverted" => RevertOnRecord'
  PROVE  run' \in Runs /\ RunSound'
<1>1. PICK r \in Runs :
        /\ run' = r /\ r.pc = "thrown" /\ r.pos = run.pos /\ r.plan = run.plan
        /\ r.tx = run.tx /\ r.base = run.base /\ r.err = err
  <2>1. PICK m \in Nat : m = run.count + 1
    BY Typed DEF Runs
  <2> DEFINE R == [run EXCEPT !.pc = "thrown", !.err = err, !.count = m]
  <2>2. run' = R
    BY <2>1, Typed DEF ContextThrows, Runs
  <2>3. /\ R \in Runs /\ R.pc = "thrown" /\ R.pos = run.pos /\ R.plan = run.plan
        /\ R.tx = run.tx /\ R.base = run.base /\ R.err = err
    BY Typed DEF Runs, Stages
  <2> QED BY <2>2, <2>3
<1>2. /\ run.pc # "idle" /\ r.tx <= Len(tx') /\ r.base <= Len(job'.submissions)
  BY <1>1, StillWithin DEF InContext
<1>3. ASSUME NEW k \in Passed(r)
      PROVE  k \in Passed(run) \/ \E p \in Trail' : p.sig = run.plan.ctx[k]
  <2>1. k \in DOMAIN run.plan.ctx /\ k <= run.pos
    BY <1>1, <1>3 DEF Passed, AfterHandler, InContext
  <2>2. k < run.pos \/ k = run.pos
    <3>1. k \in Nat /\ run.pos \in Nat
      BY <2>1, HandlerLists
    <3> QED BY <2>1, <3>1
  <2> QED BY <2>1, <2>2 DEF Passed
<1> QED BY <1>1, <1>2, <1>3, RunMoves DEF InContext, InReturned

-----------------------------------------------------------------------------
(***************************************************************************)
(* The context lane.                                                       *)
(***************************************************************************)
\* The position of the call, and its signal.
LEMMA Calling ==
  ASSUME TypeInv, NEW s, ContextCall(s)
  PROVE  run.pc = "handler" /\ run.pos \in DOMAIN run.plan.ctx /\ s = run.plan.ctx[run.pos]
BY HandlerLists DEF ContextCall

\* A recorded delivery answers the call.
LEMMA AnsweredStep ==
  ASSUME TypeInv, NEW s, ContextAnswered(s)
  PROVE  TypeInv' /\ Advances
<1>1. /\ ContextCall(s) /\ FirstEvidence(s) # 0 /\ ContextReturns(FALSE)
      /\ config' = config /\ job' = job /\ command' = command /\ tx' = tx
      /\ reorgs' = reorgs
  BY DEF ContextAnswered, Answered
<1>2. TxGrows /\ tx' \in Seq(Txs)
  BY <1>1, TxStays
<1>3. /\ job' \in JobRecords /\ job'.status = job.status /\ job'.attempts <= MaxAttempts
      /\ TrailGrows /\ Trail' = Trail /\ CoolsRightly
  BY <1>1, WritesNothing
<1>4. PICK q \in Trail' : q.sig = s
  BY <1>1, <1>3, EvidenceFound
<1>5. run' \in Runs /\ RunSound'
  BY <1>1, <1>2, <1>3, <1>4, Calling, Returning
<1> QED BY <1>1, <1>2, <1>3, <1>5, RunStep

\* The run goes on to its submission.
LEMMA Submitting ==
  ASSUME TypeInv, config' = config, TxGrows, TrailGrows, tx' \in Seq(Txs),
         job' \in JobRecords, ContextSubmit,
         run.pc = "handler", run.pos \in DOMAIN run.plan.ctx
  PROVE  run' \in Runs /\ RunSound'
<1>1. PICK r \in Runs :
        /\ run' = r /\ r.pc = "ctxSubmit" /\ r.pos = run.pos /\ r.plan = run.plan
        /\ r.tx = run.tx /\ r.base = run.base /\ r.err = run.err
  <2> DEFINE R == [run EXCEPT !.pc = "ctxSubmit"]
  <2>1. /\ R \in Runs /\ R.pc = "ctxSubmit" /\ R.pos = run.pos /\ R.plan = run.plan
        /\ R.tx = run.tx /\ R.base = run.base /\ R.err = run.err
    BY Typed DEF Runs, Stages
  <2> QED BY <2>1 DEF ContextSubmit
<1>2. /\ r.tx <= Len(tx') /\ r.base <= Len(job'.submissions) /\ job'.status = job.status
  BY <1>1, StillWithin DEF ContextSubmit
<1>3. Passed(r) \subseteq Passed(run)
  BY <1>1 DEF Passed, AfterHandler
<1> QED BY <1>1, <1>2, <1>3, RunMoves DEF InContext, InReturned

\* The first submission of a signal.
LEMMA FirstStep ==
  ASSUME TypeInv, NEW s, ContextFirst(s)
  PROVE  TypeInv' /\ Advances
<1>1. /\ ContextCall(s) /\ ContextSubmit /\ job' = job
      /\ config' = config /\ command' = command /\ tx' = tx /\ reorgs' = reorgs
  BY DEF ContextFirst, ContextSubmit
<1>2. TxGrows /\ tx' \in Seq(Txs)
  BY <1>1, TxStays
<1>3. /\ job' \in JobRecords /\ job'.attempts <= MaxAttempts
      /\ TrailGrows /\ CoolsRightly
  BY <1>1, WritesNothing
<1>4. run' \in Runs /\ RunSound'
  BY <1>1, <1>2, <1>3, Calling, Submitting
<1> QED BY <1>1, <1>2, <1>3, <1>4, RunStep

\* An earlier broadcast is looked up.
LEMMA ContextRecheckStep ==
  ASSUME TypeInv, NEW s, ContextRecheck(s)
  PROVE  TypeInv' /\ Advances
<1>1. PICK q \in Trail : q = job.submissions[LastUnresolved(s)] /\ q.sig = s /\ q.tx # 0
  BY UnresolvedFound DEF ContextRecheck, IsUnconfirmedBroadcast
<1>2. /\ ContextCall(s) /\ config' = config /\ command' = command /\ tx' = tx
      /\ reorgs' = reorgs
  BY DEF ContextRecheck
<1>3. TxGrows /\ tx' \in Seq(Txs)
  BY <1>2, TxStays
<1>4. PICK receipt \in LookupBroadcastReceipt(q.tx) :
        \/ /\ receipt = "success"
           /\ job' = [job EXCEPT !.submissions =
                Append(@, Record(q.index, s, q.tx, "confirmed"))]
           /\ ContextReturns(FALSE)
        \/ receipt = "reverted" /\ ContextThrows("reverted") /\ job' = job
        \/ /\ receipt = "unknown"
           /\ IF run.bypass \/ job.cooled THEN ContextSubmit
              ELSE ContextReturns(TRUE) /\ job' = job
  BY <1>1 DEF ContextRecheck
<1>5. CASE receipt = "success"
  <2>1. PICK r : r = [q EXCEPT !.mark = "confirmed"]
    OBVIOUS
  <2>2. q \in Records
    BY Typed, TrailFacts
  <2>3. r = Record(q.index, s, q.tx, "confirmed")
    BY <1>1, <2>1, <2>2 DEF Records, Record
  <2>4. tx[q.tx].state = "success"
    BY <1>5, Receipts
  <2>5. Fresh(r) /\ r.tx = q.tx /\ r.sig = s
    BY <1>1, <2>1, <2>4, Settles
  <2>6. /\ job' = [job EXCEPT !.submissions = Append(@, r)] /\ ContextReturns(FALSE)
    BY <1>4, <1>5, <2>3
  <2>7. /\ job' \in JobRecords /\ job'.status = job.status
        /\ job'.attempts <= MaxAttempts
        /\ TrailGrows /\ Trail' = Trail \cup {r} /\ CoolsRightly
    BY <2>4, <2>5, <2>6, WritesQuietly
  <2>8. run' \in Runs /\ RunSound'
    BY <1>2, <1>3, <2>5, <2>6, <2>7, Calling, Returning
  <2> QED BY <1>2, <1>3, <2>7, <2>8, RunStep
<1>6. CASE receipt # "success" /\ job' = job
  <2>1. /\ job' \in JobRecords /\ job'.status = job.status
        /\ job'.attempts <= MaxAttempts
        /\ TrailGrows /\ Trail' = Trail /\ CoolsRightly
    BY <1>6, WritesNothing
  <2>2. CASE receipt = "reverted"
    <3>1. tx[q.tx].state = "reverted" /\ ContextThrows("reverted")
      BY <1>4, <2>2, Receipts
    <3>2. RevertOnRecord
      BY <1>1, <3>1 DEF RevertOnRecord
    <3>3. run' \in Runs /\ RunSound'
      BY <1>1, <1>2, <1>3, <2>1, <3>1, <3>2, RevertStays, Calling, Throwing DEF Errors
    <3> QED BY <1>2, <1>3, <2>1, <3>3, RunStep
  <2>3. CASE receipt = "unknown"
    <3>1. ContextSubmit \/ ContextReturns(TRUE)
      BY <1>4, <2>3
    <3>2. run' \in Runs /\ RunSound'
      BY <1>1, <1>2, <1>3, <2>1, <3>1, Calling, Returning, Submitting
    <3> QED BY <1>2, <1>3, <2>1, <3>2, RunStep
  <2> QED BY <1>4, <1>6, <2>2, <2>3
<1> QED BY <1>4, <1>5, <1>6 DEF ContextSubmit

\* A record of the run about the signal at hand, without a transaction or with its own.
LEMMA OwnRecord ==
  ASSUME TypeInv, NEW s \in Signals \cup {NoSignal}, NEW t \in Nat, NEW m \in Marks,
         NEW i \in Int, OfTheRun(Record(i, s, t, m)),
         \/ t = 0 /\ (m \in {"confirmed", "duplicate"} => OnChain(AtHand(run)))
         \/ /\ t = run.tx /\ run.pc \in {"ctxSent", "sent"}
            /\ m \in {"confirmed", "duplicate"} => tx[run.tx].state = "success"
  PROVE  Fresh(Record(i, s, t, m))
<1>1. PICK r : r = Record(i, s, t, m)
  OBVIOUS
<1>2. r \in Records /\ r.tx = t /\ r.mark = m
  BY <1>1 DEF Record, Records
<1>3. IsEvidence(r) <=> m \in {"confirmed", "duplicate"}
  BY <1>2 DEF IsEvidence
<1> QED BY <1>1, <1>2, <1>3 DEF Fresh

\* What the context lane records is about the call.
LEMMA ContextRecord ==
  ASSUME TypeInv, run.pc \in InContext, NEW t, NEW m
  PROVE  /\ run.pos \in DOMAIN run.plan.ctx
         /\ AtHand(run) = run.plan.ctx[run.pos] /\ AtHand(run) \in Signals
         /\ ContextIndex \in Int
         /\ OfTheRun(Record(ContextIndex, AtHand(run), t, m))
         /\ Record(ContextIndex, AtHand(run), t, m).sig = run.plan.ctx[run.pos]
         /\ Record(ContextIndex, AtHand(run), t, m).tx = t
<1>1. /\ run.pos \in DOMAIN run.plan.ctx /\ AtHand(run) = run.plan.ctx[run.pos]
      /\ AtHand(run) \in Signals
  BY HandlerLists, ElementOfSeq DEF TypeInv, RunSound, AtHand
<1>2. ContextIndex \in Int /\ ContextIndex < 0
  BY Typed DEF ContextIndex, Runs
<1> QED BY <1>1, <1>2 DEF OfTheRun, Record

\* The node takes a transaction.
LEMMA Accepting ==
  ASSUME TypeInv, NEW s \in Signals, Accept(s)
  PROVE  /\ tx' \in Seq(Txs) /\ Len(tx') = Len(tx) + 1
         /\ tx'[Len(tx) + 1].sig = s
         /\ reorgs' = reorgs => TxGrows
<1>1. PICK x \in Txs : x = [sig |-> s, state |-> "pending", young |-> TRUE]
  BY DEF Txs, States
<1>2. tx' = Append(tx, x)
  BY <1>1 DEF Accept
<1>3. /\ tx' \in Seq(Txs) /\ Len(tx') = Len(tx) + 1 /\ tx'[Len(tx) + 1] = x
      /\ \A t \in 1 .. Len(tx) : tx'[t] = tx[t]
  BY <1>2, Typed
<1>4. \A t \in 1 .. Len(tx) : TxKept(t)
  BY <1>3 DEF TxKept
<1> QED BY <1>1, <1>3, <1>4, Typed DEF TxGrows

\* A send that fails, noticed or not by the node.
LEMMA SendFailing ==
  ASSUME TypeInv, NEW s \in Signals, NEW err \in Errors, SendFails(s, err), reorgs' = reorgs
  PROVE  /\ TxGrows /\ tx' \in Seq(Txs)
         /\ err # "reverted"
         /\ err = "duplicate" => OnChain(s)
<1>1. CASE err \in SendErrors(s) /\ tx' = tx
  <2>1. err # "reverted" /\ (err = "duplicate" => OnChain(s))
    BY <1>1 DEF SendErrors
  <2> QED BY <1>1, <2>1, TxStays
<1>2. CASE err = "retryable" /\ Accept(s)
  BY <1>2, Accepting
<1> QED BY <1>1, <1>2 DEF SendFails

\* The submission fails before the kit holds a hash.
LEMMA ContextFailStep ==
  ASSUME TypeInv, NEW err \in Errors, ContextSendFails(err)
  PROVE  TypeInv' /\ Advances
<1>1. PICK r : r = Record(ContextIndex, AtHand(run), 0, ErrorMark(err))
  OBVIOUS
<1>2. run.pc = "ctxSubmit" /\ run.pc \in InContext
  BY DEF ContextSendFails, InContext
<1>3. /\ run.pos \in DOMAIN run.plan.ctx /\ AtHand(run) = run.plan.ctx[run.pos]
      /\ AtHand(run) \in Signals /\ r.sig = run.plan.ctx[run.pos]
      /\ ContextIndex \in Int /\ OfTheRun(r)
  BY <1>1, <1>2, ContextRecord
<1>4. /\ SendFails(AtHand(run), err) /\ WithRecord(r) /\ ContextThrows(err)
      /\ config' = config /\ command' = command /\ reorgs' = reorgs
  BY <1>1, <1>3 DEF ContextSendFails, WithRecord
<1>5. /\ TxGrows /\ tx' \in Seq(Txs) /\ err # "reverted"
      /\ err = "duplicate" => OnChain(AtHand(run))
  BY <1>3, <1>4, SendFailing
<1>6. ErrorMark(err) \in Marks
      /\ (ErrorMark(err) \in {"confirmed", "duplicate"} => OnChain(AtHand(run)))
  BY <1>5 DEF ErrorMark, Marks
<1>7. Fresh(r)
  BY <1>1, <1>3, <1>6, OwnRecord
<1>8. /\ job' \in JobRecords /\ job'.status = job.status
      /\ job'.attempts <= MaxAttempts
      /\ TrailGrows /\ Trail' = Trail \cup {r} /\ CoolsRightly
  BY <1>4, <1>7, WritesOne
<1>9. run' \in Runs /\ RunSound'
  BY <1>2, <1>3, <1>4, <1>5, <1>8, Throwing
<1> QED BY <1>4, <1>5, <1>8, <1>9, RunStep

\* A dry run leaves a record, once.
LEMMA ContextDryStep ==
  ASSUME TypeInv, ContextDryRun
  PROVE  TypeInv' /\ Advances
<1>1. PICK r : r = Record(ContextIndex, AtHand(run), 0, "dry")
  OBVIOUS
<1>2. run.pc = "ctxSubmit" /\ run.pc \in InContext
  BY DEF ContextDryRun, InContext
<1>3. /\ run.pos \in DOMAIN run.plan.ctx /\ AtHand(run) = run.plan.ctx[run.pos]
      /\ AtHand(run) \in Signals /\ r.sig = run.plan.ctx[run.pos] /\ r.tx = 0
      /\ ContextIndex \in Int /\ OfTheRun(r)
  BY <1>1, <1>2, ContextRecord
<1>4. /\ job' = [job EXCEPT !.submissions = AppendJobSubmission(@, r)]
      /\ ContextReturns(FALSE)
      /\ config' = config /\ command' = command /\ reorgs' = reorgs /\ tx' = tx
  BY <1>1, <1>3 DEF ContextDryRun
<1>5. TxGrows /\ tx' \in Seq(Txs)
  BY <1>4, TxStays
<1>6. Fresh(r)
  BY <1>1, <1>3, OwnRecord DEF Marks
<1>7. /\ job' \in JobRecords /\ job'.status = job.status
      /\ job'.attempts <= MaxAttempts
      /\ TrailGrows /\ r \in Trail' /\ CoolsRightly
  <2>1. CASE r \in Trail /\ job' = job
    BY <2>1, WritesNothing
  <2>2. CASE job' = [job EXCEPT !.submissions = Append(@, r)]
    BY <1>3, <1>6, <2>2, WritesQuietly
  <2> QED BY <1>4, <2>1, <2>2, Typed DEF AppendJobSubmission, Trail, JobRecords
<1>8. run' \in Runs /\ RunSound'
  BY <1>2, <1>3, <1>4, <1>5, <1>7, Returning
<1> QED BY <1>4, <1>5, <1>7, <1>8, RunStep

\* The kit holds the hash of the transaction it sent.
LEMMA Broadcasting ==
  ASSUME TypeInv, NEW pc \in {"ctxSent", "sent"}, Broadcast(AtHand(run), pc),
         \/ run.pc = "ctxSubmit" /\ pc = "ctxSent"
         \/ run.pc = "submit" /\ pc = "sent"
  PROVE  TypeInv' /\ Advances
<1>1. AtHand(run) \in Signals
  BY HandlerLists, ElementOfSeq DEF TypeInv, RunSound, AtHand, InContext, InReturned
<1>2. /\ Accept(AtHand(run)) /\ run' = [run EXCEPT !.pc = pc, !.tx = Len(tx) + 1]
      /\ config' = config /\ job' = job /\ command' = command /\ reorgs' = reorgs
  BY DEF Broadcast
<1>3. /\ tx' \in Seq(Txs) /\ Len(tx') = Len(tx) + 1 /\ TxGrows
      /\ tx'[Len(tx) + 1].sig = AtHand(run)
  BY <1>1, <1>2, Accepting
<1>4. /\ job' \in JobRecords /\ job'.status = job.status
      /\ job'.attempts <= MaxAttempts
      /\ TrailGrows /\ CoolsRightly
  BY <1>2, WritesNothing
<1>5. PICK n \in Nat : n = Len(tx) + 1
  BY Typed
<1>6. PICK r \in Runs :
        /\ run' = r /\ r.pc = pc /\ r.pos = run.pos /\ r.plan = run.plan
        /\ r.tx = n /\ r.base = run.base /\ r.err = run.err
  <2> DEFINE R == [run EXCEPT !.pc = pc, !.tx = n]
  <2>1. /\ R \in Runs /\ R.pc = pc /\ R.pos = run.pos /\ R.plan = run.plan
        /\ R.tx = n /\ R.base = run.base /\ R.err = run.err
    BY Typed DEF Runs, Stages
  <2> QED BY <1>2, <1>5, <2>1
<1>7. /\ r.tx <= Len(tx') /\ r.base <= Len(job'.submissions)
  BY <1>3, <1>4, <1>5, <1>6, StillWithin
<1>8. Passed(r) \subseteq Passed(run)
  BY <1>6 DEF Passed, AfterHandler, InContext
<1>9. /\ r.pc \in InContext => r.pos \in DOMAIN run.plan.ctx
      /\ r.pc \in InReturned => r.pos \in DOMAIN run.plan.ret
  BY <1>6 DEF TypeInv, RunSound, InContext, InReturned
<1>10. r.tx # 0 /\ tx'[r.tx].sig = AtHand(r)
  BY <1>3, <1>5, <1>6, Typed DEF AtHand, InContext
<1>11. run' \in Runs /\ RunSound'
  BY <1>2, <1>3, <1>4, <1>6, <1>7, <1>8, <1>9, <1>10, RunMoves
<1> QED BY <1>2, <1>3, <1>4, <1>11, RunStep

\* A list of records in one write, one attempt more, the broadcast time reset.
LEMMA WritesFailure ==
  ASSUME TypeInv, NEW F \in Seq(Records), \A r \in ToSet(F) : Fresh(r), WithFailure(F)
  PROVE  /\ job' \in JobRecords /\ job'.status = job.status
         /\ job'.attempts <= MaxAttempts
         /\ TrailGrows /\ Trail' = Trail \cup ToSet(F) /\ CoolsRightly
<1>1. PICK S \in Seq(Records) : /\ S = job.submissions \o F
                                /\ ToSet(S) = Trail \cup ToSet(F)
                                /\ Len(S) = Len(job.submissions) + Len(F)
  BY Typed, TrailFacts, Joined DEF Trail
<1>2. PICK n \in Nat : n = Bump(job.attempts) /\ n <= MaxAttempts
  BY Bumped
<1>3. job' = [job EXCEPT !.submissions = S, !.attempts = n, !.cooled = FALSE]
  BY <1>1, <1>2, Typed DEF WithFailure, JobRecords
<1>4. Len(job.submissions) <= Len(S)
  BY <1>1, Typed, TrailFacts
<1>5. PICK R : R = ToSet(F)
  OBVIOUS
<1>6. ToSet(S) = Trail \cup R /\ \A r \in R : Fresh(r)
  BY <1>1, <1>5
<1> QED BY <1>2, <1>3, <1>4, <1>5, <1>6, Writing

\* Two records about a transaction that was mined; the broadcast time stays.
LEMMA WritesTwo ==
  ASSUME TypeInv, NEW a, NEW b, Fresh(a), Fresh(b),
         tx[a.tx].state = "success", tx[b.tx].state = "success",
         job' = [job EXCEPT !.submissions = @ \o <<a, b>>]
  PROVE  /\ job' \in JobRecords /\ job'.status = job.status
         /\ job'.attempts <= MaxAttempts
         /\ TrailGrows /\ Trail' = Trail \cup {a, b} /\ CoolsRightly
<1>1. a \in Records /\ b \in Records /\ job.submissions \in Seq(Records)
  BY Typed, TrailFacts DEF Fresh
<1>2. PICK F : F = <<a, b>>
  OBVIOUS
<1>3. F \in Seq(Records) /\ ToSet(F) = {a, b} /\ Len(F) = 2
  <2>1. /\ <<a, b>> \in Seq(Records) /\ ToSet(<<a, b>>) = {a, b} /\ Len(<<a, b>>) = 2
    BY <1>1, FewRecords
  <2> QED BY <1>2, <2>1, Zenon
<1>4. PICK S : S = job.submissions \o F
  OBVIOUS
<1>5. /\ S \in Seq(Records) /\ ToSet(S) = ToSet(job.submissions) \cup ToSet(F)
      /\ Len(S) = Len(job.submissions) + Len(F)
  <2>1. PICK s \in Seq(Records) : s = job.submissions
    BY <1>1
  <2>2. /\ s \o F \in Seq(Records) /\ ToSet(s \o F) = ToSet(s) \cup ToSet(F)
        /\ Len(s \o F) = Len(s) + Len(F)
    BY <1>3, Joined
  <2>3. S = s \o F
    BY <1>4, <2>1, Zenon
  <2> QED BY <2>1, <2>2, <2>3, Zenon
<1>6. PICK n \in Nat : n = job.attempts /\ n <= MaxAttempts
  BY Typed DEF TypeInv, JobRecords
<1>7. PICK c \in BOOLEAN : c = job.cooled
  BY Typed DEF JobRecords
<1>8. job' = [job EXCEPT !.submissions = S, !.attempts = n, !.cooled = c]
  BY <1>2, <1>4, <1>6, <1>7, Typed DEF JobRecords
<1>9. Len(job.submissions) <= Len(S)
  BY <1>3, <1>5, Typed, TrailFacts
<1>10. PICK R : R = {a, b}
  OBVIOUS
<1>11. ToSet(S) = Trail \cup R
  BY <1>3, <1>5, <1>10 DEF Trail
<1>12. \A r \in R : Fresh(r)
  BY <1>10
<1>13. c => job.cooled /\ \A r \in R : r.tx = 0 \/ tx[r.tx].state = "success"
  BY <1>7, <1>10
<1> QED BY <1>5, <1>6, <1>7, <1>8, <1>9, <1>10, <1>11, <1>12, <1>13, Writing

\* Only the attempts change.
LEMMA WritesAttempt ==
  ASSUME TypeInv, job' = [job EXCEPT !.attempts = Bump(@)]
  PROVE  /\ job' \in JobRecords /\ job'.status = job.status
         /\ job'.attempts <= MaxAttempts
         /\ TrailGrows /\ Trail' = Trail /\ CoolsRightly
<1>1. /\ job' \in JobRecords /\ job'.status = job.status
      /\ job'.attempts <= MaxAttempts /\ job'.submissions = job.submissions
      /\ job'.cooled = job.cooled
  BY Typed, Bumped DEF JobRecords
<1>2. TrailGrows /\ Trail' = Trail
  BY <1>1, TrailStays
<1> QED BY <1>1, <1>2 DEF CoolsRightly

\* The wait for the receipt ends, one way or another.
LEMMA ContextSentStep ==
  ASSUME TypeInv, NEW outcome \in SentOutcomes, ContextSent(outcome)
  PROVE  TypeInv' /\ Advances
<1>1. /\ run.pc = "ctxSent" /\ run.pc \in InContext /\ outcome \in WaitOutcomes
      /\ config' = config /\ command' = command /\ tx' = tx /\ reorgs' = reorgs
  BY DEF ContextSent, InContext
<1>2. PICK s \in Signals, i \in Int :
        s = AtHand(run) /\ s = run.plan.ctx[run.pos] /\ i = ContextIndex
  BY <1>1, ContextRecord
<1>3. /\ run.pos \in DOMAIN run.plan.ctx
      /\ \A m : /\ OfTheRun(Record(i, s, run.tx, m))
                /\ Record(i, s, run.tx, m).sig = s
                /\ Record(i, s, run.tx, m).tx = run.tx
  BY <1>1, <1>2, ContextRecord
<1>4. TxGrows /\ tx' \in Seq(Txs) /\ run.tx \in Nat /\ run.tx # 0
  BY <1>1, TxStays, Typed DEF TypeInv, RunSound, Runs
<1>5. PICK failed : failed = Record(i, s, run.tx, "failed")
  OBVIOUS
<1>6. PICK mined : mined = Record(i, s, run.tx, "confirmed")
  OBVIOUS
<1>7. /\ Fresh(failed) /\ failed.sig = s /\ failed.tx = run.tx
      /\ tx[run.tx].state = "success" => Fresh(mined)
      /\ mined.sig = s /\ mined.tx = run.tx
  BY <1>1, <1>3, <1>4, <1>5, <1>6, OwnRecord DEF Marks
<1>8. CASE outcome = "sent"
  <2>1. PICK r : r = Record(i, s, run.tx, "sent")
    OBVIOUS
  <2>2. Fresh(r) /\ r.sig = s
    BY <1>1, <1>3, <1>4, <2>1, OwnRecord DEF Marks
  <2>3. WithRecord(r) /\ ContextReturns(FALSE)
    BY <1>2, <1>8, <2>1 DEF ContextSent
  <2>4. /\ job' \in JobRecords /\ job'.status = job.status /\ job'.attempts <= MaxAttempts
        /\ TrailGrows /\ Trail' = Trail \cup {r} /\ CoolsRightly
    BY <2>2, <2>3, WritesOne
  <2>5. run' \in Runs /\ RunSound'
    BY <1>1, <1>2, <1>3, <1>4, <2>2, <2>3, <2>4, Returning
  <2> QED BY <1>1, <1>4, <2>4, <2>5, RunStep
<1>9. CASE outcome = "success"
  <2>1. Fresh(mined)
    BY <1>1, <1>7, <1>9, Waits
  <2>2. WithRecord(mined) /\ ContextReturns(FALSE)
    BY <1>2, <1>6, <1>9 DEF ContextSent
  <2>3. /\ job' \in JobRecords /\ job'.status = job.status /\ job'.attempts <= MaxAttempts
        /\ TrailGrows /\ Trail' = Trail \cup {mined} /\ CoolsRightly
    BY <2>1, <2>2, WritesOne
  <2>4. run' \in Runs /\ RunSound'
    BY <1>1, <1>2, <1>3, <1>4, <1>7, <2>2, <2>3, Returning
  <2> QED BY <1>1, <1>4, <2>3, <2>4, RunStep
<1>10. CASE outcome = "reverted"
  <2>1. WithRecord(failed) /\ ContextThrows("reverted")
    BY <1>2, <1>5, <1>10 DEF ContextSent
  <2>2. /\ job' \in JobRecords /\ job'.status = job.status /\ job'.attempts <= MaxAttempts
        /\ TrailGrows /\ Trail' = Trail \cup {failed} /\ CoolsRightly
    BY <1>7, <2>1, WritesOne
  <2>3. tx'[failed.tx].state = "reverted" /\ failed \in Trail' /\ failed.tx # 0
    BY <1>1, <1>4, <1>7, <1>10, <2>2, Waits
  <2>4. RevertOnRecord'
    BY <2>3 DEF RevertOnRecord
  <2>5. run' \in Runs /\ RunSound'
    BY <1>1, <1>2, <1>3, <1>4, <1>7, <2>1, <2>2, <2>4, Throwing DEF Errors
  <2> QED BY <1>1, <1>4, <2>2, <2>5, RunStep
<1>11. CASE outcome \notin {"sent", "success", "reverted"}
  <2>1. PICK receipt \in LookupBroadcastReceipt(run.tx) :
          IF receipt = "success"
          THEN /\ job' = [job EXCEPT !.submissions = @ \o <<failed, mined>>]
               /\ ContextReturns(FALSE)
          ELSE WithRecord(failed) /\ ContextReturns(TRUE)
    BY <1>2, <1>5, <1>6, <1>11 DEF ContextSent
  <2>2. CASE receipt = "success"
    <3>1. tx[run.tx].state = "success"
      BY <2>2, Receipts
    <3>2. job' = [job EXCEPT !.submissions = @ \o <<failed, mined>>] /\ ContextReturns(FALSE)
      BY <2>1, <2>2
    <3>3. /\ job' \in JobRecords /\ job'.status = job.status
          /\ job'.attempts <= MaxAttempts
          /\ TrailGrows /\ Trail' = Trail \cup {failed, mined} /\ CoolsRightly
      BY <1>7, <3>1, <3>2, WritesTwo
    <3>4. run' \in Runs /\ RunSound'
      BY <1>1, <1>2, <1>3, <1>4, <1>7, <3>2, <3>3, Returning
    <3> QED BY <1>1, <1>4, <3>3, <3>4, RunStep
  <2>3. CASE receipt # "success"
    <3>1. WithRecord(failed) /\ ContextReturns(TRUE)
      BY <2>1, <2>3
    <3>2. /\ job' \in JobRecords /\ job'.status = job.status
          /\ job'.attempts <= MaxAttempts
          /\ TrailGrows /\ Trail' = Trail \cup {failed} /\ CoolsRightly
      BY <1>7, <3>1, WritesOne
    <3>3. run' \in Runs /\ RunSound'
      BY <1>1, <1>2, <1>3, <1>4, <1>7, <3>1, <3>2, Returning
    <3> QED BY <1>1, <1>4, <3>2, <3>3, RunStep
  <2> QED BY <2>2, <2>3
<1> QED BY <1>8, <1>9, <1>10, <1>11

\* The handler goes on after an error of submitSignal.
LEMMA CatchStep ==
  ASSUME TypeInv, HandlerCatches
  PROVE  TypeInv' /\ Advances
<1>1. /\ run.pc = "thrown" /\ job' = job
      /\ config' = config /\ command' = command /\ tx' = tx /\ reorgs' = reorgs
  BY DEF HandlerCatches
<1>2. TxGrows /\ tx' \in Seq(Txs)
  BY <1>1, TxStays
<1>3. /\ job' \in JobRecords /\ job'.status = job.status /\ job'.attempts <= MaxAttempts
      /\ TrailGrows /\ CoolsRightly
  BY <1>1, WritesNothing
<1>4. PICK n \in Nat \ {0} : n = run.pos + 1
  BY HandlerLists
<1>5. PICK r \in Runs :
        /\ run' = r /\ r.pc = "handler" /\ r.pos = n /\ r.plan = run.plan
        /\ r.tx = run.tx /\ r.base = run.base /\ r.err = "none"
  <2> DEFINE R == [run EXCEPT !.pc = "handler", !.pos = n, !.err = "none"]
  <2>1. run' = R
    BY <1>4 DEF HandlerCatches
  <2>2. /\ R \in Runs /\ R.pc = "handler" /\ R.pos = n /\ R.plan = run.plan
        /\ R.tx = run.tx /\ R.base = run.base /\ R.err = "none"
    BY Typed DEF Runs, Stages
  <2> QED BY <2>1, <2>2
<1>6. r.tx <= Len(tx') /\ r.base <= Len(job'.submissions)
  BY <1>2, <1>3, <1>5, StillWithin
<1>7. ASSUME NEW k \in Passed(r) PROVE k \in Passed(run)
  <2>1. k \in DOMAIN run.plan.ctx /\ k < run.pos + 1
    BY <1>4, <1>5, <1>7 DEF Passed, AfterHandler, InContext
  <2>2. k <= run.pos
    BY <2>1, HandlerLists
  <2> QED BY <1>1, <2>1, <2>2 DEF Passed
<1>8. run' \in Runs /\ RunSound'
  BY <1>1, <1>2, <1>3, <1>5, <1>6, <1>7, RunMoves DEF InContext, InReturned
<1> QED BY <1>1, <1>2, <1>3, <1>8, RunStep

\* A failed attempt is over: the run ends with its error.
LEMMA Ending ==
  ASSUME TypeInv, config' = config, TxGrows, TrailGrows, tx' \in Seq(Txs),
         job' \in JobRecords, job'.status = job.status, run.pc # "idle",
         NEW err \in Errors, EndWith(err),
         err = "reverted" => run.err = "reverted" \/ RevertOnRecord'
  PROVE  run' \in Runs /\ RunSound'
<1>1. PICK r \in Runs :
        /\ run' = r /\ r.pc = "ending" /\ r.plan = run.plan
        /\ r.tx = run.tx /\ r.base = run.base /\ r.err = err
  <2> DEFINE R == [run EXCEPT !.pc = "ending", !.err = err]
  <2>1. /\ R \in Runs /\ R.pc = "ending" /\ R.plan = run.plan
        /\ R.tx = run.tx /\ R.base = run.base /\ R.err = err
    BY Typed DEF Runs, Stages
  <2> QED BY <2>1 DEF EndWith
<1>2. r.tx <= Len(tx') /\ r.base <= Len(job'.submissions)
  BY <1>1, StillWithin
<1>3. Passed(r) = {}
  BY <1>1 DEF Passed, AfterHandler, InContext
<1> QED BY <1>1, <1>2, <1>3, RunMoves DEF InContext, InReturned

\* The handler throws: another attempt, or the end.
LEMMA ThrowStep ==
  ASSUME TypeInv, NEW err \in Errors, HandlerThrows(err)
  PROVE  TypeInv' /\ Advances
<1>1. /\ run.pc # "idle" /\ job' = [job EXCEPT !.attempts = Bump(@)]
      /\ config' = config /\ command' = command /\ tx' = tx /\ reorgs' = reorgs
      /\ err = "reverted" => run.err = "reverted"
  BY DEF HandlerThrows
<1>2. TxGrows /\ tx' \in Seq(Txs)
  BY <1>1, TxStays
<1>3. /\ job' \in JobRecords /\ job'.status = job.status /\ job'.attempts <= MaxAttempts
      /\ TrailGrows /\ CoolsRightly
  BY <1>1, WritesAttempt
<1>4. CASE EndWith(err)
  <2>1. run' \in Runs /\ RunSound'
    BY <1>1, <1>2, <1>3, <1>4, Ending
  <2> QED BY <1>1, <1>2, <1>3, <2>1, RunStep
<1>5. CASE run' = [run EXCEPT !.pc = "handler", !.pos = 1, !.try = @ + 1, !.err = "none"]
  <2>1. PICK n \in Nat, one \in Nat \ {0} : n = run.try + 1 /\ one = 1
    BY Typed DEF Runs
  <2>2. PICK r \in Runs :
          /\ run' = r /\ r.pc = "handler" /\ r.pos = 1 /\ r.plan = run.plan
          /\ r.tx = run.tx /\ r.base = run.base /\ r.err = "none"
    <3> DEFINE R == [run EXCEPT !.pc = "handler", !.pos = one, !.try = n, !.err = "none"]
    <3>1. /\ R \in Runs /\ R.pc = "handler" /\ R.pos = one /\ R.plan = run.plan
          /\ R.tx = run.tx /\ R.base = run.base /\ R.err = "none"
      BY Typed DEF Runs, Stages
    <3> QED BY <1>5, <2>1, <3>1
  <2>3. r.tx <= Len(tx') /\ r.base <= Len(job'.submissions)
    BY <1>2, <1>3, <2>2, StillWithin
  <2>4. Passed(r) = {}
    BY <2>2, HandlerLists DEF Passed, AfterHandler
  <2>5. run' \in Runs /\ RunSound'
    BY <1>1, <1>2, <1>3, <2>2, <2>3, <2>4, RunMoves DEF InContext, InReturned
  <2> QED BY <1>1, <1>2, <1>3, <2>5, RunStep
<1> QED BY <1>4, <1>5 DEF HandlerThrows

\* The delivered indexes are numbers.
LEMMA Delivered ==
  ASSUME TypeInv
  PROVE  DeliveredSignalIndexes(Trail) \subseteq Int
<1>1. \A r \in Trail : r.index \in Int
  BY Typed, TrailFacts DEF Records
<1> QED BY <1>1 DEF DeliveredSignalIndexes

\* The handler returns: it has all its calls behind it.
LEMMA ReturnStep ==
  ASSUME TypeInv, HandlerReturns
  PROVE  TypeInv' /\ Advances
<1>1. /\ run.pc = "handler" /\ run.pos > Len(run.plan.ctx) /\ job' = job
      /\ config' = config /\ command' = command /\ tx' = tx /\ reorgs' = reorgs
  BY DEF HandlerReturns
<1>2. TxGrows /\ tx' \in Seq(Txs)
  BY <1>1, TxStays
<1>3. /\ job' \in JobRecords /\ job'.status = job.status /\ job'.attempts <= MaxAttempts
      /\ TrailGrows /\ CoolsRightly
  BY <1>1, WritesNothing
<1>4. PICK n \in Nat, one \in Nat \ {0} : n = Len(job.submissions) /\ one = 1
  BY Typed, TrailFacts
<1>5. PICK D \in SUBSET Int :
        D = IF run.resubmit THEN {} ELSE DeliveredSignalIndexes(Trail)
  BY Delivered
<1>6. PICK r \in Runs :
        /\ run' = r /\ r.pc = "recheck" /\ r.plan = run.plan
        /\ r.tx = run.tx /\ r.base = n /\ r.err = run.err
  <2> DEFINE R == [run EXCEPT !.pc = "recheck", !.pos = one, !.base = n, !.delivered = D]
  <2>1. run' = R
    BY <1>4, <1>5 DEF HandlerReturns
  <2>2. /\ R \in Runs /\ R.pc = "recheck" /\ R.plan = run.plan
        /\ R.tx = run.tx /\ R.base = n /\ R.err = run.err
    BY Typed DEF Runs, Stages
  <2> QED BY <2>1, <2>2
<1>7. r.tx <= Len(tx') /\ r.base <= Len(job'.submissions)
  BY <1>1, <1>2, <1>3, <1>4, <1>6, StillWithin
<1>8. ASSUME NEW k \in Passed(r) PROVE k \in Passed(run)
  <2>1. k \in DOMAIN run.plan.ctx
    BY <1>6, <1>8 DEF Passed
  <2>2. k < run.pos
    BY <1>1, <2>1, HandlerLists
  <2> QED BY <1>1, <2>1, <2>2 DEF Passed
<1>9. run' \in Runs /\ RunSound'
  BY <1>1, <1>2, <1>3, <1>6, <1>7, <1>8, RunMoves DEF InContext, InReturned
<1> QED BY <1>1, <1>2, <1>3, <1>9, RunStep

-----------------------------------------------------------------------------
(***************************************************************************)
(* The recheck and the returned signals.                                   *)
(***************************************************************************)
\* The run goes on with its handler behind it, within the same lists.
LEMMA GoesOn ==
  ASSUME TypeInv, config' = config, TxGrows, TrailGrows, tx' \in Seq(Txs),
         job' \in JobRecords, job'.status = job.status,
         run.pc \in AfterHandler,
         NEW r \in Runs, run' = r, r.pc \in {"recheck", "signals", "submit"},
         r.plan = run.plan, r.tx = run.tx, r.base = run.base, r.err = run.err,
         r.pc = "submit" => r.pos \in DOMAIN run.plan.ret
  PROVE  run' \in Runs /\ RunSound'
<1>1. r.tx <= Len(tx') /\ r.base <= Len(job'.submissions) /\ run.pc # "idle"
  BY StillWithin DEF AfterHandler
<1>2. Passed(r) \subseteq Passed(run)
  BY DEF Passed
<1> QED BY <1>1, <1>2, RunMoves DEF InContext, InReturned

\* An earlier broadcast is looked up, in the order of the records.
LEMMA RecheckStep ==
  ASSUME TypeInv, RecheckReceipt
  PROVE  TypeInv' /\ Advances
<1>1. /\ run.pc = "recheck" /\ run.pos <= run.base
      /\ config' = config /\ command' = command /\ tx' = tx /\ reorgs' = reorgs
  BY DEF RecheckReceipt
<1>2. PICK q \in Trail : q = job.submissions[run.pos] /\ q.index \in Int
  <2>1. run.pos \in 1 .. Len(job.submissions)
    BY <1>1, HandlerLists, Typed, TrailFacts DEF TypeInv, RunSound, Runs
  <2> QED BY <2>1, Typed, TrailFacts DEF Records
<1>3. PICK n \in Nat \ {0} : n = run.pos + 1
  BY HandlerLists
<1>4. TxGrows /\ tx' \in Seq(Txs)
  BY <1>1, TxStays
<1>5. \/ run' = [run EXCEPT !.pos = n] /\ job' = job
      \/ /\ q.tx # 0 /\ tx[q.tx].state = "success"
         /\ job' = [job EXCEPT !.submissions = Append(@, [q EXCEPT !.mark = "confirmed"])]
         /\ run' = [[run EXCEPT !.pos = n] EXCEPT !.delivered = @ \cup {q.index}]
      \/ /\ job' = [job EXCEPT !.attempts = Bump(@), !.status = "dead_letter"]
         /\ run' = IdleRun
  <2>1. CASE IsUnconfirmedBroadcast(q)
    <3>1. PICK receipt \in LookupBroadcastReceipt(q.tx) :
            \/ receipt = "unknown" /\ run' = [run EXCEPT !.pos = n] /\ job' = job
            \/ /\ receipt = "success"
               /\ job' = [job EXCEPT !.submissions =
                            Append(@, [q EXCEPT !.mark = "confirmed"])]
               /\ run' = [[run EXCEPT !.pos = n] EXCEPT !.delivered = @ \cup {q.index}]
            \/ /\ receipt = "reverted"
               /\ job' = [job EXCEPT !.attempts = Bump(@),
                                     !.status = StatusForError("reverted")]
               /\ run' = IdleRun
      BY <1>2, <1>3, <2>1 DEF RecheckReceipt
    <3> QED BY <2>1, <3>1, Receipts DEF IsUnconfirmedBroadcast, StatusForError
  <2>2. CASE ~IsUnconfirmedBroadcast(q)
    BY <1>2, <1>3, <2>2 DEF RecheckReceipt
  <2> QED BY <2>1, <2>2
<1>6. CASE run' = [run EXCEPT !.pos = n] /\ job' = job
  <2> DEFINE R == [run EXCEPT !.pos = n]
  <2>1. /\ R \in Runs /\ R.pc = "recheck" /\ R.plan = run.plan
        /\ R.tx = run.tx /\ R.base = run.base /\ R.err = run.err
    BY <1>1, Typed DEF Runs
  <2>2. /\ job' \in JobRecords /\ job'.status = job.status
        /\ job'.attempts <= MaxAttempts /\ TrailGrows /\ CoolsRightly
    BY <1>6, WritesNothing
  <2>3. run' \in Runs /\ RunSound'
    BY <1>1, <1>4, <1>6, <2>1, <2>2, GoesOn DEF AfterHandler
  <2> QED BY <1>1, <1>4, <2>2, <2>3, RunStep
<1>7. CASE /\ q.tx # 0 /\ tx[q.tx].state = "success"
           /\ job' = [job EXCEPT !.submissions = Append(@, [q EXCEPT !.mark = "confirmed"])]
           /\ run' = [[run EXCEPT !.pos = n] EXCEPT !.delivered = @ \cup {q.index}]
  <2>1. PICK r : r = [q EXCEPT !.mark = "confirmed"]
    OBVIOUS
  <2>2. Fresh(r) /\ r.tx = q.tx
    BY <1>7, <2>1, Settles
  <2>3. job' = [job EXCEPT !.submissions = Append(@, r)]
    BY <1>7, <2>1
  <2>4. /\ job' \in JobRecords /\ job'.status = job.status
        /\ job'.attempts <= MaxAttempts /\ TrailGrows /\ CoolsRightly
    BY <1>7, <2>2, <2>3, WritesQuietly
  <2>5. PICK D \in SUBSET Int : D = run.delivered \cup {q.index}
    BY <1>2, Typed DEF Runs
  <2> DEFINE R == [run EXCEPT !.pos = n, !.delivered = D]
  <2>6. run' = R
    BY <1>7, <2>5, Typed DEF Runs
  <2>7. /\ R \in Runs /\ R.pc = "recheck" /\ R.plan = run.plan
        /\ R.tx = run.tx /\ R.base = run.base /\ R.err = run.err
    BY <1>1, Typed DEF Runs
  <2>8. run' \in Runs /\ RunSound'
    BY <1>1, <1>4, <2>4, <2>6, <2>7, GoesOn DEF AfterHandler
  <2> QED BY <1>1, <1>4, <2>4, <2>8, RunStep
<1>8. CASE /\ job' = [job EXCEPT !.attempts = Bump(@), !.status = "dead_letter"]
           /\ run' = IdleRun
  <2>1. PICK m \in Nat : m = Bump(job.attempts) /\ m <= MaxAttempts
    BY Bumped
  <2>2. job' = [job EXCEPT !.attempts = m, !.status = "dead_letter"]
    BY <1>8, <2>1, Typed DEF JobRecords
  <2>3. /\ job' \in JobRecords /\ job'.attempts <= MaxAttempts
        /\ job'.submissions = job.submissions /\ job'.cooled = job.cooled
    BY <2>1, <2>2, Typed DEF JobRecords, Statuses
  <2> QED BY <1>1, <1>8, <2>3, RunEnds DEF TypeInv
<1> QED BY <1>5, <1>6, <1>7, <1>8

\* The records the run found are all looked up.
LEMMA RecheckDoneStep ==
  ASSUME TypeInv, RecheckDone
  PROVE  TypeInv' /\ Advances
<1>1. /\ run.pc = "recheck" /\ job' = job
      /\ config' = config /\ command' = command /\ tx' = tx /\ reorgs' = reorgs
  BY DEF RecheckDone
<1>2. TxGrows /\ tx' \in Seq(Txs)
  BY <1>1, TxStays
<1>3. /\ job' \in JobRecords /\ job'.status = job.status
      /\ job'.attempts <= MaxAttempts /\ TrailGrows /\ CoolsRightly
  BY <1>1, WritesNothing
<1>4. PICK one \in Nat \ {0} : one = 1
  OBVIOUS
<1> DEFINE R == [run EXCEPT !.pc = "signals", !.pos = one]
<1>5. run' = R
  BY <1>4 DEF RecheckDone
<1>6. /\ R \in Runs /\ R.pc = "signals" /\ R.plan = run.plan
      /\ R.tx = run.tx /\ R.base = run.base /\ R.err = run.err
  BY Typed DEF Runs, Stages
<1>7. run' \in Runs /\ RunSound'
  BY <1>1, <1>2, <1>3, <1>5, <1>6, GoesOn DEF AfterHandler
<1> QED BY <1>1, <1>2, <1>3, <1>7, RunStep

\* A signal is done with, one way or another, and the next one is up.
LEMMA NextUp ==
  ASSUME TypeInv, config' = config, TxGrows, TrailGrows, tx' \in Seq(Txs),
         job' \in JobRecords, job'.status = job.status,
         run.pc \in {"signals", "submit", "sent"},
         NEW b \in BOOLEAN, NEW D \in SUBSET Int, NextSignal(b, D)
  PROVE  run' \in Runs /\ RunSound'
<1>1. PICK n \in Nat \ {0} : n = run.pos + 1
  BY HandlerLists
<1>2. PICK c \in BOOLEAN : c = (run.deferred \/ b)
  OBVIOUS
<1>3. PICK E \in SUBSET Int : E = run.delivered \cup D
  BY Typed DEF Runs
<1> DEFINE R == [run EXCEPT !.pc = "signals", !.pos = n, !.deferred = c, !.delivered = E]
<1>4. run' = R
  BY <1>1, <1>2, <1>3, Typed DEF NextSignal, Runs
<1>5. /\ R \in Runs /\ R.pc = "signals" /\ R.plan = run.plan
      /\ R.tx = run.tx /\ R.base = run.base /\ R.err = run.err
  BY Typed DEF Runs, Stages
<1> QED BY <1>4, <1>5, GoesOn DEF AfterHandler

\* A returned signal is passed over, put off or taken up.
LEMMA TakeStep ==
  ASSUME TypeInv, TakeSignal
  PROVE  TypeInv' /\ Advances
<1>1. /\ run.pc = "signals" /\ run.pos <= Len(run.plan.ret) /\ job' = job
      /\ config' = config /\ command' = command /\ tx' = tx /\ reorgs' = reorgs
  BY DEF TakeSignal
<1>2. TxGrows /\ tx' \in Seq(Txs)
  BY <1>1, TxStays
<1>3. /\ job' \in JobRecords /\ job'.status = job.status
      /\ job'.attempts <= MaxAttempts /\ TrailGrows /\ CoolsRightly
  BY <1>1, WritesNothing
<1>4. \/ NextSignal(FALSE, {}) \/ NextSignal(TRUE, {})
      \/ run' = [run EXCEPT !.pc = "submit", !.try = 1]
  BY DEF TakeSignal
<1>5. ASSUME NextSignal(FALSE, {}) \/ NextSignal(TRUE, {})
      PROVE  run' \in Runs /\ RunSound'
  BY <1>1, <1>2, <1>3, <1>5, NextUp
<1>6. ASSUME run' = [run EXCEPT !.pc = "submit", !.try = 1]
      PROVE  run' \in Runs /\ RunSound'
  <2>1. PICK one \in Nat : one = 1
    OBVIOUS
  <2> DEFINE R == [run EXCEPT !.pc = "submit", !.try = one]
  <2>2. run' = R
    BY <1>6, <2>1
  <2>3. /\ R \in Runs /\ R.pc = "submit" /\ R.plan = run.plan /\ R.pos = run.pos
        /\ R.tx = run.tx /\ R.base = run.base /\ R.err = run.err
    BY Typed DEF Runs, Stages
  <2>4. run.pos \in DOMAIN run.plan.ret
    BY <1>1, HandlerLists
  <2> QED BY <1>1, <1>2, <1>3, <2>2, <2>3, <2>4, GoesOn DEF AfterHandler
<1>7. run' \in Runs /\ RunSound'
  BY <1>4, <1>5, <1>6
<1> QED BY <1>1, <1>2, <1>3, <1>7, RunStep

\* What the returned lane records is about the signal that is up.
LEMMA ReturnedRecord ==
  ASSUME TypeInv, run.pc \in InReturned, NEW s \in {AtHand(run), NoSignal}, NEW t, NEW m
  PROVE  /\ run.pos \in DOMAIN run.plan.ret
         /\ AtHand(run) = run.plan.ret[run.pos] /\ AtHand(run) \in Signals
         /\ Index \in Int
         /\ OfTheRun(Record(Index, s, t, m))
         /\ Record(Index, s, t, m).tx = t
<1>1. /\ run.pos \in DOMAIN run.plan.ret /\ AtHand(run) = run.plan.ret[run.pos]
      /\ AtHand(run) \in Signals
  BY HandlerLists, ElementOfSeq DEF TypeInv, RunSound, AtHand, InContext, InReturned
<1>2. Index \in Int /\ Index = run.pos - 1
  BY HandlerLists DEF Index
<1> QED BY <1>1, <1>2 DEF OfTheRun, Record

\* A dry run of a returned signal leaves a record, once.
LEMMA SubmitDryStep ==
  ASSUME TypeInv, SubmitDryRun
  PROVE  TypeInv' /\ Advances
<1>1. PICK r : r = Record(Index, AtHand(run), 0, "dry")
  OBVIOUS
<1>2. run.pc = "submit" /\ run.pc \in InReturned
  BY DEF SubmitDryRun, InReturned
<1>3. /\ AtHand(run) = run.plan.ret[run.pos] /\ AtHand(run) \in Signals
      /\ Index \in Int /\ OfTheRun(r) /\ r.tx = 0
  BY <1>1, <1>2, ReturnedRecord
<1>4. Fresh(r)
  BY <1>1, <1>3, OwnRecord DEF Marks
<1>5. /\ NextSignal(FALSE, {}) /\ config' = config /\ command' = command
      /\ tx' = tx /\ reorgs' = reorgs
      /\ job' = [job EXCEPT !.submissions = AppendJobSubmission(@, r), !.cooled = FALSE]
  BY <1>1, <1>3 DEF SubmitDryRun
<1>6. TxGrows /\ tx' \in Seq(Txs)
  BY <1>5, TxStays
<1>7. PICK S : S = AppendJobSubmission(job.submissions, r)
  OBVIOUS
<1>8. /\ S \in Seq(Records) /\ ToSet(S) = Trail \cup {r}
      /\ Len(job.submissions) <= Len(S)
  <2>1. r \in Records /\ job.submissions \in Seq(Records) /\ Len(job.submissions) \in Nat
    BY <1>4, Typed, TrailFacts DEF Fresh
  <2>2. CASE S = job.submissions /\ r \in Trail
    BY <2>1, <2>2 DEF Trail
  <2>3. CASE S = Append(job.submissions, r)
    BY <2>1, <2>3, Appended DEF Trail
  <2> QED BY <1>7, <2>2, <2>3 DEF AppendJobSubmission, Trail
<1>9. PICK n \in Nat : n = job.attempts /\ n <= MaxAttempts
  BY Typed DEF TypeInv, JobRecords
<1>10. job' = [job EXCEPT !.submissions = S, !.attempts = n, !.cooled = FALSE]
  BY <1>5, <1>7, <1>9, Typed DEF JobRecords
<1>11. PICK R : R = {r}
  OBVIOUS
<1>12. ToSet(S) = Trail \cup R /\ \A q \in R : Fresh(q)
  BY <1>4, <1>8, <1>11
<1>13. /\ job' \in JobRecords /\ job'.status = job.status
       /\ job'.attempts <= MaxAttempts /\ TrailGrows /\ CoolsRightly
  BY <1>8, <1>9, <1>10, <1>12, Writing
<1>14. run' \in Runs /\ RunSound'
  BY <1>2, <1>5, <1>6, <1>13, NextUp
<1> QED BY <1>5, <1>6, <1>13, <1>14, RunStep

\* A failed attempt leaves one record.
LEMMA OneFailure ==
  ASSUME TypeInv, NEW r, Fresh(r), WithFailure(<<r>>)
  PROVE  /\ job' \in JobRecords /\ job'.status = job.status
         /\ job'.attempts <= MaxAttempts
         /\ TrailGrows /\ Trail' = Trail \cup {r} /\ CoolsRightly
<1>1. r \in Records
  BY DEF Fresh
<1>2. PICK F : F = <<r>>
  OBVIOUS
<1>3. F \in Seq(Records) /\ ToSet(F) = {r}
  <2>1. <<r>> \in Seq(Records) /\ ToSet(<<r>>) = {r}
    BY <1>1, FewRecords
  <2> QED BY <1>2, <2>1, Zenon
<1>4. WithFailure(F) /\ \A q \in ToSet(F) : Fresh(q)
  BY <1>2, <1>3
<1> QED BY <1>3, <1>4, WritesFailure

\* The returned signal's submission fails before the kit holds a hash.
LEMMA SubmitFailStep ==
  ASSUME TypeInv, NEW err \in Errors, SubmitFails(err)
  PROVE  TypeInv' /\ Advances
<1>1. PICK r : r = Record(Index, NoSignal, 0, ErrorMark(err))
  OBVIOUS
<1>2. run.pc = "submit" /\ run.pc \in InReturned
  BY DEF SubmitFails, InReturned
<1>3. /\ AtHand(run) = run.plan.ret[run.pos] /\ AtHand(run) \in Signals
      /\ Index \in Int /\ OfTheRun(r)
  BY <1>1, <1>2, ReturnedRecord
<1>4. /\ SendFails(AtHand(run), err) /\ WithFailure(<<r>>)
      /\ config' = config /\ command' = command /\ reorgs' = reorgs
  BY <1>1, <1>3 DEF SubmitFails
<1>5. /\ TxGrows /\ tx' \in Seq(Txs) /\ err # "reverted"
      /\ err = "duplicate" => OnChain(AtHand(run))
  BY <1>3, <1>4, SendFailing
<1>6. ErrorMark(err) \in Marks
      /\ (ErrorMark(err) \in {"confirmed", "duplicate"} => OnChain(AtHand(run)))
  BY <1>5 DEF ErrorMark, Marks
<1>7. Fresh(r)
  BY <1>1, <1>3, <1>6, OwnRecord
<1>8. /\ job' \in JobRecords /\ job'.status = job.status
      /\ job'.attempts <= MaxAttempts
      /\ TrailGrows /\ Trail' = Trail \cup {r} /\ CoolsRightly
  BY <1>4, <1>7, OneFailure
<1>9. \/ run' = [run EXCEPT !.try = @ + 1]
      \/ NextSignal(FALSE, {Index}) \/ EndWith(err)
  BY DEF SubmitFails
<1>10. ASSUME run' = [run EXCEPT !.try = @ + 1]
      PROVE  run' \in Runs /\ RunSound'
  <2>1. PICK n \in Nat : n = run.try + 1
    BY Typed DEF Runs
  <2> DEFINE R == [run EXCEPT !.try = n]
  <2>2. run' = R
    BY <1>10, <2>1, Typed DEF Runs
  <2>3. /\ R \in Runs /\ R.pc = "submit" /\ R.plan = run.plan /\ R.pos = run.pos
        /\ R.tx = run.tx /\ R.base = run.base /\ R.err = run.err
    BY <1>2, Typed DEF Runs, Stages
  <2>4. run.pos \in DOMAIN run.plan.ret
    BY <1>2, ReturnedRecord
  <2> QED BY <1>2, <1>4, <1>5, <1>8, <2>2, <2>3, <2>4, GoesOn DEF AfterHandler
<1>11. ASSUME NextSignal(FALSE, {Index})
      PROVE  run' \in Runs /\ RunSound'
  <2>1. PICK D \in SUBSET Int : D = {Index}
    BY <1>3
  <2> QED BY <1>2, <1>4, <1>5, <1>8, <1>11, <2>1, NextUp
<1>12. ASSUME EndWith(err)
      PROVE  run' \in Runs /\ RunSound'
  BY <1>2, <1>4, <1>5, <1>8, <1>12, Ending
<1>13. run' \in Runs /\ RunSound'
  BY <1>9, <1>10, <1>11, <1>12
<1> QED BY <1>4, <1>5, <1>8, <1>13, RunStep

\* The wait for the receipt of a returned signal ends.
LEMMA SentStep ==
  ASSUME TypeInv, NEW outcome \in SentOutcomes, Sent(outcome)
  PROVE  TypeInv' /\ Advances
<1>1. /\ run.pc = "sent" /\ run.pc \in InReturned /\ outcome \in WaitOutcomes
      /\ config' = config /\ command' = command /\ tx' = tx /\ reorgs' = reorgs
  BY DEF Sent, InReturned
<1>2. PICK s \in Signals, i \in Int :
        s = AtHand(run) /\ s = run.plan.ret[run.pos] /\ i = Index
  BY <1>1, ReturnedRecord
<1>3. /\ \A m : OfTheRun(Record(i, s, run.tx, m)) /\ Record(i, s, run.tx, m).tx = run.tx
      /\ \A m : /\ OfTheRun(Record(i, NoSignal, run.tx, m))
                /\ Record(i, NoSignal, run.tx, m).tx = run.tx
  BY <1>1, <1>2, ReturnedRecord
<1>4. TxGrows /\ tx' \in Seq(Txs) /\ run.tx \in Nat /\ run.tx # 0
  BY <1>1, TxStays, Typed DEF TypeInv, RunSound, Runs
<1>5. PICK failed : failed = Record(i, NoSignal, run.tx, "failed")
  OBVIOUS
<1>6. PICK mined : mined = Record(i, s, run.tx, "confirmed")
  OBVIOUS
<1>7. PICK r : r = Record(i, s, run.tx, "sent")
  OBVIOUS
<1>8. PICK D \in SUBSET Int : D = {i} /\ D = {Index}
  BY <1>2
<1>9. /\ Fresh(failed) /\ failed.tx = run.tx /\ Fresh(r)
      /\ tx[run.tx].state = "success" => Fresh(mined)
      /\ mined.tx = run.tx
  BY <1>1, <1>3, <1>4, <1>5, <1>6, <1>7, OwnRecord DEF Marks
<1>10. ASSUME NEW x, Fresh(x), WithRecord(x), NextSignal(FALSE, D)
       PROVE  TypeInv' /\ Advances
  <2>1. /\ job' \in JobRecords /\ job'.status = job.status /\ job'.attempts <= MaxAttempts
        /\ TrailGrows /\ CoolsRightly
    BY <1>10, WritesOne
  <2>2. run' \in Runs /\ RunSound'
    BY <1>1, <1>4, <1>10, <2>1, NextUp
  <2> QED BY <1>1, <1>4, <2>1, <2>2, RunStep
<1>11. ASSUME NEW b \in BOOLEAN, NEW E \in SUBSET Int, WithFailure(<<failed>>),
              NextSignal(b, E)
       PROVE  TypeInv' /\ Advances
  <2>1. /\ job' \in JobRecords /\ job'.status = job.status /\ job'.attempts <= MaxAttempts
        /\ TrailGrows /\ CoolsRightly
    BY <1>9, <1>11, OneFailure
  <2>2. run' \in Runs /\ RunSound'
    BY <1>1, <1>4, <1>11, <2>1, NextUp
  <2> QED BY <1>1, <1>4, <2>1, <2>2, RunStep
<1>12. ASSUME NEW err \in Errors, WithFailure(<<failed>>), EndWith(err),
              err = "reverted" => tx[run.tx].state = "reverted"
       PROVE  TypeInv' /\ Advances
  <2>1. /\ job' \in JobRecords /\ job'.status = job.status /\ job'.attempts <= MaxAttempts
        /\ TrailGrows /\ Trail' = Trail \cup {failed} /\ CoolsRightly
    BY <1>9, <1>12, OneFailure
  <2>2. err = "reverted" => RevertOnRecord'
    BY <1>1, <1>4, <1>9, <1>12, <2>1 DEF RevertOnRecord
  <2>3. run' \in Runs /\ RunSound'
    BY <1>1, <1>4, <1>12, <2>1, <2>2, Ending
  <2> QED BY <1>1, <1>4, <2>1, <2>3, RunStep
<1>13. CASE outcome = "sent"
  <2>1. WithRecord(r) /\ NextSignal(FALSE, D)
    BY <1>2, <1>7, <1>8, <1>13 DEF Sent
  <2> QED BY <1>9, <1>10, <2>1
<1>14. CASE outcome = "success"
  <2>1. WithRecord(mined) /\ NextSignal(FALSE, D)
    BY <1>2, <1>6, <1>8, <1>14 DEF Sent
  <2>2. Fresh(mined)
    BY <1>1, <1>9, <1>14, Waits
  <2> QED BY <1>10, <2>1, <2>2
<1>15. CASE outcome = "retryable"
  <2>1. PICK receipt \in LookupBroadcastReceipt(run.tx) :
          \/ /\ receipt = "success" /\ WithFailure(<<failed, mined>>)
             /\ NextSignal(FALSE, D)
          \/ receipt = "reverted" /\ WithFailure(<<failed>>) /\ EndWith("reverted")
          \/ receipt = "unknown" /\ WithFailure(<<failed>>) /\ NextSignal(TRUE, {})
    BY <1>2, <1>5, <1>6, <1>8, <1>15 DEF Sent
  <2>2. CASE /\ receipt = "success" /\ WithFailure(<<failed, mined>>)
             /\ NextSignal(FALSE, D)
    <3>1. Fresh(failed) /\ Fresh(mined)
      BY <1>9, <2>2, Receipts
    <3>2. failed \in Records /\ mined \in Records
      BY <3>1 DEF Fresh
    <3>3. PICK F : F = <<failed, mined>>
      OBVIOUS
    <3>4. F \in Seq(Records) /\ ToSet(F) = {failed, mined}
      <4>1. <<failed, mined>> \in Seq(Records)
            /\ ToSet(<<failed, mined>>) = {failed, mined}
        BY <3>2, FewRecords
      <4> QED BY <3>3, <4>1, Zenon
    <3>5. WithFailure(F) /\ \A q \in ToSet(F) : Fresh(q)
      BY <2>2, <3>1, <3>3, <3>4
    <3>6. /\ job' \in JobRecords /\ job'.status = job.status
          /\ job'.attempts <= MaxAttempts /\ TrailGrows /\ CoolsRightly
      BY <3>4, <3>5, WritesFailure
    <3>7. run' \in Runs /\ RunSound'
      BY <1>1, <1>4, <2>2, <3>6, NextUp
    <3> QED BY <1>1, <1>4, <3>6, <3>7, RunStep
  <2>3. CASE receipt = "reverted" /\ WithFailure(<<failed>>) /\ EndWith("reverted")
    BY <1>12, <2>3, Receipts DEF Errors
  <2>4. CASE receipt = "unknown" /\ WithFailure(<<failed>>) /\ NextSignal(TRUE, {})
    BY <1>11, <2>4
  <2> QED BY <2>1, <2>2, <2>3, <2>4
<1>16. CASE outcome \in {"reverted", "permanent"}
  <2>1. WithFailure(<<failed>>) /\ EndWith(outcome) /\ outcome \in Errors
    BY <1>2, <1>5, <1>16 DEF Sent, Errors
  <2>2. outcome = "reverted" => tx[run.tx].state = "reverted"
    BY <1>1, Waits
  <2> QED BY <1>12, <2>1, <2>2
<1> QED BY <1>13, <1>14, <1>15, <1>16 DEF SentOutcomes

-----------------------------------------------------------------------------
(***************************************************************************)
(* The type invariant.                                                     *)
(***************************************************************************)
\* A job is new, and nobody runs it.
LEMMA InitType ==
  ASSUME Init
  PROVE  TypeInv
<1>1. /\ config \in Deployments /\ job \in JobRecords /\ run = IdleRun
      /\ job.attempts = 0 /\ job.submissions = <<>> /\ command = "none"
      /\ tx \in Seq(Txs) /\ Len(tx) = 0 /\ reorgs \in 0 .. ReorgBound
  BY SignalRunAssumption DEF Init, JobRecords, Statuses
<1>2. Trail = {}
  BY <1>1 DEF Trail, ToSet
<1>3. job.attempts <= MaxAttempts
  BY <1>1, Configured
<1>4. RunSound
  BY <1>1, IdleFacts DEF RunSound, InContext, InReturned
<1> QED BY <1>1, <1>2, <1>3, <1>4, IdleFacts DEF TypeInv

\* A step in which nothing happens.
LEMMA StutterStep ==
  ASSUME TypeInv, UNCHANGED vars
  PROVE  TypeInv' /\ Advances
<1>1. /\ config' = config /\ job' = job /\ run' = run /\ command' = command
      /\ tx' = tx /\ reorgs' = reorgs
  BY DEF vars
<1>2. TxGrows /\ tx' \in Seq(Txs)
  BY <1>1, TxStays
<1>3. /\ job' \in JobRecords /\ job'.status = job.status
      /\ job'.attempts <= MaxAttempts /\ TrailGrows /\ CoolsRightly
  BY <1>1, WritesNothing
<1>4. run' \in Runs /\ RunSound'
  BY <1>1, <1>2, <1>3, RunStays
<1> QED BY <1>1, <1>2, <1>3, <1>4, RunStep

\* The handler and its calls.
LEMMA ContextSteps ==
  ASSUME TypeInv, ContextStep
  PROVE  TypeInv' /\ Advances
<1>1. CASE \E s \in Signals : ContextAnswered(s) \/ ContextRecheck(s) \/ ContextFirst(s)
  BY <1>1, AnsweredStep, ContextRecheckStep, FirstStep
<1>2. CASE \E err \in Errors : ContextSendFails(err)
  BY <1>2, ContextFailStep
<1>3. CASE ContextDryRun
  BY <1>3, ContextDryStep
<1>4. CASE ContextBroadcast
  <2>1. run.pc = "ctxSubmit" /\ Broadcast(AtHand(run), "ctxSent")
    BY <1>4 DEF ContextBroadcast, AtHand, InContext
  <2> QED BY <2>1, Broadcasting
<1>5. CASE \E o \in SentOutcomes : ContextSent(o)
  BY <1>5, ContextSentStep
<1>6. CASE HandlerCatches \/ HandlerReturns
  BY <1>6, CatchStep, ReturnStep
<1>7. CASE \E err \in Errors : HandlerThrows(err)
  BY <1>7, ThrowStep
<1> QED BY <1>1, <1>2, <1>3, <1>4, <1>5, <1>6, <1>7 DEF ContextStep

\* The conclusion a run writes is a status.
LEMMA Conclusions ==
  /\ \A err \in Errors \cup {"none"} : StatusForTerminalError(err) \in Statuses
  /\ StatusForCompletedRun \in {"matched", "submitted", "confirmed"}
BY DEF StatusForTerminalError, StatusForError, StatusForCompletedRun, Statuses

\* The recheck, the returned signals and the conclusion.
LEMMA SignalSteps ==
  ASSUME TypeInv, SignalStep
  PROVE  TypeInv' /\ Advances
<1>1. CASE RecheckReceipt \/ RecheckDone \/ TakeSignal \/ SubmitDryRun
  BY <1>1, RecheckStep, RecheckDoneStep, TakeStep, SubmitDryStep
<1>2. CASE \E err \in Errors : SubmitFails(err)
  BY <1>2, SubmitFailStep
<1>3. CASE SubmitBroadcast
  <2>1. run.pc = "submit" /\ Broadcast(AtHand(run), "sent")
    BY <1>3 DEF SubmitBroadcast, AtHand, InContext
  <2> QED BY <2>1, Broadcasting
<1>4. CASE \E o \in SentOutcomes : Sent(o)
  BY <1>4, SentStep
<1>5. CASE ConcludeFailure
  <2>1. PICK s \in Statuses : s = StatusForTerminalError(run.err)
    BY Conclusions, Typed DEF Runs
  <2> QED BY <1>5, <2>1, ConcludeStep DEF ConcludeFailure
<1>6. CASE FinishRun
  <2>1. PICK s \in Statuses :
          s = IF run.deferred /\ StatusForCompletedRun = "matched"
              THEN "submitted" ELSE StatusForCompletedRun
    BY Conclusions DEF Statuses
  <2> QED BY <1>6, <2>1, ConcludeStep DEF FinishRun
<1> QED BY <1>1, <1>2, <1>3, <1>4, <1>5, <1>6 DEF SignalStep

\* Every step preserves the invariant and is of the kind described by Advances.
LEMMA StepType ==
  ASSUME TypeInv, [Next]_vars
  PROVE  TypeInv' /\ Advances
<1>1. CASE ContextStep
  BY <1>1, ContextSteps
<1>2. CASE SignalStep
  BY <1>2, SignalSteps
<1>3. CASE CommandStep
  BY <1>3, CommandSteps
<1>4. CASE ChainStep
  BY <1>4, ChainSteps
<1>5. CASE ScanStep
  BY <1>5, ScanSteps
<1>6. CASE BackoffElapses
  BY <1>6, BackoffStep
<1>7. CASE Abort
  BY <1>7, AbortStep
<1>8. CASE UNCHANGED vars
  BY <1>8, StutterStep
<1> QED BY <1>1, <1>2, <1>3, <1>4, <1>5, <1>6, <1>7, <1>8 DEF Next

\* The inductive invariant: types, and a run that has earned the stage it is in.
LEMMA TypeInvariant == Spec => []TypeInv
<1>1. Init => TypeInv
  BY InitType
<1>2. TypeInv /\ [Next]_vars => TypeInv'
  BY StepType
<1> QED BY <1>1, <1>2, PTL DEF Spec

\* The job record, the locals of the run and the chain are always well typed:
\* every record of the trail names a transaction the node really took, and the
\* plan of a run is one its handler may have.
THEOREM TypeCorrect == Spec => []TypeOK
<1>1. TypeInv => TypeOK
  <2> SUFFICES ASSUME TypeInv PROVE TypeOK
    OBVIOUS
  <2>1. /\ config \in Deployments /\ job.status \in Statuses /\ job.attempts \in 0 .. MaxAttempts
        /\ job.cooled \in BOOLEAN
    BY Typed DEF TypeInv, JobRecords
  <2>2. \A r \in Trail : /\ r.index \in Int /\ r.sig \in Signals \cup {NoSignal}
                         /\ r.tx \in 0 .. Len(tx) /\ r.mark \in Marks
    BY Typed, TrailFacts DEF TypeInv, Records
  <2>3. /\ run.pc \in Stages /\ run.plan \in Plans \cup {NoPlan}
        /\ run.tx \in 0 .. Len(tx) /\ run.err \in Errors \cup {"none"}
    BY Typed DEF TypeInv, RunSound, Runs
  <2>4. \A t \in DOMAIN tx : tx[t].sig \in Signals /\ tx[t].state \in States
    BY Typed DEF Txs
  <2> QED BY <2>1, <2>2, <2>3, <2>4 DEF TypeOK, TypeInv, Stages, States
<1> QED BY <1>1, TypeInvariant, PTL

-----------------------------------------------------------------------------
(***************************************************************************)
(* How a job is closed.                                                    *)
(***************************************************************************)
\* A run in flight is the only thing that goes through these.
LEMMA RunsAreInFlight ==
  ASSUME ContextStep \/ SignalStep
  PROVE  run.pc # "idle"
<1>1. CASE ContextStep
  BY <1>1 DEF ContextStep, ContextAnswered, ContextRecheck, ContextFirst, ContextCall,
     ContextSendFails, ContextDryRun, ContextBroadcast, ContextSent, HandlerCatches,
     HandlerReturns, HandlerThrows
<1>2. CASE SignalStep
  BY <1>2 DEF SignalStep, RecheckReceipt, RecheckDone, TakeSignal, SubmitDryRun,
     SubmitFails, SubmitBroadcast, Sent, ConcludeFailure, FinishRun
<1> QED BY <1>1, <1>2

\* An operator's dead-letter is final: a run in flight holds its job `matched`, and
\* neither a scan nor a retry still on its way opens the job again.
THEOREM DeadLettersAreFinal == Spec => DeadLetterIsFinal
<1>1. ASSUME TypeInv, [Next]_vars, job.status = "dead_letter"
      PROVE  job'.status = "dead_letter"
  <2>1. run.pc = "idle" /\ job \in JobRecords
    BY <1>1, Typed DEF TypeInv, RunSound
  <2>2. ~ContextStep /\ ~SignalStep
    BY <2>1, RunsAreInFlight
  <2>3. ~Open(job.status)
    BY <1>1 DEF Open
  <2>4. CASE CommandStep
    BY <1>1, <2>1, <2>3, <2>4 DEF CommandStep, RetryCommand, RetryExhausted,
       DeadLetterCommand, CommandYields, CommandRun, StartRun, Retriable, JobRecords
  <2>5. CASE ChainStep
    BY <1>1, <2>5 DEF ChainStep, Mine, Drop, Reorg
  <2>6. CASE ScanStep
    BY <2>3, <2>6 DEF ScanStep, Scan, StartRun
  <2>7. CASE BackoffElapses
    BY <1>1, <2>1, <2>7 DEF BackoffElapses, JobRecords
  <2>8. CASE Abort \/ UNCHANGED vars
    BY <1>1, <2>8 DEF Abort, vars
  <2> QED BY <1>1, <2>2, <2>4, <2>5, <2>6, <2>7, <2>8 DEF Next
<1> QED BY <1>1, TypeInvariant, PTL DEF Spec, DeadLetterIsFinal

\* What a run does before its conclusion leaves the status alone.
LEMMA StatusKept ==
  ASSUME TypeInv, [Next]_vars, run.pc # "idle",
         ~RecheckReceipt, ~ConcludeFailure, ~FinishRun
  PROVE  job'.status = job.status
<1>1. job \in JobRecords
  BY Typed
<1>2. CASE ContextStep
  <2>1. CASE \E s \in Signals : ContextAnswered(s) \/ ContextRecheck(s) \/ ContextFirst(s)
    BY <1>1, <2>1 DEF ContextAnswered, ContextRecheck, ContextFirst, ContextSubmit, JobRecords
  <2>2. CASE \E err \in Errors : ContextSendFails(err)
    BY <1>1, <2>2 DEF ContextSendFails, JobRecords
  <2>3. CASE ContextDryRun \/ ContextBroadcast
    BY <1>1, <2>3 DEF ContextDryRun, ContextBroadcast, Broadcast, JobRecords
  <2>4. CASE \E o \in SentOutcomes : ContextSent(o)
    BY <1>1, <2>4 DEF ContextSent, WithRecord, SentOutcomes, JobRecords
  <2>5. CASE HandlerCatches \/ HandlerReturns \/ \E err \in Errors : HandlerThrows(err)
    BY <1>1, <2>5 DEF HandlerCatches, HandlerReturns, HandlerThrows, JobRecords
  <2> QED BY <1>2, <2>1, <2>2, <2>3, <2>4, <2>5 DEF ContextStep
<1>3. CASE SignalStep
  <2>1. CASE RecheckDone \/ TakeSignal \/ SubmitDryRun \/ SubmitBroadcast
    BY <1>1, <2>1 DEF RecheckDone, TakeSignal, SubmitDryRun, SubmitBroadcast, Broadcast,
       JobRecords
  <2>2. CASE \E err \in Errors : SubmitFails(err)
    BY <1>1, <2>2 DEF SubmitFails, WithFailure, JobRecords
  <2>3. CASE \E o \in SentOutcomes : Sent(o)
    BY <1>1, <2>3 DEF Sent, WithRecord, WithFailure, SentOutcomes, JobRecords
  <2> QED BY <1>3, <2>1, <2>2, <2>3 DEF SignalStep
<1>4. CASE CommandStep
  BY <1>4 DEF CommandStep, RetryCommand, RetryExhausted,
     DeadLetterCommand, CommandYields, CommandRun, StartRun
<1>5. CASE ChainStep
  BY <1>5 DEF ChainStep, Mine, Drop, Reorg
<1>6. CASE ScanStep
  BY <1>6 DEF ScanStep, Scan, StartRun
<1>7. CASE BackoffElapses
  BY <1>1, <1>7 DEF BackoffElapses, JobRecords
<1>8. CASE Abort \/ UNCHANGED vars
  BY <1>8 DEF Abort, vars
<1> QED BY <1>2, <1>3, <1>4, <1>5, <1>6, <1>7, <1>8 DEF Next

\* The trail is the same after a conclusion.
LEMMA Concluded ==
  ASSUME TypeInv, NEW s, ConcludeRun(s)
  PROVE  job'.status = s /\ Trail' = Trail /\ HasUnresolvedBroadcast' = HasUnresolvedBroadcast
<1>1. job' = [job EXCEPT !.status = s] /\ job \in JobRecords
  BY Typed DEF ConcludeRun
<1>2. job'.status = s /\ job'.submissions = job.submissions
  BY <1>1 DEF JobRecords
<1>3. Trail' = Trail
  BY <1>2 DEF Trail
<1> QED BY <1>2, <1>3 DEF HasUnresolvedBroadcast

\* A run closes a job that still has a broadcast of unknown outcome only over a
\* revert that is on record: statusForTerminalError looks at the trail for every
\* other error, and statusForCompletedRun confirms nothing unresolved.
THEOREM UnknownOutcomesStayOpen == Spec => UnknownOutcomeStaysOpen
<1>1. ASSUME TypeInv, [Next]_vars, run.pc # "idle", Open(job.status), ~Open(job'.status),
             HasUnresolvedBroadcast'
      PROVE  RevertOnRecord
  <2>1. CASE RecheckReceipt
    <3>1. PICK q \in Trail : q = job.submissions[run.pos]
      <4>1. /\ run.pos <= run.base /\ run.base <= Len(job.submissions)
            /\ run.pos \in Nat \ {0} /\ run.base \in Nat
        BY <1>1, <2>1, Typed DEF RecheckReceipt, TypeInv, RunSound, Runs
      <4>2. run.pos \in 1 .. Len(job.submissions)
        BY <1>1, <4>1, Typed, TrailFacts
      <4> QED BY <1>1, <4>2, Typed, TrailFacts
    <3>2. job'.status # job.status
      BY <1>1
    <3>3. IsUnconfirmedBroadcast(q)
      BY <2>1, <3>1, <3>2 DEF RecheckReceipt
    <3>4. PICK receipt \in LookupBroadcastReceipt(q.tx) :
            \/ receipt = "unknown" /\ job' = job
            \/ job' = [job EXCEPT !.submissions =
                         Append(@, [q EXCEPT !.mark = "confirmed"])]
            \/ receipt = "reverted"
      BY <2>1, <3>1, <3>3 DEF RecheckReceipt
    <3>5. receipt = "reverted"
      BY <1>1, <3>2, <3>4, Typed DEF JobRecords
    <3>6. q.tx # 0 /\ tx[q.tx].state = "reverted"
      BY <3>3, <3>5, Receipts DEF IsUnconfirmedBroadcast
    <3> QED BY <3>6 DEF RevertOnRecord
  <2>2. CASE ConcludeFailure
    <3>1. PICK s : s = StatusForTerminalError(run.err) /\ ConcludeRun(s)
      BY <2>2 DEF ConcludeFailure
    <3>2. HasUnresolvedBroadcast /\ ~Open(s)
      <4>1. job'.status = s /\ HasUnresolvedBroadcast' = HasUnresolvedBroadcast
        BY <1>1, <3>1, Concluded
      <4> QED BY <1>1, <4>1 DEF Open
    <3>3. run.err = "reverted"
      BY <3>1, <3>2 DEF StatusForTerminalError, Open
    <3> QED BY <1>1, <3>3 DEF TypeInv, RunSound
  <2>3. CASE FinishRun
    <3>1. PICK s : /\ s = IF run.deferred /\ StatusForCompletedRun = "matched"
                          THEN "submitted" ELSE StatusForCompletedRun
                   /\ ConcludeRun(s)
      BY <2>3 DEF FinishRun
    <3>2. ConcludeRun(s)
      BY <3>1
    <3>3. HasUnresolvedBroadcast /\ ~Open(s)
      <4>1. job'.status = s /\ HasUnresolvedBroadcast' = HasUnresolvedBroadcast
        BY <1>1, <3>2, Concluded, Zenon
      <4> QED BY <1>1, <4>1 DEF Open
    <3>4. StatusForCompletedRun = "confirmed"
      BY <3>1, <3>3, Conclusions DEF Open
    <3>5. ~HasUnresolvedBroadcast
      BY <3>4 DEF StatusForCompletedRun
    <3> QED BY <3>3, <3>5
  <2>4. RecheckReceipt \/ ConcludeFailure \/ FinishRun
    BY <1>1, StatusKept
  <2> QED BY <2>1, <2>2, <2>3, <2>4
<1> QED BY <1>1, TypeInvariant, PTL DEF Spec, UnknownOutcomeStaysOpen, RevertOnRecord

-----------------------------------------------------------------------------
(***************************************************************************)
(* What the records mean.                                                  *)
(*                                                                         *)
(* Evidence is kept by position (receipt.ts).  It speaks of the signal it  *)
(* was written for as long as the handler does the same in every run       *)
(* (OneHandler), and as long as the indexes of its context lane, which are *)
(* counted from the records found, cannot stand for two signals.           *)
(***************************************************************************)
OneHandler ==
  \A d \in Deployments :
    /\ \A p, q \in d.plans : p = q
    /\ \A p \in d.plans : \A i, j \in DOMAIN p.ctx : p.ctx[i] = p.ctx[j]

\* What the handler does.
Plan == CHOOSE p \in Plans : TRUE

\* The signal a record is about.
Names(r) == IF r.index < 0 THEN r.sig ELSE Plan.ret[r.index + 1]

RecordSound(r) ==
  /\ r.index < 0 => r.sig \in ToSet(Plan.ctx)
  /\ r.index >= 0 => /\ r.index + 1 \in DOMAIN Plan.ret
                     /\ r.sig \in {Plan.ret[r.index + 1], NoSignal}
  /\ r.tx # 0 => tx[r.tx].sig = Names(r)
  /\ reorgs = 0 /\ IsEvidence(r) => OnChain(Names(r))

EvidenceInv == \A r \in Trail : RecordSound(r)

\* The run in flight does what the handler does.
LEMMA PlanOfRun ==
  ASSUME OneHandler, TypeInv
  PROVE  /\ run.pc # "idle" => run.plan = Plan
         /\ Plans # {} => \A i, j \in DOMAIN Plan.ctx : Plan.ctx[i] = Plan.ctx[j]
BY DEF OneHandler, TypeInv, RunSound, Plan, Plans

\* Only the chain takes a transaction back.
LEMMA ReorgsCount ==
  ASSUME [Next]_vars
  PROVE  reorgs' = reorgs \/ (reorgs' = reorgs + 1 /\ "reorg" \in Faults)
<1>1. CASE ContextStep
  <2>1. CASE \E s \in Signals : ContextAnswered(s) \/ ContextRecheck(s) \/ ContextFirst(s)
    BY <2>1 DEF ContextAnswered, ContextRecheck, ContextFirst
  <2>2. CASE \E err \in Errors : ContextSendFails(err) \/ HandlerThrows(err)
    BY <2>2 DEF ContextSendFails, HandlerThrows
  <2>3. CASE ContextDryRun \/ ContextBroadcast \/ HandlerCatches \/ HandlerReturns
    BY <2>3 DEF ContextDryRun, ContextBroadcast, Broadcast, HandlerCatches, HandlerReturns
  <2>4. CASE \E o \in SentOutcomes : ContextSent(o)
    BY <2>4 DEF ContextSent
  <2> QED BY <1>1, <2>1, <2>2, <2>3, <2>4 DEF ContextStep
<1>2. CASE SignalStep
  <2>1. CASE RecheckReceipt \/ RecheckDone \/ TakeSignal \/ SubmitDryRun \/ SubmitBroadcast
    BY <2>1 DEF RecheckReceipt, RecheckDone, TakeSignal, SubmitDryRun, SubmitBroadcast,
       Broadcast
  <2>2. CASE \E err \in Errors : SubmitFails(err)
    BY <2>2 DEF SubmitFails
  <2>3. CASE \E o \in SentOutcomes : Sent(o)
    BY <2>3 DEF Sent
  <2>4. CASE ConcludeFailure \/ FinishRun
    BY <2>4 DEF ConcludeFailure, FinishRun, ConcludeRun
  <2> QED BY <1>2, <2>1, <2>2, <2>3, <2>4 DEF SignalStep
<1>3. CASE CommandStep
  BY <1>3 DEF CommandStep, RetryCommand, RetryExhausted, DeadLetterCommand, CommandYields,
     CommandRun, StartRun
<1>4. CASE ChainStep
  BY <1>4 DEF ChainStep, Mine, Drop, Reorg
<1>5. CASE ScanStep
  BY <1>5 DEF ScanStep, Scan, StartRun
<1>6. CASE BackoffElapses \/ Abort \/ UNCHANGED vars
  BY <1>6 DEF BackoffElapses, Abort, vars
<1> QED BY <1>1, <1>2, <1>3, <1>4, <1>5, <1>6 DEF Next

\* Without a reorganisation, what is on chain stays there.
LEMMA ChainStays ==
  ASSUME TypeInv, TxGrows, tx' \in Seq(Txs), reorgs' = reorgs, NEW s, OnChain(s)
  PROVE  OnChain(s)'
<1>1. PICK t \in 1 .. Len(tx) : tx[t].sig = s /\ tx[t].state = "success"
  BY Typed DEF OnChain
<1>2. tx'[t].sig = s /\ tx'[t].state = "success"
  BY <1>1 DEF TxGrows, TxKept
<1>3. t \in DOMAIN tx'
  BY Typed DEF TxGrows
<1> QED BY <1>2, <1>3 DEF OnChain

\* A record is sound when the run writes it.
LEMMA WrittenSound ==
  ASSUME OneHandler, TypeInv, EvidenceInv, NEW r, Fresh(r)
  PROVE  RecordSound(r)
<1>1. r \in Records
  BY DEF Fresh
<1>2. CASE OfTheRun(r) /\ (r.tx # 0 => tx[r.tx].sig = AtHand(run))
                       /\ (IsEvidence(r) => OnChain(AtHand(run)))
  <2>1. run.plan = Plan
    BY <1>2, PlanOfRun DEF OfTheRun, InContext, InReturned
  <2>2. CASE run.pc \in InContext /\ r.index < 0 /\ r.sig = AtHand(run)
    <3>1. run.pos \in DOMAIN Plan.ctx /\ AtHand(run) = Plan.ctx[run.pos]
      BY <2>1, <2>2 DEF TypeInv, RunSound, AtHand
    <3>2. r.sig \in ToSet(Plan.ctx)
      BY <2>2, <3>1 DEF ToSet
    <3>3. Names(r) = AtHand(run) /\ ~(r.index >= 0)
      BY <1>1, <2>2 DEF Names, Records
    <3> QED BY <1>2, <3>2, <3>3 DEF RecordSound
  <2>3. CASE /\ run.pc \in InReturned /\ r.index = run.pos - 1
             /\ r.sig \in {AtHand(run), NoSignal}
    <3>1. run.pos \in DOMAIN Plan.ret /\ AtHand(run) = Plan.ret[run.pos]
      BY <2>1, <2>3 DEF TypeInv, RunSound, AtHand, InContext, InReturned
    <3>2. r.index + 1 = run.pos /\ ~(r.index < 0)
      BY <2>3, HandlerLists
    <3>3. Names(r) = AtHand(run)
      BY <3>1, <3>2 DEF Names
    <3> QED BY <1>2, <2>3, <3>1, <3>2, <3>3 DEF RecordSound
  <2> QED BY <1>2, <2>2, <2>3 DEF OfTheRun
<1>3. CASE \E q \in Trail : /\ r = [q EXCEPT !.mark = "confirmed"]
                            /\ q.tx # 0 /\ tx[q.tx].state = "success"
  <2>1. PICK q \in Trail : /\ r = [q EXCEPT !.mark = "confirmed"]
                           /\ q.tx # 0 /\ tx[q.tx].state = "success"
    BY <1>3
  <2>2. q \in Records /\ RecordSound(q) /\ q.tx <= Len(tx)
    BY Typed, TrailFacts DEF EvidenceInv, TypeInv
  <2>3. r.index = q.index /\ r.sig = q.sig /\ r.tx = q.tx
    BY <2>1, <2>2 DEF Records
  <2>4. Names(r) = Names(q)
    BY <2>3 DEF Names
  <2>5. q.tx \in DOMAIN tx /\ tx[q.tx].sig = Names(q)
    BY <2>1, <2>2, Typed DEF RecordSound, Records
  <2>6. OnChain(Names(q))
    BY <2>1, <2>5 DEF OnChain
  <2> QED BY <2>2, <2>3, <2>4, <2>6 DEF RecordSound
<1>4. ASSUME OfTheRun(r), run.pc \in {"ctxSent", "sent"}, r.tx = run.tx,
             IsEvidence(r) => tx[run.tx].state = "success"
      PROVE  /\ r.tx # 0 => tx[r.tx].sig = AtHand(run)
             /\ IsEvidence(r) => OnChain(AtHand(run))
  <2>1. run.tx \in DOMAIN tx /\ tx[run.tx].sig = AtHand(run)
    BY <1>4, Typed DEF TypeInv, RunSound, Runs
  <2> QED BY <1>4, <2>1 DEF OnChain
<1> QED BY <1>2, <1>3, <1>4 DEF Fresh

\* A sound record stays sound.
LEMMA SoundStays ==
  ASSUME TypeInv, [Next]_vars, NEW r \in Records, RecordSound(r), r.tx <= Len(tx)
  PROVE  RecordSound(r)'
<1>1. TypeInv' /\ config' = config /\ TxGrows /\ tx' \in Seq(Txs)
  BY StepType DEF Advances, TypeInv
<1>2. Plan' = Plan
  BY <1>1 DEF Plan, Plans
<1>3. Names(r)' = Names(r)
  BY <1>2 DEF Names
<1>4. r.tx # 0 => tx'[r.tx].sig = tx[r.tx].sig
  BY <1>1 DEF Records, TxGrows, TxKept
<1>5. reorgs' = 0 => reorgs = 0 /\ reorgs' = reorgs
  BY ReorgsCount DEF TypeInv
<1>6. reorgs' = 0 /\ IsEvidence(r) => OnChain(Names(r))'
  <2> SUFFICES ASSUME reorgs' = 0, IsEvidence(r) PROVE OnChain(Names(r))'
    OBVIOUS
  <2>1. PICK s : s = Names(r)
    OBVIOUS
  <2>2. OnChain(s)
    BY <1>5, <2>1 DEF RecordSound
  <2>3. OnChain(s)'
    BY <1>1, <1>5, <2>2, ChainStays
  <2> QED BY <1>3, <2>1, <2>3 DEF OnChain
<1> QED BY <1>2, <1>3, <1>4, <1>6 DEF RecordSound, IsEvidence

\* Every step leaves every record sound.
LEMMA EvidenceStep ==
  ASSUME OneHandler, TypeInv, EvidenceInv, [Next]_vars
  PROVE  EvidenceInv'
<1>1. TrailGrows
  BY StepType DEF Advances
<1>2. ASSUME NEW r \in Trail' PROVE RecordSound(r)'
  <2>1. CASE r \in Trail
    BY <2>1, SoundStays, Typed, TrailFacts DEF EvidenceInv, TypeInv
  <2>2. CASE Fresh(r)
    <3>1. RecordSound(r) /\ r \in Records
      BY <2>2, WrittenSound DEF Fresh
    <3>2. r.tx <= Len(tx)
      <4>1. CASE r.tx = 0 \/ r.tx = run.tx
        BY <4>1, Typed DEF TypeInv, RunSound
      <4>2. CASE \E q \in Trail : r = [q EXCEPT !.mark = "confirmed"]
        BY <4>2, Typed, TrailFacts DEF TypeInv, Records
      <4> QED BY <2>2, <4>1, <4>2 DEF Fresh
    <3> QED BY <3>1, <3>2, SoundStays
  <2> QED BY <1>1, <2>1, <2>2 DEF TrailGrows
<1> QED BY <1>2 DEF EvidenceInv

\* A job becomes confirmed only where a run concludes so.
LEMMA ConfirmedByRun ==
  ASSUME TypeInv, [Next]_vars, job.status # "confirmed", job'.status = "confirmed"
  PROVE  run.pc = "signals" /\ StatusForCompletedRun = "confirmed"
<1>1. job \in JobRecords
  BY Typed
<1>2. job'.status # job.status
  OBVIOUS
<1>3. CASE run.pc = "idle"
  <2>1. ~ContextStep /\ ~SignalStep
    BY <1>3, RunsAreInFlight
  <2>2. CASE CommandStep
    BY <1>1, <2>2 DEF CommandStep, RetryCommand, RetryExhausted, DeadLetterCommand,
       CommandYields, CommandRun, StartRun, JobRecords
  <2>3. CASE ChainStep
    BY <2>3 DEF ChainStep, Mine, Drop, Reorg
  <2>4. CASE ScanStep
    BY <1>1, <2>4 DEF ScanStep, Scan, StartRun, JobRecords
  <2>5. CASE BackoffElapses
    BY <1>1, <2>5 DEF BackoffElapses, JobRecords
  <2>6. CASE Abort \/ UNCHANGED vars
    BY <2>6 DEF Abort, vars
  <2> QED BY <2>1, <2>2, <2>3, <2>4, <2>5, <2>6 DEF Next
<1>4. CASE run.pc # "idle"
  <2>1. CASE RecheckReceipt
    BY <1>1, <2>1 DEF RecheckReceipt, StatusForError, JobRecords
  <2>2. CASE ConcludeFailure
    <3>1. PICK s : s = StatusForTerminalError(run.err) /\ s # "confirmed"
      BY DEF StatusForTerminalError, StatusForError
    <3>2. ConcludeRun(s)
      BY <2>2, <3>1 DEF ConcludeFailure
    <3>3. job'.status = s
      BY <3>2, Concluded
    <3> QED BY <3>1, <3>3
  <2>3. CASE FinishRun
    <3>1. PICK s : s = IF run.deferred /\ StatusForCompletedRun = "matched"
                       THEN "submitted" ELSE StatusForCompletedRun
      OBVIOUS
    <3>2. ConcludeRun(s)
      BY <2>3, <3>1 DEF FinishRun
    <3>3. job'.status = s
      BY <3>2, Concluded
    <3> QED BY <2>3, <3>1, <3>3 DEF FinishRun
  <2> QED BY <1>2, <1>4, <2>1, <2>2, <2>3, StatusKept
<1> QED BY <1>3, <1>4

\* Where the evidence covers every index, every signal of the handler is on chain.
LEMMA CoverageIsDelivery ==
  ASSUME OneHandler, TypeInv, EvidenceInv, reorgs = 0,
         run.pc = "signals", StatusForCompletedRun = "confirmed",
         NEW s \in PlanSignals(run.plan)
  PROVE  OnChain(s)
<1>1. run.plan = Plan /\ Plans # {}
  BY PlanOfRun DEF TypeInv, RunSound
<1>2. {i - 1 : i \in DOMAIN run.plan.ret} \cup ContextIndexes
        \subseteq DeliveredSignalIndexes(Trail)
  BY DEF StatusForCompletedRun
<1>3. ASSUME NEW i \in DeliveredSignalIndexes(Trail)
      PROVE  \E r \in Trail : r.index = i /\ IsEvidence(r) /\ OnChain(Names(r))
  BY <1>3 DEF DeliveredSignalIndexes, EvidenceInv, RecordSound
<1>4. ASSUME NEW k \in DOMAIN run.plan.ret PROVE OnChain(run.plan.ret[k])
  <2>1. PICK r \in Trail : r.index = k - 1 /\ OnChain(Names(r))
    BY <1>2, <1>3
  <2>2. k \in Nat \ {0}
    BY HandlerLists
  <2>3. ~(r.index < 0) /\ r.index + 1 = k
    BY <2>1, <2>2
  <2>4. Names(r) = run.plan.ret[k]
    BY <1>1, <2>3 DEF Names
  <2> QED BY <2>1, <2>4
<1>5. ASSUME NEW k \in DOMAIN run.plan.ctx PROVE OnChain(run.plan.ctx[k])
  <2>1. k \in Passed(run)
    BY DEF Passed, AfterHandler
  <2>2. PICK q \in Trail : q.sig = run.plan.ctx[k]
    BY <2>1 DEF TypeInv, RunSound
  <2>3. q \in Records /\ RecordSound(q)
    BY Typed, TrailFacts DEF EvidenceInv
  <2>4. CASE q.index < 0
    <3>1. q.index \in ContextIndexes
      BY <2>4 DEF ContextIndexes
    <3>2. PICK r \in Trail : r.index = q.index /\ OnChain(Names(r))
      BY <1>2, <1>3, <3>1
    <3>3. Names(r) = r.sig /\ r.sig \in ToSet(Plan.ctx)
      BY <2>4, <3>2 DEF Names, EvidenceInv, RecordSound
    <3>4. r.sig = run.plan.ctx[k]
      BY <1>1, <3>3, PlanOfRun DEF ToSet
    <3> QED BY <3>2, <3>3, <3>4
  <2>5. CASE ~(q.index < 0)
    <3>1. q.index >= 0
      BY <2>3, <2>5 DEF Records
    <3>2. /\ q.index + 1 \in DOMAIN run.plan.ret
          /\ q.sig \in {run.plan.ret[q.index + 1], NoSignal}
      BY <1>1, <2>3, <3>1 DEF RecordSound
    <3>3. run.plan.ctx[k] # NoSignal
      BY HandlerLists, ElementOfSeq, SignalRunAssumption
    <3> QED BY <1>4, <2>2, <3>2, <3>3
  <2> QED BY <2>4, <2>5
<1> QED BY <1>4, <1>5 DEF PlanSignals, ToSet

\* A run that confirms its job has every signal of its handler on chain, of both
\* lanes: for a handler that does the same in every run and submits one signal
\* through its context, no unresolved broadcast, dry-run record, failed attempt or
\* retry makes statusForCompletedRun take for delivered what is not.
THEOREM ConfirmedIsDelivered ==
  ASSUME OneHandler
  PROVE  Spec => ConfirmedMeansDelivered
<1>1. Init => EvidenceInv
  BY DEF Init, EvidenceInv, Trail, ToSet
<1>2. TypeInv /\ EvidenceInv /\ [Next]_vars => EvidenceInv'
  BY EvidenceStep
<1>3. ASSUME TypeInv, EvidenceInv, [Next]_vars,
             job.status # "confirmed", job'.status = "confirmed"
      PROVE  reorgs > 0 \/ \A s \in PlanSignals(run.plan) : OnChain(s)
  <2>1. run.pc = "signals" /\ StatusForCompletedRun = "confirmed"
    BY <1>3, ConfirmedByRun
  <2>2. reorgs > 0 \/ reorgs = 0
    BY <1>3, SignalRunAssumption DEF TypeInv
  <2> QED BY <1>3, <2>1, <2>2, CoverageIsDelivery
<1> QED BY <1>1, <1>2, <1>3, TypeInvariant, PTL DEF Spec, ConfirmedMeansDelivered

-----------------------------------------------------------------------------
(***************************************************************************)
(* When a signal is sent again.                                            *)
(*                                                                         *)
(* The backoff is kept for the job, the outcome for each record: what a    *)
(* run knows about the signal at hand is again what the records say of its *)
(* position.  A chain that takes transactions back is left out: after two  *)
(* reorganisations a settled broadcast may be pending again although the   *)
(* job has cooled.                                                         *)
(***************************************************************************)
DistinctSignals ==
  \A d \in Deployments :
    /\ "reorg" \notin d.faults
    /\ \A p \in d.plans :
         /\ \A i, j \in DOMAIN p.ret : p.ret[i] = p.ret[j] => i = j
         /\ \A i \in DOMAIN p.ret, j \in DOMAIN p.ctx : p.ret[i] # p.ctx[j]

\* A recorded broadcast that may still be mined, within its backoff.
Hot(r) == /\ IsUnconfirmedBroadcast(r)
          /\ tx[r.tx].state = "pending" /\ tx[r.tx].young

CooledInv == job.cooled => \A r \in Trail : ~Hot(r)

GuardInv ==
  run.pc \in {"ctxSubmit", "submit"} /\ ~run.bypass =>
    \A r \in Trail : Hot(r) => tx[r.tx].sig # AtHand(run)

QuietInv == EvidenceInv /\ CooledInv /\ GuardInv

\* Nothing is taken off the chain, and the lanes of the handler are apart.
LEMMA Distinct ==
  ASSUME DistinctSignals, TypeInv
  PROVE  /\ [Next]_vars => reorgs' = reorgs
         /\ Plans # {} =>
              /\ \A i, j \in DOMAIN Plan.ret : Plan.ret[i] = Plan.ret[j] => i = j
              /\ \A i \in DOMAIN Plan.ret, j \in DOMAIN Plan.ctx : Plan.ret[i] # Plan.ctx[j]
<1>1. config \in Deployments /\ "reorg" \notin Faults
  BY DEF TypeInv, DistinctSignals, Faults
<1>2. [Next]_vars => reorgs' = reorgs
  BY <1>1, ReorgsCount
<1>3. Plans # {} => Plan \in config.plans
  BY DEF Plan, Plans
<1> QED BY <1>1, <1>2, <1>3 DEF DistinctSignals

\* An old record that may still be mined could be mined before.
LEMMA HotBefore ==
  ASSUME TypeInv, TxGrows, reorgs' = reorgs, NEW r \in Trail, Hot(r)'
  PROVE  Hot(r) /\ tx'[r.tx].sig = tx[r.tx].sig
<1>1. r.tx \in 1 .. Len(tx)
  BY Typed, TrailFacts DEF Hot, IsUnconfirmedBroadcast, TypeInv, Records
<1>2. TxKept(r.tx)
  BY <1>1 DEF TxGrows
<1> QED BY <1>2 DEF Hot, IsUnconfirmedBroadcast, TxKept

\* A cooled job has no recorded broadcast within its backoff.
LEMMA CooledStep ==
  ASSUME TypeInv, Advances, reorgs' = reorgs, Len(tx') \in Nat, CooledInv
  PROVE  CooledInv'
<1>1. TxGrows /\ TrailGrows /\ CoolsRightly
  BY DEF Advances
<1>2. ASSUME job'.cooled, NEW r \in Trail', Hot(r)' PROVE FALSE
  <2>1. r.tx # 0 /\ tx'[r.tx].young /\ tx'[r.tx].state = "pending"
    BY <1>2 DEF Hot, IsUnconfirmedBroadcast
  <2>2. r \in Records /\ r.tx <= Len(tx')
    <3>1. r \in Records
      BY <1>1, Typed, TrailFacts DEF TrailGrows, Fresh
    <3> QED BY <1>1, <3>1, TrailKnown
  <2>3. r.tx \in 1 .. Len(tx')
    BY <2>1, <2>2 DEF Records
  <2>4. job.cooled /\ \A q \in Trail' \ Trail : q.tx = 0 \/ tx[q.tx].state = "success"
    BY <1>1, <1>2, <2>1, <2>3 DEF CoolsRightly
  <2>5. CASE r \in Trail
    BY <1>1, <1>2, <2>4, <2>5, HotBefore DEF CooledInv
  <2>6. CASE r \notin Trail
    <3>1. Fresh(r) /\ tx[r.tx].state = "success"
      BY <1>1, <2>1, <2>4, <2>6 DEF TrailGrows
    <3>2. r.tx <= Len(tx)
      <4>1. CASE r.tx = run.tx
        BY <4>1 DEF TypeInv, RunSound
      <4>2. CASE \E q \in Trail : r = [q EXCEPT !.mark = "confirmed"]
        BY <4>2, Typed, TrailFacts DEF TypeInv, Records
      <4> QED BY <2>1, <3>1, <4>1, <4>2 DEF Fresh
    <3>3. TxKept(r.tx)
      BY <1>1, <2>3, <3>2, Typed DEF TxGrows
    <3> QED BY <2>1, <3>1, <3>3 DEF TxKept
  <2> QED BY <2>5, <2>6
<1> QED BY <1>2 DEF CooledInv

\* A run that is about to send has just decided so, or was before.
LEMMA Entering ==
  ASSUME TypeInv, [Next]_vars, run'.pc \in {"ctxSubmit", "submit"}
  PROVE  \/ /\ run.pc = run'.pc /\ run'.plan = run.plan /\ run'.pos = run.pos
            /\ run'.bypass = run.bypass
         \/ \E s \in Signals : ContextFirst(s)
         \/ \E s \in Signals : ContextRecheck(s) /\ ContextSubmit
         \/ TakeSignal
<1>1. run \in Runs
  BY Typed
<1>2. CASE ContextStep
  <2>1. CASE \E s \in Signals : ContextAnswered(s)
    BY <1>1, <2>1 DEF ContextAnswered, ContextReturns, Runs
  <2>2. CASE \E s \in Signals : ContextRecheck(s)
    <3>1. PICK s \in Signals : ContextRecheck(s)
      BY <2>2
    <3>2. \/ ContextSubmit \/ ContextReturns(TRUE) \/ ContextReturns(FALSE)
          \/ ContextThrows("reverted")
      BY <3>1 DEF ContextRecheck
    <3> QED BY <1>1, <3>1, <3>2 DEF ContextReturns, ContextThrows, Runs
  <2>3. CASE \E s \in Signals : ContextFirst(s)
    BY <2>3
  <2>4. CASE \E err \in Errors : ContextSendFails(err)
    BY <1>1, <2>4 DEF ContextSendFails, ContextThrows, Runs
  <2>5. CASE ContextDryRun \/ ContextBroadcast
    <3>1. ContextReturns(FALSE) \/ run' = [run EXCEPT !.pc = "ctxSent", !.tx = Len(tx) + 1]
      BY <2>5 DEF ContextDryRun, ContextBroadcast, Broadcast
    <3> QED BY <1>1, <3>1 DEF ContextReturns, Runs
  <2>6. CASE \E o \in SentOutcomes : ContextSent(o)
    <3>1. ContextReturns(FALSE) \/ ContextReturns(TRUE) \/ ContextThrows("reverted")
      BY <2>6 DEF ContextSent, SentOutcomes
    <3> QED BY <1>1, <3>1 DEF ContextReturns, ContextThrows, Runs
  <2>7. CASE HandlerCatches \/ HandlerReturns
    BY <1>1, <2>7 DEF HandlerCatches, HandlerReturns, Runs
  <2>8. CASE \E err \in Errors : HandlerThrows(err)
    <3>1. \/ run' = [run EXCEPT !.pc = "handler", !.pos = 1, !.try = @ + 1, !.err = "none"]
          \/ \E err \in Errors : run' = [run EXCEPT !.pc = "ending", !.err = err]
      BY <2>8 DEF HandlerThrows, EndWith
    <3> QED BY <1>1, <3>1 DEF Runs
  <2> QED BY <1>2, <2>1, <2>2, <2>3, <2>4, <2>5, <2>6, <2>7, <2>8 DEF ContextStep
<1>3. CASE SignalStep
  <2>1. CASE RecheckReceipt
    <3>1. /\ run.pc = "recheck"
          /\ \/ run' = IdleRun
             \/ run' = [run EXCEPT !.pos = @ + 1]
             \/ \E i : run' = [[run EXCEPT !.pos = @ + 1] EXCEPT !.delivered = @ \cup {i}]
      BY <2>1 DEF RecheckReceipt
    <3> QED BY <1>1, <3>1, IdleFacts DEF Runs
  <2>2. CASE RecheckDone
    BY <1>1, <2>2 DEF RecheckDone, Runs
  <2>3. CASE TakeSignal
    BY <2>3
  <2>4. CASE SubmitDryRun \/ SubmitBroadcast
    <3>1. NextSignal(FALSE, {}) \/ run' = [run EXCEPT !.pc = "sent", !.tx = Len(tx) + 1]
      BY <2>4 DEF SubmitDryRun, SubmitBroadcast, Broadcast
    <3> QED BY <1>1, <3>1 DEF NextSignal, Runs
  <2>5. CASE \E err \in Errors : SubmitFails(err)
    <3>1. PICK err \in Errors :
            /\ run.pc = "submit"
            /\ \/ run' = [run EXCEPT !.try = @ + 1]
               \/ NextSignal(FALSE, {Index}) \/ EndWith(err)
      BY <2>5 DEF SubmitFails
    <3> QED BY <1>1, <3>1 DEF NextSignal, EndWith, Runs
  <2>6. CASE \E o \in SentOutcomes : Sent(o)
    <3>1. \/ NextSignal(FALSE, {Index}) \/ NextSignal(TRUE, {})
          \/ \E err : EndWith(err)
      BY <2>6 DEF Sent, SentOutcomes
    <3> QED BY <1>1, <3>1 DEF NextSignal, EndWith, Runs
  <2>7. CASE ConcludeFailure \/ FinishRun
    BY <2>7, IdleFacts DEF ConcludeFailure, FinishRun, ConcludeRun
  <2> QED BY <1>3, <2>1, <2>2, <2>3, <2>4, <2>5, <2>6, <2>7 DEF SignalStep
<1>4. CASE CommandStep
  <2>1. CASE RetryCommand \/ RetryExhausted \/ DeadLetterCommand \/ CommandYields
    BY <2>1 DEF RetryCommand, RetryExhausted, DeadLetterCommand, CommandYields
  <2>2. CASE \E plan \in Plans, dry \in DryRuns : CommandRun(plan, dry)
    BY <2>2 DEF CommandRun, StartRun, IdleRun
  <2> QED BY <1>4, <2>1, <2>2 DEF CommandStep
<1>5. CASE ChainStep
  BY <1>5 DEF ChainStep, Mine, Drop, Reorg
<1>6. CASE ScanStep
  BY <1>6 DEF ScanStep, Scan, StartRun, IdleRun
<1>7. CASE BackoffElapses \/ Abort \/ UNCHANGED vars
  BY <1>7, IdleFacts DEF BackoffElapses, Abort, vars
<1> QED BY <1>2, <1>3, <1>4, <1>5, <1>6, <1>7 DEF Next

\* What may still be mined is not what the run turns to.
LEMMA TurnedTo ==
  ASSUME OneHandler, DistinctSignals, TypeInv, QuietInv, ~run.bypass,
         \/ \E s \in Signals : ContextFirst(s)
         \/ \E s \in Signals : ContextRecheck(s) /\ ContextSubmit
         \/ TakeSignal /\ run'.pc = "submit",
         NEW r \in Trail, Hot(r)
  PROVE  /\ run' \in Runs => ~run'.bypass
         /\ tx[r.tx].sig # AtHand(run')
         /\ job' = job
<1>1. r \in Records /\ RecordSound(r) /\ r.tx # 0 /\ ~job.cooled
  BY Typed, TrailFacts DEF QuietInv, EvidenceInv, CooledInv, Hot, IsUnconfirmedBroadcast
<1>2. tx[r.tx].sig = Names(r)
  BY <1>1 DEF RecordSound
<1>3. run.pc # "idle" => run.plan = Plan /\ Plans # {}
  BY PlanOfRun DEF TypeInv, RunSound
<1>4. CASE \E s \in Signals : ContextFirst(s)
  <2>1. PICK s \in Signals : ContextFirst(s)
    BY <1>4
  <2>2. /\ run.pc = "handler" /\ run.pos \in DOMAIN run.plan.ctx /\ s = run.plan.ctx[run.pos]
    BY <2>1, Calling DEF ContextFirst
  <2>3. /\ run' = [run EXCEPT !.pc = "ctxSubmit"] /\ job' = job
    BY <2>1 DEF ContextFirst, ContextSubmit
  <2>4. AtHand(run') = s /\ ~run'.bypass
    BY <2>2, <2>3, Typed DEF AtHand, InContext, Runs
  <2>5. r.sig # s
    BY <2>1, UnresolvedFound DEF ContextFirst, Hot
  <2>6. Names(r) # s
    <3>1. CASE r.index < 0
      BY <2>5, <3>1 DEF Names
    <3>2. CASE ~(r.index < 0)
      <4>1. r.index + 1 \in DOMAIN Plan.ret /\ Names(r) = Plan.ret[r.index + 1]
        BY <1>1, <3>2 DEF RecordSound, Names, Records
      <4> QED BY <1>3, <2>2, <4>1, Distinct
    <3> QED BY <3>1, <3>2
  <2> QED BY <1>2, <2>3, <2>4, <2>6
<1>5. CASE \E s \in Signals : ContextRecheck(s) /\ ContextSubmit
  <2>1. PICK s \in Signals : ContextRecheck(s) /\ ContextSubmit
    BY <1>5
  <2>2. run.pc = "handler" /\ run' = [run EXCEPT !.pc = "ctxSubmit"]
    BY <2>1, Calling DEF ContextRecheck, ContextSubmit
  <2>3. ~ContextReturns(FALSE) /\ ~ContextThrows("reverted")
    <3>1. run'.pc = "ctxSubmit" /\ run \in Runs
      BY <2>2, Typed DEF Runs
    <3>2. ContextReturns(FALSE) => run'.pc = "handler"
      BY <3>1 DEF ContextReturns, Runs
    <3>3. ContextThrows("reverted") => run'.pc = "thrown"
      BY <3>1 DEF ContextThrows, Runs
    <3> QED BY <3>1, <3>2, <3>3
  <2>4. run.bypass \/ job.cooled
    BY <2>1, <2>2, <2>3, Typed DEF ContextRecheck, ContextReturns, Runs
  <2> QED BY <1>1, <2>4
<1>6. CASE TakeSignal /\ run'.pc = "submit"
  <2>1. /\ run.pc = "signals" /\ run.pos <= Len(run.plan.ret) /\ job' = job
    BY <1>6 DEF TakeSignal
  <2>2. ~NextSignal(FALSE, {}) /\ ~NextSignal(TRUE, {})
    BY <1>6, Typed DEF NextSignal, Runs
  <2>3. run' = [run EXCEPT !.pc = "submit", !.try = 1] /\ ~BacksOff
    BY <1>6, <2>2 DEF TakeSignal
  <2>4. run.pos \in DOMAIN run.plan.ret /\ run.pos \in Nat \ {0}
    BY <2>1, HandlerLists
  <2>5. AtHand(run') = run.plan.ret[run.pos] /\ ~run'.bypass
    BY <2>3, Typed DEF AtHand, InContext, Runs
  <2>6. r.index # run.pos - 1
    BY <1>1, <2>3 DEF BacksOff, Index, Hot
  <2>7. Names(r) # Plan.ret[run.pos]
    <3>1. CASE r.index < 0
      <4>1. \E j \in DOMAIN Plan.ctx : Names(r) = Plan.ctx[j]
        BY <1>1, <3>1 DEF RecordSound, Names, ToSet
      <4> QED BY <1>3, <2>1, <2>4, <4>1, Distinct
    <3>2. CASE ~(r.index < 0)
      <4>1. r.index + 1 \in DOMAIN Plan.ret /\ Names(r) = Plan.ret[r.index + 1]
        BY <1>1, <3>2 DEF RecordSound, Names, Records
      <4>2. r.index + 1 # run.pos
        BY <1>1, <2>4, <2>6 DEF Records
      <4> QED BY <1>3, <2>1, <2>4, <4>1, <4>2, Distinct
    <3> QED BY <3>1, <3>2
  <2> QED BY <1>2, <1>3, <2>1, <2>5, <2>7
<1> QED BY <1>4, <1>5, <1>6

\* A run about to send a signal has no broadcast of it that may still be mined.
LEMMA GuardStep ==
  ASSUME OneHandler, DistinctSignals, TypeInv, QuietInv, [Next]_vars
  PROVE  GuardInv'
<1>1. /\ TxGrows /\ TrailGrows /\ reorgs' = reorgs /\ run' \in Runs
  BY StepType, Distinct DEF Advances, TypeInv
<1>2. ASSUME run'.pc \in {"ctxSubmit", "submit"}, ~run'.bypass, NEW r \in Trail', Hot(r)'
      PROVE  tx'[r.tx].sig # AtHand(run')
  <2>1. CASE /\ run.pc = run'.pc /\ run'.plan = run.plan /\ run'.pos = run.pos
             /\ run'.bypass = run.bypass
    <3>1. AtHand(run') = AtHand(run)
      BY <2>1 DEF AtHand
    <3>2. ~Fresh(r)
      BY <1>2, <2>1, Typed, TrailFacts
         DEF Fresh, Hot, IsUnconfirmedBroadcast, Records
    <3>3. r \in Trail
      BY <1>1, <3>2 DEF TrailGrows
    <3>4. Hot(r) /\ tx'[r.tx].sig = tx[r.tx].sig
      BY <1>1, <1>2, <3>3, HotBefore
    <3> QED BY <1>2, <2>1, <3>1, <3>3, <3>4 DEF QuietInv, GuardInv
  <2>2. CASE \/ \E s \in Signals : ContextFirst(s)
             \/ \E s \in Signals : ContextRecheck(s) /\ ContextSubmit
             \/ TakeSignal /\ run'.pc = "submit"
    <3>1. job' = job /\ run'.bypass = run.bypass
      BY <2>2, Typed DEF ContextFirst, ContextRecheck, ContextSubmit, TakeSignal,
         NextSignal, Runs
    <3>2. r \in Trail
      BY <3>1 DEF Trail
    <3>3. Hot(r) /\ tx'[r.tx].sig = tx[r.tx].sig
      BY <1>1, <1>2, <3>2, HotBefore
    <3> QED BY <1>2, <2>2, <3>1, <3>2, <3>3, TurnedTo
  <2>3. TakeSignal => run'.pc = "submit"
    BY <1>2, Typed DEF TakeSignal, NextSignal, Runs
  <2> QED BY <1>2, <2>1, <2>2, <2>3, Entering
<1> QED BY <1>2 DEF GuardInv

\* The node takes a transaction only of a run about to send, and of its signal.
LEMMA Sending ==
  ASSUME TypeInv, [Next]_vars, Len(tx') > Len(tx)
  PROVE  run.pc \in {"ctxSubmit", "submit"} /\ tx'[Len(tx')].sig = AtHand(run)
<1>1. tx' # tx /\ Len(tx) \in Nat
  BY Typed
<1>2. ASSUME NEW s, Accept(s) PROVE tx'[Len(tx')].sig = s
  <2>1. PICK x : x = [sig |-> s, state |-> "pending", young |-> TRUE]
    OBVIOUS
  <2>2. tx' = Append(tx, x)
    BY <1>2, <2>1 DEF Accept
  <2>3. Len(tx') = Len(tx) + 1 /\ tx'[Len(tx) + 1] = x
    BY <2>2, Typed, AppendProperties
  <2> QED BY <2>1, <2>3
<1>3. ASSUME NEW s, NEW err, SendFails(s, err) PROVE Accept(s)
  BY <1>1, <1>3 DEF SendFails
<1>4. CASE \E err \in Errors : ContextSendFails(err)
  <2>1. run.pc = "ctxSubmit" /\ Accept(run.plan.ctx[run.pos])
    BY <1>3, <1>4 DEF ContextSendFails
  <2> QED BY <1>2, <2>1 DEF AtHand, InContext
<1>5. CASE ContextBroadcast
  <2>1. run.pc = "ctxSubmit" /\ Accept(run.plan.ctx[run.pos])
    BY <1>5 DEF ContextBroadcast, Broadcast
  <2> QED BY <1>2, <2>1 DEF AtHand, InContext
<1>6. CASE \E err \in Errors : SubmitFails(err)
  <2>1. run.pc = "submit" /\ Accept(run.plan.ret[run.pos])
    BY <1>3, <1>6 DEF SubmitFails
  <2> QED BY <1>2, <2>1 DEF AtHand, InContext
<1>7. CASE SubmitBroadcast
  <2>1. run.pc = "submit" /\ Accept(run.plan.ret[run.pos])
    BY <1>7 DEF SubmitBroadcast, Broadcast
  <2> QED BY <1>2, <2>1 DEF AtHand, InContext
<1>8. CASE \E t \in DOMAIN tx, s \in States : tx' = [tx EXCEPT ![t].state = s]
  BY <1>8, Typed
<1>9. CASE tx' = [t \in DOMAIN tx |-> [tx[t] EXCEPT !.young = FALSE]]
  <2>1. DOMAIN tx' = 1 .. Len(tx)
    BY <1>9, Typed
  <2>2. tx' \in Seq(Txs)
    BY StepType DEF TypeInv
  <2> QED BY <1>1, <2>1, <2>2
<1>10. \/ tx' = tx
       \/ \E err \in Errors : ContextSendFails(err)
       \/ ContextBroadcast
       \/ \E err \in Errors : SubmitFails(err)
       \/ SubmitBroadcast
       \/ \E t \in DOMAIN tx, s \in States : tx' = [tx EXCEPT ![t].state = s]
       \/ tx' = [t \in DOMAIN tx |-> [tx[t] EXCEPT !.young = FALSE]]
  <2>1. CASE ContextStep
    BY <2>1 DEF ContextStep, ContextAnswered, ContextRecheck, ContextFirst, ContextDryRun,
       ContextSent, HandlerCatches, HandlerReturns, HandlerThrows
  <2>2. CASE SignalStep
    BY <2>2 DEF SignalStep, RecheckReceipt, RecheckDone, TakeSignal, SubmitDryRun, Sent,
       ConcludeFailure, FinishRun, ConcludeRun
  <2>3. CASE CommandStep \/ ScanStep \/ Abort \/ UNCHANGED vars
    BY <2>3 DEF CommandStep, RetryCommand, RetryExhausted, DeadLetterCommand, CommandYields,
       CommandRun, ScanStep, Scan, StartRun, Abort, vars
  <2>4. CASE ChainStep
    BY <2>4 DEF ChainStep, Mine, Drop, Reorg, States
  <2>5. CASE BackoffElapses
    BY <2>5 DEF BackoffElapses
  <2> QED BY <2>1, <2>2, <2>3, <2>4, <2>5 DEF Next
<1> QED BY <1>1, <1>4, <1>5, <1>6, <1>7, <1>8, <1>9, <1>10

\* No run the operator did not ask for broadcasts a signal again while a recorded
\* broadcast of it is pending and its backoff has not elapsed, for a handler that
\* does the same in every run, one signal in each place, on a chain that takes
\* nothing back.
THEOREM NothingResentBlindly ==
  ASSUME OneHandler, DistinctSignals
  PROVE  Spec => NoBlindRebroadcast
<1>1. Init => QuietInv
  <2> SUFFICES ASSUME Init PROVE QuietInv
    OBVIOUS
  <2>1. Trail = {} /\ run.pc = "idle"
    BY IdleFacts DEF Init, Trail, ToSet
  <2> QED BY <2>1 DEF QuietInv, EvidenceInv, CooledInv, GuardInv
<1>2. TypeInv /\ QuietInv /\ [Next]_vars => QuietInv'
  <2> SUFFICES ASSUME TypeInv, QuietInv, [Next]_vars PROVE QuietInv'
    OBVIOUS
  <2>1. Advances /\ reorgs' = reorgs /\ Len(tx') \in Nat
    BY StepType, Distinct DEF TypeInv
  <2> QED BY <2>1, EvidenceStep, CooledStep, GuardStep DEF QuietInv
<1>3. ASSUME TypeInv, QuietInv, [Next]_vars, Len(tx') > Len(tx), ~run.bypass
      PROVE  ~\E r \in Trail :
               /\ IsUnconfirmedBroadcast(r)
               /\ tx[r.tx].sig = tx'[Len(tx')].sig
               /\ tx[r.tx].state = "pending"
               /\ tx[r.tx].young
  BY <1>3, Sending DEF QuietInv, GuardInv, Hot
<1> QED BY <1>1, <1>2, <1>3, TypeInvariant, PTL DEF Spec, NoBlindRebroadcast
=============================================================================
