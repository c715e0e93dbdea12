------------------------- MODULE ProductFlow_proofs -------------------------
(***************************************************************************)
(* What is proved of ProductFlow for every set of commands, tasks, wallets *)
(* and domains, every choice of options and every bound.                   *)
(*                                                                         *)
(* SignsOnlyWhatWasNamed speaks of a command that is about to post.  What  *)
(* it says was found out at three moments, and the inductive invariant     *)
(* Sound holds what each of them left behind: the id a command holds was   *)
(* issued (KnowsItsSubmission), what a submit read is what it names        *)
(* (ReadWhatItNames), and what it posts went through the gate before the   *)
(* signature (PassedTheGate).  The prepared file is not mentioned: no      *)
(* command depends on it once it has read it.                              *)
(***************************************************************************)
EXTENDS ProductFlow, SequenceTheorems, TLAPS

(***************************************************************************)
(* The inductive invariant.                                                *)
(***************************************************************************)
Stages == {"idle", "prepare", "open", "fill", "submit", "sign", "post"}

CommandRecord ==
  [pc : Stages, task : Tasks \cup {NoTask}, id : Ids \cup {Unset},
   key : Wallets \cup {Unset}, wallet : Wallets \cup {Unset},
   domain : Domains \cup {Unset}, prepared : Ids \cup {Unset}]

TypeInv ==
  /\ clock \in Times
  /\ issued \in Seq(Prepared) /\ Len(issued) <= PrepareBound
  /\ file \in {Unreadable} \cup DOMAIN issued
  /\ command \in [Commands -> CommandRecord]

\* A process holds the id of a submission the service has issued, or none.
HasSubmission(r) == r.pc \in {"open", "fill", "sign", "post"}
KnowsItsSubmission(r) ==
  /\ r.prepared \in DOMAIN issued \cup {Unset}
  /\ HasSubmission(r) => r.prepared \in DOMAIN issued

\* From the reading on, a submit holds what it names, under its id.
ReadWhatItNames(r) ==
  r.pc \in {"sign", "post"} =>
    /\ r.id = r.prepared
    /\ issued[r.prepared].task = r.task

\* What is posted went through the gate.
PassedTheGate(r) == r.pc = "post" => MaySign(r, r.prepared)

SoundCommand(r) == KnowsItsSubmission(r) /\ ReadWhatItNames(r) /\ PassedTheGate(r)

Sound == \A c \in Commands : SoundCommand(command[c])

IInv == TypeInv /\ Sound

(***************************************************************************)
(* Lemmas.                                                                 *)
(***************************************************************************)
\* An idle process holds nothing.
LEMMA IdleFacts ==
  /\ Idle \in CommandRecord
  /\ Idle.pc = "idle"
  /\ SoundCommand(Idle)
<1>1. Idle \in CommandRecord /\ Idle.pc = "idle" /\ Idle.prepared = Unset
  BY DEF Idle, CommandRecord, Stages
<1> QED
  BY <1>1 DEF SoundCommand, KnowsItsSubmission, HasSubmission, ReadWhatItNames,
              PassedTheGate

\* The ids in use are ids of the model.
LEMMA IssuedIds ==
  ASSUME TypeInv
  PROVE  /\ DOMAIN issued = 1 .. Len(issued)
         /\ DOMAIN issued \subseteq Ids
         /\ Len(issued) \in Nat
         /\ Unset \notin DOMAIN issued
BY ProductFlowAssumption DEF TypeInv, Ids

\* A step that changes one process, and leaves the service alone, keeps the
\* invariant if the process ends up in a well-formed and sound record.
LEMMA OneCommandMoves ==
  ASSUME IInv, NEW c \in Commands, NEW r \in CommandRecord,
         SoundCommand(r), command' = [command EXCEPT ![c] = r],
         issued' = issued, clock' = clock, file' \in {Unreadable} \cup DOMAIN issued
  PROVE  IInv'
<1>1. TypeInv'
  BY DEF IInv, TypeInv
<1>2. ASSUME NEW d \in Commands
      PROVE  SoundCommand(command[d])'
  <2>1. PICK q \in CommandRecord : q = command'[d] /\ SoundCommand(q)
    BY DEF IInv, TypeInv, Sound
  <2> QED
    BY <2>1 DEF SoundCommand, KnowsItsSubmission, HasSubmission, ReadWhatItNames,
                PassedTheGate, MaySign, ConfiguredWallet
<1> QED BY <1>1, <1>2 DEF IInv, Sound

\* The service issues one more submission: what the others hold stays as it was.
LEMMA IssueKeeps ==
  ASSUME TypeInv, NEW answer \in Prepared, issued' = Append(issued, answer),
         NEW r \in CommandRecord, SoundCommand(r)
  PROVE  /\ r.prepared \in DOMAIN issued' \cup {Unset}
         /\ HasSubmission(r) => r.prepared \in DOMAIN issued'
         /\ r.pc \in {"sign", "post"} =>
              r.id = r.prepared /\ issued'[r.prepared].task = r.task
         /\ r.pc = "post" =>
              /\ issued'[r.prepared].submitter = ConfiguredWallet(r)
              /\ r.key = ConfiguredWallet(r)
              /\ r.domain \in {Unset, issued'[r.prepared].domain}
<1>1. /\ DOMAIN issued' = 1 .. (Len(issued) + 1)
      /\ \A id \in DOMAIN issued : issued'[id] = issued[id]
  BY IssuedIds, AppendProperties DEF TypeInv
<1>2. DOMAIN issued \subseteq DOMAIN issued'
  BY <1>1, IssuedIds
<1>3. HasSubmission(r) => issued'[r.prepared] = issued[r.prepared]
  BY <1>1 DEF SoundCommand, KnowsItsSubmission
<1> QED
  BY <1>2, <1>3 DEF SoundCommand, KnowsItsSubmission, HasSubmission, ReadWhatItNames,
                    PassedTheGate, MaySign

\* The gate, read off: the key is the submitter's, and so is a named wallet.
LEMMA GateFacts ==
  ASSUME NEW r, NEW id, MaySign(r, id)
  PROVE  /\ issued[id].submitter = r.key
         /\ r.wallet \in {Unset, issued[id].submitter}
         /\ r.domain \in {Unset, issued[id].domain}
BY DEF MaySign, ConfiguredWallet

(***************************************************************************)
(* The steps.                                                              *)
(***************************************************************************)
\* At the start every process is idle and nothing is issued.
LEMMA InitSound == Init => IInv
<1> SUFFICES ASSUME Init PROVE IInv OBVIOUS
<1>1. TypeInv
  BY IdleFacts, ProductFlowAssumption, EmptySeq DEF Init, TypeInv, Times
<1>2. Sound
  BY IdleFacts DEF Init, Sound
<1> QED BY <1>1, <1>2 DEF IInv

\* A prepare starts, or is answered; the answer is held under the next id.
LEMMA PrepareSteps ==
  ASSUME IInv, NEW c \in Commands,
         \/ \E options \in PrepareOptions : Prepare(c, options)
         \/ \E answer \in Prepared : PrepareAnswered(c, answer)
  PROVE  IInv'
<1>1. ASSUME NEW options \in PrepareOptions, Prepare(c, options) PROVE IInv'
  <2> DEFINE r == [Idle EXCEPT !.pc = "prepare", !.task = options.task,
                               !.wallet = options.wallet]
  <2>1. options.task \in Tasks /\ options.wallet \in Wallets
    BY ProductFlowAssumption
  <2>2. r \in CommandRecord /\ r.pc = "prepare" /\ r.prepared = Unset
    BY <2>1 DEF Idle, CommandRecord, Stages
  <2>3. command' = [command EXCEPT ![c] = r] /\ issued' = issued /\ clock' = clock
        /\ file' \in {Unreadable} \cup DOMAIN issued
    BY <1>1 DEF Prepare, IInv, TypeInv
  <2> HIDE DEF r
  <2>4. SoundCommand(r)
    BY <2>2 DEF SoundCommand, KnowsItsSubmission, HasSubmission, ReadWhatItNames,
                PassedTheGate
  <2> QED BY <2>2, <2>3, <2>4, OneCommandMoves
<1>2. ASSUME NEW answer \in Prepared, PrepareAnswered(c, answer) PROVE IInv'
  <2> DEFINE id == Len(issued) + 1
  <2>1. TypeInv /\ command \in [Commands -> CommandRecord]
    BY DEF IInv, TypeInv
  <2>2. /\ issued' = Append(issued, answer) /\ Len(issued) < PrepareBound
        /\ clock' = clock /\ file' = file
    BY <1>2 DEF PrepareAnswered
  <2>3. /\ issued' \in Seq(Prepared) /\ DOMAIN issued' = 1 .. id
        /\ Len(issued') = id
    BY <2>1, <2>2, AppendProperties DEF TypeInv
  <2>4. id \in Ids /\ id \in DOMAIN issued' /\ DOMAIN issued \subseteq DOMAIN issued'
    BY <2>1, <2>2, <2>3, IssuedIds, ProductFlowAssumption DEF Ids
  <2>5. PICK r \in CommandRecord :
          /\ command' = [command EXCEPT ![c] = r]
          /\ r # Idle => r.pc = "open" /\ r.prepared = id
    <3>1. CASE answer.deadline > clock
      <4> DEFINE r == [command[c] EXCEPT !.pc = "open", !.prepared = id]
      <4>1. r \in CommandRecord /\ r.pc = "open" /\ r.prepared = id
        BY <2>1, <2>4 DEF CommandRecord, Stages
      <4>2. command' = [command EXCEPT ![c] = r]
        BY <1>2, <3>1 DEF PrepareAnswered
      <4> HIDE DEF r
      <4> QED BY <4>1, <4>2
    <3>2. CASE ~(answer.deadline > clock)
      <4>1. command' = [command EXCEPT ![c] = Idle]
        BY <1>2, <3>2 DEF PrepareAnswered
      <4> QED BY <4>1, IdleFacts
    <3> QED BY <3>1, <3>2
  <2>6. TypeInv'
    <3>1. id <= PrepareBound
      BY <2>4, ProductFlowAssumption DEF Ids
    <3>2. file' \in {Unreadable} \cup DOMAIN issued'
      BY <2>1, <2>2, <2>4 DEF TypeInv
    <3> QED BY <2>1, <2>2, <2>3, <2>5, <3>1, <3>2 DEF TypeInv
  <2>7. ASSUME NEW d \in Commands PROVE SoundCommand(command[d])'
    <3>1. CASE d = c /\ r # Idle
      <4>1. PICK q : q = command'[d] /\ q.pc = "open" /\ q.prepared = id
        BY <2>1, <2>5, <3>1
      <4> QED
        BY <2>4, <4>1 DEF SoundCommand, KnowsItsSubmission, HasSubmission,
                          ReadWhatItNames, PassedTheGate
    <3>2. CASE d # c \/ r = Idle
      <4>1. PICK q \in CommandRecord : q = command'[d] /\ SoundCommand(q)
        BY <2>1, <2>5, <3>2, IdleFacts DEF IInv, Sound
      <4> QED
        BY <2>1, <2>2, <4>1, IssueKeeps
           DEF SoundCommand, KnowsItsSubmission, HasSubmission, ReadWhatItNames,
               PassedTheGate, MaySign, ConfiguredWallet
    <3> QED BY <3>1, <3>2
  <2> QED BY <2>6, <2>7 DEF IInv, Sound
<1> QED BY <1>1, <1>2

\* The prepared file is emptied, and filled or spoilt; the process forgets nothing
\* another one needs.
LEMMA FileSteps ==
  ASSUME IInv, NEW c \in Commands, OpenFile(c) \/ FillFile(c) \/ End(c)
  PROVE  IInv'
<1>0. command[c] \in CommandRecord /\ SoundCommand(command[c])
  BY DEF IInv, TypeInv, Sound
<1>1. CASE OpenFile(c)
  <2> DEFINE r == [command[c] EXCEPT !.pc = "fill"]
  <2>1. /\ r \in CommandRecord /\ r.pc = "fill"
        /\ r.prepared = command[c].prepared /\ command[c].pc = "open"
    BY <1>0, <1>1 DEF CommandRecord, Stages, OpenFile, At
  <2>2. /\ command' = [command EXCEPT ![c] = r] /\ issued' = issued /\ clock' = clock
        /\ file' \in {Unreadable} \cup DOMAIN issued
    BY <1>1 DEF OpenFile
  <2> HIDE DEF r
  <2>3. SoundCommand(r)
    BY <1>0, <2>1 DEF SoundCommand, KnowsItsSubmission, HasSubmission,
                      ReadWhatItNames, PassedTheGate
  <2> QED BY <2>1, <2>2, <2>3, OneCommandMoves
<1>2. CASE FillFile(c)
  <2>1. command[c].prepared \in DOMAIN issued
    BY <1>0, <1>2 DEF FillFile, At, SoundCommand, KnowsItsSubmission, HasSubmission
  <2>2. /\ command' = [command EXCEPT ![c] = Idle] /\ issued' = issued /\ clock' = clock
        /\ file' \in {Unreadable} \cup DOMAIN issued
    BY <1>2, <2>1 DEF FillFile
  <2> QED BY <2>2, IdleFacts, OneCommandMoves
<1>3. CASE End(c)
  <2>1. /\ command' = [command EXCEPT ![c] = Idle] /\ issued' = issued /\ clock' = clock
        /\ file' \in {Unreadable} \cup DOMAIN issued
    BY <1>3 DEF End, IInv, TypeInv
  <2> QED BY <2>1, IdleFacts, OneCommandMoves
<1> QED BY <1>1, <1>2, <1>3

\* A submit starts with the options it was given.
LEMMA SubmitStep ==
  ASSUME IInv, NEW c \in Commands, NEW options \in SubmitOptions, Submit(c, options)
  PROVE  IInv'
<1> DEFINE r == [pc |-> "submit", task |-> options.task, id |-> options.id,
                 key |-> options.key, wallet |-> options.wallet,
                 domain |-> options.domain, prepared |-> Unset]
<1>1. /\ options.task \in Tasks /\ options.id \in Ids \cup {Unset}
      /\ options.key \in Wallets /\ options.wallet \in Wallets \cup {Unset}
      /\ options.domain \in Domains \cup {Unset}
  BY ProductFlowAssumption
<1>2. r \in CommandRecord /\ r.pc = "submit" /\ r.prepared = Unset
  BY <1>1 DEF CommandRecord, Stages
<1>3. /\ command' = [command EXCEPT ![c] = r] /\ issued' = issued /\ clock' = clock
      /\ file' \in {Unreadable} \cup DOMAIN issued
  BY DEF Submit, IInv, TypeInv
<1> HIDE DEF r
<1>4. SoundCommand(r)
  BY <1>2 DEF SoundCommand, KnowsItsSubmission, HasSubmission, ReadWhatItNames,
              PassedTheGate
<1> QED BY <1>2, <1>3, <1>4, OneCommandMoves

\* The file is read, and what it holds is what the command names.
LEMMA ReadStep ==
  ASSUME IInv, NEW c \in Commands, ReadFile(c)
  PROVE  IInv'
<1> DEFINE r == [command[c] EXCEPT !.pc = "sign", !.prepared = file,
                   !.id = IF command[c].id = Unset THEN file ELSE command[c].id]
<1>0. command[c] \in CommandRecord /\ command \in [Commands -> CommandRecord]
  BY DEF IInv, TypeInv
<1>1. file \in DOMAIN issued /\ file \in Ids
  BY IssuedIds DEF ReadFile, IInv, TypeInv
<1>2. /\ command[c].task = issued[file].task
      /\ command[c].id \in {Unset, file}
  BY DEF ReadFile, Names
<1>3. /\ r \in CommandRecord /\ r.pc = "sign" /\ r.prepared = file /\ r.id = file
      /\ r.task = command[c].task
  BY <1>0, <1>1, <1>2 DEF CommandRecord, Stages
<1>4. command' = [command EXCEPT ![c] = r]
  BY <1>0 DEF ReadFile, CommandRecord
<1>5. /\ issued' = issued /\ clock' = clock /\ file' \in {Unreadable} \cup DOMAIN issued
  BY <1>1 DEF ReadFile
<1> HIDE DEF r
<1>6. SoundCommand(r)
  BY <1>1, <1>2, <1>3 DEF SoundCommand, KnowsItsSubmission, HasSubmission,
                          ReadWhatItNames, PassedTheGate
<1> QED BY <1>3, <1>4, <1>5, <1>6, OneCommandMoves

\* The gate is passed and the signature made.
LEMMA SignStep ==
  ASSUME IInv, NEW c \in Commands, Sign(c)
  PROVE  IInv'
<1> DEFINE r == [command[c] EXCEPT !.pc = "post"]
<1>0. command[c] \in CommandRecord /\ SoundCommand(command[c]) /\ command[c].pc = "sign"
  BY DEF IInv, TypeInv, Sound, Sign, At
<1>1. /\ r \in CommandRecord /\ r.pc = "post" /\ r.prepared = command[c].prepared
      /\ r.id = command[c].id /\ r.task = command[c].task /\ r.key = command[c].key
      /\ r.wallet = command[c].wallet /\ r.domain = command[c].domain
  BY <1>0 DEF CommandRecord, Stages
<1>2. /\ command' = [command EXCEPT ![c] = r] /\ issued' = issued /\ clock' = clock
      /\ file' \in {Unreadable} \cup DOMAIN issued
  BY DEF Sign, IInv, TypeInv
<1>3. MaySign(command[c], command[c].prepared)
  BY DEF Sign
<1> HIDE DEF r
<1>4. MaySign(r, r.prepared)
  BY <1>1, <1>3 DEF MaySign, ConfiguredWallet
<1>5. KnowsItsSubmission(r) /\ ReadWhatItNames(r)
  BY <1>0, <1>1 DEF SoundCommand, KnowsItsSubmission, HasSubmission, ReadWhatItNames
<1>6. SoundCommand(r)
  BY <1>4, <1>5 DEF SoundCommand, PassedTheGate
<1> QED BY <1>1, <1>2, <1>6, OneCommandMoves

\* Time passes, or nothing happens: no command can tell.
LEMMA IdleSteps ==
  ASSUME IInv, Tick \/ UNCHANGED vars
  PROVE  IInv'
<1>1. /\ issued' = issued /\ command' = command /\ file' = file
  BY DEF Tick, vars
<1>2. clock' \in Times
  BY ProductFlowAssumption DEF Tick, vars, IInv, TypeInv, Times
<1> QED
  BY <1>1, <1>2 DEF IInv, TypeInv, Sound, SoundCommand, KnowsItsSubmission,
     HasSubmission, ReadWhatItNames, PassedTheGate, MaySign, ConfiguredWallet

\* The invariant is inductive.
LEMMA SoundStep == IInv /\ [Next]_vars => IInv'
BY IdleSteps, FileSteps, ReadStep, SignStep, SubmitStep, PrepareSteps DEF Next

(***************************************************************************)
(* The theorems.                                                           *)
(***************************************************************************)
\* The inductive invariant holds in every reachable state.
THEOREM SoundAlways == Spec => []IInv
BY InitSound, SoundStep, PTL DEF Spec

\* Every variable keeps its type: in particular the prepared file holds nothing but
\* a submission the service issued.
THEOREM TypeCorrect == Spec => []TypeOK
<1>1. IInv => TypeOK
  BY DEF IInv, TypeInv, Sound, SoundCommand, KnowsItsSubmission, TypeOK,
         CommandRecord, Stages
<1> QED BY <1>1, SoundAlways, PTL

\* A signature is only ever made on a submission for the task, the id, the wallet and
\* the domain the command names, by its submitter's key, however many commands write
\* the prepared file and whatever the service answers (the gate of product.ts).
THEOREM SignaturesAreNamed == Spec => []SignsOnlyWhatWasNamed
<1>1. IInv => SignsOnlyWhatWasNamed
  <2> SUFFICES ASSUME IInv, NEW c \in Commands, At(c, "post")
               PROVE  /\ command[c].id = command[c].prepared
                      /\ issued[command[c].prepared].task = command[c].task
                      /\ issued[command[c].prepared].submitter = command[c].key
                      /\ command[c].wallet \in
                           {Unset, issued[command[c].prepared].submitter}
                      /\ command[c].domain \in
                           {Unset, issued[command[c].prepared].domain}
    BY DEF SignsOnlyWhatWasNamed
  <2>1. SoundCommand(command[c]) /\ command[c].pc = "post"
    BY DEF IInv, Sound, At
  <2>2. MaySign(command[c], command[c].prepared)
    BY <2>1 DEF SoundCommand, PassedTheGate
  <2>3. /\ command[c].id = command[c].prepared
        /\ issued[command[c].prepared].task = command[c].task
    BY <2>1 DEF SoundCommand, ReadWhatItNames
  <2> QED BY <2>2, <2>3, GateFacts
<1> QED BY <1>1, SoundAlways, PTL

\* At every hour, for every set of wallets, what the service concludes on an open task
\* is the next action that doctor tells the participant, and a report is well exactly
\* when it tells the participant to act (checkTaskReadiness in doctor.ts).
THEOREM VerdictsAreNotOverturned == Spec => []ServerVerdictStands
<1>1. ServerVerdictStands
  <2> SUFFICES ASSUME NEW view \in TaskViews, NEW wallet \in Wallets \cup {Unset}
               PROVE  /\ ReadinessOk(view, wallet)
                           <=> NextAction(view, wallet) \in {"prepare", "proof"}
                      /\ view.status # "done" =>
                           /\ view.canSubmit = "no" => NextAction(view, wallet) = "wait"
                           /\ view.canSubmit = "yes" =>
                                NextAction(view, wallet) =
                                  IF wallet \in {Unset, view.assignee}
                                  THEN "prepare" ELSE "blocked"
    BY DEF ServerVerdictStands
  <2> QED BY DEF NextAction, ReadinessOk, CanSubmit
<1> QED BY <1>1, PTL
=============================================================================
