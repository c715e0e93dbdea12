---------------------------- MODULE ProductFlow ----------------------------
(***************************************************************************)
(* A participant at the Product API: `product prepare` and `product        *)
(* submit` (product.ts, cli/commands/product.ts) and the task readiness of *)
(* `product doctor` (doctor.ts).  Each command is a process of its own;    *)
(* they share a prepared file, which prepare overwrites in place, and time *)
(* passes between any two steps.                                           *)
(*                                                                         *)
(* The service is external.  What it answers has the right shape (the      *)
(* parsers refuse everything else) but need not be for the task, wallet or *)
(* domain that was asked about.  A submission is an envelope, which names   *)
(* the task, and the typed data that is signed, which does not: the model  *)
(* takes the two, which come in one answer, as one thing.                  *)
(***************************************************************************)
EXTENDS Naturals, Sequences

CONSTANTS
  Commands,        \* processes
  Tasks, Wallets, Domains,
  NoTask, Unset,   \* Unset: an option that is not given, or a field left out
  PrepareOptions,  \* what prepare is started with
  SubmitOptions,   \* what submit is started with
  MaxTime,         \* model bound on the clock
  PrepareBound     \* model bound on prepared submissions

Ids == 1 .. PrepareBound
Times == 0 .. MaxTime

ASSUME ProductFlowAssumption ==
  /\ {MaxTime, PrepareBound} \subseteq Nat
  /\ NoTask \notin Tasks
  /\ Unset \notin Wallets \cup Domains \cup Ids
  /\ PrepareOptions \subseteq [task : Tasks, wallet : Wallets]
  /\ SubmitOptions \subseteq
       [task : Tasks, id : Ids \cup {Unset}, key : Wallets,
        wallet : Wallets \cup {Unset}, domain : Domains \cup {Unset}]

VARIABLES
  clock,
  issued,   \* the submissions the service prepared, by id
  file,     \* the prepared file: the submission it holds, if it can be read
  command   \* each process: its options and locals

vars == <<clock, issued, file, command>>

Prepared == [task : Tasks, submitter : Wallets, domain : Domains, deadline : Times]

\* A task as the service tells it; "mute": it says no, with an empty reason.
TaskViews == [status : {"open", "done"},
              canSubmit : {"yes", "no", "mute", "unsaid"},
              assignee : Wallets \cup {Unset},
              deadline : Times \cup {Unset}]

Idle == [pc |-> "idle", task |-> NoTask, id |-> Unset, key |-> Unset,
         wallet |-> Unset, domain |-> Unset, prepared |-> Unset]

\* A file that is missing, empty or cut off is no JSON.
Unreadable == 0

Init ==
  /\ clock = 0
  /\ issued = <<>>
  /\ file = Unreadable
  /\ command = [c \in Commands |-> Idle]

At(c, stage) == command[c].pc = stage

\* An error is thrown, a request fails, or the process dies.
End(c) ==
  /\ ~At(c, "idle")
  /\ command' = [command EXCEPT ![c] = Idle]
  /\ UNCHANGED <<clock, issued, file>>

Tick ==
  /\ clock < MaxTime
  /\ clock' = clock + 1
  /\ UNCHANGED <<issued, file, command>>

\* parsePreparedSignalContainer refuses a submission whose deadline has passed.
InTime(id) == issued[id].deadline > clock

(***************************************************************************)
(* prepare                                                                 *)
(***************************************************************************)
Prepare(c, options) ==
  /\ At(c, "idle")
  /\ command' = [command EXCEPT ![c] =
       [Idle EXCEPT !.pc = "prepare", !.task = options.task, !.wallet = options.wallet]]
  /\ UNCHANGED <<clock, issued, file>>

\* Bug: the answer is printed and not handed on to the file.
AnsweredOnly(c, answer) ==
  /\ At(c, "prepare")
  /\ Len(issued) < PrepareBound
  /\ issued' = Append(issued, answer)
  /\ command' = [command EXCEPT ![c].pc = "open"]
  /\ UNCHANGED <<clock, file>>

\* The answer is parsed, not compared with the request.
PrepareAnswered(c, answer) ==
  /\ At(c, "prepare")
  /\ Len(issued) < PrepareBound
  /\ issued' = Append(issued, answer)
  /\ command' = [command EXCEPT ![c] =
       IF answer.deadline > clock
       THEN [@ EXCEPT !.pc = "open", !.prepared = Len(issued) + 1] ELSE Idle]
  /\ UNCHANGED <<clock, file>>

\* writeFile empties the file, then fills it.
OpenFile(c) ==
  /\ At(c, "open")
  /\ file' = Unreadable
  /\ command' = [command EXCEPT ![c].pc = "fill"]
  /\ UNCHANGED <<clock, issued>>

\* Over what another prepare filled in the meantime, the longer text sticks out.
FillFile(c) ==
  /\ At(c, "fill")
  /\ file' \in {command[c].prepared} \cup (IF file = Unreadable THEN {} ELSE {Unreadable})
  /\ command' = [command EXCEPT ![c] = Idle]
  /\ UNCHANGED <<clock, issued>>

(***************************************************************************)
(* submit                                                                  *)
(***************************************************************************)
Submit(c, options) ==
  /\ At(c, "idle")
  /\ command' = [command EXCEPT ![c] =
       [pc |-> "submit", task |-> options.task, id |-> options.id, key |-> options.key,
        wallet |-> options.wallet, domain |-> options.domain, prepared |-> Unset]]
  /\ UNCHANGED <<clock, issued, file>>

\* Bug: an expected id is sent on, not compared.
NamesTaskOnly(options, id) == options.task = issued[id].task

\* What the command names is what the file holds.
Names(options, id) ==
  /\ options.task = issued[id].task
  /\ options.id \in {Unset, id}

ReadFile(c) ==
  /\ At(c, "submit")
  /\ file # Unreadable
  /\ InTime(file)
  /\ Names(command[c], file)
  /\ command' = [command EXCEPT
       ![c].pc = "sign", ![c].prepared = file, ![c].id = IF @ = Unset THEN file ELSE @]
  /\ UNCHANGED <<clock, issued, file>>

ConfiguredWallet(options) ==
  IF options.wallet = Unset THEN options.key ELSE options.wallet

\* Bug: the wallet is compared with the key only.
SignsForAnyone(options, id) ==
  /\ options.key = ConfiguredWallet(options)
  /\ options.domain \in {Unset, issued[id].domain}

\* The gate before the signature: one wallet is configured, signs and submits,
\* and the domain is the expected one.
MaySign(options, id) ==
  /\ issued[id].submitter = ConfiguredWallet(options)
  /\ options.key = ConfiguredWallet(options)
  /\ options.domain \in {Unset, issued[id].domain}

\* The signature is made and posted under the id.
Sign(c) ==
  /\ At(c, "sign")
  /\ InTime(command[c].prepared)
  /\ MaySign(command[c], command[c].prepared)
  /\ command' = [command EXCEPT ![c].pc = "post"]
  /\ UNCHANGED <<clock, issued, file>>

(***************************************************************************)
(* doctor: task readiness.  The command keeps no state; what it reports is *)
(* what these operators make of the service's answer at the hour.          *)
(***************************************************************************)
\* Without a wallet the assignee is not checked.
CanSubmit(view, wallet) ==
  view.canSubmit = "yes" /\ wallet \in {Unset, view.assignee}

DeadlineExpired(view) == view.deadline \in Times /\ view.deadline <= clock

\* Bug: the local clock is asked before the service.
NextActionByClock(view, wallet) ==
  IF view.status = "done" THEN "proof"
  ELSE IF DeadlineExpired(view) THEN "blocked"
  ELSE IF CanSubmit(view, wallet) THEN "prepare"
  ELSE IF view.canSubmit = "no" THEN "wait"
  ELSE IF wallet # Unset /\ wallet # view.assignee THEN "blocked"
  ELSE "wait"

NextAction(view, wallet) ==
  IF view.status = "done" THEN "proof"
  ELSE IF CanSubmit(view, wallet) THEN "prepare"
  ELSE IF view.canSubmit = "no" THEN "wait"
  ELSE IF DeadlineExpired(view) THEN "blocked"
  ELSE IF wallet # Unset /\ wallet # view.assignee THEN "blocked"
  ELSE "wait"

ReadinessOk(view, wallet) == CanSubmit(view, wallet) \/ view.status = "done"

(***************************************************************************)
(* Specification.                                                          *)
(***************************************************************************)
Next ==
  \/ Tick
  \/ \E c \in Commands :
       \/ End(c) \/ OpenFile(c) \/ FillFile(c) \/ ReadFile(c) \/ Sign(c)
       \/ \E options \in PrepareOptions : Prepare(c, options)
       \/ \E options \in SubmitOptions : Submit(c, options)
       \/ \E answer \in Prepared : PrepareAnswered(c, answer)

Spec == Init /\ [][Next]_vars

(***************************************************************************)
(* Properties.                                                             *)
(***************************************************************************)
TypeOK ==
  /\ clock \in Times
  /\ issued \in Seq(Prepared) /\ Len(issued) <= PrepareBound
  /\ file \in {Unreadable} \cup DOMAIN issued
  /\ \A c \in Commands :
       /\ command[c].pc \in {"idle", "prepare", "open", "fill", "submit", "sign", "post"}
       /\ command[c].task \in Tasks \cup {NoTask}
       /\ command[c].prepared \in DOMAIN issued \cup {Unset}

\* A signature is only ever made on a submission for the task, the id, the wallet
\* and the domain the command names, by the key of its submitter, and it is posted
\* under the id it was made for: whatever other commands wrote to the prepared
\* file, and whatever the service answered them (the gate of product.ts, the
\* comparisons of `product submit`).
SignsOnlyWhatWasNamed ==
  \A c \in Commands : At(c, "post") =>
    LET signed == issued[command[c].prepared] IN
    /\ command[c].id = command[c].prepared
    /\ signed.task = command[c].task
    /\ signed.submitter = command[c].key
    /\ command[c].wallet \in {Unset, signed.submitter}
    /\ command[c].domain \in {Unset, signed.domain}

\* "A skew or timezone slip on this machine must not overturn the server's
\* conclusion" (checkTaskReadiness): at every hour, what the service concludes on an
\* open task is the next action, for the wallet it concerns, and a report is well
\* exactly when it tells the participant to act.  A refusal with an empty reason is
\* not covered: the code takes it for no verdict at all.
ServerVerdictStands ==
  \A view \in TaskViews, wallet \in Wallets \cup {Unset} :
    LET action == NextAction(view, wallet) IN
    /\ ReadinessOk(view, wallet) <=> action \in {"prepare", "proof"}
    /\ view.status # "done" =>
         /\ view.canSubmit = "no" => action = "wait"
         /\ view.canSubmit = "yes" =>
              action = IF wallet \in {Unset, view.assignee} THEN "prepare" ELSE "blocked"
=============================================================================
