------------------------------ MODULE JobModel ------------------------------
(***************************************************************************)
(* The persisted watcher job (watcher/jobs/model.ts) and the patches the   *)
(* kit applies to it.  A stored job is reduced to the fields its control   *)
(* flow reads: the status, the pid of the run claim, the count of real     *)
(* failures and whether its audit trail holds a dry-run record.  Every     *)
(* patch is one operator from a stored record to the record that replaces  *)
(* it; the compare-and-set guards are a separate operator, as in the store.*)
(***************************************************************************)
EXTENDS Naturals

CONSTANTS
  Pids,          \* operating-system process ids
  NoPid,         \* "no claim"
  MaxAttempts,   \* config.retry.maxAttempts, copied into each job
  AttemptBound   \* model bound on the failure counter (>= MaxAttempts)

ASSUME NoPidAssumption == NoPid \notin Pids
ASSUME AttemptAssumption ==
  /\ MaxAttempts \in Nat \ {0}
  /\ AttemptBound \in Nat
  /\ MaxAttempts <= AttemptBound

\* The statuses of a stored job; "absent" is a job the store does not hold.
JobStatus == {"detected", "matched", "submitted", "confirmed",
              "failed", "ignored", "dead_letter"}

Claims == Pids \cup {NoPid}

JobRecord == [status    : JobStatus \cup {"absent"},
              claim     : Claims,
              attempts  : 0 .. AttemptBound,
              rehearsed : BOOLEAN]

AbsentJob == [status |-> "absent", claim |-> NoPid,
              attempts |-> 0, rehearsed |-> FALSE]

\* A job as upsertDetected stores it.
DetectedJob == [status |-> "detected", claim |-> NoPid,
                attempts |-> 0, rehearsed |-> FALSE]

IsTerminal(s) == s \in {"confirmed", "failed", "ignored", "dead_letter"}

IsRetriable(s) ==
  s \in {"detected", "failed", "matched", "submitted", "confirmed"}

IsDeadLetterable(s) == s \notin {"confirmed", "submitted", "absent"}

\* Bugs: one of the two guards is dropped.
CasIgnoresClaim(rec, s, c) == rec.status = s

CasIgnoresStatus(rec, s, c) == rec.claim = c

\* Both compare-and-set guards of a patch, checked by the store before it writes.
PatchCasMatches(rec, s, c) ==
  /\ rec.status = s
  /\ rec.claim = c

(***************************************************************************)
(* Patches.  A status write other than `matched` releases the claim.       *)
(***************************************************************************)
WithConclusiveClaimRelease(rec, s) ==
  [rec EXCEPT !.status = s, !.claim = IF s = "matched" THEN @ ELSE NoPid]

Claimed(rec, p) == [rec EXCEPT !.status = "matched", !.claim = p]

Released(rec) == [rec EXCEPT !.claim = NoPid]

\* Bug: a status the store does not know.
ReopenedAsOpen(rec) == [rec EXCEPT !.status = "open", !.claim = NoPid]

\* A manual retry: a failed job gets a fresh attempt budget.
Reopened(rec) ==
  [rec EXCEPT !.status = "detected", !.claim = NoPid,
              !.attempts = IF rec.status = "failed" THEN 0 ELSE @]

DeadLettered(rec) == [rec EXCEPT !.status = "dead_letter", !.claim = NoPid]

Exhausted(rec) ==
  /\ rec.attempts >= MaxAttempts
  /\ rec.status \notin {"failed", "confirmed"}
=============================================================================
