----------------------------- MODULE AtomicStore -----------------------------
(***************************************************************************)
(* What every caller of a job store relies on (the comment on              *)
(* withJobsFileLock): an update is applied to the current contents in one  *)
(* step, so no update ever drops another.  The contents are abstracted to  *)
(* the number of updates of each writer that are visible.                  *)
(***************************************************************************)
EXTENDS Naturals

CONSTANT Writers

VARIABLE content

Init == content = [w \in Writers |-> 0]

Update(w) == content' = [content EXCEPT ![w] = @ + 1]

Next == \E w \in Writers : Update(w)

Spec == Init /\ [][Next]_content
=============================================================================
