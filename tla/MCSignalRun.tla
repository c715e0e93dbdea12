---------------------------- MODULE MCSignalRun ----------------------------
(***************************************************************************)
(* SignalRun with one or two signals and one handler.                      *)
(***************************************************************************)
EXTENDS SignalRun

CONSTANTS s1, s2

\* A config-driven handler: the same returned signal in every run.
ReturnsOne == {[ctx |-> <<>>, ret |-> <<s1>>]}

\* A handler that submits one signal through its context and returns another.
BothLanes  == {[ctx |-> <<s1>>, ret |-> <<s2>>]}

\* Receipts are waited for and everything may fail; nobody intervenes.
Unattended ==
  [plans |-> BothLanes, maxAttempts |-> 2, waitForReceipt |-> TRUE,
   dryRuns |-> {FALSE}, operators |-> FALSE,
   faults |-> {"lostSend", "receiptWait", "receiptText", "lookup", "revert",
               "handler", "drop", "crash"},
   txBound |-> 3, trailBound |-> 2]

\* Fire and forget, dry runs and manual commands, and a reorganisation.
Attended ==
  [plans |-> BothLanes, maxAttempts |-> 1, waitForReceipt |-> FALSE,
   dryRuns |-> BOOLEAN, operators |-> TRUE,
   faults |-> {"transient", "permanent", "crash", "reorg"},
   txBound |-> 2, trailBound |-> 2]

\* Receipts are late, and that is all.
LateReceipts ==
  [plans |-> ReturnsOne, maxAttempts |-> 2, waitForReceipt |-> TRUE,
   dryRuns |-> {FALSE}, operators |-> FALSE,
   faults |-> {"receiptWait", "lookup"},
   txBound |-> 3, trailBound |-> 8]

AttendedOrNot == {Attended, Unattended}
OnlyLate == {LateReceipts}
=============================================================================
