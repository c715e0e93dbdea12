---------------------------- MODULE MCScanCursor ----------------------------
(***************************************************************************)
(* Deployments of ScanCursor for TLC.                                      *)
(***************************************************************************)
EXTENDS ScanCursor

\* A chain that reorganises and shrinks at will, over a watcher that only crashes.
WildChain == [fromBlock |-> 1, reorgWindow |-> 2, faults |-> {"crash", "deep", "shrink"}]

\* Failing reads and rounds, over a chain that stays within the window; the
\* watcher is given no block to start at.
FailingNode == [fromBlock |-> NoBlock, reorgWindow |-> 3,
                faults |-> {"round", "crash", "hash"}]

\* Another chain in the place of the one that the cursor file was written for.
ReplacedChain == [fromBlock |-> NoBlock, reorgWindow |-> 2,
                  faults |-> {"crash", "deep", "reset"}]

\* Reorganisations beyond the window, and rounds that fail.
DeepReorg == [fromBlock |-> 1, reorgWindow |-> 2, faults |-> {"round", "deep"}]

Watchers == {WildChain, FailingNode, ReplacedChain}
OnlyDeep == {DeepReorg}
=============================================================================
