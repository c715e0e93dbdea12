----------------------------- MODULE ScanCursor -----------------------------
(***************************************************************************)
(* The scan position of a watcher: pollOnce, restoreCursor and             *)
(* enforceCursorContinuity of watcher/watcher.ts, the anchors of           *)
(* watcher/scan/reorg.ts and the cursor file of watcher/storage/cursor.ts, *)
(* against a chain that grows, reorganises, shrinks and is reset.          *)
(*                                                                         *)
(* A block is its hash, and hashes are never reused.  Every block carries  *)
(* one log, so "the log of block b was handled" is b \in handled.  What    *)
(* handleLog does with a log is the subject of RunClaim and SignalRun.     *)
(* Every RPC read and every store write of a round is one step; the chain  *)
(* and the death of the process come in between.                           *)
(***************************************************************************)
EXTENDS Integers, FiniteSets, Sequences

CONSTANTS
  Confirmations,  \* config.confirmations
  Span,           \* config.getLogsBlockSpan
  Deployments,    \* what a watcher may be started with, and the failures of
                  \* its node: config.fromBlock (NoBlock: not set),
                  \* config.reorgWindow, faults
  MaxHeight,      \* model bound on the height of the chain
  ReorgBound,     \* model bound on reorganisations
  FaultBound      \* model bound on failed rounds and crashes

FaultNames == {"round",     \* an RPC call or a store call of a round throws
               "hash",      \* a block hash cannot be read
               "crash",     \* the process dies and is started again
               "deep",      \* no readable anchor may survive a reorganisation
               "shrink",    \* the chain may lose height (node rollback)
               "reset"}     \* the chain may be replaced, genesis included

NoHash == 0
NoBlock == 0 - 1

ASSUME ScanCursorAssumption ==
  /\ {Confirmations, MaxHeight, ReorgBound, FaultBound} \subseteq Nat
  /\ Span \in Nat \ {0}
  /\ \A d \in Deployments :
       d \in [fromBlock : Nat \cup {NoBlock}, reorgWindow : Nat \ {0},
              faults : SUBSET FaultNames]

VARIABLES
  config,   \* the deployment this watcher runs in
  chain,    \* the canonical chain: chain[h + 1] is the hash of block h
  minted,   \* hashes used so far
  handled,  \* blocks whose log handleLog has returned for
  start,    \* the block the cursor was first saved from (history)
  file,     \* the cursor file
  mem,      \* the fields of the watcher instance
  round,    \* the locals of the poll round in progress
  reorgs,   \* reorganisations so far
  faults,   \* failed rounds and crashes so far
  unread    \* has the node ever failed to give the hash of a block it has?

vars ==
  <<config, chain, minted, handled, start, file, mem, round, reorgs, faults, unread>>

Configured == config.fromBlock # NoBlock

\* The block a full rescan starts at.
Floor == IF Configured THEN config.fromBlock ELSE 0
ReorgWindow == config.reorgWindow
Faults == config.faults

Tip == Len(chain) - 1

BlockAt(h) == IF h \in 0 .. Tip THEN chain[h + 1] ELSE NoHash

\* tryGetBlockHash: the canonical hash, or no evidence.
\* Without "deep", only before the chain has reorganised.
ReadHash(h) ==
  {BlockAt(h)} \cup (IF "hash" \in Faults /\ (reorgs = 0 \/ "deep" \in Faults)
                     THEN {NoHash} ELSE {})

\* The failure of a read is noted.
Recall(h, b) == unread' = (unread \/ b # BlockAt(h))

(***************************************************************************)
(* Anchors: canonical hashes remembered with their height.                 *)
(***************************************************************************)
Anchor(h, b) == [height |-> h, hash |-> b]

\* The newest `n` anchors of a set with one anchor per height.
Newest(anchors, n) ==
  {a \in anchors : Cardinality({b \in anchors : b.height > a.height}) < n}

\* Bug: the stored list is not trimmed to the window.
RecordsUntrimmed(anchors, h, b) ==
  {a \in anchors : a.height # h} \cup {Anchor(h, b)}

RecordCheckpoint(anchors, h, b) ==
  Newest({a \in anchors : a.height # h} \cup {Anchor(h, b)}, ReorgWindow)

Gaps == {2 ^ k - 1 : k \in 0 .. MaxHeight}

\* Bug: the next block to scan is anchored as well.
AnchorsNextBlock(from, to) ==
  {h \in from .. to + 1 : to + 1 - h \in Gaps /\ to + 1 - h <= ReorgWindow}

CheckpointAnchorHeights(from, to) ==
  {h \in from .. to : to - h \in Gaps /\ to - h <= ReorgWindow}

\* Inclusive spans of at most Span blocks covering from .. to.
BlockRanges(from, to) ==
  {[from |-> s, to |-> IF s + Span - 1 < to THEN s + Span - 1 ELSE to] :
     s \in {h \in from .. to : (h - from) % Span = 0}}

(***************************************************************************)
(* The watcher instance and the round.                                     *)
(***************************************************************************)
FreshMemory == [next |-> NoBlock, hash |-> NoHash, anchors |-> {},
                adopted |-> FALSE, restored |-> FALSE, genesis |-> NoHash]

NoCursor == [next |-> NoBlock, hash |-> NoHash, anchors |-> {},
             genesis |-> NoHash]

IdleRound == [pc |-> "idle", from |-> 0, to |-> 0, ranges |-> {}, logs |-> {},
              todo |-> {}, anchors |-> {}, hash |-> NoHash]

Init ==
  /\ config \in Deployments
  /\ chain = <<1>>
  /\ minted = 1
  /\ handled = {}
  /\ start = Floor
  /\ file = NoCursor
  /\ mem = FreshMemory
  /\ round = IdleRound
  /\ reorgs = 0
  /\ faults = 0
  /\ unread = FALSE

(***************************************************************************)
(* The chain.                                                              *)
(***************************************************************************)
Mine ==
  /\ Tip < MaxHeight
  /\ chain' = Append(chain, minted + 1)
  /\ minted' = minted + 1
  /\ UNCHANGED <<config, handled, start, file, mem, round, reorgs, faults, unread>>

\* The finality buffer covers reorganisations above the range of the round.
AwayFromRound(keep) ==
  \/ round.pc \in {"idle", "restore", "head"}
  \/ keep > round.to

\* A canonical anchor is left below the fork, and the node gives its hash.
WithinWindow(keep) ==
  \/ mem.next = NoBlock /\ file.next = NoBlock
  \/ /\ ~unread
     /\ \E a \in IF mem.restored THEN mem.anchors ELSE file.anchors :
          a.height < keep /\ BlockAt(a.height) = a.hash
  \/ "deep" \in Faults

\* All but the first `keep` blocks are replaced by `grow` new ones.
Reorg(keep, grow) ==
  /\ reorgs < ReorgBound
  /\ keep < Len(chain)
  /\ keep = 0 => "reset" \in Faults /\ grow > 0
  /\ keep + grow < Len(chain) => "shrink" \in Faults
  /\ keep + grow <= MaxHeight + 1
  /\ AwayFromRound(keep) /\ WithinWindow(keep)
  /\ chain' = SubSeq(chain, 1, keep) \o [i \in 1 .. grow |-> minted + i]
  /\ minted' = minted + grow
  /\ reorgs' = reorgs + 1
  /\ UNCHANGED <<config, handled, start, file, mem, round, faults, unread>>

(***************************************************************************)
(* The round up to its range.                                              *)
(***************************************************************************)
Wake ==
  /\ round.pc = "idle"
  /\ round' = [IdleRound EXCEPT !.pc = IF mem.restored THEN "head" ELSE "restore"]
  /\ UNCHANGED <<config, chain, minted, handled, start, file, mem, reorgs, faults, unread>>

\* A cursor of another chain is discarded.
IsForeign(genesis) ==
  file.genesis # NoHash /\ genesis # NoHash /\ file.genesis # genesis

RestoreCursor ==
  /\ round.pc = "restore"
  /\ \E genesis \in ReadHash(0) :
       /\ mem' = IF file.next = NoBlock \/ IsForeign(genesis)
              THEN [mem EXCEPT !.restored = TRUE, !.genesis = genesis]
              ELSE [next |-> file.next, hash |-> file.hash,
                    anchors |-> file.anchors, adopted |-> TRUE,
                    restored |-> TRUE, genesis |-> genesis]
       /\ Recall(0, genesis)
  /\ round' = [round EXCEPT !.pc = "head"]
  /\ UNCHANGED <<config, chain, minted, handled, start, file, reorgs, faults>>

\* The round scans from .. to, or ends because finality lags behind the cursor.
EnterRange(from, to) ==
  round' = IF from > to THEN IdleRound
           ELSE [IdleRound EXCEPT !.pc = "logs", !.from = from, !.to = to,
                                  !.ranges = BlockRanges(from, to)]

FinalizedHead == IF Tip > Confirmations THEN Tip - Confirmations ELSE 0

\* Without a cursor, the configured block or else the finalized head.
CursorPosition ==
  IF mem.next # NoBlock THEN mem.next
  ELSE IF Configured THEN config.fromBlock ELSE FinalizedHead

\* The cursor lies beyond the head: an adopted one falls back to config.fromBlock.
CorrectOvershoot ==
  /\ round.pc = "head"
  /\ CursorPosition > Tip
  /\ IF mem.adopted /\ Configured /\ Floor <= FinalizedHead
     THEN /\ mem' = [mem EXCEPT !.adopted = FALSE, !.anchors = {}, !.hash = NoHash]
          /\ EnterRange(Floor, FinalizedHead)
     ELSE round' = IdleRound /\ UNCHANGED mem
  /\ UNCHANGED <<config, chain, minted, handled, start, file, reorgs, faults, unread>>

\* Bug: the hash below the cursor is never compared.
ContinuityUnchecked == CursorPosition <= Tip

\* No hash was remembered, or there is no block below the cursor.
NothingToCompare == mem.hash = NoHash \/ CursorPosition = 0

ReadHead ==
  /\ round.pc = "head"
  /\ CursorPosition <= Tip
  /\ IF NothingToCompare
     THEN EnterRange(CursorPosition, FinalizedHead)
     ELSE round' = [round EXCEPT !.pc = "continuity", !.from = CursorPosition,
                                 !.to = FinalizedHead]
  /\ UNCHANGED <<config, chain, minted, handled, start, file, mem, reorgs, faults, unread>>

\* The hash below the cursor still is the one remembered, or cannot be read.
ContinuityHolds ==
  /\ round.pc = "continuity"
  /\ \E b \in ReadHash(round.from - 1) \cap {NoHash, mem.hash} :
       Recall(round.from - 1, b)
  /\ EnterRange(round.from, round.to)
  /\ UNCHANGED <<config, chain, minted, handled, start, file, mem, reorgs, faults>>

ReorgDetected ==
  /\ round.pc = "continuity"
  /\ BlockAt(round.from - 1) \notin {NoHash, mem.hash}
  /\ round' = [round EXCEPT !.pc = "walk",
                 !.todo = {a.height : a \in {b \in mem.anchors : b.height < round.from}}]
  /\ UNCHANGED <<config, chain, minted, handled, start, file, mem, reorgs, faults, unread>>

Highest(S) == CHOOSE h \in S : \A g \in S : g <= h
Lowest(S) == CHOOSE h \in S : \A g \in S : h <= g

\* Bug: the hash just read below the old cursor is remembered.
CanonicalHashRemembered(ancestor) == BlockAt(round.from - 1)

HashAfterRollback(ancestor) == ancestor

\* Newest first: the anchor that is still canonical is the common ancestor.
WalkAnchors ==
  LET h == Highest(round.todo)
      anchor == CHOOSE a \in mem.anchors : a.height = h
  IN /\ round.pc = "walk"
     /\ round.todo # {}
     /\ \E b \in ReadHash(h) :
       /\ Recall(h, b)
       /\ IF b = anchor.hash
          THEN /\ mem' = [mem EXCEPT !.hash = HashAfterRollback(b),
                                     !.anchors = {a \in @ : a.height <= h}]
               /\ EnterRange(h + 1, round.to)
          ELSE /\ round' = [round EXCEPT !.todo = @ \ {h}]
               /\ UNCHANGED mem
     /\ UNCHANGED <<config, chain, minted, handled, start, file, reorgs, faults>>

\* Deeper than the window: a full rescan from the floor.
RescanFromFloor ==
  /\ round.pc = "walk"
  /\ round.todo = {}
  /\ mem' = [mem EXCEPT !.anchors = {}, !.hash = NoHash]
  /\ EnterRange(Floor, round.to)
  /\ UNCHANGED <<config, chain, minted, handled, start, file, reorgs, faults, unread>>

(***************************************************************************)
(* The scan: the logs of every range, then the log handler, in order.      *)
(***************************************************************************)
LogsOf(range) ==
  {Anchor(h, BlockAt(h)) : h \in {g \in range.from .. range.to : g <= Tip}}

GetLogs(range) ==
  /\ round.pc = "logs"
  /\ range \in round.ranges
  /\ round' = [round EXCEPT !.ranges = @ \ {range},
                            !.logs = @ \cup LogsOf(range),
                            !.pc = IF @ # "logs" \/ round.ranges # {range}
                                   THEN @ ELSE "handle"]
  /\ UNCHANGED <<config, chain, minted, handled, start, file, mem, reorgs, faults, unread>>

HandleLog ==
  LET h == Lowest({l.height : l \in round.logs})
      log == CHOOSE l \in round.logs : l.height = h
  IN /\ round.pc = "handle"
     /\ round.logs # {}
     /\ handled' = handled \cup {log.hash}
     /\ round' = [round EXCEPT !.logs = @ \ {log}]
     /\ UNCHANGED <<config, chain, minted, start, file, mem, reorgs, faults, unread>>

LogsHandled ==
  /\ round.pc = "handle"
  /\ round.logs = {}
  /\ round' = [round EXCEPT
       !.pc = "anchors", !.anchors = mem.anchors,
       !.todo = CheckpointAnchorHeights(round.from, round.to)]
  /\ UNCHANGED <<config, chain, minted, handled, start, file, mem, reorgs, faults, unread>>

ReadAnchor ==
  LET h == Highest(round.todo)
  IN /\ round.pc = "anchors"
     /\ round.todo # {}
     /\ \E b \in ReadHash(h) :
       /\ Recall(h, b)
       /\ round' = IF b = NoHash THEN [round EXCEPT !.todo = @ \ {h}]
                   ELSE [round EXCEPT
                     !.todo = @ \ {h},
                     !.anchors = RecordCheckpoint(@, h, b),
                     !.hash = IF h = round.to THEN b ELSE @]
     /\ UNCHANGED <<config, chain, minted, handled, start, file, mem, reorgs, faults>>

\* Bug: the hash of an earlier round stands in for one that was not read.
PreviousHashKept == IF round.hash = NoHash THEN mem.hash ELSE round.hash

RoundHash == round.hash

\* The pass over open jobs (RunClaim) precedes the save; memory follows it.
SaveCursor ==
  /\ round.pc = "anchors"
  /\ round.todo = {}
  /\ file' = [next |-> round.to + 1, hash |-> RoundHash,
              anchors |-> round.anchors, genesis |-> mem.genesis]
  /\ mem' = [mem EXCEPT !.next = round.to + 1, !.hash = RoundHash,
                        !.anchors = round.anchors]
  /\ round' = IdleRound
  /\ start' = IF mem.next = NoBlock THEN round.from ELSE start
  /\ UNCHANGED <<config, chain, minted, handled, reorgs, faults, unread>>

(***************************************************************************)
(* Failures.                                                               *)
(***************************************************************************)
\* Any call of the round throws; the next one starts from what memory holds.
RoundFails ==
  /\ "round" \in Faults
  /\ faults < FaultBound
  /\ round.pc # "idle"
  /\ round' = IdleRound
  /\ faults' = faults + 1
  /\ UNCHANGED <<config, chain, minted, handled, start, file, mem, reorgs, unread>>

Crash ==
  /\ "crash" \in Faults
  /\ faults < FaultBound
  /\ mem' = FreshMemory
  /\ round' = IdleRound
  /\ faults' = faults + 1
  /\ UNCHANGED <<config, chain, minted, handled, start, file, reorgs, unread>>

(***************************************************************************)
(* Specification.                                                          *)
(***************************************************************************)
RoundStep ==
  \/ Wake \/ RestoreCursor \/ CorrectOvershoot \/ ReadHead
  \/ ContinuityHolds \/ ReorgDetected \/ WalkAnchors \/ RescanFromFloor
  \/ \E range \in round.ranges : GetLogs(range)
  \/ HandleLog \/ LogsHandled \/ ReadAnchor \/ SaveCursor

ChainStep ==
  \/ Mine
  \/ \E keep, grow \in 0 .. MaxHeight + 1 : Reorg(keep, grow)

Next == RoundStep \/ ChainStep \/ RoundFails \/ Crash

Spec == Init /\ [][Next]_vars

\* The watch loop polls on, and the chain grows.
FairSpec == Spec /\ WF_vars(RoundStep) /\ WF_vars(Mine)

(***************************************************************************)
(* Properties.                                                             *)
(***************************************************************************)
TypeOK ==
  /\ config \in Deployments
  /\ minted \in Nat
  /\ \A h \in 0 .. Tip : BlockAt(h) \in 1 .. minted
  /\ handled \subseteq 1 .. minted
  /\ start \in Nat /\ IF Configured THEN start = Floor ELSE start >= Floor
  /\ {file.next, mem.next} \subseteq NoBlock .. MaxHeight + 1
  /\ {file.hash, mem.hash, file.genesis, mem.genesis} \subseteq 0 .. minted
  /\ \A a \in file.anchors \cup mem.anchors \cup round.anchors :
       a.height \in 0 .. MaxHeight /\ a.hash \in 1 .. minted
  /\ Cardinality(mem.anchors) <= ReorgWindow
  /\ round.pc \in {"idle", "restore", "head", "continuity", "walk", "logs",
                   "handle", "anchors"}
  /\ reorgs \in 0 .. ReorgBound /\ faults \in 0 .. FaultBound
  /\ unread \in BOOLEAN

\* The blocks the watcher answers for up to h, from where it began.
ScannedUpTo(h) == \A g \in start .. h : g <= Tip => BlockAt(g) \in handled

\* The next round that uses this cursor would not notice a reorganisation.
Unsuspicious(cursor) ==
  /\ cursor.next # NoBlock
  /\ cursor.hash \in {NoHash, BlockAt(cursor.next - 1)}

\* Between two rounds, and in the file at any time, a cursor never hides a block:
\* every canonical block below it was handled, or the hash it carries exposes the
\* reorganisation to the next continuity check (README on the reorg defenses).
CursorHidesNoBlock ==
  /\ Unsuspicious(file) => ScannedUpTo(file.next - 1)
  /\ round.pc = "idle" /\ Unsuspicious(mem) => ScannedUpTo(mem.next - 1)

\* A rollback lands on a common ancestor: below an anchor that is canonical, no
\* canonical block was missed, so the rescan may start right above it.
AnchorsAreCommonAncestors ==
  \A a \in file.anchors \cup mem.anchors :
    BlockAt(a.height) = a.hash => ScannedUpTo(a.height)

\* "a false-reorg loop" (the comment on the round's hash): without any
\* reorganisation the continuity check never rolls the cursor back, whatever
\* hashes could not be read and whatever rounds failed.
NoFalseReorg == reorgs = 0 => round.pc # "walk"

\* Once the chain stops changing, every finalized block has been handled, from
\* where the watcher began: the configured block, or else the finalized head of
\* the round that saved its first cursor.
FinalizedIsScanned ==
  <>[](\A h \in start .. Tip - Confirmations : BlockAt(h) \in handled)
=============================================================================
