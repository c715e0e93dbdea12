-------------------------- MODULE ScanCursor_proofs --------------------------
(***************************************************************************)
(* What is proved of ScanCursor for every chain, every deployment and      *)
(* every bound.                                                            *)
(*                                                                         *)
(* The invariant comes in two layers.  TypeInv types the cursors and the   *)
(* round, and says what a chain without reorganisation looks like: it      *)
(* holds of every deployment.  Sound says what the hash and the anchors of *)
(* a cursor vouch for.  Its first idea is Vouches: a hash that a watcher   *)
(* remembers stands for the blocks up to it, at whatever height it is      *)
(* canonical, and because hashes are never reused a chain that changes     *)
(* cannot make it say more than it did.  What is left is the cursor        *)
(* without a hash, which nothing can expose: it must be true outright, and *)
(* stay true, so nothing below it may ever be replaced.  That is where     *)
(* SafeDeployments is needed, and each of its conditions excludes a way    *)
(* in which the watcher does lose blocks.                                  *)
(***************************************************************************)
EXTENDS ScanCursor, FiniteSetTheorems, SequenceTheorems, WellFoundedInduction, TLAPS

(***************************************************************************)
(* The deployments the cursor is safe in.  A reorganisation beyond the     *)
(* window, and a head below an adopted cursor, make the watcher drop the   *)
(* hash of its cursor before it has scanned again.  So                     *)
(*   - no round may fail in between; and without confirmations every       *)
(*     adopted cursor that has caught up is "beyond the head"              *)
(*     (watcher.ts:322);                                                   *)
(*   - where nothing but its hash exposes a cursor, the hash of the block  *)
(*     it scans to must be readable;                                       *)
(*   - the rescan must begin in the same round: the chain must not have    *)
(*     shrunk so far that the floor is not final any more.                 *)
(* TLC finds a block that is hidden when any one of the conditions is      *)
(* dropped.                                                                *)
(***************************************************************************)
SafeDeployments ==
  \A d \in Deployments :
    /\ "round" \in d.faults => d.faults \cap {"deep", "shrink"} = {} /\ Confirmations > 0
    /\ "deep" \in d.faults => "hash" \notin d.faults
    /\ {"deep", "shrink"} \subseteq d.faults => Confirmations <= 1

(***************************************************************************)
(* Types.                                                                  *)
(***************************************************************************)
Heights == 0 .. MaxHeight
Anchors == [height : Heights, hash : 1 .. minted]

Before == {"idle", "restore", "head"}
Comparing == {"continuity", "walk"}
Scanning == {"logs", "handle", "anchors"}

Mems == [next : {NoBlock} \cup 1 .. MaxHeight + 1, hash : 0 .. minted,
         anchors : SUBSET Anchors, adopted : BOOLEAN, restored : BOOLEAN,
         genesis : 0 .. minted]
Files == [next : {NoBlock} \cup 1 .. MaxHeight + 1, hash : 0 .. minted,
          anchors : SUBSET Anchors, genesis : 0 .. minted]
Rounds == [pc : Before \cup Comparing \cup Scanning, from : Int, to : Int,
           ranges : SUBSET [from : Int, to : Int], logs : SUBSET Anchors,
           todo : SUBSET Heights, anchors : SUBSET Anchors, hash : 0 .. minted]

ChainInv ==
  /\ config \in Deployments
  /\ minted \in Nat /\ chain \in Seq(1 .. minted)
  /\ Len(chain) \in 1 .. MaxHeight + 1
  /\ \A i, j \in 1 .. Len(chain) : chain[i] = chain[j] => i = j
  /\ handled \subseteq 1 .. minted
  /\ reorgs \in 0 .. ReorgBound /\ faults \in 0 .. FaultBound
  /\ unread \in BOOLEAN

\* At most one anchor per height, no more than the window, between the floor and `top`.
AnchorsInv(S, top) ==
  /\ IsFiniteSet(S)
  /\ Cardinality(S) <= ReorgWindow
  /\ \A a, b \in S : a.height = b.height => a = b
  /\ \A a \in S : a.height \in Floor .. top

CursorInv(c) ==
  /\ AnchorsInv(c.anchors, c.next - 1)
  /\ c.next = NoBlock => c.hash = NoHash /\ c.anchors = {}
  /\ c.next # NoBlock => c.next > Floor

\* Without a reorganisation the hash of a cursor stays canonical.
HashCurrent(c) ==
  reorgs = 0 /\ c.hash # NoHash => BlockAt(c.next - 1) = c.hash

MemInv(m, r) ==
  /\ ~m.restored => m.next = NoBlock
  /\ m.adopted => m.next # NoBlock
  /\ r.pc \notin {"idle", "restore"} => m.restored

RoundInv(r, m) ==
  /\ r.pc \in Comparing \cup Scanning => 0 <= r.to /\ r.to <= Tip
  /\ r.pc \in Comparing => r.from = m.next /\ m.hash # NoHash
  /\ r.pc = "walk" => r.todo \subseteq {a.height : a \in m.anchors} /\ reorgs # 0
  /\ r.pc \in Scanning =>
       /\ Floor <= r.from /\ r.from <= r.to
       /\ \A a \in m.anchors : a.height < r.from
  /\ r.pc = "logs" => \A g \in r.ranges : r.from <= g.from /\ g.to <= r.to
  /\ r.pc \in {"logs", "handle"} => r.hash = NoHash
  /\ r.pc = "anchors" =>
       /\ r.todo \subseteq r.from .. r.to
       /\ AnchorsInv(r.anchors, r.to)
       /\ r.hash \in {NoHash, BlockAt(r.to)}

TypeInv ==
  /\ ChainInv
  /\ mem \in Mems /\ file \in Files /\ round \in Rounds
  /\ CursorInv(mem) /\ CursorInv(file)
  /\ HashCurrent(mem) /\ HashCurrent(file)
  /\ MemInv(mem, round) /\ RoundInv(round, mem)

(***************************************************************************)
(* What the watcher's memory vouches for.                                  *)
(***************************************************************************)
Deep == "deep" \in Faults

Canonical(a) == BlockAt(a.height) = a.hash

\* Wherever the hash is canonical, everything up to it was scanned.
Vouches(b) == \A h \in 0 .. Tip : BlockAt(h) = b => ScannedUpTo(h)

\* The hash of a cursor is current, or an anchor is left to go back to.
HasAncestor(c) ==
  ~Deep /\ c.hash # NoHash =>
    BlockAt(c.next - 1) = c.hash \/ \E a \in c.anchors : Canonical(a)

CursorSound(c) ==
  /\ Vouches(c.hash) /\ \A a \in c.anchors : Vouches(a.hash)
  /\ HasAncestor(c)
  /\ reorgs = 0 /\ c.next # NoBlock => c.next <= Len(chain) /\ ScannedUpTo(c.next - 1)
  /\ "shrink" \notin Faults => c.next - 1 <= FinalizedHead

\* A cursor without a hash is true, and no reorganisation within the window is left.
Hashless(c) == c.next # NoBlock /\ c.hash = NoHash
TrueOutright(c) == ~Deep /\ c.next <= Len(chain) /\ ScannedUpTo(c.next - 1)

HashlessFile(f) == Hashless(f) => TrueOutright(f) /\ unread

HashlessMem(m, r) ==
  Hashless(m) /\ (r.pc \in Before \/ "round" \in Faults) =>
    TrueOutright(m) /\ (unread \/ m.anchors = {})

\* Every block of the range is still to be asked for, at hand, or handled.
Asked(r, h) == \E g \in r.ranges : h \in g.from .. g.to
AtHand(r, h) == Anchor(h, BlockAt(h)) \in r.logs

\* An anchor of this round.
NewAnchor(r, a) == a.height \in r.from .. r.to /\ Canonical(a)

\* A round of a watcher that has a cursor goes on where all was scanned; the
\* first one begins what the watcher answers for.
RoundSound(r, m) ==
  /\ r.pc \in Comparing \cup Scanning /\ "shrink" \notin Faults => r.to <= FinalizedHead
  /\ r.pc \in Comparing /\ Deep => Floor <= r.to
  /\ r.pc = "walk" /\ ~Deep =>
       /\ \E a \in m.anchors : Canonical(a)
       /\ \A a \in m.anchors : Canonical(a) => a.height \in r.todo
  /\ r.pc \in Scanning /\ m.next # NoBlock => ScannedUpTo(r.from - 1)
  /\ r.pc = "logs" => \A h \in r.from .. r.to : Asked(r, h) \/ AtHand(r, h)
  /\ r.pc = "handle" => \A h \in r.from .. r.to : BlockAt(h) \in handled \/ AtHand(r, h)
  /\ r.pc = "anchors" =>
       /\ \A h \in r.from .. r.to : BlockAt(h) \in handled
       /\ \A a \in r.anchors : a \in m.anchors \/ NewAnchor(r, a)
       /\ r.hash = NoHash => r.to \in r.todo \/ (unread /\ ~Deep)

Sound ==
  /\ CursorSound(file) /\ CursorSound(mem)
  /\ mem.anchors \subseteq file.anchors
  /\ HashlessFile(file) /\ HashlessMem(mem, round)
  /\ RoundSound(round, mem)

\* What the watcher answers for begins at the block it was configured with, or at
\* one of the chain; its first round scans from the block it was configured with.
StartInv ==
  /\ start \in Nat /\ Floor <= start /\ (Configured => start = Floor)
  /\ Configured /\ mem.next = NoBlock /\ round.pc \in Scanning => round.from = Floor

IInv == TypeInv /\ StartInv /\ Sound

(***************************************************************************)
(* Numbers, heights and anchors.                                           *)
(***************************************************************************)
\* The constants of the model and of a deployment are numbers.
LEMMA Bounds ==
  ASSUME config \in Deployments
  PROVE  /\ Confirmations \in Nat /\ MaxHeight \in Nat /\ ReorgBound \in Nat
         /\ FaultBound \in Nat /\ Span \in Nat \ {0}
         /\ Floor \in Nat /\ ReorgWindow \in Nat \ {0} /\ Faults \subseteq FaultNames
BY ScanCursorAssumption DEF Floor, Configured, ReorgWindow, Faults

\* A set of naturals that is not empty has a least element.
LEMMA LeastExists ==
  ASSUME NEW S \in SUBSET Nat, S # {}
  PROVE  \E h \in S : \A g \in S : h <= g
<1>1. IsWellFoundedOn(OpToRel(<, Nat), Nat)
  BY NatLessThanWellFounded, Zenon
<1>2. PICK x \in S : \A y \in S : ~ (<<y, x>> \in OpToRel(<, Nat))
  BY <1>1, WFMin, Zenon
<1>3. \A y \in S : ~(y < x)
  BY <1>2 DEF OpToRel
<1> QED BY <1>3

\* The least of some naturals is one of them.
LEMMA LowestIn ==
  ASSUME NEW S \in SUBSET Nat, S # {}
  PROVE  Lowest(S) \in S /\ \A g \in S : Lowest(S) <= g
BY LeastExists DEF Lowest

\* The greatest of some heights is one of them.
LEMMA HighestIn ==
  ASSUME MaxHeight \in Nat, NEW S \in SUBSET Heights, S # {}
  PROVE  Highest(S) \in S /\ \A g \in S : g <= Highest(S)
<1> DEFINE T == {MaxHeight - h : h \in S}
<1>1. T \in SUBSET Nat /\ T # {}
  <2>1. \A h \in S : MaxHeight - h \in Nat
    BY DEF Heights
  <2>2. PICK h \in S : TRUE
    OBVIOUS
  <2>3. MaxHeight - h \in T
    OBVIOUS
  <2> QED BY <2>1, <2>3
<1>2. PICK t \in T : \A u \in T : t <= u
  BY <1>1, LeastExists
<1>3. PICK h \in S : t = MaxHeight - h
  BY <1>2
<1>4. \A g \in S : MaxHeight - h <= MaxHeight - g
  BY <1>2, <1>3
<1>5. \A g \in S : g <= h
  BY <1>4 DEF Heights
<1> QED BY <1>5 DEF Highest

\* A subset of the anchors of a cursor is as well-formed.
LEMMA FewerAnchors ==
  ASSUME ReorgWindow \in Nat, NEW S, NEW top, AnchorsInv(S, top), NEW T \in SUBSET S
  PROVE  AnchorsInv(T, top)
<1>1. IsFiniteSet(T) /\ Cardinality(T) <= Cardinality(S)
  BY FS_Subset DEF AnchorsInv
<1>2. Cardinality(T) \in Nat /\ Cardinality(S) \in Nat
  BY <1>1, FS_CardinalityType DEF AnchorsInv
<1> QED BY <1>1, <1>2 DEF AnchorsInv

\* Nothing is anchored yet.
LEMMA NoAnchors ==
  ASSUME ReorgWindow \in Nat, NEW top
  PROVE  AnchorsInv({}, top)
BY FS_EmptySet DEF AnchorsInv

\* The newest of a finite set of anchors are no more than were asked for.
LEMMA NewestFew ==
  ASSUME NEW S, IsFiniteSet(S), NEW n \in Nat \ {0},
         \A a \in S : a.height \in Nat,
         \A a, b \in S : a.height = b.height => a = b
  PROVE  /\ Newest(S, n) \subseteq S /\ IsFiniteSet(Newest(S, n))
         /\ Cardinality(Newest(S, n)) <= n
<1> DEFINE N == Newest(S, n)
<1>1. N \subseteq S /\ IsFiniteSet(N) /\ Cardinality(N) \in Nat
  BY FS_Subset, FS_CardinalityType DEF Newest
<1>2. ASSUME Cardinality(N) > n PROVE FALSE
  <2>1. N # {}
    BY <1>1, <1>2, FS_EmptySet
  <2>2. PICK a \in N : \A b \in N : a.height <= b.height
    <3>1. {b.height : b \in N} \in SUBSET Nat /\ {b.height : b \in N} # {}
      BY <1>1, <2>1
    <3>2. PICK h \in {b.height : b \in N} : \A g \in {b.height : b \in N} : h <= g
      BY <3>1, LeastExists
    <3> QED BY <3>2
  <2> DEFINE B == {b \in S : b.height > a.height}
  <2>3. N \ {a} \subseteq B
    BY <1>1, <2>2
  <2>4. IsFiniteSet(B) /\ Cardinality(B) \in Nat
    BY FS_Subset, FS_CardinalityType
  <2>5. Cardinality(N \ {a}) <= Cardinality(B)
    BY <2>3, <2>4, FS_Subset
  <2>6. Cardinality(N \ {a}) = Cardinality(N) - 1
    BY <1>1, FS_RemoveElement
  <2>7. Cardinality(B) < n
    BY DEF Newest
  <2> HIDE DEF N, B
  <2> QED BY <1>1, <1>2, <2>4, <2>5, <2>6, <2>7
<1> HIDE DEF N
<1>3. Cardinality(N) <= n
  BY <1>1, <1>2
<1> QED BY <1>1, <1>3 DEF N

\* Recording an anchor keeps one anchor per height, and no more than the window.
LEMMA RecordKeeps ==
  ASSUME config \in Deployments, NEW S, NEW top \in Int, AnchorsInv(S, top),
         NEW h \in Floor .. top, NEW b
  PROVE  /\ AnchorsInv(RecordCheckpoint(S, h, b), top)
         /\ RecordCheckpoint(S, h, b) \subseteq S \cup {Anchor(h, b)}
<1> DEFINE R == {a \in S : a.height # h}
           T == R \cup {Anchor(h, b)}
<1>0. Floor \in Nat /\ ReorgWindow \in Nat \ {0} /\ Anchor(h, b).height = h
  BY Bounds DEF Anchor
<1>1. IsFiniteSet(R)
  BY FS_Subset DEF AnchorsInv
<1>2. IsFiniteSet(T)
  BY <1>1, FS_AddElement
<1>3. /\ \A a \in T : a.height \in Nat /\ a.height \in Floor .. top
      /\ \A a, c \in T : a.height = c.height => a = c
  BY <1>0 DEF AnchorsInv
<1> HIDE DEF R, T
<1>4. /\ Newest(T, ReorgWindow) \subseteq T /\ IsFiniteSet(Newest(T, ReorgWindow))
      /\ Cardinality(Newest(T, ReorgWindow)) <= ReorgWindow
  BY <1>0, <1>2, <1>3, NewestFew
<1>5. RecordCheckpoint(S, h, b) = Newest(T, ReorgWindow)
  BY DEF RecordCheckpoint, T, R
<1>6. T \subseteq S \cup {Anchor(h, b)}
  BY DEF T, R
<1> QED BY <1>3, <1>4, <1>5, <1>6 DEF AnchorsInv

(***************************************************************************)
(* The chain.  Below `keep` it is what it was; what is above, if anything, *)
(* has a hash that was never used.                                         *)
(***************************************************************************)
LEMMA ChainFacts ==
  ASSUME ChainInv
  PROVE  /\ Tip \in 0 .. MaxHeight /\ Len(chain) = Tip + 1 /\ Len(chain) \in Nat
         /\ \A h \in 0 .. Tip : BlockAt(h) \in 1 .. minted
         /\ \A h : h \notin 0 .. Tip => BlockAt(h) = NoHash
         /\ \A g, h \in 0 .. Tip : BlockAt(g) = BlockAt(h) => g = h
         /\ \A h : BlockAt(h) \in 0 .. minted
         /\ FinalizedHead \in 0 .. Tip
         /\ minted \in Nat
<1>0. Confirmations \in Nat /\ MaxHeight \in Nat
  BY Bounds DEF ChainInv
<1>1. /\ Tip \in 0 .. MaxHeight /\ Len(chain) = Tip + 1 /\ minted \in Nat
      /\ Len(chain) \in Nat
  BY <1>0 DEF Tip, ChainInv
<1>2. \A h \in 0 .. Tip : h + 1 \in 1 .. Len(chain) /\ BlockAt(h) = chain[h + 1]
  BY <1>1 DEF BlockAt
<1>3. \A h \in 0 .. Tip : BlockAt(h) \in 1 .. minted
  BY <1>2, ElementOfSeq DEF ChainInv
<1>4. \A h : h \notin 0 .. Tip => BlockAt(h) = NoHash
  BY DEF BlockAt
<1>5. ASSUME NEW g \in 0 .. Tip, NEW h \in 0 .. Tip, BlockAt(g) = BlockAt(h)
      PROVE  g = h
  <2>1. g + 1 \in 1 .. Len(chain) /\ h + 1 \in 1 .. Len(chain)
        /\ chain[g + 1] = chain[h + 1]
    BY <1>2, <1>5
  <2>2. g + 1 = h + 1
    BY <2>1 DEF ChainInv
  <2> QED BY <1>1, <2>2
<1>6. \A h : BlockAt(h) \in 0 .. minted
  BY <1>1, <1>3, <1>4 DEF NoHash
<1>7. FinalizedHead \in 0 .. Tip
  BY <1>0, <1>1 DEF FinalizedHead
<1> QED BY <1>1, <1>3, <1>4, <1>5, <1>6, <1>7

ChainKept(keep) ==
  /\ keep \in 0 .. Len(chain) /\ keep <= Len(chain')
  /\ minted \in Nat /\ minted' \in Nat /\ minted <= minted'
  /\ \A h \in 0 .. keep - 1 : BlockAt(h)' = BlockAt(h)
  /\ \A h : h \notin 0 .. keep - 1 => BlockAt(h)' \notin 1 .. minted
  /\ UNCHANGED <<config, handled, start, file, mem, round, faults, unread>>
  /\ round.pc \in Comparing \cup Scanning => round.to < keep
  /\ \/ keep = Len(chain) /\ reorgs' = reorgs
     \/ reorgs' # 0 /\ WithinWindow(keep)
  /\ "shrink" \notin Faults => Len(chain) <= Len(chain')

\* A block is mined.
LEMMA MineKeeps ==
  ASSUME TypeInv, Mine
  PROVE  ChainKept(Len(chain)) /\ ChainInv'
<1>a. ChainInv
  BY DEF TypeInv
<1>0. ChainInv /\ Len(chain) \in Nat /\ Tip = Len(chain) - 1 /\ MaxHeight \in Nat
      /\ minted \in Nat
  BY <1>a, ChainFacts, Bounds DEF ChainInv, Tip
<1>1. /\ Tip < MaxHeight /\ chain' = Append(chain, minted + 1) /\ minted' = minted + 1
      /\ UNCHANGED <<config, handled, start, file, mem, round, reorgs, faults, unread>>
  BY DEF Mine
<1>2. chain \in Seq(1 .. minted') /\ minted + 1 \in 1 .. minted'
  BY <1>0, <1>1, SeqMonotonic DEF ChainInv
<1>3. /\ chain' \in Seq(1 .. minted') /\ Len(chain') = Len(chain) + 1
      /\ \A i \in 1 .. Len(chain) : chain'[i] = chain[i]
      /\ chain'[Len(chain) + 1] = minted + 1
  BY <1>1, <1>2, AppendProperties
<1>4. \A i \in 1 .. Len(chain) : chain[i] \in 1 .. minted
  BY <1>0, ElementOfSeq DEF ChainInv
<1>5. \A i, j \in 1 .. Len(chain') : chain'[i] = chain'[j] => i = j
  <2> SUFFICES ASSUME NEW i \in 1 .. Len(chain'), NEW j \in 1 .. Len(chain'),
                      chain'[i] = chain'[j]
               PROVE  i = j
    OBVIOUS
  <2>1. CASE i <= Len(chain) /\ j <= Len(chain)
    <3>1. i \in 1 .. Len(chain) /\ j \in 1 .. Len(chain)
      BY <1>0, <1>3, <2>1
    <3> QED BY <1>3, <3>1 DEF TypeInv, ChainInv
  <2>2. CASE i <= Len(chain) /\ j = Len(chain) + 1
    <3>1. i \in 1 .. Len(chain)
      BY <1>0, <1>3, <2>2
    <3>2. chain'[i] <= minted /\ chain'[j] = minted + 1
      BY <1>0, <1>3, <1>4, <2>2, <3>1
    <3>3. chain'[i] # minted + 1
      BY <1>0, <1>3, <1>4, <3>1
    <3> QED BY <3>2, <3>3
  <2>3. CASE j <= Len(chain) /\ i = Len(chain) + 1
    <3>1. j \in 1 .. Len(chain)
      BY <1>0, <1>3, <2>3
    <3>2. chain'[i] = minted + 1
      BY <1>3, <2>3
    <3>3. chain'[j] # minted + 1
      BY <1>0, <1>3, <1>4, <3>1
    <3> QED BY <3>2, <3>3
  <2> QED BY <1>0, <1>3, <2>1, <2>2, <2>3
<1>6. ChainInv'
  <2>1. Len(chain') \in 1 .. MaxHeight + 1
    BY <1>0, <1>1, <1>3
  <2>2. handled \subseteq 1 .. minted' /\ minted' \in Nat
    BY <1>0, <1>1 DEF ChainInv
  <2>3. /\ config' = config /\ handled' = handled /\ reorgs' = reorgs
        /\ faults' = faults /\ unread' = unread
    BY <1>1
  <2>4. chain' \in Seq(1 .. minted')
    BY <1>3
  <2> QED BY <1>0, <1>5, <2>1, <2>2, <2>3, <2>4 DEF ChainInv
<1>7. \A h \in 0 .. Len(chain) - 1 : BlockAt(h)' = BlockAt(h)
  <2> SUFFICES ASSUME NEW h \in 0 .. Len(chain) - 1 PROVE BlockAt(h)' = BlockAt(h)
    OBVIOUS
  <2>1. h \in 0 .. Tip /\ h \in 0 .. (Len(chain') - 1) /\ h + 1 \in 1 .. Len(chain)
    BY <1>0, <1>3
  <2> QED BY <1>3, <2>1 DEF BlockAt, Tip
<1>8. \A h : h \notin 0 .. Len(chain) - 1 => BlockAt(h)' \notin 1 .. minted
  <2> SUFFICES ASSUME NEW h, h \notin 0 .. Len(chain) - 1
               PROVE  BlockAt(h)' \notin 1 .. minted
    OBVIOUS
  <2>1. CASE h = Len(chain)
    <3>1. BlockAt(h)' = minted + 1
      BY <1>0, <1>3, <2>1 DEF BlockAt, Tip
    <3> QED BY <1>0, <3>1
  <2>2. CASE h # Len(chain)
    <3>1. h \notin 0 .. (Len(chain') - 1)
      BY <1>0, <1>3, <2>2
    <3>2. BlockAt(h)' = 0
      BY <3>1 DEF BlockAt, Tip, NoHash
    <3> QED BY <3>2
  <2> QED BY <2>1, <2>2
<1>9. round.pc \in Comparing \cup Scanning => round.to < Len(chain)
  BY <1>0 DEF TypeInv, RoundInv, Rounds
<1> QED BY <1>0, <1>1, <1>3, <1>6, <1>7, <1>8, <1>9 DEF ChainKept

\* Blocks are replaced.
LEMMA ReorgKeeps ==
  ASSUME TypeInv, NEW keep \in 0 .. MaxHeight + 1, NEW grow \in 0 .. MaxHeight + 1,
         Reorg(keep, grow)
  PROVE  ChainKept(keep) /\ ChainInv'
<1> DEFINE New == [i \in 1 .. grow |-> minted + i]
           Old == SubSeq(chain, 1, keep)
<1>0. ChainInv /\ Len(chain) \in Nat /\ Tip = Len(chain) - 1 /\ MaxHeight \in Nat
      /\ minted \in Nat /\ ReorgBound \in Nat /\ reorgs \in 0 .. ReorgBound
      /\ keep \in Nat /\ grow \in Nat
  <2>1. ChainInv
    BY DEF TypeInv
  <2>2. Len(chain) \in Nat /\ MaxHeight \in Nat /\ minted \in Nat /\ ReorgBound \in Nat
        /\ reorgs \in 0 .. ReorgBound
    BY <2>1, ChainFacts, Bounds DEF ChainInv
  <2> QED BY <2>1, <2>2 DEF Tip
<1>1. /\ keep < Len(chain) /\ (keep = 0 => grow > 0) /\ reorgs < ReorgBound
      /\ keep + grow <= MaxHeight + 1 /\ AwayFromRound(keep) /\ WithinWindow(keep)
      /\ chain' = Old \o New /\ minted' = minted + grow /\ reorgs' = reorgs + 1
      /\ ("shrink" \notin Faults => Len(chain) <= keep + grow)
      /\ UNCHANGED <<config, handled, start, file, mem, round, faults, unread>>
  BY <1>0 DEF Reorg
<1>2. /\ New \in Seq(1 .. minted') /\ Len(New) = grow
      /\ \A i \in 1 .. grow : New[i] = minted + i
  <2>1. New \in [1 .. grow -> 1 .. minted']
    BY <1>0, <1>1
  <2>2. New \in Seq(1 .. minted')
    BY <1>0, <2>1, SeqDef
  <2>3. DOMAIN New = 1 .. Len(New) /\ Len(New) \in Nat
    BY <2>2, LenProperties
  <2>4. Len(New) = grow
    BY <1>0, <2>3
  <2> QED BY <2>2, <2>4
<1>3. /\ Old \in Seq(1 .. minted) /\ Len(Old) = keep
      /\ \A i \in 1 .. keep : Old[i] = chain[i]
  <2>0. chain \in Seq(1 .. minted) /\ \A i \in 1 .. keep : i \in 1 .. Len(chain)
    BY <1>0, <1>1 DEF ChainInv
  <2>1. \A i \in 1 .. keep : chain[i] \in 1 .. minted
    BY <2>0, ElementOfSeq
  <2>2. /\ Old \in Seq(1 .. minted) /\ Len(Old) = IF 1 <= keep THEN keep - 1 + 1 ELSE 0
        /\ \A i \in 1 .. keep - 1 + 1 : Old[i] = chain[1 + i - 1]
    BY <1>0, <2>1, SubSeqProperties
  <2> HIDE DEF Old
  <2> QED BY <1>0, <2>2
<1> HIDE DEF New, Old
<1>4. Old \in Seq(1 .. minted') /\ \A i \in 1 .. keep : Old[i] \in 1 .. minted
  <2>1. 1 .. minted \subseteq 1 .. minted'
    BY <1>0, <1>1
  <2> QED BY <1>3, <2>1, SeqMonotonic, ElementOfSeq
<1>5. /\ chain' \in Seq(1 .. minted') /\ Len(chain') = keep + grow
      /\ \A i \in 1 .. keep + grow :
           chain'[i] = IF i <= keep THEN chain[i] ELSE minted + (i - keep)
      /\ \A i \in 1 .. keep : chain[i] \in 1 .. minted
  <2>1. /\ chain' \in Seq(1 .. minted') /\ Len(chain') = keep + grow
        /\ \A i \in 1 .. keep + grow :
             chain'[i] = IF i <= keep THEN Old[i] ELSE New[i - keep]
    <3>1. PICK S : S = 1 .. minted'
      OBVIOUS
    <3>2. Old \in Seq(S) /\ New \in Seq(S) /\ Len(Old) = keep /\ Len(New) = grow
      BY <1>2, <1>3, <1>4, <3>1
    <3>3. /\ Old \o New \in Seq(S) /\ Len(Old \o New) = keep + grow
          /\ \A i \in 1 .. keep + grow :
               (Old \o New)[i] = IF i <= keep THEN Old[i] ELSE New[i - keep]
      BY <3>2, ConcatProperties
    <3> QED BY <1>1, <3>1, <3>3
  <2>2. \A i \in 1 .. keep + grow : i <= keep => i \in 1 .. keep
    BY <1>0
  <2>3. \A i \in 1 .. keep + grow : ~(i <= keep) => i - keep \in 1 .. grow
    BY <1>0
  <2> QED BY <1>2, <1>3, <1>4, <2>1, <2>2, <2>3
<1>6. \A i, j \in 1 .. Len(chain') : chain'[i] = chain'[j] => i = j
  <2> SUFFICES ASSUME NEW i \in 1 .. Len(chain'), NEW j \in 1 .. Len(chain'),
                      chain'[i] = chain'[j]
               PROVE  i = j
    OBVIOUS
  <2>0. ASSUME NEW k \in 1 .. Len(chain')
        PROVE  \/ k <= keep /\ k \in 1 .. Len(chain) /\ chain'[k] = chain[k]
                  /\ chain'[k] \in Nat /\ chain'[k] <= minted
               \/ k - keep \in Nat \ {0} /\ chain'[k] = minted + (k - keep)
    <3>1. k \in 1 .. keep + grow
      BY <1>5
    <3>2. CASE k <= keep
      <4>1. k \in 1 .. keep /\ k \in 1 .. Len(chain)
        BY <1>0, <1>1, <3>1, <3>2
      <4>2. chain'[k] = chain[k] /\ chain[k] \in 1 .. minted
        BY <1>5, <3>1, <3>2, <4>1
      <4> QED BY <1>0, <3>2, <4>1, <4>2
    <3>3. CASE ~(k <= keep)
      <4>1. k - keep \in Nat \ {0}
        BY <1>0, <3>1, <3>3
      <4> QED BY <1>5, <3>1, <3>3, <4>1
    <3> QED BY <3>2, <3>3
  <2>1. CASE i <= keep /\ j <= keep
    <3>1. i \in 1 .. Len(chain) /\ j \in 1 .. Len(chain) /\ chain[i] = chain[j]
      BY <1>0, <2>0, <2>1
    <3> QED BY <1>0, <3>1 DEF ChainInv
  <2>2. CASE ~(i <= keep /\ j <= keep)
    <3>1. PICK x : x = chain'[i]
      OBVIOUS
    <3>2. \/ i <= keep /\ x \in Nat /\ x <= minted
          \/ i - keep \in Nat \ {0} /\ x = minted + (i - keep)
      BY <2>0, <3>1
    <3>3. \/ j <= keep /\ x \in Nat /\ x <= minted
          \/ j - keep \in Nat \ {0} /\ x = minted + (j - keep)
      BY <2>0, <3>1
    <3>4. i \in Int /\ j \in Int /\ minted \in Nat /\ keep \in Nat
      BY <1>0, <1>5
    <3> QED BY <2>2, <3>2, <3>3, <3>4
  <2> QED BY <2>1, <2>2
<1>7. ChainInv'
  <2>1. Len(chain') \in 1 .. MaxHeight + 1
    BY <1>0, <1>1, <1>5
  <2>2. handled \subseteq 1 .. minted' /\ minted' \in Nat
    BY <1>0, <1>1 DEF ChainInv
  <2>3. reorgs' \in 0 .. ReorgBound
    BY <1>0, <1>1
  <2> QED BY <1>0, <1>1, <1>5, <1>6, <2>1, <2>2, <2>3 DEF ChainInv
<1>8. \A h \in 0 .. keep - 1 : BlockAt(h)' = BlockAt(h)
  <2> SUFFICES ASSUME NEW h \in 0 .. keep - 1 PROVE BlockAt(h)' = BlockAt(h)
    OBVIOUS
  <2>1. h \in 0 .. Tip /\ h \in 0 .. (Len(chain') - 1) /\ h + 1 \in 1 .. keep + grow
        /\ h + 1 <= keep
    BY <1>0, <1>1, <1>5
  <2> QED BY <1>5, <2>1 DEF BlockAt, Tip
<1>9. \A h : h \notin 0 .. keep - 1 => BlockAt(h)' \notin 1 .. minted
  <2> SUFFICES ASSUME NEW h, h \notin 0 .. keep - 1
               PROVE  BlockAt(h)' \notin 1 .. minted
    OBVIOUS
  <2>1. CASE h \in 0 .. (keep + grow - 1)
    <3>1. h + 1 \in 1 .. keep + grow /\ ~(h + 1 <= keep)
      BY <1>0, <2>1
    <3>2. BlockAt(h)' = minted + (h + 1 - keep)
      BY <1>5, <2>1, <3>1 DEF BlockAt, Tip
    <3> QED BY <1>0, <2>1, <3>1, <3>2
  <2>2. CASE h \notin 0 .. (keep + grow - 1)
    <3>1. BlockAt(h)' = 0
      BY <1>5, <2>2 DEF BlockAt, Tip, NoHash
    <3> QED BY <3>1
  <2> QED BY <2>1, <2>2
<1>10. round.pc \in Comparing \cup Scanning => round.to < keep
  <2>1. round.to \in Int
    BY DEF TypeInv, Rounds
  <2> QED BY <1>0, <1>1, <2>1 DEF AwayFromRound, Comparing, Scanning
<1>11. minted' \in Nat /\ minted <= minted' /\ keep <= Len(chain') /\ reorgs' # 0
       /\ keep \in 0 .. Len(chain)
  BY <1>0, <1>1, <1>5
<1> QED BY <1>0, <1>1, <1>5, <1>7, <1>8, <1>9, <1>10, <1>11 DEF ChainKept

\* Whatever the chain does, it keeps a prefix.
LEMMA ChainStepKeeps ==
  ASSUME TypeInv, ChainStep
  PROVE  ChainInv' /\ \E keep : ChainKept(keep)
BY MineKeeps, ReorgKeeps DEF ChainStep

(***************************************************************************)
(* The first layer: what a step of the watcher, or of the chain, must do   *)
(* to keep TypeInv.                                                        *)
(***************************************************************************)
Frame == UNCHANGED <<config, chain, minted, reorgs>>

\* Over a chain that stands still, every operator of the chain says what it said.
LEMMA FrameFacts ==
  ASSUME Frame
  PROVE  /\ Floor' = Floor /\ ReorgWindow' = ReorgWindow /\ Faults' = Faults
         /\ Tip' = Tip /\ FinalizedHead' = FinalizedHead /\ (Deep <=> Deep')
         /\ \A h : BlockAt(h)' = BlockAt(h)
BY DEF Frame, Floor, Configured, ReorgWindow, Faults, Tip, FinalizedHead, Deep, BlockAt

\* What the fields of cursors and rounds are made of.
LEMMA FieldTypes ==
  ASSUME ChainInv
  PROVE  /\ \A m \in Mems : /\ m.next \in Int /\ m.hash \in 0 .. minted
                             /\ m.hash \in Nat /\ m.anchors \subseteq Anchors
         /\ \A f \in Files : /\ f.next \in Int /\ f.hash \in 0 .. minted
                              /\ f.hash \in Nat /\ f.anchors \subseteq Anchors
         /\ \A r \in Rounds : /\ r.from \in Int /\ r.to \in Int /\ r.hash \in Nat
                               /\ r.todo \subseteq Heights
         /\ \A a \in Anchors : /\ a.height \in Heights /\ a.height \in Nat
                                /\ a.hash \in 1 .. minted /\ a.hash \in Nat
                                /\ a = Anchor(a.height, a.hash)
<1>a. MaxHeight \in Nat /\ minted \in Nat
  BY Bounds DEF ChainInv
<1>b. {NoBlock} \cup 1 .. MaxHeight + 1 \subseteq Int
  BY <1>a DEF NoBlock
<1>c. 0 .. minted \subseteq Nat /\ 1 .. minted \subseteq Nat
  BY <1>a
<1>d. Heights \subseteq Nat
  BY <1>a DEF Heights
<1>1. {NoBlock} \cup 1 .. MaxHeight + 1 \subseteq Int /\ 0 .. minted \subseteq Nat
      /\ Heights \subseteq Nat /\ 1 .. minted \subseteq Nat
  BY <1>b, <1>c, <1>d
<1>2. \A m \in Mems : /\ m.next \in {NoBlock} \cup 1 .. MaxHeight + 1
                      /\ m.hash \in 0 .. minted /\ m.anchors \subseteq Anchors
  BY DEF Mems
<1>3. \A f \in Files : /\ f.next \in {NoBlock} \cup 1 .. MaxHeight + 1
                       /\ f.hash \in 0 .. minted /\ f.anchors \subseteq Anchors
  BY DEF Files
<1>4. \A r \in Rounds : /\ r.from \in Int /\ r.to \in Int /\ r.hash \in 0 .. minted
                        /\ r.todo \subseteq Heights
  BY DEF Rounds
<1>5. \A a \in Anchors : /\ a.height \in Heights /\ a.hash \in 1 .. minted
                         /\ a = Anchor(a.height, a.hash)
  BY DEF Anchors, Anchor
<1> QED BY <1>1, <1>2, <1>3, <1>4, <1>5

\* The watcher moves to new locals, over a chain that stands still.
LEMMA WatcherMoves ==
  ASSUME TypeInv, Frame,
         handled' \subseteq 1 .. minted, faults' \in 0 .. FaultBound, unread' \in BOOLEAN,
         NEW m \in Mems, NEW f \in Files, NEW r \in Rounds,
         mem' = m, file' = f, round' = r,
         CursorInv(m), CursorInv(f), HashCurrent(m), HashCurrent(f),
         MemInv(m, r), RoundInv(r, m)
  PROVE  TypeInv'
<1>0. /\ config' = config /\ chain' = chain /\ minted' = minted /\ reorgs' = reorgs
      /\ Floor' = Floor /\ ReorgWindow' = ReorgWindow /\ Tip' = Tip
      /\ \A h : BlockAt(h)' = BlockAt(h)
  BY FrameFacts DEF Frame
<1>1. ChainInv'
  BY <1>0 DEF TypeInv, ChainInv
<1>2. mem' \in Mems' /\ file' \in Files' /\ round' \in Rounds'
  BY <1>0 DEF Mems, Files, Rounds, Anchors
<1>3. \A S, top : AnchorsInv(S, top) => AnchorsInv(S, top)'
  BY <1>0 DEF AnchorsInv
<1>4. CursorInv(m)' /\ CursorInv(f)' /\ HashCurrent(m)' /\ HashCurrent(f)'
  BY <1>0, <1>3 DEF CursorInv, HashCurrent
<1>5. MemInv(m, r)' /\ RoundInv(r, m)'
  BY <1>0, <1>3 DEF MemInv, RoundInv
<1> QED BY <1>1, <1>2, <1>4, <1>5 DEF TypeInv

\* The chain moves, and the watcher does not.
LEMMA ChainMoves ==
  ASSUME TypeInv, ChainInv', NEW keep, ChainKept(keep)
  PROVE  TypeInv'
<1> USE DEF TypeInv
<1>0. /\ ChainInv /\ minted \in Nat /\ minted' \in Nat /\ minted <= minted'
      /\ UNCHANGED <<config, handled, start, file, mem, round, faults, unread>>
      /\ Floor' = Floor /\ ReorgWindow' = ReorgWindow
      /\ keep \in 0 .. Len(chain) /\ keep <= Len(chain')
  BY DEF ChainKept, Floor, Configured, ReorgWindow
<1>a. Tip' = Len(chain') - 1 /\ Len(chain') \in Nat /\ Tip = Len(chain) - 1
      /\ Len(chain) \in Nat
  BY <1>0, ChainFacts DEF ChainInv, Tip
<1>1. Anchors \subseteq Anchors' /\ 0 .. minted \subseteq 0 .. minted'
  BY <1>0 DEF Anchors
<1>2. mem' \in Mems' /\ file' \in Files' /\ round' \in Rounds'
  BY <1>0, <1>1 DEF Mems, Files, Rounds
<1>3. \A S, top : AnchorsInv(S, top) => AnchorsInv(S, top)'
  BY <1>0 DEF AnchorsInv
<1>4. CursorInv(mem)' /\ CursorInv(file)'
  BY <1>0, <1>3 DEF CursorInv
<1>5. ASSUME NEW c, c.next \in Int, c.hash \in Nat, HashCurrent(c)
      PROVE  HashCurrent(c)'
  <2> SUFFICES ASSUME reorgs' = 0, c.hash # NoHash
               PROVE  BlockAt(c.next - 1)' = c.hash
    BY DEF HashCurrent
  <2>1. keep = Len(chain) /\ reorgs = 0
    BY DEF ChainKept
  <2>2. BlockAt(c.next - 1) # NoHash
    BY <1>5, <2>1 DEF HashCurrent
  <2>3. c.next - 1 \in 0 .. keep - 1
    BY <1>0, <1>a, <2>1, <2>2, ChainFacts
  <2>4. BlockAt(c.next - 1)' = BlockAt(c.next - 1)
    BY <2>3 DEF ChainKept
  <2> QED BY <1>5, <2>1, <2>4 DEF HashCurrent
<1>6. HashCurrent(mem)' /\ HashCurrent(file)'
  <2>1. mem.next \in Int /\ mem.hash \in Nat /\ file.next \in Int /\ file.hash \in Nat
    BY <1>0, FieldTypes
  <2>2. \A c : HashCurrent(c)' /\ c = mem => HashCurrent(mem)'
    BY <1>0 DEF HashCurrent
  <2>3. \A c : HashCurrent(c)' /\ c = file => HashCurrent(file)'
    BY <1>0 DEF HashCurrent
  <2>4. PICK m, f : m = mem /\ f = file
    OBVIOUS
  <2> QED BY <1>5, <2>1, <2>2, <2>3, <2>4
<1>7. MemInv(mem, round)'
  BY <1>0 DEF MemInv
<1>8. RoundInv(round, mem)'
  <2>1. round.pc \in Comparing \cup Scanning =>
          round.to \in 0 .. keep - 1 /\ BlockAt(round.to)' = BlockAt(round.to)
    <3>1. round.to \in Int /\ keep \in Int
      BY <1>0, <1>a DEF Rounds
    <3>2. round.pc \in Comparing \cup Scanning => round.to \in 0 .. keep - 1
      BY <3>1 DEF RoundInv, ChainKept
    <3> QED BY <3>2 DEF ChainKept
  <2>2. round.pc \in Comparing \cup Scanning => round.to <= Tip'
    BY <1>0, <1>a, <2>1
  <2>3. reorgs # 0 => reorgs' # 0
    BY DEF ChainKept
  <2>4. round' = round /\ mem' = mem
    BY <1>0
  <2>5. round.pc = "anchors" => round.hash \in {NoHash, BlockAt(round.to)'}
    BY <2>1 DEF RoundInv, Scanning
  <2> HIDE DEF TypeInv
  <2>6. RoundInv(round, mem)
    BY DEF TypeInv
  <2>7. PICK r, m : r = round /\ m = mem
    OBVIOUS
  <2>8. RoundInv(r, m)'
    BY <1>0, <1>3, <2>1, <2>2, <2>3, <2>5, <2>6, <2>7 DEF RoundInv
  <2> QED BY <2>4, <2>7, <2>8 DEF RoundInv
<1> QED BY <1>2, <1>4, <1>6, <1>7, <1>8

(***************************************************************************)
(* The first layer, step by step.                                          *)
(***************************************************************************)
\* An idle round is well-formed, and so are an empty cursor and a fresh memory.
LEMMA StartTypes ==
  ASSUME ChainInv
  PROVE  /\ FreshMemory \in Mems /\ NoCursor \in Files /\ IdleRound \in Rounds
         /\ CursorInv(FreshMemory) /\ CursorInv(NoCursor)
         /\ HashCurrent(FreshMemory) /\ HashCurrent(NoCursor)
         /\ \A r : r.pc = "idle" \/ r.pc = "restore" => MemInv(FreshMemory, r)
         /\ \A r, m : r.pc \in Before => RoundInv(r, m)
         /\ IdleRound.pc = "idle"
<1>0. minted \in Nat /\ ReorgWindow \in Nat
  BY Bounds DEF ChainInv
<1>1. FreshMemory \in Mems /\ NoCursor \in Files /\ IdleRound \in Rounds
  BY <1>0 DEF FreshMemory, NoCursor, IdleRound, Mems, Files, Rounds, NoHash, Before
<1>2. CursorInv(FreshMemory) /\ CursorInv(NoCursor)
  BY <1>0, NoAnchors DEF CursorInv, FreshMemory, NoCursor
<1>3. HashCurrent(FreshMemory) /\ HashCurrent(NoCursor)
  BY DEF HashCurrent, FreshMemory, NoCursor
<1>4. \A r : r.pc = "idle" \/ r.pc = "restore" => MemInv(FreshMemory, r)
  BY DEF MemInv, FreshMemory
<1>5. \A r, m : r.pc \in Before => RoundInv(r, m)
  BY DEF RoundInv, Before, Comparing, Scanning
<1>6. IdleRound.pc = "idle"
  BY DEF IdleRound
<1> QED BY <1>1, <1>2, <1>3, <1>4, <1>5, <1>6

\* The ranges of a scan lie within it.
LEMMA RangesWithin ==
  ASSUME Span \in Nat \ {0}, NEW from \in Int, NEW to \in Int
  PROVE  /\ BlockRanges(from, to) \subseteq [from : Int, to : Int]
         /\ \A g \in BlockRanges(from, to) : from <= g.from /\ g.to <= to
<1> SUFFICES ASSUME NEW g \in BlockRanges(from, to)
             PROVE  g \in [from : Int, to : Int] /\ from <= g.from /\ g.to <= to
  OBVIOUS
<1>1. PICK s \in from .. to :
        g = [from |-> s, to |-> IF s + Span - 1 < to THEN s + Span - 1 ELSE to]
  BY DEF BlockRanges
<1>2. s \in Int /\ from <= s
  OBVIOUS
<1>3. CASE s + Span - 1 < to
  BY <1>1, <1>2, <1>3
<1>4. CASE ~(s + Span - 1 < to)
  BY <1>1, <1>2, <1>4
<1> QED BY <1>3, <1>4

\* A round that enters a range scans it from the floor or above to a block of the chain,
\* or ends.
LEMMA EnterRangeTypes ==
  ASSUME ChainInv, NEW m, NEW from \in Int, NEW to \in 0 .. Tip,
         EnterRange(from, to), Floor <= from, m.restored,
         m.adopted => m.next # NoBlock, \A a \in m.anchors : a.height < from
  PROVE  \E r \in Rounds :
           /\ round' = r /\ RoundInv(r, m) /\ MemInv(m, r)
           /\ \/ r = IdleRound /\ from > to
              \/ /\ r.pc = "logs" /\ r.from = from /\ r.to = to /\ from <= to
                 /\ r.ranges = BlockRanges(from, to) /\ r.logs = {} /\ r.hash = NoHash
<1>0. Span \in Nat \ {0} /\ to \in Int /\ Tip \in Int /\ 0 <= to /\ to <= Tip
  BY ChainFacts, Bounds DEF ChainInv
<1>1. CASE from > to
  BY <1>1, StartTypes DEF EnterRange, MemInv, Before
<1>2. CASE ~(from > to)
  <2> DEFINE R == BlockRanges(from, to)
  <2>1. R \subseteq [from : Int, to : Int] /\ \A g \in R : from <= g.from /\ g.to <= to
    BY <1>0, RangesWithin
  <2> HIDE DEF R
  <2>2. PICK r : r = [IdleRound EXCEPT !.pc = "logs", !.from = from, !.to = to,
                                       !.ranges = R]
    OBVIOUS
  <2>3. /\ r \in Rounds /\ r.pc = "logs" /\ r.from = from /\ r.to = to /\ r.ranges = R
        /\ r.logs = {} /\ r.hash = NoHash
    <3>1. IdleRound \in Rounds
      BY StartTypes
    <3> QED BY <1>0, <2>1, <2>2, <3>1 DEF Rounds, IdleRound, Scanning
  <2>4. round' = r
    BY <1>2, <2>2 DEF EnterRange, R
  <2>5. RoundInv(r, m)
    BY <1>0, <1>2, <2>1, <2>3 DEF RoundInv, Comparing, Scanning
  <2>6. from <= to
    BY <1>0, <1>2
  <2> QED BY <2>3, <2>4, <2>5, <2>6 DEF MemInv, R
<1> QED BY <1>1, <1>2

\* What the invariant says of the state, in one place.
LEMMA StateFacts ==
  ASSUME TypeInv
  PROVE  /\ ChainInv /\ mem \in Mems /\ file \in Files /\ round \in Rounds
         /\ CursorInv(mem) /\ CursorInv(file) /\ HashCurrent(mem) /\ HashCurrent(file)
         /\ MemInv(mem, round) /\ RoundInv(round, mem)
         /\ handled \subseteq 1 .. minted /\ faults \in 0 .. FaultBound
         /\ unread \in BOOLEAN /\ faults \in Nat /\ FaultBound \in Nat
BY Bounds DEF TypeInv, ChainInv

\* A read gives the hash of a block, or nothing, and a failed one is recorded.
LEMMA ReadFacts ==
  ASSUME TypeInv, NEW h, NEW b \in ReadHash(h), Recall(h, b)
  PROVE  /\ b \in {NoHash, BlockAt(h)} /\ b \in 0 .. minted
         /\ unread' \in BOOLEAN /\ (unread => unread')
         /\ b # BlockAt(h) => unread' /\ "hash" \in Faults /\ (reorgs = 0 \/ Deep)
<1>1. b \in {NoHash, BlockAt(h)}
  BY DEF ReadHash
<1>2. b # BlockAt(h) => "hash" \in Faults /\ (reorgs = 0 \/ Deep)
  BY DEF ReadHash, Deep
<1>3. b \in 0 .. minted
  BY <1>1, ChainFacts DEF TypeInv, NoHash
<1>4. unread \in BOOLEAN
  BY StateFacts
<1> QED BY <1>1, <1>2, <1>3, <1>4 DEF Recall

\* The round begins, and the position is loaded.
LEMMA WakeTypes ==
  ASSUME TypeInv, Wake
  PROVE  TypeInv'
<1>1. PICK r \in Rounds : /\ round' = r /\ r.pc \in {"head", "restore"}
                          /\ r.pc = "head" => mem.restored
  <2>1. IdleRound \in Rounds
    BY StateFacts, StartTypes
  <2> DEFINE r == [IdleRound EXCEPT !.pc = IF mem.restored THEN "head" ELSE "restore"]
  <2>2. r \in Rounds /\ r.pc = IF mem.restored THEN "head" ELSE "restore"
    BY <2>1 DEF Rounds, Before
  <2>3. round' = r
    BY DEF Wake
  <2> HIDE DEF r
  <2> QED BY <2>2, <2>3
<1>2. Frame /\ UNCHANGED <<handled, file, mem, faults, unread>>
  BY DEF Wake, Frame
<1>3. MemInv(mem, r) /\ RoundInv(r, mem)
  BY <1>1, StateFacts, StartTypes DEF MemInv, Before
<1> QED BY <1>1, <1>2, <1>3, StateFacts, WatcherMoves

\* The position is read from the file, or the watcher begins without one.
LEMMA RestoreTypes ==
  ASSUME TypeInv, RestoreCursor
  PROVE  TypeInv'
<1>0. /\ round.pc = "restore" /\ round \in Rounds /\ file \in Files /\ mem \in Mems
      /\ CursorInv(mem) /\ CursorInv(file) /\ HashCurrent(mem) /\ HashCurrent(file)
      /\ MemInv(mem, round)
  BY StateFacts DEF RestoreCursor
<1>1. Frame /\ UNCHANGED <<handled, file, faults>>
  BY DEF RestoreCursor, Frame
<1>2. PICK r \in Rounds : round' = r /\ r.pc = "head"
  <2> DEFINE r == [round EXCEPT !.pc = "head"]
  <2>1. r \in Rounds /\ r.pc = "head"
    BY <1>0 DEF Rounds, Before
  <2> QED BY <2>1 DEF RestoreCursor
<1>3. PICK genesis \in ReadHash(0) :
        /\ mem' = IF file.next = NoBlock \/ IsForeign(genesis)
                  THEN [mem EXCEPT !.restored = TRUE, !.genesis = genesis]
                  ELSE [next |-> file.next, hash |-> file.hash,
                        anchors |-> file.anchors, adopted |-> TRUE,
                        restored |-> TRUE, genesis |-> genesis]
        /\ Recall(0, genesis)
  BY DEF RestoreCursor
<1>4. genesis \in 0 .. minted /\ unread' \in BOOLEAN
  BY <1>3, ReadFacts
<1>5. PICK m \in Mems : /\ mem' = m /\ CursorInv(m) /\ HashCurrent(m) /\ m.restored
                        /\ m.adopted => m.next # NoBlock
  <2>1. CASE file.next = NoBlock \/ IsForeign(genesis)
    <3> DEFINE m == [mem EXCEPT !.restored = TRUE, !.genesis = genesis]
    <3>1. /\ m \in Mems /\ m.next = mem.next /\ m.hash = mem.hash
          /\ m.anchors = mem.anchors /\ m.restored /\ m.adopted = mem.adopted
      BY <1>0, <1>4 DEF Mems
    <3>2. mem' = m
      BY <1>3, <2>1
    <3> HIDE DEF m
    <3> QED BY <1>0, <3>1, <3>2 DEF CursorInv, HashCurrent, MemInv
  <2>2. CASE ~(file.next = NoBlock \/ IsForeign(genesis))
    <3> DEFINE m == [next |-> file.next, hash |-> file.hash, anchors |-> file.anchors,
                     adopted |-> TRUE, restored |-> TRUE, genesis |-> genesis]
    <3>1. /\ m \in Mems /\ m.next = file.next /\ m.hash = file.hash
          /\ m.anchors = file.anchors /\ m.restored
      BY <1>0, <1>4 DEF Mems, Files
    <3>2. mem' = m
      BY <1>3, <2>2
    <3> HIDE DEF m
    <3> QED BY <1>0, <2>2, <3>1, <3>2 DEF CursorInv, HashCurrent
  <2> QED BY <2>1, <2>2
<1>6. MemInv(m, r) /\ RoundInv(r, m)
  BY <1>2, <1>5, StateFacts, StartTypes DEF MemInv, Before
<1> QED BY <1>0, <1>1, <1>2, <1>4, <1>5, <1>6, StateFacts, WatcherMoves

\* Without a cursor the scan begins at the floor, or at the finalized head above it.
LEMMA Unanchored ==
  ASSUME ChainInv, mem.next = NoBlock
  PROVE  CursorPosition \in Nat /\ Floor <= CursorPosition
<1>1. Floor \in Nat /\ FinalizedHead \in Nat
  BY Bounds, ChainFacts DEF ChainInv
<1> QED BY <1>1 DEF CursorPosition, Floor

\* The cursor lies beyond the head.
LEMMA OvershootTypes ==
  ASSUME TypeInv, CorrectOvershoot
  PROVE  TypeInv'
<1>0. /\ ChainInv /\ mem \in Mems /\ CursorInv(mem) /\ HashCurrent(mem)
      /\ MemInv(mem, round) /\ round.pc = "head" /\ mem.restored
      /\ Floor \in Int /\ ReorgWindow \in Nat /\ FinalizedHead \in 0 .. Tip
  BY StateFacts, Bounds, ChainFacts DEF CorrectOvershoot, MemInv, ChainInv
<1>1. Frame /\ UNCHANGED <<handled, file, faults, unread>>
  BY DEF CorrectOvershoot, Frame
<1>2. CASE mem.adopted /\ Configured /\ Floor <= FinalizedHead
  <2> DEFINE m == [mem EXCEPT !.adopted = FALSE, !.anchors = {}, !.hash = NoHash]
  <2>1. /\ m \in Mems /\ m.next = mem.next /\ m.hash = NoHash /\ m.anchors = {}
        /\ m.restored /\ ~m.adopted
    <3>1. NoHash \in 0 .. minted
      BY <1>0, ChainFacts DEF NoHash
    <3> QED BY <1>0, <3>1 DEF Mems
  <2>2. mem' = m /\ EnterRange(Floor, FinalizedHead)
    BY <1>2 DEF CorrectOvershoot
  <2> HIDE DEF m
  <2>3. CursorInv(m) /\ HashCurrent(m)
    BY <1>0, <2>1, NoAnchors DEF CursorInv, HashCurrent
  <2>4. PICK r \in Rounds : round' = r /\ RoundInv(r, m) /\ MemInv(m, r)
    BY <1>0, <2>1, <2>2, EnterRangeTypes
  <2> QED BY <1>1, <2>1, <2>2, <2>3, <2>4, StateFacts, WatcherMoves
<1>3. CASE ~(mem.adopted /\ Configured /\ Floor <= FinalizedHead)
  <2>1. round' = IdleRound /\ mem' = mem
    BY <1>3 DEF CorrectOvershoot
  <2>2. /\ MemInv(mem, IdleRound) /\ RoundInv(IdleRound, mem) /\ IdleRound \in Rounds
    BY <1>0, StartTypes DEF MemInv, Before
  <2> QED BY <1>1, <2>1, <2>2, StateFacts, WatcherMoves
<1> QED BY <1>2, <1>3

\* The range of a round that has nothing to compare, or what it is to compare.
LEMMA ReadHeadTypes ==
  ASSUME TypeInv, ReadHead
  PROVE  TypeInv'
<1>0. /\ ChainInv /\ mem \in Mems /\ CursorInv(mem) /\ MemInv(mem, round)
      /\ round.pc = "head" /\ mem.restored /\ round \in Rounds
      /\ Floor \in Int /\ FinalizedHead \in 0 .. Tip /\ Tip \in Int
  BY StateFacts, Bounds, ChainFacts DEF ReadHead, MemInv, ChainInv
<1>1. Frame /\ UNCHANGED <<handled, file, mem, faults, unread>>
  BY DEF ReadHead, Frame
<1>2. /\ CursorPosition \in Int /\ Floor <= CursorPosition
      /\ \A a \in mem.anchors : a.height < CursorPosition
  <2>1. CASE mem.next = NoBlock
    BY <1>0, <2>1, Unanchored DEF CursorInv
  <2>2. CASE mem.next # NoBlock
    <3>1. mem.next \in Int /\ mem.next > Floor /\ CursorPosition = mem.next
      BY <1>0, <2>2, FieldTypes DEF CursorPosition, CursorInv
    <3>2. \A a \in mem.anchors : a.height \in Floor .. mem.next - 1
      BY <1>0 DEF CursorInv, AnchorsInv
    <3> QED BY <1>0, <3>1, <3>2
  <2> QED BY <2>1, <2>2
<1>3. CASE NothingToCompare
  <2>1. EnterRange(CursorPosition, FinalizedHead)
    BY <1>3 DEF ReadHead
  <2>2. PICK r \in Rounds : round' = r /\ RoundInv(r, mem) /\ MemInv(mem, r)
    BY <1>0, <1>2, <2>1, EnterRangeTypes DEF MemInv
  <2> QED BY <1>1, <2>2, StateFacts, WatcherMoves
<1>4. CASE ~NothingToCompare
  <2> DEFINE r == [round EXCEPT !.pc = "continuity", !.from = CursorPosition,
                                !.to = FinalizedHead]
  <2>1. /\ r \in Rounds /\ r.pc = "continuity" /\ r.from = CursorPosition
        /\ r.to = FinalizedHead
    <3>1. FinalizedHead \in Int
      BY <1>0
    <3> QED BY <1>0, <1>2, <3>1 DEF Rounds, Comparing
  <2>2. round' = r
    BY <1>4 DEF ReadHead
  <2>3. mem.hash # NoHash /\ CursorPosition = mem.next
    BY <1>0, <1>4 DEF NothingToCompare, CursorPosition, CursorInv
  <2> HIDE DEF r
  <2>4. 0 <= r.to /\ r.to <= Tip
    BY <1>0, <2>1
  <2>5. RoundInv(r, mem) /\ MemInv(mem, r)
    BY <1>0, <2>1, <2>3, <2>4 DEF RoundInv, MemInv, Comparing, Scanning
  <2> QED BY <1>1, <2>1, <2>2, <2>5, StateFacts, WatcherMoves
<1> QED BY <1>3, <1>4

\* A round that compares works below its own range, on a memory that was restored.
LEMMA ComparingFacts ==
  ASSUME TypeInv, round.pc \in Comparing
  PROVE  /\ ChainInv /\ mem \in Mems /\ round \in Rounds /\ CursorInv(mem)
         /\ HashCurrent(mem) /\ mem.restored /\ (mem.adopted => mem.next # NoBlock)
         /\ round.from = mem.next /\ mem.hash # NoHash /\ mem.next # NoBlock
         /\ mem.next \in Int /\ mem.next > Floor /\ Floor \in Nat
         /\ round.to \in 0 .. Tip /\ Tip \in Int
         /\ \A a \in mem.anchors : /\ a.height \in Int /\ Floor <= a.height
                                   /\ a.height < mem.next
<1>1. /\ ChainInv /\ mem \in Mems /\ round \in Rounds /\ CursorInv(mem)
      /\ HashCurrent(mem) /\ MemInv(mem, round) /\ RoundInv(round, mem)
  BY StateFacts
<1>2. mem.restored /\ (mem.adopted => mem.next # NoBlock)
  BY <1>1 DEF MemInv, Comparing
<1>3. /\ round.from = mem.next /\ mem.hash # NoHash
      /\ 0 <= round.to /\ round.to <= Tip /\ Tip \in Int /\ round.to \in Int
  BY <1>1, ChainFacts, FieldTypes DEF RoundInv
<1>4. mem.next # NoBlock /\ mem.next > Floor /\ mem.next \in Int /\ Floor \in Nat
  BY <1>1, <1>3, FieldTypes, Bounds DEF CursorInv, ChainInv
<1>5. \A a \in mem.anchors : a.height \in Floor .. mem.next - 1
  BY <1>1 DEF CursorInv, AnchorsInv
<1>6. \A a \in mem.anchors : a.height \in Int /\ Floor <= a.height /\ a.height < mem.next
  BY <1>4, <1>5
<1> QED BY <1>1, <1>2, <1>3, <1>4, <1>6

\* The round enters its range right above the cursor.
LEMMA ContinuityTypes ==
  ASSUME TypeInv, ContinuityHolds
  PROVE  TypeInv'
<1>1. round.pc \in Comparing
  BY DEF ContinuityHolds, Comparing
<1>2. Frame /\ UNCHANGED <<handled, file, mem, faults>>
  BY DEF ContinuityHolds, Frame
<1>3. unread' \in BOOLEAN
  BY ReadFacts DEF ContinuityHolds
<1>4. PICK r \in Rounds : round' = r /\ RoundInv(r, mem) /\ MemInv(mem, r)
  <2>1. EnterRange(mem.next, round.to)
    BY <1>1, ComparingFacts DEF ContinuityHolds
  <2> QED BY <1>1, <2>1, ComparingFacts, EnterRangeTypes
<1> QED BY <1>2, <1>3, <1>4, StateFacts, WatcherMoves

\* The hash remembered is not canonical any more: so there was a reorganisation.
LEMMA DetectedTypes ==
  ASSUME TypeInv, ReorgDetected
  PROVE  TypeInv'
<1> DEFINE T == {a.height : a \in {b \in mem.anchors : b.height < round.from}}
           r == [round EXCEPT !.pc = "walk", !.todo = T]
<1>1. round.pc \in Comparing /\ BlockAt(round.from - 1) \notin {NoHash, mem.hash}
      /\ round.pc = "continuity"
  BY DEF ReorgDetected, Comparing
<1>2. Frame /\ UNCHANGED <<handled, file, mem, faults, unread>> /\ round' = r
  BY DEF ReorgDetected, Frame
<1>3. T \subseteq {a.height : a \in mem.anchors} /\ T \subseteq Heights
  BY <1>1, ComparingFacts, FieldTypes
<1> HIDE DEF T
<1>4. /\ r \in Rounds /\ r.pc = "walk" /\ r.from = round.from /\ r.to = round.to
      /\ r.todo = T
  BY <1>1, <1>3, ComparingFacts DEF Rounds, Comparing
<1>5. reorgs # 0
  BY <1>1, ComparingFacts DEF HashCurrent
<1> HIDE DEF r
<1>6. MemInv(mem, r) /\ RoundInv(r, mem)
  <2>1. 0 <= r.to /\ r.to <= Tip
    BY <1>1, <1>4, ComparingFacts
  <2> QED BY <1>1, <1>3, <1>4, <1>5, <2>1, ComparingFacts
          DEF MemInv, RoundInv, Comparing, Scanning
<1> QED BY <1>2, <1>4, <1>6, StateFacts, WatcherMoves

\* What the walk looks at: an anchor of the memory at the greatest height left.
LEMMA WalkFacts ==
  ASSUME TypeInv, round.pc = "walk", round.todo # {}
  PROVE  /\ Highest(round.todo) \in round.todo /\ Highest(round.todo) \in Int
         /\ (CHOOSE a \in mem.anchors : a.height = Highest(round.todo)) \in mem.anchors
         /\ (CHOOSE a \in mem.anchors : a.height = Highest(round.todo)).height
              = Highest(round.todo)
<1>1. round.todo \subseteq {a.height : a \in mem.anchors} /\ round.todo \subseteq Heights
      /\ MaxHeight \in Nat /\ Heights \subseteq Int
  <2>1. ChainInv /\ round \in Rounds /\ RoundInv(round, mem)
    BY StateFacts
  <2>2. MaxHeight \in Nat
    BY <2>1, Bounds DEF ChainInv
  <2> QED BY <2>1, <2>2, FieldTypes DEF RoundInv, Heights
<1>2. Highest(round.todo) \in round.todo
  BY <1>1, HighestIn
<1>3. \E a \in mem.anchors : a.height = Highest(round.todo)
  BY <1>1, <1>2
<1> QED BY <1>1, <1>2, <1>3

\* An anchor is compared: the walk goes on, or the cursor falls back to it.
LEMMA WalkTypes ==
  ASSUME TypeInv, WalkAnchors
  PROVE  TypeInv'
<1>0. round.pc = "walk" /\ round.todo # {} /\ round.pc \in Comparing
  BY DEF WalkAnchors, Comparing
<1>a. PICK h, anchor : /\ h = Highest(round.todo)
                       /\ anchor = CHOOSE a \in mem.anchors : a.height = h
  OBVIOUS
<1>1. h \in Int /\ anchor \in mem.anchors /\ anchor.height = h
  BY <1>0, <1>a, WalkFacts
<1>2. Frame /\ UNCHANGED <<handled, file, faults>>
  BY DEF WalkAnchors, Frame
<1>3. PICK b \in ReadHash(h) :
        /\ Recall(h, b)
        /\ IF b = anchor.hash
           THEN /\ mem' = [mem EXCEPT !.hash = HashAfterRollback(b),
                                      !.anchors = {a \in @ : a.height <= h}]
                /\ EnterRange(h + 1, round.to)
           ELSE /\ round' = [round EXCEPT !.todo = @ \ {h}]
                /\ UNCHANGED mem
  BY <1>a DEF WalkAnchors
<1>4. b \in 0 .. minted /\ unread' \in BOOLEAN
  BY <1>3, ReadFacts
<1>5. CASE b = anchor.hash
  <2> DEFINE A == {a \in mem.anchors : a.height <= h}
             m == [mem EXCEPT !.hash = b, !.anchors = A]
  <2>1. mem' = m /\ EnterRange(h + 1, round.to)
    BY <1>3, <1>5 DEF HashAfterRollback
  <2>2. /\ m \in Mems /\ m.next = mem.next /\ m.hash = b /\ m.anchors = A
        /\ m.restored /\ m.adopted = mem.adopted
    BY <1>0, <1>4, ComparingFacts DEF Mems
  <2>3. A \subseteq mem.anchors /\ \A a \in A : a.height < h + 1 /\ Floor <= h
    BY <1>0, <1>1, ComparingFacts
  <2> HIDE DEF A, m
  <2>4. CursorInv(m)
    <3>1. ReorgWindow \in Nat
      BY <1>0, ComparingFacts, Bounds DEF ChainInv
    <3>2. AnchorsInv(A, mem.next - 1)
      BY <1>0, <2>3, <3>1, ComparingFacts, FewerAnchors DEF CursorInv
    <3> QED BY <1>0, <2>2, <3>2, ComparingFacts DEF CursorInv
  <2>5. HashCurrent(m)
    BY <1>0, StateFacts DEF HashCurrent, RoundInv
  <2>6. PICK r \in Rounds : round' = r /\ RoundInv(r, m) /\ MemInv(m, r)
    <3>1. h + 1 \in Int /\ Floor <= h + 1 /\ \A a \in m.anchors : a.height < h + 1
      BY <1>0, <1>1, <2>2, <2>3, ComparingFacts
    <3> QED BY <1>0, <2>1, <2>2, <3>1, ComparingFacts, EnterRangeTypes
  <2> QED BY <1>2, <1>4, <2>1, <2>2, <2>4, <2>5, <2>6, StateFacts, WatcherMoves
<1>6. CASE b # anchor.hash
  <2> DEFINE r == [round EXCEPT !.todo = @ \ {h}]
  <2>1. /\ r \in Rounds /\ r.pc = round.pc /\ r.from = round.from /\ r.to = round.to
        /\ r.todo = round.todo \ {h}
    BY StateFacts DEF Rounds
  <2>2. round' = r /\ mem' = mem
    BY <1>3, <1>6
  <2> HIDE DEF r
  <2>3. MemInv(mem, r) /\ RoundInv(r, mem)
    BY <1>0, <2>1, StateFacts DEF MemInv, RoundInv, Comparing, Scanning
  <2> QED BY <1>2, <1>4, <2>1, <2>2, <2>3, StateFacts, WatcherMoves
<1> QED BY <1>5, <1>6

\* No anchor is left: the cursor falls back to the floor.
LEMMA RescanTypes ==
  ASSUME TypeInv, RescanFromFloor
  PROVE  TypeInv'
<1>0. round.pc \in Comparing
  BY DEF RescanFromFloor, Comparing
<1>1. Frame /\ UNCHANGED <<handled, file, faults, unread>>
  BY DEF RescanFromFloor, Frame
<1> DEFINE m == [mem EXCEPT !.anchors = {}, !.hash = NoHash]
<1>2. mem' = m /\ EnterRange(Floor, round.to)
  BY DEF RescanFromFloor
<1>3. /\ m \in Mems /\ m.next = mem.next /\ m.hash = NoHash /\ m.anchors = {}
      /\ m.restored /\ m.adopted = mem.adopted
  <2>1. NoHash \in 0 .. minted
    BY <1>0, ComparingFacts, ChainFacts DEF NoHash
  <2> QED BY <1>0, <2>1, ComparingFacts DEF Mems
<1> HIDE DEF m
<1>4. CursorInv(m) /\ HashCurrent(m)
  <2>1. ReorgWindow \in Nat
    BY <1>0, ComparingFacts, Bounds DEF ChainInv
  <2> QED BY <1>0, <1>3, <2>1, ComparingFacts, NoAnchors DEF CursorInv, HashCurrent
<1>5. PICK r \in Rounds : round' = r /\ RoundInv(r, m) /\ MemInv(m, r)
  BY <1>0, <1>2, <1>3, ComparingFacts, EnterRangeTypes
<1> QED BY <1>1, <1>2, <1>3, <1>4, <1>5, StateFacts, WatcherMoves

\* A round that scans works on blocks of the chain, none of them anchored before.
LEMMA ScanningFacts ==
  ASSUME TypeInv, round.pc \in Scanning
  PROVE  /\ ChainInv /\ mem \in Mems /\ file \in Files /\ round \in Rounds
         /\ CursorInv(mem) /\ MemInv(mem, round) /\ RoundInv(round, mem)
         /\ Floor \in Nat /\ Tip \in 0 .. MaxHeight /\ MaxHeight \in Nat
         /\ round.from \in Nat /\ round.to \in Nat
         /\ Floor <= round.from /\ round.from <= round.to /\ round.to <= Tip
         /\ round.from .. round.to \subseteq Heights
         /\ round.from .. round.to \subseteq Floor .. round.to
         /\ \A h \in round.from .. round.to : h \in 0 .. Tip /\ BlockAt(h) \in 1 .. minted
         /\ \A a \in mem.anchors : a.height < round.from
<1>1. /\ ChainInv /\ mem \in Mems /\ file \in Files /\ round \in Rounds
      /\ CursorInv(mem) /\ MemInv(mem, round) /\ RoundInv(round, mem)
  BY StateFacts
<1>2. Floor \in Nat /\ Tip \in 0 .. MaxHeight /\ MaxHeight \in Nat
  BY <1>1, ChainFacts, Bounds DEF ChainInv
<1>3. /\ round.from \in Int /\ round.to \in Int
      /\ Floor <= round.from /\ round.from <= round.to /\ round.to <= Tip
      /\ \A a \in mem.anchors : a.height < round.from
  BY <1>1, FieldTypes DEF RoundInv
<1>4. /\ round.from \in Nat /\ round.to \in Nat
      /\ round.from .. round.to \subseteq 0 .. Tip
      /\ round.from .. round.to \subseteq Floor .. round.to
      /\ 0 .. Tip \subseteq Heights
  BY <1>2, <1>3 DEF Heights
<1>5. \A h \in round.from .. round.to : h \in 0 .. Tip /\ BlockAt(h) \in 1 .. minted
  BY <1>1, <1>4, ChainFacts
<1> QED BY <1>1, <1>2, <1>3, <1>4, <1>5

\* The scan goes on: only the locals of the round move.
LEMMA ScanMoves ==
  ASSUME TypeInv, round.pc \in Scanning, Frame, UNCHANGED <<file, mem, faults>>,
         handled' \subseteq 1 .. minted, unread' \in BOOLEAN,
         NEW r \in Rounds, round' = r, r.pc \in Scanning, RoundInv(r, mem)
  PROVE  TypeInv'
<1>1. MemInv(mem, r)
  BY StateFacts DEF MemInv, Scanning
<1> QED BY <1>1, StateFacts, WatcherMoves

\* The logs of a range are those of the chain.
LEMMA LogsOfAnchors ==
  ASSUME ChainInv, NEW g \in [from : Int, to : Int], 0 <= g.from
  PROVE  LogsOf(g) \subseteq Anchors
<1> SUFFICES ASSUME NEW h \in g.from .. g.to, h <= Tip
             PROVE  Anchor(h, BlockAt(h)) \in Anchors
  BY DEF LogsOf
<1>1. Tip \in 0 .. MaxHeight /\ MaxHeight \in Nat
  BY ChainFacts, Bounds DEF ChainInv
<1>2. h \in Int /\ 0 <= h
  OBVIOUS
<1>3. h \in 0 .. Tip
  BY <1>1, <1>2
<1>4. h \in Heights /\ BlockAt(h) \in 1 .. minted
  BY <1>1, <1>3, ChainFacts DEF Heights
<1> QED BY <1>4 DEF Anchor, Anchors

\* The logs of a range arrive.
LEMMA GetLogsTypes ==
  ASSUME TypeInv, NEW g \in round.ranges, GetLogs(g)
  PROVE  TypeInv'
<1> DEFINE R == round.ranges \ {g}
           L == round.logs \cup LogsOf(g)
           s == IF round.ranges # {g} THEN "logs" ELSE "handle"
           r == [round EXCEPT !.ranges = R, !.logs = L, !.pc = s]
<1>0. round.pc = "logs" /\ round.pc \in Scanning
  BY DEF GetLogs, Scanning
<1>1. Frame /\ UNCHANGED <<handled, file, mem, faults, unread>>
  BY DEF GetLogs, Frame
<1>2. round' = r
  BY <1>0, ScanningFacts DEF GetLogs, Rounds
<1>3. /\ g \in [from : Int, to : Int] /\ 0 <= g.from
      /\ R \subseteq [from : Int, to : Int] /\ round.logs \subseteq Anchors
  <2>1. round.ranges \subseteq [from : Int, to : Int] /\ round.logs \subseteq Anchors
    BY <1>0, ScanningFacts DEF Rounds
  <2>2. round.from <= g.from /\ round.from \in Nat
    BY <1>0, ScanningFacts DEF RoundInv
  <2>3. g \in [from : Int, to : Int] /\ g.from \in Int
    BY <2>1
  <2> QED BY <2>1, <2>2, <2>3
<1>4. L \subseteq Anchors
  BY <1>0, <1>3, ScanningFacts, LogsOfAnchors
<1> HIDE DEF R, L
<1>5. /\ r \in Rounds /\ r.pc \in {"logs", "handle"} /\ r.from = round.from
      /\ r.to = round.to /\ r.ranges = R /\ r.logs = L /\ r.hash = round.hash
  BY <1>0, <1>3, <1>4, ScanningFacts DEF Rounds, Scanning
<1> HIDE DEF r
<1>6. RoundInv(r, mem)
  <2>1. R \subseteq round.ranges
    BY DEF R
  <2> QED BY <1>0, <1>5, <2>1, ScanningFacts DEF RoundInv, Comparing, Scanning
<1>7. r.pc \in Scanning
  BY <1>5 DEF Scanning
<1> QED BY <1>0, <1>1, <1>2, <1>5, <1>6, <1>7, StateFacts, ScanMoves

\* The log handled next is one of those at hand.
LEMMA LogFacts ==
  ASSUME TypeInv, round.logs # {}
  PROVE  (CHOOSE l \in round.logs : l.height = Lowest({k.height : k \in round.logs}))
           \in round.logs
<1> DEFINE S == {k.height : k \in round.logs}
<1>1. round.logs \subseteq Anchors
  BY StateFacts DEF Rounds
<1>2. S \in SUBSET Nat /\ S # {}
  BY <1>1, StateFacts, FieldTypes
<1>3. Lowest(S) \in S
  BY <1>2, LowestIn
<1> QED BY <1>3

\* A log is handled.
LEMMA HandleLogTypes ==
  ASSUME TypeInv, HandleLog
  PROVE  TypeInv'
<1>0. round.pc = "handle" /\ round.pc \in Scanning /\ round.logs # {}
  BY DEF HandleLog, Scanning
<1>1. PICK log : /\ log = CHOOSE l \in round.logs :
                            l.height = Lowest({k.height : k \in round.logs})
  OBVIOUS
<1>2. log \in round.logs /\ log.hash \in 1 .. minted
  <2>1. log \in round.logs
    BY <1>0, <1>1, LogFacts
  <2>2. round.logs \subseteq Anchors
    BY StateFacts DEF Rounds
  <2> QED BY <2>1, <2>2, StateFacts, FieldTypes
<1> DEFINE r == [round EXCEPT !.logs = @ \ {log}]
<1>3. /\ round' = r /\ handled' = handled \cup {log.hash} /\ Frame
      /\ UNCHANGED <<file, mem, faults, unread>>
  BY <1>1 DEF HandleLog, Frame
<1>4. /\ r \in Rounds /\ r.pc = "handle" /\ r.from = round.from /\ r.to = round.to
      /\ r.hash = round.hash
  BY <1>0, ScanningFacts DEF Rounds
<1> HIDE DEF r
<1>5. RoundInv(r, mem)
  BY <1>0, <1>4, ScanningFacts DEF RoundInv, Comparing, Scanning
<1>6. r.pc \in Scanning /\ handled' \subseteq 1 .. minted
  BY <1>2, <1>3, <1>4, StateFacts DEF Scanning
<1> QED BY <1>0, <1>3, <1>4, <1>5, <1>6, StateFacts, ScanMoves

\* All logs were handled: the anchors of the range are next.
LEMMA LogsHandledTypes ==
  ASSUME TypeInv, LogsHandled
  PROVE  TypeInv'
<1> DEFINE T == CheckpointAnchorHeights(round.from, round.to)
           r == [round EXCEPT !.pc = "anchors", !.anchors = mem.anchors, !.todo = T]
<1>0. round.pc = "handle" /\ round.pc \in Scanning
  BY DEF LogsHandled, Scanning
<1>1. Frame /\ UNCHANGED <<handled, file, mem, faults, unread>> /\ round' = r
  BY DEF LogsHandled, Frame
<1>2. T \subseteq round.from .. round.to /\ T \subseteq Heights
  BY <1>0, ScanningFacts DEF CheckpointAnchorHeights
<1> HIDE DEF T
<1>3. /\ r \in Rounds /\ r.pc = "anchors" /\ r.from = round.from /\ r.to = round.to
      /\ r.todo = T /\ r.anchors = mem.anchors /\ r.hash = round.hash
  <2>1. mem.anchors \subseteq Anchors /\ round \in Rounds
    BY StateFacts, FieldTypes
  <2> QED BY <1>2, <2>1 DEF Rounds, Scanning
<1> HIDE DEF r
<1>4. AnchorsInv(mem.anchors, round.to)
  <2>1. AnchorsInv(mem.anchors, mem.next - 1)
    BY StateFacts DEF CursorInv
  <2>2. \A a \in mem.anchors : a.height \in Floor .. round.to
    <3>1. \A a \in mem.anchors : a.height \in Nat /\ a.height < round.from
      BY <1>0, ScanningFacts, FieldTypes
    <3>2. mem.next \in Int /\ \A a \in mem.anchors : a.height \in Floor .. mem.next - 1
      BY <1>0, <2>1, ScanningFacts, FieldTypes DEF AnchorsInv
    <3> QED BY <1>0, <3>1, <3>2, ScanningFacts
  <2> QED BY <2>1, <2>2 DEF AnchorsInv
<1>5. RoundInv(r, mem)
  BY <1>0, <1>2, <1>3, <1>4, ScanningFacts DEF RoundInv, Comparing, Scanning
<1>6. r.pc \in Scanning
  BY <1>3 DEF Scanning
<1> QED BY <1>0, <1>1, <1>3, <1>5, <1>6, StateFacts, ScanMoves


\* What the round reads for an anchor is the hash of a block it scanned, or nothing.
LEMMA AnchorReadFacts ==
  ASSUME TypeInv, round.pc = "anchors", round.todo # {}
  PROVE  /\ Highest(round.todo) \in round.todo
         /\ Highest(round.todo) \in round.from .. round.to
         /\ Highest(round.todo) \in Heights /\ Highest(round.todo) \in Floor .. round.to
<1>1. /\ round.todo \subseteq round.from .. round.to
      /\ round.from .. round.to \subseteq Heights
      /\ round.from .. round.to \subseteq Floor .. round.to /\ MaxHeight \in Nat
  BY ScanningFacts DEF RoundInv, Scanning
<1>2. Highest(round.todo) \in round.todo
  BY <1>1, HighestIn
<1> QED BY <1>1, <1>2

\* An anchor is read and recorded, or skipped.
LEMMA ReadAnchorTypes ==
  ASSUME TypeInv, ReadAnchor
  PROVE  TypeInv'
<1>0. round.pc = "anchors" /\ round.pc \in Scanning /\ round.todo # {}
  BY DEF ReadAnchor, Scanning
<1>a. PICK h : h = Highest(round.todo)
  OBVIOUS
<1>1. h \in round.todo /\ h \in Floor .. round.to /\ h \in Heights
      /\ h \in round.from .. round.to
  BY <1>0, <1>a, AnchorReadFacts
<1>2. Frame /\ UNCHANGED <<handled, file, mem, faults>>
  BY DEF ReadAnchor, Frame
<1>3. PICK b \in ReadHash(h) :
        /\ Recall(h, b)
        /\ round' = IF b = NoHash THEN [round EXCEPT !.todo = @ \ {h}]
                    ELSE [round EXCEPT
                      !.todo = @ \ {h},
                      !.anchors = RecordCheckpoint(@, h, b),
                      !.hash = IF h = round.to THEN b ELSE @]
  BY <1>a DEF ReadAnchor
<1>4. b \in {NoHash, BlockAt(h)} /\ b \in 0 .. minted /\ unread' \in BOOLEAN
  BY <1>3, ReadFacts
<1>5. CASE b = NoHash
  <2> DEFINE r == [round EXCEPT !.todo = @ \ {h}]
  <2>1. /\ r \in Rounds /\ r.pc = "anchors" /\ r.from = round.from /\ r.to = round.to
        /\ r.todo \subseteq round.todo /\ r.anchors = round.anchors /\ r.hash = round.hash
    BY <1>0, ScanningFacts DEF Rounds
  <2>2. round' = r
    BY <1>3, <1>5
  <2> HIDE DEF r
  <2>3. RoundInv(r, mem) /\ r.pc \in Scanning
    BY <1>0, <2>1, ScanningFacts DEF RoundInv, Comparing, Scanning
  <2> QED BY <1>0, <1>2, <1>4, <2>1, <2>2, <2>3, StateFacts, ScanMoves
<1>6. CASE b # NoHash
  <2> DEFINE A == RecordCheckpoint(round.anchors, h, b)
             k == IF h = round.to THEN b ELSE round.hash
             r == [round EXCEPT !.todo = @ \ {h}, !.anchors = A, !.hash = k]
  <2>0. b = BlockAt(h) /\ b \in 1 .. minted /\ Anchor(h, b) \in Anchors
    BY <1>0, <1>1, <1>4, <1>6, ScanningFacts DEF Anchor, Anchors
  <2>1. AnchorsInv(A, round.to) /\ A \subseteq round.anchors \cup {Anchor(h, b)}
    <3>1. AnchorsInv(round.anchors, round.to) /\ round.to \in Int /\ config \in Deployments
      BY <1>0, ScanningFacts DEF RoundInv, ChainInv
    <3> QED BY <1>1, <3>1, RecordKeeps
  <2>2. A \subseteq Anchors
    <3>1. round.anchors \subseteq Anchors
      BY StateFacts DEF Rounds
    <3> QED BY <2>0, <2>1, <3>1
  <2>3. k \in {NoHash, BlockAt(round.to)} /\ k \in 0 .. minted
    <3>1. round.hash \in {NoHash, BlockAt(round.to)} /\ round.hash \in 0 .. minted
      BY <1>0, ScanningFacts DEF RoundInv, Rounds
    <3> QED BY <1>4, <2>0, <3>1
  <2>4. round' = r
    BY <1>3, <1>6
  <2> HIDE DEF A, k
  <2>5. /\ r \in Rounds /\ r.pc = "anchors" /\ r.from = round.from /\ r.to = round.to
        /\ r.todo \subseteq round.todo /\ r.anchors = A /\ r.hash = k
    BY <1>0, <2>2, <2>3, ScanningFacts DEF Rounds
  <2> HIDE DEF r
  <2>6. RoundInv(r, mem) /\ r.pc \in Scanning
    BY <1>0, <2>1, <2>3, <2>5, ScanningFacts DEF RoundInv, Comparing, Scanning
  <2> QED BY <1>0, <1>2, <1>4, <2>4, <2>5, <2>6, StateFacts, ScanMoves
<1> QED BY <1>5, <1>6

\* What a round saves are the locals it ends with.
LEMMA SaveFacts ==
  ASSUME TypeInv, SaveCursor
  PROVE  \E m \in Mems, f \in Files :
           /\ mem' = m /\ file' = f
           /\ m.next = round.to + 1 /\ m.hash = round.hash /\ m.anchors = round.anchors
           /\ f.next = round.to + 1 /\ f.hash = round.hash /\ f.anchors = round.anchors
           /\ m.restored /\ m.next # NoBlock
<1> DEFINE m == [mem EXCEPT !.next = round.to + 1, !.hash = round.hash,
                            !.anchors = round.anchors]
           f == [next |-> round.to + 1, hash |-> round.hash,
                 anchors |-> round.anchors, genesis |-> mem.genesis]
<1>0. round.pc = "anchors" /\ round.pc \in Scanning
  BY DEF SaveCursor, Scanning
<1>1. mem' = m /\ file' = f
  BY DEF SaveCursor, RoundHash
<1>2. round.to + 1 \in 1 .. MaxHeight + 1 /\ round.to + 1 # NoBlock
  <2>1. round.to \in Nat /\ round.to <= MaxHeight /\ MaxHeight \in Nat
    BY <1>0, ScanningFacts
  <2> QED BY <2>1 DEF NoBlock
<1>3. round.hash \in 0 .. minted /\ round.anchors \subseteq Anchors
      /\ mem.genesis \in 0 .. minted
  BY StateFacts DEF Rounds, Mems
<1>4. m \in Mems /\ m.next = round.to + 1 /\ m.hash = round.hash
      /\ m.anchors = round.anchors /\ m.restored = mem.restored
  BY <1>2, <1>3, StateFacts DEF Mems
<1>5. f \in Files
  BY <1>2, <1>3 DEF Files
<1>6. mem.restored
  BY <1>0, ScanningFacts DEF MemInv
<1> QED BY <1>1, <1>2, <1>4, <1>5, <1>6

\* The cursor moves behind the range of the round.
LEMMA SaveTypes ==
  ASSUME TypeInv, SaveCursor
  PROVE  TypeInv'
<1>0. round.pc = "anchors" /\ round.pc \in Scanning
  BY DEF SaveCursor, Scanning
<1>1. PICK m \in Mems, f \in Files :
        /\ mem' = m /\ file' = f
        /\ m.next = round.to + 1 /\ m.hash = round.hash /\ m.anchors = round.anchors
        /\ f.next = round.to + 1 /\ f.hash = round.hash /\ f.anchors = round.anchors
        /\ m.restored /\ m.next # NoBlock
  BY SaveFacts
<1>2. Frame /\ UNCHANGED <<handled, faults, unread>> /\ round' = IdleRound
  BY DEF SaveCursor, Frame
<1>3. /\ AnchorsInv(round.anchors, round.to) /\ round.hash \in {NoHash, BlockAt(round.to)}
      /\ round.to \in Int /\ Floor \in Int /\ Floor <= round.to
  BY <1>0, ScanningFacts DEF RoundInv
<1>4. round.to + 1 - 1 = round.to /\ round.to + 1 > Floor
  BY <1>3
<1>5. CursorInv(m) /\ CursorInv(f)
  BY <1>1, <1>3, <1>4 DEF CursorInv
<1>6. HashCurrent(m) /\ HashCurrent(f)
  BY <1>1, <1>3, <1>4 DEF HashCurrent
<1>7. MemInv(m, IdleRound) /\ RoundInv(IdleRound, m) /\ IdleRound \in Rounds
  BY <1>1, StateFacts, StartTypes DEF MemInv, Before
<1> QED BY <1>1, <1>2, <1>5, <1>6, <1>7, StateFacts, WatcherMoves

\* A round that fails leaves what memory holds.
LEMMA RoundFailsTypes ==
  ASSUME TypeInv, RoundFails
  PROVE  TypeInv'
<1>1. Frame /\ UNCHANGED <<handled, file, mem, unread>> /\ round' = IdleRound
  BY DEF RoundFails, Frame
<1>2. faults' \in 0 .. FaultBound
  BY StateFacts DEF RoundFails
<1>3. MemInv(mem, IdleRound) /\ RoundInv(IdleRound, mem) /\ IdleRound \in Rounds
  BY StateFacts, StartTypes DEF MemInv, Before
<1> QED BY <1>1, <1>2, <1>3, StateFacts, WatcherMoves

\* A process that dies leaves the file.
LEMMA CrashTypes ==
  ASSUME TypeInv, Crash
  PROVE  TypeInv'
<1>1. /\ Frame /\ UNCHANGED <<handled, file, unread>>
      /\ round' = IdleRound /\ mem' = FreshMemory
  BY DEF Crash, Frame
<1>2. faults' \in 0 .. FaultBound
  BY StateFacts DEF Crash
<1>3. /\ FreshMemory \in Mems /\ IdleRound \in Rounds /\ CursorInv(FreshMemory)
      /\ HashCurrent(FreshMemory) /\ MemInv(FreshMemory, IdleRound)
      /\ RoundInv(IdleRound, FreshMemory)
  BY StateFacts, StartTypes DEF Before
<1> QED BY <1>1, <1>2, <1>3, StateFacts, WatcherMoves

\* The chain begins with its genesis block, and the watcher with nothing.
LEMMA InitTypes ==
  ASSUME Init
  PROVE  TypeInv
<1>1. ChainInv
  <2>1. config \in Deployments /\ minted = 1 /\ chain = <<1>> /\ handled = {}
        /\ reorgs = 0 /\ faults = 0 /\ unread = FALSE
    BY DEF Init
  <2>2. MaxHeight \in Nat /\ ReorgBound \in Nat /\ FaultBound \in Nat
    BY <2>1, Bounds
  <2>3. chain \in Seq(1 .. minted) /\ Len(chain) = 1
    BY <2>1
  <2>4. \A i, j \in 1 .. Len(chain) : chain[i] = chain[j] => i = j
    BY <2>3
  <2>5. minted \in Nat /\ reorgs \in 0 .. ReorgBound /\ faults \in 0 .. FaultBound
    BY <2>1, <2>2
  <2>8. unread \in BOOLEAN /\ handled \subseteq 1 .. minted
    BY <2>1
  <2>7. Len(chain) \in 1 .. MaxHeight + 1
    BY <2>2, <2>3
  <2>6. config \in Deployments /\ chain \in Seq(1 .. minted)
    BY <2>1, <2>3
  <2> QED BY <2>4, <2>5, <2>6, <2>7, <2>8 DEF ChainInv
<1>2. file = NoCursor /\ mem = FreshMemory /\ round = IdleRound
  BY DEF Init
<1>3. PICK m, f, r : m = mem /\ f = file /\ r = round
  OBVIOUS
<1> QED BY <1>1, <1>2, StartTypes DEF TypeInv, Before

\* Every step keeps the first layer.
LEMMA TypeStep ==
  ASSUME TypeInv, [Next]_vars
  PROVE  TypeInv'
<1>1. CASE RoundStep
  BY <1>1, WakeTypes, RestoreTypes, OvershootTypes, ReadHeadTypes, ContinuityTypes,
     DetectedTypes, WalkTypes, RescanTypes, GetLogsTypes, HandleLogTypes,
     LogsHandledTypes, ReadAnchorTypes, SaveTypes DEF RoundStep
<1>2. CASE ChainStep
  BY <1>2, ChainStepKeeps, ChainMoves
<1>3. CASE RoundFails
  BY <1>3, RoundFailsTypes
<1>4. CASE Crash
  BY <1>4, CrashTypes
<1>5. CASE UNCHANGED vars
  <2>1. /\ Frame /\ UNCHANGED <<handled, faults, unread>>
        /\ UNCHANGED <<mem, file, round>>
    BY <1>5 DEF vars, Frame
  <2> QED BY <2>1, StateFacts, WatcherMoves
<1> QED BY <1>1, <1>2, <1>3, <1>4, <1>5 DEF Next

\* The first layer holds of every deployment.
LEMMA TypesAlways ==
  Spec => []TypeInv
<1>1. Init => TypeInv
  BY InitTypes
<1>2. TypeInv /\ [Next]_vars => TypeInv'
  BY TypeStep
<1> QED BY <1>1, <1>2, PTL DEF Spec

\* What the watcher answers for begins where its first cursor is saved from.
LEMMA StartStep ==
  ASSUME TypeInv, StartInv, [Next]_vars
  PROVE  StartInv'
<1>1. CASE SaveCursor
  <2>1. round.from \in Nat /\ Floor <= round.from /\ round.pc \in Scanning
    BY <1>1, ScanningFacts DEF SaveCursor, Scanning
  <2>2. /\ config' = config /\ start' = IF mem.next = NoBlock THEN round.from ELSE start
        /\ round' = IdleRound
    BY <1>1 DEF SaveCursor
  <2>3. round'.pc \notin Scanning
    BY <2>2 DEF IdleRound, Scanning
  <2> QED BY <2>1, <2>2, <2>3 DEF StartInv, Floor, Configured
<1>2. ASSUME ~SaveCursor PROVE UNCHANGED <<config, start>>
  BY <1>2 DEF Next, RoundStep, ChainStep, Wake, RestoreCursor, CorrectOvershoot, ReadHead,
         ContinuityHolds, ReorgDetected, WalkAnchors, RescanFromFloor, GetLogs, HandleLog,
         LogsHandled, ReadAnchor, RoundFails, Crash, Mine, Reorg, vars
<1>3. ASSUME ~SaveCursor, Configured, mem'.next = NoBlock, round'.pc \in Scanning
      PROVE  round'.from = Floor
  <2>1. ASSUME NEW from, NEW to, EnterRange(from, to) PROVE round'.from = from
    <3>1. ~(from > to)
      BY <1>3, <2>1 DEF EnterRange, IdleRound, Scanning
    <3> QED BY <2>1, <3>1 DEF EnterRange, IdleRound
  <2>2. CASE Wake \/ RestoreCursor \/ ReorgDetected \/ RoundFails \/ Crash
    <3>1. CASE Wake
      BY <1>3, <3>1 DEF Wake, IdleRound, Scanning
    <3>2. CASE RestoreCursor \/ ReorgDetected
      <4>1. round'.pc = "head" \/ round'.pc = "walk"
        BY <3>2, StateFacts DEF RestoreCursor, ReorgDetected, Rounds
      <4> QED BY <1>3, <4>1 DEF Scanning
    <3>3. CASE RoundFails \/ Crash
      BY <1>3, <3>3 DEF RoundFails, Crash, IdleRound, Scanning
    <3> QED BY <2>2, <3>1, <3>2, <3>3
  <2>3. CASE CorrectOvershoot \/ RescanFromFloor
    <3>1. round' # IdleRound
      BY <1>3 DEF IdleRound, Scanning
    <3>2. EnterRange(Floor, FinalizedHead) \/ EnterRange(Floor, round.to)
      BY <2>3, <3>1 DEF CorrectOvershoot, RescanFromFloor
    <3> QED BY <2>1, <3>2
  <2>4. CASE ReadHead
    <3>1. CursorPosition = Floor
      BY <1>3, <2>4 DEF ReadHead, CursorPosition, Floor
    <3>2. EnterRange(CursorPosition, FinalizedHead)
      BY <1>3, <2>4, StateFacts DEF ReadHead, Rounds, Scanning
    <3> QED BY <2>1, <3>1, <3>2
  <2>5. CASE ContinuityHolds \/ WalkAnchors
    <3>1. mem.next # NoBlock /\ mem \in Mems
      BY <2>5, ComparingFacts DEF ContinuityHolds, WalkAnchors, Comparing
    <3>2. mem'.next = mem.next
      BY <2>5, <3>1 DEF ContinuityHolds, WalkAnchors, Mems
    <3> QED BY <1>3, <3>1, <3>2
  <2>6. CASE (\E g \in round.ranges : GetLogs(g)) \/ HandleLog \/ LogsHandled \/ ReadAnchor
    <3>1. round.pc \in Scanning /\ mem' = mem
      BY <2>6 DEF GetLogs, HandleLog, LogsHandled, ReadAnchor, Scanning
    <3>2. round'.from = round.from
      BY <2>6, StateFacts DEF GetLogs, HandleLog, LogsHandled, ReadAnchor, Rounds
    <3> QED BY <1>3, <3>1, <3>2 DEF StartInv
  <2>7. CASE ChainStep \/ UNCHANGED vars
    <3>1. mem' = mem /\ round' = round
      BY <2>7 DEF ChainStep, Mine, Reorg, vars
    <3> QED BY <1>3, <3>1 DEF StartInv
  <2> QED BY <1>3, <2>2, <2>3, <2>4, <2>5, <2>6, <2>7 DEF Next, RoundStep
<1>4. ASSUME ~SaveCursor PROVE StartInv'
  <2>1. Floor' = Floor /\ (Configured <=> Configured') /\ start' = start
    BY <1>2, <1>4 DEF Floor, Configured
  <2> QED BY <1>3, <1>4, <2>1 DEF StartInv
<1> QED BY <1>1, <1>4

\* A watcher starts at its floor.
LEMMA StartsAtFloor ==
  ASSUME Init
  PROVE  StartInv
<1>1. Floor \in Nat /\ start = Floor
  BY Bounds DEF Init
<1>2. round.pc \notin Scanning
  BY DEF Init, IdleRound, Scanning
<1> QED BY <1>1, <1>2 DEF StartInv

\* A watcher never answers for less than its configuration says.
LEMMA StartAlways ==
  Spec => []StartInv
<1>1. Init => StartInv
  BY StartsAtFloor
<1>2. TypeInv /\ StartInv /\ [Next]_vars => StartInv'
  BY StartStep
<1> QED BY <1>1, <1>2, TypesAlways, PTL DEF Spec

\* The variables of a watcher always have their types; no more anchors are kept than
\* the window asks for, and each lies within the chain's heights.
THEOREM TypeCorrect ==
  Spec => []TypeOK
<1>1. TypeInv /\ StartInv => TypeOK
  <2> SUFFICES ASSUME TypeInv, StartInv PROVE TypeOK
    OBVIOUS
  <2>1. /\ ChainInv /\ mem \in Mems /\ file \in Files /\ round \in Rounds
        /\ CursorInv(mem)
    BY StateFacts
  <2>2. /\ config \in Deployments /\ minted \in Nat /\ handled \subseteq 1 .. minted
        /\ reorgs \in 0 .. ReorgBound /\ faults \in 0 .. FaultBound /\ unread \in BOOLEAN
        /\ MaxHeight \in Nat
    BY <2>1, Bounds DEF ChainInv
  <2>3. \A h \in 0 .. Tip : BlockAt(h) \in 1 .. minted
    BY <2>1, ChainFacts
  <2>4. {file.next, mem.next} \subseteq NoBlock .. MaxHeight + 1
    <3>1. {NoBlock} \cup 1 .. MaxHeight + 1 \subseteq NoBlock .. MaxHeight + 1
      BY <2>2 DEF NoBlock
    <3> QED BY <2>1, <3>1 DEF Mems, Files
  <2>5. {file.hash, mem.hash, file.genesis, mem.genesis} \subseteq 0 .. minted
    BY <2>1 DEF Mems, Files
  <2>6. \A a \in file.anchors \cup mem.anchors \cup round.anchors :
          a.height \in 0 .. MaxHeight /\ a.hash \in 1 .. minted
    <3>1. file.anchors \cup mem.anchors \cup round.anchors \subseteq Anchors
      BY <2>1 DEF Mems, Files, Rounds
    <3> QED BY <3>1 DEF Anchors, Heights
  <2>7. Cardinality(mem.anchors) <= ReorgWindow
    BY <2>1 DEF CursorInv, AnchorsInv
  <2>8. round.pc \in {"idle", "restore", "head", "continuity", "walk", "logs",
                      "handle", "anchors"}
    BY <2>1 DEF Rounds, Before, Comparing, Scanning
  <2> QED BY <2>2, <2>3, <2>4, <2>5, <2>6, <2>7, <2>8 DEF TypeOK, StartInv
<1> QED BY <1>1, TypesAlways, StartAlways, PTL

\* "a false-reorg loop" (the comment on the round's hash) cannot happen: unless the
\* chain reorganised, the continuity check never rolls the cursor back.  Whatever
\* could not be read, and whatever failed, a hash that is remembered is the hash of
\* the block right below the cursor.
THEOREM NoFalseReorgEver ==
  Spec => []NoFalseReorg
<1>1. TypeInv => NoFalseReorg
  BY StateFacts DEF RoundInv, NoFalseReorg
<1> QED BY <1>1, TypesAlways, PTL

(***************************************************************************)
(* The second layer: what the hash and the anchors of a cursor vouch for.  *)
(***************************************************************************)
\* What each step must establish of the new locals m, f and r.
LEMMA SoundMoves ==
  ASSUME NEW m, NEW f, NEW r, mem' = m, file' = f, round' = r,
         CursorSound(f)', CursorSound(m)', m.anchors \subseteq f.anchors,
         HashlessFile(f)', HashlessMem(m, r)', RoundSound(r, m)'
  PROVE  Sound'
BY DEF Sound

\* What was true over a chain that stands still stays true, while logs are handled and
\* reads fail.
LEMMA SoundStays ==
  ASSUME Frame, start' = start, handled \subseteq handled', unread => unread'
  PROVE  /\ \A h : ScannedUpTo(h) => ScannedUpTo(h)'
         /\ \A b : Vouches(b) => Vouches(b)'
         /\ \A c : CursorSound(c) => CursorSound(c)'
         /\ \A c : HashlessFile(c) => HashlessFile(c)'
         /\ \A m, r : HashlessMem(m, r) => HashlessMem(m, r)'
         /\ \A r, m : RoundSound(r, m) => RoundSound(r, m)'
<1>0. /\ Floor' = Floor /\ start' = start /\ Faults' = Faults /\ Tip' = Tip
      /\ FinalizedHead' = FinalizedHead /\ (Deep <=> Deep')
      /\ \A h : BlockAt(h)' = BlockAt(h)
      /\ reorgs' = reorgs /\ chain' = chain
  BY FrameFacts DEF Frame
<1>1. \A h : ScannedUpTo(h) => ScannedUpTo(h)'
  BY <1>0 DEF ScannedUpTo
<1>2. \A b : Vouches(b) => Vouches(b)'
  BY <1>0, <1>1 DEF Vouches
<1>3. \A a : Canonical(a) <=> Canonical(a)'
  BY <1>0 DEF Canonical
<1>4. \A c : HasAncestor(c) => HasAncestor(c)'
  BY <1>0, <1>3 DEF HasAncestor
<1>5. \A c : CursorSound(c) => CursorSound(c)'
  BY <1>0, <1>1, <1>2, <1>4 DEF CursorSound
<1>6. \A c : TrueOutright(c) => TrueOutright(c)'
  BY <1>0, <1>1 DEF TrueOutright
<1>7. \A c : Hashless(c) <=> Hashless(c)'
  BY DEF Hashless
<1>8. \A c : HashlessFile(c) => HashlessFile(c)'
  BY <1>6, <1>7 DEF HashlessFile
<1>9. \A m, r : HashlessMem(m, r) => HashlessMem(m, r)'
  BY <1>0, <1>6, <1>7 DEF HashlessMem
<1>10. \A r, h : (Asked(r, h) <=> Asked(r, h)') /\ (AtHand(r, h) <=> AtHand(r, h)')
  BY <1>0 DEF Asked, AtHand, Anchor
<1>11. ASSUME NEW r, NEW m, RoundSound(r, m) PROVE RoundSound(r, m)'
  <2>1. \A a : NewAnchor(r, a) => NewAnchor(r, a)'
    BY <1>3 DEF NewAnchor
  <2> QED BY <1>0, <1>1, <1>3, <1>10, <1>11, <2>1 DEF RoundSound
<1> QED BY <1>1, <1>2, <1>5, <1>8, <1>9, <1>11

\* A memory that stays what it is stays sound, when a round goes on or begins.
LEMMA Unmoved ==
  ASSUME Sound, Frame, start' = start, handled \subseteq handled', unread => unread',
         NEW r, round' = r, mem' = mem, file' = file,
         \/ r.pc \notin Before
         \/ round.pc \in Before
         \/ "round" \in Faults
         \/ ~Hashless(mem),
         RoundSound(r, mem) \/ \A m : m = mem => RoundSound(r, m)'
  PROVE  Sound'
<1>1. PICK m, f : m = mem /\ f = file
  OBVIOUS
<1>2. CursorSound(f)' /\ CursorSound(m)' /\ HashlessFile(f)' /\ m.anchors \subseteq f.anchors
  BY <1>1, SoundStays DEF Sound
<1>3. HashlessMem(m, r)'
  <2>1. HashlessMem(m, r)
    BY <1>1 DEF Sound, HashlessMem
  <2> QED BY <2>1, SoundStays
<1>4. RoundSound(r, m)'
  BY <1>1, SoundStays
<1>5. mem' = m /\ file' = f
  BY <1>1
<1> QED BY <1>2, <1>3, <1>4, <1>5, SoundMoves

\* A round that has not entered its range claims nothing.
LEMMA BeforeSound ==
  ASSUME NEW r, r.pc \in Before, NEW m
  PROVE  RoundSound(r, m) /\ RoundSound(r, m)'
BY DEF RoundSound, Before, Comparing, Scanning

\* No block is the block without a hash; an empty cursor claims nothing.
LEMMA EmptySound ==
  ASSUME ChainInv, NEW c, c.hash = NoHash, c.anchors = {},
         reorgs = 0 /\ c.next # NoBlock => c.next <= Len(chain) /\ ScannedUpTo(c.next - 1),
         "shrink" \notin Faults => c.next - 1 <= FinalizedHead
  PROVE  CursorSound(c)
<1>1. Vouches(NoHash)
  BY ChainFacts DEF Vouches, NoHash
<1> QED BY <1>1 DEF CursorSound, HasAncestor

\* The ranges of a scan cover it.
LEMMA RangesCover ==
  ASSUME Span \in Nat \ {0}, NEW from \in Int, NEW to \in Int, NEW h \in from .. to
  PROVE  \E g \in BlockRanges(from, to) : h \in g.from .. g.to
<1> DEFINE q == (h - from) \div Span
           k == (h - from) % Span
           s == h - k
           g == [from |-> s, to |-> IF s + Span - 1 < to THEN s + Span - 1 ELSE to]
<1>1. h - from \in Nat /\ Span \in Nat /\ Span > 0
  OBVIOUS
<1>2. h - from = Span * q + k /\ k \in 0 .. Span - 1 /\ q \in Nat
  BY <1>1
<1>3. s - from = Span * q /\ s \in from .. to /\ h \in s .. s + Span - 1
  BY <1>1, <1>2
<1>4. (s - from) % Span = 0
  <2>1. Span * q \in Nat /\ (Span * q) % Span = 0
    BY <1>1, <1>2
  <2> QED BY <1>3, <2>1
<1>5. g \in BlockRanges(from, to)
  BY <1>3, <1>4 DEF BlockRanges
<1>6. h \in g.from .. g.to
  BY <1>3
<1> QED BY <1>5, <1>6

\* A round that enters its range owes every block of it, and nothing below it.
LEMMA EnterRangeSound ==
  ASSUME ChainInv, NEW from \in Int, NEW to \in 0 .. Tip, NEW m, NEW r,
         r = IdleRound \/ ( /\ r.pc = "logs" /\ r.from = from /\ r.to = to /\ from <= to
                            /\ r.ranges = BlockRanges(from, to) ),
         m.next # NoBlock /\ from <= to => ScannedUpTo(from - 1),
         "shrink" \notin Faults => to <= FinalizedHead
  PROVE  RoundSound(r, m)
<1>0. Span \in Nat \ {0} /\ to \in Int
  BY ChainFacts, Bounds DEF ChainInv
<1>1. CASE r = IdleRound
  BY <1>1, StartTypes, BeforeSound DEF Before
<1>2. CASE /\ r.pc = "logs" /\ r.from = from /\ r.to = to /\ from <= to
           /\ r.ranges = BlockRanges(from, to)
  <2>1. \A h \in from .. to : Asked(r, h)
    <3> SUFFICES ASSUME NEW h \in from .. to
                 PROVE  \E g \in BlockRanges(from, to) : h \in g.from .. g.to
      BY <1>2 DEF Asked
    <3> QED BY <1>0, RangesCover
  <2> QED BY <1>2, <2>1 DEF RoundSound, Comparing, Scanning
<1> QED BY <1>1, <1>2

\* The two ways in which a round enters its range, with what it then owes.
LEMMA EnterRangeMoves ==
  ASSUME ChainInv, NEW from \in Int, NEW to \in 0 .. Tip, EnterRange(from, to), NEW m,
         m.next # NoBlock /\ from <= to => ScannedUpTo(from - 1),
         "shrink" \notin Faults => to <= FinalizedHead
  PROVE  \E r : /\ round' = r /\ RoundSound(r, m)
                /\ r.pc = "logs" \/ (r = IdleRound /\ from > to)
<1>0. to \in Int
  BY ChainFacts
<1>1. CASE from > to
  <2>1. round' = IdleRound
    BY <1>1 DEF EnterRange
  <2>2. RoundSound(IdleRound, m)
    BY <1>1, EnterRangeSound
  <2> QED BY <1>1, <2>1, <2>2
<1>2. CASE ~(from > to)
  <2> DEFINE R == BlockRanges(from, to)
             r == [IdleRound EXCEPT !.pc = "logs", !.from = from, !.to = to, !.ranges = R]
  <2> HIDE DEF R
  <2>1. r.pc = "logs" /\ r.from = from /\ r.to = to /\ r.ranges = R
    BY DEF IdleRound
  <2>2. round' = r
    BY <1>2 DEF EnterRange, R
  <2> HIDE DEF r
  <2>3. from <= to
    BY <1>0, <1>2
  <2>4. RoundSound(r, m)
    BY <2>1, <2>3, EnterRangeSound DEF R
  <2> QED BY <2>1, <2>2, <2>4
<1> QED BY <1>1, <1>2

\* The invariant in parts.
LEMMA SoundFacts ==
  ASSUME Sound
  PROVE  /\ CursorSound(file) /\ CursorSound(mem) /\ mem.anchors \subseteq file.anchors
         /\ HashlessFile(file) /\ HashlessMem(mem, round) /\ RoundSound(round, mem)
BY DEF Sound

\* Nothing is scanned yet, and nothing claimed.
LEMMA InitSound ==
  ASSUME Init
  PROVE  Sound
<1>1. ChainInv /\ file = NoCursor /\ mem = FreshMemory /\ round = IdleRound
  BY InitTypes DEF Init, TypeInv
<1>2. NoBlock - 1 <= FinalizedHead /\ NoBlock <= FinalizedHead
  BY <1>1, ChainFacts DEF NoBlock
<1>3. CursorSound(NoCursor) /\ CursorSound(FreshMemory)
  BY <1>1, <1>2, EmptySound DEF NoCursor, FreshMemory
<1>4. /\ HashlessFile(NoCursor) /\ HashlessMem(FreshMemory, IdleRound)
      /\ FreshMemory.anchors \subseteq NoCursor.anchors
  BY DEF HashlessFile, HashlessMem, Hashless, NoCursor, FreshMemory
<1>5. RoundSound(IdleRound, FreshMemory)
  BY <1>1, StartTypes, BeforeSound DEF Before
<1> QED BY <1>1, <1>3, <1>4, <1>5 DEF Sound

\* The round begins.
LEMMA WakeSound ==
  ASSUME TypeInv, Sound, Wake
  PROVE  Sound'
<1>1. PICK r : round' = r /\ r.pc \in Before
  <2> DEFINE r == [IdleRound EXCEPT !.pc = IF mem.restored THEN "head" ELSE "restore"]
  <2>1. round' = r /\ r.pc = IF mem.restored THEN "head" ELSE "restore"
    BY DEF Wake, IdleRound
  <2> HIDE DEF r
  <2> QED BY <2>1 DEF Before
<1>2. round.pc \in Before
  BY DEF Wake, Before
<1>3. Frame /\ UNCHANGED <<start, handled, file, mem, unread>>
  BY DEF Wake, Frame
<1> QED BY <1>1, <1>2, <1>3, BeforeSound, Unmoved

\* The position that is loaded claims what the file claimed.
LEMMA RestoreSound ==
  ASSUME TypeInv, Sound, RestoreCursor
  PROVE  Sound'
<1>0. round.pc = "restore" /\ round.pc \in Before
  BY DEF RestoreCursor, Before
<1>1. Frame /\ UNCHANGED <<start, handled, file, faults>>
  BY DEF RestoreCursor, Frame
<1>2. PICK r : round' = r /\ r.pc = "head"
  <2> DEFINE r == [round EXCEPT !.pc = "head"]
  <2>1. round' = r /\ r.pc = "head"
    BY StateFacts DEF RestoreCursor, Rounds
  <2> HIDE DEF r
  <2> QED BY <2>1
<1>3. PICK genesis \in ReadHash(0) :
        /\ mem' = IF file.next = NoBlock \/ IsForeign(genesis)
                  THEN [mem EXCEPT !.restored = TRUE, !.genesis = genesis]
                  ELSE [next |-> file.next, hash |-> file.hash,
                        anchors |-> file.anchors, adopted |-> TRUE,
                        restored |-> TRUE, genesis |-> genesis]
        /\ Recall(0, genesis)
  BY DEF RestoreCursor
<1>4. unread => unread'
  BY <1>3, ReadFacts
<1>5. PICK m : /\ mem' = m
               /\ \/ /\ m.next = mem.next /\ m.hash = mem.hash /\ m.anchors = mem.anchors
                  \/ /\ m.next = file.next /\ m.hash = file.hash
                     /\ m.anchors = file.anchors
  <2>1. CASE file.next = NoBlock \/ IsForeign(genesis)
    <3> DEFINE m == [mem EXCEPT !.restored = TRUE, !.genesis = genesis]
    <3>1. m.next = mem.next /\ m.hash = mem.hash /\ m.anchors = mem.anchors
      BY StateFacts DEF Mems
    <3>2. mem' = m
      BY <1>3, <2>1
    <3> HIDE DEF m
    <3> QED BY <3>1, <3>2
  <2>2. CASE ~(file.next = NoBlock \/ IsForeign(genesis))
    BY <1>3, <2>2
  <2> QED BY <2>1, <2>2
<1>6. CursorSound(m) /\ m.anchors \subseteq file.anchors /\ HashlessMem(m, r)
  <2>1. CASE /\ m.next = mem.next /\ m.hash = mem.hash /\ m.anchors = mem.anchors
    <3>1. CursorSound(m)
      BY <2>1, SoundFacts DEF CursorSound, HasAncestor
    <3>2. HashlessMem(m, r)
      BY <1>0, <2>1, SoundFacts DEF HashlessMem, Hashless, TrueOutright
    <3> QED BY <2>1, <3>1, <3>2, SoundFacts
  <2>2. CASE /\ m.next = file.next /\ m.hash = file.hash /\ m.anchors = file.anchors
    <3>1. CursorSound(m)
      BY <2>2, SoundFacts DEF CursorSound, HasAncestor
    <3>2. HashlessMem(m, r)
      BY <2>2, SoundFacts DEF HashlessMem, HashlessFile, Hashless, TrueOutright
    <3> QED BY <2>2, <3>1, <3>2
  <2> QED BY <1>5, <2>1, <2>2
<1>7. PICK f : f = file
  OBVIOUS
<1>8. CursorSound(f)' /\ CursorSound(m)' /\ HashlessFile(f)' /\ HashlessMem(m, r)'
      /\ m.anchors \subseteq f.anchors
  BY <1>1, <1>4, <1>6, <1>7, SoundFacts, SoundStays
<1>9. RoundSound(r, m)'
  BY <1>2, BeforeSound DEF Before
<1> QED BY <1>1, <1>2, <1>5, <1>7, <1>8, <1>9, SoundMoves

\* What SafeDeployments says of the one deployment a watcher runs in.
LEMMA SafeFacts ==
  ASSUME SafeDeployments, config \in Deployments
  PROVE  /\ "round" \in Faults => ~Deep /\ "shrink" \notin Faults /\ Confirmations > 0
         /\ Deep => "hash" \notin Faults
         /\ Deep /\ "shrink" \in Faults => Confirmations <= 1
BY DEF SafeDeployments, Deep, Faults

\* The memory and the locals of the round move, and the file does not.
LEMMA MemoryMoves ==
  ASSUME Sound, Frame, start' = start, handled \subseteq handled',
         unread => unread', file' = file,
         NEW m, NEW r, mem' = m, round' = r, CursorSound(m),
         m.anchors \subseteq file.anchors, HashlessMem(m, r), RoundSound(r, m)
  PROVE  Sound'
<1>1. PICK f : f = file
  OBVIOUS
<1>2. CursorSound(f) /\ HashlessFile(f) /\ m.anchors \subseteq f.anchors
  BY <1>1, SoundFacts
<1>3. /\ CursorSound(f)' /\ HashlessFile(f)' /\ CursorSound(m)'
      /\ HashlessMem(m, r)' /\ RoundSound(r, m)'
  BY <1>2, SoundStays
<1> QED BY <1>1, <1>2, <1>3, SoundMoves

\* A memory without hash and anchors claims no more than the one it comes from.
LEMMA ForgetfulSound ==
  ASSUME TypeInv, Sound, NEW m, m.next = mem.next, m.hash = NoHash, m.anchors = {}
  PROVE  CursorSound(m) /\ m.anchors \subseteq file.anchors
<1>1. /\ reorgs = 0 /\ m.next # NoBlock => m.next <= Len(chain) /\ ScannedUpTo(m.next - 1)
      /\ "shrink" \notin Faults => m.next - 1 <= FinalizedHead
  BY SoundFacts DEF CursorSound
<1> QED BY <1>1, StateFacts, EmptySound

\* Where rounds fail and heights are never lost, only a cursor that stands on the first
\* block alone can be beyond the head; and that block was scanned.
LEMMA BeyondHead ==
  ASSUME TypeInv, Sound, "shrink" \notin Faults, ~Deep, Confirmations > 0,
         round.pc = "head", mem.next # NoBlock, mem.next > Tip
  PROVE  mem.next = 1 /\ mem.next <= Len(chain) /\ ScannedUpTo(0)
<1>0. /\ ChainInv /\ mem \in Mems /\ CursorInv(mem) /\ CursorSound(mem)
      /\ HashlessMem(mem, round)
  BY StateFacts, SoundFacts
<1>1. /\ Tip \in Nat /\ Len(chain) = Tip + 1 /\ Confirmations \in Nat
      /\ FinalizedHead = IF Tip > Confirmations THEN Tip - Confirmations ELSE 0
  BY <1>0, ChainFacts, Bounds DEF FinalizedHead, ChainInv
<1>2. mem.next \in Int /\ mem.next >= 1
  <2>1. mem.next \in 1 .. MaxHeight + 1 /\ MaxHeight \in Nat
    BY <1>0, Bounds DEF Mems, ChainInv
  <2> QED BY <2>1
<1>3. mem.next - 1 <= FinalizedHead
  BY <1>0 DEF CursorSound
<1>4. mem.next = 1 /\ mem.next <= Len(chain)
  BY <1>1, <1>2, <1>3
<1>5. Floor \in Nat /\ 0 \in 0 .. Tip
  BY <1>0, <1>1, Bounds DEF ChainInv
<1>6. CASE mem.hash = NoHash
  <2>1. ScannedUpTo(mem.next - 1)
    BY <1>0, <1>6 DEF HashlessMem, Hashless, Before, TrueOutright
  <2> QED BY <1>4, <2>1
<1>7. CASE mem.hash # NoHash /\ BlockAt(0) = mem.hash
  BY <1>0, <1>4, <1>5, <1>7 DEF CursorSound, Vouches
<1>8. CASE mem.hash # NoHash /\ \E a \in mem.anchors : Canonical(a)
  <2>1. PICK a \in mem.anchors : BlockAt(a.height) = a.hash
    BY <1>8 DEF Canonical
  <2>2. a.height \in Floor .. mem.next - 1
    BY <1>0 DEF CursorInv, AnchorsInv
  <2>3. a.height = 0
    BY <1>4, <1>5, <2>2
  <2> QED BY <1>0, <1>4, <1>5, <2>1, <2>3 DEF CursorSound, Vouches
<1>9. mem.hash # NoHash => BlockAt(0) = mem.hash \/ \E a \in mem.anchors : Canonical(a)
  BY <1>0, <1>4 DEF CursorSound, HasAncestor
<1> QED BY <1>4, <1>6, <1>7, <1>8, <1>9

\* The cursor lies beyond the head.
LEMMA OvershootSound ==
  ASSUME SafeDeployments, TypeInv, StartInv, Sound, CorrectOvershoot
  PROVE  Sound'
<1>0. /\ ChainInv /\ mem \in Mems /\ MemInv(mem, round) /\ round.pc = "head"
      /\ Floor \in Nat /\ FinalizedHead \in 0 .. Tip /\ config \in Deployments
      /\ round.pc \in Before
  BY StateFacts, Bounds, ChainFacts DEF CorrectOvershoot, ChainInv, Before
<1>1. Frame /\ UNCHANGED <<start, handled, file, faults, unread>>
  BY DEF CorrectOvershoot, Frame
<1>2. CASE mem.adopted /\ Configured /\ Floor <= FinalizedHead
  <2> DEFINE m == [mem EXCEPT !.adopted = FALSE, !.anchors = {}, !.hash = NoHash]
  <2>1. m.next = mem.next /\ m.hash = NoHash /\ m.anchors = {}
    BY <1>0 DEF Mems
  <2>2. mem' = m /\ EnterRange(Floor, FinalizedHead)
    BY <1>2 DEF CorrectOvershoot
  <2> HIDE DEF m
  <2>3. CursorSound(m) /\ m.anchors \subseteq file.anchors
    BY <2>1, ForgetfulSound
  <2>4. ScannedUpTo(Floor - 1)
    BY <1>0 DEF ScannedUpTo, StartInv
  <2>5. PICK r : round' = r /\ RoundSound(r, m)
                 /\ (r.pc = "logs" \/ (r = IdleRound /\ Floor > FinalizedHead))
    BY <1>0, <2>2, <2>4, EnterRangeMoves
  <2>6. r.pc = "logs"
    BY <1>0, <1>2, <2>5
  <2>7. HashlessMem(m, r)
    <3> SUFFICES ASSUME "round" \in Faults
                 PROVE  TrueOutright(m)
      BY <2>1, <2>6 DEF HashlessMem, Before
    <3>1. "shrink" \notin Faults /\ ~Deep /\ Confirmations > 0
      BY <1>0, SafeFacts
    <3>2. mem.next # NoBlock /\ mem.next > Tip
      BY <1>0, <1>2 DEF MemInv, CorrectOvershoot, CursorPosition
    <3>3. mem.next = 1 /\ mem.next <= Len(chain) /\ ScannedUpTo(0)
      BY <1>0, <3>1, <3>2, BeyondHead
    <3>4. m.next - 1 = 0
      BY <2>1, <3>3
    <3> QED BY <2>1, <3>1, <3>3, <3>4 DEF TrueOutright
  <2> QED BY <1>1, <2>2, <2>3, <2>5, <2>7, MemoryMoves
<1>3. CASE ~(mem.adopted /\ Configured /\ Floor <= FinalizedHead)
  <2>1. round' = IdleRound /\ mem' = mem
    BY <1>3 DEF CorrectOvershoot
  <2>2. IdleRound.pc \in Before
    BY <1>0, StartTypes DEF Before
  <2> QED BY <1>0, <1>1, <2>1, <2>2, BeforeSound, Unmoved
<1> QED BY <1>2, <1>3

\* A cursor without a hash is believed, one with a hash is compared.
LEMMA ReadHeadSound ==
  ASSUME SafeDeployments, TypeInv, Sound, ReadHead
  PROVE  Sound'
<1>0. /\ ChainInv /\ mem \in Mems /\ round \in Rounds /\ CursorInv(mem)
      /\ round.pc = "head" /\ round.pc \in Before /\ config \in Deployments
      /\ Floor \in Nat /\ FinalizedHead \in 0 .. Tip /\ Tip \in Nat
      /\ CursorPosition <= Tip
  BY StateFacts, Bounds, ChainFacts DEF ReadHead, ChainInv, Before
<1>1. Frame /\ UNCHANGED <<start, handled, file, mem, faults, unread>>
  BY DEF ReadHead, Frame
<1>2. /\ mem.next # NoBlock => /\ CursorPosition = mem.next /\ mem.next > Floor
                               /\ mem.next \in Nat \ {0}
      /\ CursorPosition \in Nat
  <2>1. mem.next # NoBlock => mem.next \in Nat \ {0}
    <3>1. MaxHeight \in Nat
      BY <1>0, Bounds DEF ChainInv
    <3> QED BY <1>0, <3>1 DEF Mems
  <2> QED BY <1>0, <2>1, Unanchored DEF CursorPosition, CursorInv
<1>3. CASE NothingToCompare
  <2>1. EnterRange(CursorPosition, FinalizedHead)
    BY <1>3 DEF ReadHead
  <2>2. ASSUME mem.next # NoBlock PROVE ScannedUpTo(CursorPosition - 1)
    <3>1. mem.hash = NoHash
      BY <1>2, <1>3, <2>2 DEF NothingToCompare
    <3> QED BY <1>0, <1>2, <2>2, <3>1, SoundFacts DEF HashlessMem, Hashless, TrueOutright
  <2>3. PICK r : round' = r /\ RoundSound(r, mem)
    BY <1>0, <1>2, <2>1, <2>2, EnterRangeMoves
  <2> QED BY <1>0, <1>1, <2>3, Unmoved
<1>4. CASE ~NothingToCompare
  <2> DEFINE r == [round EXCEPT !.pc = "continuity", !.from = CursorPosition,
                                !.to = FinalizedHead]
  <2>1. r.pc = "continuity" /\ r.to = FinalizedHead
    BY <1>0 DEF Rounds
  <2>2. round' = r
    BY <1>4 DEF ReadHead
  <2> HIDE DEF r
  <2>3. mem.next # NoBlock
    BY <1>0, <1>4 DEF NothingToCompare, CursorInv
  <2>4. ASSUME Deep PROVE Floor <= FinalizedHead
    <3>1. CASE "shrink" \notin Faults
      <4>1. mem.next - 1 <= FinalizedHead
        BY <3>1, SoundFacts DEF CursorSound
      <4> QED BY <1>0, <1>2, <2>3, <4>1
    <3>2. CASE "shrink" \in Faults
      <4>1. Confirmations <= 1 /\ Confirmations \in Nat
        BY <1>0, <2>4, <3>2, SafeFacts, Bounds
      <4>2. Floor < Tip
        BY <1>0, <1>2, <2>3
      <4> QED BY <1>0, <4>1, <4>2 DEF FinalizedHead
    <3> QED BY <3>1, <3>2
  <2>5. r.to <= FinalizedHead
    BY <1>0, <2>1
  <2>6. RoundSound(r, mem)
    BY <2>1, <2>4, <2>5 DEF RoundSound, Comparing, Scanning
  <2> QED BY <1>0, <1>1, <2>2, <2>6, Unmoved
<1> QED BY <1>3, <1>4

\* A hash that could not be read stands for one that still is the same: before any
\* reorganisation, all below the cursor was scanned.
LEMMA ContinuitySound ==
  ASSUME SafeDeployments, TypeInv, Sound, ContinuityHolds
  PROVE  Sound'
<1>0. round.pc \in Comparing /\ config \in Deployments
  BY StateFacts DEF ContinuityHolds, Comparing, ChainInv
<1>1. Frame /\ UNCHANGED <<start, handled, file, mem, faults>>
  BY DEF ContinuityHolds, Frame
<1>2. PICK b \in ReadHash(mem.next - 1) :
        b \in {NoHash, mem.hash} /\ Recall(mem.next - 1, b)
  BY <1>0, ComparingFacts DEF ContinuityHolds
<1>3. /\ b \in {NoHash, BlockAt(mem.next - 1)} /\ (unread => unread')
      /\ b # BlockAt(mem.next - 1) => "hash" \in Faults /\ (reorgs = 0 \/ Deep)
  BY <1>2, ReadFacts
<1>4. EnterRange(mem.next, round.to)
  BY <1>0, ComparingFacts DEF ContinuityHolds
<1>5. ASSUME mem.next <= round.to PROVE ScannedUpTo(mem.next - 1)
  <2>1. mem.next - 1 \in 0 .. Tip
    <3>1. mem.next > Floor /\ Floor \in Nat /\ mem.next \in Int /\ Tip \in Int
          /\ round.to \in 0 .. Tip
      BY <1>0, ComparingFacts
    <3> QED BY <1>5, <3>1
  <2>2. BlockAt(mem.next - 1) # NoHash
    BY <1>0, <2>1, ComparingFacts, ChainFacts DEF NoHash
  <2>3. CASE b = BlockAt(mem.next - 1)
    <3>1. BlockAt(mem.next - 1) = mem.hash
      BY <1>2, <2>2, <2>3
    <3> QED BY <2>1, <3>1, SoundFacts DEF CursorSound, Vouches
  <2>4. CASE b # BlockAt(mem.next - 1)
    <3>1. reorgs = 0
      BY <1>0, <1>3, <2>4, SafeFacts
    <3> QED BY <1>0, <3>1, ComparingFacts, SoundFacts DEF CursorSound
  <2> QED BY <2>3, <2>4
<1>6. "shrink" \notin Faults => round.to <= FinalizedHead
  BY <1>0, SoundFacts DEF RoundSound
<1>7. PICK r : round' = r /\ RoundSound(r, mem)
  BY <1>0, <1>4, <1>5, <1>6, ComparingFacts, EnterRangeMoves
<1>8. ~Hashless(mem)
  BY <1>0, ComparingFacts DEF Hashless
<1> QED BY <1>1, <1>3, <1>7, <1>8, Unmoved

\* A reorganisation is detected: within the window an anchor is left, and it is looked at.
LEMMA DetectedSound ==
  ASSUME TypeInv, Sound, ReorgDetected
  PROVE  Sound'
<1> DEFINE T == {a.height : a \in {b \in mem.anchors : b.height < round.from}}
           r == [round EXCEPT !.pc = "walk", !.todo = T]
<1>0. round.pc \in Comparing /\ BlockAt(mem.next - 1) \notin {NoHash, mem.hash}
      /\ round.pc = "continuity"
  <2>1. round.pc \in Comparing
    BY DEF ReorgDetected, Comparing
  <2> QED BY <2>1, ComparingFacts DEF ReorgDetected
<1>1. Frame /\ UNCHANGED <<start, handled, file, mem, faults, unread>> /\ round' = r
  BY DEF ReorgDetected, Frame
<1>2. \A a \in mem.anchors : a.height \in T
  BY <1>0, ComparingFacts
<1> HIDE DEF T
<1>3. r.pc = "walk" /\ r.to = round.to /\ r.todo = T
  BY <1>0, ComparingFacts DEF Rounds
<1> HIDE DEF r
<1>4. ~Deep => \E a \in mem.anchors : Canonical(a)
  BY <1>0, ComparingFacts, SoundFacts DEF CursorSound, HasAncestor
<1>5. RoundSound(r, mem)
  BY <1>0, <1>2, <1>3, <1>4, SoundFacts DEF RoundSound, Comparing, Scanning
<1>6. ~Hashless(mem)
  BY <1>0, ComparingFacts DEF Hashless
<1> QED BY <1>1, <1>5, <1>6, Unmoved

\* The walk lands on an anchor that is canonical, and vouches for all below it; or it
\* goes on, past an anchor that is not.
LEMMA WalkSound ==
  ASSUME TypeInv, Sound, WalkAnchors
  PROVE  Sound'
<1>0. round.pc = "walk" /\ round.todo # {} /\ round.pc \in Comparing
  BY DEF WalkAnchors, Comparing
<1>a. PICK h, anchor : /\ h = Highest(round.todo)
                       /\ anchor = CHOOSE a \in mem.anchors : a.height = h
  OBVIOUS
<1>1. h \in Int /\ anchor \in mem.anchors /\ anchor.height = h
  BY <1>0, <1>a, WalkFacts
<1>b. anchor.hash \in 1 .. minted
  BY <1>0, <1>1, ComparingFacts, FieldTypes
<1>2. Frame /\ UNCHANGED <<start, handled, file, faults>>
  BY DEF WalkAnchors, Frame
<1>3. PICK b \in ReadHash(h) :
        /\ Recall(h, b)
        /\ IF b = anchor.hash
           THEN /\ mem' = [mem EXCEPT !.hash = HashAfterRollback(b),
                                      !.anchors = {a \in @ : a.height <= h}]
                /\ EnterRange(h + 1, round.to)
           ELSE /\ round' = [round EXCEPT !.todo = @ \ {h}]
                /\ UNCHANGED mem
  BY <1>a DEF WalkAnchors
<1>4. /\ b \in {NoHash, BlockAt(h)} /\ (unread => unread')
      /\ b # BlockAt(h) => reorgs = 0 \/ Deep
  BY <1>3, ReadFacts
<1>5. reorgs # 0
  BY <1>0, StateFacts DEF RoundInv
<1>6. CASE b = anchor.hash
  <2> DEFINE A == {a \in mem.anchors : a.height <= h}
             m == [mem EXCEPT !.hash = b, !.anchors = A]
  <2>1. mem' = m /\ EnterRange(h + 1, round.to)
    BY <1>3, <1>6 DEF HashAfterRollback
  <2>2. m.next = mem.next /\ m.hash = b /\ m.anchors = A
    BY <1>0, ComparingFacts DEF Mems
  <2>3. A \subseteq mem.anchors /\ anchor \in A
    BY <1>1
  <2> HIDE DEF A, m
  <2>4. BlockAt(h) = b /\ b # NoHash
    BY <1>b, <1>4, <1>6 DEF NoHash
  <2>5. Canonical(anchor)
    BY <1>1, <1>6, <2>4 DEF Canonical
  <2>6. CursorSound(m)
    <3>1. Vouches(b)
      BY <1>1, <1>6, SoundFacts DEF CursorSound
    <3>2. \A a \in A : Vouches(a.hash)
      BY <2>3, SoundFacts DEF CursorSound
    <3>3. "shrink" \notin Faults => m.next - 1 <= FinalizedHead
      BY <2>2, SoundFacts DEF CursorSound
    <3> QED BY <1>5, <2>2, <2>3, <2>5, <3>1, <3>2, <3>3 DEF CursorSound, HasAncestor
  <2>7. m.anchors \subseteq file.anchors
    BY <2>2, <2>3, SoundFacts
  <2>8. ScannedUpTo(h)
    <3>1. h \in 0 .. Tip
      BY <1>0, <2>4, ComparingFacts, ChainFacts
    <3> QED BY <1>1, <1>6, <2>4, <3>1, SoundFacts DEF CursorSound, Vouches
  <2>a. PICK k : k = h + 1
    OBVIOUS
  <2>b. k \in Int /\ k - 1 = h
    BY <1>1, <2>a
  <2>9. EnterRange(k, round.to)
    BY <2>1, <2>a, Zenon
  <2>10. "shrink" \notin Faults => round.to <= FinalizedHead
    BY <1>0, SoundFacts DEF RoundSound
  <2>11. PICK r : round' = r /\ RoundSound(r, m)
    BY <1>0, <2>8, <2>9, <2>b, <2>10, ComparingFacts, EnterRangeMoves
  <2>12. HashlessMem(m, r)
    BY <2>2, <2>4 DEF HashlessMem, Hashless
  <2> QED BY <1>2, <1>4, <2>1, <2>6, <2>7, <2>11, <2>12, MemoryMoves
<1>7. CASE b # anchor.hash
  <2> DEFINE r == [round EXCEPT !.todo = @ \ {h}]
  <2>1. r.pc = "walk" /\ r.to = round.to /\ r.todo = round.todo \ {h}
    BY <1>0, StateFacts DEF Rounds
  <2>2. round' = r /\ mem' = mem
    BY <1>3, <1>7
  <2> HIDE DEF r
  <2>3. ASSUME ~Deep
        PROVE  /\ \E a \in mem.anchors : Canonical(a)
               /\ \A a \in mem.anchors : Canonical(a) => a.height \in r.todo
    <3>1. /\ \E a \in mem.anchors : Canonical(a)
          /\ \A a \in mem.anchors : Canonical(a) => a.height \in round.todo
      BY <1>0, <2>3, SoundFacts DEF RoundSound
    <3>2. b = BlockAt(h)
      BY <1>4, <1>5, <2>3
    <3>3. ASSUME NEW a \in mem.anchors, Canonical(a), a.height = h PROVE FALSE
      <4>1. a = anchor
        BY <1>0, <1>1, <3>3, ComparingFacts DEF CursorInv, AnchorsInv
      <4> QED BY <1>1, <1>7, <3>2, <3>3, <4>1 DEF Canonical
    <3> QED BY <2>1, <3>1, <3>3
  <2>4. RoundSound(r, mem)
    BY <1>0, <2>1, <2>3, SoundFacts DEF RoundSound, Comparing, Scanning
  <2>5. ~Hashless(mem)
    BY <1>0, ComparingFacts DEF Hashless
  <2> QED BY <1>2, <1>4, <2>2, <2>4, <2>5, Unmoved
<1> QED BY <1>6, <1>7

\* Only a reorganisation beyond the window leads to the floor; and there the round scans.
LEMMA RescanSound ==
  ASSUME SafeDeployments, TypeInv, StartInv, Sound, RescanFromFloor
  PROVE  Sound'
<1>0. round.pc = "walk" /\ round.pc \in Comparing /\ round.todo = {}
      /\ config \in Deployments
  BY StateFacts DEF RescanFromFloor, Comparing, ChainInv
<1>1. Frame /\ UNCHANGED <<start, handled, file, faults, unread>>
  BY DEF RescanFromFloor, Frame
<1>2. Deep /\ Floor <= round.to
  BY <1>0, SoundFacts DEF RoundSound
<1>3. "round" \notin Faults
  BY <1>0, <1>2, SafeFacts
<1> DEFINE m == [mem EXCEPT !.anchors = {}, !.hash = NoHash]
<1>4. mem' = m /\ EnterRange(Floor, round.to)
  BY DEF RescanFromFloor
<1>5. m.next = mem.next /\ m.hash = NoHash /\ m.anchors = {}
  BY <1>0, ComparingFacts DEF Mems
<1> HIDE DEF m
<1>6. CursorSound(m) /\ m.anchors \subseteq file.anchors
  BY <1>5, ForgetfulSound
<1>7. ScannedUpTo(Floor - 1) /\ Floor \in Int /\ round.to \in Int
  <2>1. Floor \in Nat /\ round.to \in 0 .. Tip
    BY <1>0, ComparingFacts
  <2> QED BY <2>1 DEF ScannedUpTo, StartInv
<1>8. "shrink" \notin Faults => round.to <= FinalizedHead
  BY <1>0, SoundFacts DEF RoundSound
<1>9. PICK r : /\ round' = r /\ RoundSound(r, m)
               /\ r.pc = "logs" \/ (r = IdleRound /\ Floor > round.to)
  BY <1>0, <1>4, <1>7, <1>8, ComparingFacts, EnterRangeMoves
<1>10. r.pc = "logs"
  BY <1>2, <1>7, <1>9
<1>11. HashlessMem(m, r)
  BY <1>3, <1>10 DEF HashlessMem, Before
<1> QED BY <1>1, <1>4, <1>6, <1>9, <1>11, MemoryMoves

\* The logs of a range are at hand when it has been asked for.
LEMMA GetLogsSound ==
  ASSUME TypeInv, Sound, NEW g \in round.ranges, GetLogs(g)
  PROVE  Sound'
<1> DEFINE R == round.ranges \ {g}
           L == round.logs \cup LogsOf(g)
           s == IF round.ranges # {g} THEN "logs" ELSE "handle"
           r == [round EXCEPT !.ranges = R, !.logs = L, !.pc = s]
<1>0. round.pc = "logs" /\ round.pc \in Scanning
  BY DEF GetLogs, Scanning
<1>1. Frame /\ UNCHANGED <<start, handled, file, mem, faults, unread>>
  BY DEF GetLogs, Frame
<1>2. round' = r
  BY <1>0, ScanningFacts DEF GetLogs, Rounds
<1>3. /\ r.pc = s /\ r.from = round.from /\ r.to = round.to /\ r.ranges = R /\ r.logs = L
  BY <1>0, ScanningFacts DEF Rounds
<1>4. ASSUME NEW h \in round.from .. round.to
      PROVE  (\E k \in R : h \in k.from .. k.to) \/ Anchor(h, BlockAt(h)) \in L
  <2>1. (\E k \in round.ranges : h \in k.from .. k.to)
        \/ Anchor(h, BlockAt(h)) \in round.logs
    BY <1>0, SoundFacts DEF RoundSound, Asked, AtHand
  <2>2. h <= Tip
    <3>1. h \in 0 .. Tip /\ Tip \in Int
      BY <1>0, ScanningFacts
    <3> QED BY <3>1
  <2>3. h \in g.from .. g.to => Anchor(h, BlockAt(h)) \in LogsOf(g)
    BY <2>2 DEF LogsOf
  <2> QED BY <2>1, <2>3
<1>5. s = "handle" => R = {}
  OBVIOUS
<1>6. s \in {"logs", "handle"}
  OBVIOUS
<1> HIDE DEF R, L, s, r
<1>7. ASSUME NEW h \in round.from .. round.to PROVE Asked(r, h) \/ AtHand(r, h)
  BY <1>3, <1>4 DEF Asked, AtHand
<1>8. s = "handle" => \A h \in round.from .. round.to : AtHand(r, h)
  BY <1>3, <1>4, <1>5 DEF AtHand
<1>9. RoundSound(r, mem)
  <2>1. /\ "shrink" \notin Faults => round.to <= FinalizedHead
        /\ mem.next # NoBlock => ScannedUpTo(round.from - 1)
    BY <1>0, SoundFacts DEF RoundSound, Scanning
  <2> QED BY <1>3, <1>6, <1>7, <1>8, <2>1 DEF RoundSound, Comparing, Scanning
<1>10. r.pc \notin Before
  BY <1>3, <1>6 DEF Before
<1> QED BY <1>1, <1>2, <1>9, <1>10, Unmoved

\* A log leaves the round when it has been handled.
LEMMA HandleLogSound ==
  ASSUME TypeInv, Sound, HandleLog
  PROVE  Sound'
<1>0. round.pc = "handle" /\ round.pc \in Scanning /\ round.logs # {}
  BY DEF HandleLog, Scanning
<1>1. PICK log : /\ log = CHOOSE l \in round.logs :
                            l.height = Lowest({k.height : k \in round.logs})
  OBVIOUS
<1>2. /\ handled' = handled \cup {log.hash} /\ Frame
      /\ UNCHANGED <<start, file, mem, faults, unread>>
  BY <1>1 DEF HandleLog, Frame
<1>3. PICK r : /\ round' = r /\ r.pc = "handle" /\ r.from = round.from /\ r.to = round.to
               /\ r.logs = round.logs \ {log}
  <2> DEFINE r == [round EXCEPT !.logs = @ \ {log}]
  <2>1. /\ r.pc = "handle" /\ r.from = round.from /\ r.to = round.to
        /\ r.logs = round.logs \ {log}
    BY <1>0, ScanningFacts DEF Rounds
  <2>2. round' = r
    BY <1>1 DEF HandleLog
  <2> HIDE DEF r
  <2> QED BY <2>1, <2>2
<1>4. ASSUME NEW h \in round.from .. round.to
      PROVE  BlockAt(h) \in handled' \/ AtHand(r, h)
  <2>1. BlockAt(h) \in handled \/ Anchor(h, BlockAt(h)) \in round.logs
    BY <1>0, SoundFacts DEF RoundSound, AtHand
  <2>2. Anchor(h, BlockAt(h)).hash = BlockAt(h)
    BY DEF Anchor
  <2> QED BY <1>2, <1>3, <2>1, <2>2 DEF AtHand
<1>5. ASSUME NEW m, m = mem PROVE RoundSound(r, m)'
  <2>1. PICK from, to : from = round.from /\ to = round.to
    OBVIOUS
  <2>2. /\ "shrink" \notin Faults => to <= FinalizedHead
        /\ m.next # NoBlock => ScannedUpTo(from - 1)
    BY <1>0, <1>5, <2>1, SoundFacts DEF RoundSound, Scanning
  <2>3. /\ m.next # NoBlock => ScannedUpTo(from - 1)'
        /\ Faults' = Faults /\ FinalizedHead' = FinalizedHead
        /\ \A h : BlockAt(h)' = BlockAt(h)
    BY <1>2, <2>2, SoundStays, FrameFacts
  <2>4. \A h \in from .. to : BlockAt(h)' \in handled' \/ AtHand(r, h)'
    BY <1>4, <2>1, <2>3 DEF AtHand, Anchor
  <2> QED BY <1>3, <2>1, <2>2, <2>3, <2>4 DEF RoundSound, Comparing, Scanning
<1>6. r.pc \notin Before
  BY <1>3 DEF Before
<1>7. handled \subseteq handled' /\ (unread => unread') /\ mem' = mem /\ file' = file
      /\ start' = start
  BY <1>2
<1>8. Frame /\ round' = r
  BY <1>2, <1>3
<1> QED BY <1>5, <1>6, <1>7, <1>8, Unmoved

\* All logs were handled, and the last block of the range is among those to be anchored.
LEMMA LogsHandledSound ==
  ASSUME TypeInv, Sound, LogsHandled
  PROVE  Sound'
<1> DEFINE T == CheckpointAnchorHeights(round.from, round.to)
           r == [round EXCEPT !.pc = "anchors", !.anchors = mem.anchors, !.todo = T]
<1>0. round.pc = "handle" /\ round.pc \in Scanning /\ round.logs = {}
  BY DEF LogsHandled, Scanning
<1>1. Frame /\ UNCHANGED <<start, handled, file, mem, faults, unread>> /\ round' = r
  BY DEF LogsHandled, Frame
<1>2. round.to \in T
  <2>1. round.to \in round.from .. round.to /\ round.to - round.to = 0
        /\ MaxHeight \in Nat
    BY <1>0, ScanningFacts
  <2>2. 0 \in Gaps
    <3>1. 2 ^ 0 - 1 = 0 /\ 0 \in 0 .. MaxHeight
      BY <2>1
    <3> QED BY <3>1 DEF Gaps
  <2>3. 0 <= ReorgWindow
    BY <1>0, ScanningFacts, Bounds DEF ChainInv
  <2> QED BY <2>1, <2>2, <2>3 DEF CheckpointAnchorHeights
<1> HIDE DEF T
<1>3. /\ r.pc = "anchors" /\ r.from = round.from /\ r.to = round.to
      /\ r.todo = T /\ r.anchors = mem.anchors
  BY <1>0, ScanningFacts DEF Rounds
<1> HIDE DEF r
<1>4. RoundSound(r, mem)
  <2>1. /\ "shrink" \notin Faults => round.to <= FinalizedHead
        /\ mem.next # NoBlock => ScannedUpTo(round.from - 1)
        /\ \A h \in round.from .. round.to : BlockAt(h) \in handled
    BY <1>0, SoundFacts DEF RoundSound, Scanning, AtHand
  <2> QED BY <1>2, <1>3, <2>1 DEF RoundSound, Comparing, Scanning
<1>5. r.pc \notin Before
  BY <1>3 DEF Before
<1> QED BY <1>1, <1>4, <1>5, Unmoved

\* What the end of a round has scanned, from the start to the last block of its range.
LEMMA ScannedRange ==
  ASSUME TypeInv, StartInv, Sound, round.pc = "anchors", mem.next # NoBlock,
         NEW h \in round.from .. round.to
  PROVE  ScannedUpTo(h)
<1>1. /\ ScannedUpTo(round.from - 1)
      /\ \A g \in round.from .. round.to : BlockAt(g) \in handled
  BY SoundFacts DEF RoundSound, Scanning
<1>2. round.from \in Nat /\ round.to \in Nat /\ start \in Nat
  BY ScanningFacts DEF Scanning, StartInv
<1> SUFFICES ASSUME NEW g \in start .. h, g <= Tip PROVE BlockAt(g) \in handled
  BY DEF ScannedUpTo
<1>3. CASE g \in start .. round.from - 1
  BY <1>1, <1>3 DEF ScannedUpTo
<1>4. CASE g \notin start .. round.from - 1
  <2>1. g \in round.from .. round.to
    BY <1>2, <1>4
  <2> QED BY <1>1, <2>1
<1> QED BY <1>3, <1>4

\* The hash of a block that was scanned vouches for what is below it: no other block has it.
LEMMA ScannedVouches ==
  ASSUME ChainInv, NEW h \in 0 .. Tip, ScannedUpTo(h)
  PROVE  Vouches(BlockAt(h))
BY ChainFacts DEF Vouches

\* An anchor is read and recorded, or skipped: then the node has failed to give a hash.
LEMMA ReadAnchorSound ==
  ASSUME SafeDeployments, TypeInv, Sound, ReadAnchor
  PROVE  Sound'
<1>0. /\ round.pc = "anchors" /\ round.pc \in Scanning /\ round.todo # {}
      /\ config \in Deployments /\ ChainInv
  BY StateFacts DEF ReadAnchor, Scanning, ChainInv
<1>a. PICK h : h = Highest(round.todo)
  OBVIOUS
<1>1. /\ h \in round.todo /\ h \in round.from .. round.to /\ h \in Floor .. round.to
      /\ h \in 0 .. Tip /\ BlockAt(h) \in 1 .. minted
  BY <1>0, <1>a, AnchorReadFacts, ScanningFacts
<1>2. Frame /\ start' = start /\ handled' = handled /\ file' = file /\ mem' = mem
  BY DEF ReadAnchor, Frame
<1>3. PICK b \in ReadHash(h) :
        /\ Recall(h, b)
        /\ round' = IF b = NoHash THEN [round EXCEPT !.todo = @ \ {h}]
                    ELSE [round EXCEPT
                      !.todo = @ \ {h},
                      !.anchors = RecordCheckpoint(@, h, b),
                      !.hash = IF h = round.to THEN b ELSE @]
  BY <1>a DEF ReadAnchor
<1>4. /\ b \in {NoHash, BlockAt(h)} /\ (unread => unread')
      /\ b # BlockAt(h) => unread' /\ "hash" \in Faults
  BY <1>3, ReadFacts
<1>b. BlockAt(h) # NoHash /\ (b = NoHash => unread' /\ ~Deep)
  <2>1. BlockAt(h) # NoHash
    BY <1>0, <1>1, ChainFacts DEF NoHash
  <2> QED BY <1>0, <1>4, <2>1, SafeFacts
<1>5. PICK r : /\ round' = r /\ r.pc = "anchors" /\ r.from = round.from /\ r.to = round.to
               /\ r.todo = round.todo \ {h}
               /\ \/ b = NoHash /\ r.anchors = round.anchors /\ r.hash = round.hash
                  \/ /\ b # NoHash /\ r.anchors = RecordCheckpoint(round.anchors, h, b)
                     /\ \/ h = round.to /\ r.hash = b
                        \/ h # round.to /\ r.hash = round.hash
  <2>1. CASE b = NoHash
    <3> DEFINE r == [round EXCEPT !.todo = @ \ {h}]
    <3>1. /\ r.pc = "anchors" /\ r.from = round.from /\ r.to = round.to
          /\ r.todo = round.todo \ {h} /\ r.anchors = round.anchors /\ r.hash = round.hash
      BY <1>0, ScanningFacts DEF Rounds
    <3>2. round' = r
      BY <1>3, <2>1
    <3> HIDE DEF r
    <3> QED BY <2>1, <3>1, <3>2
  <2>2. CASE b # NoHash
    <3> DEFINE A == RecordCheckpoint(round.anchors, h, b)
               k == IF h = round.to THEN b ELSE round.hash
               r == [round EXCEPT !.todo = @ \ {h}, !.anchors = A, !.hash = k]
    <3>0. round' = r
      BY <1>3, <2>2
    <3> HIDE DEF A
    <3>1. /\ r.pc = "anchors" /\ r.from = round.from /\ r.to = round.to
          /\ r.todo = round.todo \ {h} /\ r.anchors = A /\ r.hash = k
      BY <1>0, ScanningFacts DEF Rounds
    <3> HIDE DEF r
    <3> QED BY <2>2, <3>0, <3>1 DEF A
  <2> QED BY <2>1, <2>2
<1>6. /\ "shrink" \notin Faults => round.to <= FinalizedHead
      /\ mem.next # NoBlock => ScannedUpTo(round.from - 1)
      /\ \A g \in round.from .. round.to : BlockAt(g) \in handled
      /\ \A a \in round.anchors : a \in mem.anchors \/ NewAnchor(round, a)
      /\ round.hash = NoHash => round.to \in round.todo \/ (unread /\ ~Deep)
  BY <1>0, SoundFacts DEF RoundSound, Scanning
<1>7. \A a \in r.anchors : a \in mem.anchors \/ NewAnchor(r, a)
  <2>0. \A a : NewAnchor(round, a) => NewAnchor(r, a)
    BY <1>5 DEF NewAnchor
  <2>1. CASE b = NoHash
    BY <1>5, <1>6, <2>0, <2>1
  <2>2. CASE b # NoHash
    <3>1. b = BlockAt(h)
      BY <1>4, <2>2
    <3>2. NewAnchor(r, Anchor(h, b))
      BY <1>1, <1>5, <3>1 DEF NewAnchor, Canonical, Anchor
    <3>3. r.anchors \subseteq round.anchors \cup {Anchor(h, b)}
      <4>1. AnchorsInv(round.anchors, round.to) /\ round.to \in Int
        BY <1>0, ScanningFacts DEF RoundInv
      <4>2. RecordCheckpoint(round.anchors, h, b) \subseteq round.anchors \cup {Anchor(h, b)}
        BY <1>0, <1>1, <4>1, RecordKeeps
      <4> QED BY <1>5, <2>2, <4>2
    <3> QED BY <1>6, <2>0, <3>2, <3>3
  <2> QED BY <2>1, <2>2
<1>8. r.hash = NoHash => round.to \in r.todo \/ (unread' /\ ~Deep)
  <2>1. CASE b = NoHash
    BY <1>b, <2>1
  <2>2. CASE b # NoHash
    BY <1>4, <1>5, <1>6, <2>2
  <2> QED BY <2>1, <2>2
<1>9. ASSUME NEW m, m = mem PROVE RoundSound(r, m)'
  <2>1. PICK from, to : from = round.from /\ to = round.to
    OBVIOUS
  <2>2. /\ "shrink" \notin Faults => to <= FinalizedHead
        /\ m.next # NoBlock => ScannedUpTo(from - 1)
        /\ \A g \in from .. to : BlockAt(g) \in handled
        /\ \A a \in r.anchors : a \in m.anchors \/ NewAnchor(r, a)
    BY <1>6, <1>7, <1>9, <2>1
  <2>3. /\ m.next # NoBlock => ScannedUpTo(from - 1)'
        /\ \A g \in from .. to : BlockAt(g)' \in handled'
        /\ \A a \in r.anchors : a \in m.anchors \/ NewAnchor(r, a)'
        /\ Faults' = Faults /\ FinalizedHead' = FinalizedHead /\ (Deep <=> Deep')
    <3>1. handled \subseteq handled'
      BY <1>2
    <3>2. \A a : NewAnchor(r, a) => NewAnchor(r, a)'
      BY <1>2, FrameFacts DEF NewAnchor, Canonical
    <3> QED BY <1>2, <1>4, <2>2, <3>1, <3>2, SoundStays, FrameFacts
  <2>4. r.hash = NoHash => r.to \in r.todo \/ (unread' /\ ~Deep')
    BY <1>5, <1>8, <2>3
  <2> QED BY <1>5, <2>1, <2>2, <2>3, <2>4 DEF RoundSound, Comparing, Scanning
<1>10. r.pc \notin Before
  BY <1>5 DEF Before
<1>11. handled \subseteq handled'
  BY <1>2
<1> QED BY <1>2, <1>4, <1>5, <1>9, <1>10, <1>11, Unmoved

\* The cursor that is saved names the last block scanned, or has no hash for it and is
\* true without.
LEMMA SaveSound ==
  ASSUME TypeInv, StartInv, Sound, SaveCursor
  PROVE  Sound'
<1>0. round.pc = "anchors" /\ round.pc \in Scanning /\ round.todo = {}
  BY DEF SaveCursor, Scanning
<1>1. PICK m \in Mems, f \in Files :
        /\ mem' = m /\ file' = f
        /\ m.next = round.to + 1 /\ m.hash = round.hash /\ m.anchors = round.anchors
        /\ f.next = round.to + 1 /\ f.hash = round.hash /\ f.anchors = round.anchors
        /\ m.restored /\ m.next # NoBlock
  BY SaveFacts
<1>2. Frame /\ UNCHANGED <<handled, faults, unread>> /\ round' = IdleRound
      /\ start' = IF mem.next = NoBlock THEN round.from ELSE start
  BY DEF SaveCursor, Frame
<1>3. /\ ChainInv /\ round.to \in 0 .. Tip /\ round.to \in Int /\ Len(chain) = Tip + 1
      /\ round.hash \in {NoHash, BlockAt(round.to)} /\ Tip \in Int
  <2>1. /\ ChainInv /\ round.to \in Nat /\ round.to <= Tip /\ Tip \in 0 .. MaxHeight
        /\ MaxHeight \in Nat /\ round.hash \in {NoHash, BlockAt(round.to)}
    BY <1>0, ScanningFacts DEF RoundInv
  <2>2. Len(chain) = Tip + 1
    BY <2>1, ChainFacts
  <2> QED BY <2>1, <2>2
<1>a. /\ Tip' = Tip /\ Len(chain') = Len(chain) /\ Faults' = Faults /\ (Deep <=> Deep')
      /\ FinalizedHead' = FinalizedHead /\ \A h : BlockAt(h)' = BlockAt(h)
  BY <1>2, FrameFacts DEF Frame
<1>b. /\ round.from \in Nat /\ round.to \in Nat /\ round.to \in round.from .. round.to
      /\ \A h \in round.from .. round.to : h \in 0 .. Tip /\ BlockAt(h) \in handled
      /\ \A a \in round.anchors : a \in mem.anchors \/ NewAnchor(round, a)
      /\ "shrink" \notin Faults => round.to <= FinalizedHead
      /\ round.hash = NoHash => unread /\ ~Deep
  BY <1>0, ScanningFacts, SoundFacts DEF RoundSound, Scanning
\* What was scanned before counts if there was a cursor; else the round is the first.
<1>4. ASSUME NEW h \in round.from .. round.to PROVE ScannedUpTo(h)'
  <2>1. CASE mem.next # NoBlock
    <3>1. start' = start /\ ScannedUpTo(h)
      BY <1>0, <1>2, <2>1, ScannedRange
    <3> QED BY <1>2, <3>1, SoundStays
  <2>2. CASE mem.next = NoBlock
    <3>1. start' = round.from
      BY <1>2, <2>2
    <3> SUFFICES ASSUME NEW g \in round.from .. h PROVE BlockAt(g) \in handled
      BY <1>2, <1>a, <3>1 DEF ScannedUpTo
    <3>2. g \in round.from .. round.to
      BY <1>b
    <3> QED BY <1>b, <3>2
  <2> QED BY <2>1, <2>2
<1>5. \A h \in round.from .. round.to : \A b : b = BlockAt(h) => Vouches(b)'
  <2> SUFFICES ASSUME NEW h \in round.from .. round.to, NEW g \in 0 .. Tip,
                      BlockAt(g) = BlockAt(h)
               PROVE  ScannedUpTo(g)'
    BY <1>a DEF Vouches
  <2>1. g = h
    BY <1>3, <1>b, ChainFacts
  <2> QED BY <1>4, <2>1
<1>6. \A b : b = round.hash => Vouches(b)'
  <2>1. \A b : b = NoHash => Vouches(b)'
    BY <1>3, <1>a, ChainFacts DEF Vouches, NoHash
  <2> QED BY <1>3, <1>5, <1>b, <2>1
<1>c. ASSUME NEW a \in round.anchors PROVE Vouches(a.hash)'
  <2>1. CASE a \in mem.anchors
    <3>1. start' = start /\ Vouches(a.hash)
      BY <1>0, <1>2, <2>1, ScanningFacts, SoundFacts DEF CursorInv, CursorSound
    <3> QED BY <1>2, <3>1, SoundStays
  <2>2. CASE NewAnchor(round, a)
    BY <1>5, <2>2 DEF NewAnchor, Canonical
  <2> QED BY <1>b, <2>1, <2>2
<1>7. ASSUME NEW c, c.next = round.to + 1, c.hash = round.hash, c.anchors = round.anchors
      PROVE  CursorSound(c)' /\ (Hashless(c) => TrueOutright(c)' /\ unread')
  <2>1. c.next - 1 = round.to /\ c.next <= Len(chain')
    BY <1>3, <1>7, <1>a
  <2>2. ScannedUpTo(c.next - 1)'
    <3>1. PICK h \in round.from .. round.to : h = round.to
      BY <1>b
    <3>2. ScannedUpTo(h)' /\ c.next - 1 = h
      BY <1>4, <2>1, <3>1
    <3> QED BY <3>2
  <2>3. /\ Vouches(c.hash)' /\ \A a \in c.anchors : Vouches(a.hash)'
        /\ "shrink" \notin Faults => c.next - 1 <= FinalizedHead
        /\ c.hash = NoHash => unread' /\ ~Deep
    BY <1>2, <1>6, <1>7, <1>b, <1>c, <2>1
  <2>4. HasAncestor(c)'
    BY <1>3, <1>7, <1>a, <2>1 DEF HasAncestor
  <2>5. CursorSound(c)'
    BY <1>a, <2>1, <2>2, <2>3, <2>4 DEF CursorSound
  <2> QED BY <1>a, <2>1, <2>2, <2>3, <2>5 DEF Hashless, TrueOutright
<1>8. /\ CursorSound(m)' /\ CursorSound(f)' /\ HashlessFile(f)' /\ HashlessMem(m, IdleRound)'
      /\ m.anchors \subseteq f.anchors
  BY <1>1, <1>7 DEF HashlessFile, HashlessMem, Hashless
<1>9. RoundSound(IdleRound, m)'
  BY <1>3, StartTypes, BeforeSound DEF Before
<1> QED BY <1>1, <1>2, <1>8, <1>9, SoundMoves

\* A round that fails: where that happens, a memory without a hash is true outright at
\* any point of a round.
LEMMA RoundFailsSound ==
  ASSUME TypeInv, Sound, RoundFails
  PROVE  Sound'
<1>1. /\ Frame /\ UNCHANGED <<start, handled, file, mem, unread>> /\ round' = IdleRound
      /\ "round" \in Faults
  BY DEF RoundFails, Frame
<1>2. IdleRound.pc \in Before
  BY StateFacts, StartTypes DEF Before
<1> QED BY <1>1, <1>2, BeforeSound, Unmoved

\* A process that dies forgets, and the file is as sound as it was.
LEMMA CrashSound ==
  ASSUME TypeInv, Sound, Crash
  PROVE  Sound'
<1>1. /\ Frame /\ UNCHANGED <<start, handled, file, unread>>
      /\ round' = IdleRound /\ mem' = FreshMemory
  BY DEF Crash, Frame
<1>2. NoBlock - 1 <= FinalizedHead
  BY StateFacts, ChainFacts DEF NoBlock
<1>3. CursorSound(FreshMemory)
  BY <1>2, StateFacts, EmptySound DEF FreshMemory
<1>4. /\ HashlessMem(FreshMemory, IdleRound) /\ FreshMemory.anchors \subseteq file.anchors
  BY DEF HashlessMem, Hashless, FreshMemory
<1>5. RoundSound(IdleRound, FreshMemory)
  BY StateFacts, StartTypes, BeforeSound DEF Before
<1> QED BY <1>1, <1>3, <1>4, <1>5, MemoryMoves

\* What a chain that changes leaves: below the fork everything is what it was, and no hash
\* that was ever used is anywhere else.
LEMMA KeptFacts ==
  ASSUME TypeInv, StartInv, ChainInv', NEW keep, ChainKept(keep)
  PROVE  /\ keep \in Nat /\ Tip \in Nat /\ keep <= Tip + 1 /\ keep <= Tip' + 1 /\ Tip' \in Nat
         /\ Floor' = Floor /\ Faults' = Faults /\ (Deep <=> Deep') /\ handled' = handled
         /\ \A h \in 0 .. keep - 1 : BlockAt(h)' = BlockAt(h)
         /\ \A b \in 1 .. minted : \A h :
              BlockAt(h)' = b => h \in 0 .. keep - 1 /\ BlockAt(h) = b
         /\ \A h \in Int : h < keep /\ ScannedUpTo(h) => ScannedUpTo(h)'
         /\ \A b \in 0 .. minted : Vouches(b) => Vouches(b)'
         /\ "shrink" \notin Faults => FinalizedHead <= FinalizedHead'
<1>1. /\ keep \in Nat /\ Tip \in Nat /\ keep <= Tip + 1 /\ keep <= Tip' + 1 /\ Tip' \in Nat
      /\ Len(chain) = Tip + 1 /\ Len(chain') = Tip' + 1 /\ Floor \in Nat
      /\ Confirmations \in Nat
  <2>1. ChainInv /\ config \in Deployments
    BY StateFacts DEF ChainInv
  <2>2. Tip \in Nat /\ Len(chain) = Tip + 1 /\ Floor \in Nat /\ Confirmations \in Nat
        /\ Len(chain) \in Nat
    BY <2>1, ChainFacts, Bounds
  <2>3. Tip' = Len(chain') - 1 /\ Len(chain') \in 1 .. MaxHeight + 1 /\ MaxHeight \in Nat
    BY <2>1, Bounds DEF Tip, ChainInv
  <2>4. Tip' \in Nat /\ Len(chain') = Tip' + 1
    BY <2>3
  <2>5. keep \in 0 .. Len(chain) /\ keep <= Len(chain')
    BY DEF ChainKept
  <2>6. keep \in Nat /\ keep <= Tip + 1 /\ keep <= Tip' + 1
    <3>1. PICK n, t, l, k : n = Len(chain') /\ t = Tip' /\ l = Len(chain) /\ k = Tip
      OBVIOUS
    <3>2. n \in Nat /\ t \in Nat /\ n = t + 1 /\ l \in Nat /\ l = k + 1 /\ k \in Nat
      BY <2>2, <2>4, <3>1 DEF Tip
    <3>3. keep \in 0 .. l /\ keep <= n
      BY <2>5, <3>1
    <3>4. keep \in Nat /\ keep <= k + 1 /\ keep <= t + 1
      BY <3>2, <3>3
    <3> QED BY <3>1, <3>4 DEF Tip
  <2> QED BY <2>2, <2>4, <2>6
<1>2. /\ Floor' = Floor /\ start' = start /\ Faults' = Faults
      /\ Deep <=> Deep'
      /\ handled' = handled
      /\ \A h \in 0 .. keep - 1 : BlockAt(h)' = BlockAt(h)
      /\ minted \in Nat
  BY DEF ChainKept, Floor, Configured, Faults, Deep
<1>3. \A b \in 1 .. minted : \A h : BlockAt(h)' = b => h \in 0 .. keep - 1 /\ BlockAt(h) = b
  BY DEF ChainKept
<1>4. ASSUME NEW h \in Int, h < keep, ScannedUpTo(h) PROVE ScannedUpTo(h)'
  <2> SUFFICES ASSUME NEW g \in start .. h PROVE BlockAt(g)' \in handled
    BY <1>2 DEF ScannedUpTo
  <2>1. g \in 0 .. keep - 1 /\ g <= Tip
    BY <1>1, <1>4 DEF StartInv
  <2> QED BY <1>2, <1>4, <2>1 DEF ScannedUpTo
<1>5. \A h \in 0 .. Tip' : BlockAt(h)' # NoHash
  <2> SUFFICES ASSUME NEW h \in 0 .. Tip' PROVE BlockAt(h)' # NoHash
    OBVIOUS
  <2>1. h + 1 \in 1 .. Len(chain') /\ BlockAt(h)' = chain'[h + 1]
    BY <1>1 DEF BlockAt, Tip
  <2>2. chain' \in Seq(1 .. minted') /\ minted' \in Nat
    BY DEF ChainInv
  <2>3. chain'[h + 1] \in 1 .. minted'
    BY <2>1, <2>2, ElementOfSeq
  <2> QED BY <2>1, <2>2, <2>3 DEF NoHash
<1>6. ASSUME NEW b \in 0 .. minted, Vouches(b) PROVE Vouches(b)'
  <2> SUFFICES ASSUME NEW h \in 0 .. Tip', BlockAt(h)' = b PROVE ScannedUpTo(h)'
    BY DEF Vouches
  <2>1. b \in 1 .. minted
    BY <1>2, <1>5 DEF NoHash
  <2>2. h \in 0 .. keep - 1 /\ BlockAt(h) = b
    BY <1>3, <2>1
  <2>3. h \in 0 .. Tip /\ h \in Int /\ h < keep
    BY <1>1, <2>2
  <2> QED BY <1>4, <1>6, <2>2, <2>3 DEF Vouches
<1>7. "shrink" \notin Faults => FinalizedHead <= FinalizedHead'
  <2>1. "shrink" \notin Faults => Tip <= Tip'
    <3>1. "shrink" \notin Faults => Len(chain) <= Len(chain')
      BY DEF ChainKept
    <3>2. PICK n, l : n = Len(chain') /\ l = Len(chain) 
      OBVIOUS
    <3>3. "shrink" \notin Faults => l <= n
      BY <3>1, <3>2
    <3>4. n = Tip' + 1 /\ l = Tip + 1
      BY <1>1, <3>2 DEF Tip
    <3> QED BY <1>1, <3>3, <3>4 DEF Tip
  <2> QED BY <1>1, <2>1 DEF FinalizedHead, Tip
<1> QED BY <1>1, <1>2, <1>3, <1>4, <1>6, <1>7

\* A canonical anchor below the fork is left, or the chain only grew.
LEMMA AnchorLeft ==
  ASSUME TypeInv, Sound, NEW keep, ChainKept(keep), ~Deep
  PROVE  \/ keep = Len(chain) /\ reorgs' = reorgs
         \/ mem.next = NoBlock /\ file.next = NoBlock
         \/ /\ ~unread
            /\ \E a \in file.anchors : a.height < keep /\ Canonical(a)
            /\ mem.restored => \E a \in mem.anchors : a.height < keep /\ Canonical(a)
BY SoundFacts DEF ChainKept, WithinWindow, Deep, Canonical

\* What an anchor says survives below the fork.
LEMMA AnchorKept ==
  ASSUME TypeInv, StartInv, ChainInv', NEW keep, ChainKept(keep), NEW a \in Anchors
  PROVE  /\ Canonical(a)' => Canonical(a)
         /\ Canonical(a) /\ (a.height < keep \/ keep = Len(chain)) => Canonical(a)'
<1>0. /\ a.height \in Nat /\ a.hash \in 1 .. minted /\ ChainInv /\ Len(chain) = Tip + 1
      /\ keep \in Nat /\ a.hash # NoHash
  BY StateFacts, FieldTypes, ChainFacts, KeptFacts DEF NoHash
<1>1. Canonical(a)' => Canonical(a)
  BY <1>0, KeptFacts DEF Canonical
<1>2. ASSUME Canonical(a), a.height < keep PROVE Canonical(a)'
  <2>1. a.height \in 0 .. keep - 1
    BY <1>0, <1>2
  <2> QED BY <1>2, <2>1, KeptFacts DEF Canonical
<1>3. ASSUME Canonical(a), keep = Len(chain) PROVE Canonical(a)'
  <2>1. a.height \in 0 .. Tip /\ Tip \in Int
    BY <1>0, <1>3, ChainFacts DEF Canonical
  <2>2. a.height < keep
    BY <1>0, <1>3, <2>1
  <2> QED BY <1>2, <1>3, <2>2
<1> QED BY <1>1, <1>2, <1>3

\* A cursor stays sound when the chain grows, or when the fork leaves one of its anchors.
LEMMA CursorKept ==
  ASSUME TypeInv, StartInv, ChainInv', NEW keep, ChainKept(keep), NEW c, CursorSound(c),
         c.anchors \subseteq Anchors, c.hash \in 0 .. minted, c.next \in Int,
         \/ Deep \/ c.hash = NoHash
         \/ keep = Len(chain)
         \/ \E a \in c.anchors : a.height < keep /\ Canonical(a)
  PROVE  CursorSound(c)'
<1>0. /\ keep \in Nat /\ Tip \in Nat /\ Len(chain) = Tip + 1 /\ ChainInv /\ minted \in Nat
      /\ Len(chain') \in Nat /\ keep <= Len(chain')
  <2>1. Len(chain') \in Nat /\ keep <= Len(chain')
    BY DEF ChainInv, ChainKept
  <2> QED BY <2>1, StateFacts, ChainFacts, KeptFacts
<1>1. Vouches(c.hash)'
  BY KeptFacts DEF CursorSound
<1>2. \A a \in c.anchors : Vouches(a.hash)'
  <2> SUFFICES ASSUME NEW a \in c.anchors PROVE Vouches(a.hash)'
    OBVIOUS
  <2>1. a.hash \in 0 .. minted
    BY <1>0, FieldTypes
  <2> QED BY <2>1, KeptFacts DEF CursorSound
<1>3. HasAncestor(c)'
  <2> SUFFICES ASSUME ~Deep, c.hash # NoHash
               PROVE  BlockAt(c.next - 1)' = c.hash \/ \E a \in c.anchors : Canonical(a)'
    BY KeptFacts DEF HasAncestor
  <2>1. CASE \E a \in c.anchors : a.height < keep /\ Canonical(a)
    BY <2>1, AnchorKept
  <2>2. CASE keep = Len(chain)
    <3>1. BlockAt(c.next - 1) = c.hash \/ \E a \in c.anchors : Canonical(a)
      BY DEF CursorSound, HasAncestor
    <3>2. CASE \E a \in c.anchors : Canonical(a)
      BY <2>2, <3>2, AnchorKept
    <3>3. CASE BlockAt(c.next - 1) = c.hash
      <4>1. c.next - 1 \in 0 .. Tip
        BY <1>0, <3>3, ChainFacts
      <4>2. c.next - 1 \in 0 .. keep - 1
        BY <1>0, <2>2, <4>1
      <4> QED BY <3>3, <4>2, KeptFacts
    <3> QED BY <3>1, <3>2, <3>3
  <2> QED BY <2>1, <2>2
<1>4. ASSUME reorgs' = 0, c.next # NoBlock
      PROVE  c.next <= Len(chain') /\ ScannedUpTo(c.next - 1)'
  <2>1. reorgs = 0 /\ keep = Len(chain)
    BY <1>4 DEF ChainKept
  <2>2. c.next <= Len(chain) /\ ScannedUpTo(c.next - 1)
    BY <1>4, <2>1 DEF CursorSound
  <2>3. c.next - 1 \in Int /\ c.next - 1 < keep /\ c.next <= Len(chain')
    BY <1>0, <2>1, <2>2
  <2> QED BY <2>2, <2>3, KeptFacts
<1>5. "shrink" \notin Faults => c.next - 1 <= FinalizedHead'
  <2>1. FinalizedHead \in Int /\ FinalizedHead' \in Int
    <3>1. Confirmations \in Nat /\ Tip \in Nat /\ Tip' \in Nat
      BY <1>0, KeptFacts, Bounds DEF ChainInv
    <3> QED BY <3>1 DEF FinalizedHead
  <2>2. "shrink" \notin Faults => c.next - 1 <= FinalizedHead /\ FinalizedHead <= FinalizedHead'
    BY KeptFacts DEF CursorSound
  <2> QED BY <2>1, <2>2
<1>6. Faults' = Faults
  BY KeptFacts
<1> QED BY <1>1, <1>2, <1>3, <1>4, <1>5, <1>6 DEF CursorSound

\* A cursor that is true without a hash stays true when the chain grows.
LEMMA TruthKept ==
  ASSUME TypeInv, StartInv, ChainInv', NEW keep, ChainKept(keep), keep = Len(chain),
         NEW c, c.next \in Int, TrueOutright(c)
  PROVE  TrueOutright(c)'
<1>1. c.next <= Len(chain) /\ ScannedUpTo(c.next - 1) /\ Len(chain) \in Nat
      /\ Len(chain') \in Nat /\ keep <= Len(chain') /\ ~Deep
  BY StateFacts, ChainFacts DEF TrueOutright, ChainKept, ChainInv
<1>2. c.next - 1 \in Int /\ c.next - 1 < keep /\ c.next <= Len(chain')
  BY <1>1
<1> QED BY <1>1, <1>2, KeptFacts DEF TrueOutright

\* The round in progress works below the fork, and finds its anchor in the walk.
LEMMA RoundKept ==
  ASSUME TypeInv, StartInv, ChainInv', Sound, NEW keep, ChainKept(keep),
         NEW r, r = round, NEW m, m = mem
  PROVE  RoundSound(r, m)'
<1>0. /\ RoundSound(r, m) /\ RoundInv(r, m) /\ r \in Rounds /\ m \in Mems
      /\ Faults' = Faults /\ (Deep <=> Deep') /\ handled' = handled /\ keep \in Nat
      /\ ChainInv /\ r.from \in Int /\ r.to \in Int
      /\ (unread => unread')
  <2>1. unread' = unread
    BY DEF ChainKept
  <2> QED BY <2>1, StateFacts, SoundFacts, KeptFacts, FieldTypes
<1>1. ASSUME r.pc \in Comparing \cup Scanning, "shrink" \notin Faults
      PROVE  r.to <= FinalizedHead'
  <2>1. /\ r.to <= FinalizedHead /\ FinalizedHead <= FinalizedHead' /\ FinalizedHead \in Int
    BY <1>0, <1>1, KeptFacts, ChainFacts DEF RoundSound
  <2>2. FinalizedHead' \in Int
    <3>1. Confirmations \in Nat /\ Tip' \in Nat
      BY <1>0, KeptFacts, Bounds DEF ChainInv
    <3> QED BY <3>1 DEF FinalizedHead, Tip
  <2> QED BY <1>0, <2>1, <2>2 DEF FinalizedHead
<1>2. ASSUME r.pc = "walk", ~Deep
      PROVE  /\ \E a \in m.anchors : Canonical(a)'
             /\ \A a \in m.anchors : Canonical(a)' => a.height \in r.todo
  <2>1. /\ \E a \in m.anchors : Canonical(a)
        /\ \A a \in m.anchors : Canonical(a) => a.height \in r.todo
    BY <1>0, <1>2 DEF RoundSound
  <2>2. m.anchors \subseteq Anchors
    BY <1>0, FieldTypes
  <2>3. mem.restored /\ mem.next # NoBlock
    BY <1>2, ComparingFacts DEF Comparing
  <2>4. keep = Len(chain) \/ \E a \in m.anchors : a.height < keep /\ Canonical(a)
    BY <1>2, <2>3, AnchorLeft
  <2>5. \E a \in m.anchors : Canonical(a)'
    BY <2>1, <2>2, <2>4, AnchorKept
  <2> QED BY <2>1, <2>2, <2>5, AnchorKept
<1>3. ASSUME r.pc \in Scanning
      PROVE  /\ m.next # NoBlock => ScannedUpTo(r.from - 1)'
             /\ \A h \in r.from .. r.to : BlockAt(h)' = BlockAt(h)
  <2>1. /\ r.to < keep /\ r.from <= r.to /\ Floor <= r.from /\ Floor \in Nat
        /\ m.next # NoBlock => ScannedUpTo(r.from - 1)
    BY <1>0, <1>3, Bounds DEF ChainKept, RoundSound, RoundInv, ChainInv
  <2>2. r.from - 1 \in Int /\ r.from - 1 < keep
    BY <1>0, <2>1
  <2>3. \A h \in r.from .. r.to : h \in 0 .. keep - 1
    BY <1>0, <2>1
  <2> QED BY <2>1, <2>2, <2>3, KeptFacts
<1>4. ASSUME r.pc = "anchors"
      PROVE  \A a \in r.anchors : a \in m.anchors \/ NewAnchor(r, a)'
  <2>1. \A a : NewAnchor(r, a) => NewAnchor(r, a)'
    BY <1>3, <1>4 DEF NewAnchor, Canonical, Scanning
  <2> QED BY <1>0, <1>4, <2>1 DEF RoundSound
<1>5. \A h \in r.from .. r.to : /\ Asked(r, h) <=> Asked(r, h)'
                                /\ r.pc \in Scanning => (AtHand(r, h) <=> AtHand(r, h)')
  BY <1>3 DEF Asked, AtHand, Anchor
<1>6. r.pc = "logs" => \A h \in r.from .. r.to : Asked(r, h)' \/ AtHand(r, h)'
  BY <1>0, <1>5 DEF RoundSound, Scanning
<1>7. r.pc = "handle" => \A h \in r.from .. r.to : BlockAt(h)' \in handled' \/ AtHand(r, h)'
  BY <1>0, <1>3, <1>5 DEF RoundSound, Scanning
<1>8. r.pc = "anchors" => \A h \in r.from .. r.to : BlockAt(h)' \in handled'
  BY <1>0, <1>3 DEF RoundSound, Scanning
<1>9. Floor' = Floor
  BY KeptFacts
<1>10. /\ r.pc \in Comparing /\ Deep => Floor <= r.to
       /\ r.pc = "anchors" => (r.hash = NoHash => r.to \in r.todo \/ (unread /\ ~Deep))
  BY <1>0 DEF RoundSound
<1> QED BY <1>0, <1>1, <1>2, <1>3, <1>4, <1>6, <1>7, <1>8, <1>9, <1>10 DEF RoundSound

\* Whatever the chain does, no cursor claims more than was scanned.
LEMMA ChainSound ==
  ASSUME TypeInv, StartInv, ChainInv', Sound, NEW keep, ChainKept(keep)
  PROVE  Sound'
<1>0. PICK m, f, r : m = mem /\ f = file /\ r = round
  OBVIOUS
<1>1. /\ mem' = m /\ file' = f /\ round' = r /\ unread' = unread /\ Faults' = Faults
      /\ keep = Len(chain) \/ WithinWindow(keep)
  BY <1>0, KeptFacts DEF ChainKept
<1>2. /\ m \in Mems /\ f \in Files /\ CursorInv(m) /\ CursorInv(f) /\ MemInv(m, r)
      /\ CursorSound(m) /\ CursorSound(f) /\ m.anchors \subseteq f.anchors
      /\ HashlessFile(f) /\ HashlessMem(m, r) /\ ChainInv
  BY <1>0, StateFacts, SoundFacts
<1>3. /\ m.anchors \subseteq Anchors /\ f.anchors \subseteq Anchors
      /\ m.hash \in 0 .. minted /\ f.hash \in 0 .. minted
      /\ m.next \in Int /\ f.next \in Int
  BY <1>2, FieldTypes
<1>4. CASE keep = Len(chain)
  <2>1. CursorSound(m)' /\ CursorSound(f)'
    BY <1>2, <1>3, <1>4, CursorKept
  <2>2. /\ TrueOutright(m) => TrueOutright(m)'
        /\ TrueOutright(f) => TrueOutright(f)'
    BY <1>3, <1>4, TruthKept
  <2>3. HashlessFile(f)' /\ HashlessMem(m, r)'
    BY <1>1, <1>2, <2>2 DEF HashlessFile, HashlessMem, Hashless
  <2>4. RoundSound(r, m)'
    BY <1>0, RoundKept
  <2> QED BY <1>1, <1>2, <2>1, <2>3, <2>4, SoundMoves
<1>5. CASE keep # Len(chain)
  <2>1. WithinWindow(keep)
    BY <1>1, <1>5
  <2>2. \/ Deep
        \/ m.next = NoBlock /\ f.next = NoBlock
        \/ /\ ~unread
           /\ \E a \in f.anchors : a.height < keep /\ Canonical(a)
           /\ m.restored => \E a \in m.anchors : a.height < keep /\ Canonical(a)
    BY <1>0, <1>2, <2>1 DEF WithinWindow, Deep, Canonical
  <2>3. (m.next = NoBlock => m.hash = NoHash) /\ (f.next = NoBlock => f.hash = NoHash)
        /\ (~m.restored => m.next = NoBlock)
    BY <1>2 DEF CursorInv, MemInv
  <2>4. CursorSound(m)' /\ CursorSound(f)'
    BY <1>2, <1>3, <2>2, <2>3, CursorKept
  <2>5. ~Hashless(f)
    BY <1>2, <2>2 DEF HashlessFile, TrueOutright, Hashless
  <2>6. ~(Hashless(m) /\ (r.pc \in Before \/ "round" \in Faults))
    BY <1>2, <2>2, <2>3 DEF HashlessMem, TrueOutright, Hashless
  <2>7. HashlessFile(f)' /\ HashlessMem(m, r)'
    BY <1>1, <2>5, <2>6 DEF HashlessFile, HashlessMem, Hashless
  <2>8. RoundSound(r, m)'
    BY <1>0, RoundKept
  <2> QED BY <1>1, <1>2, <2>4, <2>7, <2>8, SoundMoves
<1> QED BY <1>4, <1>5

\* Every step of a safe deployment keeps the second layer.
LEMMA SoundStep ==
  ASSUME SafeDeployments, IInv, [Next]_vars
  PROVE  IInv'
<1>0. TypeInv /\ StartInv /\ Sound
  BY DEF IInv
<1>1. TypeInv' /\ StartInv'
  BY <1>0, TypeStep, StartStep
<1>2. Sound'
  <2>1. CASE RoundStep
    BY <1>0, <2>1, WakeSound, RestoreSound, OvershootSound, ReadHeadSound,
       ContinuitySound, DetectedSound, WalkSound, RescanSound, GetLogsSound,
       HandleLogSound, LogsHandledSound, ReadAnchorSound, SaveSound DEF RoundStep
  <2>2. CASE ChainStep
    BY <1>0, <2>2, ChainStepKeeps, ChainSound
  <2>3. CASE RoundFails
    BY <1>0, <2>3, RoundFailsSound
  <2>4. CASE Crash
    BY <1>0, <2>4, CrashSound
  <2>5. CASE UNCHANGED vars
    <3>1. /\ Frame /\ start' = start /\ handled \subseteq handled' /\ (unread => unread')
          /\ file' = file /\ mem' = mem /\ round' = round
      BY <2>5 DEF vars, Frame
    <3>2. PICK m, r : m = mem /\ r = round
      OBVIOUS
    <3>3. /\ CursorSound(m) /\ m.anchors \subseteq file.anchors /\ HashlessMem(m, r)
          /\ RoundSound(r, m) /\ mem' = m /\ round' = r
      BY <1>0, <3>1, <3>2, SoundFacts
    <3> QED BY <1>0, <3>1, <3>3, MemoryMoves
  <2> QED BY <2>1, <2>2, <2>3, <2>4, <2>5 DEF Next
<1> QED BY <1>1, <1>2 DEF IInv

\* Both layers hold of every safe deployment.
LEMMA IInvAlways ==
  ASSUME SafeDeployments
  PROVE  Spec => []IInv
<1>1. Init => IInv
  BY InitTypes, StartsAtFloor, InitSound DEF IInv
<1>2. IInv /\ [Next]_vars => IInv'
  BY SoundStep
<1> QED BY <1>1, <1>2, PTL DEF Spec

\* "between two rounds, and in the file at any time": in a safe deployment a cursor never
\* hides a block.  Whatever the chain did, and whenever the process died, every canonical
\* block below a cursor was handled, or the hash it carries exposes the reorganisation.
THEOREM NoBlockHidden ==
  ASSUME SafeDeployments
  PROVE  Spec => []CursorHidesNoBlock
<1>1. IInv => CursorHidesNoBlock
  <2> SUFFICES ASSUME IInv PROVE CursorHidesNoBlock
    OBVIOUS
  <2>1. /\ ChainInv /\ CursorInv(mem) /\ CursorInv(file)
        /\ CursorSound(file) /\ CursorSound(mem)
        /\ HashlessFile(file) /\ HashlessMem(mem, round)
    BY StateFacts, SoundFacts DEF IInv
  <2>2. ASSUME NEW c, CursorSound(c), Unsuspicious(c), c.hash # NoHash
        PROVE  ScannedUpTo(c.next - 1)
    <3>1. BlockAt(c.next - 1) = c.hash
      BY <2>2 DEF Unsuspicious
    <3>2. c.next - 1 \in 0 .. Tip
      BY <2>1, <2>2, <3>1, ChainFacts
    <3> QED BY <2>2, <3>1, <3>2 DEF CursorSound, Vouches
  <2>3. ASSUME Unsuspicious(file) PROVE ScannedUpTo(file.next - 1)
    <3>1. CASE file.hash # NoHash
      BY <2>1, <2>2, <2>3, <3>1
    <3>2. CASE file.hash = NoHash
      BY <2>1, <2>3, <3>2 DEF Unsuspicious, HashlessFile, Hashless, TrueOutright
    <3> QED BY <3>1, <3>2
  <2>4. ASSUME round.pc = "idle", Unsuspicious(mem) PROVE ScannedUpTo(mem.next - 1)
    <3>1. CASE mem.hash # NoHash
      BY <2>1, <2>2, <2>4, <3>1
    <3>2. CASE mem.hash = NoHash
      BY <2>1, <2>4, <3>2 DEF Unsuspicious, HashlessMem, Hashless, TrueOutright, Before
    <3> QED BY <3>1, <3>2
  <2> QED BY <2>3, <2>4 DEF CursorHidesNoBlock
<1> QED BY <1>1, IInvAlways, PTL

\* A rollback lands on a common ancestor: below an anchor that is canonical no canonical
\* block was missed, so the rescan that starts right above it misses nothing.
THEOREM AnchorsAreAncestors ==
  ASSUME SafeDeployments
  PROVE  Spec => []AnchorsAreCommonAncestors
<1>1. IInv => AnchorsAreCommonAncestors
  <2> SUFFICES ASSUME IInv, NEW a \in file.anchors \cup mem.anchors,
                      BlockAt(a.height) = a.hash
               PROVE  ScannedUpTo(a.height)
    BY DEF AnchorsAreCommonAncestors
  <2>1. ChainInv /\ CursorSound(file) /\ CursorSound(mem) /\ a \in Anchors
    <3>1. mem.anchors \subseteq Anchors /\ file.anchors \subseteq Anchors /\ ChainInv
      BY StateFacts, FieldTypes DEF IInv
    <3> QED BY <3>1, SoundFacts DEF IInv
  <2>2. Vouches(a.hash) /\ a.hash # NoHash
    BY <2>1, FieldTypes DEF CursorSound, NoHash
  <2>3. a.height \in 0 .. Tip
    BY <2>1, <2>2, ChainFacts
  <2> QED BY <2>2, <2>3 DEF Vouches
<1> QED BY <1>1, IInvAlways, PTL
=============================================================================
