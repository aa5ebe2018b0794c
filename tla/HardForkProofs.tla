--------------------------- MODULE HardForkProofs ---------------------------
(***************************************************************************)
(* Without voting (all thresholds zero) the current version is the one the *)
(* height of the chain selects and no block of an outdated version stays   *)
(* in the chain, for any table of forks that add_fork accepts, any window  *)
(* size and chains of any length, through pops, reorganisations, restarts  *)
(* and upgrades.  With any thresholds, the window of votes never grows     *)
(* past its size, is never read when it is empty, and its counts, unsigned *)
(* in the code, always agree with it.  And where versions have no gap and  *)
(* no block is popped from a running node, the votes of the chain alone    *)
(* decide the version, however the node came to that chain.                *)
(***************************************************************************)
EXTENDS HardFork, MinMaxLemmas, SequenceTheorems

-----------------------------------------------------------------------------
(* The table of forks *)

\* What the proofs use of the known forks.
TableOK ==
  /\ Len(heights) \in Index
  /\ \A n \in 1..Len(heights) : /\ heights[n] = Forks[n]
                                /\ heights[n].version \in Nat \ {0} /\ heights[n].height \in Nat
                                /\ heights[n].threshold \in 0..100
  /\ Version(1) = 1
  /\ \A m, n \in 1..Len(heights) : m < n => /\ heights[m].height < heights[n].height
                                            /\ Version(m) < Version(n)

\* A prefix of Forks is a table the proofs can use.
LEMMA PrefixTable ==
  ASSUME NEW n \in Index, heights = SubSeq(Forks, 1, n)
  PROVE  TableOK /\ Len(heights) = n
<1>1. Len(Forks) \in Nat /\ n <= Len(Forks) /\ n \in Nat /\ n >= 1
  BY ForkAssumption DEF Index
<1>2. Len(heights) = n /\ \A i \in 1..n : heights[i] = Forks[i]
  <2> DEFINE R == [version : Nat \ {0}, height : Nat, threshold : 0..100]
  <2>1. Forks \in Seq(R)
    BY ForkAssumption
  <2> HIDE DEF R
  <2> QED
    BY <1>1, <2>1
<1>3. \A i \in Index : /\ Forks[i].version \in Nat \ {0} /\ Forks[i].height \in Nat
                       /\ Forks[i].threshold \in 0..100
  <2> SUFFICES ASSUME NEW i \in Index
               PROVE  /\ Forks[i].version \in Nat \ {0} /\ Forks[i].height \in Nat
                      /\ Forks[i].threshold \in 0..100
    OBVIOUS
  <2> DEFINE R == [version : Nat \ {0}, height : Nat, threshold : 0..100]
  <2>1. Forks \in Seq(R)
    BY ForkAssumption
  <2> HIDE DEF R
  <2>2. Forks[i] \in R
    BY <2>1 DEF Index
  <2> QED
    BY <2>2 DEF R
<1>4. 1..n \subseteq Index
  BY <1>1 DEF Index
<1> QED
  BY <1>1, <1>2, <1>3, <1>4, ForkAssumption DEF TableOK, Version

\* Versions are ordered like the forks in the table.
LEMMA VersionOrder ==
  ASSUME TableOK, NEW m \in 1..Len(heights), NEW n \in 1..Len(heights)
  PROVE  /\ m <= n <=> Version(m) <= Version(n)
         /\ m = n <=> Version(m) = Version(n)
         /\ Version(m) \in Nat
<1>1. Version(m) \in Nat /\ Version(n) \in Nat /\ m \in Nat /\ n \in Nat
  BY DEF TableOK, Version, Index
<1>2. m < n => Version(m) < Version(n)
  BY DEF TableOK
<1>3. n < m => Version(n) < Version(m)
  BY DEF TableOK
<1> QED
  BY <1>1, <1>2, <1>3

\* The fork that a height selects: the last one whose height is reached.
LEMMA IdealBounds ==
  ASSUME TableOK, NEW h \in Nat
  PROVE  /\ IdealIndex(h) \in 1..Len(heights)
         /\ IdealIndex(h) = 1 \/ h >= heights[IdealIndex(h)].height
         /\ \A n \in 1..Len(heights) : h >= heights[n].height => n <= IdealIndex(h)
<1> DEFINE S == {n \in 1..Len(heights) : n = 1 \/ h >= heights[n].height}
<1>1. Len(heights) \in Nat /\ Len(heights) >= 1
  BY ForkAssumption DEF TableOK, Index
<1>2. S \in SUBSET (0..Len(heights)) /\ 1 \in S
  BY <1>1
<1>3. Max(S) \in S /\ \A y \in S : y <= Max(S)
  BY <1>1, <1>2, MaxNat
<1> QED
  BY <1>3 DEF IdealIndex

\* A larger height selects the same fork or a later one.
LEMMA IdealMonotone ==
  ASSUME TableOK, NEW h \in Nat, NEW g \in Nat, h <= g
  PROVE  IdealIndex(h) <= IdealIndex(g)
<1>1. /\ IdealIndex(h) \in 1..Len(heights) /\ IdealIndex(g) \in 1..Len(heights)
      /\ IdealIndex(h) = 1 \/ h >= heights[IdealIndex(h)].height
      /\ \A n \in 1..Len(heights) : g >= heights[n].height => n <= IdealIndex(g)
  BY IdealBounds
<1>2. Len(heights) \in Nat /\ \A n \in 1..Len(heights) : heights[n].height \in Nat
  BY ForkAssumption DEF TableOK, Index
<1> QED
  BY <1>1, <1>2

\* Without votes a height raises the index to the fork it selects.
LEMMA RaisedIdeal ==
  ASSUME NoVoting, TableOK, NEW h \in Nat, NEW counts, NEW cur \in 1..Len(heights), cur <= IdealIndex(h)
  PROVE  Raised(counts, cur, h) = IdealIndex(h)
<1> DEFINE voted == {n \in 1..Len(heights) : h >= heights[n].height /\ EnoughVotes(counts, n)}
<1>1. Len(heights) \in Nat /\ Len(heights) >= 1
  BY ForkAssumption DEF TableOK, Index
<1>2. ASSUME NEW n \in 1..Len(heights) PROVE EnoughVotes(counts, n)
  <2>0. heights[n].threshold = 0
    <3>1. n \in Index /\ heights[n] = Forks[n]
      BY <1>1, ForkAssumption DEF TableOK, Index
    <3> QED
      BY <3>1 DEF NoVoting
  <2>1. WindowSize * heights[n].threshold + 99 = 99
    BY <2>0, SizeAssumption
  <2>2. Threshold(n) = 0
    BY <2>1 DEF Threshold
  <2> QED
    BY <2>2 DEF EnoughVotes
<1>3. voted = {n \in 1..Len(heights) : h >= heights[n].height}
  BY <1>2
<1>i. /\ IdealIndex(h) \in 1..Len(heights)
      /\ IdealIndex(h) = 1 \/ h >= heights[IdealIndex(h)].height
      /\ \A n \in 1..Len(heights) : h >= heights[n].height => n <= IdealIndex(h)
  BY IdealBounds
<1>4. CASE voted = {}
  <2>1. get_voted_fork_index(counts, cur, h) = cur
    BY <1>4 DEF get_voted_fork_index
  <2>2. IdealIndex(h) = 1
    BY <1>3, <1>4, <1>i
  <2> QED
    BY <1>1, <2>1, <2>2 DEF Raised
<1>5. CASE voted # {}
  <2>1. get_voted_fork_index(counts, cur, h) = Max(voted)
    BY <1>5 DEF get_voted_fork_index
  <2>2. voted \in SUBSET (0..Len(heights))
    BY <1>1
  <2>3. Max(voted) \in voted /\ \A y \in voted : y <= Max(voted)
    BY <1>1, <1>5, <2>2, MaxNat
  <2>4. Max(voted) = IdealIndex(h)
    <3>1. Max(voted) <= IdealIndex(h) /\ Max(voted) \in 1..Len(heights)
      BY <1>3, <1>i, <2>3
    <3>2. PICK n \in voted : TRUE
      BY <1>5
    <3>3. h >= heights[1].height
      BY <3>2, <1>1, <1>3 DEF TableOK
    <3>4. IdealIndex(h) \in voted
      BY <1>1, <1>3, <1>i, <3>3
    <3> HIDE DEF voted
    <3> QED
      BY <1>1, <3>1, <3>4, <2>3, <1>i
  <2> QED
    BY <1>1, <1>i, <2>1, <2>4 DEF Raised
<1> QED
  BY <1>4, <1>5

-----------------------------------------------------------------------------
(* The inductive invariant *)

Block == [version : Nat, vote : Nat]

StateOK ==
  /\ \E n \in Index : heights = SubSeq(Forks, 1, n)
  /\ db_blocks \in Seq(Block) /\ Len(db_blocks) \in 1..MaxForkHeight
  /\ hf_versions \in [0..MaxForkHeight -> Nat]
  /\ current_fork_index \in 1..Len(heights)
  /\ scanned \in 1..Len(db_blocks)
  /\ starting \in {"no", "init", "check", "popped"}

\* A block has the version of a fork that its height allows, and votes for it.
Known ==
  \A h \in 0..(DbHeight - 1) :
    /\ \E n \in 1..IdealIndex(h) : db_blocks[h + 1].version = Version(n)
    /\ get_block_vote(db_blocks[h + 1]) >= db_blocks[h + 1].version

Fits(h) == db_blocks[h + 1].version = get_ideal_version(h)

\* Blocks of an outdated version are on top of the others, and are gone once
\* the node has started.
OutdatedOnTop ==
  \A h, g \in 0..(DbHeight - 1) : h <= g /\ Fits(g) => Fits(h)
StartedFits ==
  starting = "no" => \A h \in 0..(DbHeight - 1) : Fits(h)

\* The index is right for the height the state accounts for, which is that of
\* the chain except while blocks are replayed.
IndexIdeal ==
  starting \in {"no", "check"} => current_fork_index = IdealIndex(scanned)
StartScanned ==
  starting # "no" => scanned = DbHeight

ForkInv ==
  /\ StateOK /\ Known /\ OutdatedOnTop /\ StartedFits
  /\ IndexIdeal /\ StartScanned /\ RecordedExact

-----------------------------------------------------------------------------
(* Consequences in a single state *)

\* In every state of the invariant the known forks are such a table.
LEMMA KnownTable ==
  StateOK => TableOK
  BY PrefixTable DEF StateOK

\* IdealBounds, in a form whose prime is a step of temporal logic away.
LEMMA IdealAll ==
  TableOK => \A g \in Nat :
    /\ IdealIndex(g) \in 1..Len(heights)
    /\ IdealIndex(g) = 1 \/ g >= heights[IdealIndex(g)].height
    /\ \A n \in 1..Len(heights) : g >= heights[n].height => n <= IdealIndex(g)
  BY IdealBounds

\* The same of the forks known after a step.
LEMMA IdealNext ==
  TableOK' => \A g \in Nat :
    /\ IdealIndex(g)' \in 1..Len(heights')
    /\ IdealIndex(g)' = 1 \/ g >= heights'[IdealIndex(g)'].height
    /\ \A n \in 1..Len(heights') : g >= heights'[n].height => n <= IdealIndex(g)'
<1>1. (TableOK => \A g \in Nat :
        /\ IdealIndex(g) \in 1..Len(heights)
        /\ IdealIndex(g) = 1 \/ g >= heights[IdealIndex(g)].height
        /\ \A n \in 1..Len(heights) : g >= heights[n].height => n <= IdealIndex(g))'
  BY IdealAll, PTL
<1> QED
  BY <1>1

\* IdealMonotone in the same form.
LEMMA IdealMonotoneAll ==
  TableOK => \A i, j \in Nat : i <= j => IdealIndex(i) <= IdealIndex(j)
  BY IdealMonotone

\* The genesis block always fits.
LEMMA IdealAtZero ==
  ASSUME TableOK
  PROVE  IdealIndex(0) = 1
<1>1. Len(heights) \in Nat /\ Len(heights) >= 1
  BY ForkAssumption DEF TableOK, Index
<1>2. \A n \in 1..Len(heights) : n > 1 => ~(0 >= heights[n].height)
  BY <1>1 DEF TableOK
<1>3. IdealIndex(0) \in 1..Len(heights) /\ (IdealIndex(0) = 1 \/ 0 >= heights[IdealIndex(0)].height)
  BY IdealBounds
<1> QED
  BY <1>1, <1>2, <1>3

\* TopFits says that the top block fits.
LEMMA TopFitsMeans ==
  ASSUME NoVoting, StateOK, Known
  PROVE  TopFits <=> Fits(DbHeight - 1)
<1> DEFINE top == DbHeight - 1
<1>1. TableOK
  BY KnownTable
<1>2. top \in 0..(DbHeight - 1) /\ top \in Nat /\ top + 1 = DbHeight
  BY SizeAssumption DEF StateOK, DbHeight
<1>3. PICK n \in 1..IdealIndex(top) : db_blocks[top + 1].version = Version(n)
  BY <1>2 DEF Known
<1>4. IdealIndex(top) \in 1..Len(heights)
  BY <1>1, <1>2, IdealBounds
<1>5. Len(heights) \in Nat /\ Len(heights) >= 1
  BY <1>1, ForkAssumption DEF TableOK, Index
<1>6. 1 \in 1..Len(heights) /\ n \in 1..Len(heights) /\ n <= IdealIndex(top) /\ n >= 1
  BY <1>4, <1>5
<1>7. /\ Version(1) <= Version(n) /\ Version(n) <= Version(IdealIndex(top)) /\ Version(1) = 1
      /\ Version(n) \in Nat /\ Version(IdealIndex(top)) \in Nat
  BY <1>1, <1>4, <1>6, VersionOrder DEF TableOK
<1> HIDE DEF top
<1>8. db_blocks[DbHeight].version = Version(n)
  BY <1>2, <1>3
<1>9. TopFits <=> Version(IdealIndex(top)) <= 1 \/ Version(IdealIndex(top)) = Version(n)
  BY <1>8 DEF TopFits, top, get_ideal_version
<1>10. Fits(DbHeight - 1) <=> Version(n) = Version(IdealIndex(top))
  BY <1>3 DEF Fits, top, get_ideal_version
<1> QED
  BY <1>7, <1>9, <1>10

-----------------------------------------------------------------------------
(* Steps *)

\* A step that learns no forks leaves what heights select.
LEMMA SameTable ==
  ASSUME heights' = heights
  PROVE  /\ \A h : IdealIndex(h)' = IdealIndex(h)
         /\ \A n : Version(n)' = Version(n)
         /\ \A h : get_ideal_version(h)' = get_ideal_version(h)
<1>1. \A n : Version(n)' = Version(n)
  BY DEF Version
<1>2. \A h : IdealIndex(h)' = IdealIndex(h)
  BY DEF IdealIndex
<1> QED
  BY <1>1, <1>2 DEF get_ideal_version

\* A step that leaves blocks and forks leaves what relates them.
LEMMA SameBlocks ==
  ASSUME heights' = heights, db_blocks' = db_blocks
  PROVE  /\ Known => Known'
         /\ \A h : Fits(h)' <=> Fits(h)
         /\ OutdatedOnTop => OutdatedOnTop'
         /\ DbHeight' = DbHeight
<1>1. \A h : Fits(h)' <=> Fits(h)
  BY SameTable DEF Fits
<1>2. DbHeight' = DbHeight
  BY DEF DbHeight
<1>3. Known => Known'
  BY <1>2, SameTable DEF Known, get_block_vote
<1>4. OutdatedOnTop => OutdatedOnTop'
  BY <1>1, <1>2 DEF OutdatedOnTop
<1> QED
  BY <1>1, <1>2, <1>3, <1>4

\* The loops of pops drop the top block, which is not the genesis block.
LEMMA PoppedBlocks ==
  ASSUME StateOK, DbHeight > 1, heights' = heights,
         db_blocks' = SubSeq(db_blocks, 1, DbHeight - 1)
  PROVE  /\ DbHeight' = DbHeight - 1 /\ DbHeight' \in 1..MaxForkHeight
         /\ db_blocks' \in Seq(Block)
         /\ \A h \in 0..(DbHeight' - 1) : h \in 0..(DbHeight - 1) /\ db_blocks'[h + 1] = db_blocks[h + 1]
<1>1. DbHeight \in Nat /\ DbHeight <= MaxForkHeight /\ DbHeight = Len(db_blocks) /\ db_blocks \in Seq(Block)
  BY SizeAssumption DEF StateOK, DbHeight
<1>2. Len(db_blocks') = DbHeight - 1 /\ \A i \in 1..(DbHeight - 1) : db_blocks'[i] = db_blocks[i]
  BY <1>1
<1>3. db_blocks' \in Seq(Block)
  BY <1>1
<1> QED
  BY <1>1, <1>2, <1>3, SizeAssumption DEF DbHeight

\* Dropping the top block keeps what is known of the blocks below.
LEMMA PoppedInvariants ==
  ASSUME StateOK, DbHeight > 1, heights' = heights, UNCHANGED hf_versions,
         db_blocks' = SubSeq(db_blocks, 1, DbHeight - 1)
  PROVE  /\ Known => Known'
         /\ OutdatedOnTop => OutdatedOnTop'
         /\ (\A h \in 0..(DbHeight - 1) : Fits(h)) => (\A h \in 0..(DbHeight - 1) : Fits(h))'
         /\ RecordedExact => RecordedExact'
<1>1. \A h \in 0..(DbHeight' - 1) : h \in 0..(DbHeight - 1) /\ db_blocks'[h + 1] = db_blocks[h + 1]
  BY PoppedBlocks
<1>2. \A h \in 0..(DbHeight' - 1) : Fits(h)' <=> Fits(h)
  BY <1>1, SameTable DEF Fits
<1>3. Known => Known'
  BY <1>1, SameTable DEF Known, get_block_vote
<1>4. OutdatedOnTop => OutdatedOnTop'
  BY <1>1, <1>2 DEF OutdatedOnTop
<1>5. RecordedExact => RecordedExact'
  BY <1>1 DEF RecordedExact
<1> QED
  BY <1>1, <1>2, <1>3, <1>4, <1>5

\* Reorganising to a block that fits ends with the index of the height above it.
LEMMA ReorganizedIdeal ==
  ASSUME NoVoting, StateOK, RecordedExact,
         NEW height \in 0..(DbHeight - 1), Fits(height), ReorganizedTo(height)
  PROVE  /\ current_fork_index' = IdealIndex(height + 1)
         /\ IdealIndex(height + 1) \in 1..Len(heights)
         /\ scanned' = height + 1
<1> DEFINE start_version == IF height = 0 THEN 1 ELSE hf_versions[height]
           S == {n \in 1..current_fork_index : n = 1 \/ Version(n) <= start_version}
<1>0. height \in Nat /\ height + 1 \in Nat
  BY DEF StateOK, DbHeight
<1>1. TableOK /\ height \in Nat /\ height + 1 \in Nat
  BY <1>0, KnownTable
<1>2. Len(heights) \in Nat /\ current_fork_index \in 1..Len(heights)
  BY <1>1, ForkAssumption DEF TableOK, Index, StateOK
<1>3. start_version = Version(IdealIndex(height))
  <2>1. CASE height = 0
    BY <1>1, <2>1, IdealAtZero DEF TableOK
  <2>2. CASE height # 0
    BY <2>2 DEF RecordedExact, Fits, get_ideal_version
  <2> QED
    BY <2>1, <2>2
<1>4. S \in SUBSET (0..Len(heights)) /\ S # {}
  <2>1. 1 \in S
    BY <1>2
  <2>2. \A n \in 1..current_fork_index : n \in 0..Len(heights)
    BY <1>2
  <2> QED
    BY <2>1, <2>2
<1>5. Max(S) \in S
  BY <1>2, <1>4, MaxNat
<1>6. IdealIndex(height) \in 1..Len(heights) /\ IdealIndex(height + 1) \in 1..Len(heights)
      /\ IdealIndex(height) <= IdealIndex(height + 1)
  BY <1>1, IdealBounds, IdealMonotone
<1>7. Max(S) \in 1..Len(heights) /\ Max(S) <= IdealIndex(height)
  <2>1. Max(S) \in 1..Len(heights) /\ (Max(S) = 1 \/ Version(Max(S)) <= Version(IdealIndex(height)))
    <3>1. Max(S) \in 1..current_fork_index /\ (Max(S) = 1 \/ Version(Max(S)) <= start_version)
      BY <1>5
    <3> HIDE DEF S, start_version
    <3> QED
      BY <1>2, <1>3, <3>1
  <2> HIDE DEF S
  <2> QED
    BY <1>1, <1>2, <1>6, <2>1, VersionOrder
<1>8. current_fork_index' = Raised(last_versions', Max(S), height + 1) /\ scanned' = height + 1
  BY DEF ReorganizedTo
<1> HIDE DEF S
<1>9. Raised(last_versions', Max(S), height + 1) = IdealIndex(height + 1)
  BY <1>1, <1>2, <1>6, <1>7, RaisedIdeal
<1> QED
  BY <1>6, <1>8, <1>9

\* Adding a block to a state with the right index.
LEMMA AddIdeal ==
  ASSUME NoVoting, StateOK, NEW b, NEW height \in 0..MaxForkHeight,
         current_fork_index = IdealIndex(height), add(b, height)
  PROVE  /\ current_fork_index' = IdealIndex(height + 1)
         /\ IdealIndex(height + 1) \in 1..Len(heights)
         /\ hf_versions' = [hf_versions EXCEPT ![height] = get_ideal_version(height)]
         /\ hf_versions' \in [0..MaxForkHeight -> Nat]
<1>1. TableOK /\ height \in Nat /\ height + 1 \in Nat
  BY KnownTable, SizeAssumption
<1>2. /\ IdealIndex(height) \in 1..Len(heights) /\ IdealIndex(height + 1) \in 1..Len(heights)
      /\ IdealIndex(height) <= IdealIndex(height + 1)
  BY <1>1, IdealBounds, IdealMonotone
<1>3. current_fork_index' = Raised(last_versions', current_fork_index, height + 1)
  BY DEF add
<1>4. Raised(last_versions', current_fork_index, height + 1) = IdealIndex(height + 1)
  BY <1>1, <1>2, RaisedIdeal
<1>5. hf_versions' = [hf_versions EXCEPT ![height] = get_ideal_version(height)]
  BY DEF add, Recorded, get_ideal_version
<1>6. get_ideal_version(height) \in Nat
  BY <1>1, <1>2, VersionOrder DEF get_ideal_version
<1>7. hf_versions' \in [0..MaxForkHeight -> Nat]
  BY <1>5, <1>6 DEF StateOK
<1> QED
  BY <1>2, <1>3, <1>4, <1>5, <1>7

\* add_block: the new block fits, and the index follows the height.
LEMMA AddBlockStep ==
  ASSUME NoVoting, ForkInv, NEW version \in VersionNumbers, NEW vote \in Votes,
         add_block([version |-> version, vote |-> vote])
  PROVE  ForkInv'
<1> DEFINE b == [version |-> version, vote |-> vote]
<1> USE DEF ForkInv
<1>1. /\ DbHeight \in 1..MaxForkHeight /\ DbHeight < MaxForkHeight /\ DbHeight + 1 \in 1..MaxForkHeight
      /\ DbHeight \in 0..MaxForkHeight /\ DbHeight \in Nat /\ DbHeight = Len(db_blocks)
  BY SizeAssumption DEF StateOK, DbHeight, add_block
<1>2. /\ starting = "no" /\ scanned = DbHeight /\ starting' = "no" /\ heights' = heights
      /\ scanned' = DbHeight + 1 /\ db_blocks' = Append(db_blocks, b) /\ add(b, DbHeight) /\ do_check(b)
  BY DEF add_block, Running
<1>3. TableOK
  BY KnownTable
<1>4. current_fork_index = IdealIndex(DbHeight)
  BY <1>2 DEF IndexIdeal
<1>5. /\ current_fork_index' = IdealIndex(DbHeight + 1)
      /\ IdealIndex(DbHeight + 1) \in 1..Len(heights)
      /\ hf_versions' = [hf_versions EXCEPT ![DbHeight] = get_ideal_version(DbHeight)]
      /\ hf_versions' \in [0..MaxForkHeight -> Nat]
  BY <1>1, <1>2, <1>4, AddIdeal
<1>6. b.version = get_ideal_version(DbHeight) /\ get_block_vote(b) >= b.version
  BY <1>2, <1>4 DEF do_check, get_ideal_version
<1>7. b \in Block
  <2>1. IdealIndex(DbHeight) \in 1..Len(heights)
    BY <1>1, <1>3, IdealBounds
  <2>2. get_ideal_version(DbHeight) \in Nat
    BY <1>3, <2>1, VersionOrder DEF get_ideal_version
  <2> QED
    BY <1>6, <2>2, SizeAssumption DEF Block
<1> HIDE DEF b
<1>8. /\ db_blocks' \in Seq(Block) /\ Len(db_blocks') = DbHeight + 1
      /\ db_blocks'[DbHeight + 1] = b
      /\ \A i \in 1..DbHeight : db_blocks'[i] = db_blocks[i]
  BY <1>1, <1>2, <1>7 DEF StateOK
<1>9. DbHeight' = DbHeight + 1
  BY <1>8 DEF DbHeight
<1>10. \A h \in 0..(DbHeight' - 1) :
         \/ h \in 0..(DbHeight - 1) /\ db_blocks'[h + 1] = db_blocks[h + 1] /\ h # DbHeight
         \/ h = DbHeight /\ db_blocks'[h + 1] = b
  BY <1>1, <1>8, <1>9
<1>11. \A h \in 0..(DbHeight' - 1) : Fits(h)'
  <2>1. \A h \in 0..(DbHeight - 1) : db_blocks[h + 1].version = get_ideal_version(h)
    BY <1>2 DEF StartedFits, Fits
  <2> QED
    BY <1>2, <1>6, <1>10, <2>1, SameTable DEF Fits
<1>12. StateOK'
  <2>1. \E n \in Index : heights' = SubSeq(Forks, 1, n)
    BY <1>2 DEF StateOK
  <2>2. Len(db_blocks') \in 1..MaxForkHeight /\ scanned' \in 1..Len(db_blocks')
    BY <1>1, <1>2, <1>8
  <2>3. current_fork_index' \in 1..Len(heights')
    BY <1>2, <1>5
  <2> QED
    BY <1>2, <1>5, <1>8, <2>1, <2>2, <2>3 DEF StateOK
<1>13. Known'
  <2>1. \A h \in 0..(DbHeight' - 1) : get_block_vote(db_blocks'[h + 1]) >= db_blocks'[h + 1].version
    BY <1>6, <1>10 DEF Known
  <2>2. \A h \in 0..(DbHeight' - 1) : IdealIndex(h) \in 1..IdealIndex(h)
    <3>1. \A h \in 0..(DbHeight' - 1) : h \in Nat
      BY <1>1, <1>9
    <3>2. Len(heights) \in Nat
      BY <1>3, ForkAssumption DEF TableOK, Index
    <3> QED
      BY <1>3, <3>1, <3>2, IdealBounds
  <2>3. \A h \in 0..(DbHeight' - 1) : db_blocks'[h + 1].version = Version(IdealIndex(h))
    BY <1>2, <1>11, SameTable DEF Fits, get_ideal_version
  <2>4. \A h \in 0..(DbHeight' - 1) : get_block_vote(db_blocks[h + 1])' = get_block_vote(db_blocks'[h + 1])
    BY DEF get_block_vote
  <2> QED
    BY <1>2, <2>1, <2>2, <2>3, <2>4, SameTable DEF Known
<1>14. OutdatedOnTop' /\ StartedFits'
  BY <1>11 DEF OutdatedOnTop, StartedFits
<1>15. IndexIdeal' /\ StartScanned'
  BY <1>2, <1>5, SameTable DEF IndexIdeal, StartScanned
<1>16. RecordedExact'
  <2>1. \A h \in 0..(DbHeight - 1) : hf_versions'[h] = hf_versions[h]
    BY <1>1, <1>5 DEF StateOK
  <2>2. hf_versions'[DbHeight] = get_ideal_version(DbHeight)
    BY <1>1, <1>5 DEF StateOK
  <2> QED
    BY <1>6, <1>10, <2>1, <2>2 DEF RecordedExact
<1> QED
  BY <1>12, <1>13, <1>14, <1>15, <1>16

\* pop_block: on_block_popped selects the fork by height.
LEMMA PopBlockStep ==
  ASSUME NoVoting, ForkInv, on_block_popped
  PROVE  ForkInv'
<1> USE DEF ForkInv
<1>1. /\ starting = "no" /\ starting' = "no" /\ heights' = heights /\ hf_versions' = hf_versions
      /\ DbHeight > 1 /\ db_blocks' = SubSeq(db_blocks, 1, DbHeight - 1)
      /\ current_fork_index' = IdealIndex(DbHeight - 1) /\ scanned' = DbHeight - 1
  BY DEF on_block_popped, Running, PoppedIndex
<1>2. /\ DbHeight' = DbHeight - 1 /\ DbHeight' \in 1..MaxForkHeight
      /\ db_blocks' \in Seq(Block)
  BY <1>1, PoppedBlocks
<1>3. Known' /\ OutdatedOnTop' /\ RecordedExact' /\ StartedFits'
  BY <1>1, PoppedInvariants DEF StartedFits
<1>4. IndexIdeal' /\ StartScanned'
  BY <1>1, SameTable DEF IndexIdeal, StartScanned
<1>5. StateOK'
  <2>1. \E n \in Index : heights' = SubSeq(Forks, 1, n)
    BY <1>1 DEF StateOK
  <2>2. Len(db_blocks') \in 1..MaxForkHeight /\ scanned' \in 1..Len(db_blocks')
    BY <1>1, <1>2, SizeAssumption DEF DbHeight
  <2>3. DbHeight - 1 \in Nat
    BY <1>2, SizeAssumption
  <2>4. current_fork_index' \in 1..Len(heights')
    BY <1>1, <2>3, KnownTable, IdealBounds
  <2>5. hf_versions' \in [0..MaxForkHeight -> Nat]
    BY <1>1 DEF StateOK
  <2> QED
    BY <1>1, <1>2, <2>1, <2>2, <2>4, <2>5 DEF StateOK
<1> QED
  BY <1>3, <1>4, <1>5

\* reorganize_from_block_height starts from the version recorded for a block that fits.
LEMMA ReorganizeStep ==
  ASSUME NoVoting, ForkInv, NEW height \in 0..MaxForkHeight, reorganize_from_block_height(height)
  PROVE  ForkInv'
<1> USE DEF ForkInv
<1>1. /\ starting = "no" /\ starting' = "no" /\ heights' = heights /\ hf_versions' = hf_versions
      /\ height < DbHeight /\ db_blocks' = db_blocks /\ ReorganizedTo(height)
  BY DEF reorganize_from_block_height, Running
<1>2. height \in 0..(DbHeight - 1) /\ height + 1 \in 1..Len(db_blocks)
  BY <1>1, SizeAssumption DEF StateOK, DbHeight
<1>3. Fits(height)
  BY <1>1, <1>2 DEF StartedFits
<1>4. /\ current_fork_index' = IdealIndex(height + 1)
      /\ IdealIndex(height + 1) \in 1..Len(heights)
      /\ scanned' = height + 1
  BY <1>1, <1>2, <1>3, ReorganizedIdeal
<1>5. Known' /\ OutdatedOnTop' /\ StartedFits' /\ DbHeight' = DbHeight
  BY <1>1, SameBlocks DEF StartedFits
<1>6. RecordedExact'
  BY <1>1, <1>5 DEF RecordedExact
<1>7. IndexIdeal' /\ StartScanned'
  BY <1>1, <1>4, SameTable DEF IndexIdeal, StartScanned
<1>8. StateOK'
  BY <1>1, <1>2, <1>4 DEF StateOK
<1> QED
  BY <1>5, <1>6, <1>7, <1>8

\* replay_block: every replayed block passes do_check.
LEMMA ReplayStep ==
  ASSUME NoVoting, ForkInv, replay_block
  PROVE  ForkInv'
<1> USE DEF ForkInv
<1> DEFINE b == db_blocks[scanned + 1]
<1>1. /\ scanned < DbHeight /\ starting' = starting /\ heights' = heights /\ db_blocks' = db_blocks
      /\ scanned' = scanned + 1
      /\ do_check(b) => add(b, scanned)
  BY DEF replay_block
<1>2. /\ scanned \in 0..(DbHeight - 1) /\ scanned \in 0..MaxForkHeight /\ scanned + 1 \in 1..Len(db_blocks)
  BY <1>1, SizeAssumption DEF StateOK, DbHeight
<1>3. starting = "no"
  <2>1. scanned # DbHeight
    BY <1>1, <1>2
  <2> QED
    BY <2>1 DEF StartScanned
<1>4. current_fork_index = IdealIndex(scanned)
  BY <1>3 DEF IndexIdeal
<1>5. b.version = get_ideal_version(scanned) /\ get_block_vote(b) >= b.version
  BY <1>2, <1>3 DEF StartedFits, Fits, Known
<1>6. add(b, scanned)
  BY <1>1, <1>4, <1>5 DEF do_check, get_ideal_version
<1> HIDE DEF b
<1>7. /\ current_fork_index' = IdealIndex(scanned + 1)
      /\ IdealIndex(scanned + 1) \in 1..Len(heights)
      /\ hf_versions' = [hf_versions EXCEPT ![scanned] = get_ideal_version(scanned)]
      /\ hf_versions' \in [0..MaxForkHeight -> Nat]
  BY <1>2, <1>4, <1>6, AddIdeal
<1>8. Known' /\ OutdatedOnTop' /\ StartedFits' /\ DbHeight' = DbHeight
  BY <1>1, SameBlocks DEF StartedFits
<1>9. RecordedExact'
  <2>1. \A h \in 0..(DbHeight - 1) : hf_versions'[h] = db_blocks[h + 1].version
    <3>1. \A h \in 0..(DbHeight - 1) : h \in 0..MaxForkHeight
      BY SizeAssumption DEF StateOK, DbHeight
    <3> QED
      BY <1>5, <1>7, <3>1 DEF StateOK, RecordedExact, b
  <2> QED
    BY <1>1, <1>8, <2>1 DEF RecordedExact
<1>10. IndexIdeal' /\ StartScanned'
  BY <1>1, <1>3, <1>7, SameTable DEF IndexIdeal, StartScanned
<1>11. StateOK'
  BY <1>1, <1>2, <1>7 DEF StateOK
<1> QED
  BY <1>8, <1>9, <1>10, <1>11

\* start_pop never reaches the genesis block.
LEMMA StartPopStep ==
  ASSUME NoVoting, ForkInv, start_pop
  PROVE  ForkInv'
<1> USE DEF ForkInv
<1>1. /\ starting \in {"check", "popped"} /\ starting' = "popped" /\ heights' = heights
      /\ hf_versions' = hf_versions /\ current_fork_index' = current_fork_index /\ ~TopFits
      /\ db_blocks' = SubSeq(db_blocks, 1, DbHeight - 1) /\ scanned' = DbHeight - 1
  BY DEF start_pop
<1>2. DbHeight \in Nat /\ DbHeight >= 1
  BY SizeAssumption DEF StateOK, DbHeight
<1>3. DbHeight > 1
  <2>1. SUFFICES ASSUME DbHeight = 1 PROVE FALSE
    BY <1>2
  <2>2. get_ideal_version(DbHeight - 1) = 1
    BY <2>1, KnownTable, IdealAtZero DEF get_ideal_version, TableOK
  <2> QED
    BY <1>1, <2>2 DEF TopFits
<1>4. /\ DbHeight' = DbHeight - 1 /\ DbHeight' \in 1..MaxForkHeight
      /\ db_blocks' \in Seq(Block)
  BY <1>1, <1>3, PoppedBlocks
<1>5. Known' /\ OutdatedOnTop' /\ RecordedExact'
  BY <1>1, <1>3, PoppedInvariants
<1>6. StartedFits' /\ IndexIdeal' /\ StartScanned'
  BY <1>1, <1>4 DEF IndexIdeal, StartScanned, StartedFits
<1>7. StateOK'
  <2>1. \E n \in Index : heights' = SubSeq(Forks, 1, n)
    BY <1>1 DEF StateOK
  <2>2. Len(db_blocks') \in 1..MaxForkHeight /\ scanned' \in 1..Len(db_blocks')
    BY <1>1, <1>4, SizeAssumption DEF DbHeight
  <2>3. hf_versions' \in [0..MaxForkHeight -> Nat] /\ current_fork_index' \in 1..Len(heights')
    BY <1>1 DEF StateOK
  <2> QED
    BY <1>1, <1>4, <2>1, <2>2, <2>3 DEF StateOK
<1> QED
  BY <1>5, <1>6, <1>7

\* start_done: when the top block fits, all do.
LEMMA StartDoneStep ==
  ASSUME NoVoting, ForkInv, start_done
  PROVE  ForkInv'
<1> USE DEF ForkInv
<1> DEFINE top == DbHeight - 1
<1>1. /\ starting \in {"check", "popped"} /\ starting' = "no" /\ heights' = heights
      /\ hf_versions' = hf_versions /\ db_blocks' = db_blocks /\ TopFits
      /\ starting = "popped" => ReorganizedTo(top)
      /\ starting # "popped" => current_fork_index' = current_fork_index /\ scanned' = scanned
  BY DEF start_done
<1>2. /\ top \in 0..(DbHeight - 1) /\ top + 1 = DbHeight /\ DbHeight \in Nat
      /\ \A h \in 0..(DbHeight - 1) : h <= top
      /\ DbHeight \in 1..Len(db_blocks)
  BY SizeAssumption DEF StateOK, DbHeight
<1>3. Fits(top)
  BY <1>1, TopFitsMeans
<1>4. \A h \in 0..(DbHeight - 1) : Fits(h)
  BY <1>2, <1>3 DEF OutdatedOnTop
<1>5. scanned = DbHeight
  BY <1>1 DEF StartScanned
<1> HIDE DEF top
<1>6. /\ current_fork_index' = IdealIndex(DbHeight) /\ scanned' = DbHeight
      /\ IdealIndex(DbHeight) \in 1..Len(heights)
  <2>1. CASE starting = "popped"
    BY <1>1, <1>2, <1>3, <2>1, ReorganizedIdeal
  <2>2. CASE starting # "popped"
    BY <1>1, <1>5, <2>2 DEF IndexIdeal, StateOK
  <2> QED
    BY <2>1, <2>2
<1>7. Known' /\ OutdatedOnTop' /\ StartedFits' /\ DbHeight' = DbHeight
  BY <1>1, <1>4, SameBlocks DEF StartedFits
<1>8. RecordedExact'
  BY <1>1, <1>7 DEF RecordedExact
<1>9. IndexIdeal' /\ StartScanned'
  BY <1>1, <1>6, SameTable DEF IndexIdeal, StartScanned
<1>10. StateOK'
  BY <1>1, <1>2, <1>6 DEF StateOK
<1> QED
  BY <1>7, <1>8, <1>9, <1>10

\* init: the fork of the top block is at most the one that the height selects.
LEMMA InitStep ==
  ASSUME NoVoting, ForkInv, init
  PROVE  ForkInv'
<1> USE DEF ForkInv
<1> DEFINE top == DbHeight - 1
           found == {n \in 1..Len(heights) : n = Len(heights) \/ Version(n) = hf_versions[top]}
<1>1. /\ starting = "init" /\ starting' = "check" /\ heights' = heights /\ scanned' = scanned
      /\ hf_versions' = hf_versions /\ db_blocks' = db_blocks
      /\ current_fork_index' = Raised(last_versions', Min(found), DbHeight)
  BY DEF init
<1>2. top \in 0..(DbHeight - 1) /\ top \in Nat /\ top <= DbHeight /\ DbHeight \in Nat
  BY SizeAssumption DEF StateOK, DbHeight
<1>3. TableOK
  BY KnownTable
<1>4. Len(heights) \in Nat /\ Len(heights) >= 1
  BY <1>3, ForkAssumption DEF TableOK, Index
<1>5. /\ IdealIndex(top) \in 1..Len(heights) /\ IdealIndex(DbHeight) \in 1..Len(heights)
      /\ IdealIndex(top) <= IdealIndex(DbHeight)
  BY <1>2, <1>3, IdealBounds, IdealMonotone
<1>6. PICK n \in 1..IdealIndex(top) : db_blocks[top + 1].version = Version(n)
  BY <1>2 DEF Known
<1>7. n \in 1..Len(heights) /\ n <= IdealIndex(DbHeight)
  BY <1>4, <1>5
<1>8. hf_versions[top] = Version(n)
  BY <1>2, <1>6 DEF RecordedExact
<1>9. Min(found) \in 1..Len(heights) /\ Min(found) <= n
  <2>1. n \in found /\ found \in SUBSET (1..Len(heights)) /\ found \in SUBSET Nat
    BY <1>7, <1>8
  <2> HIDE DEF found
  <2> QED
    BY <2>1, MinNat
<1> HIDE DEF found, top
<1>10. Min(found) <= IdealIndex(DbHeight)
  BY <1>4, <1>5, <1>7, <1>9
<1>11. current_fork_index' = IdealIndex(DbHeight)
  BY <1>1, <1>2, <1>3, <1>9, <1>10, RaisedIdeal
<1>12. Known' /\ OutdatedOnTop' /\ DbHeight' = DbHeight
  BY <1>1, SameBlocks
<1>13. RecordedExact'
  BY <1>1, <1>12 DEF RecordedExact
<1>14. scanned = DbHeight
  BY <1>1 DEF StartScanned
<1>15. IndexIdeal' /\ StartScanned' /\ StartedFits'
  BY <1>1, <1>11, <1>12, <1>14, SameTable DEF IndexIdeal, StartScanned, StartedFits
<1>16. StateOK'
  BY <1>1, <1>5, <1>11 DEF StateOK
<1> QED
  BY <1>12, <1>13, <1>15, <1>16

\* More forks select the same fork for a height, or one that was not known.
LEMMA UpgradedIdeal ==
  ASSUME TableOK, TableOK', Len(heights) <= Len(heights'), NEW h \in Nat
  PROVE  /\ IdealIndex(h)' >= IdealIndex(h)
         /\ IdealIndex(h)' = IdealIndex(h) \/ IdealIndex(h)' > Len(heights)
         /\ IdealIndex(h) \in 1..Len(heights) /\ IdealIndex(h)' \in 1..Len(heights')
<1>1. Len(heights) \in Nat /\ Len(heights') \in Nat
  BY ForkAssumption DEF TableOK, Index
<1>2. \A n \in 1..Len(heights) : n \in 1..Len(heights') /\ heights'[n] = heights[n]
  BY <1>1 DEF TableOK
<1>3. /\ IdealIndex(h) \in 1..Len(heights)
      /\ IdealIndex(h) = 1 \/ h >= heights[IdealIndex(h)].height
      /\ \A n \in 1..Len(heights) : h >= heights[n].height => n <= IdealIndex(h)
  BY IdealBounds
<1>5. /\ IdealIndex(h)' \in 1..Len(heights')
      /\ IdealIndex(h)' = 1 \/ h >= heights'[IdealIndex(h)'].height
      /\ \A n \in 1..Len(heights') : h >= heights'[n].height => n <= IdealIndex(h)'
  BY IdealNext
<1>6. IdealIndex(h)' >= IdealIndex(h)
  BY <1>1, <1>2, <1>3, <1>5
<1>7. IdealIndex(h)' = IdealIndex(h) \/ IdealIndex(h)' > Len(heights)
  BY <1>1, <1>2, <1>3, <1>5
<1> QED
  BY <1>3, <1>5, <1>6, <1>7

\* restart with more forks outdates the blocks above the first new one.
LEMMA RestartStep ==
  ASSUME NoVoting, ForkInv, NEW n \in Index, restart_node(n)
  PROVE  ForkInv'
<1> USE DEF ForkInv
<1>1. /\ heights' = SubSeq(Forks, 1, n) /\ db_blocks' = db_blocks /\ hf_versions' = hf_versions
      /\ current_fork_index' = 1 /\ scanned' = scanned /\ scanned = DbHeight
      /\ starting' = "init" /\ n >= Len(heights)
  BY DEF restart_node
<1>2. TableOK /\ DbHeight' = DbHeight
  BY <1>1, KnownTable DEF DbHeight
<1>3. TableOK' /\ Len(heights') = n
  <2>1. Len(heights') = n
    <3> DEFINE R == [version : Nat \ {0}, height : Nat, threshold : 0..100]
    <3>1. Forks \in Seq(R) /\ n \in 1..Len(Forks)
      BY ForkAssumption DEF Index
    <3> HIDE DEF R
    <3> QED
      BY <1>1, <3>1
  <2>2. StateOK'
    BY <1>1, <2>1, ForkAssumption DEF StateOK, Index
  <2>3. (NoVoting /\ StateOK => TableOK)'
    BY KnownTable, PTL
  <2>4. NoVoting'
    BY DEF NoVoting
  <2> QED
    BY <2>1, <2>2, <2>3, <2>4
<1>4. Len(heights) \in Nat /\ Len(heights') \in Nat /\ Len(heights) <= Len(heights')
  BY <1>1, <1>2, <1>3, ForkAssumption DEF TableOK, Index
<1>5. \A m \in 1..Len(heights) : m \in 1..Len(heights') /\ Version(m)' = Version(m)
  BY <1>2, <1>3, <1>4 DEF TableOK, Version
<1>6. \A h \in 0..(DbHeight - 1) : h \in Nat
  BY DEF StateOK, DbHeight
<1>7. \A h \in Nat :
         /\ IdealIndex(h)' >= IdealIndex(h)
         /\ IdealIndex(h)' = IdealIndex(h) \/ IdealIndex(h)' > Len(heights)
         /\ IdealIndex(h) \in 1..Len(heights) /\ IdealIndex(h)' \in 1..Len(heights')
  BY <1>2, <1>3, <1>4, UpgradedIdeal
<1>8. StateOK'
  BY <1>1, <1>3, ForkAssumption DEF StateOK, Index
<1>9. Known'
  <2> SUFFICES ASSUME NEW h \in 0..(DbHeight - 1)
               PROVE  /\ \E m \in 1..IdealIndex(h)' : db_blocks[h + 1].version = Version(m)'
                      /\ get_block_vote(db_blocks[h + 1]) >= db_blocks[h + 1].version
    BY <1>1, <1>2 DEF Known, get_block_vote
  <2>0. /\ IdealIndex(h)' >= IdealIndex(h)
        /\ IdealIndex(h)' = IdealIndex(h) \/ IdealIndex(h)' > Len(heights)
        /\ IdealIndex(h) \in 1..Len(heights) /\ IdealIndex(h)' \in 1..Len(heights')
    BY <1>6, <1>7
  <2>1. PICK m \in 1..IdealIndex(h) : db_blocks[h + 1].version = Version(m)
    BY DEF Known
  <2>2. m \in 1..Len(heights) /\ m \in 1..IdealIndex(h)'
    BY <1>4, <2>0
  <2>3. db_blocks[h + 1].version = Version(m)'
    BY <1>5, <2>1, <2>2
  <2> QED
    BY <2>2, <2>3 DEF Known
\* A block fits the larger table if it fits the smaller one and its height
\* selects none of the new forks.
<1>10. \A h \in 0..(DbHeight - 1) :
         Fits(h)' <=> Fits(h) /\ IdealIndex(h)' <= Len(heights)
  <2> SUFFICES ASSUME NEW h \in 0..(DbHeight - 1)
               PROVE  Fits(h)' <=> Fits(h) /\ IdealIndex(h)' <= Len(heights)
    OBVIOUS
  <2>0. /\ IdealIndex(h)' >= IdealIndex(h)
        /\ IdealIndex(h)' = IdealIndex(h) \/ IdealIndex(h)' > Len(heights)
        /\ IdealIndex(h) \in 1..Len(heights) /\ IdealIndex(h)' \in 1..Len(heights')
    BY <1>6, <1>7
  <2>1. PICK m \in 1..IdealIndex(h) : db_blocks[h + 1].version = Version(m)
    BY DEF Known
  <2>2. /\ m \in 1..Len(heights) /\ m \in 1..Len(heights')
        /\ IdealIndex(h) \in 1..Len(heights) /\ IdealIndex(h)' \in 1..Len(heights')
    BY <1>4, <2>0
  <2>3. Fits(h) <=> m = IdealIndex(h)
    BY <1>2, <2>1, <2>2, VersionOrder DEF Fits, get_ideal_version
  <2>4. Fits(h)' <=> Version(m)' = Version(IdealIndex(h))'
    BY <1>1, <1>5, <2>1, <2>2 DEF Fits, get_ideal_version
  <2>5. Version(m)' = Version(IdealIndex(h))' <=> m = IdealIndex(h)'
    <3>1. m < IdealIndex(h)' => Version(m)' < Version(IdealIndex(h))'
      BY <1>3, <2>2 DEF TableOK, Version
    <3>2. m > IdealIndex(h)' => Version(m)' > Version(IdealIndex(h))'
      BY <1>3, <2>2 DEF TableOK, Version
    <3>3. Version(m)' \in Nat /\ Version(IdealIndex(h))' \in Nat
      BY <1>3, <2>2 DEF TableOK, Version
    <3>4. m = IdealIndex(h)' => Version(m)' = Version(IdealIndex(h))'
      BY DEF Version
    <3> QED
      BY <1>4, <2>2, <3>1, <3>2, <3>3, <3>4
  <2> QED
    BY <1>4, <2>0, <2>2, <2>3, <2>4, <2>5
<1>11. OutdatedOnTop'
  <2> SUFFICES ASSUME NEW h \in 0..(DbHeight - 1), NEW g \in 0..(DbHeight - 1), h <= g, Fits(g)'
               PROVE  Fits(h)'
    BY <1>2 DEF OutdatedOnTop
  <2>1. Fits(g) /\ IdealIndex(g)' <= Len(heights)
    BY <1>10
  <2>2. Fits(h)
    BY <2>1 DEF OutdatedOnTop
  <2>3. IdealIndex(g)' = IdealIndex(g) /\ IdealIndex(h) <= IdealIndex(g)
    BY <1>2, <1>4, <1>6, <1>7, <2>1, IdealMonotone
  <2>4. IdealIndex(h)' <= IdealIndex(g)'
    <3>1. (TableOK => \A i, j \in Nat : i <= j => IdealIndex(i) <= IdealIndex(j))'
      BY IdealMonotoneAll, PTL
    <3> QED
      BY <1>3, <1>6, <3>1
  <2> QED
    BY <1>4, <1>6, <1>7, <1>10, <2>1, <2>2, <2>4
<1>12. StartedFits' /\ IndexIdeal' /\ StartScanned' /\ RecordedExact'
  BY <1>1, <1>2 DEF StartedFits, IndexIdeal, StartScanned, RecordedExact
<1> QED
  BY <1>8, <1>9, <1>11, <1>12

\* The genesis block of a new node.
LEMMA InitInvariant ==
  ASSUME NoVoting, ForkInit
  PROVE  ForkInv
<1>1. PICK n \in Index : heights = SubSeq(Forks, 1, n)
  BY DEF ForkInit
<1>2. TableOK /\ Len(heights) = n
  BY <1>1, PrefixTable
<1>3. /\ db_blocks = <<Genesis>> /\ Len(db_blocks) = 1 /\ DbHeight = 1 /\ db_blocks[1] = Genesis
      /\ scanned = 1 /\ starting = "no" /\ Genesis \in Block
      /\ hf_versions = [h \in 0..MaxForkHeight |-> IF h = 0 THEN 1 ELSE 0]
      /\ current_fork_index = Raised(last_versions, 1, 1)
  BY DEF ForkInit, DbHeight, Genesis, Block
<1>4. Len(heights) \in Nat /\ Len(heights) >= 1
  BY <1>2, ForkAssumption DEF TableOK, Index
<1>5. IdealIndex(0) = 1 /\ IdealIndex(1) \in 1..Len(heights)
  BY <1>2, IdealAtZero, IdealBounds
<1>6. current_fork_index = IdealIndex(1)
  BY <1>2, <1>3, <1>4, <1>5, RaisedIdeal
<1>7. Version(1) = 1 /\ Genesis.version = 1 /\ get_block_vote(Genesis) = 1
  BY <1>2 DEF TableOK, Genesis, get_block_vote
<1>8. \A h \in 0..(DbHeight - 1) : h = 0
  BY <1>3
<1>9. StateOK
  <2>1. db_blocks \in Seq(Block)
    BY <1>3
  <2>2. hf_versions \in [0..MaxForkHeight -> Nat]
    BY <1>3
  <2>3. Len(db_blocks) \in 1..MaxForkHeight /\ scanned \in 1..Len(db_blocks)
    BY <1>3, SizeAssumption
  <2> QED
    BY <1>1, <1>3, <1>5, <1>6, <2>1, <2>2, <2>3 DEF StateOK
<1>10. Fits(0)
  BY <1>3, <1>5, <1>7 DEF Fits, get_ideal_version
<1>11. Known
  BY <1>3, <1>5, <1>7, <1>8 DEF Known
<1>12. OutdatedOnTop /\ StartedFits
  BY <1>8, <1>10 DEF OutdatedOnTop, StartedFits
<1>13. IndexIdeal /\ StartScanned
  BY <1>3, <1>6 DEF IndexIdeal, StartScanned
<1>14. RecordedExact
  BY <1>3, <1>7, <1>8, SizeAssumption DEF RecordedExact
<1> QED
  BY <1>9, <1>11, <1>12, <1>13, <1>14 DEF ForkInv

\* Steps of the rest of the system.
LEMMA StutterStep ==
  ASSUME ForkInv, UNCHANGED forkVars
  PROVE  ForkInv'
<1>1. /\ heights' = heights /\ db_blocks' = db_blocks /\ hf_versions' = hf_versions
      /\ current_fork_index' = current_fork_index /\ scanned' = scanned /\ starting' = starting
  BY DEF forkVars
<1>2. Known' /\ OutdatedOnTop' /\ DbHeight' = DbHeight /\ \A h : Fits(h)' <=> Fits(h)
  BY <1>1, SameBlocks DEF ForkInv
<1>3. StateOK' /\ RecordedExact' /\ StartScanned' /\ StartedFits'
  BY <1>1, <1>2 DEF ForkInv, StateOK, RecordedExact, StartScanned, StartedFits
<1>4. IndexIdeal'
  BY <1>1, SameTable DEF ForkInv, IndexIdeal
<1> QED
  BY <1>2, <1>3, <1>4 DEF ForkInv

-----------------------------------------------------------------------------
(* Theorems *)

\* Every step of adding, popping, replaying, rescanning and upgrading keeps the
\* invariant, whatever the votes and the size of the window.
THEOREM ForkInvariant ==
  NoVoting /\ ForkSpec => []ForkInv
<1>1. NoVoting /\ ForkInit => ForkInv
  BY InitInvariant
<1>2. NoVoting /\ ForkInv /\ [ForkNext]_forkVars => ForkInv'
  BY AddBlockStep, PopBlockStep, ReorganizeStep, ReplayStep, RestartStep, InitStep,
     StartPopStep, StartDoneStep, StutterStep DEF ForkNext
<1>3. NoVoting => NoVoting'
  BY DEF NoVoting
<1> QED
  BY <1>1, <1>2, <1>3, PTL DEF ForkSpec

\* Without voting, for every table of forks: the version that
\* HardFork::get_current_version gives is that of get_ideal_version for the
\* height of the chain; a node that has started, upgraded after a fork or not,
\* keeps no block of an outdated version, as the loop of Blockchain::init removes
\* all; and BlockchainDB::get_hard_fork_version gives the version of the block.
THEOREM ForkVersionsIdeal ==
  NoVoting /\ ForkSpec => []VersionsIdeal
<1>1. ForkInv => CurrentIsIdeal
  BY DEF ForkInv, CurrentIsIdeal, Running, IndexIdeal, get_ideal_version
<1>2. ForkInv => ChainIdeal
  BY DEF ForkInv, ChainIdeal, Running, StartedFits, Fits
<1>3. ForkInv => RecordedExact
  BY DEF ForkInv
<1>4. ForkInv => VersionsIdeal
  BY <1>1, <1>2, <1>3 DEF VersionsIdeal
<1> QED
  BY <1>4, ForkInvariant, PTL

-----------------------------------------------------------------------------
(* Counting in the window *)

\* The places of a value in a sequence.
Places(s, v) == {i \in 1..Len(s) : s[i] = v}

\* Moving a set of numbers keeps its size.
LEMMA ShiftedSize ==
  ASSUME NEW n \in Nat, NEW k \in Nat, NEW D \in SUBSET (1..n)
  PROVE  /\ IsFiniteSet(D) /\ IsFiniteSet({i + k : i \in D})
         /\ Cardinality({i + k : i \in D}) = Cardinality(D) /\ Cardinality(D) \in Nat
<1> DEFINE T == {i + k : i \in D}
           f == [i \in D |-> i + k]
<1>1. IsFiniteSet(D) /\ Cardinality(D) \in Nat
  <2>1. IsFiniteSet(1..n)
    BY FS_Interval
  <2> QED
    BY <2>1, FS_Subset, FS_CardinalityType
<1>2. f \in [D -> T] /\ \A i, j \in D : f[i] = f[j] => i = j
  OBVIOUS
<1>3. \A t \in T : \E i \in D : f[i] = t
  OBVIOUS
<1>4. f \in Bijection(D, T)
  BY <1>2, <1>3 DEF Bijection, Injection, Surjection, IsInjective
<1>5. ExistsBijection(D, T)
  BY <1>4 DEF ExistsBijection
<1> QED
  BY <1>1, <1>5, FS_Bijection

\* The places of a version in a window can be counted.
LEMMA PlacesSize ==
  ASSUME NEW V, NEW s \in Seq(V), NEW v
  PROVE  IsFiniteSet(Places(s, v)) /\ Cardinality(Places(s, v)) \in Nat
<1>1. Len(s) \in Nat /\ Places(s, v) \in SUBSET (1..Len(s))
  BY DEF Places
<1> HIDE DEF Places
<1> QED
  BY <1>1, ShiftedSize

\* The places of a version add up when windows are joined.
LEMMA CountConcat ==
  ASSUME NEW V, NEW s \in Seq(V), NEW t \in Seq(V), NEW v
  PROVE  Cardinality(Places(s \o t, v)) = Cardinality(Places(s, v)) + Cardinality(Places(t, v))
<1> DEFINE n == Len(s)
           m == Len(t)
           A == Places(s, v)
           B == {i + n : i \in Places(t, v)}
<1>1. n \in Nat /\ m \in Nat
  OBVIOUS
<1>2. /\ s \o t \in Seq(V) /\ Len(s \o t) = n + m
      /\ \A i \in 1..n + m : (s \o t)[i] = IF i <= n THEN s[i] ELSE t[i - n]
  BY ConcatProperties
<1>3. Places(s \o t, v) = A \cup B
  <2> DEFINE c == s \o t
  <2>1. Len(c) = n + m /\ \A i \in 1..n + m : c[i] = IF i <= n THEN s[i] ELSE t[i - n]
    BY <1>2
  <2> HIDE DEF c
  <2>2. ASSUME NEW i \in Places(c, v) PROVE i \in A \cup B
    <3>1. i \in 1..n + m /\ c[i] = v
      BY <2>1 DEF Places
    <3>2. CASE i <= n
      BY <1>1, <2>1, <3>1, <3>2 DEF Places
    <3>3. CASE i > n
      <4>1. i - n \in 1..m /\ t[i - n] = v /\ i = (i - n) + n
        BY <1>1, <2>1, <3>1, <3>3
      <4>2. i - n \in Places(t, v)
        BY <4>1 DEF Places
      <4> QED
        BY <4>1, <4>2
    <3> QED
      BY <1>1, <3>1, <3>2, <3>3
  <2>3. ASSUME NEW i \in A PROVE i \in Places(c, v)
    <3>1. i \in 1..n /\ s[i] = v
      BY DEF Places
    <3>2. i \in 1..n + m /\ c[i] = v
      BY <1>1, <2>1, <3>1
    <3> QED
      BY <2>1, <3>2 DEF Places
  <2>4. ASSUME NEW i \in B PROVE i \in Places(c, v)
    <3>1. PICK j \in Places(t, v) : i = j + n
      OBVIOUS
    <3>2. j \in 1..m /\ t[j] = v
      BY DEF Places
    <3>3. i \in 1..n + m /\ ~(i <= n) /\ i - n = j
      BY <1>1, <3>1, <3>2
    <3>4. c[i] = v
      BY <2>1, <3>2, <3>3
    <3> QED
      BY <2>1, <3>3, <3>4 DEF Places
  <2>5. Places(c, v) = A \cup B
    BY <2>2, <2>3, <2>4
  <2> QED
    BY <2>5 DEF c
<1>4. A \cap B = {}
  <2>1. \A i \in A : i \in 1..n
    BY DEF Places
  <2>2. \A i \in B : i > n
    BY <1>1 DEF Places
  <2> SUFFICES ASSUME NEW i \in A, i \in B PROVE FALSE
    BY Zenon
  <2> HIDE DEF A, B
  <2>3. i \in 1..n /\ i > n
    BY <2>1, <2>2, Zenon
  <2> HIDE DEF n
  <2> QED
    BY <1>1, <2>3
<1>5. IsFiniteSet(A) /\ IsFiniteSet(B) /\ Cardinality(A) \in Nat /\ Cardinality(B) = Cardinality(Places(t, v))
  <2>1. Places(t, v) \in SUBSET (1..m)
    BY DEF Places
  <2> QED
    BY <1>1, <2>1, ShiftedSize, PlacesSize
<1> HIDE DEF A, B
<1>6. Cardinality(A \cup B) = Cardinality(A) + Cardinality(B) - Cardinality(A \cap B)
  BY <1>5, FS_Union
<1>7. Cardinality(A \cap B) = 0
  BY <1>4, FS_EmptySet
<1>8. Cardinality(B) \in Nat
  BY <1>5, FS_CardinalityType
<1>9. Cardinality(A \cup B) = Cardinality(A) + Cardinality(B)
  BY <1>5, <1>6, <1>7, <1>8
<1> QED
  BY <1>3, <1>5, <1>9 DEF A

\* A window of one entry.
LEMMA CountOne ==
  ASSUME NEW x, NEW v
  PROVE  Cardinality(Places(<<x>>, v)) = IF v = x THEN 1 ELSE 0
<1>1. CASE v = x
  <2>1. Places(<<x>>, v) = {1}
    BY <1>1 DEF Places
  <2> QED
    BY <1>1, <2>1, FS_Singleton
<1>2. CASE v # x
  <2>1. Places(<<x>>, v) = {}
    BY <1>2 DEF Places
  <2> QED
    BY <1>2, <2>1, FS_EmptySet
<1> QED
  BY <1>1, <1>2

-----------------------------------------------------------------------------
(* The window, whatever the thresholds *)

\* This software knows the first forks of the table.
KnownForks == \E n \in Index : heights = SubSeq(Forks, 1, n)

TypedBlock == [version : VersionNumbers, vote : Nat]

\* The window and its counts.
WindowTyped ==
  /\ versions \in Seq(VersionNumbers) /\ last_versions = Count(versions)
  /\ Len(versions) <= WindowSize

WindowInv ==
  /\ KnownForks
  /\ db_blocks \in Seq(TypedBlock) /\ DbHeight \in 1..MaxForkHeight
  /\ hf_versions \in [0..MaxForkHeight -> VersionNumbers \cup {0}]
  /\ \A h \in 0..(DbHeight - 1) : hf_versions[h] \in VersionNumbers
  /\ current_fork_index \in 1..Len(heights)
  /\ scanned \in 1..DbHeight
  /\ starting \in {"no", "init", "check", "popped"}
  /\ WindowTyped /\ (starting # "init" => versions # <<>>)

\* The versions of the known forks are among those of all forks.
LEMMA VersionTypes ==
  ASSUME KnownForks
  PROVE  /\ TableOK /\ Len(heights) \in Index /\ Len(heights) \in Nat /\ Len(heights) >= 1
         /\ \A i \in 1..Len(heights) : Version(i) \in VersionNumbers
         /\ Forks[Len(Forks)].version \in Nat
         /\ 1 \in VersionNumbers
<1> PICK n \in Index : heights = SubSeq(Forks, 1, n)
  BY DEF KnownForks
<1>1. TableOK /\ Len(heights) = n
  BY PrefixTable
<1>2. Len(Forks) \in Nat /\ Len(Forks) >= 1 /\ n \in Nat /\ n >= 1 /\ n <= Len(Forks)
  BY ForkAssumption DEF Index
<1> DEFINE N == Len(Forks)
<1>3. N \in Index /\ \A i \in Index : Forks[i].version \in Nat \ {0}
  <2> DEFINE R == [version : Nat \ {0}, height : Nat, threshold : 0..100]
  <2>1. Forks \in Seq(R)
    BY ForkAssumption
  <2> HIDE DEF R
  <2>2. \A i \in Index : Forks[i] \in R
    BY <2>1 DEF Index
  <2> QED
    BY <1>2, <2>2 DEF Index, R
<1>4. ASSUME NEW i \in 1..n PROVE Version(i) \in VersionNumbers
  <2>1. i \in Index /\ heights[i] = Forks[i]
    BY <1>1, <1>2 DEF TableOK, Index
  <2>2. Forks[i].version <= Forks[N].version
    <3>1. i < N => Forks[i].version < Forks[N].version
      BY <1>3, <2>1, ForkAssumption, Zenon
    <3>2. i \in Nat /\ i <= N /\ N \in Nat
      BY <1>2
    <3> HIDE DEF N
    <3> QED
      BY <1>3, <2>1, <3>1, <3>2
  <2> QED
    BY <1>3, <2>1, <2>2 DEF Version, VersionNumbers
<1>5. 1 \in VersionNumbers
  <2>1. 1 \in 1..n /\ Version(1) = 1
    BY <1>1, <1>2 DEF TableOK
  <2> QED
    BY <1>4, <2>1
<1> QED
  BY <1>1, <1>2, <1>3, <1>4, <1>5

\* An effective vote is the version of some fork.
LEMMA EffectiveType ==
  ASSUME KnownForks, NEW b, b.vote \in Nat
  PROVE  get_effective_version(get_block_vote(b)) \in VersionNumbers
<1> DEFINE v == get_block_vote(b)
           N == Version(Len(heights))
<1>1. v \in Nat /\ v >= 1
  BY DEF get_block_vote
<1>2. N \in VersionNumbers /\ Forks[Len(Forks)].version \in Nat
  <2>1. Len(heights) \in 1..Len(heights)
    BY VersionTypes
  <2> QED
    BY <2>1, VersionTypes
<1> HIDE DEF v, N
<1>3. (IF v > N THEN N ELSE v) \in VersionNumbers
  BY <1>1, <1>2 DEF VersionNumbers
<1> QED
  BY <1>3 DEF get_effective_version, v, N

\* The index stays in the table and does not fall.
LEMMA RaisedType ==
  ASSUME KnownForks,
         NEW counts, NEW cur \in 1..Len(heights), NEW h
  PROVE  Raised(counts, cur, h) \in 1..Len(heights) /\ Raised(counts, cur, h) >= cur
<1> DEFINE voted == {i \in 1..Len(heights) : h >= heights[i].height /\ EnoughVotes(counts, i)}
           g == get_voted_fork_index(counts, cur, h)
<1>1. Len(heights) \in Nat
  BY VersionTypes
<1>2. g \in 1..Len(heights)
  <2>1. CASE voted = {}
    BY <2>1 DEF get_voted_fork_index
  <2>2. CASE voted # {}
    <3>1. voted \in SUBSET (0..Len(heights))
      BY <1>1
    <3> HIDE DEF voted
    <3>2. Max(voted) \in voted
      BY <1>1, <2>2, <3>1, MaxNat
    <3>3. g = Max(voted)
      BY <2>2 DEF get_voted_fork_index, voted
    <3> QED
      BY <3>2, <3>3 DEF voted
  <2> QED
    BY <2>1, <2>2
<1> HIDE DEF g
<1>3. Raised(counts, cur, h) = IF g > cur THEN g ELSE cur
  BY DEF Raised, g
<1> QED
  BY <1>1, <1>2, <1>3

\* The votes of a part of the chain.
LEMMA VotesType ==
  ASSUME KnownForks, db_blocks \in Seq(TypedBlock),
         NEW first \in Nat, NEW last \in Nat, first <= last, last < DbHeight
  PROVE  /\ VotesOf(first, last) \in Seq(VersionNumbers)
         /\ Len(VotesOf(first, last)) = last - first + 1
<1>1. ASSUME NEW i \in 1..(last - first + 1)
      PROVE  get_effective_version(get_block_vote(db_blocks[first + i])) \in VersionNumbers
  <2>1. first + i \in 1..Len(db_blocks)
    BY DEF DbHeight
  <2>2. db_blocks[first + i] \in TypedBlock
    BY <2>1
  <2>3. db_blocks[first + i].vote \in Nat
    BY <2>2 DEF TypedBlock
  <2> QED
    BY <2>3, EffectiveType
<1>2. last - first + 1 \in Nat
  OBVIOUS
<1>3. VotesOf(first, last) \in [1..(last - first + 1) -> VersionNumbers]
  BY <1>1 DEF VotesOf
<1> QED
  BY <1>2, <1>3

\* The window's next entry: what leaves and what comes is counted.
LEMMA AddWindow ==
  ASSUME KnownForks, WindowTyped,
         current_fork_index \in 1..Len(heights),
         NEW b, b.vote \in Nat, NEW h, add(b, h)
  PROVE  /\ WindowTyped' /\ versions' # <<>>
         /\ current_fork_index' \in 1..Len(heights)
         /\ versions' = Append(Trimmed(versions), get_effective_version(get_block_vote(b)))
<1> DEFINE vote == get_effective_version(get_block_vote(b))
           l == Len(versions)
           k == IF l >= WindowSize THEN l - WindowSize + 2 ELSE 1
           t == Trimmed(versions)
           d == SubSeq(versions, 1, l - Len(t))
<1>1. vote \in VersionNumbers
  BY EffectiveType
<1>2. /\ versions \in Seq(VersionNumbers) /\ l \in Nat /\ l <= WindowSize /\ last_versions = Count(versions)
      /\ WindowSize \in Nat \ {0}
  BY SizeAssumption DEF WindowTyped
<1>3. /\ versions' = Append(t, vote)
      /\ last_versions' = [v \in VersionNumbers |->
           last_versions[v] - Count(d)[v] + (IF v = vote THEN 1 ELSE 0)]
      /\ current_fork_index' = Raised(last_versions', current_fork_index, h + 1)
  BY DEF add
<1>4. k \in Nat /\ k >= 1 /\ k <= l + 1 /\ l - k + 1 <= WindowSize - 1
  BY <1>2
<1>5. t = SubSeq(versions, k, l)
  BY DEF Trimmed
<1> HIDE DEF vote, k
<1>6. t \in Seq(VersionNumbers) /\ Len(t) = l - k + 1
  <2>1. \A i \in k..l : versions[i] \in VersionNumbers
    BY <1>2, <1>4
  <2>2. SubSeq(versions, k, l) \in Seq(VersionNumbers) /\ Len(SubSeq(versions, k, l)) = IF k <= l THEN l - k + 1 ELSE 0
    BY <1>2, <1>4, <2>1, SubSeqProperties
  <2> HIDE DEF l, t
  <2> QED
    BY <1>2, <1>4, <1>5, <2>2
<1>7. d = SubSeq(versions, 1, k - 1) /\ d \in Seq(VersionNumbers) /\ versions = d \o t
  <2>1. l - Len(t) = k - 1
    BY <1>2, <1>4, <1>6
  <2>2. d = SubSeq(versions, 1, k - 1)
    BY <2>1
  <2>3. d \in Seq(VersionNumbers)
    BY <1>2, <1>4, <2>2
  <2>4. SubSeq(versions, 1, k - 1) \o SubSeq(versions, k - 1 + 1, l) = SubSeq(versions, 1, l)
    <3>1. 1 \in 1..Len(versions) + 1 /\ k - 1 \in 1 - 1..Len(versions) /\ l \in k - 1..Len(versions)
      BY <1>2, <1>4
    <3> QED
      BY <1>2, <3>1, ConcatAdjacentSubSeq
  <2>5. k - 1 + 1 = k /\ SubSeq(versions, 1, l) = versions
    BY <1>2, <1>4, SubSeqFull
  <2> QED
    BY <1>5, <2>2, <2>3, <2>4, <2>5
<1> HIDE DEF l, t, d
<1>8. Append(t, vote) = t \o <<vote>> /\ <<vote>> \in Seq(VersionNumbers)
  BY <1>1, <1>6, AppendIsConcat
<1>9. ASSUME NEW v \in VersionNumbers
      PROVE  last_versions'[v] = Cardinality(Places(versions', v))
  <2>1. Cardinality(Places(versions, v)) = Cardinality(Places(d, v)) + Cardinality(Places(t, v))
    <3>1. Cardinality(Places(d \o t, v)) = Cardinality(Places(d, v)) + Cardinality(Places(t, v))
      BY <1>6, <1>7, CountConcat
    <3> QED
      BY <1>7, <3>1, Zenon
  <2>2. Cardinality(Places(t \o <<vote>>, v)) = Cardinality(Places(t, v)) + Cardinality(Places(<<vote>>, v))
    BY <1>6, <1>8, CountConcat
  <2>3. Cardinality(Places(<<vote>>, v)) = IF v = vote THEN 1 ELSE 0
    BY CountOne
  <2>4. Cardinality(Places(d, v)) \in Nat /\ Cardinality(Places(t, v)) \in Nat
    BY <1>6, <1>7, PlacesSize
  <2>5. last_versions[v] = Cardinality(Places(versions, v)) /\ Count(d)[v] = Cardinality(Places(d, v))
    BY <1>2 DEF Count, Places
  <2>6. last_versions'[v] = last_versions[v] - Count(d)[v] + (IF v = vote THEN 1 ELSE 0)
    BY <1>3
  <2> QED
    BY <1>3, <1>8, <2>1, <2>2, <2>3, <2>4, <2>5, <2>6
<1>10. last_versions' = Count(versions')
  <2>1. last_versions' = [v \in VersionNumbers |-> last_versions'[v]]
    BY <1>3
  <2>2. Count(versions') = [v \in VersionNumbers |-> Cardinality(Places(versions', v))]
    BY DEF Count, Places
  <2> QED
    BY <1>9, <2>1, <2>2
<1>11. versions' \in Seq(VersionNumbers) /\ Len(versions') = l - k + 1 + 1 /\ versions' # <<>>
  BY <1>1, <1>3, <1>6, AppendProperties
<1>12. WindowTyped'
  <2>1. l - k + 1 + 1 <= WindowSize
    BY <1>2, <1>4
  <2>2. Len(versions') <= WindowSize
    BY <1>11, <2>1, Zenon
  <2> QED
    BY <1>10, <1>11, <2>2, Zenon DEF WindowTyped
<1>13. current_fork_index' \in 1..Len(heights)
  BY <1>3, RaisedType
<1> QED
  BY <1>3, <1>11, <1>12, <1>13 DEF vote, t

\* The counts of a window are numbers.
LEMMA CountType ==
  ASSUME NEW s \in Seq(VersionNumbers)
  PROVE  Count(s) \in [VersionNumbers -> Nat]
<1>1. ASSUME NEW v \in VersionNumbers PROVE Cardinality({i \in 1..Len(s) : s[i] = v}) \in Nat
  BY PlacesSize DEF Places
<1> QED
  BY <1>1 DEF Count

\* The window that reorganize_from_block_height fills.
LEMMA ReorganizedWindow ==
  ASSUME WindowInv, NEW height \in 0..(DbHeight - 1), ReorganizedTo(height)
  PROVE  /\ WindowTyped' /\ versions' # <<>>
         /\ current_fork_index' \in 1..Len(heights)
         /\ scanned' = height + 1
<1> DEFINE first == ReorganizeFrom(height)
           start_version == IF height = 0 THEN 1 ELSE hf_versions[height]
           S == {n \in 1..current_fork_index : n = 1 \/ Version(n) <= start_version}
<1>1. /\ versions' = VotesOf(first, height) /\ last_versions' = Count(versions')
      /\ current_fork_index' = Raised(last_versions', Max(S), height + 1)
      /\ scanned' = height + 1
  BY DEF ReorganizedTo
<1>2. /\ DbHeight \in Nat /\ height \in Nat /\ height < DbHeight /\ WindowSize \in Nat \ {0}
      /\ KnownForks /\ db_blocks \in Seq(TypedBlock)
  BY SizeAssumption DEF WindowInv
<1>3. first \in Nat /\ first <= height /\ height - first + 1 <= WindowSize /\ height - first + 1 >= 1
  BY <1>2 DEF ReorganizeFrom
<1> HIDE DEF first
<1>4. versions' \in Seq(VersionNumbers) /\ Len(versions') = height - first + 1
  BY <1>1, <1>2, <1>3, VotesType
<1>5. Len(versions') <= WindowSize /\ Len(versions') >= 1
  BY <1>3, <1>4
<1>6. versions' # <<>>
  BY <1>5
<1>7. WindowTyped'
  BY <1>1, <1>4, <1>5, Zenon DEF WindowTyped
<1>8. Len(heights) \in Nat /\ current_fork_index \in 1..Len(heights)
  BY <1>2, VersionTypes DEF WindowInv
<1>9. Max(S) \in 1..Len(heights)
  <2>1. S \in SUBSET (0..Len(heights)) /\ S # {} /\ \A x \in S : x \in 1..Len(heights)
    <3>1. \A x \in 1..current_fork_index : x \in 1..Len(heights) /\ x \in 0..Len(heights)
      BY <1>8
    <3>2. 1 \in S
      BY <1>8
    <3> QED
      BY <3>1, <3>2
  <2> HIDE DEF S
  <2>2. Max(S) \in S
    BY <1>8, <2>1, MaxNat
  <2> QED
    BY <2>1, <2>2
<1> HIDE DEF S
<1>10. current_fork_index' \in 1..Len(heights)
  BY <1>1, <1>2, <1>9, RaisedType
<1> QED
  BY <1>1, <1>6, <1>7, <1>10

\* What a step leaves when it changes neither forks, blocks nor record.
LEMMA KeptChain ==
  ASSUME WindowInv, heights' = heights, db_blocks' = db_blocks, hf_versions' = hf_versions
  PROVE  /\ KnownForks' /\ db_blocks' \in Seq(TypedBlock) /\ DbHeight' \in 1..MaxForkHeight
         /\ hf_versions' \in [0..MaxForkHeight -> VersionNumbers \cup {0}]
         /\ \A h \in 0..(DbHeight' - 1) : hf_versions'[h] \in VersionNumbers
         /\ DbHeight' = DbHeight
  BY DEF WindowInv, KnownForks, DbHeight

\* reorganize_from_block_height fills the window from the chain.
LEMMA ReorganizeWindowStep ==
  ASSUME WindowInv, NEW height \in 0..MaxForkHeight, reorganize_from_block_height(height)
  PROVE  WindowInv'
<1>1. /\ starting = "no" /\ starting' = "no" /\ heights' = heights /\ hf_versions' = hf_versions
      /\ height < DbHeight /\ db_blocks' = db_blocks /\ ReorganizedTo(height)
  BY DEF reorganize_from_block_height, Running
<1>2. height \in 0..(DbHeight - 1) /\ height + 1 \in 1..DbHeight
  BY <1>1, SizeAssumption DEF WindowInv
<1>3. /\ WindowTyped' /\ versions' # <<>> /\ scanned' = height + 1
      /\ current_fork_index' \in 1..Len(heights)
  BY <1>1, <1>2, ReorganizedWindow
<1> QED
  BY <1>1, <1>2, <1>3, KeptChain DEF WindowInv

\* The loop of Blockchain::init ends with the window it had or a new one.
LEMMA StartDoneWindowStep ==
  ASSUME WindowInv, start_done
  PROVE  WindowInv'
<1>1. /\ starting \in {"check", "popped"} /\ starting' = "no" /\ heights' = heights
      /\ hf_versions' = hf_versions /\ db_blocks' = db_blocks
  BY DEF start_done
<1>2. DbHeight - 1 \in 0..(DbHeight - 1) /\ (DbHeight - 1) + 1 \in 1..DbHeight
  BY SizeAssumption DEF WindowInv
<1>3. CASE starting = "popped"
  <2>1. ReorganizedTo(DbHeight - 1)
    BY <1>3 DEF start_done
  <2>2. /\ WindowTyped' /\ versions' # <<>> /\ scanned' = (DbHeight - 1) + 1
        /\ current_fork_index' \in 1..Len(heights)
    BY <1>2, <2>1, ReorganizedWindow
  <2> QED
    BY <1>1, <1>2, <2>2, KeptChain DEF WindowInv
<1>4. CASE starting # "popped"
  <2>1. UNCHANGED <<versions, last_versions, current_fork_index, scanned>>
    BY <1>4 DEF start_done
  <2>2. WindowTyped' /\ versions' # <<>>
    BY <1>1, <2>1 DEF WindowInv, WindowTyped, Count, VersionNumbers
  <2> QED
    BY <1>1, <2>1, <2>2, KeptChain DEF WindowInv
<1> QED
  BY <1>3, <1>4

\* Some fork is known.
LEMMA KnownSize ==
  KnownForks => Len(heights) \in Nat /\ Len(heights) >= 1
  BY VersionTypes

\* A restart forgets the window.
LEMMA RestartWindowStep ==
  ASSUME WindowInv, NEW n \in Index, restart_node(n)
  PROVE  WindowInv'
<1>1. /\ heights' = SubSeq(Forks, 1, n) /\ db_blocks' = db_blocks /\ hf_versions' = hf_versions
      /\ current_fork_index' = 1 /\ scanned' = scanned /\ versions' = <<>>
      /\ last_versions' = Count(<<>>) /\ starting' = "init"
  BY DEF restart_node
<1>2. KnownForks'
  BY <1>1 DEF KnownForks
<1>3. Len(heights') \in Nat /\ Len(heights') >= 1
  <2>1. (KnownForks => Len(heights) \in Nat /\ Len(heights) >= 1)'
    BY KnownSize, PTL
  <2> QED
    BY <1>2, <2>1
<1>4. current_fork_index' \in 1..Len(heights')
  <2>1. current_fork_index' = 1
    BY <1>1
  <2> QED
    BY <1>3, <2>1
<1>5. WindowTyped'
  <2>1. Len(<<>>) <= WindowSize
    BY SizeAssumption
  <2> QED
    BY <1>1, <2>1 DEF WindowTyped, Count, VersionNumbers
<1>6. DbHeight' = DbHeight
  BY <1>1 DEF DbHeight
<1> QED
  BY <1>1, <1>2, <1>4, <1>5, <1>6 DEF WindowInv

\* HardFork::init fills the window again.
LEMMA InitWindowStep ==
  ASSUME WindowInv, init
  PROVE  WindowInv'
<1> DEFINE found == {n \in 1..Len(heights) : n = Len(heights) \/ Version(n) = hf_versions[DbHeight - 1]}
           first == RescanFrom
<1>1. /\ starting' = "check" /\ heights' = heights /\ scanned' = scanned
      /\ hf_versions' = hf_versions /\ db_blocks' = db_blocks
      /\ versions' = VotesOf(first, DbHeight - 1) /\ last_versions' = Count(versions')
      /\ current_fork_index' = Raised(last_versions', Min(found), DbHeight)
  BY DEF init
<1>2. /\ DbHeight \in Nat /\ DbHeight >= 1 /\ DbHeight - 1 \in Nat /\ WindowSize \in Nat \ {0}
      /\ KnownForks /\ db_blocks \in Seq(TypedBlock)
  BY SizeAssumption DEF WindowInv
<1>3. /\ first \in Nat /\ first <= DbHeight - 1 /\ DbHeight - 1 < DbHeight
      /\ (DbHeight - 1) - first + 1 <= WindowSize /\ (DbHeight - 1) - first + 1 >= 1
  BY <1>2 DEF RescanFrom
<1> HIDE DEF first
<1>4. versions' \in Seq(VersionNumbers) /\ Len(versions') = (DbHeight - 1) - first + 1
  BY <1>1, <1>2, <1>3, VotesType
<1>5. Len(versions') <= WindowSize /\ Len(versions') >= 1
  BY <1>3, <1>4
<1>6. versions' # <<>>
  BY <1>5
<1>7. WindowTyped'
  BY <1>1, <1>4, <1>5, Zenon DEF WindowTyped
<1>8. Len(heights) \in Nat /\ Len(heights) >= 1
  BY <1>2, VersionTypes
<1>9. Min(found) \in 1..Len(heights)
  <2>1. Len(heights) \in found /\ found \in SUBSET (1..Len(heights)) /\ found \in SUBSET Nat
    BY <1>8
  <2> HIDE DEF found
  <2> QED
    BY <2>1, MinNat
<1> HIDE DEF found
<1>10. current_fork_index' \in 1..Len(heights)
  BY <1>1, <1>2, <1>9, RaisedType
<1> QED
  BY <1>1, <1>6, <1>7, <1>10, KeptChain DEF WindowInv

\* A block is checked, stored and counted.
LEMMA AddBlockWindowStep ==
  ASSUME WindowInv, NEW b \in [version : VersionNumbers, vote : Votes], add_block(b)
  PROVE  WindowInv'
<1>1. /\ starting = "no" /\ starting' = "no" /\ heights' = heights /\ DbHeight < MaxForkHeight
      /\ scanned = DbHeight /\ db_blocks' = Append(db_blocks, b) /\ scanned' = scanned + 1
      /\ add(b, DbHeight)
      /\ hf_versions' = [hf_versions EXCEPT ![DbHeight] = Version(current_fork_index)]
  BY DEF add_block, Running, add, Recorded
<1>2. b \in TypedBlock /\ b.vote \in Nat
  BY SizeAssumption DEF TypedBlock
<1>3. /\ KnownForks /\ WindowTyped /\ current_fork_index \in 1..Len(heights)
      /\ DbHeight \in Nat /\ DbHeight >= 1 /\ MaxForkHeight \in Nat /\ db_blocks \in Seq(TypedBlock)
      /\ hf_versions \in [0..MaxForkHeight -> VersionNumbers \cup {0}]
  BY SizeAssumption DEF WindowInv
<1>4. /\ WindowTyped' /\ versions' # <<>> /\ current_fork_index' \in 1..Len(heights')
  BY <1>1, <1>2, <1>3, AddWindow
<1>5. db_blocks' \in Seq(TypedBlock) /\ DbHeight' = DbHeight + 1
  BY <1>1, <1>2, <1>3 DEF DbHeight
<1>6. Version(current_fork_index) \in VersionNumbers
  BY <1>3, VersionTypes
<1>7. DbHeight \in 0..MaxForkHeight /\ DbHeight' \in 1..MaxForkHeight /\ scanned' \in 1..DbHeight'
  BY <1>1, <1>3, <1>5
<1>8. hf_versions' \in [0..MaxForkHeight -> VersionNumbers \cup {0}]
  BY <1>1, <1>3, <1>6
<1>9. ASSUME NEW h \in 0..(DbHeight' - 1) PROVE hf_versions'[h] \in VersionNumbers
  <2>1. h \in 0..MaxForkHeight /\ (h = DbHeight \/ h \in 0..(DbHeight - 1))
    BY <1>1, <1>3, <1>5
  <2> QED
    BY <1>1, <1>3, <1>6, <2>1 DEF WindowInv
<1>10. KnownForks'
  BY <1>1, <1>3 DEF KnownForks
<1> QED
  BY <1>1, <1>4, <1>5, <1>7, <1>8, <1>9, <1>10 DEF WindowInv

\* A block is counted again, or skipped.
LEMMA ReplayWindowStep ==
  ASSUME WindowInv, replay_block
  PROVE  WindowInv'
<1> DEFINE b == db_blocks[scanned + 1]
<1>1. /\ scanned < DbHeight /\ starting' = starting /\ heights' = heights /\ db_blocks' = db_blocks
      /\ scanned' = scanned + 1
      /\ IF do_check(b) THEN add(b, scanned)
         ELSE UNCHANGED <<hf_versions, versions, last_versions, current_fork_index>>
  BY DEF replay_block
<1>2. /\ KnownForks /\ WindowTyped /\ current_fork_index \in 1..Len(heights)
      /\ DbHeight \in Nat /\ DbHeight >= 1 /\ MaxForkHeight \in Nat /\ DbHeight <= MaxForkHeight
      /\ db_blocks \in Seq(TypedBlock) /\ scanned \in Nat /\ scanned >= 1
      /\ hf_versions \in [0..MaxForkHeight -> VersionNumbers \cup {0}]
  BY SizeAssumption DEF WindowInv
<1>3. scanned + 1 \in 1..Len(db_blocks) /\ scanned' \in 1..DbHeight /\ scanned \in 0..(DbHeight - 1)
      /\ scanned \in 0..MaxForkHeight
  BY <1>1, <1>2 DEF DbHeight
<1>4. b.vote \in Nat
  <2>1. b \in TypedBlock
    BY <1>2, <1>3
  <2> HIDE DEF b
  <2> QED
    BY <2>1 DEF TypedBlock
<1> HIDE DEF b
<1>5. KnownForks' /\ DbHeight' = DbHeight
  BY <1>1, <1>2 DEF KnownForks, DbHeight
<1>6. CASE do_check(b)
  <2>1. add(b, scanned) /\ hf_versions' = [hf_versions EXCEPT ![scanned] = Version(current_fork_index)]
    BY <1>1, <1>6 DEF add, Recorded
  <2>2. /\ WindowTyped' /\ versions' # <<>> /\ current_fork_index' \in 1..Len(heights')
    BY <1>1, <1>2, <1>4, <2>1, AddWindow
  <2>3. Version(current_fork_index) \in VersionNumbers
    BY <1>2, VersionTypes
  <2>4. hf_versions' \in [0..MaxForkHeight -> VersionNumbers \cup {0}]
    BY <1>2, <2>1, <2>3
  <2>5. ASSUME NEW h \in 0..(DbHeight - 1) PROVE hf_versions'[h] \in VersionNumbers
    <3>1. h \in 0..MaxForkHeight
      BY <1>2
    <3> QED
      BY <1>2, <2>1, <2>3, <3>1 DEF WindowInv
  <2> QED
    BY <1>1, <1>3, <1>5, <2>2, <2>4, <2>5 DEF WindowInv
<1>7. CASE ~do_check(b)
  <2>1. UNCHANGED <<hf_versions, versions, last_versions, current_fork_index>>
    BY <1>1, <1>7
  <2>2. WindowTyped' /\ (starting' # "init" => versions' # <<>>)
    BY <1>1, <2>1 DEF WindowInv, WindowTyped, Count, VersionNumbers
  <2> QED
    BY <1>1, <1>3, <2>1, <2>2, KeptChain DEF WindowInv
<1> QED
  BY <1>6, <1>7

\* The chain without its top block, which is not the genesis block.
LEMMA PoppedChain ==
  ASSUME WindowInv, DbHeight > 1, heights' = heights, hf_versions' = hf_versions,
         db_blocks' = SubSeq(db_blocks, 1, DbHeight - 1)
  PROVE  /\ KnownForks' /\ db_blocks' \in Seq(TypedBlock) /\ DbHeight' \in 1..MaxForkHeight
         /\ hf_versions' \in [0..MaxForkHeight -> VersionNumbers \cup {0}]
         /\ \A h \in 0..(DbHeight' - 1) : hf_versions'[h] \in VersionNumbers
         /\ DbHeight' = DbHeight - 1 /\ DbHeight - 1 \in 1..DbHeight'
<1>1. DbHeight \in Nat /\ DbHeight <= MaxForkHeight /\ DbHeight = Len(db_blocks)
      /\ db_blocks \in Seq(TypedBlock) /\ MaxForkHeight \in Nat
  BY SizeAssumption DEF WindowInv, DbHeight
<1>2. db_blocks' \in Seq(TypedBlock) /\ Len(db_blocks') = DbHeight - 1
  BY <1>1
<1>3. DbHeight' = DbHeight - 1
  BY <1>2 DEF DbHeight
<1>4. DbHeight' \in 1..MaxForkHeight /\ DbHeight - 1 \in 1..DbHeight'
  BY <1>1, <1>3
<1>5. \A h \in 0..(DbHeight' - 1) : h \in 0..(DbHeight - 1)
  BY <1>1, <1>3
<1> QED
  BY <1>2, <1>3, <1>4, <1>5 DEF WindowInv, KnownForks

\* The loop of Blockchain::init does not reach the genesis block.
LEMMA StartPopWindowStep ==
  ASSUME WindowInv, start_pop
  PROVE  WindowInv'
<1>1. /\ starting \in {"check", "popped"} /\ starting' = "popped" /\ ~TopFits
      /\ db_blocks' = SubSeq(db_blocks, 1, DbHeight - 1) /\ scanned' = DbHeight - 1
      /\ heights' = heights /\ hf_versions' = hf_versions /\ versions' = versions
      /\ last_versions' = last_versions /\ current_fork_index' = current_fork_index
  BY DEF start_pop
<1>2. TableOK /\ DbHeight \in Nat /\ DbHeight >= 1
  BY VersionTypes, SizeAssumption DEF WindowInv
<1>3. DbHeight > 1
  <2> SUFFICES ASSUME DbHeight = 1 PROVE TopFits
    BY <1>1, <1>2
  <2>1. get_ideal_version(0) = 1
    BY <1>2, IdealAtZero DEF TableOK, get_ideal_version
  <2>2. DbHeight - 1 = 0
    OBVIOUS
  <2> QED
    BY <2>1, <2>2 DEF TopFits
<1>4. WindowTyped' /\ versions' # <<>>
  BY <1>1 DEF WindowInv, WindowTyped, Count, VersionNumbers
<1>5. current_fork_index' \in 1..Len(heights')
  BY <1>1 DEF WindowInv
<1> QED
  BY <1>1, <1>3, <1>4, <1>5, PoppedChain DEF WindowInv

\* on_block_popped: one entry leaves the window at its end, one comes in front.
LEMMA PopWindowStep ==
  ASSUME WindowInv, on_block_popped
  PROVE  WindowInv'
<1> DEFINE out == versions[Len(versions)]
           in == hf_versions[DbHeight - 1]
           l == Len(versions)
           u == SubSeq(versions, 1, l - 1)
<1>1. /\ starting = "no" /\ starting' = "no" /\ heights' = heights /\ hf_versions' = hf_versions
      /\ DbHeight > 1 /\ db_blocks' = SubSeq(db_blocks, 1, DbHeight - 1) /\ scanned' = DbHeight - 1
      /\ versions' = <<in>> \o u /\ last_versions' = PoppedCounts(out, in)
      /\ current_fork_index' = IdealIndex(DbHeight - 1)
  BY DEF on_block_popped, Running, PoppedIndex
<1>2. /\ TableOK /\ DbHeight \in Nat /\ DbHeight - 1 \in Nat /\ DbHeight - 1 \in 0..(DbHeight - 1)
  BY <1>1, VersionTypes, SizeAssumption DEF WindowInv
<1>3. in \in VersionNumbers
  BY <1>2 DEF WindowInv
<1>4. /\ versions \in Seq(VersionNumbers) /\ last_versions = Count(versions)
      /\ l \in Nat /\ l >= 1 /\ l <= WindowSize /\ l \in 1..l
  BY <1>1 DEF WindowInv, WindowTyped
<1>5. out \in VersionNumbers
  BY <1>4
<1>6. u \in Seq(VersionNumbers) /\ Len(u) = l - 1
  <2>1. \A i \in 1..(l - 1) : versions[i] \in VersionNumbers
    BY <1>4
  <2>2. u \in Seq(VersionNumbers) /\ Len(u) = IF 1 <= l - 1 THEN l - 1 - 1 + 1 ELSE 0
    BY <1>4, <2>1, SubSeqProperties
  <2> HIDE DEF l, u
  <2> QED
    BY <1>4, <2>2
<1>7. versions = u \o <<out>>
  BY <1>4, <1>6
<1> HIDE DEF out, in, l, u
<1>8. <<in>> \in Seq(VersionNumbers) /\ <<out>> \in Seq(VersionNumbers)
      /\ Len(<<in>>) = 1
  BY <1>3, <1>5
<1>9. versions' \in Seq(VersionNumbers) /\ Len(versions') = 1 + (l - 1)
  BY <1>1, <1>6, <1>8, ConcatProperties
<1>10. ASSUME NEW v \in VersionNumbers
       PROVE  last_versions'[v] = Cardinality(Places(versions', v))
  <2>1. Cardinality(Places(versions, v)) = Cardinality(Places(u, v)) + Cardinality(Places(<<out>>, v))
    <3>1. Cardinality(Places(u \o <<out>>, v)) = Cardinality(Places(u, v)) + Cardinality(Places(<<out>>, v))
      BY <1>6, <1>8, CountConcat
    <3> QED
      BY <1>7, <3>1, Zenon
  <2>2. Cardinality(Places(<<in>> \o u, v)) = Cardinality(Places(<<in>>, v)) + Cardinality(Places(u, v))
    BY <1>6, <1>8, CountConcat
  <2>3. /\ Cardinality(Places(<<out>>, v)) = IF v = out THEN 1 ELSE 0
        /\ Cardinality(Places(<<in>>, v)) = IF v = in THEN 1 ELSE 0
    BY CountOne
  <2>4. Cardinality(Places(u, v)) \in Nat
    BY <1>6, PlacesSize
  <2>5. last_versions \in [VersionNumbers -> Nat]
    BY <1>4, CountType
  <2>6. last_versions[v] = Cardinality(Places(versions, v))
    BY <1>4 DEF Count, Places
  <2>7. last_versions'[v] = last_versions[v] - (IF v = out THEN 1 ELSE 0) + (IF v = in THEN 1 ELSE 0)
    <3> DEFINE c == [last_versions EXCEPT ![out] = @ - 1]
    <3>1. c[v] = last_versions[v] - (IF v = out THEN 1 ELSE 0) /\ DOMAIN c = VersionNumbers
          /\ c[v] \in Int
      BY <1>5, <2>5
    <3>2. last_versions' = [c EXCEPT ![in] = @ + 1]
      BY <1>1 DEF PoppedCounts
    <3> HIDE DEF c
    <3> QED
      BY <1>3, <3>1, <3>2
  <2>8. last_versions'[v] = Cardinality(Places(<<in>> \o u, v))
    BY <2>1, <2>2, <2>3, <2>4, <2>6, <2>7
  <2> QED
    BY <1>1, <2>8, Zenon
<1>11. last_versions' = Count(versions')
  <2>1. last_versions' = [v \in VersionNumbers |-> last_versions'[v]]
    <3>1. last_versions \in [VersionNumbers -> Nat]
      BY <1>4, CountType
    <3> QED
      BY <1>1, <3>1 DEF PoppedCounts
  <2>2. Count(versions') = [v \in VersionNumbers |-> Cardinality(Places(versions', v))]
    BY DEF Count, Places
  <2> QED
    BY <1>10, <2>1, <2>2
<1>12. Len(versions') <= WindowSize /\ Len(versions') >= 1
  <2>1. 1 + (l - 1) <= WindowSize /\ 1 + (l - 1) >= 1
    BY <1>4, SizeAssumption
  <2> QED
    BY <1>9, <2>1, Zenon
<1>13. versions' # <<>>
  BY <1>12
<1>14. WindowTyped'
  BY <1>9, <1>11, <1>12, Zenon DEF WindowTyped
<1>15. current_fork_index' \in 1..Len(heights')
  BY <1>1, <1>2, IdealBounds
<1> QED
  BY <1>1, <1>13, <1>14, <1>15, PoppedChain DEF WindowInv

\* The genesis block of a new node.
LEMMA WindowStart ==
  ASSUME ForkInit
  PROVE  WindowInv
<1>1. /\ KnownForks /\ db_blocks = <<Genesis>> /\ versions = <<1>> /\ last_versions = Count(<<1>>)
      /\ hf_versions = [h \in 0..MaxForkHeight |-> IF h = 0 THEN 1 ELSE 0]
      /\ current_fork_index = Raised(last_versions, 1, 1) /\ scanned = 1 /\ starting = "no"
  BY DEF ForkInit, KnownForks
<1>2. 1 \in VersionNumbers /\ Len(heights) \in Nat /\ Len(heights) >= 1
  BY <1>1, VersionTypes
<1>3. db_blocks \in Seq(TypedBlock) /\ DbHeight = 1
  BY <1>1, <1>2 DEF Genesis, TypedBlock, DbHeight
<1>4. current_fork_index \in 1..Len(heights)
  BY <1>1, <1>2, RaisedType
<1>5. WindowTyped /\ versions # <<>>
  BY <1>1, <1>2, SizeAssumption DEF WindowTyped
<1>6. /\ hf_versions \in [0..MaxForkHeight -> VersionNumbers \cup {0}]
      /\ \A h \in 0..(DbHeight - 1) : hf_versions[h] \in VersionNumbers
  BY <1>1, <1>2, <1>3, SizeAssumption
<1> QED
  BY <1>1, <1>3, <1>4, <1>5, <1>6, SizeAssumption DEF WindowInv

\* Every step keeps the window in shape.
LEMMA WindowInductive ==
  WindowInv /\ [ForkNext]_forkVars => WindowInv'
<1>1. WindowInv /\ ForkNext => WindowInv'
  <2> SUFFICES ASSUME WindowInv, ForkNext PROVE WindowInv'
    OBVIOUS
  <2>1. CASE \E version \in VersionNumbers, vote \in Votes : add_block([version |-> version, vote |-> vote])
    BY <2>1, AddBlockWindowStep
  <2>2. CASE \E height \in 0..MaxForkHeight : reorganize_from_block_height(height)
    BY <2>2, ReorganizeWindowStep
  <2>3. CASE \E n \in Index : restart_node(n)
    BY <2>3, RestartWindowStep
  <2> QED
    BY <2>1, <2>2, <2>3, PopWindowStep, ReplayWindowStep, InitWindowStep,
       StartPopWindowStep, StartDoneWindowStep DEF ForkNext
<1>2. WindowInv /\ UNCHANGED forkVars => WindowInv'
  <2> SUFFICES ASSUME WindowInv, UNCHANGED forkVars PROVE WindowInv'
    OBVIOUS
  <2>1. /\ heights' = heights /\ db_blocks' = db_blocks /\ hf_versions' = hf_versions
        /\ versions' = versions /\ last_versions' = last_versions
        /\ current_fork_index' = current_fork_index /\ scanned' = scanned /\ starting' = starting
    BY DEF forkVars
  <2>2. WindowTyped'
    BY <2>1 DEF WindowInv, WindowTyped, Count, VersionNumbers
  <2> QED
    BY <2>1, <2>2, KeptChain DEF WindowInv
<1> QED
  BY <1>1, <1>2

\* Every step keeps the window, its counts and the index in shape: a count never
\* goes below zero and the window is never empty when on_block_popped reads its
\* last entry, with or without voting, for every table and size of the window.
THEOREM WindowInvariant ==
  ForkSpec => []WindowInv
<1>1. ForkInit => WindowInv
  BY WindowStart
<1>2. WindowInv /\ [ForkNext]_forkVars => WindowInv'
  BY WindowInductive
<1> QED
  BY <1>1, <1>2, PTL DEF ForkSpec

\* What the invariant says of the window and the types.
LEMMA WindowTypes == WindowInv => ForkTypeOK /\ WindowSound
  BY CountType DEF WindowInv, WindowTyped, WindowSound, ForkTypeOK, TypedBlock, KnownForks

\* last_versions counts the window, which holds between one vote and window_size
\* of them, in every state of HardFork outside of its start: on_block_popped never
\* takes from a count of zero.
THEOREM WindowIsSound ==
  ForkSpec => []WindowSound
<1>1. WindowInv => WindowSound
  BY WindowTypes
<1> QED
  BY <1>1, WindowInvariant, PTL

\* The database keeps at least the genesis block, the record holds a version or
\* none for every height, the index is in the table, counts are not negative.
THEOREM ForkTypeCorrect ==
  ForkSpec => []ForkTypeOK
<1>1. WindowInv => ForkTypeOK
  BY WindowTypes
<1> QED
  BY <1>1, WindowInvariant, PTL

-----------------------------------------------------------------------------
(* Votes *)

\* Every table of hardforks.cpp lists the versions without a gap.
Consecutive == \A n \in Index : Forks[n].version = n

\* The index of a fork is then its version.
LEMMA VersionIsIndex ==
  ASSUME Consecutive, KnownForks
  PROVE  /\ TableOK /\ Len(heights) \in Nat /\ Len(heights) >= 1 /\ Len(heights) \in Index
         /\ VersionNumbers = Index /\ Len(Forks) \in Nat
         /\ \A n \in 1..Len(heights) : n \in Index /\ Version(n) = n /\ heights[n] = Forks[n]
<1>1. TableOK /\ Len(heights) \in Nat /\ Len(heights) >= 1 /\ Len(heights) \in Index
  BY VersionTypes
<1>2. Len(Forks) \in Nat /\ Len(Forks) \in Index
  BY ForkAssumption DEF Index
<1>3. VersionNumbers = Index
  BY <1>2 DEF VersionNumbers, Consecutive, Index
<1>4. \A n \in 1..Len(heights) : n \in Index /\ heights[n] = Forks[n]
  BY <1>1, <1>2 DEF TableOK, Index
<1> QED
  BY <1>1, <1>2, <1>3, <1>4 DEF Version, Consecutive

\* The entries of a window from a version on.
From(w, n) == {i \in 1..Len(w) : w[i] >= n}

\* The sum that EnoughVotes takes, for a function of the fork.
LEMMA VoteSum ==
  ASSUME NEW counts, NEW S, IsFiniteSet(S), NEW f \in [S -> Nat],
         \A m \in S : f[m] = counts[Version(m)]
  PROVE  MapThenSumSet(LAMBDA m : counts[Version(m)], S) = SumOver(f, S)
<1> DEFINE P(g) == g = [s \in SUBSET S |-> IF s = {} THEN 0
                                            ELSE counts[Version(Pick(s))] + g[s \ {Pick(s)}]]
           G == CHOOSE g : P(g)
<1>1. MapThenSumSet(LAMBDA m : counts[Version(m)], S) = G[S]
  BY Zenon DEF MapThenSumSet, MapThenFoldSet, Pick
<1>2. ASSUME NEW s \in SUBSET S, s # {} PROVE f[Pick(s)] = counts[Version(Pick(s))]
  BY <1>2, PickFacts
<1>3. ASSUME NEW g PROVE [s \in SUBSET S |-> IF s = {} THEN 0 ELSE f[Pick(s)] + g[s \ {Pick(s)}]]
        = [s \in SUBSET S |-> IF s = {} THEN 0 ELSE counts[Version(Pick(s))] + g[s \ {Pick(s)}]]
  <2>1. \A s \in SUBSET S : (IF s = {} THEN 0 ELSE f[Pick(s)] + g[s \ {Pick(s)}])
                             = (IF s = {} THEN 0 ELSE counts[Version(Pick(s))] + g[s \ {Pick(s)}])
    BY <1>2
  <2> QED
    BY <2>1
<1>4. PICK g \in [SUBSET S -> Nat] : SumsTo(f, S, g)
  BY SumsExist
<1>5. P(g)
  BY <1>3, <1>4, Zenon DEF SumsTo
<1>6. P(G)
  BY <1>5, Zenon
<1> HIDE DEF G
<1>7. SumsTo(f, S, G)
  BY <1>3, <1>6, Zenon DEF SumsTo
<1>8. G[S] = SumOver(f, S)
  BY <1>7, SumIs
<1> QED
  BY <1>1, <1>8

\* A sum over numbers, the last one taken out.
LEMMA SumLast ==
  ASSUME NEW n, NEW k, NEW D, NEW f \in [D -> Nat], n..k \in SUBSET D, IsFiniteSet(n..k),
         k \in n..k
  PROVE  SumOver(f, n..k) = f[k] + SumOver(f, (n..k) \ {k})
<1> DEFINE S == n..k
<1>1. S \in SUBSET D /\ IsFiniteSet(S) /\ k \in S
  OBVIOUS
<1> HIDE DEF S
<1>2. SumOver(f, S) = f[k] + SumOver(f, S \ {k})
  BY <1>1, SumTake
<1> QED
  BY <1>2 DEF S

\* Counted version by version, the entries from n to k are the entries from n on
\* that are at most k.
LEMMA SumOfCounts ==
  ASSUME NEW N \in Nat, NEW w \in Seq(1..N), NEW n \in 1..N, NEW f \in [n..N -> Nat],
         \A m \in n..N : f[m] = Cardinality({i \in 1..Len(w) : w[i] = m})
  PROVE  SumOver(f, n..N) = Cardinality(From(w, n))
<1> DEFINE Below(k) == {i \in 1..Len(w) : w[i] \in n..k}
           Bad == {k \in Nat : k \in (n - 1)..N /\ SumOver(f, n..k) # Cardinality(Below(k))}
<1>0. Len(w) \in Nat /\ IsFiniteSet(1..Len(w)) /\ \A i \in 1..Len(w) : w[i] \in 1..N
  <2>1. Len(w) \in Nat
    OBVIOUS
  <2>2. IsFiniteSet(1..Len(w))
    BY <2>1, UpTo
  <2> QED
    BY <2>1, <2>2
<1>1. \A X \in SUBSET (1..Len(w)) : IsFiniteSet(X) /\ Cardinality(X) \in Nat
  BY <1>0, FS_Subset, FS_CardinalityType
<1>2. ASSUME Bad # {} PROVE FALSE
  <2>1. PICK k \in Bad : \A y \in Bad : k <= y
    BY <1>2, MinNat
  <2>2. k \in Nat /\ k >= n - 1 /\ k <= N /\ SumOver(f, n..k) # Cardinality(Below(k))
    BY <2>1
  <2>3. CASE k = n - 1
    <3>1. n..k = {} /\ Below(k) = {}
      BY <2>2, <2>3
    <3> HIDE DEF Below
    <3> QED
      BY <2>2, <3>1, SumEmpty, FS_EmptySet
  <2>4. CASE k # n - 1
    <3>1. k - 1 \in Nat /\ k - 1 \in (n - 1)..N /\ k \in n..N /\ k \in n..k
      BY <2>2, <2>4
    <3>2. SumOver(f, n..(k - 1)) = Cardinality(Below(k - 1))
      <4>1. k - 1 \notin Bad
        <5> HIDE DEF Bad
        <5> QED
          BY <2>1, <2>2, <3>1
      <4> QED
        BY <3>1, <4>1
    <3>3. (n..k) \ {k} = n..(k - 1) /\ n..k \subseteq n..N /\ IsFiniteSet(n..k)
      <4>1. k \in Int /\ n \in Int /\ N \in Int /\ n <= k /\ k <= N /\ n >= 1
        BY <2>2, <3>1
      <4>2. (n..k) \ {k} = n..(k - 1)
        BY <4>1
      <4>3. n..k \subseteq n..N
        BY <4>1
      <4>4. n..k \in SUBSET (1..N) /\ IsFiniteSet(1..N)
        BY <4>1, UpTo
      <4>5. IsFiniteSet(n..k)
        BY <4>4, FS_Subset
      <4> QED
        BY <4>2, <4>3, <4>5
    <3>4. SumOver(f, n..k) = f[k] + SumOver(f, n..(k - 1))
      <4>1. n..k \in SUBSET (n..N)
        BY <3>3
      <4>2. SumOver(f, n..k) = f[k] + SumOver(f, (n..k) \ {k})
        BY <3>1, <3>3, <4>1, SumLast
      <4> QED
        BY <3>3, <4>2
    <3> DEFINE A == Below(k - 1)
               B == {i \in 1..Len(w) : w[i] = k}
    <3>5. Below(k) = A \cup B /\ A \cap B = {} /\ A \in SUBSET (1..Len(w)) /\ B \in SUBSET (1..Len(w))
      <4>1. ASSUME NEW x PROVE x \in n..k <=> x \in n..(k - 1) \/ x = k
        BY <2>2, <3>1
      <4>2. k \notin n..(k - 1)
        BY <3>1
      <4>3. Below(k) = A \cup B
        BY <4>1
      <4>4. A \cap B = {}
        BY <4>2
      <4> QED
        BY <4>3, <4>4
    <3>6. f[k] = Cardinality(B)
      BY <3>1
    <3> HIDE DEF A, B, Below
    <3>7. Cardinality(A \cup B) = Cardinality(A) + Cardinality(B) - Cardinality(A \cap B)
      BY <1>1, <3>5, FS_Union
    <3>8. Cardinality(A \cap B) = 0
      BY <3>5, FS_EmptySet
    <3>9. Cardinality(A) \in Nat /\ Cardinality(B) \in Nat
      BY <1>1, <3>5
    <3>10. SumOver(f, n..k) = Cardinality(B) + Cardinality(A)
      BY <3>2, <3>4, <3>6 DEF A
    <3> QED
      BY <2>2, <3>5, <3>7, <3>8, <3>9, <3>10
  <2> QED
    BY <2>3, <2>4
<1>3. Bad = {}
  BY <1>2
<1>4. SumOver(f, n..N) = Cardinality(Below(N))
  <2>1. N \in Nat /\ N \in (n - 1)..N
    OBVIOUS
  <2> HIDE DEF Below
  <2> QED
    BY <1>3, <2>1
<1>5. Below(N) = From(w, n)
  BY <1>0 DEF From
<1> QED
  BY <1>4, <1>5

\* The first block of the window of the first h blocks.
FirstVote(h) == IF h > WindowSize THEN h - WindowSize ELSE 0

\* VotesOf, for any blocks.
VotesIn(bs, first, last) ==
  [i \in 1..(last - first + 1) |-> get_effective_version(get_block_vote(bs[first + i]))]

\* The blocks of that window that vote for fork n or later, as they are mined.
VotesFor(bs, n, h) == {k \in (FirstVote(h) + 1)..h : get_block_vote(bs[k]) >= n}

NeededVotes(n) == (WindowSize * Forks[n].threshold + 99) \div 100

\* Fork n has its height and its votes after h blocks; had them after some of h.
Passes(bs, n, h) == h >= Forks[n].height /\ Cardinality(VotesFor(bs, n, h)) >= NeededVotes(n)
HasPassed(bs, n, h) == \E g \in 1..h : Passes(bs, n, g)

\* x is the last of the first N forks that passed, which the chain alone decides.
IsBest(N, bs, h, x) ==
  /\ x \in 1..N /\ (x = 1 \/ HasPassed(bs, x, h))
  /\ \A n \in 1..N : HasPassed(bs, n, h) => n <= x

\* Where the window begins.
LEMMA FirstVoteType ==
  ASSUME NEW h \in Nat, h >= 1
  PROVE  FirstVote(h) \in Nat /\ FirstVote(h) < h /\ h - FirstVote(h) \in 1..WindowSize
  BY SizeAssumption DEF FirstVote

\* The vote of a block.
LEMMA VoteType ==
  ASSUME NEW bs \in Seq(TypedBlock), NEW k \in 1..Len(bs)
  PROVE  get_block_vote(bs[k]) \in Nat /\ get_block_vote(bs[k]) >= 1
<1>1. bs[k] \in TypedBlock
  OBVIOUS
<1>2. bs[k].vote \in Nat
  BY <1>1 DEF TypedBlock
<1> QED
  BY <1>2 DEF get_block_vote

\* A vote counts for fork n whether or not it is reduced to the last known one.
LEMMA EffectiveVote ==
  ASSUME Consecutive, KnownForks, NEW v \in Nat, v >= 1, NEW n \in 1..Len(heights)
  PROVE  /\ get_effective_version(v) \in 1..Len(heights)
         /\ get_effective_version(v) >= n <=> v >= n
<1> DEFINE N == Len(heights)
<1>1. N \in Nat /\ N >= 1 /\ Version(N) = N
  <2>1. N \in 1..N
    BY VersionIsIndex
  <2> QED
    BY <2>1, VersionIsIndex
<1>2. get_effective_version(v) = IF v > N THEN N ELSE v
  BY <1>1 DEF get_effective_version
<1> HIDE DEF N
<1>3. (IF v > N THEN N ELSE v) \in 1..N /\ ((IF v > N THEN N ELSE v) >= n <=> v >= n)
  <2>1. n \in 1..N
    BY DEF N
  <2> QED
    BY <1>1, <2>1
<1> QED
  BY <1>2, <1>3 DEF N

\* The window of the first h blocks holds known versions.
LEMMA WindowOf ==
  ASSUME Consecutive, KnownForks, NEW bs \in Seq(TypedBlock), NEW h \in 1..Len(bs)
  PROVE  /\ VotesIn(bs, FirstVote(h), h - 1) \in Seq(1..Len(heights))
         /\ Len(VotesIn(bs, FirstVote(h), h - 1)) = h - FirstVote(h)
         /\ \A i \in 1..(h - FirstVote(h)) :
              /\ FirstVote(h) + i \in 1..Len(bs)
              /\ VotesIn(bs, FirstVote(h), h - 1)[i]
                   = get_effective_version(get_block_vote(bs[FirstVote(h) + i]))
<1> DEFINE f == FirstVote(h)
           w == VotesIn(bs, f, h - 1)
<1>1. f \in Nat /\ h \in Nat /\ h >= 1 /\ h <= Len(bs) /\ Len(bs) \in Nat /\ f < h
  BY FirstVoteType
<1> HIDE DEF f
<1>2. (h - 1) - f + 1 = h - f /\ h - f \in Nat
  BY <1>1
<1>3. w = [i \in 1..(h - f) |-> get_effective_version(get_block_vote(bs[f + i]))]
  BY <1>2 DEF VotesIn
<1>4. \A i \in 1..(h - f) : f + i \in 1..Len(bs)
  BY <1>1
<1>5. \A i \in 1..(h - f) : get_effective_version(get_block_vote(bs[f + i])) \in 1..Len(heights)
  <2> SUFFICES ASSUME NEW i \in 1..(h - f)
               PROVE  get_effective_version(get_block_vote(bs[f + i])) \in 1..Len(heights)
    OBVIOUS
  <2>1. get_block_vote(bs[f + i]) \in Nat /\ get_block_vote(bs[f + i]) >= 1
    BY <1>4, VoteType
  <2>2. 1 \in 1..Len(heights)
    BY VersionIsIndex
  <2> QED
    BY <2>1, <2>2, EffectiveVote
<1> HIDE DEF w
<1>6. w \in [1..(h - f) -> 1..Len(heights)]
  BY <1>3, <1>5
<1>7. w \in Seq(1..Len(heights)) /\ Len(w) = h - f
  BY <1>2, <1>6
<1> QED
  BY <1>3, <1>4, <1>7 DEF f, w

\* The votes in the window are those of the blocks, in another place.
LEMMA SameVoters ==
  ASSUME Consecutive, KnownForks, NEW bs \in Seq(TypedBlock), NEW h \in 1..Len(bs),
         NEW n \in 1..Len(heights)
  PROVE  /\ Cardinality(From(VotesIn(bs, FirstVote(h), h - 1), n)) = Cardinality(VotesFor(bs, n, h))
         /\ Cardinality(VotesFor(bs, n, h)) \in Nat
<1> DEFINE f == FirstVote(h)
           w == VotesIn(bs, f, h - 1)
           d == h - f
           V == From(w, n)
           T == VotesFor(bs, n, h)
<1>1. f \in Nat /\ h \in Nat /\ f < h /\ d \in Nat /\ h = f + d
  <2>1. h \in Nat /\ h >= 1
    OBVIOUS
  <2>2. f \in Nat /\ f < h
    BY <2>1, FirstVoteType
  <2> HIDE DEF f
  <2> QED
    BY <2>1, <2>2
<1>2. Len(w) = d /\ \A i \in 1..d : w[i] = get_effective_version(get_block_vote(bs[f + i]))
  BY WindowOf
<1>3. \A i \in 1..d : w[i] >= n <=> get_block_vote(bs[f + i]) >= n
  <2> SUFFICES ASSUME NEW i \in 1..d PROVE w[i] >= n <=> get_block_vote(bs[f + i]) >= n
    OBVIOUS
  <2>1. f + i \in 1..Len(bs)
    BY WindowOf
  <2>2. get_block_vote(bs[f + i]) \in Nat /\ get_block_vote(bs[f + i]) >= 1
    BY <2>1, VoteType
  <2> HIDE DEF w, f
  <2> QED
    BY <1>2, <2>2, EffectiveVote
<1>4. T = {k \in (f + 1)..h : get_block_vote(bs[k]) >= n}
  BY DEF VotesFor
<1>5. V = {i \in 1..d : w[i] >= n}
  BY <1>2 DEF From
<1> HIDE DEF f, w, d, V, T
<1>6. ASSUME NEW i \in V PROVE i + f \in T
  <2>1. i \in 1..d /\ w[i] >= n
    BY <1>5
  <2>2. i + f = f + i /\ f + i \in (f + 1)..h
    BY <1>1, <2>1
  <2>3. get_block_vote(bs[f + i]) >= n
    BY <1>3, <2>1
  <2> QED
    BY <1>4, <2>2, <2>3
<1>7. ASSUME NEW k \in T PROVE k - f \in V /\ k = (k - f) + f
  <2>1. k \in (f + 1)..h /\ get_block_vote(bs[k]) >= n
    BY <1>4
  <2>2. k - f \in 1..d /\ f + (k - f) = k /\ k = (k - f) + f
    BY <1>1, <2>1
  <2>3. w[k - f] >= n
    <3>1. w[k - f] >= n <=> get_block_vote(bs[f + (k - f)]) >= n
      BY <1>3, <2>2
    <3> QED
      BY <2>1, <2>2, <3>1
  <2> QED
    BY <1>5, <2>2, <2>3
<1>8. T = {i + f : i \in V}
  BY <1>6, <1>7
<1>9. V \in SUBSET (1..d)
  BY <1>5
<1>10. Cardinality(T) = Cardinality(V) /\ Cardinality(V) \in Nat
  BY <1>1, <1>8, <1>9, ShiftedSize
<1> QED
  BY <1>10 DEF T, V, w, f

\* get_voted_fork_index adds the counts of a window up from version n on.
LEMMA CountedVotes ==
  ASSUME Consecutive, KnownForks, NEW w \in Seq(1..Len(heights)), NEW n \in 1..Len(heights)
  PROVE  /\ EnoughVotes(Count(w), n) <=> Cardinality(From(w, n)) >= NeededVotes(n)
         /\ NeededVotes(n) \in Nat
<1> DEFINE N == Len(heights)
           c == Count(w)
           S == n..N
           f == [m \in S |-> Cardinality({i \in 1..Len(w) : w[i] = m})]
<1>1. N \in Nat /\ N >= 1 /\ VersionNumbers = Index /\ \A m \in 1..N : m \in Index /\ Version(m) = m /\ heights[m] = Forks[m]
  BY VersionIsIndex
<1>2. ASSUME NEW X, X \in SUBSET (1..Len(w)) PROVE IsFiniteSet(X) /\ Cardinality(X) \in Nat
  <2>1. Len(w) \in Nat
    OBVIOUS
  <2>2. IsFiniteSet(1..Len(w))
    BY <2>1, UpTo
  <2> QED
    BY <1>2, <2>2, FS_Subset, FS_CardinalityType
<1>3. f \in [S -> Nat] /\ \A m \in S : f[m] = Cardinality({i \in 1..Len(w) : w[i] = m})
  <2>1. \A m \in S : Cardinality({i \in 1..Len(w) : w[i] = m}) \in Nat
    <3> SUFFICES ASSUME NEW m \in S PROVE Cardinality({i \in 1..Len(w) : w[i] = m}) \in Nat
      OBVIOUS
    <3> DEFINE X == {i \in 1..Len(w) : w[i] = m}
    <3>1. X \in SUBSET (1..Len(w))
      OBVIOUS
    <3> HIDE DEF X
    <3>2. Cardinality(X) \in Nat
      BY <1>2, <3>1
    <3> QED
      BY <3>2 DEF X
  <2> QED
    BY <2>1
<1>4. \A m \in S : f[m] = c[Version(m)]
  <2> SUFFICES ASSUME NEW m \in S PROVE f[m] = c[Version(m)]
    OBVIOUS
  <2>1. m \in 1..N
    <3> HIDE DEF N
    <3> QED
      BY <1>1
  <2>2. Version(m) = m /\ m \in VersionNumbers
    BY <1>1, <2>1
  <2>3. c[m] = Cardinality({i \in 1..Len(w) : w[i] = m})
    BY <2>2 DEF Count
  <2> HIDE DEF c, f
  <2> QED
    BY <1>3, <2>2, <2>3
<1>5. IsFiniteSet(S)
  <2>1. S \in SUBSET (1..N) /\ IsFiniteSet(1..N)
    <3> HIDE DEF N
    <3> QED
      BY <1>1, UpTo
  <2> QED
    BY <2>1, FS_Subset
<1>6. SumOver(f, S) = Cardinality(From(w, n))
  BY <1>1, <1>3, SumOfCounts
<1> HIDE DEF f, S, c
<1>7. MapThenSumSet(LAMBDA m : c[Version(m)], S) = SumOver(f, S)
  BY <1>3, <1>4, <1>5, VoteSum
<1>8. Threshold(n) = NeededVotes(n) /\ heights[n].threshold \in Nat
  <2>1. heights[n] = Forks[n] /\ heights[n].threshold \in 0..100
    BY <1>1, VersionTypes DEF TableOK
  <2>2. Threshold(n) = NeededVotes(n)
    BY <2>1, Zenon DEF Threshold, NeededVotes
  <2>3. ASSUME NEW t \in 0..100 PROVE t \in Nat
    OBVIOUS
  <2> QED
    BY <2>1, <2>2, <2>3, Zenon
<1>9. NeededVotes(n) \in Nat
  <2> DEFINE t == heights[n].threshold
  <2>1. t \in Nat /\ WindowSize \in Nat
    BY <1>8, SizeAssumption
  <2>2. NeededVotes(n) = (WindowSize * t + 99) \div 100
    BY <1>8 DEF Threshold
  <2> HIDE DEF t
  <2>3. WindowSize * t \in Nat
    BY <2>1
  <2> QED
    BY <2>2, <2>3
<1>10. Cardinality(From(w, n)) \in Nat
  <2>1. From(w, n) \in SUBSET (1..Len(w))
    BY DEF From
  <2> QED
    BY <1>2, <2>1
<1>11. EnoughVotes(c, n) <=> Threshold(n) = 0 \/ MapThenSumSet(LAMBDA m : c[Version(m)], S) >= Threshold(n)
  BY Zenon DEF EnoughVotes, S, N
<1> QED
  BY <1>6, <1>7, <1>8, <1>9, <1>10, <1>11 DEF c

\* What has passed stays passed, and one more block may let others pass.
LEMMA PassedMore ==
  ASSUME NEW bs, NEW n, NEW h \in Nat, h >= 1
  PROVE  /\ HasPassed(bs, n, h) <=> (h > 1 /\ HasPassed(bs, n, h - 1)) \/ Passes(bs, n, h)
         /\ \A g \in Nat : g <= h /\ HasPassed(bs, n, g) => HasPassed(bs, n, h)
<1>1. ASSUME NEW g \in 1..h PROVE g = h \/ (h > 1 /\ g \in 1..(h - 1))
  OBVIOUS
<1>2. h \in 1..h /\ \A g \in 1..(h - 1) : g \in 1..h
  OBVIOUS
<1>3. ASSUME NEW g \in Nat, g <= h, NEW k \in 1..g PROVE k \in 1..h
  BY <1>3
<1>4. \A g \in Nat : g <= h /\ HasPassed(bs, n, g) => HasPassed(bs, n, h)
  BY <1>3 DEF HasPassed
<1> QED
  BY <1>1, <1>2, <1>4 DEF HasPassed

\* The best of a longer chain is no earlier fork; there is only one best.
LEMMA BestGrows ==
  ASSUME NEW N \in Nat, NEW bs, NEW g \in Nat, NEW h \in Nat, g <= h, g >= 1, NEW x, NEW y,
         IsBest(N, bs, g, x), IsBest(N, bs, h, y)
  PROVE  x <= y /\ (g = h => x = y)
<1>1. x \in 1..N /\ y \in 1..N /\ (x = 1 \/ HasPassed(bs, x, g)) /\ (y = 1 \/ HasPassed(bs, y, h))
      /\ (\A n \in 1..N : HasPassed(bs, n, h) => n <= y)
      /\ (\A n \in 1..N : HasPassed(bs, n, g) => n <= x)
  BY DEF IsBest
<1>2. h >= 1
  OBVIOUS
<1>3. HasPassed(bs, x, g) => HasPassed(bs, x, h)
  BY <1>2, PassedMore
<1>4. x <= y
  BY <1>1, <1>3
<1>5. g = h => y <= x
  BY <1>1
<1> QED
  BY <1>1, <1>4, <1>5

\* The blocks up to h decide.
LEMMA BestOfPrefix ==
  ASSUME NEW h \in Nat, NEW bs, NEW cs, \A k \in 1..h : bs[k] = cs[k], NEW N, NEW x,
         IsBest(N, bs, h, x)
  PROVE  IsBest(N, cs, h, x)
<1>1. ASSUME NEW g \in 1..h, NEW n PROVE Passes(bs, n, g) <=> Passes(cs, n, g)
  <2>1. \A k \in (FirstVote(g) + 1)..g : k \in 1..h
    <3>1. g \in Nat /\ g >= 1
      OBVIOUS
    <3>2. FirstVote(g) \in Nat
      BY <3>1, FirstVoteType
    <3> QED
      BY <3>1, <3>2
  <2>2. VotesFor(bs, n, g) = VotesFor(cs, n, g)
    BY <2>1 DEF VotesFor
  <2> QED
    BY <2>2 DEF Passes
<1>2. \A n : HasPassed(bs, n, h) <=> HasPassed(cs, n, h)
  BY <1>1 DEF HasPassed
<1> QED
  BY <1>2 DEF IsBest

\* Below the height of the next fork, newer software agrees.
LEMMA BestUpgraded ==
  ASSUME NEW N \in Nat, NEW M \in Nat, N >= 1, N <= M, M <= Len(Forks), NEW bs, NEW h \in Nat,
         N < M => h < Forks[N + 1].height, NEW x, IsBest(N, bs, h, x)
  PROVE  IsBest(M, bs, h, x)
<1>1. Len(Forks) \in Nat /\ \A m, n \in Index : m < n => Forks[m].height < Forks[n].height
  BY ForkAssumption
<1>2. \A i \in Index : Forks[i].height \in Nat
  <2> DEFINE R == [version : Nat \ {0}, height : Nat, threshold : 0..100]
  <2>1. Forks \in Seq(R)
    BY ForkAssumption
  <2> HIDE DEF R
  <2>2. \A i \in Index : Forks[i] \in R
    BY <2>1 DEF Index
  <2> QED
    BY <2>2 DEF R
<1>3. ASSUME NEW n \in 1..M, HasPassed(bs, n, h) PROVE n \in 1..N
  <2> SUFFICES ASSUME n > N PROVE FALSE
    OBVIOUS
  <2>1. PICK g \in 1..h : Passes(bs, n, g)
    BY <1>3 DEF HasPassed
  <2>2. g >= Forks[n].height
    BY <2>1 DEF Passes
  <2>3. N + 1 \in Index /\ n \in Index /\ N < M
    BY <1>1 DEF Index
  <2>4. Forks[N + 1].height <= Forks[n].height
    <3>1. N + 1 = n \/ N + 1 < n
      OBVIOUS
    <3> QED
      BY <1>1, <1>2, <2>3, <3>1
  <2>5. h < Forks[N + 1].height /\ Forks[N + 1].height \in Nat /\ Forks[n].height \in Nat
    BY <1>2, <2>3
  <2> QED
    BY <2>2, <2>4, <2>5
<1>4. x \in 1..M
  BY DEF IsBest
<1> QED
  BY <1>3, <1>4 DEF IsBest

\* The height and the votes of fork n, as get_voted_fork_index sees them.
LEMMA VotedIs ==
  ASSUME Consecutive, KnownForks, NEW bs \in Seq(TypedBlock), NEW h \in 1..Len(bs),
         NEW n \in 1..Len(heights)
  PROVE  h >= heights[n].height /\ EnoughVotes(Count(VotesIn(bs, FirstVote(h), h - 1)), n)
           <=> Passes(bs, n, h)
<1> DEFINE w == VotesIn(bs, FirstVote(h), h - 1)
<1>1. w \in Seq(1..Len(heights))
  BY WindowOf
<1>2. Cardinality(From(w, n)) = Cardinality(VotesFor(bs, n, h))
  BY SameVoters
<1> HIDE DEF w
<1>3. EnoughVotes(Count(w), n) <=> Cardinality(From(w, n)) >= NeededVotes(n)
  BY <1>1, CountedVotes
<1>4. heights[n] = Forks[n]
  BY VersionIsIndex
<1>5. EnoughVotes(Count(w), n) <=> Cardinality(VotesFor(bs, n, h)) >= NeededVotes(n)
  BY <1>2, <1>3, Zenon
<1> QED
  BY <1>4, <1>5, Zenon DEF Passes, w

\* The index is raised to the last fork that passed.
LEMMA RaisedBest ==
  ASSUME Consecutive, KnownForks, NEW bs \in Seq(TypedBlock), NEW h \in 1..Len(bs), NEW cur,
         (h = 1 /\ cur = 1) \/ (h > 1 /\ IsBest(Len(heights), bs, h - 1, cur))
  PROVE  IsBest(Len(heights), bs, h, Raised(Count(VotesIn(bs, FirstVote(h), h - 1)), cur, h))
<1> DEFINE N == Len(heights)
           c == Count(VotesIn(bs, FirstVote(h), h - 1))
           voted == {n \in 1..N : h >= heights[n].height /\ EnoughVotes(c, n)}
           passed == {n \in 1..N : Passes(bs, n, h)}
           g == get_voted_fork_index(c, cur, h)
           r == Raised(c, cur, h)
<1>1. N \in Nat /\ N >= 1 /\ h \in Nat /\ h >= 1
  BY VersionIsIndex
<1>2. voted = passed
  BY VotedIs
<1>3. g = IF passed = {} THEN cur ELSE Max(passed)
  BY <1>2, Zenon DEF get_voted_fork_index
<1>4. r = IF g > cur THEN g ELSE cur
  BY Zenon DEF Raised
<1>5. /\ cur \in 1..N /\ (cur = 1 \/ (h > 1 /\ HasPassed(bs, cur, h - 1)))
      /\ h > 1 => \A n \in 1..N : HasPassed(bs, n, h - 1) => n <= cur
  <2>1. CASE h = 1 /\ cur = 1
    <3> HIDE DEF N
    <3> QED
      BY <1>1, <2>1
  <2>2. CASE h > 1 /\ IsBest(N, bs, h - 1, cur)
    <3> HIDE DEF N
    <3> QED
      BY <1>1, <2>2 DEF IsBest
  <2> QED
    BY <2>1, <2>2
<1> HIDE DEF N, c, voted, g, r
<1>6. ASSUME NEW n PROVE HasPassed(bs, n, h) <=> (h > 1 /\ HasPassed(bs, n, h - 1)) \/ Passes(bs, n, h)
  BY <1>1, PassedMore
<1>7. CASE passed = {}
  <2>1. r = cur
    BY <1>3, <1>4, <1>7
  <2>2. \A n \in 1..N : ~Passes(bs, n, h)
    BY <1>7
  <2>3. ASSUME NEW n \in 1..N, HasPassed(bs, n, h) PROVE n <= cur
    BY <1>5, <1>6, <2>2, <2>3
  <2>4. cur = 1 \/ HasPassed(bs, cur, h)
    BY <1>5, <1>6
  <2>5. IsBest(N, bs, h, cur)
    BY <1>5, <2>3, <2>4 DEF IsBest
  <2> QED
    BY <2>1, <2>5 DEF N, r, c
<1>8. CASE passed # {}
  <2>1. Max(passed) \in passed /\ \A n \in passed : n <= Max(passed)
    <3>1. passed \in SUBSET (0..N)
      BY <1>1
    <3> HIDE DEF passed
    <3> QED
      BY <1>1, <1>8, <3>1, MaxNat
  <2>2. g = Max(passed)
    BY <1>3, <1>8
  <2>3. g \in 1..N /\ Passes(bs, g, h) /\ \A n \in 1..N : Passes(bs, n, h) => n <= g
    BY <2>1, <2>2
  <2>4. r \in 1..N /\ r >= g /\ r >= cur /\ (r = g \/ r = cur)
    BY <1>1, <1>4, <1>5, <2>3
  <2>5. r = 1 \/ HasPassed(bs, r, h)
    BY <1>5, <1>6, <2>3, <2>4
  <2>6. ASSUME NEW n \in 1..N, HasPassed(bs, n, h) PROVE n <= r
    <3>1. Passes(bs, n, h) \/ (h > 1 /\ HasPassed(bs, n, h - 1))
      BY <1>6, <2>6
    <3>2. n <= g \/ n <= cur
      BY <1>5, <2>3, <3>1
    <3> QED
      BY <1>1, <1>5, <2>3, <2>4, <3>2
  <2>7. IsBest(N, bs, h, r)
    BY <2>4, <2>5, <2>6 DEF IsBest
  <2> QED
    BY <2>7 DEF N, r, c
<1> QED
  BY <1>7, <1>8

-----------------------------------------------------------------------------
(* Votes decide *)

\* The height of a block asks for a later version.
OutdatedBlock(N, b, h) == \E n \in 1..N : b.version < n /\ h >= Forks[n].height

\* The blocks below height l have the version that the blocks before them voted for, the
\* others are outdated.
SettledTo(N, bs, l) ==
  /\ \A h \in 1..(l - 1) : IsBest(N, bs, h, bs[h + 1].version)
  /\ \A h \in l..(Len(bs) - 1) : OutdatedBlock(N, bs[h + 1], h)

\* Every block votes for its version at least, which is no earlier than those before it.
ChainVoted(N, bs) ==
  /\ \A i \in 1..Len(bs) : bs[i].version \in 1..N /\ get_block_vote(bs[i]) >= bs[i].version
  /\ \A i, j \in 1..Len(bs) : i <= j => bs[i].version <= bs[j].version
  /\ bs[1].version = 1

\* The window and the index are those of the chain, outside of the start; during the start
\* they may be ahead of it.
IndexVoted ==
  /\ starting # "no" => scanned = DbHeight
  /\ starting = "no" =>
       /\ SettledTo(Len(heights), db_blocks, DbHeight)
       /\ IsBest(Len(heights), db_blocks, scanned, current_fork_index)
       /\ versions = VotesIn(db_blocks, FirstVote(scanned), scanned - 1)
  /\ starting = "check" =>
       /\ versions = VotesIn(db_blocks, FirstVote(DbHeight), DbHeight - 1)
       /\ SettledTo(Len(heights), db_blocks, DbHeight)
            => IsBest(Len(heights), db_blocks, DbHeight, current_fork_index)
  /\ starting \in {"check", "popped"} =>
       \A i \in 1..DbHeight : db_blocks[i].version <= current_fork_index

VotesInv ==
  /\ WindowInv
  /\ ChainVoted(Len(heights), db_blocks) /\ RecordedExact
  /\ \E l \in 1..DbHeight : SettledTo(Len(heights), db_blocks, l)
  /\ IndexVoted

\* What the steps use of the invariant's types.
LEMMA VotedTypes ==
  ASSUME Consecutive, WindowInv
  PROVE  /\ KnownForks /\ Len(heights) \in Nat /\ Len(heights) >= 1
         /\ db_blocks \in Seq(TypedBlock) /\ DbHeight = Len(db_blocks)
         /\ DbHeight \in Nat /\ DbHeight >= 1 /\ DbHeight <= MaxForkHeight /\ MaxForkHeight \in Nat
         /\ current_fork_index \in 1..Len(heights) /\ Version(current_fork_index) = current_fork_index
         /\ scanned \in 1..DbHeight
  BY VersionIsIndex, SizeAssumption DEF WindowInv, DbHeight

\* No block is ahead of the best fork of the whole chain.
LEMMA VersionsBelow ==
  ASSUME NEW N \in Nat, NEW bs \in Seq(TypedBlock), Len(bs) >= 1, ChainVoted(N, bs), NEW x,
         SettledTo(N, bs, Len(bs)), IsBest(N, bs, Len(bs), x)
  PROVE  \A i \in 1..Len(bs) : bs[i].version <= x
<1> SUFFICES ASSUME NEW i \in 1..Len(bs) PROVE bs[i].version <= x
  OBVIOUS
<1>1. x \in 1..N
  BY DEF IsBest
<1>2. CASE i = 1
  BY <1>1, <1>2 DEF ChainVoted
<1>3. CASE i # 1
  <2>1. /\ i - 1 \in 1..(Len(bs) - 1) /\ i - 1 \in Nat /\ (i - 1) + 1 = i /\ i - 1 <= Len(bs)
        /\ Len(bs) \in Nat /\ i - 1 >= 1
    BY <1>3
  <2>2. IsBest(N, bs, i - 1, bs[i].version)
    <3>1. IsBest(N, bs, i - 1, bs[(i - 1) + 1].version)
      BY <2>1 DEF SettledTo
    <3> QED
      BY <2>1, <3>1
  <2> QED
    BY <2>1, <2>2, BestGrows
<1> QED
  BY <1>2, <1>3

\* The window moves on by one block, whether that is new or replayed.
LEMMA WindowMoves ==
  ASSUME Consecutive, KnownForks, NEW bs \in Seq(TypedBlock), NEW cs \in Seq(TypedBlock),
         NEW h \in 1..Len(bs), h + 1 \in 1..Len(cs), \A k \in 1..h : bs[k] = cs[k]
  PROVE  Append(Trimmed(VotesIn(bs, FirstVote(h), h - 1)),
                get_effective_version(get_block_vote(cs[h + 1])))
           = VotesIn(cs, FirstVote(h + 1), (h + 1) - 1)
<1> DEFINE f == FirstVote(h)
           d == FirstVote(h + 1) - f
           w == VotesIn(bs, f, h - 1)
           z == VotesIn(cs, FirstVote(h + 1), (h + 1) - 1)
           e(k) == get_effective_version(get_block_vote(cs[k]))
           t == Trimmed(w)
           l == h - f
           V == 1..Len(heights)
<1>1. /\ h \in Nat /\ h >= 1 /\ WindowSize \in Nat \ {0} /\ f \in Nat /\ f < h /\ l \in Nat
      /\ d \in {0, 1} /\ FirstVote(h + 1) = f + d
      /\ (IF l >= WindowSize THEN l - WindowSize + 2 ELSE 1) = 1 + d /\ 1 + d <= l + 1
      /\ (l + 1) - d \in Nat
  <2>1. h \in Nat /\ h >= 1 /\ WindowSize \in Nat \ {0}
    BY SizeAssumption
  <2> QED
    BY <2>1 DEF FirstVote
<1>2. w \in Seq(V) /\ Len(w) = l /\ \A i \in 1..l : f + i \in 1..Len(bs) /\ w[i] = get_effective_version(get_block_vote(bs[f + i]))
  BY WindowOf
<1>3. z \in Seq(V) /\ Len(z) = (h + 1) - FirstVote(h + 1)
      /\ \A i \in 1..((h + 1) - FirstVote(h + 1)) : z[i] = e(FirstVote(h + 1) + i)
  <2> DEFINE g == h + 1
  <2>1. g \in 1..Len(cs)
    OBVIOUS
  <2> HIDE DEF g
  <2>2. /\ VotesIn(cs, FirstVote(g), g - 1) \in Seq(V)
        /\ Len(VotesIn(cs, FirstVote(g), g - 1)) = g - FirstVote(g)
        /\ \A i \in 1..(g - FirstVote(g)) :
             VotesIn(cs, FirstVote(g), g - 1)[i] = e(FirstVote(g) + i)
    BY <2>1, WindowOf
  <2>3. z = VotesIn(cs, FirstVote(g), g - 1) /\ g = h + 1
    BY DEF g
  <2> HIDE DEF z, e, V, f, d, w, l, t
  <2>4. z \in Seq(V)
    BY <2>2, <2>3
  <2>5. Len(z) = (h + 1) - FirstVote(h + 1)
    BY <2>2, <2>3
  <2>6. \A i \in 1..(g - FirstVote(g)) : z[i] = e(FirstVote(g) + i)
    BY <2>2, <2>3
  <2>7. \A i \in 1..((h + 1) - FirstVote(h + 1)) : z[i] = e(FirstVote(h + 1) + i)
    BY <2>6, Zenon DEF g
  <2> QED
    BY <2>4, <2>5, <2>7
<1> HIDE DEF f, d, w, z, e, V, l
<1>4. Len(z) = (l + 1) - d /\ \A i \in 1..((l + 1) - d) : z[i] = e(f + d + i)
  <2>1. (h + 1) - FirstVote(h + 1) = (l + 1) - d
    BY <1>1 DEF l
  <2> QED
    BY <1>1, <1>3, <2>1
<1>5. \A i \in 1..l : w[i] = e(f + i)
  <2> SUFFICES ASSUME NEW i \in 1..l PROVE w[i] = e(f + i)
    OBVIOUS
  <2>1. f + i \in 1..h
    BY <1>1 DEF l
  <2>2. bs[f + i] = cs[f + i]
    BY <2>1
  <2> QED
    BY <1>2, <2>2 DEF e
<1>6. t = SubSeq(w, 1 + d, l)
  BY <1>1, <1>2 DEF Trimmed
<1>7. t \in Seq(V) /\ Len(t) = l - d /\ \A i \in 1..(l - d) : t[i] = w[d + i]
  <2>1. \A i \in (1 + d)..l : w[i] \in V
    BY <1>1, <1>2
  <2>2. /\ SubSeq(w, 1 + d, l) \in Seq(V)
        /\ Len(SubSeq(w, 1 + d, l)) = IF 1 + d <= l THEN l - (1 + d) + 1 ELSE 0
        /\ \A i \in 1..(l - (1 + d) + 1) : SubSeq(w, 1 + d, l)[i] = w[(1 + d) + i - 1]
    BY <1>1, <1>2, <2>1, SubSeqProperties
  <2>3. l - (1 + d) + 1 = l - d /\ (IF 1 + d <= l THEN l - (1 + d) + 1 ELSE 0) = l - d
    BY <1>1
  <2>4. \A i \in 1..(l - d) : (1 + d) + i - 1 = d + i
    BY <1>1
  <2> HIDE DEF t
  <2> QED
    BY <1>6, <2>2, <2>3, <2>4
<1>8. e(h + 1) \in V
  <2>1. (1 + l) - d \in 1..((l + 1) - d) /\ f + d + ((1 + l) - d) = h + 1
    <3>1. h = f + l /\ l >= 1
      BY <1>1 DEF l
    <3>2. CASE d = 0
      BY <1>1, <3>1, <3>2
    <3>3. CASE d = 1
      BY <1>1, <3>1, <3>3
    <3> QED
      BY <1>1, <3>2, <3>3
  <2>2. z[(1 + l) - d] = e(h + 1) /\ z[(1 + l) - d] \in V
    BY <1>3, <1>4, <2>1
  <2> QED
    BY <2>2
<1> HIDE DEF t
<1>9. Append(t, e(h + 1)) \in Seq(V) /\ Len(Append(t, e(h + 1))) = l - d + 1
      /\ \A i \in 1..(l - d) : Append(t, e(h + 1))[i] = t[i]
      /\ Append(t, e(h + 1))[l - d + 1] = e(h + 1)
  BY <1>7, <1>8, AppendProperties
<1>10. ASSUME NEW i \in 1..((l + 1) - d) PROVE Append(t, e(h + 1))[i] = z[i]
  <2>1. CASE i \in 1..(l - d)
    <3>1. d + i \in 1..l /\ f + (d + i) = f + d + i
      BY <1>1, <2>1
    <3>2. w[d + i] = e(f + d + i)
      BY <1>5, <3>1
    <3> QED
      BY <1>4, <1>7, <1>9, <2>1, <3>2
  <2>2. CASE i \notin 1..(l - d)
    <3>1. i = l - d + 1 /\ f + d + i = h + 1
      BY <1>1, <2>2 DEF l
    <3> QED
      BY <1>4, <1>9, <3>1
  <2> QED
    BY <2>1, <2>2
<1>11. Append(t, e(h + 1)) = z
  <2> DEFINE a == Append(t, e(h + 1))
  <2>1. a \in Seq(V) /\ z \in Seq(V) /\ Len(a) = Len(z) /\ \A i \in 1..Len(a) : a[i] = z[i]
    <3>1. l - d + 1 = (l + 1) - d
      BY <1>1
    <3> QED
      BY <1>3, <1>4, <1>9, <1>10, <3>1
  <2> HIDE DEF a
  <2>2. a = z
    BY <2>1, SeqEqual
  <2> QED
    BY <2>2 DEF a
<1> QED
  BY <1>11 DEF t, w, z, e, f

\* reorganize_from_block_height: the version of the block at that height and the votes in
\* the window give the best fork of the chain up to there.
LEMMA ReorganizedBest ==
  ASSUME Consecutive, WindowInv, ChainVoted(Len(heights), db_blocks), RecordedExact,
         SettledTo(Len(heights), db_blocks, DbHeight), NEW height \in 0..(DbHeight - 1),
         db_blocks[height + 1].version <= current_fork_index, ReorganizedTo(height)
  PROVE  /\ versions' = VotesIn(db_blocks, FirstVote(height + 1), (height + 1) - 1)
         /\ IsBest(Len(heights), db_blocks, height + 1, current_fork_index')
<1> DEFINE N == Len(heights)
           v == db_blocks[height + 1].version
           start == IF height = 0 THEN 1 ELSE hf_versions[height]
           S == {n \in 1..current_fork_index : n = 1 \/ Version(n) <= start}
           g == height + 1
<1>1. /\ KnownForks /\ N \in Nat /\ N >= 1 /\ db_blocks \in Seq(TypedBlock)
      /\ DbHeight = Len(db_blocks) /\ DbHeight \in Nat /\ DbHeight >= 1
      /\ current_fork_index \in 1..N
  BY VotedTypes
<1>2. /\ versions' = VotesOf(ReorganizeFrom(height), height) /\ last_versions' = Count(versions')
      /\ current_fork_index' = Raised(last_versions', Max(S), g)
  BY DEF ReorganizedTo
<1>3. height \in Nat /\ g \in 1..DbHeight /\ g \in Nat /\ g - 1 = height /\ WindowSize \in Nat
  BY <1>1, SizeAssumption
<1>4. ReorganizeFrom(height) = FirstVote(g)
  BY <1>3, SizeAssumption DEF ReorganizeFrom, FirstVote
<1>5. versions' = VotesIn(db_blocks, FirstVote(g), g - 1)
  BY <1>2, <1>3, <1>4, Zenon DEF VotesOf, VotesIn
<1>6. v \in 1..N /\ v <= current_fork_index /\ start = v
  <2>1. v \in 1..N
    BY <1>1, <1>3 DEF ChainVoted
  <2>2. hf_versions[height] = v
    BY DEF RecordedExact
  <2>3. height = 0 => v = 1
    BY DEF ChainVoted
  <2> QED
    BY <2>1, <2>2, <2>3
<1>7. Max(S) = v
  <2>1. \A n \in 1..current_fork_index : Version(n) = n
    <3>1. \A n \in 1..current_fork_index : n \in 1..N
      <4> HIDE DEF N
      <4> QED
        BY <1>1
    <3> QED
      BY <1>1, <3>1, VersionIsIndex
  <2> HIDE DEF v, start, N
  <2>2. v \in S
    BY <1>1, <1>6, <2>1
  <2>3. \A n \in S : n <= v
    BY <1>1, <1>6, <2>1
  <2>4. S \in SUBSET (0..N)
    BY <1>1
  <2> HIDE DEF S
  <2>5. Max(S) \in S /\ \A n \in S : n <= Max(S)
    BY <1>1, <2>2, <2>4, MaxNat
  <2>6. Max(S) \in 0..N /\ Max(S) <= v /\ v <= Max(S)
    BY <2>2, <2>3, <2>4, <2>5
  <2> QED
    BY <1>1, <1>6, <2>6
<1>8. (g = 1 /\ v = 1) \/ (g > 1 /\ IsBest(N, db_blocks, g - 1, v))
  <2>1. CASE height = 0
    BY <2>1 DEF ChainVoted
  <2>2. CASE height # 0
    <3>1. height \in 1..(DbHeight - 1)
      BY <1>1, <1>3, <2>2
    <3>2. IsBest(N, db_blocks, height, v)
      BY <3>1 DEF SettledTo
    <3> QED
      BY <1>3, <2>2, <3>2
  <2> QED
    BY <2>1, <2>2
<1>9. current_fork_index' = Raised(Count(VotesIn(db_blocks, FirstVote(g), g - 1)), v, g)
  BY <1>2, <1>5, <1>7
<1> HIDE DEF v, g
<1>10. IsBest(N, db_blocks, g, Raised(Count(VotesIn(db_blocks, FirstVote(g), g - 1)), v, g))
  BY <1>1, <1>3, <1>8, RaisedBest
<1> QED
  BY <1>5, <1>9, <1>10 DEF g

\* reorganize_from_block_height of a running node.
LEMMA ReorganizeVotesStep ==
  ASSUME Consecutive, VotesInv, NEW height \in 0..MaxForkHeight, reorganize_from_block_height(height)
  PROVE  VotesInv'
<1>1. /\ starting = "no" /\ starting' = "no" /\ scanned = DbHeight /\ heights' = heights
      /\ hf_versions' = hf_versions /\ height < DbHeight /\ db_blocks' = db_blocks
      /\ ReorganizedTo(height) /\ scanned' = height + 1
  BY DEF reorganize_from_block_height, Running, ReorganizedTo
<1>2. WindowInv /\ WindowInv'
  BY ReorganizeWindowStep DEF VotesInv
<1>3. /\ KnownForks /\ Len(heights) \in Nat /\ db_blocks \in Seq(TypedBlock)
      /\ DbHeight = Len(db_blocks) /\ DbHeight \in Nat /\ DbHeight >= 1
  BY <1>2, VotedTypes
<1>4. height \in 0..(DbHeight - 1) /\ height + 1 \in 1..DbHeight
  BY <1>1, <1>3
<1>5. /\ ChainVoted(Len(heights), db_blocks) /\ RecordedExact
      /\ SettledTo(Len(heights), db_blocks, DbHeight)
      /\ IsBest(Len(heights), db_blocks, DbHeight, current_fork_index)
  BY <1>1 DEF VotesInv, IndexVoted
<1>6. db_blocks[height + 1].version <= current_fork_index
  BY <1>3, <1>4, <1>5, VersionsBelow
<1>7. /\ versions' = VotesIn(db_blocks, FirstVote(height + 1), (height + 1) - 1)
      /\ IsBest(Len(heights), db_blocks, height + 1, current_fork_index')
  BY <1>1, <1>2, <1>4, <1>5, <1>6, ReorganizedBest
<1>8. DbHeight' = DbHeight
  BY <1>1 DEF DbHeight
<1>9. IndexVoted'
  <2>1. VotesIn(db_blocks, FirstVote(height + 1), (height + 1) - 1)
          = VotesIn(db_blocks, FirstVote(scanned), scanned - 1)'
    BY <1>1 DEF VotesIn, get_effective_version, Version
  <2> QED
    BY <1>1, <1>5, <1>7, <1>8, <2>1 DEF IndexVoted
<1>10. RecordedExact'
  BY <1>1, <1>5, <1>8 DEF RecordedExact
<1> QED
  BY <1>1, <1>2, <1>8, <1>9, <1>10 DEF VotesInv

\* HardFork::add of block h + 1 of cs, to a window and an index that are those of the
\* first h blocks.
LEMMA AddBest ==
  ASSUME Consecutive, KnownForks, NEW bs \in Seq(TypedBlock), NEW cs \in Seq(TypedBlock),
         NEW h \in 1..Len(bs), h + 1 \in 1..Len(cs), \A k \in 1..h : bs[k] = cs[k],
         WindowTyped, versions = VotesIn(bs, FirstVote(h), h - 1),
         IsBest(Len(heights), bs, h, current_fork_index), NEW b, b = cs[h + 1], add(b, h)
  PROVE  /\ versions' = VotesIn(cs, FirstVote(h + 1), (h + 1) - 1)
         /\ IsBest(Len(heights), cs, h + 1, current_fork_index')
         /\ IsBest(Len(heights), cs, h, current_fork_index)
<1> DEFINE g == h + 1
           w == VotesIn(cs, FirstVote(g), g - 1)
<1>1. current_fork_index \in 1..Len(heights) /\ h \in Nat
  BY DEF IsBest
<1>2. cs[h + 1] \in TypedBlock
  OBVIOUS
<1>3. b.vote \in Nat
  BY <1>2 DEF TypedBlock
<1>4. /\ WindowTyped'
      /\ versions' = Append(Trimmed(versions), get_effective_version(get_block_vote(b)))
  BY <1>1, <1>3, AddWindow
<1>5. versions' = w
  BY <1>4, WindowMoves
<1>6. last_versions' = Count(w)
  BY <1>4, <1>5 DEF WindowTyped
<1>7. IsBest(Len(heights), cs, h, current_fork_index)
  BY <1>1, BestOfPrefix
<1>8. current_fork_index' = Raised(Count(w), current_fork_index, g)
  BY <1>6 DEF add
<1>9. g \in 1..Len(cs) /\ g > 1 /\ g - 1 = h
  BY <1>1
<1> HIDE DEF g
<1>10. IsBest(Len(heights), cs, g, Raised(Count(w), current_fork_index, g))
  BY <1>7, <1>9, RaisedBest
<1> QED
  BY <1>5, <1>7, <1>8, <1>10 DEF g

\* A block is checked against the best fork, stored and counted.
LEMMA AddBlockVotesStep ==
  ASSUME Consecutive, VotesInv, NEW b \in [version : VersionNumbers, vote : Votes], add_block(b)
  PROVE  VotesInv'
<1> DEFINE N == Len(heights)
           bs == db_blocks
           cs == db_blocks'
           h == DbHeight
           x == current_fork_index
<1>1. /\ starting = "no" /\ starting' = "no" /\ heights' = heights
      /\ scanned = h /\ cs = Append(bs, b) /\ scanned' = h + 1
      /\ add(b, h) /\ do_check(b)
      /\ hf_versions' = [hf_versions EXCEPT ![h] = Version(x)]
  BY DEF add_block, Running, add, Recorded
<1>2. WindowInv /\ WindowInv' /\ WindowTyped
  BY AddBlockWindowStep DEF VotesInv, WindowInv
<1>3. /\ KnownForks /\ N \in Nat /\ N >= 1 /\ bs \in Seq(TypedBlock)
      /\ h = Len(bs) /\ h \in Nat /\ h >= 1 /\ x \in 1..N /\ Version(x) = x
  BY <1>2, VotedTypes
<1>4. b \in TypedBlock
  BY SizeAssumption DEF TypedBlock
<1>5. /\ cs \in Seq(TypedBlock) /\ Len(cs) = h + 1 /\ cs[h + 1] = b
      /\ \A k \in 1..h : bs[k] = cs[k]
  BY <1>1, <1>3, <1>4, AppendProperties
<1>6. DbHeight' = h + 1
  BY <1>5 DEF DbHeight
<1>7. /\ ChainVoted(N, bs) /\ RecordedExact /\ SettledTo(N, bs, h) /\ IsBest(N, bs, h, x)
      /\ versions = VotesIn(bs, FirstVote(h), h - 1)
  BY <1>1 DEF VotesInv, IndexVoted
<1>8. h \in 1..h /\ h + 1 \in 1..(h + 1)
  BY <1>3
<1>9. b.version = x /\ get_block_vote(b) >= x
  BY <1>1, <1>3 DEF do_check
<1>10. \A i \in 1..h : bs[i].version <= x
  BY <1>3, <1>7, VersionsBelow
<1>11. hf_versions \in [0..MaxForkHeight -> VersionNumbers \cup {0}] /\ h \in 0..MaxForkHeight
       /\ MaxForkHeight \in Nat /\ h <= MaxForkHeight
  BY <1>2, <1>3, VotedTypes DEF WindowInv
<1> HIDE DEF h, cs
<1>12. /\ versions' = VotesIn(cs, FirstVote(h + 1), (h + 1) - 1)
       /\ IsBest(N, cs, h + 1, x') /\ IsBest(N, cs, h, x)
  BY <1>1, <1>2, <1>3, <1>5, <1>7, <1>8, AddBest
<1> HIDE DEF bs, x, N
<1>13. ChainVoted(N, cs)
  <2>1. \A i \in 1..(h + 1) : i = h + 1 \/ i \in 1..h
    BY <1>3
  <2>2. \A i \in 1..(h + 1) : cs[i].version \in 1..N /\ get_block_vote(cs[i]) >= cs[i].version
    <3> SUFFICES ASSUME NEW i \in 1..(h + 1)
                 PROVE  cs[i].version \in 1..N /\ get_block_vote(cs[i]) >= cs[i].version
      OBVIOUS
    <3>1. CASE i = h + 1
      BY <1>3, <1>5, <1>9, <3>1
    <3>2. CASE i \in 1..h
      <4>1. bs[i].version \in 1..N /\ get_block_vote(bs[i]) >= bs[i].version
        BY <1>3, <1>7, <3>2 DEF ChainVoted
      <4> QED
        BY <1>5, <3>2, <4>1
    <3> QED
      BY <2>1, <3>1, <3>2
  <2>3. ASSUME NEW i \in 1..(h + 1), NEW j \in 1..(h + 1), i <= j
        PROVE  cs[i].version <= cs[j].version
    <3>1. CASE j = h + 1 /\ i = h + 1
      BY <1>3, <1>5, <1>9, <3>1
    <3>2. CASE j = h + 1 /\ i \in 1..h
      BY <1>5, <1>9, <1>10, <3>2
    <3>3. CASE j \in 1..h
      <4>1. i \in 1..h
        BY <1>3, <2>3, <3>3
      <4>2. bs[i].version <= bs[j].version
        BY <1>3, <1>7, <2>3, <3>3, <4>1 DEF ChainVoted
      <4> QED
        BY <1>5, <3>3, <4>1, <4>2
    <3> QED
      BY <2>1, <3>1, <3>2, <3>3
  <2>4. cs[1].version = 1
    <3>1. 1 \in 1..h
      BY <1>3
    <3> QED
      BY <1>5, <1>7, <3>1 DEF ChainVoted
  <2> QED
    BY <1>5, <2>2, <2>3, <2>4 DEF ChainVoted
<1>14. SettledTo(N, cs, h + 1)
  <2>1. ASSUME NEW k \in 1..((h + 1) - 1) PROVE IsBest(N, cs, k, cs[k + 1].version)
    <3>1. CASE k = h
      BY <1>5, <1>9, <1>12, <3>1
    <3>2. CASE k # h
      <4>1. k \in 1..(h - 1) /\ k + 1 \in 1..h /\ k \in Nat /\ \A i \in 1..k : i \in 1..h
        BY <1>3, <3>2
      <4>2. IsBest(N, bs, k, bs[k + 1].version)
        BY <1>7, <4>1 DEF SettledTo
      <4>3. IsBest(N, cs, k, bs[k + 1].version)
        BY <1>5, <4>1, <4>2, BestOfPrefix
      <4> QED
        BY <1>5, <4>1, <4>3
    <3> QED
      BY <3>1, <3>2
  <2>2. (h + 1)..(Len(cs) - 1) = {}
    BY <1>3, <1>5
  <2> QED
    BY <2>1, <2>2 DEF SettledTo
<1>15. \A k \in 0..((h + 1) - 1) : hf_versions'[k] = cs[k + 1].version
  <2> SUFFICES ASSUME NEW k \in 0..((h + 1) - 1) PROVE hf_versions'[k] = cs[k + 1].version
    OBVIOUS
  <2>1. CASE k = h
    <3>1. hf_versions'[h] = x
      BY <1>1, <1>3, <1>11 DEF x
    <3> QED
      BY <1>5, <1>9, <2>1, <3>1
  <2>2. CASE k # h
    <3>1. k \in 0..(h - 1) /\ k + 1 \in 1..h /\ k \in 0..MaxForkHeight
      BY <1>3, <1>11, <2>2
    <3>2. hf_versions[k] = bs[k + 1].version
      BY <1>7, <3>1 DEF RecordedExact, h, bs
    <3>3. hf_versions'[k] = hf_versions[k]
      BY <1>1, <1>11, <2>2, <3>1
    <3> QED
      BY <1>5, <3>1, <3>2, <3>3
  <2> QED
    BY <2>1, <2>2
<1>16. RecordedExact'
  BY <1>6, <1>15 DEF RecordedExact, cs
<1>17. h + 1 \in 1..DbHeight'
  BY <1>3, <1>6
<1>18. VotesIn(cs, FirstVote(h + 1), (h + 1) - 1) = VotesIn(db_blocks, FirstVote(scanned), scanned - 1)'
  BY <1>1 DEF VotesIn, get_effective_version, Version, cs
<1>19. IndexVoted'
  BY <1>1, <1>6, <1>12, <1>14, <1>18 DEF IndexVoted, cs, x, N
<1> QED
  BY <1>1, <1>2, <1>13, <1>14, <1>16, <1>17, <1>19 DEF VotesInv, cs, N

\* A block is replayed: it has the version that the index has come to.
LEMMA ReplayVotesStep ==
  ASSUME Consecutive, VotesInv, replay_block
  PROVE  VotesInv'
<1> DEFINE N == Len(heights)
           bs == db_blocks
           h == scanned
           x == current_fork_index
           b == bs[h + 1]
<1>1. /\ h < DbHeight /\ starting' = starting /\ heights' = heights /\ db_blocks' = bs
      /\ scanned' = h + 1
      /\ IF do_check(b) THEN add(b, h)
         ELSE UNCHANGED <<hf_versions, versions, last_versions, current_fork_index>>
  BY DEF replay_block
<1>2. WindowInv /\ WindowInv' /\ WindowTyped
  BY ReplayWindowStep DEF VotesInv, WindowInv
<1>3. /\ KnownForks /\ N \in Nat /\ N >= 1 /\ bs \in Seq(TypedBlock)
      /\ DbHeight = Len(bs) /\ DbHeight \in Nat /\ DbHeight >= 1 /\ x \in 1..N /\ Version(x) = x
      /\ h \in 1..DbHeight /\ MaxForkHeight \in Nat /\ DbHeight <= MaxForkHeight
  BY <1>2, VotedTypes
<1>4. starting = "no"
  BY <1>1, <1>3 DEF VotesInv, IndexVoted
<1>5. /\ ChainVoted(N, bs) /\ RecordedExact /\ SettledTo(N, bs, DbHeight) /\ IsBest(N, bs, h, x)
      /\ versions = VotesIn(bs, FirstVote(h), h - 1)
  BY <1>4 DEF VotesInv, IndexVoted
<1>6. h \in 1..(DbHeight - 1) /\ h + 1 \in 1..Len(bs) /\ h \in 1..Len(bs) /\ h \in Nat /\ h >= 1 /\ h <= h
      /\ h \in 0..(DbHeight - 1) /\ h \in 0..MaxForkHeight
  BY <1>1, <1>3
<1>7. IsBest(N, bs, h, b.version)
  BY <1>5, <1>6 DEF SettledTo
<1>8. b.version = x
  <2> HIDE DEF N, bs, h, x
  <2> QED
    BY <1>3, <1>5, <1>6, <1>7, BestGrows
<1>9. get_block_vote(b) >= x
  BY <1>5, <1>6, <1>8 DEF ChainVoted
<1>10. add(b, h)
  BY <1>1, <1>3, <1>8, <1>9 DEF do_check
<1>11. hf_versions' = [hf_versions EXCEPT ![h] = Version(x)]
  BY <1>10 DEF add, Recorded
<1>12. hf_versions \in [0..MaxForkHeight -> VersionNumbers \cup {0}] /\ hf_versions[h] = b.version
  BY <1>2, <1>5, <1>6 DEF WindowInv, RecordedExact
<1>13. hf_versions' = hf_versions
  BY <1>3, <1>6, <1>8, <1>11, <1>12
<1>14. /\ versions' = VotesIn(bs, FirstVote(h + 1), (h + 1) - 1) /\ IsBest(N, bs, h + 1, x')
  <2> HIDE DEF bs, h
  <2> QED
    BY <1>2, <1>3, <1>5, <1>6, <1>10, AddBest
<1>15. DbHeight' = DbHeight
  BY <1>1 DEF DbHeight
<1>16. VotesIn(bs, FirstVote(h + 1), (h + 1) - 1) = VotesIn(db_blocks, FirstVote(scanned), scanned - 1)'
  BY <1>1 DEF VotesIn, get_effective_version, Version
<1>17. IndexVoted'
  BY <1>1, <1>4, <1>5, <1>14, <1>15, <1>16 DEF IndexVoted
<1>18. RecordedExact'
  BY <1>1, <1>5, <1>13, <1>15 DEF RecordedExact
<1> QED
  BY <1>1, <1>2, <1>15, <1>17, <1>18 DEF VotesInv

\* Newer software may find the blocks above the height of its first new fork outdated.
LEMMA RestartVotesStep ==
  ASSUME Consecutive, VotesInv, NEW m \in Index, restart_node(m)
  PROVE  VotesInv'
<1> DEFINE N == Len(heights)
           bs == db_blocks
<1>1. /\ heights' = SubSeq(Forks, 1, m) /\ m >= N /\ db_blocks' = bs /\ hf_versions' = hf_versions
      /\ scanned' = scanned /\ scanned = DbHeight /\ starting' = "init"
  BY DEF restart_node
<1>2. WindowInv /\ WindowInv'
  BY RestartWindowStep DEF VotesInv
<1>3. /\ KnownForks /\ N \in Nat /\ N >= 1 /\ bs \in Seq(TypedBlock)
      /\ DbHeight = Len(bs) /\ DbHeight \in Nat /\ DbHeight >= 1
  BY <1>2, VotedTypes
<1>4. m \in Nat /\ m >= 1 /\ m <= Len(Forks) /\ Len(Forks) \in Nat
  BY ForkAssumption DEF Index
<1>5. Len(heights') = m
  <2>1. Forks \in Seq([version : Nat \ {0}, height : Nat, threshold : 0..100])
    BY ForkAssumption
  <2>2. Len(SubSeq(Forks, 1, m)) = m
    BY <1>4, <2>1
  <2> QED
    BY <1>1, <2>2
<1>6. DbHeight' = DbHeight
  BY <1>1 DEF DbHeight
<1>7. ChainVoted(N, bs) /\ RecordedExact
  BY DEF VotesInv
<1>8. PICK l \in 1..DbHeight : SettledTo(N, bs, l)
  BY DEF VotesInv
<1> HIDE DEF N, bs
<1>9. ChainVoted(m, bs)
  <2>1. \A v \in 1..N : v \in 1..m
    BY <1>1, <1>3, <1>4
  <2> QED
    BY <1>7, <2>1 DEF ChainVoted
<1>10. \E k \in 1..DbHeight : SettledTo(m, bs, k)
  <2>1. ASSUME NEW h, OutdatedBlock(N, bs[h + 1], h) PROVE OutdatedBlock(m, bs[h + 1], h)
    <3>1. \A v \in 1..N : v \in 1..m
      BY <1>1, <1>3, <1>4
    <3> QED
      BY <2>1, <3>1 DEF OutdatedBlock
  <2>2. CASE N = m
    BY <1>8, <2>2
  <2>3. CASE N # m
    <3> DEFINE H == Forks[N + 1].height
               k == IF l <= H THEN l ELSE H
    <3>1. N < m /\ N + 1 \in 1..m /\ N + 1 \in Index /\ 1 \in Index /\ 1 < N + 1
      BY <1>1, <1>3, <1>4, <2>3 DEF Index
    <3>2. H \in Nat /\ H >= 1
      <4>1. Forks[1].height \in Nat /\ Forks[N + 1].height \in Nat
        <5> DEFINE R == [version : Nat \ {0}, height : Nat, threshold : 0..100]
        <5>1. Forks \in Seq(R)
          BY ForkAssumption
        <5> HIDE DEF R
        <5>2. Forks[1] \in R /\ Forks[N + 1] \in R
          BY <3>1, <5>1 DEF Index
        <5> QED
          BY <5>2 DEF R
      <4>2. Forks[1].height < Forks[N + 1].height
        BY <3>1, ForkAssumption
      <4> QED
        BY <4>1, <4>2
    <3> HIDE DEF H
    <3>3. k \in 1..DbHeight /\ k <= l /\ k <= H /\ (k = l \/ k = H) /\ k \in Nat
      BY <1>3, <3>2
    <3> HIDE DEF k
    <3>4. ASSUME NEW h \in 1..(k - 1) PROVE IsBest(m, bs, h, bs[h + 1].version)
      <4>1. h \in 1..(l - 1) /\ h < H /\ h \in Nat
        BY <1>3, <3>2, <3>3
      <4>2. IsBest(N, bs, h, bs[h + 1].version)
        BY <1>8, <4>1 DEF SettledTo
      <4>3. N < m => h < Forks[N + 1].height
        BY <4>1 DEF H
      <4> QED
        BY <1>1, <1>3, <1>4, <4>1, <4>2, <4>3, BestUpgraded
    <3>5. ASSUME NEW h \in k..(Len(bs) - 1) PROVE OutdatedBlock(m, bs[h + 1], h)
      <4>1. CASE h \in l..(Len(bs) - 1)
        BY <1>8, <2>1, <4>1 DEF SettledTo
      <4>2. CASE h \notin l..(Len(bs) - 1)
        <5>1. h >= H /\ h + 1 \in 1..Len(bs)
          BY <1>3, <3>2, <3>3, <4>2
        <5>2. bs[h + 1].version \in 1..N
          BY <1>7, <5>1 DEF ChainVoted
        <5>3. bs[h + 1].version < N + 1
          BY <1>3, <5>2
        <5> QED
          BY <3>1, <5>1, <5>3 DEF OutdatedBlock, H
      <4> QED
        BY <4>1, <4>2
    <3>6. SettledTo(m, bs, k)
      BY <3>4, <3>5 DEF SettledTo
    <3> QED
      BY <3>3, <3>6
  <2> QED
    BY <2>2, <2>3
<1>11. RecordedExact'
  BY <1>1, <1>6, <1>7 DEF RecordedExact, bs
<1>12. IndexVoted'
  BY <1>1, <1>6 DEF IndexVoted
<1> QED
  BY <1>1, <1>2, <1>5, <1>6, <1>9, <1>10, <1>11, <1>12 DEF VotesInv, bs

\* HardFork::init starts from the version of the top block.
LEMMA InitVotesStep ==
  ASSUME Consecutive, VotesInv, init
  PROVE  VotesInv'
<1> DEFINE N == Len(heights)
           bs == db_blocks
           h == DbHeight
           v == bs[h].version
           found == {n \in 1..N : n = N \/ Version(n) = hf_versions[h - 1]}
<1>1. /\ starting = "init" /\ starting' = "check" /\ heights' = heights /\ scanned' = scanned
      /\ hf_versions' = hf_versions /\ db_blocks' = bs
      /\ versions' = VotesOf(RescanFrom, h - 1) /\ last_versions' = Count(versions')
      /\ current_fork_index' = Raised(last_versions', Min(found), h)
  BY DEF init
<1>2. WindowInv /\ WindowInv'
  BY InitWindowStep DEF VotesInv
<1>3. /\ KnownForks /\ N \in Nat /\ N >= 1 /\ bs \in Seq(TypedBlock)
      /\ h = Len(bs) /\ h \in Nat /\ h >= 1 /\ h \in 1..h /\ h - 1 \in 0..(h - 1) /\ (h - 1) + 1 = h
  BY <1>2, VotedTypes
<1>4. ChainVoted(N, bs) /\ RecordedExact /\ scanned = h
  BY <1>1 DEF VotesInv, IndexVoted
<1>5. v \in 1..N /\ hf_versions[h - 1] = v /\ \A i \in 1..h : bs[i].version \in 1..N /\ bs[i].version <= v
  <2>1. hf_versions[h - 1] = bs[(h - 1) + 1].version
    BY <1>3, <1>4 DEF RecordedExact
  <2> QED
    BY <1>3, <1>4, <2>1 DEF ChainVoted
<1>6. Min(found) = v
  <2>1. \A n \in 1..N : Version(n) = n
    BY <1>3, VersionIsIndex
  <2> HIDE DEF N, v
  <2>2. v \in found /\ (\A n \in found : n = v \/ n = N) /\ found \in SUBSET Nat
    BY <1>3, <1>5, <2>1
  <2> HIDE DEF found
  <2>3. Min(found) \in found /\ Min(found) <= v
    BY <2>2, MinNat
  <2> DEFINE m == Min(found)
  <2>4. m \in found /\ m <= v
    BY <2>3
  <2> HIDE DEF m
  <2>5. v \in Nat /\ v <= N /\ (m = v \/ m = N)
    BY <1>3, <1>5, <2>2, <2>4
  <2>6. m = v
    BY <1>3, <2>4, <2>5
  <2> QED
    BY <2>6 DEF m
<1>7. RescanFrom = FirstVote(h)
  BY DEF RescanFrom, FirstVote
<1>8. versions' = VotesIn(bs, FirstVote(h), h - 1)
  BY <1>1, <1>7 DEF VotesOf, VotesIn
<1>9. current_fork_index' = Raised(Count(VotesIn(bs, FirstVote(h), h - 1)), v, h)
  BY <1>1, <1>6, <1>8
<1>10. current_fork_index' \in 1..N /\ current_fork_index' >= v
  BY <1>3, <1>5, <1>9, RaisedType
<1> HIDE DEF v, h, bs, N
<1>11. ASSUME SettledTo(N, bs, h) PROVE IsBest(N, bs, h, current_fork_index')
  <2>1. (h = 1 /\ v = 1) \/ (h > 1 /\ IsBest(N, bs, h - 1, v))
    <3>1. CASE h = 1
      BY <1>4, <3>1 DEF ChainVoted, v
    <3>2. CASE h # 1
      <4>1. h - 1 \in 1..(h - 1) /\ h > 1
        BY <1>3, <3>2
      <4>2. IsBest(N, bs, h - 1, bs[(h - 1) + 1].version)
        BY <1>11, <4>1 DEF SettledTo
      <4> QED
        BY <1>3, <4>1, <4>2 DEF v
    <3> QED
      BY <3>1, <3>2
  <2> QED
    BY <1>3, <1>9, <2>1, RaisedBest DEF N
<1>12. \A i \in 1..h : bs[i].version <= current_fork_index'
  BY <1>3, <1>5, <1>10
<1>13. DbHeight' = h
  BY <1>1 DEF DbHeight, h, bs
<1>14. VotesIn(bs, FirstVote(h), h - 1) = VotesIn(db_blocks, FirstVote(DbHeight), DbHeight - 1)'
  BY <1>1, <1>13 DEF VotesIn, get_effective_version, Version, bs
<1>15. IndexVoted'
  BY <1>1, <1>4, <1>8, <1>11, <1>12, <1>13, <1>14 DEF IndexVoted, bs, N
<1>16. RecordedExact'
  BY <1>1, <1>4, <1>13 DEF RecordedExact, bs, h
<1>17. \E l \in 1..h : SettledTo(N, bs, l)
  BY DEF VotesInv, N, bs, h
<1> QED
  BY <1>1, <1>2, <1>4, <1>13, <1>15, <1>16, <1>17 DEF VotesInv, bs, N

\* When the top block fits, no block is outdated.
LEMMA TopFitsSettles ==
  ASSUME Consecutive, WindowInv, TopFits, ChainVoted(Len(heights), db_blocks),
         NEW l \in 1..DbHeight, SettledTo(Len(heights), db_blocks, l)
  PROVE  l = DbHeight
<1> DEFINE N == Len(heights)
           top == DbHeight - 1
           v == db_blocks[DbHeight].version
<1>1. /\ KnownForks /\ N \in Nat /\ N >= 1 /\ DbHeight = Len(db_blocks) /\ DbHeight \in Nat
      /\ DbHeight >= 1 /\ DbHeight \in 1..DbHeight /\ top \in Nat /\ top + 1 = DbHeight
  BY VotedTypes
<1>2. v \in 1..N
  BY <1>1 DEF ChainVoted
<1>3. TableOK /\ \A n \in 1..N : heights[n] = Forks[n] /\ Version(n) = n
  BY <1>1, VersionIsIndex
<1> HIDE DEF top
<1>4. IdealIndex(top) \in 1..N /\ \A n \in 1..N : top >= heights[n].height => n <= IdealIndex(top)
  BY <1>1, <1>3, IdealBounds
<1>5. IdealIndex(top) <= 1 \/ IdealIndex(top) = v
  BY <1>3, <1>4 DEF TopFits, get_ideal_version, top
<1>6. ASSUME OutdatedBlock(N, db_blocks[top + 1], top) PROVE FALSE
  <2>1. PICK n \in 1..N : v < n /\ top >= Forks[n].height
    BY <1>1, <1>6 DEF OutdatedBlock
  <2>2. n <= IdealIndex(top)
    BY <1>3, <1>4, <2>1
  <2> HIDE DEF v, N
  <2> QED
    BY <1>1, <1>2, <1>4, <1>5, <2>1, <2>2
<1>7. top \notin l..(Len(db_blocks) - 1)
  BY <1>6 DEF SettledTo
<1> QED
  BY <1>1, <1>7

\* The loop of Blockchain::init pops a block that does not fit.
LEMMA StartPopVotesStep ==
  ASSUME Consecutive, VotesInv, start_pop
  PROVE  VotesInv'
<1> DEFINE N == Len(heights)
           bs == db_blocks
           cs == db_blocks'
           h == DbHeight - 1
<1>1. /\ starting \in {"check", "popped"} /\ starting' = "popped"
      /\ cs = SubSeq(bs, 1, h) /\ scanned' = h
      /\ heights' = heights /\ hf_versions' = hf_versions /\ current_fork_index' = current_fork_index
  BY DEF start_pop
<1>2. WindowInv /\ WindowInv'
  BY StartPopWindowStep DEF VotesInv
<1>3. /\ N \in Nat /\ N >= 1 /\ bs \in Seq(TypedBlock) /\ DbHeight = Len(bs) /\ DbHeight \in Nat /\ DbHeight >= 1
  BY <1>2, VotedTypes
<1>4. h \in Nat /\ h + 1 = Len(bs) /\ \A i \in 1..h : i \in 1..Len(bs)
  BY <1>3
<1>5. Len(cs) = h /\ \A k \in 1..h : cs[k] = bs[k]
  BY <1>1, <1>3, <1>4
<1>6. DbHeight' = h /\ h >= 1
  <2>1. DbHeight' \in 1..MaxForkHeight
    BY <1>2 DEF WindowInv
  <2>2. DbHeight' = h
    BY <1>5 DEF DbHeight
  <2> QED
    BY <2>1, <2>2, SizeAssumption
<1>7. ChainVoted(N, bs) /\ RecordedExact /\ \A i \in 1..DbHeight : bs[i].version <= current_fork_index
  BY <1>1 DEF VotesInv, IndexVoted
<1>8. PICK l \in 1..DbHeight : SettledTo(N, bs, l)
  BY DEF VotesInv
<1>9. RecordedExact'
  <2>1. ASSUME NEW k \in 0..(h - 1) PROVE hf_versions'[k] = cs[k + 1].version
    <3>1. k \in 0..(DbHeight - 1) /\ k + 1 \in 1..h
      BY <1>4
    <3> QED
      BY <1>1, <1>5, <1>7, <3>1 DEF RecordedExact
  <2> QED
    BY <1>6, <2>1 DEF RecordedExact
<1>10. \A i \in 1..h : cs[i].version <= current_fork_index
  BY <1>3, <1>4, <1>5, <1>7
<1>11. IndexVoted'
  BY <1>1, <1>6, <1>10 DEF IndexVoted
<1> HIDE DEF N, bs, cs, h
<1>12. ChainVoted(N, cs)
  <2>1. 1 \in 1..h
    BY <1>4, <1>6
  <2> QED
    BY <1>4, <1>5, <1>7, <2>1 DEF ChainVoted
<1>13. \E k \in 1..h : SettledTo(N, cs, k)
  <2> DEFINE k == IF l <= h THEN l ELSE h
  <2>1. k \in 1..h /\ k <= l /\ (k = l \/ k = h) /\ k \in Nat
    BY <1>3, <1>4, <1>6
  <2> HIDE DEF k
  <2>2. ASSUME NEW g \in 1..(k - 1) PROVE IsBest(N, cs, g, cs[g + 1].version)
    <3>1. g \in 1..(l - 1) /\ g \in Nat /\ g + 1 \in 1..h /\ \A i \in 1..g : i \in 1..h
      BY <1>3, <1>4, <2>1
    <3>2. IsBest(N, bs, g, bs[g + 1].version)
      BY <1>8, <3>1 DEF SettledTo
    <3>3. IsBest(N, cs, g, bs[g + 1].version)
      BY <1>5, <3>1, <3>2, BestOfPrefix
    <3> QED
      BY <1>5, <3>1, <3>3
  <2>3. ASSUME NEW g \in k..(Len(cs) - 1) PROVE OutdatedBlock(N, cs[g + 1], g)
    <3>1. g \in l..(Len(bs) - 1) /\ g + 1 \in 1..h
      BY <1>3, <1>4, <1>5, <2>1
    <3>2. OutdatedBlock(N, bs[g + 1], g)
      BY <1>8, <3>1 DEF SettledTo
    <3> QED
      BY <1>5, <3>1, <3>2
  <2>4. SettledTo(N, cs, k)
    BY <2>2, <2>3 DEF SettledTo
  <2> QED
    BY <2>1, <2>4
<1> QED
  BY <1>1, <1>2, <1>6, <1>9, <1>11, <1>12, <1>13 DEF VotesInv, cs, N

\* The loop ends: the window and the index are those of what is left.
LEMMA StartDoneVotesStep ==
  ASSUME Consecutive, VotesInv, start_done
  PROVE  VotesInv'
<1> DEFINE N == Len(heights)
           h == DbHeight - 1
<1>1. /\ starting \in {"check", "popped"} /\ starting' = "no" /\ heights' = heights /\ TopFits
      /\ hf_versions' = hf_versions /\ db_blocks' = db_blocks
  BY DEF start_done
<1>2. WindowInv /\ WindowInv'
  BY StartDoneWindowStep DEF VotesInv
<1>3. N \in Nat /\ N >= 1 /\ DbHeight \in Nat /\ DbHeight >= 1 /\ h + 1 = DbHeight /\ h \in 0..(DbHeight - 1)
      /\ DbHeight \in 1..DbHeight
  BY <1>2, VotedTypes
<1>4. /\ ChainVoted(N, db_blocks) /\ RecordedExact /\ scanned = DbHeight
      /\ \A i \in 1..DbHeight : db_blocks[i].version <= current_fork_index
  BY <1>1 DEF VotesInv, IndexVoted
<1>5. SettledTo(N, db_blocks, DbHeight)
  <2>1. PICK l \in 1..DbHeight : SettledTo(N, db_blocks, l)
    BY DEF VotesInv
  <2>2. l = DbHeight
    BY <1>1, <1>2, <1>4, <2>1, TopFitsSettles
  <2> QED
    BY <2>1, <2>2
<1>6. DbHeight' = DbHeight
  BY <1>1 DEF DbHeight
<1>7. /\ scanned' = DbHeight /\ IsBest(N, db_blocks, DbHeight, current_fork_index')
      /\ versions' = VotesIn(db_blocks, FirstVote(DbHeight), DbHeight - 1)
  <2>1. CASE starting = "popped"
    <3>1. ReorganizedTo(h) /\ scanned' = h + 1
      BY <2>1 DEF start_done, ReorganizedTo
    <3>2. db_blocks[h + 1].version <= current_fork_index
      BY <1>3, <1>4
    <3> HIDE DEF h
    <3>3. /\ versions' = VotesIn(db_blocks, FirstVote(h + 1), (h + 1) - 1)
          /\ IsBest(N, db_blocks, h + 1, current_fork_index')
      BY <1>2, <1>3, <1>4, <1>5, <3>1, <3>2, ReorganizedBest
    <3> QED
      BY <1>3, <3>1, <3>3
  <2>2. CASE starting = "check"
    <3>1. versions' = versions /\ current_fork_index' = current_fork_index /\ scanned' = scanned
      BY <2>2 DEF start_done
    <3>2. /\ versions = VotesIn(db_blocks, FirstVote(DbHeight), DbHeight - 1)
          /\ IsBest(N, db_blocks, DbHeight, current_fork_index)
      BY <1>5, <2>2 DEF VotesInv, IndexVoted
    <3> QED
      BY <1>4, <3>1, <3>2
  <2> QED
    BY <1>1, <2>1, <2>2
<1>8. VotesIn(db_blocks, FirstVote(DbHeight), DbHeight - 1) = VotesIn(db_blocks, FirstVote(scanned), scanned - 1)'
  BY <1>1, <1>7 DEF VotesIn, get_effective_version, Version
<1>9. IndexVoted'
  BY <1>1, <1>5, <1>6, <1>7, <1>8 DEF IndexVoted
<1>10. RecordedExact'
  BY <1>1, <1>4, <1>6 DEF RecordedExact
<1> QED
  BY <1>1, <1>2, <1>3, <1>4, <1>5, <1>6, <1>9, <1>10 DEF VotesInv

\* The genesis block of a new node.
LEMMA VotesStart ==
  ASSUME Consecutive, ForkInit
  PROVE  VotesInv
<1> DEFINE N == Len(heights)
           bs == db_blocks
<1>1. /\ bs = <<Genesis>> /\ versions = <<1>> /\ last_versions = Count(<<1>>)
      /\ hf_versions = [h \in 0..MaxForkHeight |-> IF h = 0 THEN 1 ELSE 0]
      /\ current_fork_index = Raised(last_versions, 1, 1) /\ scanned = 1 /\ starting = "no"
  BY DEF ForkInit
<1>2. WindowInv
  BY WindowStart
<1>3. /\ KnownForks /\ N \in Nat /\ N >= 1 /\ bs \in Seq(TypedBlock) /\ 1 \in 1..N
  BY <1>2, VotedTypes
<1>4. DbHeight = 1 /\ Len(bs) = 1 /\ bs[1] = Genesis /\ 1 \in 1..Len(bs) /\ 1 \in 1..DbHeight
  BY <1>1 DEF DbHeight
<1>5. Genesis.version = 1 /\ get_block_vote(Genesis) = 1
  BY DEF Genesis, get_block_vote
<1>6. FirstVote(1) = 0
  BY SizeAssumption DEF FirstVote
<1>7. get_effective_version(1) = 1
  <2>1. Version(N) = N
    BY <1>3, VersionIsIndex
  <2> QED
    BY <1>3, <2>1 DEF get_effective_version
<1>8. VotesIn(bs, FirstVote(1), 1 - 1) = <<1>>
  <2> DEFINE w == VotesIn(bs, FirstVote(1), 1 - 1)
  <2>1. /\ w \in Seq(1..N) /\ Len(w) = 1 - FirstVote(1)
        /\ \A i \in 1..(1 - FirstVote(1)) : w[i] = get_effective_version(get_block_vote(bs[FirstVote(1) + i]))
    BY <1>3, <1>4, WindowOf
  <2> HIDE DEF w
  <2>2. Len(w) = 1 /\ 1 \in 1..(1 - FirstVote(1)) /\ FirstVote(1) + 1 = 1
    BY <1>6, <2>1
  <2>3. w[1] = 1
    <3>1. w[1] = get_effective_version(get_block_vote(bs[FirstVote(1) + 1]))
      BY <2>1, <2>2
    <3> QED
      BY <1>4, <1>5, <1>7, <2>2, <3>1
  <2>4. w = <<1>>
    <3>1. <<1>> \in Seq(1..N) /\ Len(<<1>>) = 1 /\ <<1>>[1] = 1
      BY <1>3
    <3>2. Len(w) = Len(<<1>>) /\ \A i \in 1..Len(w) : w[i] = <<1>>[i]
      BY <2>2, <2>3, <3>1
    <3> QED
      BY <2>1, <3>1, <3>2, SeqEqual
  <2> QED
    BY <2>4 DEF w
<1>9. IsBest(N, bs, 1, current_fork_index)
  <2>1. IsBest(N, bs, 1, Raised(Count(VotesIn(bs, FirstVote(1), 1 - 1)), 1, 1))
    BY <1>3, <1>4, RaisedBest
  <2> QED
    BY <1>1, <1>8, <2>1
<1>10. ChainVoted(N, bs)
  BY <1>3, <1>4, <1>5 DEF ChainVoted
<1>11. SettledTo(N, bs, 1)
  BY <1>4 DEF SettledTo
<1>12. RecordedExact
  <2>1. 0 \in 0..MaxForkHeight
    BY SizeAssumption
  <2>2. hf_versions[0] = 1
    BY <1>1, <2>1
  <2> QED
    BY <1>4, <1>5, <2>2 DEF RecordedExact
<1>13. IndexVoted
  BY <1>1, <1>4, <1>8, <1>9, <1>11 DEF IndexVoted
<1> QED
  BY <1>2, <1>4, <1>10, <1>11, <1>12, <1>13 DEF VotesInv

\* Every step but a pop keeps the votes' invariant.
LEMMA VotesInductive ==
  Consecutive /\ ~Pops /\ VotesInv /\ [ForkNext]_forkVars => VotesInv'
<1> SUFFICES ASSUME Consecutive, ~Pops, VotesInv, [ForkNext]_forkVars PROVE VotesInv'
  OBVIOUS
<1>1. CASE \E version \in VersionNumbers, vote \in Votes : add_block([version |-> version, vote |-> vote])
  BY <1>1, AddBlockVotesStep
<1>2. CASE on_block_popped
  BY <1>2 DEF on_block_popped
<1>3. CASE \E height \in 0..MaxForkHeight : reorganize_from_block_height(height)
  BY <1>3, ReorganizeVotesStep
<1>4. CASE \E n \in Index : restart_node(n)
  BY <1>4, RestartVotesStep
<1>5. CASE UNCHANGED forkVars
  <2>1. WindowInv'
    BY <1>5, WindowInductive DEF VotesInv
  <2>2. /\ heights' = heights /\ db_blocks' = db_blocks /\ hf_versions' = hf_versions
        /\ versions' = versions /\ current_fork_index' = current_fork_index
        /\ scanned' = scanned /\ starting' = starting /\ DbHeight' = DbHeight
    BY <1>5 DEF forkVars, DbHeight
  <2>3. RecordedExact'
    BY <2>2 DEF VotesInv, RecordedExact
  <2>4. /\ VotesIn(db_blocks, FirstVote(scanned), scanned - 1)' = VotesIn(db_blocks, FirstVote(scanned), scanned - 1)
        /\ VotesIn(db_blocks, FirstVote(DbHeight), DbHeight - 1)' = VotesIn(db_blocks, FirstVote(DbHeight), DbHeight - 1)
    BY <2>2 DEF VotesIn, get_effective_version, Version
  <2>5. IndexVoted
    BY DEF VotesInv
  <2>6. IndexVoted'
    BY <2>2, <2>4, <2>5 DEF IndexVoted
  <2> QED
    BY <2>1, <2>2, <2>3, <2>6 DEF VotesInv
<1> QED
  BY <1>1, <1>2, <1>3, <1>4, <1>5, ReplayVotesStep, InitVotesStep, StartPopVotesStep,
     StartDoneVotesStep DEF ForkNext

\* The index that a node has after h blocks, from the index after the block before.
FreshStep(g, h) ==
  Raised(Count(VotesIn(db_blocks, FirstVote(h), h - 1)), IF h = 1 THEN 1 ELSE g[h - 1], h)

\* That step looks at the index after the block before, and at no other.
LEMMA FreshSame ==
  ASSUME NEW a, NEW b, NEW k, k = 1 \/ a[k - 1] = b[k - 1]
  PROVE  FreshStep(a, k) = FreshStep(b, k)
BY Zenon DEF FreshStep

\* FreshIndex is such a function.
LEMMA FreshIs ==
  \A h \in 1..MaxForkHeight : FreshIndex[h] = FreshStep(FreshIndex, h)
<1> DEFINE M == MaxForkHeight
           P(g) == g = [h \in 1..M |-> FreshStep(g, h)]
           Table(n, g) == \A h \in 1..n : g[h] = FreshStep(g, h)
           Bad == {n \in Nat : n <= M /\ ~ \E g : Table(n, g)}
<1>1. M \in Nat
  BY SizeAssumption
<1>3. Bad = {}
  <2> SUFFICES ASSUME Bad # {} PROVE FALSE
    OBVIOUS
  <2>1. PICK n \in Bad : \A y \in Bad : n <= y
    BY MinNat
  <2>2. n \in Nat /\ n <= M /\ ~ \E g : Table(n, g)
    OBVIOUS
  <2>3. n # 0
    BY <2>2
  <2>4. n - 1 \in Nat /\ n - 1 <= M /\ ~(n <= n - 1)
    BY <1>1, <2>2, <2>3
  <2>5. \E g : Table(n - 1, g)
    BY <2>1, <2>4
  <2>6. PICK g : Table(n - 1, g)
    BY <2>5
  <2> DEFINE e == [h \in 1..M |-> IF h = n THEN FreshStep(g, n) ELSE g[h]]
  <2> HIDE DEF M
  <2>7. ASSUME NEW h \in 1..n PROVE e[h] = FreshStep(e, h)
    <3>1. h \in 1..M /\ h \in Nat /\ (h = 1 \/ (h - 1 \in 1..M /\ h - 1 # n))
      BY <1>1, <2>2
    <3>2. h = 1 \/ e[h - 1] = g[h - 1]
      BY <3>1
    <3>3. FreshStep(e, h) = FreshStep(g, h)
      <4> HIDE DEF e, Table, Bad, P
      <4> QED
        BY <3>2, FreshSame
    <3>4. CASE h = n
      BY <3>1, <3>3, <3>4
    <3>5. CASE h # n
      <4>1. h \in 1..(n - 1)
        BY <2>2, <3>5
      <4>2. g[h] = FreshStep(g, h)
        BY <2>6, <4>1
      <4>3. e[h] = g[h]
        BY <3>1, <3>5
      <4> QED
        BY <3>3, <4>2, <4>3
    <3> QED
      BY <3>4, <3>5
  <2> QED
    BY <2>2, <2>7
<1>4. \E g : Table(M, g)
  <2> HIDE DEF Table, M
  <2> QED
    BY <1>1, <1>3
<1>5. PICK g : Table(M, g)
  BY <1>4
<1> DEFINE e == [h \in 1..M |-> g[h]]
<1> HIDE DEF M
<1>6. ASSUME NEW h \in 1..M PROVE g[h] = FreshStep(e, h)
  <2>1. h = 1 \/ h - 1 \in 1..M
    BY <1>1
  <2>2. h = 1 \/ e[h - 1] = g[h - 1]
    BY <2>1
  <2>3. FreshStep(e, h) = FreshStep(g, h)
    <3> HIDE DEF e, Table, Bad, P
    <3> QED
      BY <2>2, FreshSame
  <2> QED
    BY <1>5, <2>3
<1>7. P(e)
  <2>1. [h \in 1..M |-> g[h]] = [h \in 1..M |-> FreshStep(e, h)]
    BY <1>6
  <2> QED
    BY <2>1
<1>8. P(CHOOSE f : P(f))
  <2> HIDE DEF P, e
  <2> QED
    BY <1>7, Zenon
<1>9. FreshIndex = CHOOSE f : P(f)
  BY Zenon DEF FreshIndex, FreshStep, FirstVote, VotesOf, VotesIn, M
<1>10. P(FreshIndex)
  BY <1>8, <1>9
<1> HIDE DEF P
<1>11. FreshIndex = [h \in 1..M |-> FreshStep(FreshIndex, h)]
  BY <1>10 DEF P
<1> QED
  BY <1>11 DEF M

\* A node that only ever added the blocks is on the best fork.
LEMMA FreshBest ==
  ASSUME Consecutive, KnownForks, db_blocks \in Seq(TypedBlock), DbHeight <= MaxForkHeight
  PROVE  \A h \in 1..DbHeight : IsBest(Len(heights), db_blocks, h, FreshIndex[h])
<1> DEFINE N == Len(heights)
           Bad == {h \in Nat : h \in 1..DbHeight /\ ~IsBest(N, db_blocks, h, FreshIndex[h])}
<1>1. DbHeight = Len(db_blocks) /\ DbHeight \in Nat /\ MaxForkHeight \in Nat
  BY SizeAssumption DEF DbHeight
<1>2. Bad = {}
  <2> SUFFICES ASSUME Bad # {} PROVE FALSE
    OBVIOUS
  <2>1. PICK h \in Bad : \A y \in Bad : h <= y
    BY MinNat
  <2>2. h \in Nat /\ h \in 1..DbHeight /\ ~IsBest(N, db_blocks, h, FreshIndex[h])
    OBVIOUS
  <2> DEFINE cur == IF h = 1 THEN 1 ELSE FreshIndex[h - 1]
  <2>3. FreshIndex[h] = Raised(Count(VotesIn(db_blocks, FirstVote(h), h - 1)), cur, h)
    <3>1. h \in 1..MaxForkHeight
      BY <1>1, <2>2
    <3>2. FreshIndex[h] = FreshStep(FreshIndex, h)
      BY <3>1, FreshIs
    <3> QED
      BY <3>2, Zenon DEF FreshStep
  <2>4. (h = 1 /\ cur = 1) \/ (h > 1 /\ IsBest(N, db_blocks, h - 1, cur))
    <3>1. CASE h = 1
      BY <3>1
    <3>2. CASE h # 1
      <4>1. h - 1 \in Nat /\ h - 1 \in 1..DbHeight /\ ~(h <= h - 1) /\ h > 1
        BY <1>1, <2>2, <3>2
      <4>2. ~(h - 1 \in Bad)
        BY <2>1, <4>1
      <4>3. IsBest(N, db_blocks, h - 1, FreshIndex[h - 1])
        BY <4>1, <4>2
      <4> QED
        BY <3>2, <4>1, <4>3
    <3> QED
      BY <3>1, <3>2
  <2>5. h \in 1..Len(db_blocks)
    BY <1>1, <2>2
  <2> HIDE DEF cur, Bad
  <2>6. IsBest(N, db_blocks, h, Raised(Count(VotesIn(db_blocks, FirstVote(h), h - 1)), cur, h))
    BY <2>4, <2>5, RaisedBest
  <2> QED
    BY <2>2, <2>3, <2>6
<1>3. \A h \in 1..DbHeight : h \in Nat
  BY <1>1
<1> QED
  BY <1>2, <1>3

\* VotesBelow counts the votes of those blocks.
LEMMA VotesBelowAre ==
  ASSUME Consecutive, KnownForks, db_blocks \in Seq(TypedBlock), NEW g \in 1..DbHeight,
         NEW n \in 1..Len(heights)
  PROVE  VotesBelow(n, g) = Cardinality(VotesFor(db_blocks, n, g))
<1> DEFINE f == FirstVote(g)
           V == {h \in 0..(g - 1) : h >= g - WindowSize /\
                   get_effective_version(get_block_vote(db_blocks[h + 1])) >= Version(n)}
           D == VotesFor(db_blocks, n, g)
           b == [k \in D |-> k - 1]
<1>1. DbHeight = Len(db_blocks) /\ DbHeight \in Nat /\ g \in Nat /\ g >= 1 /\ g <= DbHeight
  BY DEF DbHeight
<1>2. WindowSize \in Nat /\ f = IF g > WindowSize THEN g - WindowSize ELSE 0
  BY SizeAssumption DEF FirstVote
<1>3. Version(n) = n
  BY VersionIsIndex
<1>4. ASSUME NEW k \in 1..g
      PROVE  get_effective_version(get_block_vote(db_blocks[k])) >= n <=> get_block_vote(db_blocks[k]) >= n
  <2>1. k \in 1..Len(db_blocks)
    BY <1>1
  <2>2. get_block_vote(db_blocks[k]) \in Nat /\ get_block_vote(db_blocks[k]) >= 1
    BY <2>1, VoteType
  <2> QED
    BY <2>2, EffectiveVote
<1>5. D = {k \in (f + 1)..g : get_block_vote(db_blocks[k]) >= n}
  BY DEF VotesFor
<1> HIDE DEF f, D
<1>6. ASSUME NEW k \in D PROVE k \in Nat /\ k - 1 \in V
  <2>1. k \in (f + 1)..g /\ get_block_vote(db_blocks[k]) >= n
    BY <1>5
  <2>2. k \in 1..g /\ k - 1 \in 0..(g - 1) /\ k - 1 >= g - WindowSize /\ (k - 1) + 1 = k /\ k \in Nat
    BY <1>1, <1>2, <2>1
  <2>3. get_effective_version(get_block_vote(db_blocks[(k - 1) + 1])) >= Version(n)
    BY <1>3, <1>4, <2>1, <2>2
  <2> QED
    BY <2>2, <2>3
<1>7. ASSUME NEW h \in V PROVE h + 1 \in D /\ h \in Nat /\ h = (h + 1) - 1
  <2>1. h \in 0..(g - 1) /\ h >= g - WindowSize
        /\ get_effective_version(get_block_vote(db_blocks[h + 1])) >= n
    BY <1>3
  <2>2. h + 1 \in 1..g /\ h + 1 \in (f + 1)..g /\ h \in Nat /\ h = (h + 1) - 1
    BY <1>1, <1>2, <2>1
  <2>3. get_block_vote(db_blocks[h + 1]) >= n
    BY <1>4, <2>1, <2>2
  <2> QED
    BY <1>5, <2>2, <2>3
<1> HIDE DEF V
<1>8. D = {h + 1 : h \in V} /\ V = {k - 1 : k \in D}
  <2>1. ASSUME NEW k \in D PROVE k - 1 \in V /\ k = (k - 1) + 1
    BY <1>6
  <2> QED
    BY <1>7, <2>1
<1>9. D \in SUBSET (1..g) /\ IsFiniteSet(D)
  <2>1. D \in SUBSET (1..g)
    BY <1>1, <1>2, <1>5
  <2>2. IsFiniteSet(1..g)
    BY <1>1, FS_Interval
  <2> QED
    BY <2>1, <2>2, FS_Subset
<1>10. b \in Bijection(D, V)
  <2>1. b \in [D -> V]
    BY <1>6
  <2>2. ASSUME NEW i \in D, NEW j \in D, b[i] = b[j] PROVE i = j
    BY <1>6, <2>2
  <2>3. ASSUME NEW h \in V PROVE \E k \in D : b[k] = h
    BY <1>7
  <2> HIDE DEF b
  <2> QED
    BY <2>1, <2>2, <2>3 DEF Bijection, Injection, Surjection, IsInjective
<1>11. ExistsBijection(D, V)
  BY <1>10, Zenon DEF ExistsBijection
<1>12. Cardinality(D) = Cardinality(V)
  BY <1>9, <1>11, FS_Bijection
<1> QED
  BY <1>12 DEF VotesBelow, V, D

\* The percentage that get_voted_fork_index rounds up is reached.
LEMMA RoundedUp ==
  ASSUME NEW t \in Nat, NEW c \in Nat, c >= (t + 99) \div 100
  PROVE  100 * c >= t
  BY SMT

\* The invariant is what the votes promise.
LEMMA VotesInvDecides ==
  Consecutive /\ VotesInv => VotesDecide
<1> SUFFICES ASSUME Consecutive, VotesInv PROVE VotesDecide
  OBVIOUS
<1> DEFINE N == Len(heights)
           x == current_fork_index
<1>1. WindowInv
  BY DEF VotesInv
<1>2. /\ KnownForks /\ N \in Nat /\ N >= 1 /\ db_blocks \in Seq(TypedBlock) /\ DbHeight = Len(db_blocks)
      /\ DbHeight \in Nat /\ DbHeight >= 1 /\ DbHeight <= MaxForkHeight /\ x \in 1..N
  BY <1>1, VotedTypes
<1>3. Running => /\ IsBest(N, db_blocks, DbHeight, x)
                 /\ versions = VotesIn(db_blocks, FirstVote(DbHeight), DbHeight - 1)
  <2>1. IndexVoted
    BY DEF VotesInv
  <2> QED
    BY <2>1 DEF IndexVoted, Running
<1>4. WindowIsLastBlocks
  BY <1>3, Zenon DEF WindowIsLastBlocks, VotesIn, VotesOf, RescanFrom, FirstVote
<1>5. SameAsFresh
  <2> SUFFICES ASSUME Running PROVE x = FreshIndex[DbHeight]
    BY DEF SameAsFresh
  <2>1. DbHeight \in 1..DbHeight
    BY <1>2
  <2>2. IsBest(N, db_blocks, DbHeight, FreshIndex[DbHeight])
    BY <1>2, <2>1, FreshBest
  <2> HIDE DEF x, N
  <2> QED
    BY <1>2, <1>3, <2>2, BestGrows
<1>6. CurrentHadVotes
  <2> SUFFICES ASSUME Running, x > 1
               PROVE  \E height \in 1..DbHeight :
                        /\ height >= heights[x].height
                        /\ 100 * VotesBelow(x, height) >= WindowSize * heights[x].threshold
    BY DEF CurrentHadVotes
  <2>1. HasPassed(db_blocks, x, DbHeight)
    BY <1>2, <1>3 DEF IsBest
  <2>2. PICK g \in 1..DbHeight : Passes(db_blocks, x, g)
    BY <2>1 DEF HasPassed
  <2>3. g >= Forks[x].height /\ Cardinality(VotesFor(db_blocks, x, g)) >= NeededVotes(x)
    BY <2>2 DEF Passes
  <2>4. heights[x] = Forks[x] /\ x \in Index
    BY <1>2, VersionIsIndex
  <2> DEFINE t == WindowSize * Forks[x].threshold
             c == Cardinality(VotesFor(db_blocks, x, g))
  <2>5. VotesBelow(x, g) = c
    BY <1>2, VotesBelowAre
  <2>6. c \in Nat
    <3>1. g \in 1..Len(db_blocks)
      BY <1>2
    <3> QED
      BY <1>2, <3>1, SameVoters
  <2>7. t \in Nat
    <3> DEFINE F == [version : Nat \ {0}, height : Nat, threshold : 0..100]
    <3>1. Forks \in Seq(F)
      BY ForkAssumption
    <3> HIDE DEF F
    <3>2. Forks[x] \in F
      BY <2>4, <3>1 DEF Index
    <3>3. Forks[x].threshold \in Nat
      BY <3>2 DEF F
    <3> QED
      BY <3>3, SizeAssumption
  <2>8. c >= (t + 99) \div 100
    BY <2>3 DEF NeededVotes
  <2> HIDE DEF t, c
  <2>9. 100 * c >= t
    BY <2>6, <2>7, <2>8, RoundedUp
  <2>10. 100 * VotesBelow(x, g) >= WindowSize * heights[x].threshold
    BY <2>4, <2>5, <2>9 DEF t
  <2> QED
    BY <2>3, <2>4, <2>10
<1> QED
  BY <1>4, <1>5, <1>6 DEF VotesDecide

\* The next theorem's invariant holds at the start.
LEMMA VotesAtStart ==
  Consecutive /\ ForkInit => VotesInv
BY VotesStart

\* Adding, reorganising, replaying, rescanning and upgrading keep the invariant of the votes,
\* for any thresholds and any window, as long as no block is popped from a running node.
THEOREM VotesInvariant ==
  Consecutive /\ ~Pops /\ ForkSpec => []VotesInv
<1>1. Consecutive /\ ~Pops => (Consecutive /\ ~Pops)'
  BY DEF Consecutive, Index
<1> QED
  BY <1>1, VotesAtStart, VotesInductive, PTL DEF ForkSpec

\* With votes, for every table of forks whose versions have no gap: the window of
\* HardFork is that of the last blocks; get_current_version gives a version that is past its
\* height and had the share of votes it asks for at some height of this chain; and a node that
\* replayed its blocks in reorganize_from_block_height, or rescanned them in init with the
\* same or newer software, is on the version of one that received them in order.
THEOREM VotesDecideVersion ==
  Consecutive /\ ~Pops /\ ForkSpec => []VotesDecide
<1>1. Consecutive => Consecutive'
  BY DEF Consecutive, Index
<1> QED
  BY <1>1, VotesInvDecides, VotesInvariant, PTL
=============================================================================
