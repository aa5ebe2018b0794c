------------------------------ MODULE HardFork ------------------------------
(***************************************************************************)
(* Hard fork versions (src/cryptonote_basic/hardfork.cpp) and the part of  *)
(* Blockchain::init that removes blocks mined under outdated rules.        *)
(*                                                                         *)
(* Every block carries a version, which must be the current one, and a     *)
(* vote (its minor version).  HardFork keeps a window of the last votes    *)
(* with a count per version, and the index of the current fork; LMDB keeps *)
(* the blocks and the version recorded for every height, also of heights   *)
(* that were popped.  Blocks are added at the top, popped, replayed after  *)
(* a reorganisation, and rescanned at start, possibly by newer software    *)
(* that knows more forks.  A block of height h is db_blocks[h + 1].           *)
(***************************************************************************)
EXTENDS Integers, Sequences, FiniteSets, FiniteSetsExt

CONSTANTS
  Forks,        \* all forks: records with version, height, threshold (percent)
  WindowSize,   \* window_size
  Votes,        \* minor versions of blocks
  Pops,         \* whether blocks are popped in this instance
  MaxForkHeight     \* bound: the longest chain explored

Index == 1..Len(Forks)
VersionNumbers == 1..Forks[Len(Forks)].version

ASSUME ForkAssumption ==  \* what add_fork accepts
  /\ Forks \in Seq([version : Nat \ {0}, height : Nat, threshold : 0..100])
  /\ Len(Forks) > 0 /\ Forks[1].version = 1
  /\ \A m, n \in Index : m < n => /\ Forks[m].version < Forks[n].version
                                  /\ Forks[m].height < Forks[n].height
ASSUME SizeAssumption ==
  /\ WindowSize \in Nat \ {0} /\ MaxForkHeight \in Nat \ {0}
  /\ Votes \subseteq Nat /\ Pops \in BOOLEAN

VARIABLES
  heights,             \* the forks this software knows of, the first of Forks
  db_blocks,              \* the chain in the database
  hf_versions,         \* the version recorded for a height, 0 if none was
  versions,            \* the window
  last_versions,       \* how often each version occurs in the window
  current_fork_index,
  scanned,             \* height up to which the state accounts for the chain
  starting             \* the loop of Blockchain::init: "no", "init", "check"
                       \* or "popped"

forkVars == <<heights, db_blocks, hf_versions, versions, last_versions, current_fork_index,
          scanned, starting>>

Version(n) == heights[n].version
DbHeight == Len(db_blocks)
Running == starting = "no" /\ scanned = DbHeight

-----------------------------------------------------------------------------
(* Votes *)

get_block_vote(b) == IF b.vote = 0 THEN 1 ELSE b.vote

get_effective_version(vote) ==
  IF vote > Version(Len(heights)) THEN Version(Len(heights)) ELSE vote

Count(s) == [v \in VersionNumbers |-> Cardinality({i \in 1..Len(s) : s[i] = v})]

Threshold(n) == (WindowSize * heights[n].threshold + 99) \div 100

\* accumulated_votes >= threshold in get_voted_fork_index; a count is never
\* below a threshold of zero.
EnoughVotes(counts, n) ==
  \/ Threshold(n) = 0
  \/ MapThenSumSet(LAMBDA m : counts[Version(m)], n..Len(heights)) >= Threshold(n)

get_voted_fork_index(counts, current, height) ==
  LET voted == {n \in 1..Len(heights) : height >= heights[n].height /\ EnoughVotes(counts, n)}
  IN IF voted = {} THEN current ELSE Max(voted)

\* The index only grows while blocks are added.
Raised(counts, current, height) ==
  LET voted == get_voted_fork_index(counts, current, height)
  IN IF voted > current THEN voted ELSE current

\* The fork that the height alone selects.
IdealIndex(height) == Max({n \in 1..Len(heights) : n = 1 \/ height >= heights[n].height})
get_ideal_version(height) == Version(IdealIndex(height))

-----------------------------------------------------------------------------
(* The window *)

\* The window without the entries that make room for another one.
Trimmed(s) == SubSeq(s, IF Len(s) >= WindowSize THEN Len(s) - WindowSize + 2 ELSE 1, Len(s))

\* The effective votes of the blocks of heights first..last.
VotesOf(first, last) ==
  [i \in 1..(last - first + 1) |-> get_effective_version(get_block_vote(db_blocks[first + i]))]

do_check(b) ==
  b.version = Version(current_fork_index) /\ get_block_vote(b) >= Version(current_fork_index)

Recorded(height) ==
  hf_versions' = [hf_versions EXCEPT ![height] = Version(current_fork_index)]

\* HardFork::add of a block that passes do_check.
add(b, height) ==
  LET vote == get_effective_version(get_block_vote(b))
      dropped == SubSeq(versions, 1, Len(versions) - Len(Trimmed(versions)))
  IN /\ versions' = Append(Trimmed(versions), vote)
     /\ last_versions' = [v \in VersionNumbers |->
          last_versions[v] - Count(dropped)[v] + (IF v = vote THEN 1 ELSE 0)]
     /\ current_fork_index' = Raised(last_versions', current_fork_index, height + 1)
     /\ Recorded(height)

-----------------------------------------------------------------------------
(* Blocks *)

\* handle_block_to_main_chain: check, then BlockchainDB::add_block.
add_block(b) ==
  /\ Running /\ DbHeight < MaxForkHeight
  /\ do_check(b)
  /\ db_blocks' = Append(db_blocks, b)
  /\ add(b, DbHeight)
  /\ scanned' = scanned + 1
  /\ UNCHANGED <<heights, starting>>

PoppedCounts(out, in) == [[last_versions EXCEPT ![out] = @ - 1] EXCEPT ![in] = @ + 1]

\* on_block_popped "does not take voting into account".
PoppedIndex(height) == IdealIndex(height)

\* pop_block_from_blockchain and on_block_popped(1): the window loses its last
\* entry and gets the version recorded for the popped height in front.
on_block_popped ==
  /\ Pops /\ Running /\ DbHeight > 1
  /\ LET height == DbHeight - 1
         out == versions[Len(versions)]
         in == hf_versions[height]
     IN /\ db_blocks' = SubSeq(db_blocks, 1, height)
        /\ versions' = <<in>> \o SubSeq(versions, 1, Len(versions) - 1)
        /\ last_versions' = PoppedCounts(out, in)
        /\ current_fork_index' = PoppedIndex(height)
        /\ scanned' = height
  /\ UNCHANGED <<heights, hf_versions, starting>>

\* Fault: the window that ends at a height starts one block late.
ReorganizeFrom_Late(height) == IF height >= WindowSize - 1 THEN height - (WindowSize - 2) ELSE 0

\* The block height from which reorganize_from_block_height fills the window.
ReorganizeFrom(height) == IF height >= WindowSize - 1 THEN height - (WindowSize - 1) ELSE 0

\* The window and the index for the chain up to a height.
ReorganizedTo(height) ==
  LET start_version == IF height = 0 THEN 1 ELSE hf_versions[height]
      lowered == Max({n \in 1..current_fork_index : n = 1 \/ Version(n) <= start_version})
  IN /\ versions' = VotesOf(ReorganizeFrom(height), height)
     /\ last_versions' = Count(versions')
     /\ current_fork_index' = Raised(last_versions', lowered, height + 1)
     /\ scanned' = height + 1

\* switch_to_alternative_blockchain and rollback_blockchain_switching call it
\* with the height of the last common block.
reorganize_from_block_height(height) ==
  /\ Running /\ height < DbHeight
  /\ ReorganizedTo(height)
  /\ UNCHANGED <<heights, db_blocks, hf_versions, starting>>

\* It adds the blocks above again; the result of add is ignored.
replay_block ==
  /\ scanned < DbHeight
  /\ LET b == db_blocks[scanned + 1]
     IN IF do_check(b) THEN add(b, scanned)
                       ELSE UNCHANGED <<hf_versions, versions, last_versions, current_fork_index>>
  /\ scanned' = scanned + 1
  /\ UNCHANGED <<heights, db_blocks, starting>>

-----------------------------------------------------------------------------
(* Start *)

\* init: the block height from which the window is filled.
RescanFrom == IF DbHeight > WindowSize THEN DbHeight - WindowSize ELSE 0

\* The daemon stops, and starts again with software that knows the first n
\* forks: add_fork for each, and nothing in memory.
restart_node(n) ==
  /\ scanned = DbHeight
  /\ n >= Len(heights)
  /\ heights' = SubSeq(Forks, 1, n)
  /\ versions' = <<>>
  /\ last_versions' = Count(<<>>)
  /\ current_fork_index' = 1
  /\ starting' = "init"
  /\ UNCHANGED <<db_blocks, hf_versions, scanned>>

\* HardFork::init: rescan_from_block_height.
init ==
  /\ starting = "init"
  /\ LET lastv == hf_versions[DbHeight - 1]
         found == {n \in 1..Len(heights) : n = Len(heights) \/ Version(n) = lastv}
     IN /\ versions' = VotesOf(RescanFrom, DbHeight - 1)
        /\ last_versions' = Count(versions')
        /\ current_fork_index' = Raised(last_versions', Min(found), DbHeight)
  /\ starting' = "check"
  /\ UNCHANGED <<heights, db_blocks, hf_versions, scanned>>

\* Fault: blocks of the version before the ideal one are tolerated.
TopFits_Near == get_ideal_version(DbHeight - 1) <= db_blocks[DbHeight].version + 1

\* The top block is not of an outdated version.
TopFits ==
  \/ get_ideal_version(DbHeight - 1) <= 1
  \/ get_ideal_version(DbHeight - 1) = db_blocks[DbHeight].version

\* The loop of Blockchain::init pops it otherwise, in the database only.
start_pop ==
  /\ starting \in {"check", "popped"} /\ ~TopFits
  /\ db_blocks' = SubSeq(db_blocks, 1, DbHeight - 1)
  /\ scanned' = DbHeight - 1
  /\ starting' = "popped"
  /\ UNCHANGED <<heights, hf_versions, versions, last_versions, current_fork_index>>

\* The loop ends; if it popped, reorganize_from_chain_height(top) follows.
start_done ==
  /\ starting \in {"check", "popped"} /\ TopFits
  /\ IF starting = "popped"
     THEN ReorganizedTo(DbHeight - 1)
     ELSE UNCHANGED <<versions, last_versions, current_fork_index, scanned>>
  /\ starting' = "no"
  /\ UNCHANGED <<heights, db_blocks, hf_versions>>

-----------------------------------------------------------------------------
Genesis == [version |-> 1, vote |-> 0]

\* A new node that knows the first n forks has added the genesis block.
ForkInit ==
  /\ \E n \in Index : heights = SubSeq(Forks, 1, n)
  /\ db_blocks = <<Genesis>>
  /\ hf_versions = [h \in 0..MaxForkHeight |-> IF h = 0 THEN 1 ELSE 0]
  /\ versions = <<1>>
  /\ last_versions = Count(<<1>>)
  /\ current_fork_index = Raised(last_versions, 1, 1)
  /\ scanned = 1 /\ starting = "no"

ForkNext ==
  \/ \E version \in VersionNumbers, vote \in Votes : add_block([version |-> version, vote |-> vote])
  \/ on_block_popped
  \/ \E height \in 0..MaxForkHeight : reorganize_from_block_height(height)
  \/ replay_block
  \/ \E n \in Index : restart_node(n)
  \/ init
  \/ start_pop
  \/ start_done

ForkSpec == ForkInit /\ [][ForkNext]_forkVars

-----------------------------------------------------------------------------
(* Properties *)

\* What the database, the window, its counts and the index may hold; the counts
\* are unsigned in the code, and the genesis block is never popped.
ForkTypeOK ==
  /\ \E n \in Index : heights = SubSeq(Forks, 1, n)
  /\ db_blocks \in Seq([version : VersionNumbers, vote : Nat])
  /\ DbHeight \in 1..MaxForkHeight
  /\ hf_versions \in [0..MaxForkHeight -> VersionNumbers \cup {0}]
  /\ versions \in Seq(VersionNumbers)
  /\ last_versions \in [VersionNumbers -> Nat]
  /\ current_fork_index \in 1..Len(heights)
  /\ scanned \in 1..DbHeight
  /\ starting \in {"no", "init", "check", "popped"}

NoVoting == \A n \in Index : Forks[n].threshold = 0

\* Without voting (all networks of hardforks.cpp have thresholds of zero) the
\* current version is the one the height of the chain selects, whatever was
\* popped, reorganised, upgraded or restarted: miners, the pool and the block
\* checks use the one, alternative blocks and templates the other.
CurrentIsIdeal ==
  Running => Version(current_fork_index) = get_ideal_version(DbHeight)

\* The software never keeps a block of an outdated version: when a node that
\* was upgraded after a fork has started, every block of the chain has the
\* version that its height asks for.
ChainIdeal ==
  Running => \A h \in 0..(DbHeight - 1) : db_blocks[h + 1].version = get_ideal_version(h)

\* The version recorded for a height is that of the block there; init and
\* reorganize start from it.
RecordedExact ==
  \A h \in 0..(DbHeight - 1) : hf_versions[h] = db_blocks[h + 1].version

\* Whatever was popped, replayed, rescanned or upgraded, the version in force,
\* those of the blocks and those on record are the ones the heights select.
VersionsIdeal == CurrentIsIdeal /\ ChainIdeal /\ RecordedExact

\* The counts agree with the window, which holds between one entry and
\* WindowSize: on_block_popped reads its last entry without looking, and the
\* counts are unsigned.
WindowSound ==
  /\ last_versions = Count(versions)
  /\ Len(versions) <= WindowSize
  /\ starting # "init" => versions # <<>>

\* "rolling window of the last N blocks' versions" (hardfork.h).
WindowIsLastBlocks ==
  Running => versions = VotesOf(RescanFrom, DbHeight - 1)

\* The votes for fork n or later among the last WindowSize blocks below a height.
VotesBelow(n, height) ==
  Cardinality({h \in 0..(height - 1) : h >= height - WindowSize /\
                 get_effective_version(get_block_vote(db_blocks[h + 1])) >= Version(n)})

\* "the latest version that's past its trigger date and had enough votes at
\* one point in the past" (hardfork.h, of get_current_version).
CurrentHadVotes ==
  Running /\ current_fork_index > 1 =>
    \E height \in 1..DbHeight : /\ height >= heights[current_fork_index].height
                                /\ 100 * VotesBelow(current_fork_index, height)
                                     >= WindowSize * heights[current_fork_index].threshold

\* The index after the first h blocks, for a node that only ever added them.
FreshIndex[h \in 1..MaxForkHeight] ==
  LET first == IF h > WindowSize THEN h - WindowSize ELSE 0
  IN Raised(Count(VotesOf(first, h - 1)), IF h = 1 THEN 1 ELSE FreshIndex[h - 1], h)

\* A node that reorganised, replayed or rescanned its blocks is on the same
\* version as one that received them in order; two nodes with the same chain
\* never disagree about the next block.
SameAsFresh == Running => current_fork_index = FreshIndex[DbHeight]

\* With votes the version depends on the chain alone: the window is that of the
\* last blocks, the fork had its votes, and a node that replayed or rescanned
\* agrees with one that did not.
VotesDecide == WindowIsLastBlocks /\ CurrentHadVotes /\ SameAsFresh
=============================================================================
