----------------------------- MODULE Blockchain -----------------------------
(***************************************************************************)
(* The main chain, alternative blocks and chain switches                   *)
(* (src/cryptonote_core/blockchain.cpp), with checkpoints and the LMDB     *)
(* batch that a group of blocks is added in.                               *)
(*                                                                         *)
(* A block is added at the top, stored as alternative, or makes its branch *)
(* the main chain: blocks down to the common one are popped, those of the  *)
(* branch are connected one by one, and when one of them fails the old     *)
(* chain is put back.  All of it happens under the locks of the pool and   *)
(* the blockchain, so the steps of one switch are not interleaved with     *)
(* other calls; but the process may stop between any two of them, and      *)
(* falls back to what was committed.  blocks[h + 1] is the block of height *)
(* h.  Transactions are in the chain, in the pool, or unknown.             *)
(***************************************************************************)
EXTENDS Integers, Sequences, FiniteSets, FiniteSetsExt, SequencesExt

CONSTANTS
  Blocks, Genesis,
  Line,        \* the blocks from the genesis block to a block, by prev_id
  Difficulty,  \* the difficulty of a block, which its ancestors determine
  Work,        \* the sum of the difficulties of a block and its ancestors
  Txs,
  TxsOf,       \* tx_hashes of a block
  Flaw,        \* the first check a block fails, whatever the node has seen
  Points,      \* checkpoints that the files and DNS may give: height and id
  Events,      \* what happens in an instance besides incoming blocks
  HeightLimit  \* heights are unsigned: the modulus (2^64 in the code)

Flaws == {"none",
          "header",     \* version, timestamp, proof of work, miner transaction
          "inputs",     \* check_tx_inputs of its last transaction
          "reward",     \* validate_miner_transaction
          "key_image"}  \* the last transaction spends what another one of the
                        \* block does: BlockchainDB::add_block throws

Height(b) == Len(Line[b]) - 1
Parent(b) == Line[b][Len(Line[b]) - 1]

ASSUME TreeAssumption ==
  /\ Genesis \in Blocks /\ Line \in [Blocks -> Seq(Blocks)]
  /\ Difficulty \in [Blocks -> Nat \ {0}] /\ Work \in [Blocks -> Nat \ {0}]
  /\ Line[Genesis] = <<Genesis>> /\ Work[Genesis] = Difficulty[Genesis]
  /\ \A b \in Blocks \ {Genesis} : \E p \in Blocks : /\ Line[b] = Append(Line[p], b)
                                                     /\ Work[b] = Work[p] + Difficulty[b]
ASSUME ContentAssumption ==
  /\ TxsOf \in [Blocks -> Seq(Txs)] /\ TxsOf[Genesis] = <<>>
  /\ \A b \in Blocks : IsInjective(TxsOf[b])
  /\ Flaw \in [Blocks -> Flaws] /\ Flaw[Genesis] = "none"
  /\ \A b \in Blocks : Flaw[b] \in {"inputs", "key_image"} => TxsOf[b] # <<>>
ASSUME PointAssumption ==  \* conflicting checkpoints bring the daemon down
  /\ Points \subseteq [height : Nat \ {0}, id : Blocks]
  /\ \A p, q \in Points : p.height = q.height => p = q
  /\ Events \subseteq {"tx", "pop", "flush", "restart", "expire"} /\ HeightLimit \in Nat
  /\ \A b \in Blocks : Height(b) + 2 < HeightLimit

VARIABLES
  blocks,                 \* the main chain
  cumulative_difficulty,  \* recorded for each of its blocks
  alt_blocks,             \* cumulative difficulty of an alternative block, or 0
  pool, kept,             \* transactions in the pool, and those kept_by_block
  partial,                \* transactions written for a block that was not
  m_invalid_blocks,
  m_points,               \* checkpoints in force
  batch,                  \* "none", "blocks" (incoming blocks), or "left" open
  saved,                  \* what the database falls back to while one is open
  m_batch_success,
  phase,                  \* of a switch: "idle", "connect", "rollback",
                          \* "restore", "push"
  alt_chain,              \* branch to connect; after a failure, what to remove
  disconnected_chain,
  split_height,
  discard,                \* discard_disconnected_chain
  before,                 \* history: the main chain when the switch began
  trouble                 \* history: what should not happen did

db == <<blocks, cumulative_difficulty, alt_blocks, pool, kept, partial>>
switch == <<phase, alt_chain, disconnected_chain, split_height, discard, before, trouble>>
transaction == <<batch, saved, m_batch_success>>
vars == <<blocks, cumulative_difficulty, alt_blocks, pool, kept, partial, m_invalid_blocks,
          m_points, batch, saved, m_batch_success, phase, alt_chain, disconnected_chain,
          split_height, discard, before, trouble>>

DbHeight == Len(blocks)
Tip == blocks[DbHeight]
InMain(b) == \E i \in 1..DbHeight : blocks[i] = b
InAlt(b) == alt_blocks[b] # 0
have_block(b) == InMain(b) \/ InAlt(b) \/ b \in m_invalid_blocks
TxsIn(chain) == UNION {ToSet(TxsOf[chain[i]]) : i \in 1..Len(chain)}
tx_exists(t) == t \in TxsIn(blocks) \cup partial

Idle == phase = "idle"

-----------------------------------------------------------------------------
(* Checkpoints *)

check_block(height, b) == \A p \in m_points : p.height = height => p.id = b
IsCheckpoint(height) == \E p \in m_points : p.height = height

is_alternative_block_allowed(blockchain_height, block_height) ==
  \A p \in m_points : p.height <= blockchain_height => p.height < block_height

-----------------------------------------------------------------------------
(* The pool, of which TxPool has the details *)

\* Fault: the transactions are added like any others.
AddToPool_Unkept(S) ==
  \E evicted \in SUBSET (pool \cup S) :
    /\ S = {} => evicted = {}
    /\ pool' = (pool \cup S) \ evicted
    /\ kept' = kept \ evicted

\* add_tx with relay_method::block keeps the transactions; it may make the pool
\* evict others, but never kept ones.
AddToPool(S) ==
  \E evicted \in SUBSET (pool \ (kept \cup S)) :
    /\ S = {} => evicted = {}
    /\ pool' = (pool \cup S) \ evicted
    /\ kept' = kept \cup S

\* Transactions come and go between calls.
pool_add(t) ==
  /\ "tx" \in Events /\ batch = "none" /\ t \notin pool /\ t \notin TxsIn(blocks)
  /\ pool' = pool \cup {t}
  /\ UNCHANGED <<blocks, cumulative_difficulty, alt_blocks, kept, partial, m_invalid_blocks,
                 m_points, transaction, switch>>

pool_remove(t) ==
  /\ "expire" \in Events /\ batch = "none" /\ t \in pool
  /\ pool' = pool \ {t} /\ kept' = kept \ {t}
  /\ UNCHANGED <<blocks, cumulative_difficulty, alt_blocks, partial, m_invalid_blocks,
                 m_points, transaction, switch>>

-----------------------------------------------------------------------------
(* handle_block_to_main_chain *)

\* What is refused before a transaction is taken from the pool.
RefusedEarly(b) ==
  Parent(b) # Tip \/ Flaw[b] = "header" \/ ~check_block(DbHeight, b)

\* The first transaction that is in the chain already or found neither in the
\* pool nor in the supplement, or one past the last.
StopsAt(b, extra) ==
  Min({k \in 1..(Len(TxsOf[b]) + 1) :
         \/ k = Len(TxsOf[b]) + 1
         \/ tx_exists(TxsOf[b][k])
         \/ TxsOf[b][k] \notin pool \cup extra})
AllFound(b, extra) == StopsAt(b, extra) = Len(TxsOf[b]) + 1

Connects(b, extra) ==
  ~RefusedEarly(b) /\ AllFound(b, extra) /\ Flaw[b] = "none"

\* Fault: the mark of a transaction outlives its entry in the pool.
Connect_Marked(b) ==
  /\ blocks' = Append(blocks, b)
  /\ cumulative_difficulty' =
       Append(cumulative_difficulty, cumulative_difficulty[DbHeight] + Difficulty[b])
  /\ pool' = pool \ ToSet(TxsOf[b])
  /\ UNCHANGED <<kept, partial, m_invalid_blocks, m_batch_success>>

Connect(b) ==
  /\ blocks' = Append(blocks, b)
  /\ cumulative_difficulty' =
       Append(cumulative_difficulty, cumulative_difficulty[DbHeight] + Difficulty[b])
  /\ pool' = pool \ ToSet(TxsOf[b])
  /\ kept' = kept \ ToSet(TxsOf[b])
  /\ UNCHANGED <<partial, m_invalid_blocks, m_batch_success>>

\* return_txs_to_pool: the ones taken from the pool so far, now kept.
ReturnTaken(b, extra) ==
  AddToPool({TxsOf[b][i] : i \in 1..(StopsAt(b, extra) - 1)} \cap pool)

Refuse(b, extra) ==
  /\ IF RefusedEarly(b) THEN UNCHANGED <<pool, kept>> ELSE ReturnTaken(b, extra)
  /\ LET reached == ~RefusedEarly(b) /\ AllFound(b, extra)
         thrown == reached /\ Flaw[b] = "key_image"
     IN /\ m_invalid_blocks' = IF reached /\ Flaw[b] = "inputs"
                               THEN m_invalid_blocks \cup {b} ELSE m_invalid_blocks
        /\ m_batch_success' = (m_batch_success /\ ~thrown)
        /\ partial' = IF thrown THEN partial \cup ToSet(Front(TxsOf[b])) ELSE partial
  /\ UNCHANGED <<blocks, cumulative_difficulty>>

-----------------------------------------------------------------------------
(* Popping *)

\* pop_block_from_blockchain until the chain has a number of blocks.
PoppedTo(height, txs) ==
  /\ blocks' = SubSeq(blocks, 1, height)
  /\ cumulative_difficulty' = SubSeq(cumulative_difficulty, 1, height)
  /\ AddToPool(txs) /\ UNCHANGED partial
TxsAbove(height) == TxsIn(SubSeq(blocks, height + 1, DbHeight))

pop_blocks(nblocks, keep_txs) ==
  /\ "pop" \in Events /\ batch = "none" /\ nblocks < DbHeight
  /\ PoppedTo(DbHeight - nblocks, IF keep_txs THEN TxsAbove(DbHeight - nblocks) ELSE {})
  /\ UNCHANGED <<alt_blocks, m_invalid_blocks, m_points, transaction, switch>>

flush_invalid_blocks ==
  /\ "flush" \in Events /\ batch = "none" /\ m_invalid_blocks # {}
  /\ m_invalid_blocks' = {}
  /\ UNCHANGED <<db, m_points, transaction, switch>>

-----------------------------------------------------------------------------
(* Alternative blocks *)

\* build_alt_chain: the alternative blocks that end with the parent of b.
AltBranch(b) ==
  LET line == Line[Parent(b)]
      first == Min({i \in 1..(Len(line) + 1) : \A j \in i..Len(line) : InAlt(line[j])})
  IN SubSeq(line, first, Len(line))

BranchConnects(b) ==
  LET branch == AltBranch(b)
  IN IF branch = <<>> THEN InMain(Parent(b))
     ELSE DbHeight > Height(branch[1]) /\ blocks[Height(branch[1])] = Parent(branch[1])

AltDifficulty(b) ==
  Difficulty[b] + (IF AltBranch(b) # <<>> THEN alt_blocks[Parent(b)]
                   ELSE cumulative_difficulty[Height(b)])

\* The checks of handle_alternative_block, which has no use for transactions.
AltAccepted(b) ==
  /\ is_alternative_block_allowed(DbHeight, Height(b))
  /\ Flaw[b] # "header"
  /\ BranchConnects(b)
  /\ check_block(Height(b), b)
  /\ ~InAlt(b)

\* Fault: a branch with as much work is preferred to the main chain.
MustSwitch_Equal(b) ==
  IsCheckpoint(Height(b)) \/ cumulative_difficulty[DbHeight] <= AltDifficulty(b)

\* Fault: a branch is adopted one unit of work late.
MustSwitch_Late(b) ==
  IsCheckpoint(Height(b)) \/ cumulative_difficulty[DbHeight] + 1 < AltDifficulty(b)

MustSwitch(b) ==
  IsCheckpoint(Height(b)) \/ cumulative_difficulty[DbHeight] < AltDifficulty(b)

\* The transactions of the supplement that enter the pool.
Supplement(extra) == {t \in extra \ pool : ~tx_exists(t)}

-----------------------------------------------------------------------------
(* A batch of incoming blocks: prepare_..., add_new_block for each, cleanup_... *)

prepare_handle_incoming_blocks ==
  /\ batch = "none"
  /\ batch' = "blocks" /\ saved' = db /\ m_batch_success' = TRUE
  /\ UNCHANGED <<db, m_invalid_blocks, m_points, switch>>

\* Fault: the batch is committed whatever happened in it.
BatchKept_Always == TRUE

\* Whether batch_stop rather than batch_abort ends the batch.
BatchKept == m_batch_success

RestoreDb ==
  /\ blocks' = saved[1] /\ cumulative_difficulty' = saved[2] /\ alt_blocks' = saved[3]
  /\ pool' = saved[4] /\ kept' = saved[5] /\ partial' = saved[6]

cleanup_handle_incoming_blocks ==
  /\ Idle /\ batch = "blocks"
  /\ IF BatchKept THEN UNCHANGED <<db, trouble>> ELSE RestoreDb /\ trouble' = "none"
  /\ batch' = "none" /\ saved' = <<>> /\ m_batch_success' = TRUE
  /\ UNCHANGED <<m_invalid_blocks, m_points, phase, alt_chain, disconnected_chain,
                 split_height, discard, before>>

\* What add_new_block has established when it looks at the parent of the block.
Arrives(b, extra) ==
  Idle /\ batch = "blocks" /\ ~have_block(b) /\ extra \in {{}, ToSet(TxsOf[b])}

handle_block_to_main_chain(b, extra) ==
  /\ Arrives(b, extra) /\ Parent(b) = Tip
  /\ IF Connects(b, extra) THEN Connect(b) ELSE Refuse(b, extra)
  /\ UNCHANGED <<alt_blocks, m_points, batch, saved, switch>>

StoreAlternative(b) ==
  alt_blocks' = [alt_blocks EXCEPT ![b] = AltDifficulty(b)]

\* handle_alternative_block without a switch.
store_alternative(b, extra) ==
  /\ Arrives(b, extra) /\ Parent(b) # Tip /\ AltAccepted(b) /\ ~MustSwitch(b)
  /\ AddToPool(Supplement(extra)) /\ StoreAlternative(b)
  /\ UNCHANGED <<blocks, cumulative_difficulty, partial, m_invalid_blocks, m_points,
                 transaction, switch>>

-----------------------------------------------------------------------------
(* switch_to_alternative_blockchain *)

\* Down to the common block; the popped transactions enter the pool.
start_switch(b, extra) ==
  LET chain == Append(AltBranch(b), b)
      split == Height(chain[1])
  IN /\ Arrives(b, extra) /\ Parent(b) # Tip /\ AltAccepted(b) /\ MustSwitch(b)
     /\ StoreAlternative(b)
     /\ PoppedTo(split, Supplement(extra) \cup TxsAbove(split))
     /\ alt_chain' = chain /\ split_height' = split
     /\ disconnected_chain' = SubSeq(blocks, split + 1, DbHeight)
     /\ discard' = IsCheckpoint(Height(b))
     /\ before' = blocks /\ phase' = "connect"
     /\ UNCHANGED <<m_invalid_blocks, m_points, transaction, trouble>>

\* Fault: the blocks after the one that failed stay among the alternatives.
ToRemove_First(k) == <<alt_chain[k]>>

\* After a failure: the block that failed and those after it.
ToRemove(k) == SubSeq(alt_chain, k, Len(alt_chain))

connect_alternative ==
  LET k == DbHeight - split_height + 1
      b == alt_chain[k]
  IN /\ phase = "connect"
     /\ IF Connects(b, {})
        THEN /\ Connect(b)
             /\ phase' = IF k = Len(alt_chain) THEN "push" ELSE "connect"
             /\ UNCHANGED alt_chain
        ELSE /\ Refuse(b, {})
             /\ phase' = "rollback" /\ alt_chain' = ToRemove(k)
     /\ UNCHANGED <<alt_blocks, m_points, batch, saved, disconnected_chain, split_height,
                    discard, before, trouble>>

\* rollback_blockchain_switching: what was connected is popped...
rollback_blockchain_switching ==
  /\ phase = "rollback"
  /\ PoppedTo(split_height, TxsAbove(split_height))
  /\ phase' = "restore"
  /\ UNCHANGED <<alt_blocks, m_invalid_blocks, m_points, transaction, alt_chain,
                 disconnected_chain, split_height, discard, before, trouble>>

\* ... and the original chain added again, which is not supposed to fail.
restore_original ==
  LET k == DbHeight - split_height + 1
      b == disconnected_chain[k]
  IN /\ phase = "restore" /\ k <= Len(disconnected_chain)
     /\ IF Connects(b, {}) THEN Connect(b) /\ UNCHANGED <<phase, trouble>>
        ELSE Refuse(b, {}) /\ phase' = "drop" /\ trouble' = "panic"
     /\ UNCHANGED <<alt_blocks, m_points, batch, saved, alt_chain, disconnected_chain,
                    split_height, discard, before>>

\* The old chain becomes an alternative: handle_alternative_block for each block.
push_disconnected ==
  LET b == disconnected_chain[1]
  IN /\ phase = "push" /\ ~discard /\ disconnected_chain # <<>>
     /\ IF AltAccepted(b) THEN StoreAlternative(b) ELSE UNCHANGED alt_blocks
     /\ trouble' = IF AltAccepted(b) /\ MustSwitch(b) THEN "nested" ELSE trouble
     /\ disconnected_chain' = Tail(disconnected_chain)
     /\ UNCHANGED <<blocks, cumulative_difficulty, pool, kept, partial, m_invalid_blocks,
                    m_points, transaction, phase, alt_chain, split_height, discard, before>>

\* Fault: the blocks of the branch remain alternative blocks.
WithoutBranch_Not == alt_blocks

\* remove_alt_block for the branch, or for what failed of it.
WithoutBranch == [b \in Blocks |-> IF b \in ToSet(alt_chain) THEN 0 ELSE alt_blocks[b]]

NoSwitch ==
  /\ phase' = "idle" /\ alt_chain' = <<>> /\ disconnected_chain' = <<>>
  /\ split_height' = 0 /\ discard' = FALSE /\ before' = <<>>

end_switch ==
  /\ \/ phase = "push" /\ (discard \/ disconnected_chain = <<>>)
     \/ phase = "restore" /\ DbHeight = split_height + Len(disconnected_chain)
     \/ phase = "drop"
  /\ alt_blocks' = WithoutBranch /\ NoSwitch
  /\ UNCHANGED <<blocks, cumulative_difficulty, pool, kept, partial, m_invalid_blocks,
                 m_points, transaction, trouble>>

SwitchStep == \/ connect_alternative \/ rollback_blockchain_switching \/ restore_original
              \/ push_disconnected \/ end_switch

-----------------------------------------------------------------------------
(* New checkpoints, and the end of the process *)

\* Fault: the block that fails the checkpoint stays.
RollbackHeight_Above(height) == height + 1

RollbackHeight(height) == (height - 2) % HeightLimit

\* check_against_checkpoints with enforce.  Points are visited in ascending order
\* and compared with the height that the chain had at first: once it is rolled
\* back, looking up a later one throws, as does popping the genesis block.  The
\* exception leaves the batch open.
update_checkpoints(pts) ==
  LET points == m_points \cup pts
      failing == {p \in points : p.height < DbHeight /\ blocks[p.height + 1] # p.id}
      effective == {p.height : p \in {q \in failing : RollbackHeight(q.height) <= DbHeight}}
      first == Min(effective)
      target == RollbackHeight(first)
      throws == target = 0 \/ \E p \in points : first < p.height /\ p.height < DbHeight
      height == IF target = 0 THEN 1 ELSE target
  IN /\ batch = "none" /\ ~(pts \subseteq m_points)
     /\ m_points' = points
     /\ IF effective = {} THEN UNCHANGED <<db, batch, saved>>
        ELSE /\ PoppedTo(height, TxsAbove(height))
             /\ batch' = IF throws THEN "left" ELSE "none"
             /\ saved' = IF throws THEN db ELSE <<>>
     /\ UNCHANGED <<alt_blocks, m_invalid_blocks, m_batch_success, switch>>

\* The process stops at any point and is started again: an open batch is lost,
\* and what is not in the database with it.
restart(keep_alt_blocks) ==
  /\ "restart" \in Events
  /\ LET stored == IF saved = <<>> THEN db ELSE saved
     IN /\ blocks' = stored[1] /\ cumulative_difficulty' = stored[2]
        /\ alt_blocks' = IF keep_alt_blocks THEN stored[3] ELSE [b \in Blocks |-> 0]
        /\ pool' = stored[4] /\ kept' = stored[5] /\ partial' = stored[6]
  /\ batch' = "none" /\ saved' = <<>> /\ m_batch_success' = TRUE
  /\ m_invalid_blocks' = {} /\ m_points' = {}
  /\ NoSwitch /\ trouble' = "none"

-----------------------------------------------------------------------------
Init ==
  /\ blocks = <<Genesis>> /\ cumulative_difficulty = <<Difficulty[Genesis]>>
  /\ alt_blocks = [b \in Blocks |-> 0]
  /\ pool = {} /\ kept = {} /\ partial = {} /\ m_invalid_blocks = {} /\ m_points = {}
  /\ batch = "none" /\ saved = <<>> /\ m_batch_success = TRUE
  /\ phase = "idle" /\ alt_chain = <<>> /\ disconnected_chain = <<>>
  /\ split_height = 0 /\ discard = FALSE /\ before = <<>> /\ trouble = "none"

add_new_block(b) ==
  \E extra \in {{}, ToSet(TxsOf[b])} :
    \/ handle_block_to_main_chain(b, extra)
    \/ store_alternative(b, extra)
    \/ start_switch(b, extra)

Next ==
  \/ prepare_handle_incoming_blocks
  \/ cleanup_handle_incoming_blocks
  \/ \E b \in Blocks \ {Genesis} : add_new_block(b)
  \/ SwitchStep
  \/ \E t \in Txs : pool_add(t) \/ pool_remove(t)
  \/ \E nblocks \in 1..DbHeight, keep_txs \in BOOLEAN : pop_blocks(nblocks, keep_txs)
  \/ flush_invalid_blocks
  \/ \E pts \in SUBSET Points : update_checkpoints(pts)
  \/ \E keep_alt_blocks \in BOOLEAN : restart(keep_alt_blocks)

Spec == Init /\ [][Next]_vars

\* Blocks are offered again, with their transactions, until the node has them
\* (requests are repeated to other peers), and a call that has begun ends.
FairSpec ==
  /\ Spec /\ WF_vars(prepare_handle_incoming_blocks) /\ WF_vars(SwitchStep)
  /\ \A b \in Blocks \ {Genesis} :
       LET all == ToSet(TxsOf[b])
       IN SF_vars(\/ handle_block_to_main_chain(b, all)
                  \/ store_alternative(b, all) \/ start_switch(b, all))

-----------------------------------------------------------------------------
(* Properties *)

\* Every variable has a value of its type, and only transactions in the pool
\* are marked as kept_by_block.
TypeOK ==
  /\ blocks \in Seq(Blocks) /\ blocks # <<>>
  /\ cumulative_difficulty \in Seq(Nat) /\ Len(cumulative_difficulty) = DbHeight
  /\ alt_blocks \in [Blocks -> Nat]
  /\ pool \subseteq Txs /\ kept \subseteq pool /\ partial \subseteq Txs
  /\ m_invalid_blocks \subseteq Blocks /\ m_points \subseteq Points
  /\ batch \in {"none", "blocks", "left"} /\ m_batch_success \in BOOLEAN
  /\ saved = <<>> <=> batch = "none"
  /\ phase \in {"idle", "connect", "rollback", "restore", "push", "drop"}
  /\ alt_chain \in Seq(Blocks) /\ disconnected_chain \in Seq(Blocks)
  /\ split_height \in Nat /\ discard \in BOOLEAN /\ before \in Seq(Blocks)
  /\ trouble \in {"none", "panic", "nested"}

\* A block is on the main chain or an alternative, not both, once a switch is
\* over: its bookkeeping in switch_to_alternative_blockchain is complete.
AltApart ==
  Idle => \A b \in Blocks : ~(InMain(b) /\ InAlt(b))

\* At every moment, also in the middle of a switch, the main chain is an unbroken
\* line of valid blocks (handle_block_to_main_chain), no transaction is in it
\* twice or in the pool as well, and the recorded cumulative difficulties, of
\* alternative blocks too, are the work of their ancestry
\* (handle_alternative_block adds to what the parent has), whatever was switched,
\* popped and extended again.
ChainSound ==
  /\ blocks = Line[Tip]
  /\ \A i \in 1..DbHeight : /\ Flaw[blocks[i]] = "none"
                            /\ cumulative_difficulty[i] = Work[blocks[i]]
  /\ \A i, j \in 1..DbHeight :
       i # j => ToSet(TxsOf[blocks[i]]) \cap ToSet(TxsOf[blocks[j]]) = {}
  /\ pool \cap TxsIn(blocks) = {}
  /\ \A b \in Blocks : InAlt(b) => alt_blocks[b] = Work[b]
  /\ AltApart

\* No alternative block has more work than the main chain: the comparison that
\* handle_alternative_block makes when a block arrives need not be made again
\* later, whatever switches fail in between.  (For a node whose blocks are not
\* popped and that has no checkpoints, and not in a batch that will be aborted.)
MostWork ==
  Idle /\ m_batch_success => \A b \in Blocks : InAlt(b) => Work[b] <= Work[Tip]

\* If the old chain cannot be put back after a failed switch ("PANIC! failed to
\* add (again) block"), the batch will be aborted and bring it back; and pushing
\* the old chain among the alternatives never starts another switch.
NoPanic == /\ trouble = "panic" => ~m_batch_success
           /\ trouble # "nested"

\* Nothing of a block that BlockchainDB::add_block gave up half-way, or of a
\* switch that could not be undone, is ever committed.
CommittedWhole == NoPanic /\ (batch = "none" => partial = {})

\* Outside of a switch no block of the main chain contradicts a checkpoint in
\* force, in whichever order blocks and checkpoints come (check_block,
\* is_alternative_block_allowed, check_against_checkpoints).
CheckpointsHold ==
  Idle => \A p \in m_points : p.height < DbHeight => blocks[p.height + 1] = p.id

\* Transactions of the chain as it was before a switch, whether it succeeded or
\* failed, are in the new one or in the pool: popped ones are added to the pool,
\* taken ones returned to it, and making room never costs one of them.
NoTxLost ==
  [][(end_switch => TxsIn(before) \subseteq TxsIn(blocks') \cup pool')]_vars

\* Every block whose ancestry is valid has at some time no more work than the
\* main chain, again and again: the node cannot get stuck on a lighter chain,
\* however blocks, missing transactions and failed switches are ordered.  (For a
\* node whose pool has only the transactions that came with blocks: one that was
\* there before is not marked as kept_by_block and may be evicted again.)
Adopts ==
  \A b \in Blocks :
    (\A i \in 1..Len(Line[b]) : Flaw[Line[b][i]] = "none")
      => []<>(Idle /\ Work[b] <= Work[Tip])

\* A step of the fork choice: the main chain as others see it is the old one
\* until a switch is over, and the committed one as soon as its batch will be
\* aborted.
Main == IF ~m_batch_success THEN saved[1] ELSE IF Idle THEN blocks ELSE before
Choice == INSTANCE ForkChoice WITH
  main <- Main, durable <- IF saved = <<>> THEN Main ELSE saved[1]

\* Chain switches are all or nothing, lead to valid chains with more work only,
\* and what is lost when the process stops or a batch is aborted is what was not
\* committed: the blockchain without pops and checkpoints implements ForkChoice.
ImplementsForkChoice == Choice!Spec

\* "If any step in the reorganization process fails, the blockchain is reverted
\* to its previous state" (blockchain.h, switch_to_alternative_blockchain).
Reverts == trouble # "panic"

\* "if the checkpoint is for a block we don't have yet, move on": the loop of
\* check_against_checkpoints ends, and with it the batch that it opened.
BatchEnds == batch # "left"
=============================================================================
