---------------------------- MODULE TxPoolProofs ----------------------------
(***************************************************************************)
(* Proofs about the transaction pool, for any set of transactions, key     *)
(* images, dependencies, weights, fees and fork height.                    *)
(***************************************************************************)
EXTENDS MCNode, BlockSyncProofs, MinMaxLemmas, TLAPS

-----------------------------------------------------------------------------
(* Type correctness *)

\* The part of the type invariant about the table, the memory and the template.
PoolTypeOK ==
  /\ txpool \subseteq Txs /\ relay \in [Txs -> Methods] /\ double_spend_seen \subseteq Txs
  /\ last_failed_id \in [Txs -> Metas]
  /\ m_spent_key_images \in [KeyImages -> SUBSET Txs]
  /\ m_txpool_weight \in Nat /\ m_txs_by_fee \subseteq Txs
  /\ m_added_txs_by_id \in [Txs -> {"absent", "sensitive", "public"}]
  /\ internal_error \in BOOLEAN
  /\ btc \in [seen : SUBSET Txs, txs : SUBSET Txs] \cup {NoTemplate}
  /\ pruning \in BOOLEAN

\* The rest of it.
ControlTypeOK ==
  /\ chain \in Seq(SUBSET Txs)
  /\ m_timed_out_transactions \subseteq Txs
  /\ m_input_cache \in [Txs -> {"none", "ok", "bad"}]
  /\ lock \in {"idle", "block", "return", "pop", "validate", "remove", "init"}
  /\ todo \subseteq Txs /\ block_txs \subseteq Txs
  /\ in_tx \in Txs \cup {NoTx} /\ in_relay \in Methods
  /\ in_version \in Versions \cup {NoVersion}

\* The type invariant is that of the pool and that of the control state.
LEMMA TypeSplit == TypeOK <=> PoolTypeOK /\ ControlTypeOK
  BY DEF TypeOK, PoolTypeOK, ControlTypeOK

\* The sensitivity recorded for an added transaction.
LEMMA SensitivityType ==
  ASSUME NEW m PROVE Sensitivity(m) \in {"absent", "sensitive", "public"}
  BY DEF Sensitivity

\* The upgrade of a relay method is a relay method.
LEMMA UpgradeType ==
  ASSUME NEW old \in Methods, NEW m \in Methods
  PROVE  upgrade_relay_method(old, m) \in Methods
  BY DEF upgrade_relay_method

\* The weight counter stays a natural number.
LEMMA WeightsType ==
  ASSUME PoolTypeOK, NEW t \in Txs
  PROVE  Grown(t) \in Nat /\ Reduced(t) \in Nat /\ Reduced(t) + Weight[t] \in Nat
<1>1. Weight[t] \in Nat
  BY TxAssumption
<1> QED
  BY <1>1 DEF PoolTypeOK, Grown, Reduced

\* Adding and removing key images keeps the index a function.
LEMMA IndexType ==
  ASSUME PoolTypeOK, NEW t \in Txs
  PROVE  /\ Indexed(t) \in [KeyImages -> SUBSET Txs]
         /\ Unindexed(t) \in [KeyImages -> SUBSET Txs]
  BY DEF PoolTypeOK, Indexed, Unindexed

\* add_tx leaves the pool well typed.
LEMMA StoreType ==
  ASSUME PoolTypeOK, NEW t \in Txs, NEW m \in Methods, NEW r \in Methods, NEW seen,
         Store(t, m, r, seen)
  PROVE  PoolTypeOK'
<1>1. CASE CanInsert(t, m)
  <2>1. /\ txpool' \subseteq Txs /\ double_spend_seen' \subseteq Txs
        /\ m_txs_by_fee' \subseteq Txs
    BY <1>1 DEF Store, PoolTypeOK
  <2>2. relay' \in [Txs -> Methods]
    BY <1>1 DEF Store, PoolTypeOK
  <2>3. last_failed_id' \in [Txs -> Metas]
    BY <1>1 DEF Store, PoolTypeOK, Metas
  <2>4. m_spent_key_images' \in [KeyImages -> SUBSET Txs] /\ m_txpool_weight' \in Nat
    BY <1>1, IndexType, WeightsType DEF Store
  <2>5. m_added_txs_by_id' \in [Txs -> {"absent", "sensitive", "public"}]
    BY <1>1, SensitivityType DEF Store, PoolTypeOK
  <2>6. /\ internal_error' \in BOOLEAN /\ pruning' \in BOOLEAN
        /\ btc' \in [seen : SUBSET Txs, txs : SUBSET Txs] \cup {NoTemplate}
    BY <1>1 DEF Store, PoolTypeOK, IncrementCookie
  <2> QED
    BY <2>1, <2>2, <2>3, <2>4, <2>5, <2>6 DEF PoolTypeOK
<1>2. CASE ~CanInsert(t, m)
  BY <1>2 DEF Store, PoolTypeOK
<1> QED
  BY <1>1, <1>2

\* A removal leaves the pool well typed.
LEMMA DropType ==
  ASSUME PoolTypeOK, NEW t \in Txs, Drop(t),
         double_spend_seen' \subseteq Txs, pruning' \in BOOLEAN
  PROVE  PoolTypeOK'
<1>1. /\ txpool' \subseteq Txs /\ m_txs_by_fee' \subseteq Txs
  BY DEF Drop, PoolTypeOK, Unsorted
<1>2. relay' \in [Txs -> Methods]
  BY DEF Drop, PoolTypeOK, Methods
<1>3. last_failed_id' \in [Txs -> Metas]
  BY DEF Drop, PoolTypeOK, Metas
<1>4. m_spent_key_images' \in [KeyImages -> SUBSET Txs] /\ m_txpool_weight' \in Nat
  BY IndexType, WeightsType DEF Drop
<1>5. m_added_txs_by_id' \in [Txs -> {"absent", "sensitive", "public"}]
  BY DEF Drop, PoolTypeOK
<1>6. /\ internal_error' \in BOOLEAN
      /\ btc' \in [seen : SUBSET Txs, txs : SUBSET Txs] \cup {NoTemplate}
  BY DEF Drop, PoolTypeOK, IncrementCookie
<1> QED
  BY <1>1, <1>2, <1>3, <1>4, <1>5, <1>6 DEF PoolTypeOK

\* A step that leaves the pool leaves its type.
LEMMA UnchangedPoolType ==
  ASSUME PoolTypeOK, UNCHANGED <<table, memory, btc>>, pruning' \in BOOLEAN
  PROVE  PoolTypeOK'
  BY DEF PoolTypeOK, table, memory

\* Adding a transaction of a block keeps the type of the pool.
LEMMA KeptType ==
  ASSUME PoolTypeOK, NEW t \in Txs, add_tx_kept(t)
  PROVE  PoolTypeOK'
<1>1. "block" \in Methods
  BY DEF Methods
<1>2. ASSUME Rejected PROVE PoolTypeOK'
  BY <1>2 DEF Rejected, PoolTypeOK, table, memory
<1> QED
  BY <1>1, <1>2, StoreType DEF add_tx_kept

\* Filling the input cache keeps its type.
LEMMA CacheType ==
  ASSUME ControlTypeOK, NEW S
  PROVE  /\ CacheInputs(S) \in [Txs -> {"none", "ok", "bad"}]
         /\ EmptyCache \in [Txs -> {"none", "ok", "bad"}]
  BY DEF ControlTypeOK, CacheInputs, EmptyCache

\* The version of a chain is a version.
LEMMA VersionType ==
  ASSUME NEW h PROVE VersionAt(h) \in Versions
  BY DEF VersionAt, Versions

\* Every step preserves the type invariant.
LEMMA TypeStep ==
  ASSUME TypeOK, [Next]_vars
  PROVE  TypeOK'
<1>pool. PoolTypeOK
  BY TypeSplit
<1>ctl. ControlTypeOK
  BY TypeSplit
<1> SUFFICES PoolTypeOK' /\ ControlTypeOK'
  BY DEF TypeOK, PoolTypeOK, ControlTypeOK
<1>0. CASE UNCHANGED vars
  <2>1. PoolTypeOK'
    BY <1>0, <1>pool DEF vars, table, memory, PoolTypeOK
  <2>2. ControlTypeOK'
    BY <1>0, <1>ctl DEF vars, incoming, ControlTypeOK
  <2> QED
    BY <2>1, <2>2
<1>same. ASSUME UNCHANGED <<table, memory, btc, pruning>> PROVE PoolTypeOK'
  BY <1>same, <1>pool, UnchangedPoolType DEF PoolTypeOK
<1>take. ASSUME NEW t \in Txs, take_tx(t), UNCHANGED pruning PROVE PoolTypeOK'
  <2>1. double_spend_seen' \subseteq Txs /\ pruning' \in BOOLEAN /\ Drop(t)
    BY <1>take, <1>pool DEF take_tx, PoolTypeOK
  <2> QED
    BY <2>1, <1>pool, DropType
<1>1. ASSUME NEW t \in Txs, NEW m \in NetRelays, add_new_tx(t, m) PROVE PoolTypeOK' /\ ControlTypeOK'
  <2>1. m \in Methods
    BY <1>1, PoolAssumption DEF Unkept
  <2>2. ControlTypeOK'
    BY <1>1, <2>1, <1>ctl DEF add_new_tx, ControlTypeOK, incoming
  <2> QED
    BY <1>1, <2>2, <1>same DEF add_new_tx
<1>2. ASSUME add_new_tx_lookup PROVE PoolTypeOK' /\ ControlTypeOK'
  <2>1. "none" \in Methods /\ CurrentVersion \in Versions
    BY VersionType DEF CurrentVersion, Methods
  <2>2. ControlTypeOK'
    BY <1>2, <2>1, <1>ctl DEF add_new_tx_lookup, ControlTypeOK, incoming
  <2> QED
    BY <1>2, <2>2, <1>same DEF add_new_tx_lookup
<1>3. ASSUME add_tx PROVE PoolTypeOK' /\ ControlTypeOK'
  <2>1. in_tx \in Txs /\ in_relay \in Methods
    BY <1>3, <1>ctl DEF add_tx, ControlTypeOK, incoming
  <2> DEFINE m == Dandelion(in_tx, in_relay)
             r == IF in_tx \in txpool THEN upgrade_relay_method(relay[in_tx], m) ELSE m
  <2>2. m \in Methods
    BY <2>1 DEF Dandelion, Methods
  <2>3. r \in Methods
    BY <2>1, <2>2, <1>pool, UpgradeType DEF PoolTypeOK
  <2>4. m_input_cache' \in [Txs -> {"none", "ok", "bad"}]
    <3>1. m_input_cache' = m_input_cache \/ m_input_cache' = CacheInputs({in_tx})
      BY <1>3 DEF add_tx
    <3> QED
      BY <3>1, <1>ctl, CacheType DEF ControlTypeOK
  <2>5. "none" \in Methods
    BY DEF Methods
  <2>6. ControlTypeOK'
    BY <1>3, <2>4, <2>5, <1>ctl DEF add_tx, ControlTypeOK, incoming
  <2>7. PoolTypeOK'
    <3>1. CASE Rejected
      BY <3>1, <1>same DEF Rejected
    <3>2. ASSUME mark_double_spend(in_tx),
                 btc' = IF double_spend_seen' = double_spend_seen THEN btc ELSE NoTemplate,
                 UNCHANGED <<txpool, relay, last_failed_id, memory, pruning, m_input_cache>>
          PROVE  PoolTypeOK'
      BY <3>2, <1>pool DEF PoolTypeOK, memory, mark_double_spend
    <3>3. ASSUME IncrementCookie, pruning' = TRUE, UNCHANGED <<table, memory>>
          PROVE  PoolTypeOK'
      BY <3>3, <1>pool DEF PoolTypeOK, table, memory, IncrementCookie
    <3>4. ASSUME Store(in_tx, m, r, FALSE) PROVE PoolTypeOK'
      <4> HIDE DEF m, r
      <4> QED
        BY <3>4, <2>1, <2>2, <2>3, <1>pool, StoreType
    <3> QED
      BY <1>3, <3>1, <3>2, <3>3, <3>4 DEF add_tx
  <2> QED
    BY <2>6, <2>7
<1>4. ASSUME NEW t \in Txs, add_alternative_block_tx(t) PROVE PoolTypeOK' /\ ControlTypeOK'
  <2>1. ControlTypeOK'
    BY <1>4, <1>ctl DEF add_alternative_block_tx, ControlTypeOK, incoming
  <2> QED
    BY <1>4, <2>1, <1>pool, KeptType DEF add_alternative_block_tx
<1>5. ASSUME prune PROVE PoolTypeOK' /\ ControlTypeOK'
  <2>1. ControlTypeOK'
    BY <1>5, <1>ctl DEF prune, ControlTypeOK, incoming
  <2>2. ASSUME pruning' = FALSE, UNCHANGED <<table, memory, btc>> PROVE PoolTypeOK'
    BY <2>2, <1>pool, UnchangedPoolType
  <2>3. txpool \subseteq Txs
    BY <1>pool DEF PoolTypeOK
  <2> QED
    BY <1>5, <2>1, <2>2, <2>3, <1>take DEF prune
<1>6. ASSUME begin_block PROVE PoolTypeOK' /\ ControlTypeOK'
  <2>1. ControlTypeOK'
    BY <1>6, <1>ctl DEF begin_block, ControlTypeOK, incoming
  <2> QED
    BY <1>6, <2>1, <1>same DEF begin_block
<1>7. ASSUME NEW t \in Txs, block_tx(t) PROVE PoolTypeOK' /\ ControlTypeOK'
  <2>1. ControlTypeOK'
    BY <1>7, <1>ctl DEF block_tx, ControlTypeOK, incoming
  <2> QED
    BY <1>7, <2>1, <1>same, <1>take DEF block_tx
<1>8. ASSUME fail_block PROVE PoolTypeOK' /\ ControlTypeOK'
  <2>1. ControlTypeOK'
    BY <1>8, <1>ctl DEF fail_block, ControlTypeOK, incoming
  <2> QED
    BY <1>8, <2>1, <1>same DEF fail_block
<1>9. ASSUME commit_block PROVE PoolTypeOK' /\ ControlTypeOK'
  <2>1. chain' \in Seq(SUBSET Txs)
    BY <1>9, <1>ctl DEF commit_block, ControlTypeOK
  <2>2. ControlTypeOK'
    BY <1>9, <2>1, <1>ctl, <1>pool, CacheType
    DEF commit_block, ControlTypeOK, PoolTypeOK, AfterBlock, ValidateIfChanged, incoming
  <2>3. PoolTypeOK'
    BY <1>9, <1>pool DEF commit_block, PoolTypeOK, ValidateIfChanged, table
  <2> QED
    BY <2>2, <2>3
<1>10. ASSUME undo_block PROVE PoolTypeOK' /\ ControlTypeOK'
  <2>1. ControlTypeOK'
    BY <1>10, <1>ctl DEF undo_block, ControlTypeOK, incoming
  <2> QED
    BY <1>10, <2>1, <1>same DEF undo_block
<1>11. ASSUME NEW t \in Txs, return_tx(t) PROVE PoolTypeOK' /\ ControlTypeOK'
  <2>1. ControlTypeOK'
    BY <1>11, <1>ctl DEF return_tx, ControlTypeOK, incoming
  <2> QED
    BY <1>11, <2>1, <1>pool, KeptType DEF return_tx
<1>12. ASSUME NEW keep \in BOOLEAN, pop_block(keep) PROVE PoolTypeOK' /\ ControlTypeOK'
  <2>1. chain \in Seq(SUBSET Txs) /\ chain # <<>>
    BY <1>12, <1>ctl DEF pop_block, ControlTypeOK
  <2>2. Front(chain) \in Seq(SUBSET Txs) /\ Last(chain) \subseteq Txs
    BY <2>1 DEF Front, Last
  <2>3. ControlTypeOK'
    BY <1>12, <2>2, <1>ctl DEF pop_block, ControlTypeOK, incoming
  <2> QED
    BY <1>12, <2>3, <1>same DEF pop_block
<1>13. ASSUME pop_done PROVE PoolTypeOK' /\ ControlTypeOK'
  <2>1. ControlTypeOK'
    BY <1>13, <1>ctl, <1>pool, CacheType
    DEF pop_done, ControlTypeOK, PoolTypeOK, AfterBlock, ValidateIfChanged, incoming
  <2>2. PoolTypeOK'
    BY <1>13, <1>pool DEF pop_done, PoolTypeOK, ValidateIfChanged, table
  <2> QED
    BY <2>1, <2>2
<1>14. ASSUME NEW t \in Txs, NEW fee_good \in BOOLEAN, validate_tx(t, fee_good) PROVE PoolTypeOK' /\ ControlTypeOK'
  <2>1. m_input_cache' = m_input_cache \/ m_input_cache' = CacheInputs({t})
    BY <1>14 DEF validate_tx
  <2>2. ControlTypeOK'
    BY <1>14, <2>1, <1>ctl, CacheType DEF validate_tx, ControlTypeOK, incoming
  <2>3. PoolTypeOK'
    <3>1. CASE Rejected
      BY <3>1, <1>same DEF Rejected
    <3>2. ASSUME m_added_txs_by_id' = [m_added_txs_by_id EXCEPT ![t] = Sensitivity(relay[t])],
                 m_txpool_weight' = Reduced(t) + Weight[t], IncrementCookie, pruning' = TRUE,
                 UNCHANGED <<table, m_spent_key_images, m_txs_by_fee, internal_error>>
          PROVE  PoolTypeOK'
      <4>1. m_added_txs_by_id' \in [Txs -> {"absent", "sensitive", "public"}]
        BY <3>2, <1>pool, SensitivityType DEF PoolTypeOK
      <4>2. m_txpool_weight' \in Nat
        BY <3>2, <1>pool, WeightsType
      <4> QED
        BY <3>2, <4>1, <4>2, <1>pool DEF PoolTypeOK, table, IncrementCookie
    <3>3. ASSUME Drop(t), UNCHANGED pruning,
                 double_spend_seen' \subseteq double_spend_seen \cup txpool
          PROVE  PoolTypeOK'
      <4>1. double_spend_seen' \subseteq Txs /\ pruning' \in BOOLEAN
        BY <3>3, <1>pool DEF PoolTypeOK
      <4> QED
        BY <3>3, <4>1, <1>pool, DropType
    <3> QED
      BY <1>14, <3>1, <3>2, <3>3 DEF validate_tx
  <2> QED
    BY <2>2, <2>3
<1>15. ASSUME NEW S \in SUBSET Txs, NEW m \in RelayedAs, set_relayed(S, m) PROVE PoolTypeOK' /\ ControlTypeOK'
  <2>1. m \in Methods
    BY PoolAssumption DEF Unkept
  <2>2. relay' \in [Txs -> Methods]
    BY <1>15, <2>1, <1>pool, UpgradeType DEF set_relayed, PoolTypeOK
  <2>3. m_added_txs_by_id' \in [Txs -> {"absent", "sensitive", "public"}]
    BY <1>15, <1>pool DEF set_relayed, Announced, PoolTypeOK
  <2>4. PoolTypeOK'
    BY <1>15, <2>2, <2>3, <1>pool DEF set_relayed, PoolTypeOK
  <2>5. ControlTypeOK'
    BY <1>15, <1>ctl DEF set_relayed, ControlTypeOK, incoming
  <2> QED
    BY <2>4, <2>5
<1>16. ASSUME NEW S \in SUBSET Txs, remove_stuck_transactions(S) PROVE PoolTypeOK' /\ ControlTypeOK'
  <2>1. ControlTypeOK'
    BY <1>16, <1>ctl DEF remove_stuck_transactions, ControlTypeOK, incoming
  <2> QED
    BY <1>16, <2>1, <1>same DEF remove_stuck_transactions
<1>17. ASSUME NEW S \in SUBSET Txs, flush_txes_from_pool(S) PROVE PoolTypeOK' /\ ControlTypeOK'
  <2>1. ControlTypeOK'
    BY <1>17, <1>ctl DEF flush_txes_from_pool, ControlTypeOK, incoming
  <2> QED
    BY <1>17, <2>1, <1>same DEF flush_txes_from_pool
<1>18. ASSUME NEW t \in Txs, remove_tx(t) PROVE PoolTypeOK' /\ ControlTypeOK'
  <2>1. ControlTypeOK'
    BY <1>18, <1>ctl DEF remove_tx, ControlTypeOK, incoming
  <2> QED
    BY <1>18, <2>1, <1>take DEF remove_tx
<1>19. ASSUME unlock PROVE PoolTypeOK' /\ ControlTypeOK'
  <2>1. ControlTypeOK'
    BY <1>19, <1>ctl DEF unlock, ControlTypeOK, incoming
  <2> QED
    BY <1>19, <2>1, <1>same DEF unlock
<1>20. ASSUME NEW S \in SUBSET Txs, NEW U \in SUBSET Txs, fill_block_template(S, U)
      PROVE PoolTypeOK' /\ ControlTypeOK'
  <2>1. last_failed_id' \in [Txs -> Metas]
    BY <1>20, <1>pool, <1>ctl DEF fill_block_template, PoolTypeOK, ControlTypeOK, Metas
  <2>2. Minable \subseteq Txs
    BY <1>pool DEF Minable, PoolTypeOK
  <2>3. btc' \in [seen : SUBSET Txs, txs : SUBSET Txs]
    BY <1>20, <2>2 DEF fill_block_template
  <2>4. PoolTypeOK'
    BY <1>20, <2>1, <2>3, <1>pool DEF fill_block_template, PoolTypeOK, memory
  <2>5. ControlTypeOK'
    BY <1>20, <1>ctl, CacheType DEF fill_block_template, ControlTypeOK, incoming
  <2> QED
    BY <2>4, <2>5
<1>21. ASSUME restart PROVE PoolTypeOK' /\ ControlTypeOK'
  <2>1. ControlTypeOK'
    BY <1>21, <1>ctl, <1>pool, CacheType
    DEF restart, ControlTypeOK, PoolTypeOK, Methods
  <2>2. PoolTypeOK'
    BY <1>21, <1>pool DEF restart, PoolTypeOK, table
  <2> QED
    BY <2>1, <2>2
<1>22. ASSUME NEW t \in Txs, init_tx(t) PROVE PoolTypeOK' /\ ControlTypeOK'
  <2>1. ControlTypeOK'
    BY <1>22, <1>ctl DEF init_tx, ControlTypeOK, incoming
  <2>2. m_spent_key_images' \in [KeyImages -> SUBSET Txs]
    BY <1>22, <1>pool, IndexType DEF init_tx
  <2>3. m_txpool_weight' \in Nat
    BY <1>22, <1>pool, TxAssumption DEF init_tx, PoolTypeOK
  <2>4. m_added_txs_by_id' \in [Txs -> {"absent", "sensitive", "public"}]
    BY <1>22, <1>pool, SensitivityType DEF init_tx, PoolTypeOK
  <2>5. PoolTypeOK'
    BY <1>22, <2>2, <2>3, <2>4, <1>pool DEF init_tx, PoolTypeOK, table
  <2> QED
    BY <2>1, <2>5
<1> QED
  BY <1>0, <1>1, <1>2, <1>3, <1>4, <1>5, <1>6, <1>7, <1>8, <1>9, <1>10, <1>11, <1>12,
     <1>13, <1>14, <1>15, <1>16, <1>17, <1>18, <1>19, <1>20, <1>21, <1>22 DEF Next

\* The initial state is well typed.
LEMMA TypeInit == Init => TypeOK
<1> SUFFICES ASSUME Init PROVE PoolTypeOK /\ ControlTypeOK
  BY TypeSplit
<1>1. PoolTypeOK
  BY DEF Init, PoolTypeOK, Methods, Metas
<1>2. chain \in Seq(SUBSET Txs)
  BY DEF Init
<1>3. ControlTypeOK
  BY <1>2 DEF Init, ControlTypeOK, Methods, EmptyCache
<1> QED
  BY <1>1, <1>3

\* Whatever the network, the miner, the operator and restarts do, every
\* variable of the pool keeps its type; the weight never goes below zero.
THEOREM PoolTypeCorrect == Spec => []TypeOK
<1>1. Init => TypeOK
  BY TypeInit
<1>2. TypeOK /\ [Next]_vars => TypeOK'
  BY TypeStep
<1> QED
  BY <1>1, <1>2, PTL DEF Spec

-----------------------------------------------------------------------------
(* The inductive invariant *)

\* Where the transactions that the holder of the lock still has to deal with
\* are: between the pool and the chain while a block is added, returned or
\* popped, in the pool while they are removed or loaded.
WorkList ==
  /\ lock = "idle" => todo = {}
  /\ lock \in {"block", "return", "pop"} => todo \cap txpool = {} /\ todo \cap ChainTxs = {}
  /\ lock \in {"remove", "init"} => todo \subseteq txpool
  /\ lock \in {"block", "remove", "init"} => ~pruning

\* The transactions of the block being added are in neither place.
BlockApart ==
  /\ block_txs \cap txpool = {} /\ block_txs \cap ChainTxs = {}
  /\ lock # "block" => block_txs = {}

\* What was looked up under m_incoming_tx_lock stays so: no block is added
\* meanwhile.
IncomingApart ==
  /\ in_tx = NoTx => in_version = NoVersion
  /\ lock = "block" => in_tx = NoTx
  /\ in_version # NoVersion => in_tx \notin ChainTxs

\* No transaction is in two blocks.
ChainDisjoint ==
  \A i, j \in 1..Len(chain) : i # j => chain[i] \cap chain[j] = {}

\* init loads the transactions that are kept by block after all others.
LoadOrder ==
  lock = "init" =>
    \A t \in txpool \ todo, u \in todo : kept_by_block(t) => kept_by_block(u)

Control ==
  WorkList /\ BlockApart /\ IncomingApart /\ ChainDisjoint /\ PoolChainDisjoint

Indexes ==
  /\ KeyImageIndexExact /\ SortedExact /\ OneUnkeptPerKeyImage /\ NoInternalError
  /\ AddedListExact /\ LoadOrder

\* InputsOK on a given chain.
TxsOf(c) == UNION {c[i] : i \in 1..Len(c)}
InputsOKOn(t, c) ==
  /\ Needs[t] \subseteq TxsOf(c)
  /\ \A u \in TxsOf(c) : KI[u] \cap KI[t] = {}

\* Every remembered failure is a failure on the chain it names.
FailuresSound ==
  \A t \in txpool : last_failed_id[t] # NoBlock => ~InputsOKOn(t, last_failed_id[t])

PoolInv == TypeOK /\ Control /\ Indexes /\ InputCacheExact /\ FailuresSound

-----------------------------------------------------------------------------
(* The transactions of the chain *)

\* A step that leaves the chain leaves its transactions.
LEMMA ChainSame == ASSUME UNCHANGED chain PROVE ChainTxs' = ChainTxs
  BY DEF ChainTxs

\* A block added adds its transactions.
LEMMA ChainAppend ==
  ASSUME chain \in Seq(SUBSET Txs), NEW B \in SUBSET Txs, chain' = Append(chain, B)
  PROVE  /\ ChainTxs' = ChainTxs \cup B
         /\ ChainDisjoint /\ B \cap ChainTxs = {} => ChainDisjoint'
<1>1. /\ Len(chain) \in Nat /\ Len(chain') = Len(chain) + 1
      /\ \A i \in 1..Len(chain) : chain'[i] = chain[i]
      /\ chain'[Len(chain) + 1] = B
  OBVIOUS
<1>2. \A i \in 1..Len(chain') : i = Len(chain) + 1 \/ i \in 1..Len(chain)
  BY <1>1
<1>3. ChainTxs' = ChainTxs \cup B
  <2>1. ASSUME NEW x \in ChainTxs' PROVE x \in ChainTxs \cup B
    BY <1>1, <1>2 DEF ChainTxs
  <2>2. ASSUME NEW x \in ChainTxs PROVE x \in ChainTxs'
    <3>1. PICK i \in 1..Len(chain) : x \in chain[i]
      BY DEF ChainTxs
    <3>2. i \in 1..Len(chain') /\ x \in chain'[i]
      BY <1>1, <3>1
    <3> QED
      BY <3>2 DEF ChainTxs
  <2>3. ASSUME NEW x \in B PROVE x \in ChainTxs'
    <3>1. Len(chain) + 1 \in 1..Len(chain')
      BY <1>1
    <3> QED
      BY <1>1, <3>1 DEF ChainTxs
  <2> QED
    BY <2>1, <2>2, <2>3
<1>4. ASSUME ChainDisjoint, B \cap ChainTxs = {} PROVE ChainDisjoint'
  <2>1. \A i \in 1..Len(chain) : chain[i] \cap B = {}
    BY <1>4 DEF ChainTxs
  <2> QED
    BY <1>1, <1>2, <1>4, <2>1 DEF ChainDisjoint
<1> QED
  BY <1>3, <1>4

\* A block popped takes its transactions.
LEMMA ChainPop ==
  ASSUME chain \in Seq(SUBSET Txs), chain # <<>>, chain' = Front(chain), ChainDisjoint
  PROVE  /\ ChainTxs' \subseteq ChainTxs
         /\ Last(chain) \subseteq ChainTxs /\ Last(chain) \cap ChainTxs' = {}
         /\ ChainDisjoint'
<1>1. /\ Len(chain) \in Nat /\ Len(chain) > 0
      /\ Len(chain') = Len(chain) - 1
      /\ \A i \in 1..(Len(chain) - 1) : chain'[i] = chain[i]
      /\ Last(chain) = chain[Len(chain)]
  <2>1. Len(chain) \in Nat /\ Len(chain) > 0
    OBVIOUS
  <2>2. chain' = [i \in 1..(Len(chain) - 1) |-> chain[i]] /\ Len(chain) - 1 \in Nat
    BY <2>1 DEF Front
  <2> QED
    BY <2>1, <2>2 DEF Last
<1>2. \A i \in 1..Len(chain') : i \in 1..Len(chain) /\ i # Len(chain) /\ chain'[i] = chain[i]
  BY <1>1
<1>3. Len(chain) \in 1..Len(chain)
  BY <1>1
<1>4. ChainTxs' \subseteq ChainTxs /\ Last(chain) \subseteq ChainTxs
  BY <1>1, <1>2, <1>3, ZenonT(60) DEF ChainTxs
<1>5. ASSUME NEW x \in Last(chain), x \in ChainTxs' PROVE FALSE
  <2>1. PICK i \in 1..Len(chain') : x \in chain'[i]
    BY <1>5 DEF ChainTxs
  <2> QED
    BY <2>1, <1>1, <1>2, <1>3, <1>5 DEF ChainDisjoint
<1>6. ChainDisjoint'
  BY <1>2 DEF ChainDisjoint
<1> QED
  BY <1>4, <1>5, <1>6

-----------------------------------------------------------------------------
(* Control *)

\* What the changes to the pool do to its set of transactions.
LEMMA StorePool ==
  ASSUME NEW t, NEW m, NEW r, NEW seen, Store(t, m, r, seen)
  PROVE  txpool' \subseteq txpool \cup {t}
  BY DEF Store

\* Adding a transaction of a block adds at most that transaction.
LEMMA KeptPool ==
  ASSUME NEW t, add_tx_kept(t)
  PROVE  txpool' \subseteq txpool \cup {t}
  BY StorePool DEF add_tx_kept, Rejected, table

\* A transaction whose inputs are unspent is not in the chain.
LEMMA InputsApart ==
  ASSUME NEW t \in Txs, InputsOK(t)
  PROVE  t \notin ChainTxs
  BY SpendAssumption DEF InputsOK

\* The empty pool.
LEMMA ControlInit == Init => Control
<1> SUFFICES ASSUME Init PROVE Control
  OBVIOUS
<1>1. ChainTxs = {} /\ ChainDisjoint
  BY DEF Init, ChainTxs, ChainDisjoint
<1> QED
  BY <1>1 DEF Init, Control, WorkList, BlockApart, IncomingApart, PoolChainDisjoint

\* Control without the part about the chain alone.
Apart == WorkList /\ BlockApart /\ IncomingApart /\ PoolChainDisjoint

\* Every step keeps the pool, the chain and what is between them apart.
LEMMA ControlStep ==
  ASSUME TypeOK, Control, [Next]_vars
  PROVE  Control'
<1>t. /\ txpool \subseteq Txs /\ todo \subseteq Txs /\ block_txs \subseteq Txs
      /\ chain \in Seq(SUBSET Txs) /\ in_tx \in Txs \cup {NoTx}
  BY DEF TypeOK
<1>i. Apart /\ ChainDisjoint
  BY DEF Control, Apart
<1> SUFFICES Apart' /\ ChainDisjoint'
  BY DEF Control, Apart
<1>c. UNCHANGED chain => ChainTxs' = ChainTxs /\ ChainDisjoint'
  BY <1>i, ChainSame DEF ChainDisjoint
<1>take. \A t : take_tx(t) => txpool' = txpool \ {t}
  BY DEF take_tx, Drop
<1>0. CASE UNCHANGED vars
  <2>1. Apart'
    BY <1>0, <1>c, <1>i
    DEF vars, Apart, WorkList, BlockApart, IncomingApart, PoolChainDisjoint, table, incoming
  <2> QED
    BY <1>0, <2>1, <1>c DEF vars
<1>1. ASSUME NEW t \in Txs, NEW m \in NetRelays, add_new_tx(t, m) PROVE Apart' /\ ChainDisjoint'
  <2>1. Apart'
    BY <1>1, <1>c, <1>i, <1>t, PoolAssumption
    DEF add_new_tx, Free, Apart, WorkList, BlockApart, IncomingApart, PoolChainDisjoint, table, incoming
  <2> QED
    BY <1>1, <2>1, <1>c DEF add_new_tx
<1>2. ASSUME add_new_tx_lookup PROVE Apart' /\ ChainDisjoint'
  <2>1. Apart'
    BY <1>2, <1>c, <1>i, <1>t, PoolAssumption
    DEF add_new_tx_lookup, Free, Apart, WorkList, BlockApart, IncomingApart, PoolChainDisjoint, table, incoming
  <2> QED
    BY <1>2, <2>1, <1>c DEF add_new_tx_lookup
<1>3. ASSUME add_tx PROVE Apart' /\ ChainDisjoint'
  <2>1. txpool' \subseteq txpool \cup {in_tx} /\ lock = "idle" /\ in_version # NoVersion
    <3>1. ASSUME Rejected PROVE txpool' = txpool
      BY <3>1 DEF Rejected, table
    <3> QED
      BY <1>3, <3>1, StorePool DEF add_tx, Free, table
  <2>2. UNCHANGED <<chain, lock, todo, block_txs>> /\ in_tx' = NoTx /\ in_version' = NoVersion
    BY <1>3 DEF add_tx
  <2>3. Apart'
    BY <2>1, <2>2, <1>c, <1>i DEF Apart, WorkList, BlockApart, IncomingApart, PoolChainDisjoint
  <2> QED
    BY <2>2, <2>3, <1>c
<1>4. ASSUME NEW t \in Txs, add_alternative_block_tx(t) PROVE Apart' /\ ChainDisjoint'
  <2>1. txpool' \subseteq txpool \cup {t} /\ lock = "idle" /\ t \notin ChainTxs
    BY <1>4, KeptPool DEF add_alternative_block_tx, Free
  <2>2. UNCHANGED <<chain, lock, todo, block_txs, in_tx, in_version>>
    BY <1>4 DEF add_alternative_block_tx, incoming
  <2>3. Apart'
    BY <2>1, <2>2, <1>c, <1>i DEF Apart, WorkList, BlockApart, IncomingApart, PoolChainDisjoint
  <2> QED
    BY <2>2, <2>3, <1>c
<1>5. ASSUME prune PROVE Apart' /\ ChainDisjoint'
  <2>1. txpool' \subseteq txpool /\ pruning
    BY <1>5, <1>take DEF prune, table
  <2>2. UNCHANGED <<chain, lock, todo, block_txs, in_tx, in_version>>
    BY <1>5 DEF prune, incoming
  <2>3. Apart'
    BY <2>1, <2>2, <1>c, <1>i DEF Apart, WorkList, BlockApart, IncomingApart, PoolChainDisjoint
  <2> QED
    BY <2>2, <2>3, <1>c
<1>6. ASSUME begin_block PROVE Apart' /\ ChainDisjoint'
  <2>1. Apart'
    BY <1>6, <1>c, <1>i
    DEF begin_block, Free, Apart, WorkList, BlockApart, IncomingApart, PoolChainDisjoint, table, incoming
  <2> QED
    BY <1>6, <2>1, <1>c DEF begin_block
<1>7. ASSUME NEW t \in Txs, block_tx(t) PROVE Apart' /\ ChainDisjoint'
  <2>1. /\ lock = "block" /\ t \notin ChainTxs /\ UNCHANGED <<chain, pruning, in_tx, in_version>>
        /\ \/ lock' = "block" /\ block_txs' = block_txs \cup {t}
           \/ lock' = "return" /\ block_txs' = {}
    BY <1>7 DEF block_tx, incoming
  <2>2. /\ txpool' = txpool \ {t}
        /\ todo' \subseteq todo \cup {t}
    BY <1>7, <1>take DEF block_tx, table
  <2>3. Apart'
    BY <2>1, <2>2, <1>c, <1>i DEF Apart, WorkList, BlockApart, IncomingApart, PoolChainDisjoint
  <2> QED
    BY <2>1, <2>3, <1>c
<1>8. ASSUME fail_block PROVE Apart' /\ ChainDisjoint'
  <2>1. Apart'
    BY <1>8, <1>c, <1>i
    DEF fail_block, Apart, WorkList, BlockApart, IncomingApart, PoolChainDisjoint, table, incoming
  <2> QED
    BY <1>8, <2>1, <1>c DEF fail_block
<1>9. ASSUME commit_block PROVE Apart' /\ ChainDisjoint'
  <2>1. /\ ChainTxs' = ChainTxs \cup block_txs
        /\ ChainDisjoint /\ block_txs \cap ChainTxs = {} => ChainDisjoint'
    BY <1>9, <1>t, ChainAppend DEF commit_block
  <2>2. /\ lock = "block" /\ UNCHANGED <<txpool, pruning, in_tx, in_version>> /\ block_txs' = {}
        /\ (lock' = "idle" /\ todo' = {}) \/ lock' = "validate"
    BY <1>9 DEF commit_block, ValidateIfChanged, table, incoming
  <2>3. Apart' /\ ChainDisjoint'
    BY <2>1, <2>2, <1>i DEF Apart, WorkList, BlockApart, IncomingApart, PoolChainDisjoint
  <2> QED
    BY <2>3
<1>10. ASSUME undo_block PROVE Apart' /\ ChainDisjoint'
  <2>1. Apart'
    BY <1>10, <1>c, <1>i
    DEF undo_block, Apart, WorkList, BlockApart, IncomingApart, PoolChainDisjoint, table, incoming
  <2> QED
    BY <1>10, <2>1, <1>c DEF undo_block
<1>11. ASSUME NEW t \in Txs, return_tx(t) PROVE Apart' /\ ChainDisjoint'
  <2>1. /\ lock \in {"return", "pop"} /\ t \in todo /\ todo' = todo \ {t}
        /\ UNCHANGED <<chain, lock, block_txs, in_tx, in_version>>
    BY <1>11 DEF return_tx, incoming
  <2>2. txpool' \subseteq txpool \cup {t}
    BY <1>11, KeptPool DEF return_tx
  <2>3. Apart'
    BY <2>1, <2>2, <1>c, <1>i DEF Apart, WorkList, BlockApart, IncomingApart, PoolChainDisjoint
  <2> QED
    BY <2>1, <2>3, <1>c
<1>12. ASSUME NEW keep \in BOOLEAN, pop_block(keep) PROVE Apart' /\ ChainDisjoint'
  <2>1. /\ ChainTxs' \subseteq ChainTxs /\ ChainDisjoint'
        /\ Last(chain) \subseteq ChainTxs /\ Last(chain) \cap ChainTxs' = {}
    BY <1>12, <1>t, <1>i, ChainPop DEF pop_block
  <2>2. /\ lock = "idle" /\ lock' = "pop" /\ (todo' = {} \/ todo' = Last(chain))
        /\ UNCHANGED <<txpool, block_txs, in_tx, in_version>>
    BY <1>12 DEF pop_block, Free, table, incoming
  <2>3. Apart'
    BY <2>1, <2>2, <1>i DEF Apart, WorkList, BlockApart, IncomingApart, PoolChainDisjoint
  <2> QED
    BY <2>1, <2>3
<1>13. ASSUME pop_done PROVE Apart' /\ ChainDisjoint'
  <2>1. /\ lock = "pop" /\ UNCHANGED <<chain, txpool, block_txs, in_tx, in_version>>
        /\ (lock' = "idle" /\ todo' = {}) \/ lock' = "validate"
    BY <1>13 DEF pop_done, ValidateIfChanged, table, incoming
  <2>2. Apart'
    BY <2>1, <1>c, <1>i DEF Apart, WorkList, BlockApart, IncomingApart, PoolChainDisjoint
  <2> QED
    BY <2>1, <2>2, <1>c
<1>14. ASSUME NEW t \in Txs, NEW fee_good \in BOOLEAN, validate_tx(t, fee_good) PROVE Apart' /\ ChainDisjoint'
  <2>1. /\ lock = "validate" /\ UNCHANGED <<chain, lock, block_txs, in_tx, in_version>>
        /\ txpool' \subseteq txpool
    BY <1>14 DEF validate_tx, Rejected, Drop, table, incoming
  <2>2. Apart'
    BY <2>1, <1>c, <1>i DEF Apart, WorkList, BlockApart, IncomingApart, PoolChainDisjoint
  <2> QED
    BY <2>1, <2>2, <1>c
<1>15. ASSUME NEW S \in SUBSET Txs, NEW m \in RelayedAs, set_relayed(S, m) PROVE Apart' /\ ChainDisjoint'
  <2>1. Apart'
    BY <1>15, <1>c, <1>i
    DEF set_relayed, Apart, WorkList, BlockApart, IncomingApart, PoolChainDisjoint, table, incoming
  <2> QED
    BY <1>15, <2>1, <1>c DEF set_relayed
<1>16. ASSUME NEW S \in SUBSET Txs, remove_stuck_transactions(S) PROVE Apart' /\ ChainDisjoint'
  <2>1. Apart'
    BY <1>16, <1>c, <1>i
    DEF remove_stuck_transactions, Free, Apart, WorkList, BlockApart, IncomingApart, PoolChainDisjoint, table, incoming
  <2> QED
    BY <1>16, <2>1, <1>c DEF remove_stuck_transactions
<1>17. ASSUME NEW S \in SUBSET Txs, flush_txes_from_pool(S) PROVE Apart' /\ ChainDisjoint'
  <2>1. Apart'
    BY <1>17, <1>c, <1>i
    DEF flush_txes_from_pool, Free, Apart, WorkList, BlockApart, IncomingApart, PoolChainDisjoint, table, incoming
  <2> QED
    BY <1>17, <2>1, <1>c DEF flush_txes_from_pool
<1>18. ASSUME NEW t \in Txs, remove_tx(t) PROVE Apart' /\ ChainDisjoint'
  <2>1. /\ lock = "remove" /\ todo' = todo \ {t} /\ txpool' = txpool \ {t}
        /\ UNCHANGED <<chain, lock, pruning, block_txs, in_tx, in_version>>
    BY <1>18, <1>take DEF remove_tx, incoming
  <2>2. Apart'
    BY <2>1, <1>c, <1>i DEF Apart, WorkList, BlockApart, IncomingApart, PoolChainDisjoint
  <2> QED
    BY <2>1, <2>2, <1>c
<1>19. ASSUME unlock PROVE Apart' /\ ChainDisjoint'
  <2>1. Apart'
    BY <1>19, <1>c, <1>i
    DEF unlock, Apart, WorkList, BlockApart, IncomingApart, PoolChainDisjoint, table, incoming
  <2> QED
    BY <1>19, <2>1, <1>c DEF unlock
<1>20. ASSUME NEW S \in SUBSET Txs, NEW U \in SUBSET Txs, fill_block_template(S, U) PROVE Apart' /\ ChainDisjoint'
  <2>1. Apart'
    BY <1>20, <1>c, <1>i
    DEF fill_block_template, Apart, WorkList, BlockApart, IncomingApart, PoolChainDisjoint, table, incoming
  <2> QED
    BY <1>20, <2>1, <1>c DEF fill_block_template
<1>21. ASSUME restart PROVE Apart' /\ ChainDisjoint'
  <2>1. Apart'
    BY <1>21, <1>c, <1>i
    DEF restart, Free, Apart, WorkList, BlockApart, IncomingApart, PoolChainDisjoint, table, incoming
  <2> QED
    BY <1>21, <2>1, <1>c DEF restart
<1>22. ASSUME NEW t \in Txs, init_tx(t) PROVE Apart' /\ ChainDisjoint'
  <2>1. Apart'
    BY <1>22, <1>c, <1>i
    DEF init_tx, Apart, WorkList, BlockApart, IncomingApart, PoolChainDisjoint, table, incoming
  <2> QED
    BY <1>22, <2>1, <1>c DEF init_tx
<1> QED
  BY <1>0, <1>1, <1>2, <1>3, <1>4, <1>5, <1>6, <1>7, <1>8, <1>9, <1>10, <1>11, <1>12,
     <1>13, <1>14, <1>15, <1>16, <1>17, <1>18, <1>19, <1>20, <1>21, <1>22 DEF Next

-----------------------------------------------------------------------------
(* The indexes *)

\* An accepted add_tx keeps every index exact, provided that a transaction not
\* kept by block shares no key image with another one.
LEMMA StoreIndexes ==
  ASSUME PoolTypeOK, Indexes, lock # "init", lock' # "init",
         NEW t \in Txs, NEW m \in Methods, NEW r \in Methods, NEW seen,
         Store(t, m, r, seen), CanInsert(t, m),
         r # "block" => \A k \in KI[t] : m_spent_key_images[k] \subseteq {t},
         relay[t] = "block" /\ t \in txpool => r = "block"
  PROVE  Indexes'
<1>1. /\ txpool' = txpool \cup {t} /\ relay' = [relay EXCEPT ![t] = r]
      /\ m_spent_key_images' = Indexed(t) /\ m_txs_by_fee' = m_txs_by_fee \cup {t}
      /\ m_added_txs_by_id' = [m_added_txs_by_id EXCEPT ![t] = Sensitivity(r)]
      /\ internal_error' = internal_error
  BY DEF Store
<1>2. Loaded = txpool /\ Loaded' = txpool'
  BY DEF Loaded
<1>3. KI[t] \subseteq KeyImages
  BY TxAssumption
<1>4. /\ \A k \in KeyImages : m_spent_key_images[k] = {u \in txpool : k \in KI[u]}
      /\ m_txs_by_fee = txpool /\ ~internal_error
  BY <1>2 DEF Indexes, KeyImageIndexExact, SortedExact, NoInternalError
<1>5. KeyImageIndexExact'
  <2>1. SUFFICES ASSUME NEW k \in KeyImages
                 PROVE  m_spent_key_images'[k] = {u \in txpool' : k \in KI[u]}
    BY <1>2 DEF KeyImageIndexExact
  <2>2. m_spent_key_images'[k] = IF k \in KI[t] THEN m_spent_key_images[k] \cup {t}
                                               ELSE m_spent_key_images[k]
    BY <1>1 DEF Indexed
  <2> QED
    BY <2>2, <1>1, <1>4
<1>6. SortedExact' /\ NoInternalError' /\ LoadOrder'
  BY <1>1, <1>2, <1>4 DEF SortedExact, NoInternalError, LoadOrder
<1>7. \A u \in txpool : u # t => relay'[u] = relay[u]
  BY <1>1 DEF PoolTypeOK
<1>8. relay'[t] = r
  BY <1>1 DEF PoolTypeOK
<1>9. OneUnkeptPerKeyImage'
  <2>1. ASSUME NEW u \in txpool, u # t, r # "block" PROVE KI[t] \cap KI[u] = {}
    BY <2>1, <1>3, <1>4
  <2>2. \A u, v \in txpool : u # v /\ relay[u] # "block" /\ relay[v] # "block"
                               => KI[u] \cap KI[v] = {}
    BY DEF Indexes, OneUnkeptPerKeyImage, kept_by_block
  <2> QED
    BY <2>1, <2>2, <1>1, <1>7, <1>8 DEF OneUnkeptPerKeyImage, kept_by_block
<1>10. AddedListExact'
  <2>1. m_added_txs_by_id'[t] = Sensitivity(r)
    BY <1>1 DEF PoolTypeOK
  <2>2. \A u \in Txs : u # t => m_added_txs_by_id'[u] = m_added_txs_by_id[u]
    BY <1>1 DEF PoolTypeOK
  <2>3. \A u \in Txs : m_added_txs_by_id[u] # "absent" =>
          u \in txpool /\ m_added_txs_by_id[u] = Sensitivity(relay[u])
    BY <1>2 DEF Indexes, AddedListExact
  <2>4. SUFFICES ASSUME NEW u \in Txs, m_added_txs_by_id'[u] # "absent"
                 PROVE  u \in txpool' /\ m_added_txs_by_id'[u] = Sensitivity(relay'[u])
    BY <1>2 DEF AddedListExact, Sensitivity
  <2> QED
    BY <2>1, <2>2, <2>3, <2>4, <1>1, <1>7, <1>8
<1> QED
  BY <1>5, <1>6, <1>9, <1>10 DEF Indexes

\* So does the removal of a transaction of the pool.
LEMMA DropIndexes ==
  ASSUME PoolTypeOK, Indexes, lock # "init", lock' # "init", NEW t \in txpool, Drop(t)
  PROVE  Indexes'
<1>1. /\ txpool' = txpool \ {t} /\ relay' = [relay EXCEPT ![t] = "none"]
      /\ m_spent_key_images' = Unindexed(t) /\ m_txs_by_fee' = m_txs_by_fee \ {t}
      /\ m_added_txs_by_id' = [m_added_txs_by_id EXCEPT ![t] = "absent"]
      /\ internal_error' = (internal_error \/ t \notin m_txs_by_fee
                              \/ \E k \in KI[t] : t \notin m_spent_key_images[k])
  BY DEF Drop, Unsorted
<1>2. Loaded = txpool /\ Loaded' = txpool'
  BY DEF Loaded
<1>3. t \in Txs /\ KI[t] \subseteq KeyImages
  BY TxAssumption DEF PoolTypeOK
<1>4. /\ \A k \in KeyImages : m_spent_key_images[k] = {u \in txpool : k \in KI[u]}
      /\ m_txs_by_fee = txpool /\ ~internal_error
  BY <1>2 DEF Indexes, KeyImageIndexExact, SortedExact, NoInternalError
<1>5. KeyImageIndexExact'
  <2>1. SUFFICES ASSUME NEW k \in KeyImages
                 PROVE  m_spent_key_images'[k] = {u \in txpool' : k \in KI[u]}
    BY <1>2 DEF KeyImageIndexExact
  <2>2. m_spent_key_images'[k] = m_spent_key_images[k] \ {t}
    BY <1>1 DEF Unindexed
  <2> QED
    BY <2>2, <1>1, <1>4
<1>6. SortedExact' /\ LoadOrder'
  BY <1>1, <1>2, <1>4 DEF SortedExact, LoadOrder
<1>7. NoInternalError'
  BY <1>1, <1>3, <1>4 DEF NoInternalError
<1>8. \A u \in txpool' : relay'[u] = relay[u]
  BY <1>1 DEF PoolTypeOK
<1>9. OneUnkeptPerKeyImage'
  BY <1>1, <1>8 DEF Indexes, OneUnkeptPerKeyImage, kept_by_block
<1>10. AddedListExact'
  <2>1. m_added_txs_by_id'[t] = "absent"
    BY <1>1, <1>3 DEF PoolTypeOK
  <2>2. \A u \in Txs : u # t => m_added_txs_by_id'[u] = m_added_txs_by_id[u]
    BY <1>1 DEF PoolTypeOK
  <2>3. \A u \in Txs : m_added_txs_by_id[u] # "absent" =>
          u \in txpool /\ m_added_txs_by_id[u] = Sensitivity(relay[u])
    BY <1>2 DEF Indexes, AddedListExact
  <2>4. SUFFICES ASSUME NEW u \in Txs, m_added_txs_by_id'[u] # "absent"
                 PROVE  u \in txpool' /\ m_added_txs_by_id'[u] = Sensitivity(relay'[u])
    BY <1>2 DEF AddedListExact, Sensitivity
  <2> QED
    BY <2>1, <2>2, <2>3, <2>4, <1>1, <1>8
<1> QED
  BY <1>5, <1>6, <1>7, <1>9, <1>10 DEF Indexes

\* And a step that leaves the pool alone and does not load it.
LEMMA SameIndexes ==
  ASSUME Indexes, lock # "init", lock' # "init",
         UNCHANGED <<txpool, relay, m_spent_key_images, m_txs_by_fee, internal_error,
                     m_added_txs_by_id>>
  PROVE  Indexes'
  BY Zenon DEF Indexes, KeyImageIndexExact, SortedExact, NoInternalError, OneUnkeptPerKeyImage,
     AddedListExact, LoadOrder, Loaded, kept_by_block, Sensitivity

\* The empty pool has exact indexes.
LEMMA IndexesInit == Init => Indexes
  BY DEF Init, Indexes, KeyImageIndexExact, SortedExact, NoInternalError, OneUnkeptPerKeyImage,
     AddedListExact, LoadOrder, Loaded

\* add_tx of a transaction kept by block that the pool does not have under a
\* relay method of the legacy category.
LEMMA KeptIndexes ==
  ASSUME PoolTypeOK, Indexes, lock # "init", lock' # "init",
         NEW t \in Txs, ~have_tx_legacy(t), add_tx_kept(t)
  PROVE  Indexes'
<1>1. CanInsert(t, "block") /\ "block" \in Methods
  BY DEF CanInsert, Methods
<1>2. CASE Rejected
  BY <1>2, SameIndexes DEF Rejected, table, memory
<1>3. ASSUME NEW seen, Store(t, "block", "block", seen) PROVE Indexes'
  BY <1>1, <1>3, StoreIndexes
<1> QED
  BY <1>2, <1>3 DEF add_tx_kept

\* An upgrade never takes a transaction out of the broadcast methods, and the
\* method of a block is the highest.
LEMMA UpgradeRank ==
  ASSUME NEW old \in Methods, NEW m \in Methods
  PROVE  LET r == upgrade_relay_method(old, m)
         IN /\ Rank[old] <= Rank[r]
            /\ old \in Broadcasted => r \in Broadcasted
            /\ old = "block" => r = "block"
            /\ r = old \/ r = m
<1>1. /\ old \in {"none", "local", "forward", "stem", "fluff", "block"}
      /\ m \in {"none", "local", "forward", "stem", "fluff", "block"}
  BY DEF Methods
<1> QED
  BY <1>1 DEF upgrade_relay_method, Rank, Broadcasted

\* validate() throws the incremental list away.
LEMMA ClearedIndexes ==
  ASSUME Indexes, lock # "init", lock' # "init",
         UNCHANGED <<txpool, relay, m_spent_key_images, m_txs_by_fee, internal_error>>,
         m_added_txs_by_id' = m_added_txs_by_id \/ m_added_txs_by_id' = [t \in Txs |-> "absent"]
  PROVE  Indexes'
<1>1. CASE m_added_txs_by_id' = m_added_txs_by_id
  BY <1>1, SameIndexes
<1>2. CASE m_added_txs_by_id' = [t \in Txs |-> "absent"]
  <2>1. AddedListExact'
    BY <1>2 DEF AddedListExact
  <2> QED
    BY <2>1, Zenon DEF Indexes, KeyImageIndexExact, SortedExact, NoInternalError,
       OneUnkeptPerKeyImage, LoadOrder, Loaded, kept_by_block
<1> QED
  BY <1>1, <1>2

\* Every step keeps the indexes exact.
LEMMA IndexesStep ==
  ASSUME TypeOK, Control, Indexes, [Next]_vars
  PROVE  Indexes'
<1>pool. PoolTypeOK
  BY TypeSplit
<1>work. /\ lock \in {"block", "return", "pop"} => todo \cap txpool = {}
         /\ lock \in {"remove", "init"} => todo \subseteq txpool
         /\ pruning => lock # "init"
  BY DEF Control, WorkList
<1>take. ASSUME NEW t \in txpool, take_tx(t), lock # "init", lock' # "init" PROVE Indexes'
  BY <1>take, <1>pool, DropIndexes DEF take_tx
<1>same. ASSUME lock # "init", lock' # "init", UNCHANGED <<table, memory>> PROVE Indexes'
  BY <1>same, SameIndexes DEF table, memory
<1>0. CASE UNCHANGED vars
  BY <1>0, Zenon DEF vars, table, memory, Indexes, KeyImageIndexExact, SortedExact,
     NoInternalError, OneUnkeptPerKeyImage, AddedListExact, LoadOrder, Loaded, kept_by_block
<1>1. ASSUME NEW t \in Txs, NEW m \in NetRelays, add_new_tx(t, m) PROVE Indexes'
  BY <1>1, <1>same DEF add_new_tx, Free
<1>2. ASSUME add_new_tx_lookup PROVE Indexes'
  BY <1>2, <1>same DEF add_new_tx_lookup, Free
<1>3. ASSUME add_tx PROVE Indexes'
  <2> DEFINE m == Dandelion(in_tx, in_relay)
             r == IF in_tx \in txpool THEN upgrade_relay_method(relay[in_tx], m) ELSE m
  <2>1. in_tx \in Txs /\ in_relay \in Methods /\ lock # "init" /\ lock' # "init"
    BY <1>3 DEF add_tx, Free, TypeOK
  <2>2. m \in Methods /\ r \in Methods
    BY <2>1, <1>pool, UpgradeType DEF PoolTypeOK, Dandelion, Methods
  <2>3. CASE UNCHANGED <<table, memory>>
    BY <2>1, <2>3, <1>same
  <2>4. CASE UNCHANGED <<txpool, relay, last_failed_id, memory>>
    BY <2>1, <2>4, SameIndexes DEF memory
  <2>5. ASSUME ~have_tx_keyimges_as_spent(in_tx), Store(in_tx, m, r, FALSE) PROVE Indexes'
    <3>1. /\ \A k \in KI[in_tx] : m_spent_key_images[k] \subseteq {in_tx}
          /\ CanInsert(in_tx, m)
      BY <2>5 DEF have_tx_keyimges_as_spent, CanInsert
    <3>2. relay[in_tx] = "block" /\ in_tx \in txpool => r = "block"
      BY <2>1, <2>2, <1>pool, UpgradeRank DEF PoolTypeOK
    <3> HIDE DEF m, r
    <3> QED
      BY <2>1, <2>2, <2>5, <3>1, <3>2, <1>pool, StoreIndexes
  <2> QED
    BY <1>3, <2>3, <2>4, <2>5 DEF add_tx, Rejected
<1>4. ASSUME NEW t \in Txs, add_alternative_block_tx(t) PROVE Indexes'
  BY <1>4, <1>pool, KeptIndexes DEF add_alternative_block_tx, Free
<1>5. ASSUME prune PROVE Indexes'
  <2>1. lock # "init" /\ lock' # "init"
    BY <1>5, <1>work DEF prune
  <2> QED
    BY <1>5, <2>1, <1>take, <1>same DEF prune
<1>6. ASSUME begin_block PROVE Indexes'
  BY <1>6, <1>same DEF begin_block, Free
<1>7. ASSUME NEW t \in Txs, block_tx(t) PROVE Indexes'
  <2>1. lock # "init" /\ lock' # "init"
    BY <1>7 DEF block_tx
  <2> QED
    BY <1>7, <2>1, <1>take, <1>same DEF block_tx
<1>8. ASSUME fail_block PROVE Indexes'
  BY <1>8, <1>same DEF fail_block
<1>9. ASSUME commit_block PROVE Indexes'
  <2>1. /\ lock # "init" /\ lock' # "init"
        /\ UNCHANGED <<txpool, relay, m_spent_key_images, m_txs_by_fee, internal_error>>
        /\ m_added_txs_by_id' = m_added_txs_by_id \/ m_added_txs_by_id' = [t \in Txs |-> "absent"]
    BY <1>9 DEF commit_block, ValidateIfChanged, table
  <2> QED
    BY <2>1, ClearedIndexes
<1>10. ASSUME undo_block PROVE Indexes'
  BY <1>10, <1>same DEF undo_block
<1>11. ASSUME NEW t \in Txs, return_tx(t) PROVE Indexes'
  <2>1. t \notin txpool /\ lock # "init" /\ lock' # "init"
    BY <1>11, <1>work DEF return_tx
  <2> QED
    BY <1>11, <2>1, <1>pool, KeptIndexes DEF return_tx, have_tx_legacy
<1>12. ASSUME NEW keep \in BOOLEAN, pop_block(keep) PROVE Indexes'
  BY <1>12, <1>same DEF pop_block, Free
<1>13. ASSUME pop_done PROVE Indexes'
  <2>1. /\ lock # "init" /\ lock' # "init"
        /\ UNCHANGED <<txpool, relay, m_spent_key_images, m_txs_by_fee, internal_error>>
        /\ m_added_txs_by_id' = m_added_txs_by_id \/ m_added_txs_by_id' = [t \in Txs |-> "absent"]
    BY <1>13 DEF pop_done, ValidateIfChanged, table
  <2> QED
    BY <2>1, ClearedIndexes
<1>14. ASSUME NEW t \in Txs, NEW fee_good \in BOOLEAN, validate_tx(t, fee_good) PROVE Indexes'
  <2>1. lock # "init" /\ lock' # "init"
    BY <1>14 DEF validate_tx
  <2>2. ASSUME t \in txpool, UNCHANGED <<table, m_spent_key_images, m_txs_by_fee, internal_error>>,
               m_added_txs_by_id' = [m_added_txs_by_id EXCEPT ![t] = Sensitivity(relay[t])]
        PROVE  Indexes'
    <3>1. AddedListExact'
      BY <2>1, <2>2, <1>pool DEF PoolTypeOK, Indexes, AddedListExact, Loaded, table, Sensitivity
    <3> QED
      BY <2>1, <2>2, <3>1, Zenon DEF table, Indexes, KeyImageIndexExact, SortedExact,
         NoInternalError, OneUnkeptPerKeyImage, LoadOrder, Loaded, kept_by_block
  <2>3. ASSUME t \in txpool, Drop(t) PROVE Indexes'
    BY <2>1, <2>3, <1>pool, DropIndexes
  <2> QED
    BY <1>14, <2>1, <2>2, <2>3, <1>same DEF validate_tx, Rejected
<1>15. ASSUME NEW S \in SUBSET Txs, NEW m \in RelayedAs, set_relayed(S, m) PROVE Indexes'
  <2>1. m \in Methods /\ m # "block"
    BY PoolAssumption DEF Unkept
  <2>2. /\ UNCHANGED <<txpool, m_spent_key_images, m_txs_by_fee, internal_error>>
        /\ lock = "idle" /\ lock' = "idle"
        /\ m_added_txs_by_id' = Announced(S, m)
    BY <1>15 DEF set_relayed, Free
  <2>3. \A t \in txpool : relay'[t] = relay[t] \/
                          (t \in S /\ relay'[t] = upgrade_relay_method(relay[t], m))
    BY <1>15, <1>pool DEF set_relayed, PoolTypeOK
  <2>4. \A t \in txpool : kept_by_block(t) => kept_by_block(t)'
    BY <2>1, <2>3, <1>pool, UpgradeRank DEF PoolTypeOK, kept_by_block
  <2>5. OneUnkeptPerKeyImage'
    BY <2>2, <2>4, Zenon DEF Indexes, OneUnkeptPerKeyImage
  <2>6. KeyImageIndexExact' /\ SortedExact' /\ NoInternalError' /\ LoadOrder'
    BY <2>2 DEF Indexes, KeyImageIndexExact, SortedExact, NoInternalError, LoadOrder, Loaded
  <2>7. AddedListExact'
    <3>1. SUFFICES ASSUME NEW t \in Txs, m_added_txs_by_id'[t] # "absent"
                   PROVE  t \in txpool /\ m_added_txs_by_id'[t] = Sensitivity(relay'[t])
      BY <2>2 DEF AddedListExact, Loaded, Sensitivity
    <3> DEFINE r == upgrade_relay_method(relay[t], m)
    <3>2. /\ relay[t] \in Methods /\ r \in Methods
          /\ relay[t] \in Broadcasted => r \in Broadcasted
      BY <2>1, <1>pool, UpgradeRank, UpgradeType DEF PoolTypeOK
    <3>3. relay'[t] = IF t \in S \cap txpool THEN r ELSE relay[t]
      BY <1>15 DEF set_relayed
    <3>4. m_added_txs_by_id[t] # "absent" =>
            t \in txpool /\ m_added_txs_by_id[t] = Sensitivity(relay[t])
      BY <2>2 DEF Indexes, AddedListExact, Loaded
    <3>5. m_added_txs_by_id'[t] = IF t \in S \cap txpool /\ relay[t] \notin Broadcasted
                                     /\ r \in Broadcasted
                                  THEN "public" ELSE m_added_txs_by_id[t]
      BY <2>2 DEF Announced
    <3> HIDE DEF r
    <3> QED
      BY <3>1, <3>2, <3>3, <3>4, <3>5 DEF Sensitivity
  <2> QED
    BY <2>5, <2>6, <2>7 DEF Indexes
<1>16. ASSUME NEW S \in SUBSET Txs, remove_stuck_transactions(S) PROVE Indexes'
  BY <1>16, <1>same DEF remove_stuck_transactions, Free
<1>17. ASSUME NEW S \in SUBSET Txs, flush_txes_from_pool(S) PROVE Indexes'
  BY <1>17, <1>same DEF flush_txes_from_pool, Free
<1>18. ASSUME NEW t \in Txs, remove_tx(t) PROVE Indexes'
  BY <1>18, <1>work, <1>take DEF remove_tx
<1>19. ASSUME unlock PROVE Indexes'
  <2>1. /\ UNCHANGED <<txpool, relay, m_spent_key_images, m_txs_by_fee, internal_error,
                       m_added_txs_by_id>>
        /\ todo = {} /\ lock' = "idle"
    BY <1>19 DEF unlock, table, memory
  <2>2. Loaded' = Loaded /\ LoadOrder'
    BY <2>1 DEF Loaded, LoadOrder
  <2> QED
    BY <2>1, <2>2, Zenon DEF Indexes, KeyImageIndexExact, SortedExact, NoInternalError,
       OneUnkeptPerKeyImage, AddedListExact, kept_by_block
<1>20. ASSUME NEW S \in SUBSET Txs, NEW U \in SUBSET Txs, fill_block_template(S, U) PROVE Indexes'
  <2>1. /\ UNCHANGED <<txpool, relay, memory>> /\ lock # "init" /\ lock' # "init"
    BY <1>20 DEF fill_block_template, Free
  <2> QED
    BY <2>1, SameIndexes DEF memory
<1>21. ASSUME restart PROVE Indexes'
  <2>1. /\ UNCHANGED <<txpool, relay, internal_error>> /\ lock' = "init" /\ todo' = txpool
        /\ m_spent_key_images' = [k \in KeyImages |-> {}] /\ m_txs_by_fee' = {}
        /\ m_added_txs_by_id' = [t \in Txs |-> "absent"]
    BY <1>21 DEF restart, table
  <2>2. Loaded' = {} /\ LoadOrder'
    BY <2>1 DEF Loaded, LoadOrder
  <2>3. OneUnkeptPerKeyImage' /\ NoInternalError'
    BY <2>1, Zenon DEF Indexes, OneUnkeptPerKeyImage, NoInternalError, kept_by_block
  <2> QED
    BY <2>1, <2>2, <2>3 DEF Indexes, KeyImageIndexExact, SortedExact, AddedListExact
<1>22. ASSUME NEW t \in Txs, init_tx(t) PROVE Indexes'
  <2>1. /\ lock = "init" /\ lock' = "init" /\ t \in todo /\ todo' = todo \ {t}
        /\ UNCHANGED <<txpool, relay>> /\ InitOrder(t)
        /\ m_spent_key_images' = Indexed(t) /\ m_txs_by_fee' = m_txs_by_fee \cup {t}
        /\ m_added_txs_by_id' = [m_added_txs_by_id EXCEPT ![t] = Sensitivity(relay[t])]
        /\ internal_error' = (internal_error \/ ~CanInsert(t, relay[t]))
    BY <1>22 DEF init_tx, table
  <2>2. Loaded' = Loaded \cup {t} /\ t \notin Loaded /\ Loaded \subseteq txpool /\ t \in txpool
    BY <2>1, <1>work DEF Loaded
  <2>3. KeyImageIndexExact'
    <3>1. SUFFICES ASSUME NEW k \in KeyImages
                   PROVE  m_spent_key_images'[k] = {u \in Loaded' : k \in KI[u]}
      BY DEF KeyImageIndexExact
    <3>2. m_spent_key_images'[k] = IF k \in KI[t] THEN m_spent_key_images[k] \cup {t}
                                                 ELSE m_spent_key_images[k]
      BY <2>1 DEF Indexed
    <3>3. m_spent_key_images[k] = {u \in Loaded : k \in KI[u]}
      BY DEF Indexes, KeyImageIndexExact
    <3> QED
      BY <3>2, <3>3, <2>2
  <2>4. SortedExact' /\ OneUnkeptPerKeyImage'
    BY <2>1, <2>2, Zenon DEF Indexes, SortedExact, OneUnkeptPerKeyImage, kept_by_block
  <2>5. LoadOrder'
    BY <2>1, <2>2 DEF Indexes, LoadOrder, InitOrder, kept_by_block
  <2>6. AddedListExact'
    <3>1. SUFFICES ASSUME NEW u \in Txs, m_added_txs_by_id'[u] # "absent"
                   PROVE  u \in Loaded' /\ m_added_txs_by_id'[u] = Sensitivity(relay'[u])
      BY DEF AddedListExact, Sensitivity
    <3>2. m_added_txs_by_id[u] # "absent" =>
            u \in Loaded /\ m_added_txs_by_id[u] = Sensitivity(relay[u])
      BY DEF Indexes, AddedListExact
    <3>3. m_added_txs_by_id'[u] = IF u = t THEN Sensitivity(relay[t]) ELSE m_added_txs_by_id[u]
      BY <2>1, <1>pool DEF PoolTypeOK
    <3> QED
      BY <3>1, <3>2, <3>3, <2>1, <2>2
  <2>7. CanInsert(t, relay[t])
    <3>1. SUFFICES ASSUME NEW k \in KI[t]
                   PROVE  /\ kept_by_block(t) \/ m_spent_key_images[k] \subseteq {t}
                          /\ t \notin m_spent_key_images[k]
      BY DEF CanInsert, kept_by_block
    <3>2. m_spent_key_images[k] = {u \in Loaded : k \in KI[u]}
      BY TxAssumption DEF Indexes, KeyImageIndexExact
    <3>3. ASSUME ~kept_by_block(t), NEW u \in Loaded, k \in KI[u] PROVE FALSE
      <4>1. ~kept_by_block(u)
        BY <3>3, <2>1, <2>2 DEF Indexes, LoadOrder, Loaded
      <4>2. u \in txpool /\ u # t
        BY <3>3, <2>2
      <4> QED
        BY <3>3, <4>1, <4>2, <2>2, Zenon DEF Indexes, OneUnkeptPerKeyImage
    <3> QED
      BY <3>2, <3>3, <2>2
  <2>8. NoInternalError'
    BY <2>1, <2>7 DEF Indexes, NoInternalError
  <2> QED
    BY <2>3, <2>4, <2>5, <2>6, <2>8 DEF Indexes
<1> QED
  BY <1>0, <1>1, <1>2, <1>3, <1>4, <1>5, <1>6, <1>7, <1>8, <1>9, <1>10, <1>11, <1>12,
     <1>13, <1>14, <1>15, <1>16, <1>17, <1>18, <1>19, <1>20, <1>21, <1>22 DEF Next

-----------------------------------------------------------------------------
(* Remembered input checks *)

\* The inputs on the current chain.
LEMMA InputsOKHere == \A t : InputsOK(t) <=> InputsOKOn(t, chain)
  BY DEF InputsOK, InputsOKOn, ChainTxs, TxsOf

\* Inputs are judged the same while the chain is the same.
LEMMA InputsOKSame == ASSUME UNCHANGED chain PROVE \A t : InputsOK(t)' <=> InputsOK(t)
  BY ChainSame DEF InputsOK

\* What is cached now is right now.
LEMMA CacheExact ==
  ASSUME ControlTypeOK, lock # "pop", InputCacheExact, UNCHANGED chain,
         NEW S, m_input_cache' = CacheInputs(S)
  PROVE  InputCacheExact'
<1>1. SUFFICES ASSUME NEW t \in Txs, m_input_cache'[t] # "none"
               PROVE  (m_input_cache'[t] = "ok" <=> InputsOK(t))
  BY InputsOKSame DEF InputCacheExact
<1>2. m_input_cache'[t] = IF t \in S /\ m_input_cache[t] = "none"
                          THEN IF InputsOK(t) THEN "ok" ELSE "bad"
                          ELSE m_input_cache[t]
  BY DEF CacheInputs
<1>3. m_input_cache[t] # "none" => (m_input_cache[t] = "ok" <=> InputsOK(t))
  BY DEF InputCacheExact
<1>4. InputsOK(t) \in BOOLEAN
  BY DEF InputsOK
<1> QED
  BY <1>1, <1>2, <1>3, <1>4

\* An empty cache is exact.
LEMMA CacheCleared == ASSUME m_input_cache' = EmptyCache PROVE InputCacheExact'
  BY DEF InputCacheExact, EmptyCache

\* Every step keeps the cache of input checks exact.
LEMMA CacheStep ==
  ASSUME TypeOK, InputCacheExact, [Next]_vars
  PROVE  InputCacheExact'
<1>ctl. ControlTypeOK
  BY TypeSplit
<1>same. ASSUME UNCHANGED <<chain, m_input_cache>>, lock = "pop" => lock' = "pop"
         PROVE  InputCacheExact'
  BY <1>same, InputsOKSame, Zenon DEF InputCacheExact
<1>0. CASE UNCHANGED vars
  BY <1>0, <1>same DEF vars
<1>1. ASSUME NEW t \in Txs, NEW m \in NetRelays, add_new_tx(t, m) PROVE InputCacheExact'
  BY <1>1, <1>same DEF add_new_tx, Free
<1>2. ASSUME add_new_tx_lookup PROVE InputCacheExact'
  BY <1>2, <1>same DEF add_new_tx_lookup, Free
<1>3. ASSUME add_tx PROVE InputCacheExact'
  <2>1. /\ lock # "pop" /\ UNCHANGED <<chain, lock>>
        /\ m_input_cache' = m_input_cache \/ m_input_cache' = CacheInputs({in_tx})
    BY <1>3 DEF add_tx, Free
  <2> QED
    BY <2>1, <1>ctl, <1>same, CacheExact
<1>4. ASSUME NEW t \in Txs, add_alternative_block_tx(t) PROVE InputCacheExact'
  BY <1>4, <1>same DEF add_alternative_block_tx, Free
<1>5. ASSUME prune PROVE InputCacheExact'
  BY <1>5, <1>same DEF prune
<1>6. ASSUME begin_block PROVE InputCacheExact'
  BY <1>6, <1>same DEF begin_block, Free
<1>7. ASSUME NEW t \in Txs, block_tx(t) PROVE InputCacheExact'
  BY <1>7, <1>same DEF block_tx
<1>8. ASSUME fail_block PROVE InputCacheExact'
  BY <1>8, <1>same DEF fail_block
<1>9. ASSUME commit_block PROVE InputCacheExact'
  BY <1>9, CacheCleared DEF commit_block, AfterBlock
<1>10. ASSUME undo_block PROVE InputCacheExact'
  BY <1>10, <1>same DEF undo_block
<1>11. ASSUME NEW t \in Txs, return_tx(t) PROVE InputCacheExact'
  BY <1>11, <1>same DEF return_tx
<1>12. ASSUME NEW keep \in BOOLEAN, pop_block(keep) PROVE InputCacheExact'
  BY <1>12 DEF pop_block, InputCacheExact
<1>13. ASSUME pop_done PROVE InputCacheExact'
  BY <1>13, CacheCleared DEF pop_done, AfterBlock
<1>14. ASSUME NEW t \in Txs, NEW fee_good \in BOOLEAN, validate_tx(t, fee_good) PROVE InputCacheExact'
  <2>1. /\ lock # "pop" /\ UNCHANGED <<chain, lock>>
        /\ m_input_cache' = m_input_cache \/ m_input_cache' = CacheInputs({t})
    BY <1>14 DEF validate_tx
  <2> QED
    BY <2>1, <1>ctl, <1>same, CacheExact
<1>15. ASSUME NEW S \in SUBSET Txs, NEW m \in RelayedAs, set_relayed(S, m) PROVE InputCacheExact'
  BY <1>15, <1>same DEF set_relayed, Free
<1>16. ASSUME NEW S \in SUBSET Txs, remove_stuck_transactions(S) PROVE InputCacheExact'
  BY <1>16, <1>same DEF remove_stuck_transactions, Free
<1>17. ASSUME NEW S \in SUBSET Txs, flush_txes_from_pool(S) PROVE InputCacheExact'
  BY <1>17, <1>same DEF flush_txes_from_pool, Free
<1>18. ASSUME NEW t \in Txs, remove_tx(t) PROVE InputCacheExact'
  BY <1>18, <1>same DEF remove_tx
<1>19. ASSUME unlock PROVE InputCacheExact'
  BY <1>19, <1>same DEF unlock
<1>20. ASSUME NEW S \in SUBSET Txs, NEW U \in SUBSET Txs, fill_block_template(S, U) PROVE InputCacheExact'
  <2>1. lock # "pop" /\ UNCHANGED <<chain, lock>>
    BY <1>20 DEF fill_block_template, Free
  <2>2. PICK tried : m_input_cache' = CacheInputs(tried)
    BY <1>20 DEF fill_block_template
  <2> QED
    BY <2>1, <2>2, <1>ctl, CacheExact
<1>21. ASSUME restart PROVE InputCacheExact'
  BY <1>21, CacheCleared DEF restart
<1>22. ASSUME NEW t \in Txs, init_tx(t) PROVE InputCacheExact'
  BY <1>22, <1>same DEF init_tx
<1> QED
  BY <1>0, <1>1, <1>2, <1>3, <1>4, <1>5, <1>6, <1>7, <1>8, <1>9, <1>10, <1>11, <1>12,
     <1>13, <1>14, <1>15, <1>16, <1>17, <1>18, <1>19, <1>20, <1>21, <1>22 DEF Next

\* Every step keeps the remembered failures sound: they name the chain they
\* were found on, so no change of the chain can make them wrong.
LEMMA FailuresStep ==
  ASSUME TypeOK, InputCacheExact, FailuresSound, [Next]_vars
  PROVE  FailuresSound'
<1>pool. PoolTypeOK
  BY TypeSplit
<1>same. ASSUME UNCHANGED <<txpool, last_failed_id>> PROVE FailuresSound'
  BY <1>same DEF FailuresSound
<1>drop. ASSUME NEW t \in Txs, Drop(t) PROVE FailuresSound'
  <2>1. /\ txpool' \subseteq txpool
        /\ \A u \in txpool' : last_failed_id'[u] = last_failed_id[u] \/ last_failed_id'[u] = NoBlock
    BY <1>drop, <1>pool DEF Drop, PoolTypeOK
  <2> QED
    BY <2>1 DEF FailuresSound
<1>store. ASSUME NEW t \in Txs, NEW m, NEW r, NEW seen, Store(t, m, r, seen) PROVE FailuresSound'
  <2>1. /\ txpool' \subseteq txpool \cup {t}
        /\ \A u \in txpool : last_failed_id'[u] = last_failed_id[u] \/ last_failed_id'[u] = NoBlock
        /\ txpool' = txpool \/ last_failed_id'[t] = NoBlock
    BY <1>store, <1>pool DEF Store, PoolTypeOK
  <2> QED
    BY <2>1 DEF FailuresSound
<1>kept. ASSUME NEW t \in Txs, add_tx_kept(t) PROVE FailuresSound'
  BY <1>kept, <1>store, <1>same DEF add_tx_kept, Rejected, table
<1>0. CASE UNCHANGED vars
  BY <1>0, <1>same DEF vars, table
<1>1. ASSUME NEW t \in Txs, NEW m \in NetRelays, add_new_tx(t, m) PROVE FailuresSound'
  BY <1>1, <1>same DEF add_new_tx, table
<1>2. ASSUME add_new_tx_lookup PROVE FailuresSound'
  BY <1>2, <1>same DEF add_new_tx_lookup, table
<1>3. ASSUME add_tx PROVE FailuresSound'
  <2>1. in_tx \in Txs
    BY <1>3 DEF add_tx, TypeOK
  <2>2. CASE UNCHANGED <<txpool, last_failed_id>>
    BY <2>2, <1>same
  <2> QED
    BY <1>3, <2>1, <2>2, <1>store DEF add_tx, Rejected, table
<1>4. ASSUME NEW t \in Txs, add_alternative_block_tx(t) PROVE FailuresSound'
  BY <1>4, <1>kept DEF add_alternative_block_tx
<1>5. ASSUME prune PROVE FailuresSound'
  BY <1>5, <1>drop, <1>same, <1>pool DEF prune, take_tx, table, PoolTypeOK
<1>6. ASSUME begin_block PROVE FailuresSound'
  BY <1>6, <1>same DEF begin_block, table
<1>7. ASSUME NEW t \in Txs, block_tx(t) PROVE FailuresSound'
  BY <1>7, <1>drop, <1>same DEF block_tx, take_tx, table
<1>8. ASSUME fail_block PROVE FailuresSound'
  BY <1>8, <1>same DEF fail_block, table
<1>9. ASSUME commit_block PROVE FailuresSound'
  BY <1>9, <1>same DEF commit_block, table
<1>10. ASSUME undo_block PROVE FailuresSound'
  BY <1>10, <1>same DEF undo_block, table
<1>11. ASSUME NEW t \in Txs, return_tx(t) PROVE FailuresSound'
  BY <1>11, <1>kept DEF return_tx
<1>12. ASSUME NEW keep \in BOOLEAN, pop_block(keep) PROVE FailuresSound'
  BY <1>12, <1>same DEF pop_block, table
<1>13. ASSUME pop_done PROVE FailuresSound'
  BY <1>13, <1>same DEF pop_done, table
<1>14. ASSUME NEW t \in Txs, NEW fee_good \in BOOLEAN, validate_tx(t, fee_good) PROVE FailuresSound'
  BY <1>14, <1>drop, <1>same DEF validate_tx, Rejected, table
<1>15. ASSUME NEW S \in SUBSET Txs, NEW m \in RelayedAs, set_relayed(S, m) PROVE FailuresSound'
  BY <1>15, <1>same DEF set_relayed, table
<1>16. ASSUME NEW S \in SUBSET Txs, remove_stuck_transactions(S) PROVE FailuresSound'
  BY <1>16, <1>same DEF remove_stuck_transactions, table
<1>17. ASSUME NEW S \in SUBSET Txs, flush_txes_from_pool(S) PROVE FailuresSound'
  BY <1>17, <1>same DEF flush_txes_from_pool, table
<1>18. ASSUME NEW t \in Txs, remove_tx(t) PROVE FailuresSound'
  BY <1>18, <1>drop DEF remove_tx, take_tx
<1>19. ASSUME unlock PROVE FailuresSound'
  BY <1>19, <1>same DEF unlock, table
<1>20. ASSUME NEW S \in SUBSET Txs, NEW U \in SUBSET Txs, fill_block_template(S, U) PROVE FailuresSound'
  <2>1. /\ txpool' = txpool /\ lock # "pop" /\ FailedNow(S) \subseteq Txs
        /\ last_failed_id' = [t \in Txs |-> IF t \in FailedNow(S) THEN chain ELSE last_failed_id[t]]
    BY <1>20 DEF fill_block_template, Free, FailedNow
  <2>2. \A t \in FailedNow(S) : ~InputsOK(t)
    BY <2>1 DEF FailedNow, check_tx_inputs, InputCacheExact
  <2>3. \A t \in FailedNow(S) : ~InputsOKOn(t, chain)
    BY <2>2, InputsOKHere
  <2> QED
    BY <2>1, <2>3, <1>pool DEF FailuresSound, PoolTypeOK
<1>21. ASSUME restart PROVE FailuresSound'
  BY <1>21, <1>same DEF restart, table
<1>22. ASSUME NEW t \in Txs, init_tx(t) PROVE FailuresSound'
  BY <1>22, <1>same DEF init_tx, table
<1> QED
  BY <1>0, <1>1, <1>2, <1>3, <1>4, <1>5, <1>6, <1>7, <1>8, <1>9, <1>10, <1>11, <1>12,
     <1>13, <1>14, <1>15, <1>16, <1>17, <1>18, <1>19, <1>20, <1>21, <1>22 DEF Next

-----------------------------------------------------------------------------
(* The relay method *)

Upgraded == \A t \in txpool \cap txpool' : Rank[relay[t]] <= Rank[relay'[t]]

\* No relay method ranks above that of a block.
LEMMA RankTop ==
  ASSUME NEW m \in Methods
  PROVE  Rank[m] \in Int /\ Rank[m] <= Rank["block"]
<1>1. m \in {"none", "local", "forward", "stem", "fluff", "block"}
  BY DEF Methods
<1> QED
  BY <1>1 DEF Rank

\* No step takes a transaction that stays in the pool to a lower method.
LEMMA UpgradedStep ==
  ASSUME TypeOK, [Next]_vars
  PROVE  Upgraded
<1>t. relay \in [Txs -> Methods] /\ txpool \subseteq Txs
  BY DEF TypeOK
<1>r. \A t \in txpool : Rank[relay[t]] \in Int
  BY <1>t, RankTop
<1>same. ASSUME UNCHANGED relay PROVE Upgraded
  BY <1>same, <1>r DEF Upgraded
<1>drop. ASSUME NEW t \in Txs, Drop(t) PROVE Upgraded
  <2>1. \A u \in txpool' : u # t /\ relay'[u] = relay[u]
    BY <1>drop, <1>t DEF Drop
  <2> QED
    BY <2>1, <1>r DEF Upgraded
<1>store. ASSUME NEW t \in Txs, NEW m, NEW r \in Methods, NEW seen, Store(t, m, r, seen),
                 t \in txpool => Rank[relay[t]] <= Rank[r]
          PROVE  Upgraded
  <2>1. \A u \in txpool : relay'[u] = relay[u] \/ (u = t /\ relay'[u] = r)
    BY <1>store, <1>t DEF Store
  <2> QED
    BY <2>1, <1>r, <1>store DEF Upgraded
<1>kept. ASSUME NEW t \in Txs, add_tx_kept(t) PROVE Upgraded
  <2>1. "block" \in Methods /\ (t \in txpool => Rank[relay[t]] <= Rank["block"])
    BY <1>t, RankTop DEF Methods
  <2> QED
    BY <1>kept, <2>1, <1>store, <1>same DEF add_tx_kept, Rejected, table
<1>0. CASE UNCHANGED vars
  BY <1>0, <1>same DEF vars, table
<1>1. ASSUME NEW t \in Txs, NEW m \in NetRelays, add_new_tx(t, m) PROVE Upgraded
  BY <1>1, <1>same DEF add_new_tx, table
<1>2. ASSUME add_new_tx_lookup PROVE Upgraded
  BY <1>2, <1>same DEF add_new_tx_lookup, table
<1>3. ASSUME add_tx PROVE Upgraded
  <2> DEFINE m == Dandelion(in_tx, in_relay)
             r == IF in_tx \in txpool THEN upgrade_relay_method(relay[in_tx], m) ELSE m
  <2>1. in_tx \in Txs /\ in_relay \in Methods
    BY <1>3 DEF add_tx, TypeOK
  <2>2. m \in Methods
    BY <2>1 DEF Dandelion, Methods
  <2>3. r \in Methods /\ (in_tx \in txpool => Rank[relay[in_tx]] <= Rank[r])
    BY <2>1, <2>2, <1>t, UpgradeType, UpgradeRank
  <2>4. CASE UNCHANGED relay
    BY <2>4, <1>same
  <2>5. CASE Store(in_tx, m, r, FALSE)
    <3> HIDE DEF m, r
    <3> QED
      BY <2>1, <2>3, <2>5, <1>store
  <2> QED
    BY <1>3, <2>4, <2>5 DEF add_tx, Rejected, table
<1>4. ASSUME NEW t \in Txs, add_alternative_block_tx(t) PROVE Upgraded
  BY <1>4, <1>kept DEF add_alternative_block_tx
<1>5. ASSUME prune PROVE Upgraded
  BY <1>5, <1>drop, <1>same, <1>t DEF prune, take_tx, table
<1>6. ASSUME begin_block PROVE Upgraded
  BY <1>6, <1>same DEF begin_block, table
<1>7. ASSUME NEW t \in Txs, block_tx(t) PROVE Upgraded
  BY <1>7, <1>drop, <1>same DEF block_tx, take_tx, table
<1>8. ASSUME fail_block PROVE Upgraded
  BY <1>8, <1>same DEF fail_block, table
<1>9. ASSUME commit_block PROVE Upgraded
  BY <1>9, <1>same DEF commit_block, table
<1>10. ASSUME undo_block PROVE Upgraded
  BY <1>10, <1>same DEF undo_block, table
<1>11. ASSUME NEW t \in Txs, return_tx(t) PROVE Upgraded
  BY <1>11, <1>kept DEF return_tx
<1>12. ASSUME NEW keep \in BOOLEAN, pop_block(keep) PROVE Upgraded
  BY <1>12, <1>same DEF pop_block, table
<1>13. ASSUME pop_done PROVE Upgraded
  BY <1>13, <1>same DEF pop_done, table
<1>14. ASSUME NEW t \in Txs, NEW fee_good \in BOOLEAN, validate_tx(t, fee_good) PROVE Upgraded
  BY <1>14, <1>drop, <1>same DEF validate_tx, Rejected, table
<1>15. ASSUME NEW S \in SUBSET Txs, NEW m \in RelayedAs, set_relayed(S, m) PROVE Upgraded
  <2>1. m \in Methods
    BY PoolAssumption DEF Unkept
  <2>2. \A t \in txpool : relay'[t] = relay[t] \/ relay'[t] = upgrade_relay_method(relay[t], m)
    BY <1>15, <1>t DEF set_relayed
  <2> QED
    BY <2>1, <2>2, <1>t, <1>r, UpgradeRank DEF Upgraded
<1>16. ASSUME NEW S \in SUBSET Txs, remove_stuck_transactions(S) PROVE Upgraded
  BY <1>16, <1>same DEF remove_stuck_transactions, table
<1>17. ASSUME NEW S \in SUBSET Txs, flush_txes_from_pool(S) PROVE Upgraded
  BY <1>17, <1>same DEF flush_txes_from_pool, table
<1>18. ASSUME NEW t \in Txs, remove_tx(t) PROVE Upgraded
  BY <1>18, <1>drop DEF remove_tx, take_tx
<1>19. ASSUME unlock PROVE Upgraded
  BY <1>19, <1>same DEF unlock, table
<1>20. ASSUME NEW S \in SUBSET Txs, NEW U \in SUBSET Txs, fill_block_template(S, U) PROVE Upgraded
  BY <1>20, <1>same DEF fill_block_template, table
<1>21. ASSUME restart PROVE Upgraded
  BY <1>21, <1>same DEF restart, table
<1>22. ASSUME NEW t \in Txs, init_tx(t) PROVE Upgraded
  BY <1>22, <1>same DEF init_tx, table
<1> QED
  BY <1>0, <1>1, <1>2, <1>3, <1>4, <1>5, <1>6, <1>7, <1>8, <1>9, <1>10, <1>11, <1>12,
     <1>13, <1>14, <1>15, <1>16, <1>17, <1>18, <1>19, <1>20, <1>21, <1>22 DEF Next

-----------------------------------------------------------------------------
(* Validation after a change of version *)

\* While validate() runs, what it has gone over satisfies the rules.
Revalidated ==
  lock = "validate" => \A t \in txpool \ todo : nic_ok(t, CurrentVersion)

RulesEstablished ==
  /\ lock = "validate" /\ lock' = "idle" => \A t \in txpool' : nic_ok(t, CurrentVersion)
  /\ lock = "block" /\ lock' = "idle" => CurrentVersion' = CurrentVersion
  /\ lock = "pop" /\ lock' = "idle" => VersionAt(Len(chain) + 1) = CurrentVersion

\* validate() goes over every transaction before the lock is given back.
LEMMA RevalidatedStep ==
  ASSUME TypeOK, Revalidated, [Next]_vars
  PROVE  Revalidated' /\ RulesEstablished
<1>v. UNCHANGED chain => CurrentVersion' = CurrentVersion
  BY DEF CurrentVersion, VersionAt
<1>other. ASSUME lock' # "validate", lock' # "idle" \/ lock \notin {"validate", "block", "pop"}
          PROVE  Revalidated' /\ RulesEstablished
  BY <1>other DEF Revalidated, RulesEstablished
<1>same. ASSUME UNCHANGED <<chain, lock, todo>>, txpool' \subseteq txpool
         PROVE  Revalidated' /\ RulesEstablished
  BY <1>same, <1>v DEF Revalidated, RulesEstablished, nic_ok
<1>0. CASE UNCHANGED vars
  BY <1>0, <1>same DEF vars, table
<1>1. ASSUME NEW t \in Txs, NEW m \in NetRelays, add_new_tx(t, m) PROVE Revalidated' /\ RulesEstablished
  BY <1>1, <1>other DEF add_new_tx, Free
<1>2. ASSUME add_new_tx_lookup PROVE Revalidated' /\ RulesEstablished
  BY <1>2, <1>other DEF add_new_tx_lookup, Free
<1>3. ASSUME add_tx PROVE Revalidated' /\ RulesEstablished
  BY <1>3, <1>other DEF add_tx, Free
<1>4. ASSUME NEW t \in Txs, add_alternative_block_tx(t) PROVE Revalidated' /\ RulesEstablished
  BY <1>4, <1>other DEF add_alternative_block_tx, Free
<1>5. ASSUME prune PROVE Revalidated' /\ RulesEstablished
  <2>1. txpool' \subseteq txpool
    BY <1>5 DEF prune, take_tx, Drop, table
  <2> QED
    BY <1>5, <2>1, <1>same DEF prune
<1>6. ASSUME begin_block PROVE Revalidated' /\ RulesEstablished
  BY <1>6, <1>other DEF begin_block, Free
<1>7. ASSUME NEW t \in Txs, block_tx(t) PROVE Revalidated' /\ RulesEstablished
  BY <1>7, <1>other DEF block_tx
<1>8. ASSUME fail_block PROVE Revalidated' /\ RulesEstablished
  BY <1>8, <1>other DEF fail_block
<1>9. ASSUME commit_block PROVE Revalidated' /\ RulesEstablished
  <2>1. lock = "block" /\ CurrentVersion' = VersionAt(Len(chain) + 1)
    BY <1>9 DEF commit_block, CurrentVersion, VersionAt, TypeOK
  <2>2. \/ CurrentVersion = VersionAt(Len(chain) + 1) /\ lock' = "idle"
        \/ lock' = "validate" /\ todo' = txpool'
    BY <1>9 DEF commit_block, ValidateIfChanged, table
  <2> QED
    BY <2>1, <2>2 DEF Revalidated, RulesEstablished
<1>10. ASSUME undo_block PROVE Revalidated' /\ RulesEstablished
  BY <1>10, <1>other DEF undo_block
<1>11. ASSUME NEW t \in Txs, return_tx(t) PROVE Revalidated' /\ RulesEstablished
  BY <1>11, <1>other DEF return_tx
<1>12. ASSUME NEW keep \in BOOLEAN, pop_block(keep) PROVE Revalidated' /\ RulesEstablished
  BY <1>12, <1>other DEF pop_block, Free
<1>13. ASSUME pop_done PROVE Revalidated' /\ RulesEstablished
  <2>1. lock = "pop" /\ txpool' = txpool
    BY <1>13 DEF pop_done, table
  <2>2. \/ VersionAt(Len(chain) + 1) = CurrentVersion /\ lock' = "idle"
        \/ lock' = "validate" /\ todo' = txpool
    BY <1>13 DEF pop_done, ValidateIfChanged
  <2> QED
    BY <2>1, <2>2 DEF Revalidated, RulesEstablished
<1>14. ASSUME NEW t \in Txs, NEW fee_good \in BOOLEAN, validate_tx(t, fee_good) PROVE Revalidated' /\ RulesEstablished
  <2>1. lock = "validate" /\ todo' = todo \ {t} /\ UNCHANGED <<chain, lock>>
    BY <1>14 DEF validate_tx
  <2>2. /\ txpool' \subseteq txpool
        /\ t \in txpool' => nic_ok(t, CurrentVersion)
    BY <1>14 DEF validate_tx, Rejected, Drop, table, revalidate_rules
  <2> QED
    BY <2>1, <2>2, <1>v DEF Revalidated, RulesEstablished, nic_ok
<1>15. ASSUME NEW S \in SUBSET Txs, NEW m \in RelayedAs, set_relayed(S, m) PROVE Revalidated' /\ RulesEstablished
  BY <1>15, <1>other DEF set_relayed, Free
<1>16. ASSUME NEW S \in SUBSET Txs, remove_stuck_transactions(S) PROVE Revalidated' /\ RulesEstablished
  BY <1>16, <1>other DEF remove_stuck_transactions, Free
<1>17. ASSUME NEW S \in SUBSET Txs, flush_txes_from_pool(S) PROVE Revalidated' /\ RulesEstablished
  BY <1>17, <1>other DEF flush_txes_from_pool, Free
<1>18. ASSUME NEW t \in Txs, remove_tx(t) PROVE Revalidated' /\ RulesEstablished
  BY <1>18, <1>other DEF remove_tx
<1>19. ASSUME unlock PROVE Revalidated' /\ RulesEstablished
  <2>1. lock \in {"return", "validate", "remove", "init"} /\ todo = {} /\ lock' = "idle"
        /\ txpool' = txpool
    BY <1>19 DEF unlock, table
  <2> QED
    BY <2>1 DEF Revalidated, RulesEstablished
<1>20. ASSUME NEW S \in SUBSET Txs, NEW U \in SUBSET Txs, fill_block_template(S, U) PROVE Revalidated' /\ RulesEstablished
  BY <1>20, <1>other DEF fill_block_template, Free
<1>21. ASSUME restart PROVE Revalidated' /\ RulesEstablished
  BY <1>21, <1>other DEF restart, Free
<1>22. ASSUME NEW t \in Txs, init_tx(t) PROVE Revalidated' /\ RulesEstablished
  BY <1>22, <1>other DEF init_tx
<1> QED
  BY <1>0, <1>1, <1>2, <1>3, <1>4, <1>5, <1>6, <1>7, <1>8, <1>9, <1>10, <1>11, <1>12,
     <1>13, <1>14, <1>15, <1>16, <1>17, <1>18, <1>19, <1>20, <1>21, <1>22 DEF Next

-----------------------------------------------------------------------------
(* The cached block template *)

\* TemplateMinable, also while the lock is held for anything but a pop.
TemplateOK ==
  lock # "pop" /\ btc # NoTemplate =>
    /\ btc.txs \subseteq Minable /\ btc.seen \subseteq Minable
    /\ \A t \in btc.txs : InputsOK(t)
    /\ \A t, u \in btc.txs : t # u => KI[t] \cap KI[u] = {}

\* An upgrade leaves the stem phase only for a broadcast one.
LEMMA StemUp ==
  ASSUME NEW m \in Methods
  PROVE  upgrade_relay_method("stem", m) \in Broadcasted \cup {"stem"}
<1>1. m \in {"none", "local", "forward", "stem", "fluff", "block"}
  BY DEF Methods
<1> QED
  BY <1>1 DEF upgrade_relay_method, Rank, Broadcasted

\* Every step that could make the cached template wrong drops it.
LEMMA TemplateStep ==
  ASSUME TypeOK, InputCacheExact, TemplateOK, [Next]_vars
  PROVE  TemplateOK'
<1>t. txpool \subseteq Txs /\ relay \in [Txs -> Methods]
  BY DEF TypeOK
<1>none. ASSUME btc' = NoTemplate PROVE TemplateOK'
  BY <1>none DEF TemplateOK
<1>pop. ASSUME lock' = "pop" PROVE TemplateOK'
  BY <1>pop DEF TemplateOK
<1>grow. ASSUME UNCHANGED <<chain, btc>>, lock # "pop", Minable \subseteq Minable' PROVE TemplateOK'
  BY <1>grow, InputsOKSame DEF TemplateOK
<1>same. ASSUME UNCHANGED <<chain, btc, txpool, relay, m_txs_by_fee>>, lock # "pop"
         PROVE  TemplateOK'
  BY <1>same, <1>grow DEF Minable
<1>store. ASSUME NEW t, NEW m, NEW r, NEW seen, Store(t, m, r, seen), UNCHANGED chain, lock # "pop"
          PROVE  TemplateOK'
  BY <1>store, <1>none, <1>same DEF Store, IncrementCookie
<1>drop. ASSUME NEW t, Drop(t) PROVE TemplateOK'
  BY <1>drop, <1>none DEF Drop, IncrementCookie
<1>kept. ASSUME NEW t, add_tx_kept(t), UNCHANGED chain, lock # "pop" PROVE TemplateOK'
  BY <1>kept, <1>store, <1>same DEF add_tx_kept, Rejected, table, memory
<1>0. CASE UNCHANGED vars
  BY <1>0, <1>same, <1>pop DEF vars, table, memory
<1>1. ASSUME NEW t \in Txs, NEW m \in NetRelays, add_new_tx(t, m) PROVE TemplateOK'
  BY <1>1, <1>same DEF add_new_tx, Free, table, memory
<1>2. ASSUME add_new_tx_lookup PROVE TemplateOK'
  BY <1>2, <1>same DEF add_new_tx_lookup, Free, table, memory
<1>3. ASSUME add_tx PROVE TemplateOK'
  <2>1. UNCHANGED chain /\ lock # "pop"
    BY <1>3 DEF add_tx, Free
  <2>2. CASE Rejected
    BY <2>1, <2>2, <1>same DEF Rejected, table, memory
  <2>3. CASE UNCHANGED <<txpool, relay, memory>> /\ (btc' = btc \/ btc' = NoTemplate)
    BY <2>1, <2>3, <1>same, <1>none DEF memory
  <2>4. CASE btc' = NoTemplate
    BY <2>4, <1>none
  <2> QED
    BY <1>3, <2>1, <2>2, <2>3, <2>4, <1>store DEF add_tx, IncrementCookie
<1>4. ASSUME NEW t \in Txs, add_alternative_block_tx(t) PROVE TemplateOK'
  BY <1>4, <1>kept DEF add_alternative_block_tx, Free
<1>5. ASSUME prune PROVE TemplateOK'
  BY <1>5, <1>drop, <1>same, <1>pop DEF prune, take_tx, table, memory
<1>6. ASSUME begin_block PROVE TemplateOK'
  BY <1>6, <1>same DEF begin_block, Free, table, memory
<1>7. ASSUME NEW t \in Txs, block_tx(t) PROVE TemplateOK'
  BY <1>7, <1>drop, <1>same DEF block_tx, take_tx, table, memory
<1>8. ASSUME fail_block PROVE TemplateOK'
  BY <1>8, <1>same DEF fail_block, table, memory
<1>9. ASSUME commit_block PROVE TemplateOK'
  BY <1>9, <1>none DEF commit_block
<1>10. ASSUME undo_block PROVE TemplateOK'
  BY <1>10, <1>pop DEF undo_block
<1>11. ASSUME NEW t \in Txs, return_tx(t) PROVE TemplateOK'
  BY <1>11, <1>kept, <1>pop DEF return_tx
<1>12. ASSUME NEW keep \in BOOLEAN, pop_block(keep) PROVE TemplateOK'
  BY <1>12, <1>pop DEF pop_block
<1>13. ASSUME pop_done PROVE TemplateOK'
  BY <1>13, <1>none DEF pop_done
<1>14. ASSUME NEW t \in Txs, NEW fee_good \in BOOLEAN, validate_tx(t, fee_good) PROVE TemplateOK'
  BY <1>14, <1>drop, <1>same, <1>none
  DEF validate_tx, Rejected, IncrementCookie, table, memory
<1>15. ASSUME NEW S \in SUBSET Txs, NEW m \in RelayedAs, set_relayed(S, m) PROVE TemplateOK'
  <2>1. m \in Methods
    BY PoolAssumption DEF Unkept
  <2>2. /\ UNCHANGED <<chain, btc, txpool, m_txs_by_fee>> /\ lock # "pop"
        /\ \A t \in txpool : relay'[t] = relay[t] \/ relay'[t] = upgrade_relay_method(relay[t], m)
    BY <1>15, <1>t DEF set_relayed, Free
  <2>3. \A t \in txpool : /\ relay[t] \in Broadcasted => relay'[t] \in Broadcasted
                          /\ relay[t] = "stem" => relay'[t] \in Broadcasted \cup {"stem"}
    BY <2>1, <2>2, <1>t, UpgradeRank, StemUp
  <2>4. Minable \subseteq Minable'
    BY <2>2, <2>3 DEF Minable
  <2> QED
    BY <2>2, <2>4, <1>grow
<1>16. ASSUME NEW S \in SUBSET Txs, remove_stuck_transactions(S) PROVE TemplateOK'
  BY <1>16, <1>same DEF remove_stuck_transactions, Free, table, memory
<1>17. ASSUME NEW S \in SUBSET Txs, flush_txes_from_pool(S) PROVE TemplateOK'
  BY <1>17, <1>same DEF flush_txes_from_pool, Free, table, memory
<1>18. ASSUME NEW t \in Txs, remove_tx(t) PROVE TemplateOK'
  BY <1>18, <1>drop DEF remove_tx, take_tx
<1>19. ASSUME unlock PROVE TemplateOK'
  BY <1>19, <1>same DEF unlock, table, memory
<1>20. ASSUME NEW S \in SUBSET Txs, NEW U \in SUBSET Txs, fill_block_template(S, U) PROVE TemplateOK'
  <2>1. /\ UNCHANGED <<chain, lock, txpool, relay, m_txs_by_fee>> /\ lock # "pop"
        /\ btc' = [seen |-> Minable, txs |-> U] /\ S \subseteq Minable
        /\ U \subseteq {t \in S : check_tx_inputs(t)}
        /\ \A t, u \in U : t # u => KI[t] \cap KI[u] = {}
    BY <1>20 DEF fill_block_template, Free, memory
  <2>2. \A t \in U : InputsOK(t)
    BY <2>1 DEF check_tx_inputs, InputCacheExact
  <2>3. btc'.txs = U /\ btc'.seen = Minable /\ Minable' = Minable
    BY <2>1 DEF Minable
  <2> QED
    BY <2>1, <2>2, <2>3, InputsOKSame DEF TemplateOK
<1>21. ASSUME restart PROVE TemplateOK'
  BY <1>21, <1>none DEF restart
<1>22. ASSUME NEW t \in Txs, init_tx(t) PROVE TemplateOK'
  <2>1. Minable \subseteq Minable' /\ UNCHANGED <<chain, btc>> /\ lock # "pop"
    BY <1>22 DEF init_tx, Minable, table
  <2> QED
    BY <2>1, <1>grow
<1> QED
  BY <1>0, <1>1, <1>2, <1>3, <1>4, <1>5, <1>6, <1>7, <1>8, <1>9, <1>10, <1>11, <1>12,
     <1>13, <1>14, <1>15, <1>16, <1>17, <1>18, <1>19, <1>20, <1>21, <1>22 DEF Next

-----------------------------------------------------------------------------
(* The theorems *)

\* The empty pool satisfies the invariant.
LEMMA PoolInvInit == Init => PoolInv
<1> SUFFICES ASSUME Init PROVE PoolInv
  OBVIOUS
<1>1. InputCacheExact
  BY DEF Init, InputCacheExact, EmptyCache
<1>2. FailuresSound
  BY DEF Init, FailuresSound
<1> QED
  BY <1>1, <1>2, TypeInit, ControlInit, IndexesInit DEF PoolInv

\* Every step of the pool and the chain keeps the invariant.
LEMMA PoolInvStep == PoolInv /\ [Next]_vars => PoolInv'
  BY TypeStep, ControlStep, IndexesStep, CacheStep, FailuresStep DEF PoolInv

\* The inductive invariant.
THEOREM PoolInvariant == Spec => []PoolInv
<1> QED
  BY PoolInvInit, PoolInvStep, PTL DEF Spec

\* The key images, the order by fee and the list for RPC clients always agree
\* with the table, through every interleaving of arrivals, blocks, failed blocks,
\* reorganisations, expiry and restarts; the list shows nothing private.
THEOREM PoolIndexesCorrect == Spec => []PoolIndexesExact
<1>1. PoolInv => PoolIndexesExact
  BY DEF PoolInv, Indexes, PoolIndexesExact
<1> QED
  BY <1>1, PoolInvariant, PTL

\* insert_key_images never fails in add_tx or in init, and no removal misses
\* an entry: the pool's assertions do not fire.
THEOREM PoolNoInternalError == Spec => []NoInternalError
<1>1. PoolInv => NoInternalError
  BY DEF PoolInv, Indexes
<1> QED
  BY <1>1, PoolInvariant, PTL

\* No transaction is in the pool and in the chain at once, and no two of the
\* pool that did not come with a block spend the same key image.
THEOREM PoolNotOfferedTwice == Spec => []NotOfferedTwice
<1>1. PoolInv => NotOfferedTwice
  BY DEF PoolInv, Control, Indexes, NotOfferedTwice
<1> QED
  BY <1>1, PoolInvariant, PTL

\* The cache of input checks agrees with the chain whenever it is read, and a
\* failure remembered for the current top block is a failure now.
THEOREM PoolCachesSound == Spec => []CachesSound
<1>1. PoolInv => LastFailedSound
  <2> SUFFICES ASSUME PoolInv, NEW t \in txpool, last_failed_id[t] = chain
               PROVE  ~InputsOK(t)
    BY DEF LastFailedSound
  <2>1. chain # NoBlock
    BY PoolAssumption DEF PoolInv, TypeOK
  <2> QED
    BY <2>1, InputsOKHere DEF PoolInv, FailuresSound
<1>2. PoolInv => CachesSound
  BY <1>1 DEF PoolInv, CachesSound
<1> QED
  BY <1>2, PoolInvariant, PTL

\* A transaction that stays in the pool is never treated as more private than
\* it was.
THEOREM PoolRelayNeverDowngraded == Spec => RelayNeverDowngraded
<1>1. TypeOK /\ [Next]_vars => [Upgraded]_vars
  BY UpgradedStep
<1> QED
  BY <1>1, PoolTypeCorrect, PTL DEF Spec, RelayNeverDowngraded, Upgraded

\* A change of the version gives the pool back only after validate() has
\* checked all of it.
THEOREM PoolValidateEstablishesRules == Spec => ValidateEstablishesRules
<1>1. Init => Revalidated
  BY DEF Init, Revalidated
<1>2. TypeOK /\ Revalidated /\ [Next]_vars => Revalidated' /\ [RulesEstablished]_vars
  BY RevalidatedStep
<1> QED
  BY <1>1, <1>2, PoolTypeCorrect, PTL DEF Spec, ValidateEstablishesRules, RulesEstablished

\* A template served from the cache can be mined: no step that takes one of
\* its transactions out of the pool, makes it private or spends its inputs
\* leaves the cached template in place.
THEOREM PoolTemplateMinable == Spec => []TemplateMinable
<1>1. Init => TemplateOK
  BY DEF Init, TemplateOK
<1>2. PoolInv /\ TemplateOK /\ [Next]_vars => TemplateOK'
  BY TemplateStep DEF PoolInv
<1>3. TemplateOK => TemplateMinable
  BY DEF TemplateOK, TemplateMinable
<1> QED
  BY <1>1, <1>2, <1>3, PoolInvariant, PTL DEF Spec

-----------------------------------------------------------------------------
(* The weight of the pool *)

\* The total of WeightExact is a sum as in MinMaxLemmas.
LEMMA WeightSum == ASSUME NEW S PROVE MapThenSumSet(LAMBDA t : Weight[t], S) = SumOver(Weight, S)
  BY Zenon DEF MapThenSumSet, MapThenFoldSet, SumOver, SumsTo, Pick

\* The total is the weight of what the order by fee lists.
WeightOK ==
  /\ IsFiniteSet(txpool) /\ IsFiniteSet(m_txs_by_fee)
  /\ m_txpool_weight = SumOver(Weight, m_txs_by_fee)

\* The pool is light enough, or prune() has nothing more to remove.
OneUnkept == \A t, u \in txpool : ~kept_by_block(t) /\ ~kept_by_block(u) => t = u
BoundOK == pruning \/ SumOver(Weight, txpool) <= MaxWeight \/ OneUnkept
WeightInv == WeightOK /\ BoundOK

\* Sums of weights: of a set with a transaction more or less.
LEMMA SumOfTxs ==
  ASSUME NEW S \in SUBSET Txs, IsFiniteSet(S)
  PROVE  /\ SumOver(Weight, S) \in Nat
         /\ \A t \in S : SumOver(Weight, S) = Weight[t] + SumOver(Weight, S \ {t})
         /\ \A t \in Txs \ S : SumOver(Weight, S \cup {t}) = Weight[t] + SumOver(Weight, S)
         /\ \A t \in Txs : SumOver(Weight, S \ {t}) <= SumOver(Weight, S)
         /\ \A t \in Txs : SumOver(Weight, S \ {t}) \in Nat /\ Weight[t] \in Nat
<1>0. Weight \in [Txs -> Nat] /\ \A t \in Txs : Weight[t] \in Nat
  BY TxAssumption
<1>1. ASSUME NEW T \in SUBSET Txs, IsFiniteSet(T), NEW t \in T
      PROVE  /\ SumOver(Weight, T) \in Nat /\ SumOver(Weight, T \ {t}) \in Nat
             /\ SumOver(Weight, T) = Weight[t] + SumOver(Weight, T \ {t})
  BY <1>0, <1>1, SumTake
<1>2. SumOver(Weight, S) \in Nat
  <2>1. CASE S = {}
    BY <2>1, SumEmpty
  <2>2. CASE S # {}
    BY <1>1, <2>2
  <2> QED
    BY <2>1, <2>2
<1>3. ASSUME NEW t \in Txs \ S PROVE SumOver(Weight, S \cup {t}) = Weight[t] + SumOver(Weight, S)
  <2>1. S \cup {t} \in SUBSET Txs /\ IsFiniteSet(S \cup {t}) /\ t \in S \cup {t} /\ (S \cup {t}) \ {t} = S
    BY <1>3, FS_AddElement
  <2>2. SumOver(Weight, S \cup {t}) = Weight[t] + SumOver(Weight, (S \cup {t}) \ {t})
    BY <1>1, <2>1
  <2> QED
    BY <2>1, <2>2
<1>4. ASSUME NEW t \in Txs
      PROVE  SumOver(Weight, S \ {t}) <= SumOver(Weight, S) /\ SumOver(Weight, S \ {t}) \in Nat
  <2>1. CASE t \in S
    <3>1. /\ SumOver(Weight, S) \in Nat /\ SumOver(Weight, S \ {t}) \in Nat
          /\ SumOver(Weight, S) = Weight[t] + SumOver(Weight, S \ {t})
      BY <1>1, <2>1
    <3> QED
      BY <1>0, <3>1
  <2>2. CASE t \notin S
    <3>1. S \ {t} = S
      BY <2>2
    <3> QED
      BY <1>2, <3>1
  <2> QED
    BY <2>1, <2>2
<1>5. \A t \in S : SumOver(Weight, S) = Weight[t] + SumOver(Weight, S \ {t})
  BY <1>1
<1> QED
  BY <1>0, <1>2, <1>3, <1>4, <1>5

\* Steps that leave the pool and its weight alone.
LEMMA SameWeight ==
  ASSUME WeightInv, UNCHANGED <<txpool, relay, m_txpool_weight, m_txs_by_fee>>, pruning' = pruning \/ pruning'
  PROVE  WeightInv'
<1>1. WeightOK'
  BY DEF WeightInv, WeightOK
<1>2. BoundOK'
  BY DEF WeightInv, BoundOK, OneUnkept, kept_by_block
<1> QED
  BY <1>1, <1>2 DEF WeightInv

\* add_tx stores a transaction, or fails to.
LEMMA StoreWeight ==
  ASSUME PoolTypeOK, WeightInv, SortedExact, lock # "init",
         NEW t \in Txs, NEW m, NEW r, NEW seen, Store(t, m, r, seen)
  PROVE  WeightInv'
<1>1. CASE ~CanInsert(t, m)
  <2>1. UNCHANGED <<txpool, relay, m_txpool_weight, m_txs_by_fee>> /\ pruning' = pruning
    BY <1>1 DEF Store
  <2> QED
    BY <2>1, SameWeight
<1>2. CASE CanInsert(t, m)
  <2>1. /\ txpool' = txpool \cup {t} /\ m_txs_by_fee' = m_txs_by_fee \cup {t}
        /\ m_txpool_weight' = Grown(t) /\ pruning'
    BY <1>2 DEF Store
  <2>2. m_txs_by_fee = txpool /\ txpool \subseteq Txs
    BY DEF SortedExact, Loaded, PoolTypeOK
  <2>3. IsFiniteSet(txpool \cup {t}) /\ IsFiniteSet(txpool) /\ m_txpool_weight = SumOver(Weight, txpool)
    BY <2>2, FS_AddElement DEF WeightInv, WeightOK
  <2>4. m_txpool_weight' = SumOver(Weight, txpool \cup {t})
    <3>1. CASE t \in txpool
      <4>1. txpool \cup {t} = txpool
        BY <3>1
      <4> QED
        BY <2>1, <2>3, <3>1, <4>1 DEF Grown
    <3>2. CASE t \notin txpool
      <4>1. /\ SumOver(Weight, txpool \cup {t}) = Weight[t] + SumOver(Weight, txpool)
            /\ Weight[t] \in Nat /\ SumOver(Weight, txpool) \in Nat
        BY <2>2, <2>3, <3>2, SumOfTxs
      <4> QED
        BY <2>1, <2>3, <3>2, <4>1 DEF Grown
    <3> QED
      BY <3>1, <3>2
  <2>5. WeightOK'
    BY <2>1, <2>2, <2>3, <2>4 DEF WeightOK
  <2> QED
    BY <2>1, <2>5 DEF WeightInv, BoundOK
<1> QED
  BY <1>1, <1>2

\* A transaction of a block is added, or add_txpool_tx throws.
LEMMA KeptWeight ==
  ASSUME PoolTypeOK, WeightInv, SortedExact, lock # "init", NEW t \in Txs, add_tx_kept(t)
  PROVE  WeightInv'
<1>1. CASE Rejected
  BY <1>1, SameWeight DEF Rejected, table, memory
<1>2. ASSUME NEW seen, Store(t, "block", "block", seen) PROVE WeightInv'
  BY <1>2, StoreWeight
<1> QED
  BY <1>1, <1>2 DEF add_tx_kept

\* A removal.
LEMMA DropWeight ==
  ASSUME PoolTypeOK, WeightInv, NEW t \in Txs, t \in m_txs_by_fee, Drop(t), pruning' = pruning
  PROVE  WeightInv'
<1>1. /\ txpool' = txpool \ {t} /\ m_txs_by_fee' = m_txs_by_fee \ {t} /\ m_txpool_weight' = Reduced(t)
      /\ relay' = [relay EXCEPT ![t] = "none"]
  BY DEF Drop, Unsorted
<1>2. /\ txpool \subseteq Txs /\ m_txs_by_fee \subseteq Txs /\ relay \in [Txs -> Methods]
      /\ IsFiniteSet(txpool) /\ IsFiniteSet(m_txs_by_fee) /\ m_txpool_weight = SumOver(Weight, m_txs_by_fee)
  BY DEF PoolTypeOK, WeightInv, WeightOK
<1>3. IsFiniteSet(txpool') /\ IsFiniteSet(m_txs_by_fee')
  BY <1>1, <1>2, FS_Subset
<1>4. m_txpool_weight' = SumOver(Weight, m_txs_by_fee')
  <2>1. /\ SumOver(Weight, m_txs_by_fee) = Weight[t] + SumOver(Weight, m_txs_by_fee \ {t})
        /\ Weight[t] \in Nat /\ SumOver(Weight, m_txs_by_fee \ {t}) \in Nat
    BY <1>2, SumOfTxs
  <2> QED
    BY <1>1, <1>2, <2>1 DEF Reduced
<1>5. SumOver(Weight, txpool) <= MaxWeight => SumOver(Weight, txpool') <= MaxWeight
  <2>1. /\ SumOver(Weight, txpool \ {t}) <= SumOver(Weight, txpool)
        /\ SumOver(Weight, txpool \ {t}) \in Nat /\ SumOver(Weight, txpool) \in Nat
    BY <1>2, SumOfTxs
  <2> QED
    BY <1>1, <2>1, PoolAssumption
<1>6. OneUnkept => OneUnkept'
  <2>1. \A u \in txpool' : u \in txpool /\ relay'[u] = relay[u]
    BY <1>1, <1>2
  <2> QED
    BY <2>1 DEF OneUnkept, kept_by_block
<1>7. BoundOK'
  BY <1>5, <1>6 DEF WeightInv, BoundOK
<1> QED
  BY <1>3, <1>4, <1>7 DEF WeightInv, WeightOK

\* When prune() stops, the pool is light or at most one of its transactions
\* could go: of two the one with the lower fee would be removed.
LEMMA PruneEnds ==
  ASSUME PoolTypeOK, WeightInv, SortedExact, lock # "init", ~(Overweight /\ \E t \in txpool : Prunable(t))
  PROVE  SumOver(Weight, txpool) <= MaxWeight \/ OneUnkept
<1>1. m_txs_by_fee = txpool /\ txpool \subseteq Txs /\ m_txpool_weight = SumOver(Weight, txpool) /\ m_txpool_weight \in Nat
  BY DEF SortedExact, Loaded, PoolTypeOK, WeightInv, WeightOK
<1>2. CASE ~Overweight
  BY <1>1, <1>2, PoolAssumption DEF Overweight
<1>3. CASE ~ \E t \in txpool : Prunable(t)
  <2>1. SUFFICES ASSUME NEW t \in txpool, NEW u \in txpool, ~kept_by_block(t), ~kept_by_block(u), t # u PROVE FALSE
    BY DEF OneUnkept
  <2> DEFINE U == {v \in txpool : ~kept_by_block(v)}
             F == {FeeRate[v] : v \in U}
  <2>2. F \in SUBSET Nat /\ F # {}
    BY <1>1, <2>1, TxAssumption
  <2>3. PICK f \in F : \A y \in F : f <= y
    BY <2>2, MinNat
  <2>4. PICK v \in U : f = FeeRate[v]
    BY <2>3
  <2>5. \A y \in U : FeeRate[v] <= FeeRate[y]
    BY <2>3, <2>4
  <2>6. PICK y \in U : y # v
    BY <2>1
  <2>7. Prunable(v)
    BY <2>4, <2>5, <2>6 DEF Prunable
  <2> QED
    BY <1>3, <2>7
<1> QED
  BY <1>2, <1>3

\* Every step keeps the total exact and the pool light or being pruned.
LEMMA WeightStep ==
  ASSUME PoolInv, PoolInv', WeightInv, [Next]_vars
  PROVE  WeightInv'
<1>type. PoolTypeOK /\ SortedExact /\ WorkList /\ NoInternalError' /\ txpool \subseteq Txs
  BY TypeSplit DEF PoolInv, Indexes, Control, PoolTypeOK
<1>work. (lock \in {"remove", "init"} => todo \subseteq txpool) /\ (pruning => lock # "init")
  BY <1>type DEF WorkList
<1>take. ASSUME NEW t \in Txs, take_tx(t), pruning' = pruning PROVE WeightInv'
  <2>1. t \in m_txs_by_fee
    BY <1>type, <1>take DEF NoInternalError, take_tx, Drop
  <2> QED
    BY <1>take, <1>type, <2>1, DropWeight DEF take_tx
<1>same. ASSUME UNCHANGED <<table, memory>>, pruning' = pruning PROVE WeightInv'
  BY <1>same, SameWeight DEF table, memory
<1>0. CASE UNCHANGED vars
  BY <1>0, <1>same DEF vars
<1>1. ASSUME NEW t \in Txs, NEW m \in NetRelays, add_new_tx(t, m) PROVE WeightInv'
  BY <1>1, <1>same DEF add_new_tx
<1>2. ASSUME add_new_tx_lookup PROVE WeightInv'
  BY <1>2, <1>same DEF add_new_tx_lookup
<1>3. ASSUME add_tx PROVE WeightInv'
  <2> DEFINE m == Dandelion(in_tx, in_relay)
             r == IF in_tx \in txpool THEN upgrade_relay_method(relay[in_tx], m) ELSE m
  <2>1. in_tx \in Txs /\ lock # "init"
    BY <1>3 DEF add_tx, Free, PoolInv, TypeOK
  <2>2. CASE UNCHANGED <<table, memory>> /\ (pruning' = pruning \/ pruning' = TRUE)
    BY <2>2, SameWeight DEF table, memory
  <2>3. CASE UNCHANGED <<txpool, relay, last_failed_id, memory, pruning>>
    BY <2>3, SameWeight DEF memory
  <2>4. CASE Store(in_tx, m, r, FALSE)
    <3> HIDE DEF m, r
    <3> QED
      BY <2>1, <2>4, <1>type, StoreWeight
  <2> QED
    BY <1>3, <2>2, <2>3, <2>4 DEF add_tx, Rejected
<1>4. ASSUME NEW t \in Txs, add_alternative_block_tx(t) PROVE WeightInv'
  BY <1>4, <1>type, KeptWeight DEF add_alternative_block_tx, Free
<1>5. ASSUME prune PROVE WeightInv'
  <2>1. lock # "init"
    BY <1>5, <1>work DEF prune
  <2>2. CASE Overweight /\ \E t \in txpool : Prunable(t)
    BY <1>5, <2>2, <1>type, <1>take DEF prune
  <2>3. CASE ~(Overweight /\ \E t \in txpool : Prunable(t))
    <3>1. UNCHANGED <<txpool, relay, m_txpool_weight, m_txs_by_fee>>
      BY <1>5, <2>3 DEF prune, table, memory
    <3>2. SumOver(Weight, txpool) <= MaxWeight \/ OneUnkept
      BY <1>type, <2>1, <2>3, PruneEnds
    <3>3. WeightOK'
      BY <3>1 DEF WeightInv, WeightOK
    <3>4. BoundOK'
      BY <3>1, <3>2 DEF BoundOK, OneUnkept, kept_by_block
    <3> QED
      BY <3>3, <3>4 DEF WeightInv
  <2> QED
    BY <2>2, <2>3
<1>6. ASSUME begin_block PROVE WeightInv'
  BY <1>6, <1>same DEF begin_block
<1>7. ASSUME NEW t \in Txs, block_tx(t) PROVE WeightInv'
  BY <1>7, <1>same, <1>take DEF block_tx
<1>8. ASSUME fail_block PROVE WeightInv'
  BY <1>8, <1>same DEF fail_block
<1>9. ASSUME commit_block PROVE WeightInv'
  BY <1>9, SameWeight DEF commit_block, table
<1>10. ASSUME undo_block PROVE WeightInv'
  BY <1>10, <1>same DEF undo_block
<1>11. ASSUME NEW t \in Txs, return_tx(t) PROVE WeightInv'
  BY <1>11, <1>type, KeptWeight DEF return_tx
<1>12. ASSUME NEW keep_txs \in BOOLEAN, pop_block(keep_txs) PROVE WeightInv'
  BY <1>12, <1>same DEF pop_block
<1>13. ASSUME pop_done PROVE WeightInv'
  BY <1>13, SameWeight DEF pop_done, table
<1>14. ASSUME NEW t \in Txs, NEW fee_good \in BOOLEAN, validate_tx(t, fee_good) PROVE WeightInv'
  <2>1. CASE Rejected
    BY <2>1, <1>same DEF Rejected
  <2>2. CASE /\ t \in txpool /\ m_txpool_weight' = Reduced(t) + Weight[t] /\ pruning'
             /\ UNCHANGED <<table, m_txs_by_fee>>
    <3>1. lock # "init"
      BY <1>14 DEF validate_tx
    <3>2. m_txs_by_fee = txpool
      BY <1>type, <3>1 DEF SortedExact, Loaded
    <3>3. /\ SumOver(Weight, m_txs_by_fee) = Weight[t] + SumOver(Weight, m_txs_by_fee \ {t})
          /\ Weight[t] \in Nat /\ SumOver(Weight, m_txs_by_fee \ {t}) \in Nat
          /\ m_txpool_weight = SumOver(Weight, m_txs_by_fee)
      BY <1>type, <2>2, <3>2, SumOfTxs DEF WeightInv, WeightOK
    <3>4. m_txpool_weight' = m_txpool_weight
      BY <2>2, <3>3 DEF Reduced
    <3> QED
      BY <2>2, <3>4, SameWeight DEF table
  <2>3. CASE Drop(t) /\ UNCHANGED pruning
    <3>1. t \in m_txs_by_fee
      BY <1>type, <2>3 DEF NoInternalError, Drop
    <3> QED
      BY <1>type, <2>3, <3>1, DropWeight
  <2> QED
    BY <1>14, <2>1, <2>2, <2>3 DEF validate_tx
<1>15. ASSUME NEW S \in SUBSET Txs, NEW m \in RelayedAs, set_relayed(S, m) PROVE WeightInv'
  <2>1. UNCHANGED <<txpool, m_txpool_weight, m_txs_by_fee, pruning>>
    BY <1>15 DEF set_relayed
  <2>2. \A t \in txpool : relay'[t] = relay[t] \/ relay'[t] = upgrade_relay_method(relay[t], m)
    BY <1>15, <1>type DEF set_relayed
  <2>3. \A t \in txpool : relay[t] = "block" => relay'[t] = "block"
    <3>1. m \in Methods
      BY PoolAssumption DEF Unkept
    <3> QED
      BY <1>type, <2>2, <3>1, UpgradeRank DEF PoolTypeOK
  <2>4. OneUnkept => OneUnkept'
    BY <2>1, <2>3 DEF OneUnkept, kept_by_block
  <2> QED
    BY <2>1, <2>4 DEF WeightInv, WeightOK, BoundOK
<1>16. ASSUME NEW S \in SUBSET Txs, remove_stuck_transactions(S) PROVE WeightInv'
  BY <1>16, <1>same DEF remove_stuck_transactions
<1>17. ASSUME NEW S \in SUBSET Txs, flush_txes_from_pool(S) PROVE WeightInv'
  BY <1>17, <1>same DEF flush_txes_from_pool
<1>18. ASSUME NEW t \in Txs, remove_tx(t) PROVE WeightInv'
  BY <1>18, <1>take DEF remove_tx
<1>19. ASSUME unlock PROVE WeightInv'
  BY <1>19, <1>same DEF unlock
<1>20. ASSUME NEW S \in SUBSET Txs, NEW U \in SUBSET Txs, fill_block_template(S, U) PROVE WeightInv'
  BY <1>20, SameWeight DEF fill_block_template, memory
<1>21. ASSUME restart PROVE WeightInv'
  <2>1. UNCHANGED <<txpool, relay, pruning>> /\ m_txpool_weight' = 0 /\ m_txs_by_fee' = {}
    BY <1>21 DEF restart, table
  <2>2. WeightOK'
    BY <2>1, SumEmpty, FS_EmptySet DEF WeightInv, WeightOK
  <2>3. BoundOK'
    BY <2>1 DEF WeightInv, BoundOK, OneUnkept, kept_by_block
  <2> QED
    BY <2>2, <2>3 DEF WeightInv
<1>22. ASSUME NEW t \in Txs, init_tx(t) PROVE WeightInv'
  <2>1. /\ UNCHANGED <<txpool, relay, pruning>> /\ m_txpool_weight' = m_txpool_weight + Weight[t]
        /\ m_txs_by_fee' = m_txs_by_fee \cup {t} /\ t \notin m_txs_by_fee
    BY <1>22, <1>type DEF init_tx, table, SortedExact, Loaded
  <2>2. m_txs_by_fee \in SUBSET Txs /\ IsFiniteSet(m_txs_by_fee) /\ m_txpool_weight = SumOver(Weight, m_txs_by_fee)
    BY <1>type DEF PoolTypeOK, WeightInv, WeightOK
  <2>3. /\ SumOver(Weight, m_txs_by_fee \cup {t}) = Weight[t] + SumOver(Weight, m_txs_by_fee)
        /\ Weight[t] \in Nat /\ SumOver(Weight, m_txs_by_fee) \in Nat
    BY <2>1, <2>2, SumOfTxs
  <2>4. m_txpool_weight' = SumOver(Weight, m_txs_by_fee') /\ IsFiniteSet(m_txs_by_fee')
    BY <2>1, <2>2, <2>3, FS_AddElement
  <2>5. BoundOK' /\ IsFiniteSet(txpool')
    BY <2>1 DEF WeightInv, WeightOK, BoundOK, OneUnkept, kept_by_block
  <2> QED
    BY <2>4, <2>5 DEF WeightInv, WeightOK
<1> QED
  BY <1>0, <1>1, <1>2, <1>3, <1>4, <1>5, <1>6, <1>7, <1>8, <1>9, <1>10, <1>11, <1>12,
     <1>13, <1>14, <1>15, <1>16, <1>17, <1>18, <1>19, <1>20, <1>21, <1>22 DEF Next

\* m_txpool_weight is the sum of the weights in the pool through every add,
\* upgrade, take, return, expiry, validation and load, and whenever the pool is
\* given back it is within its limit, or prune() may remove nothing more.
THEOREM PoolWeightSound == Spec => []WeightSound
<1>1. Init => WeightInv
  <2> SUFFICES ASSUME Init PROVE WeightInv
    OBVIOUS
  <2>1. txpool = {} /\ m_txs_by_fee = {} /\ m_txpool_weight = 0
    BY DEF Init
  <2> QED
    BY <2>1, SumEmpty, FS_EmptySet DEF WeightInv, WeightOK, BoundOK, OneUnkept
<1>2. PoolInv /\ PoolInv' /\ WeightInv /\ [Next]_vars => WeightInv'
  BY WeightStep
<1>3. PoolInv /\ WeightInv => WeightSound
  <2> SUFFICES ASSUME PoolInv, WeightInv PROVE WeightSound
    OBVIOUS
  <2>1. m_txs_by_fee = Loaded /\ m_txpool_weight = SumOver(Weight, Loaded)
    BY DEF PoolInv, Indexes, SortedExact, WeightInv, WeightOK
  <2>2. WeightExact
    BY <2>1, WeightSum DEF WeightExact
  <2>3. WeightBounded
    BY <2>1 DEF WeightInv, BoundOK, OneUnkept, WeightBounded, Free, Loaded
  <2> QED
    BY <2>2, <2>3 DEF WeightSound
<1> QED
  BY <1>1, <1>2, <1>3, PoolInvariant, PTL DEF Spec

-----------------------------------------------------------------------------
(* The pool beside the download of the chain *)

\* What the node learns from the network, in one specification: m_sync_lock has
\* one owner, who alone has a span in hand, the contexts of the connections and
\* the entries of the pool keep their types, and the pool's weight is not negative.
THEOREM NodeTypesCorrect == NodeSpec => []NodeTypeOK
<1>1. NodeInit => SyncInv /\ TypeOK
  BY InitSyncInv, TypeInit DEF NodeInit
<1>2. [NodeNext]_nodeVars => [SyncNext]_syncVars /\ [Next]_vars
  BY Zenon DEF NodeNext, nodeVars
<1>3. SyncInv /\ TypeOK /\ [NodeNext]_nodeVars => SyncInv' /\ TypeOK'
  BY <1>2, NextSyncInv, TypeStep
<1>4. SyncInv /\ TypeOK => NodeTypeOK
  BY SyncTyped DEF NodeTypeOK
<1> QED
  BY <1>1, <1>3, <1>4, PTL DEF NodeSpec
=============================================================================
