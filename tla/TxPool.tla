------------------------------- MODULE TxPool -------------------------------
(***************************************************************************)
(* The transaction pool (src/cryptonote_core/tx_pool.cpp) together with    *)
(* the parts of Blockchain and core that change it.                        *)
(*                                                                         *)
(* The pool table (txpool, relay, double_spend_seen, last_failed_id) is in *)
(* LMDB; everything else the pool keeps about it is in memory and updated  *)
(* by hand: the key image index, the total weight, the order by fee, the   *)
(* incremental list for RPC clients, the cache of input checks, and the    *)
(* cookie that guards the cached block template.                           *)
(*                                                                         *)
(* Whoever changes the pool holds m_transactions_lock.  `lock' says what   *)
(* for, and the loops that run under it (taking a block's transactions,    *)
(* returning them, re-validating the pool, loading it at start) are one    *)
(* step per transaction over `todo'; `pruning' marks the call of prune()   *)
(* that ends every add_tx.  A network transaction is looked up before the  *)
(* lock is taken, under m_incoming_tx_lock only (`in_tx').                 *)
(***************************************************************************)
EXTENDS Integers, Sequences, SequencesExt

CONSTANTS
  Txs,          \* transaction ids
  KeyImages,
  KI,           \* KI[t]: the key images t spends
  Needs,        \* Needs[t]: transactions whose outputs t's rings refer to
  Weight,       \* Weight[t]
  FeeRate,      \* FeeRate[t]: fee per byte
  NicValid,     \* NicValid[t]: versions whose non-input rules t satisfies
  ForkHeight,   \* the height from which version 2 applies
  MaxWeight,    \* m_txpool_max_weight
  MineStem,     \* m_mine_stem_txes
  NetRelays,    \* relay methods by which transactions arrive
  RelayedAs,    \* relay methods set_relayed is called with
  MaxChain,     \* bound: the longest chain explored
  NoTx, NoBlock, NoTemplate

Methods == {"none", "local", "forward", "stem", "fluff", "block"}
Unkept == Methods \ {"block"}
Versions == {1, 2}
NoVersion == 0

ASSUME TxAssumption ==
  /\ KI \in [Txs -> SUBSET KeyImages]
  /\ Needs \in [Txs -> SUBSET Txs]
  /\ Weight \in [Txs -> Nat]
  /\ FeeRate \in [Txs -> Nat]
  /\ NicValid \in [Txs -> SUBSET Versions]
ASSUME SpendAssumption == \A t \in Txs : KI[t] # {}
ASSUME PoolAssumption ==
  /\ ForkHeight \in Nat /\ MaxWeight \in Nat /\ MaxChain \in Nat
  /\ MineStem \in BOOLEAN
  /\ NetRelays \subseteq Unkept /\ RelayedAs \subseteq Unkept
  /\ NoTx \notin Txs /\ NoBlock \notin Seq(SUBSET Txs)

VARIABLES
  chain,                     \* the transactions of each block above genesis
  \* the pool's table
  txpool, relay, double_spend_seen, last_failed_id,
  \* the pool's memory
  m_spent_key_images, m_txpool_weight, m_txs_by_fee, m_added_txs_by_id,
  m_timed_out_transactions, m_input_cache, internal_error,
  \* the cached block template, valid while m_cookie has not moved
  btc,
  \* the holder of the pool's lock
  lock, todo, pruning, block_txs,
  \* the transaction being handled under m_incoming_tx_lock
  in_tx, in_relay, in_version

table == <<txpool, relay, double_spend_seen, last_failed_id>>
memory == <<m_spent_key_images, m_txpool_weight, m_txs_by_fee, m_added_txs_by_id,
            internal_error>>
incoming == <<in_tx, in_relay, in_version>>
vars == <<chain, table, memory, m_timed_out_transactions, m_input_cache, btc,
          lock, todo, pruning, block_txs, incoming>>

-----------------------------------------------------------------------------
(* Relay methods and categories *)

Rank == [none |-> 0, local |-> 1, forward |-> 2, stem |-> 3, fluff |-> 4, block |-> 5]
Broadcasted == {"fluff", "block"}
Legacy == {"none", "fluff", "block"}

\* Fault: the method received last wins.
upgrade_relay_method_Last(old, method) == method

\* upgrade_relay_method: the method only moves up.
upgrade_relay_method(old, method) == IF Rank[old] < Rank[method] THEN method ELSE old

kept_by_block(t) == relay[t] = "block"
have_tx_legacy(t) == t \in txpool /\ relay[t] \in Legacy

\* The `sensitive' flag of an entry of m_added_txs_by_id.
Sensitivity(method) == IF method \in Broadcasted THEN "public" ELSE "sensitive"

-----------------------------------------------------------------------------
(* The chain, as the pool sees it *)

ChainTxs == UNION {chain[i] : i \in 1..Len(chain)}
VersionAt(height) == IF height >= ForkHeight THEN 2 ELSE 1
CurrentVersion == VersionAt(Len(chain))
nic_ok(t, version) == version \in NicValid[t]

\* Blockchain::check_tx_inputs: the ring members exist, the images are unspent.
InputsOK(t) ==
  /\ Needs[t] \subseteq ChainTxs
  /\ \A u \in ChainTxs : KI[u] \cap KI[t] = {}

\* tx_memory_pool::check_tx_inputs for a transaction that is not kept by block.
check_tx_inputs(t) ==
  IF m_input_cache[t] = "none" THEN InputsOK(t) ELSE m_input_cache[t] = "ok"
CacheInputs(S) == [t \in Txs |-> IF t \in S /\ m_input_cache[t] = "none"
                                 THEN IF InputsOK(t) THEN "ok" ELSE "bad"
                                 ELSE m_input_cache[t]]
EmptyCache == [t \in Txs |-> "none"]

-----------------------------------------------------------------------------
(* The key image index *)

have_tx_keyimges_as_spent(t) ==
  \E k \in KI[t] : /\ m_spent_key_images[k] # {}
                   /\ m_spent_key_images[k] # {t} \/ have_tx_legacy(t)

Sharing(t) == UNION {m_spent_key_images[k] : k \in KI[t]}

mark_double_spend(t) == double_spend_seen' = double_spend_seen \cup (Sharing(t) \cap txpool)

\* insert_key_images returns true.
CanInsert(t, method) ==
  \A k \in KI[t] :
    /\ method = "block" \/ m_spent_key_images[k] \subseteq {t}
    /\ t \notin m_spent_key_images[k] \/ ~have_tx_legacy(t)

Indexed(t) == [k \in KeyImages |-> IF k \in KI[t] THEN m_spent_key_images[k] \cup {t}
                                                  ELSE m_spent_key_images[k]]

\* Fault: an image that another transaction spends too keeps this one.
Unindexed_SharedKept(t) == [k \in KeyImages |-> IF m_spent_key_images[k] = {t} THEN {}
                                                ELSE m_spent_key_images[k]]

\* remove_transaction_keyimages
Unindexed(t) == [k \in KeyImages |-> m_spent_key_images[k] \ {t}]

\* The weight is counted when m_added_to_pool is set, not when a relay method
\* is upgraded.
Grown(t) == IF t \in txpool THEN m_txpool_weight ELSE m_txpool_weight + Weight[t]

\* reduce_txpool_weight
Reduced(t) == IF Weight[t] > m_txpool_weight THEN 0 ELSE m_txpool_weight - Weight[t]

\* remove_tx_from_transient_lists
Unsorted(t) == m_txs_by_fee \ {t}

\* Fault: the cookie is not incremented.
IncrementCookie_Not == UNCHANGED btc

\* ++m_cookie: the template cached under the old value is not served any more.
IncrementCookie == btc' = NoTemplate

-----------------------------------------------------------------------------
(* Putting a transaction in and taking it out *)

\* The tail of add_tx: key images, table, transient lists, weight, cookie,
\* prune.  An insert_key_images that fails is an internal error.
Store(t, method, new_relay, seen) ==
  IF CanInsert(t, method)
  THEN /\ txpool' = txpool \cup {t}
       /\ relay' = [relay EXCEPT ![t] = new_relay]
       /\ double_spend_seen' = IF seen THEN double_spend_seen \cup {t}
                                       ELSE double_spend_seen \ {t}
       /\ last_failed_id' = [last_failed_id EXCEPT ![t] = NoBlock]
       /\ m_spent_key_images' = Indexed(t)
       /\ m_txpool_weight' = Grown(t)
       /\ m_txs_by_fee' = m_txs_by_fee \cup {t}
       /\ m_added_txs_by_id' = [m_added_txs_by_id EXCEPT ![t] = Sensitivity(new_relay)]
       /\ IncrementCookie
       /\ pruning' = TRUE
       /\ UNCHANGED internal_error
  ELSE internal_error' = TRUE /\ UNCHANGED <<txpool, relay, double_spend_seen,
         last_failed_id, m_spent_key_images, m_txpool_weight, m_txs_by_fee,
         m_added_txs_by_id, btc, pruning>>

\* What every removal does; the asserts of remove_transaction_keyimages and
\* remove_tx_from_transient_lists are internal errors.
Drop(t) ==
  /\ txpool' = txpool \ {t}
  /\ relay' = [relay EXCEPT ![t] = "none"]
  /\ last_failed_id' = [last_failed_id EXCEPT ![t] = NoBlock]
  /\ m_spent_key_images' = Unindexed(t)
  /\ m_txpool_weight' = Reduced(t)
  /\ m_txs_by_fee' = Unsorted(t)
  /\ m_added_txs_by_id' = [m_added_txs_by_id EXCEPT ![t] = "absent"]
  /\ internal_error' = (internal_error \/ t \notin m_txs_by_fee
                          \/ \E k \in KI[t] : t \notin m_spent_key_images[k])
  /\ IncrementCookie

take_tx(t) == Drop(t) /\ double_spend_seen' = double_spend_seen \ {t}

Free == lock = "idle" /\ ~pruning
Rejected == UNCHANGED <<table, memory, btc, pruning>>

-----------------------------------------------------------------------------
(* add_tx for a transaction that is kept by block *)

add_tx_kept(t) ==
  \/ /\ InputsOK(t)
     /\ Store(t, "block", "block", FALSE)
  \/ /\ ~InputsOK(t) /\ t \notin txpool
     /\ Store(t, "block", "block", have_tx_keyimges_as_spent(t))
  \/ /\ ~InputsOK(t) /\ t \in txpool  \* add_txpool_tx throws
     /\ Rejected

-----------------------------------------------------------------------------
(* A transaction from the network or from RPC: core::add_new_tx *)

\* add_new_tx begins: have_tx in the pool, before any lock of the pool is kept.
add_new_tx(t, method) ==
  /\ Free /\ in_tx = NoTx
  /\ ~have_tx_legacy(t)
  /\ in_tx' = t /\ in_relay' = method
  /\ UNCHANGED <<chain, table, memory, m_timed_out_transactions, m_input_cache, btc,
                 lock, todo, pruning, block_txs, in_version>>

\* It looks in the chain and reads the hard fork version.
add_new_tx_lookup ==
  /\ Free /\ in_tx # NoTx /\ in_version = NoVersion
  /\ IF in_tx \in ChainTxs
     THEN in_tx' = NoTx /\ in_relay' = "none" /\ UNCHANGED in_version
     ELSE in_version' = CurrentVersion /\ UNCHANGED <<in_tx, in_relay>>
  /\ UNCHANGED <<chain, table, memory, m_timed_out_transactions, m_input_cache, btc,
                 lock, todo, pruning, block_txs>>

\* A stem transaction seen again in the stem phase has looped: fluff it.
Dandelion(t, method) ==
  IF method = "stem" /\ t \in txpool /\ relay[t] = "stem" THEN "fluff" ELSE method

\* tx_memory_pool::add_tx for the incoming transaction.
add_tx ==
  /\ Free /\ in_tx # NoTx /\ in_version # NoVersion
  /\ LET t == in_tx
         method == Dandelion(t, in_relay)
         new_relay == IF t \in txpool THEN upgrade_relay_method(relay[t], method) ELSE method
         passes == /\ t \notin m_timed_out_transactions
                   /\ ~have_tx_keyimges_as_spent(t)
                   /\ nic_ok(t, in_version)
     IN \/ /\ Rejected  \* timed out, low fee, extra too big, rules of the version
           /\ UNCHANGED m_input_cache
        \/ /\ have_tx_keyimges_as_spent(t) /\ t \notin m_timed_out_transactions
           /\ mark_double_spend(t)
           /\ btc' = IF double_spend_seen' = double_spend_seen THEN btc ELSE NoTemplate
           /\ UNCHANGED <<txpool, relay, last_failed_id, memory, pruning, m_input_cache>>
        \/ /\ passes /\ ~check_tx_inputs(t)
           /\ Rejected
           /\ m_input_cache' = CacheInputs({t})
        \/ /\ passes /\ check_tx_inputs(t)
           /\ m_input_cache' = CacheInputs({t})
           /\ IF t \in txpool /\ new_relay = relay[t]
              THEN IncrementCookie /\ pruning' = TRUE /\ UNCHANGED <<table, memory>>
              ELSE Store(t, method, new_relay, FALSE)
  /\ in_tx' = NoTx /\ in_relay' = "none" /\ in_version' = NoVersion
  /\ UNCHANGED <<chain, m_timed_out_transactions, lock, todo, block_txs>>

\* Fault: the chain is not consulted.
add_alternative_block_tx_NoLookup(t) ==
  /\ Free /\ in_tx = NoTx
  /\ ~have_tx_legacy(t)
  /\ \E height \in 0..MaxChain : nic_ok(t, VersionAt(height))
  /\ add_tx_kept(t)
  /\ UNCHANGED <<chain, m_timed_out_transactions, m_input_cache, lock, todo, block_txs,
                 incoming>>

\* One transaction of an alternative block's supplement, verified for the
\* version of that block (handle_alternative_block).
add_alternative_block_tx(t) ==
  /\ Free /\ in_tx = NoTx
  /\ ~have_tx_legacy(t) /\ t \notin ChainTxs
  /\ \E height \in 0..MaxChain : nic_ok(t, VersionAt(height))
  /\ add_tx_kept(t)
  /\ UNCHANGED <<chain, m_timed_out_transactions, m_input_cache, lock, todo, block_txs,
                 incoming>>

\* The transaction prune()'s iterator, coming up from the lowest fee per byte,
\* removes next: kept ones are passed over, the first of the order is not reached.
Prunable(t) ==
  /\ t \in txpool /\ ~kept_by_block(t)
  /\ \A u \in txpool : ~kept_by_block(u) => FeeRate[t] <= FeeRate[u]
  /\ \E u \in txpool \ {t} : FeeRate[t] <= FeeRate[u]

\* Fault: the limit may be exceeded by one.
Overweight_ByOne == m_txpool_weight > MaxWeight + 1

Overweight == m_txpool_weight > MaxWeight

\* One round of the loop of prune(m_txpool_max_weight).
prune ==
  /\ pruning
  /\ IF Overweight /\ (\E t \in txpool : Prunable(t))
     THEN /\ \E t \in txpool : Prunable(t) /\ take_tx(t)
          /\ UNCHANGED pruning
     ELSE pruning' = FALSE /\ UNCHANGED <<table, memory, btc>>
  /\ UNCHANGED <<chain, m_timed_out_transactions, m_input_cache, lock, todo, block_txs,
                 incoming>>

-----------------------------------------------------------------------------
(* handle_block_to_main_chain *)

\* The block passes the checks made before its transactions are looked at.
begin_block ==
  /\ Free /\ in_tx = NoTx
  /\ Len(chain) < MaxChain
  /\ lock' = "block"
  /\ UNCHANGED <<chain, table, memory, m_timed_out_transactions, m_input_cache, btc,
                 todo, pruning, block_txs, incoming>>

\* A transaction of the block, taken from the pool or from the supplement;
\* wrong inputs send everything taken so far back to the pool.
block_tx(t) ==
  /\ lock = "block"
  /\ t \notin block_txs /\ t \notin ChainTxs
  /\ \/ t \in txpool /\ take_tx(t) /\ todo' = todo \cup {t}
     \/ t \notin txpool /\ nic_ok(t, CurrentVersion) /\ UNCHANGED <<table, memory, btc, todo>>
  /\ IF InputsOK(t) THEN lock' = "block" /\ block_txs' = block_txs \cup {t}
                    ELSE lock' = "return" /\ block_txs' = {}
  /\ UNCHANGED <<chain, m_timed_out_transactions, m_input_cache, pruning, incoming>>

\* A transaction is missing or in the chain already, the miner transaction is
\* wrong, or the database refuses the block.
fail_block ==
  /\ lock = "block"
  /\ lock' = "return" /\ block_txs' = {}
  /\ UNCHANGED <<chain, table, memory, m_timed_out_transactions, m_input_cache, btc,
                 todo, pruning, incoming>>

\* A round of return_txs_to_pool, or of the loop of pop_block_from_blockchain.
return_tx(t) ==
  /\ lock \in {"return", "pop"} /\ ~pruning /\ t \in todo
  /\ add_tx_kept(t)
  /\ todo' = todo \ {t}
  /\ UNCHANGED <<chain, m_timed_out_transactions, m_input_cache, lock, block_txs, incoming>>

\* Fault: the cache of input checks survives the new block.
AfterBlock_KeepsCache == UNCHANGED m_input_cache

\* on_blockchain_inc / on_blockchain_dec
AfterBlock == m_input_cache' = EmptyCache

\* validate() is called when the version changed; it throws the incremental
\* list away and goes over every transaction of the pool.
ValidateIfChanged(old, new) ==
  IF old = new THEN lock' = "idle" /\ todo' = {} /\ UNCHANGED m_added_txs_by_id
  ELSE /\ lock' = "validate" /\ todo' = txpool
       /\ m_added_txs_by_id' = [t \in Txs |-> "absent"]

\* The database accepts the block (no key image twice), and its height has
\* advanced when the pool is told.
commit_block ==
  /\ lock = "block"
  /\ \A t, u \in block_txs : t # u => KI[t] \cap KI[u] = {}
  /\ chain' = Append(chain, block_txs)
  /\ AfterBlock
  /\ btc' = NoTemplate
  /\ ValidateIfChanged(CurrentVersion, VersionAt(Len(chain) + 1))
  /\ block_txs' = {}
  /\ UNCHANGED <<table, m_spent_key_images, m_txpool_weight, m_txs_by_fee, internal_error,
                 m_timed_out_transactions, pruning, incoming>>

\* The block was added but update_next_cumulative_weight_limit fails, and it
\* is popped again with all its transactions.
undo_block ==
  /\ lock = "block"
  /\ \A t, u \in block_txs : t # u => KI[t] \cap KI[u] = {}
  /\ lock' = "pop" /\ todo' = block_txs /\ block_txs' = {}
  /\ UNCHANGED <<chain, table, memory, m_timed_out_transactions, m_input_cache, btc,
                 pruning, incoming>>

-----------------------------------------------------------------------------
(* pop_block_from_blockchain, called by reorganisations and by pop_blocks:  *)
(* the latter does not hold m_incoming_tx_lock.                             *)

pop_block(keep_txs) ==
  /\ Free /\ chain # <<>>
  /\ chain' = Front(chain)
  /\ lock' = "pop"
  /\ todo' = IF keep_txs THEN Last(chain) ELSE {}
  /\ UNCHANGED <<table, memory, m_timed_out_transactions, m_input_cache, btc, pruning,
                 block_txs, incoming>>

\* The transactions are back: the caches go, and the pool is validated when
\* the current version changed.
pop_done ==
  /\ lock = "pop" /\ todo = {} /\ ~pruning
  /\ AfterBlock
  /\ btc' = NoTemplate
  /\ ValidateIfChanged(VersionAt(Len(chain) + 1), CurrentVersion)
  /\ UNCHANGED <<chain, table, m_spent_key_images, m_txpool_weight, m_txs_by_fee,
                 internal_error, m_timed_out_transactions, pruning, block_txs, incoming>>

-----------------------------------------------------------------------------
(* validate *)

\* Whether another transaction of the pool spends an image of t.
SpentByOther(t) == \E k \in KI[t] : m_spent_key_images[k] \ {t} # {}

\* Fault: transactions kept by block are not verified again.
revalidate_rules_Unkept(t) == kept_by_block(t) \/ nic_ok(t, CurrentVersion)

\* add_tx called with nic_verified_hf_version = 0.
revalidate_rules(t) == nic_ok(t, CurrentVersion)

\* One round: the transaction is taken out and added back with its own relay
\* method; on success its old metadata is restored.  One that prune() removed
\* in the meantime cannot be taken and is not added.
validate_tx(t, fee_good) ==
  /\ lock = "validate" /\ ~pruning /\ t \in todo
  /\ todo' = todo \ {t}
  /\ LET kept == kept_by_block(t)
         not_spent == kept \/ (t \notin m_timed_out_transactions /\ fee_good /\ ~SpentByOther(t))
         checked == not_spent /\ revalidate_rules(t)
         passes == checked /\ (kept \/ check_tx_inputs(t))
     IN \/ /\ t \notin txpool
           /\ Rejected /\ UNCHANGED m_input_cache
        \/ /\ t \in txpool
           /\ m_input_cache' = IF checked /\ ~kept THEN CacheInputs({t}) ELSE m_input_cache
           /\ IF passes
              THEN /\ m_added_txs_by_id' = [m_added_txs_by_id EXCEPT ![t] = Sensitivity(relay[t])]
                   /\ m_txpool_weight' = Reduced(t) + Weight[t]
                   /\ IncrementCookie /\ pruning' = TRUE
                   /\ UNCHANGED <<table, m_spent_key_images, m_txs_by_fee, internal_error>>
              ELSE /\ Drop(t)
                   /\ double_spend_seen' =
                        IF ~kept /\ fee_good /\ t \notin m_timed_out_transactions
                        THEN (double_spend_seen \cup (Sharing(t) \cap txpool)) \ {t}
                        ELSE double_spend_seen \ {t}
                   /\ UNCHANGED pruning
  /\ UNCHANGED <<chain, m_timed_out_transactions, lock, block_txs, incoming>>

-----------------------------------------------------------------------------
(* Relaying, expiry, flushing *)

\* The incremental list after set_relayed: what was just broadcast is listed anew.
Announced(S, method) ==
  [t \in Txs |-> IF /\ t \in S \cap txpool
                    /\ relay[t] \notin Broadcasted
                    /\ upgrade_relay_method(relay[t], method) \in Broadcasted
                 THEN "public" ELSE m_added_txs_by_id[t]]

\* set_relayed, from core::on_transactions_relayed (under m_incoming_tx_lock).
\* m_cookie is left alone.
set_relayed(S, method) ==
  /\ Free /\ in_tx = NoTx
  /\ relay' = [t \in Txs |-> IF t \in S \cap txpool THEN upgrade_relay_method(relay[t], method)
                                                   ELSE relay[t]]
  /\ m_added_txs_by_id' = Announced(S, method)
  /\ UNCHANGED <<chain, txpool, double_spend_seen, last_failed_id, m_spent_key_images,
                 m_txpool_weight, m_txs_by_fee, internal_error, m_timed_out_transactions,
                 m_input_cache, btc, lock, todo, pruning, block_txs, incoming>>

\* remove_stuck_transactions: S are the transactions past their life time.
remove_stuck_transactions(S) ==
  /\ Free /\ S # {} /\ S \subseteq txpool
  /\ m_timed_out_transactions' = m_timed_out_transactions \cup S
  /\ lock' = "remove" /\ todo' = S
  /\ UNCHANGED <<chain, table, memory, m_input_cache, btc, pruning, block_txs, incoming>>

\* Blockchain::flush_txes_from_pool
flush_txes_from_pool(S) ==
  /\ Free /\ S # {} /\ S \subseteq txpool
  /\ lock' = "remove" /\ todo' = S
  /\ UNCHANGED <<chain, table, memory, m_timed_out_transactions, m_input_cache, btc,
                 pruning, block_txs, incoming>>

remove_tx(t) ==
  /\ lock = "remove" /\ t \in todo
  /\ take_tx(t)
  /\ todo' = todo \ {t}
  /\ UNCHANGED <<chain, m_timed_out_transactions, m_input_cache, lock, pruning, block_txs,
                 incoming>>

unlock ==
  /\ lock \in {"return", "validate", "remove", "init"} /\ todo = {} /\ ~pruning
  /\ lock' = "idle"
  /\ UNCHANGED <<chain, table, memory, m_timed_out_transactions, m_input_cache, btc,
                 todo, pruning, block_txs, incoming>>

-----------------------------------------------------------------------------
(* Block templates *)

\* What a template may hold: broadcast transactions, and with m_mine_stem_txes
\* those in the stem phase.
Minable == {t \in m_txs_by_fee \cap txpool :
              relay[t] \in Broadcasted \/ (MineStem /\ relay[t] = "stem")}

\* The transactions that is_transaction_ready_to_go finds failing on this top.
FailedNow(S) == {t \in S : last_failed_id[t] # chain /\ ~check_tx_inputs(t)}

\* fill_block_template and the caching of its result: `considered' are the
\* transactions that fit the block's weight and reward; of those that are ready
\* and share a key image, the one with the higher fee comes first.
fill_block_template(considered, chosen) ==
  /\ Free
  /\ considered \subseteq Minable
  /\ LET tried == {t \in considered : last_failed_id[t] # chain}
         ready == {t \in tried : check_tx_inputs(t)}
     IN /\ chosen \subseteq ready
        /\ \A t, u \in chosen : t # u => KI[t] \cap KI[u] = {}
        /\ \A t \in ready \ chosen :
             \E u \in chosen : KI[t] \cap KI[u] # {} /\ FeeRate[u] >= FeeRate[t]
        /\ m_input_cache' = CacheInputs(tried)
        /\ last_failed_id' = [t \in Txs |-> IF t \in FailedNow(considered) THEN chain
                                                                          ELSE last_failed_id[t]]
  /\ btc' = [seen |-> Minable, txs |-> chosen]
  /\ UNCHANGED <<chain, txpool, relay, double_spend_seen, memory, m_timed_out_transactions,
                 lock, todo, pruning, block_txs, incoming>>

-----------------------------------------------------------------------------
(* A restart loses the memory and rebuilds it from the table (init) *)

restart ==
  /\ Free
  /\ m_spent_key_images' = [k \in KeyImages |-> {}]
  /\ m_txpool_weight' = 0
  /\ m_txs_by_fee' = {}
  /\ m_added_txs_by_id' = [t \in Txs |-> "absent"]
  /\ m_timed_out_transactions' = {}
  /\ m_input_cache' = EmptyCache
  /\ btc' = NoTemplate
  /\ lock' = "init" /\ todo' = txpool
  /\ in_tx' = NoTx /\ in_relay' = "none" /\ in_version' = NoVersion
  /\ UNCHANGED <<chain, table, internal_error, pruning, block_txs>>

\* Fault: one pass over the table, in any order.
InitOrder_OnePass(t) == TRUE

\* First the transactions not kept by block, then the others.
InitOrder(t) == kept_by_block(t) => \A u \in todo : kept_by_block(u)

\* A round of init; a failing insert_key_images stops the daemon.
init_tx(t) ==
  /\ lock = "init" /\ t \in todo /\ InitOrder(t)
  /\ m_spent_key_images' = Indexed(t)
  /\ m_txpool_weight' = m_txpool_weight + Weight[t]
  /\ m_txs_by_fee' = m_txs_by_fee \cup {t}
  /\ m_added_txs_by_id' = [m_added_txs_by_id EXCEPT ![t] = Sensitivity(relay[t])]
  /\ internal_error' = (internal_error \/ ~CanInsert(t, relay[t]))
  /\ todo' = todo \ {t}
  /\ UNCHANGED <<chain, table, m_timed_out_transactions, m_input_cache, btc, lock, pruning,
                 block_txs, incoming>>

-----------------------------------------------------------------------------
Init ==
  /\ chain = <<>>
  /\ txpool = {} /\ relay = [t \in Txs |-> "none"] /\ double_spend_seen = {}
  /\ last_failed_id = [t \in Txs |-> NoBlock]
  /\ m_spent_key_images = [k \in KeyImages |-> {}]
  /\ m_txpool_weight = 0 /\ m_txs_by_fee = {}
  /\ m_added_txs_by_id = [t \in Txs |-> "absent"]
  /\ m_timed_out_transactions = {} /\ m_input_cache = EmptyCache
  /\ internal_error = FALSE /\ btc = NoTemplate
  /\ lock = "idle" /\ todo = {} /\ pruning = FALSE /\ block_txs = {}
  /\ in_tx = NoTx /\ in_relay = "none" /\ in_version = NoVersion

Next ==
  \/ \E t \in Txs, method \in NetRelays : add_new_tx(t, method)
  \/ add_new_tx_lookup
  \/ add_tx
  \/ \E t \in Txs : add_alternative_block_tx(t)
  \/ prune
  \/ begin_block
  \/ \E t \in Txs : block_tx(t)
  \/ fail_block
  \/ commit_block
  \/ undo_block
  \/ \E t \in Txs : return_tx(t)
  \/ \E keep_txs \in BOOLEAN : pop_block(keep_txs)
  \/ pop_done
  \/ \E t \in Txs, fee_good \in BOOLEAN : validate_tx(t, fee_good)
  \/ \E S \in SUBSET Txs, method \in RelayedAs : set_relayed(S, method)
  \/ \E S \in SUBSET Txs : remove_stuck_transactions(S)
  \/ \E S \in SUBSET Txs : flush_txes_from_pool(S)
  \/ \E t \in Txs : remove_tx(t)
  \/ unlock
  \/ \E considered, chosen \in SUBSET Txs : fill_block_template(considered, chosen)
  \/ restart
  \/ \E t \in Txs : init_tx(t)

Spec == Init /\ [][Next]_vars

-----------------------------------------------------------------------------
(* Properties *)

Metas == Seq(SUBSET Txs) \cup {NoBlock}

\* Every variable has its type, and the weight of the pool (an unsigned integer
\* in the code) never goes below zero.
TypeOK ==
  /\ chain \in Seq(SUBSET Txs)
  /\ txpool \subseteq Txs /\ relay \in [Txs -> Methods] /\ double_spend_seen \subseteq Txs
  /\ last_failed_id \in [Txs -> Metas]
  /\ m_spent_key_images \in [KeyImages -> SUBSET Txs]
  /\ m_txpool_weight \in Nat /\ m_txs_by_fee \subseteq Txs
  /\ m_added_txs_by_id \in [Txs -> {"absent", "sensitive", "public"}]
  /\ m_timed_out_transactions \subseteq Txs
  /\ m_input_cache \in [Txs -> {"none", "ok", "bad"}]
  /\ internal_error \in BOOLEAN
  /\ btc \in [seen : SUBSET Txs, txs : SUBSET Txs] \cup {NoTemplate}
  /\ lock \in {"idle", "block", "return", "pop", "validate", "remove", "init"}
  /\ todo \subseteq Txs /\ pruning \in BOOLEAN /\ block_txs \subseteq Txs
  /\ in_tx \in Txs \cup {NoTx} /\ in_relay \in Methods
  /\ in_version \in Versions \cup {NoVersion}

\* The transactions of the table that the memory knows of: all, except those
\* init has not reached yet.
Loaded == IF lock = "init" THEN txpool \ todo ELSE txpool

\* m_spent_key_images lists, for every key image, exactly the transactions of
\* the pool that spend it: an entry left behind would reject the transaction
\* for ever, a missing one would let a double spend in.
KeyImageIndexExact ==
  \A k \in KeyImages : m_spent_key_images[k] = {t \in Loaded : k \in KI[t]}

\* Two transactions of the pool spend the same key image only if one of them
\* came with a block: insert_key_images refuses a pair that did not, at once
\* and again when the pool is loaded at the next start.
OneUnkeptPerKeyImage ==
  \A t, u \in txpool :
    t # u /\ ~kept_by_block(t) /\ ~kept_by_block(u) => KI[t] \cap KI[u] = {}

\* None of the pool's own assertions fires: insert_key_images never meets a
\* duplicate, a removal finds the transaction in every index, and init loads
\* what the node stored.
NoInternalError == ~internal_error

\* m_txpool_weight is the sum of the weights in the pool; it decides what
\* prune() removes.
WeightExact == m_txpool_weight = MapThenSumSet(LAMBDA t : Weight[t], Loaded)

\* The container ordered by fee holds exactly the pool: templates and prune()
\* see every transaction, and no one twice or after its removal.
SortedExact == m_txs_by_fee = Loaded

\* The incremental list given to RPC clients lists only transactions of the
\* pool and marks as public exactly those that were broadcast: a transaction
\* still in its private (local, stem) phase is never shown.
AddedListExact ==
  \A t \in Txs : m_added_txs_by_id[t] # "absent" =>
    t \in Loaded /\ m_added_txs_by_id[t] = Sensitivity(relay[t])

\* What is kept in memory beside the table, updated by hand on every add, take,
\* return, prune, expiry and start, lists exactly the pool.
PoolIndexesExact == KeyImageIndexExact /\ SortedExact /\ AddedListExact

\* The cache of input checks agrees with the chain whenever it is consulted:
\* it is stale only between the removal of a block and on_blockchain_dec.
InputCacheExact ==
  lock # "pop" => \A t \in Txs : m_input_cache[t] # "none" =>
                    (m_input_cache[t] = "ok" <=> InputsOK(t))

\* last_failed_id names a chain on which the transaction cannot be mined, so a
\* template that skips it on that account loses nothing, also after the same
\* block was popped and added again.
LastFailedSound ==
  \A t \in txpool : last_failed_id[t] = chain => ~InputsOK(t)

\* No transaction is in the pool and in the chain at once.
PoolChainDisjoint == txpool \cap ChainTxs = {}

\* Results of input checks that are remembered, in the cache or with the
\* transaction, are true of the chain they are used for.
CachesSound == InputCacheExact /\ LastFailedSound

\* The pool has nothing that the chain has, and no two transactions that spend
\* the same key image and did not come with a block, although add_new_tx looks
\* before it has the lock.  (Those that came with blocks may share an image.)
NotOfferedTwice == OneUnkeptPerKeyImage /\ PoolChainDisjoint

\* A cached template that is still served can be mined: its transactions, and
\* all those it was chosen from, are in the pool and public (or in the stem phase
\* if so configured), and its own are valid on the current chain and free of
\* double spends.  (The pool may have more to choose from by then: set_relayed
\* does not change the cookie.)
TemplateMinable ==
  lock = "idle" /\ btc # NoTemplate =>
    /\ btc.txs \subseteq Minable /\ btc.seen \subseteq Minable
    /\ \A t \in btc.txs : InputsOK(t)
    /\ \A t, u \in btc.txs : t # u => KI[t] \cap KI[u] = {}

\* Between operations the pool exceeds its maximal weight only by what prune()
\* may not remove: transactions kept by block, and one other.
WeightBounded ==
  Free => \/ m_txpool_weight <= MaxWeight
          \/ \A t, u \in txpool : ~kept_by_block(t) /\ ~kept_by_block(u) => t = u

\* The running total that decides what prune() removes does not drift, and prune()
\* goes on until it is low enough.
WeightSound == WeightExact /\ WeightBounded

\* A transaction that stays in the pool never goes back to a more private (or
\* less trusted) relay method, whatever order the network messages, blocks and
\* restarts come in.
RelayNeverDowngraded ==
  [][\A t \in txpool \cap txpool' : Rank[relay[t]] <= Rank[relay'[t]]]_vars

\* A block that is added or popped and changes the current version does not
\* give the pool back before validate() went over it, and when validate()
\* returns every transaction satisfies the rules of the version, those kept by
\* block included.
ValidateEstablishesRules ==
  [][/\ lock = "validate" /\ lock' = "idle" => \A t \in txpool' : nic_ok(t, CurrentVersion)
     /\ lock = "block" /\ lock' = "idle" => CurrentVersion' = CurrentVersion
     /\ lock = "pop" /\ lock' = "idle" => VersionAt(Len(chain) + 1) = CurrentVersion]_vars
=============================================================================
