# A formal model of the Jero node

Jero is a fork of the Monero code base. This directory holds TLA+ models of the
consensus-critical, stateful and concurrent parts of its daemon, TLC configurations
that check them on small instances, and TLAPS proofs that hold for every instance.
Paths below are relative to the repository's `src/` directory (`cryptonote_core/...`
is `src/cryptonote_core/...`). `PROJECT.json` maps every definition to the lines
it models.

## 1. The system

### Components

| Component | State | Operations | Correct when |
|---|---|---|---|
| `Blockchain` (`cryptonote_core/blockchain.cpp`) | main chain and alternative blocks (LMDB), invalid blocks, checkpoints, the open batch, the cached template | add a block (main, alternative, switch), pop, batches, enforce checkpoints, start | the main chain is a valid line of blocks with the most work; a switch is all or nothing; a stop loses only what was not committed |
| `tx_memory_pool` (`cryptonote_core/tx_pool.cpp`) | a table (LMDB) and, in memory, key images, weight, order by fee, list for RPC, input cache, cookie | add, take, return, prune, expire, re-validate, relay, build templates, load | indexes agree with the table; no double spends between free transactions; nothing private is shown; templates can be mined |
| `HardFork` (`cryptonote_basic/hardfork.cpp`) | fork table, window of votes with counts, current fork, recorded versions (LMDB) | add, pop, reorganize, rescan at start | the version depends on the chain and not on how the node came to it |
| `checkpoints` | points (height, id) | load, check a block, allow alternatives | no main block contradicts a point |
| `BlockchainDB`/LMDB | tables, one write batch | add and pop block, batch start, stop, abort | what is committed is whole |
| `block_queue` (`cryptonote_protocol/block_queue.cpp`) | spans, requested ids, delivered ids | reserve, fill, flush, remove | no block asked for twice, none forgotten |
| protocol handler (`cryptonote_protocol_handler.inl`) | per connection: state, needed ids, request, timer, callbacks; `m_sync_lock` | chain entries, objects, adding spans, standby, kicks, drop | spans are added in order; synchronisation never stalls |
| `levin_notify`, Dandelion++ (`net/dandelionpp.cpp`) | stem map, epoch, queue and flush time of each connection, flush timer, noise channels | relay, flush, new epoch, send noise | a source keeps its stem in an epoch; everything is fluffed or sent whole in the end |
| peer lists (`p2p/net_peerlist.h`) with what `net_node.inl` does to them | white, gray and anchor lists, outgoing connections | handshakes, gossip, pings, checks of gray peers, blocks, restarts | lists disjoint, bounded, one port of a host; a live peer stays |
| `miner` (`cryptonote_basic/miner.cpp`) | template and its number, threads, stop flag, pausers, background mining, number of threads found by autodetection | start, stop, pause, new template, autodetection, background controller | stop ends and leaves no thread behind; no worker stays on an old template |
| `threadpool` (`common/threadpool.cpp`) | queue, workers, waiters | submit, wait, nest, destroy | every wait ends, and not before its jobs; errors reach the caller |
| multisig key exchange, message store | rounds, messages, signers | process messages | all signers end with the same key |
| wallets, RPC, ZMQ, crypto, formats, devices, tools | see `PROJECT.json` | | |

### How they interact

A connection asks its peer for ids (`request_missing_objects`), reserves spans of them
in `block_queue`, and delivers what it gets there. Whoever gets `m_sync_lock` takes the
next span, of whatever connection, and calls `core::prepare_handle_incoming_blocks`
(opens an LMDB batch), `handle_incoming_block` for each block and
`cleanup_handle_incoming_blocks` (commits or aborts). Adding a block takes its
transactions out of the pool, checks their inputs (signatures in the thread pool),
writes the block, tells `HardFork` and the pool (`on_blockchain_inc`), and re-validates
the pool if the version changed. If it fails the transactions return to the pool. A
switch pops blocks (their transactions return to the pool, `HardFork::on_block_popped`
is called), connects the branch, and on failure pops and puts the old chain back.
Network transactions enter through `core::handle_incoming_tx`, which looks them up
before the pool's lock is taken, and leave through `levin::notify`, which stems, fluffs
or queues them for noise channels, on one strand per zone and per channel. Block
templates are cached until the pool's cookie moves; the miner copies them under a lock
of its own and learns of new ones by a number. The p2p node feeds the peer lists from
connections, pings, gossip and an idle loop.

### What is hard

- State kept twice: LMDB tables and indexes in memory updated by hand.
- Failure half-way: of a block, of a branch, of putting the old chain back, of a
  batch; each undoes a different part of the state.
- Values read early and used late: the height before the checkpoint loop, cached
  input checks, `last_failed_id`, the cached template, the lookup of a transaction
  before the lock, the template number, the connections handed to a strand.
- Late answers of peers to requests that were flushed, kicked or given to another peer;
  a connection in standby that somebody else has to wake; one connection adding the
  spans of all.
- Callbacks of timers that are cancelled or already posted; strands that run in any order.
- Jobs that wait for jobs in a pool of fixed size; condition variables whose flag is
  read outside of the mutex; locks given back in the middle of a restart.
- A stop of the process anywhere, and a start with newer software.
- Unsigned arithmetic at the edges (`pt.first - 2`, counts, pool weight).

The list of hazards in `PROJECT.json` names the line of each and the properties
that watch it.

## 2. The modules

| Module | Role |
|---|---|
| `BlockQueue`, `BlockQueueProofs` | download queue |
| `BlockSync`, `MCSync`, `BlockSyncProofs` | connections, `m_sync_lock` and the adding of spans around `BlockQueue` |
| `TxPool`, `MCTxPool`, `TxPoolProofs` | transaction pool with what Blockchain and core do to it |
| `HardFork`, `HardForkProofs` | fork versions and the clean-up loop of `Blockchain::init` |
| `Blockchain`, `MCBlockchain`, `BlockchainProofs` | main chain, alternatives, switches, batches, checkpoints, restarts |
| `ForkChoice` | what `Blockchain` promises, abstractly |
| `ThreadPool` | thread pool and waiters |
| `Miner`, `MCMiner` | miner threads, autodetection, background mining |
| `ConnectionMap` | the map from sources to stems (`dandelionpp.cpp`), as operators |
| `FluffZone` | a zone that stems and fluffs: `ConnectionMap`, queues, flush timer |
| `NoiseZone` | a zone with noise channels: `ConnectionMap`, strands, fragments |
| `PeerList` | white, gray and anchor lists and what the node does to them |
| `MCServices`, `MCNode`, `MCZones` | instances, several modules each (section 3) |
| `ServicesProofs` | proofs about `ThreadPool`, `Miner` and the composition in `MCServices` |
| `ZonesProofs` | proofs about `FluffZone`, `NoiseZone`, `PeerList` and the composition in `MCZones` |
| `Subsequences` | the elements of a sequence that a loop does not pass over |
| `MinMaxLemmas` | minimum and maximum of sets of numbers, the places of subsequences, and sums over finite sets, for the proofs |

Actions and helpers keep the names of the functions they model where there is one.
Definitions whose comment begins with "Fault:" are plausible mistakes in the definition
that follows them. They are not part of any specification; replacing the original by
one shows that a property would notice it. Several properties are conjunctions of named
parts, which say more precisely what is meant.

### BlockQueue

Each public method of `block_queue` holds its mutex throughout and is one action:
`add_filled_blocks` (inside `add_blocks`, the arrival of a peer's answer),
`reserve_span` with its loops as `ChooseSpan`, `request_next_span` (the
reassignment of the first span to another peer), `flush_spans`,
`flush_stale_spans`, `remove_next_filled_span`. `outstanding` is what each peer
was asked and has not answered; answers may arrive after the span is gone. Block
data is its id. Peers have chains and pruning seeds as constants. Left out: sizes
and rates, which choose between spans and change nothing; times.

### BlockSync

One record per connection (`ctx`): what `cryptonote_connection_context` has of state,
needed ids, last request and its timer, callbacks and flags, and `pc`, the place in the
handler that runs for it. The handlers are split where they read something that another
thread may change before they use it: `try_lock_sync`, `take_span`, the adding or
refusal of a span, `stop_adding`, and in `request_missing_objects` `flush_stale`,
`check_queue`, `request_objects`, `reserve_and_request`, `request_ids`; in
`handle_response_chain_entry` the receipt, the test of the first id and the rest. `wire`
is what is under way to a connection, which may be late for a `Slow` peer; timers and
`on_idle` (`kick_idle`, `check_standby`, `timed_sync`) may run at any time. A span fails
when it holds a `Bad` block. `left` names the connections that a handler left without
anything to wake them after another peer's span failed (section 5).

Left out: pruned peers and stripes, `m_expect_height`, the drop of a peer that wedges the
queue, blocks marked invalid, alternative chains during synchronisation,
`notify_new_stripe`, the search for other peers, fluffy and single new blocks. A failure
of `prepare_handle_incoming_blocks` is like a bad block; those of the clean-up are not
modelled. An orphan at the needed height (lines 1430 to 1436, `requery_orphan_span`) is
what is left of a chain of which a lower block was refused, once another peer's block has
taken its place. The mismatch return of lines 1397 to 1401 is not reachable: an id
determines its height (`SyncAssumption`). Spans of a peer that fails are flushed only while
one of its connections is alive, as `for_connection` and `drop_connections` do.

### TxPool

The table is `txpool`, `relay`, `double_spend_seen`, `last_failed_id`; the `m_`
variables are the pool's memory. The lock and the incoming-transaction lock are
control variables: whole loops that run under the lock (transactions of a block,
their return, `validate`, `init`) are steps over `todo`, so that states inside
them are checked too, and `add_new_tx`, `add_new_tx_lookup` and `add_tx` are
separate steps because nothing is locked between them that the chain cares about.
A transaction has key images, transactions it refers to, weight, fee and the
versions whose rules it satisfies. `btc.seen` is what a cached template was chosen
from. Abstractions: `meminfo` and blobs, relay times, the list of removed transactions;
pruned transactions, which `validate` and `fill_block_template` skip (`tx_pool.cpp:1804`,
1680, and the check of a block's pruned transactions, `blockchain.cpp:4259`);
`include_sensitive` of the listing (`tx_pool.cpp:1674`). `add_new_tx_lookup` reads chain
and version in one step.

### HardFork

`heights` is the table this software knows, a prefix of `Forks`; `restart_node`
starts software that may know more. `hf_versions` keeps versions of popped
heights, as the database does. `scanned` is how far the in-memory state accounts
for the chain: after `reorganize_from_block_height` blocks are replayed one by
one. `starting` follows the loop of `Blockchain::init`: `init`, then pop blocks of
outdated versions, then rescan. A stop in the middle of it is possible.

### Blockchain and ForkChoice

A constant tree gives every block its ancestry, difficulty, transactions and
`Flaw`, the first check it fails in `handle_block_to_main_chain`: header, inputs
of a transaction, the reward, or a double spend inside the block that only
`BlockchainDB::add_block` meets. The last is special: it throws after writing
some transactions to the open batch (`partial`), and dooms the batch
(`m_batch_success`). A batch remembers the committed state in `saved`.

`add_new_block` splits into the three ways it may go: onto the main chain, among
the alternatives, or a switch. A switch runs in phases
(`connect`, `rollback`, `restore`, `push`, `drop`), one block per step, and only a
stop of the process may come in between, as the locks are held. `trouble` records
events that the code only logs (PANIC) or that would recurse (nested switch).
Incoming blocks come with all their transactions or with none. Transactions that
return to the pool may evict others that are not `kept_by_block`; which, is left
open. `Events` selects what else happens in an instance: loose transactions
(`tx`), pops, flushed invalid blocks, restarts, expiry.

`ForkChoice` has two variables, the main chain and the durable one, and three
actions: adopt a valid chain with more work, commit, and fall back to the durable
one. The mapping hides the inside of a switch (`before` until it is over) and of a
doomed batch.

Abstractions: critical sections are steps; precomputed hashes and `fast_check`,
pruned data, weight limits and the caches of the database are left out; the
database is durable when a batch is committed (a stop of the process, not of the
machine). The pool is a set with a mark for `kept_by_block`: `TxPool` has the rest. What
`add_block` leaves in the batch when it throws is kept as whole transactions; the key
images of the transaction it was at and the miner transaction (`blockchain_db.cpp:198` to
216, 270) are not, as the doomed batch is never committed.

### ThreadPool

A thread has a stack of routines: callers and jobs submit jobs, wait for them and help
meanwhile, as `waiter::wait` calls `run`. A step is a critical section of the pool's
mutex or of a waiter's. `RunsInline` is the condition under which `submit` runs a job
itself (all threads busy and jobs queued, or called from a job, unless the new job is a
leaf). A sleeping worker may also wake up for
nothing (`Spurious`). `Destroy` is possible when no caller is inside. A job that throws
sets the error of its waiter in `run`; run inline, its exception goes on to the
submitter, whose waiter's destructor still waits. `recycle` is only called by tests.

### Miner

Every worker steps through the loop of `worker_thread`: `Loop` (stop, pause), `Started`
(reads the flag of background mining), `Wait` and `Woken` (the condition variable),
`CheckTemplate` and `CopyTemplate` (reads of `m_template_no` around the copy under
`m_template_lock`), `Hash`, `Finish`. RPC's `start` and `stop`, `on_idle`'s
`update_autodetection` and the controller of background mining are separate threads that
share `m_threads_lock` where the code takes it. `StartCalled` is what `start` writes before
the lock, which another thread may overwrite before `StartMiner`. `stop` and
`update_autodetection` count the workers (`StopWaited`, `AutodetectWaited`) in a step of
their own: until the list is emptied (`StopReturns` after the join of the background
thread, `AutodetectStopped`) a thread that was made may begin and count itself. Reads and
writes of `m_threads_autodetect` and the refilling of `m_threads` outside of the lock are
whole steps: torn accesses are not modelled, and there is one pauser at most.
`find_nonce_for_given_block`, hash rates and nonces are left out.

### ConnectionMap, FluffZone, NoiseZone

`connection_map` is a record of its three members, and each method is the set of results
that its random draws allow. `FluffZone` runs on one strand, while connections (`p2p`)
change outside of it, so the strand's map and contexts lag behind. The timer has an
expiry; setting it again posts the callback of the earlier setting as cancelled, and the
callbacks posted (`posted`) run in order, late. `flush_callbacks` counts them as the code
does. `last_stem` is history: the peer that a source's transactions went to in this epoch.

`NoiseZone` has the zone's strand (the map and the number of connections) and one
strand per channel; `zone_posts` and `ch_posts` are their queues. A channel sends a
fragment or a dummy per interval. `run` is history: the fragments of the first message
sent so far, with the connection. A send fails when the connection is gone or, within a
bound, for other reasons. Payloads, padding and the fragments' sizes are left out, and the
filter of `get_out_connections` by height in this zone (`FluffZone` has it, and reads the
list again for each of the two tries of a stem). An epoch begins when the strands are idle
and the channels sent their packets; a timer that goes off in the middle of a send is
covered by a new map that waits in `zone_posts` while the channels go on.

### PeerList

Lists are sequences in the order of `last_seen`, as the multi-index `by_time` gives
them; equal times keep the order of insertion. `append_with_peer_white` is modelled with
its eviction of other ports of the host, its replacement in place and its trimming;
`InsertByTime` is the place a container ordered by time gives an entry. `maker` is the
thread of `idle_worker`, which is in the middle of a handshake or of a check of a gray
peer while pings, gossip, closed connections and blocks come from other threads. `stray`
is history: anchors loaded at the start, or added after their connection was closed. Left
out: hosts that are blocked or failed (their addresses are just not offered), peers of the
command line, data of the entries, `block_subnet`. Without peers of the command line no
address is local, so that `is_host_allowed` (`net_peerlist.h:291`, 329) refuses none. Few
connections, for `take_anchors`, is fewer than `expected_white_connections`, which is all of
them when a pruning stripe is needed: that may be so at any time. A handshake may end with
anchors left, as connections close between the stages of `connections_maker`. The two lock
regions at the end of a handshake (`net_node.inl:1586`, 1594) are one step, as nothing reads
both lists. The lists are stored when the node stops; that they are also stored every 30
minutes (2209), and older ones loaded after a crash, is left out, and so is the removal of
an anchor by the closing connection of a gray check (2849).

## 3. The runs

Modules without shared state are checked in one run: the instance chooses a `part` at
the start, and a behaviour takes steps of that part only, so a run checks each of its
parts on its own. The parts interact in the code through calls that the modules model as
inputs (a delivery, a block, a relayed transaction).

| Run | Instance | Shows |
|---|---|---|
| `MCServices` | *threads*: one worker, two callers, jobs nested three deep, a leaf, a detached job, two that may throw. *background* and *autodetect*: the miner with either kind of control, two starts, restarts and templates. *queue*: two peers whose chains fork after height 1, one pruned, spans of two blocks. *forks*: three forks at heights 1, 2 and 4, window of three, seven blocks, pops, upgrades | `ServicesConsistent` (types, `NumExact`, `WindowSound`); waits end, not before their jobs, with their errors (`CallsReturn`, `SubmitterAlive`, `ErrorsReported`, `NoLostWakeup`); stop ends and is quiet, workers move on (`WaitsForWorkersEnd`, `StopQuiet`, `TemplateMovesOn`); ids of the queue exact, next needed height the first gap, deliveries kept (`QueueIndexesExact`, `NextNeededIsFirstGap`, `DeliveredSpansKept`); versions by height (`VersionsIdeal`) |
| `MCNode` | *sync*: an honest peer that is slow at times, and one whose second block is invalid and has another above it; three heights, at most two delivered spans waiting. *pool*: two conflicting transactions by every relay method. *votes*: thresholds of 50 and 100 percent, eight blocks | types and the owner of `m_sync_lock` (`NodeTypeOK`); spans added in order, no connection forgotten, everything downloaded (`ChainOrdered`, `NotForgotten`, `Downloads`); relay methods only move up, a cached template can be mined (`RelayNeverDowngraded`, `TemplateMinable`); votes decide, replays agree with a fresh node (`VotesDecide`) |
| `MCZones` | *fluff*: two outgoing and one incoming connection, two stems, public and hidden zones. *noise*: two channels, a message of two fragments, a failed send. *peers*: four addresses on three hosts, two of them ports of one; room for two white and one gray peer | `ZonesConsistent` (types, `StemMapSound`, `CallbacksExact`); a source keeps its stem, what is queued is flushed (`OneStemPerSource`, `FluffFlushed`); messages sent whole, queues drain (`SentWhole`, `QueuesDrain`); `PeerListsSound`, `JustSeenStays` |
| `MCTxPool` | three transactions, two conflicting, one that refers to another, one valid before the fork only; room for two units of weight; two blocks | indexes exact, nothing offered twice, no internal error, caches sound, weight exact and bounded, rules re-established at the fork |
| `MCBlockchain` | ten blocks, four forks, equal work, three kinds of invalid blocks, two transactions in several blocks, restarts | most work, nothing half-written committed, no transaction lost, refinement of `ForkChoice` |
| `MCBlockchainPoints` | nine blocks, a checkpoint on a branch, pops | chain, alternatives and pool sound and apart, checkpoints hold in any order |
| `MCBlockchainAdopts` | nine blocks, fair delivery | liveness: the node ends on a chain at least as heavy as any valid one |
| `MCBlockchainReverts`, `MCBlockchainBatch`, `MCMiner`, `MCSyncReturns`, `MCSyncAdds` | small | counterexamples, section 5 |

Why the bounds are enough for the cases of interest. Pool: two conflicting and one
dependent transaction give every pattern the index code distinguishes (shared image,
only spender, dependence across a popped block); a pool of two units is full with two.
Forks: a window of three with chains of seven and eight blocks has chains shorter than,
equal to and more than twice the window. Blockchain: the tree has a branch off a branch,
branches of different length and equal work, a branch from the genesis block with more
work than several blocks, and failures at the first (missing transactions), middle and
last block of a branch; `HeightLimit` stands for 2^64 and only has to exceed all heights
by two. Sync: with spans of one block and two waiting, the queue fills up, both peers are
in standby, the first span is overdue, and the bad span of one is met by the handler of
the other. The honest peer is the slow one: its late block takes the place of the refused
one below the span that is left of the other chain, an orphan at the needed height. Threads: with one worker and three levels every thread can be waiting for a
job that is queued or has to run inline. Miner: two restarts and two starts overlap in
every order; four threads can be alive when a stray one is left over, in `MCMiner`.
Zones: with two stems and two outgoing connections one may be lost, replaced and come
back within an epoch; with one, places stay free. Peers: every list can be full, and the
clock has two values, so that times are equal or not.

Deadlock is checked in every run. `SyncDone`, `ZoneDone` and their like are steps that
change nothing, where a part has used up its bounds and is done.

**Fairness.** Stated in the specification of each module, and always weak unless said.

- `ThreadPool` (`PoolFairness`): every thread that can step does: the operating system
  schedules it, and mutexes are held briefly. Spurious wake-ups are not among the fair
  steps.
- `Miner` (`MinerFairness`): workers, controller, and what stop and autodetection have
  begun. No user has to start or stop anything, and no template has to come.
- `FluffZone`, `NoiseZone`: the strand runs what is posted, timers fire, time goes on,
  epochs follow each other. Sends may fail finitely often; a send over a connection that
  is gone fails. `QueuesDrain` also supposes enough connections in the end.
- `BlockSync` (`SyncFairness`): handlers run, a peer that is connected and not slow
  answers, and the timers of `on_idle` and of the timed sync go off. Nothing cuts a
  connection or makes a peer slow.
- `Blockchain` (`FairSpec`, only in `MCBlockchainAdopts`): weak fairness of `SwitchStep`
  and of opening a batch, which are straight-line code; strong fairness of the delivery
  of each block with its transactions: peers that have a better chain keep offering it
  and requests go to other peers; a delivery is possible only inside a batch and outside
  of a switch, again and again but not continuously, hence strong.

Conditions of the liveness results, found by checking without them:

- `Adopts`: the pool of that run holds only transactions that came with blocks. A
  transaction that is in the pool already when an alternative block brings it is not
  marked `kept_by_block`, may be evicted again, and the switch then fails for lack of it;
  with an unlucky order this can repeat. And no block of the run is one that `add_block`
  throws on: such a block aborts its whole batch, the valid blocks in it included, and a
  node whose peers keep sending it in the same batch makes no progress.
- `Downloads` speaks of download, not of adding (`MCSyncAdds` shows why), and allows for a
  peer that is dropped or forgotten.
- `WaitsForWorkersEnd` and `StopQuiet` leave out the lost signal (`SignalLost`), and the
  former's part about restarts the case of `MCMiner`.

## 4. The proofs

All are proofs of invariance, of action properties from an invariant, or of refinement
step by step, for all values of the constants that satisfy the named assumptions of the
modules. TLC evaluates these assumptions on every instance. Each inductive invariant was
checked with TLC before it was proved.

**BlockQueueProofs** (`HeightsAssumption`, `PeersAssumption`). The inductive invariant
`QueueInv` is the conjunction of `QueueTypeOK`, `OneSpanPerStart`, `RequestedExact`,
`SpansDisjoint` and `HaveExact`. None of the last three is inductive alone: erasing a
span from `requested_hashes` leaves the others' ids only if spans are disjoint, which
needs `ChooseSpanFresh` (a chosen span has no requested id), which needs
`RequestedExact`. Theorems: `QueueTypeCorrect`, `QueueIndexesCorrect` and
`QueueKeepsDeliveries` (the action property `DeliveredSpansKept`). `NextNeededCorrect`
shows that the one pass of `get_next_needed_height` over the ordered spans finds the first
height that no span covers. It needs `FitInv` (finitely many spans, all below the top
height a peer has) and, for the pass, that after the spans up to some place everything from
the start to `covered_until` is covered and, once a gap was met, the height there is not
(`CoverOK`); this is shown for every set of first spans by the absence of a smallest
counterexample.

**BlockSyncProofs** (those and `SyncAssumption`). `SyncInv` has four parts. `QueueOK`:
the queue's indexes, and that delivered spans hold blocks of their peer's chain at the
right heights. `WireOK`: answers under way are parts of the peer's chain. `ConnsOK`:
what a connection knows of its peer's chain lies within it, `m_sync_lock` belongs to the
one handler that is adding, the span in hand fits on the chain (its parent is there:
nothing is removed from the chain while it is verified), and a connection in no handler
has something to wake it. `ChainOK`: the chain. The heart is `ChainGrows`: a span whose
parent the chain has extends it correctly even if another peer's blocks overlap it,
because an id determines its height and all blocks below it (it is a hash that covers the
parent's id) and peers differ only where one of them has a block that fails. Both facts
are in `SyncAssumption`, together with: an answer has at least one id (an empty one is
refused, `cryptonote_protocol_handler.inl:2567`) and spans have at least one block.
`NotForgotten` needs, for the one early return that leaves nothing to wake a connection,
that a handler which refused a span of its own peer has dropped it. Its second half, that a
handler at the end of `request_missing_objects` has nothing to ask for and nothing out (the
final condition asserted at 2445), needs `CoherentOK`: along every way out of
`try_add_next_blocks`, the one after an orphan included, a handler that runs waits for no
answer, a connection that waits for one has a timer, and blocks are asked for only where
they are what it waits for. Theorems:
`SyncTypeCorrect`, `ChainIsOrdered`, `NobodyForgotten`, `SyncKeepsIndexes` (the queue's
indexes once more, under the calls the handlers really make).

**TxPoolProofs** (`TxAssumption`, `SpendAssumption`, `PoolAssumption`). `PoolInv` is
`TypeOK`, `Control` (what each value of `lock` says about `todo`, `block_txs` and where
those transactions are), `Indexes` (key images, order, list for RPC, conflicts, no
internal error), `InputCacheExact` and `FailuresSound` (a failure remembered for a
chain is a failure on that chain). `Control` is what makes a returned or re-added
transaction absent from pool and chain. Theorems: type correctness, `PoolIndexesCorrect`,
`PoolNotOfferedTwice`, `PoolNoInternalError`, `PoolCachesSound`, the action properties
`RelayNeverDowngraded` and `ValidateEstablishesRules`, and `TemplateMinable`, which needs
that a template whose cookie is unchanged was built on the same chain from transactions
still in the pool. `PoolWeightSound` adds `WeightInv`: `m_txpool_weight` is the sum over the
pool, and it is within the limit or nothing is left that `prune` may remove, except between
an addition and the pruning that follows it; sums over sets grow and shrink by the weight of
one transaction (`MinMaxLemmas`). `NodeTypesCorrect` is about the composition `MCNode`.

**HardForkProofs** (`ForkAssumption`, `SizeAssumption`), in three parts.

- Without voting (`NoVoting`, all thresholds zero, as in `hardforks/hardforks.cpp`).
  `ForkInv` says that outdated blocks are only at the top, below them every block has the
  version of its height, recorded versions are those of the blocks, and the index is that of
  the scanned height. It has to speak about starts: an upgraded table makes blocks outdated
  after the fact, and the rescan begins from a version that may be among those. Theorems:
  `ForkInvariant`, `ForkVersionsIdeal`.
- The window, for any thresholds. `WindowInv`: the counts are those of the window, which is
  not longer than its size and not empty outside of `init`, and every height of the chain
  has a recorded version, which `on_block_popped` puts in front. Theorems:
  `WindowInvariant`, `WindowIsSound`, `ForkTypeCorrect`.
- The votes, for any thresholds. `VotesInv` rests on a description of the version by the
  chain alone: `IsBest`, the last known fork that at some height up to h was past its own
  height and had its votes. Every block but outdated ones at the top has the version that is
  best for the blocks below it; every block votes for its version at least; window and index
  are those of the scanned blocks, except during a start, where they may be ahead until the
  outdated blocks are popped. `RaisedBest` shows that one more vote takes the index from
  best to best, `SumOfCounts` that the sum over later versions is the number of votes for
  fork n or later, and `WindowMoves` that the window slides by one block whether that is new
  or replayed. Theorems: `VotesInvariant`, `VotesDecideVersion`. They suppose `Consecutive`
  (versions without a gap, as in every table of `hardforks.cpp`; the proofs use that the
  index of a fork is its version) and `~Pops` (`on_block_popped` does not take votes into
  account, section 5: with pops and thresholds the statement is not meant to hold).

**BlockchainProofs** (`TreeAssumption`, `ContentAssumption`, `PointAssumption`: any
tree, any transactions in blocks, any checkpoints). First facts about
the tree: the lines of the blocks of a line are its beginnings (`LineBegins`), by the
absence of a shortest counterexample. `Inv` says what holds in the middle of a switch:
the database is always a sound chain with its sums (`DbOK`), and so is what a batch falls
back to (`SavedOK`); which calls may be open (`ControlOK`); the old and the new chain
share their first `split_height` blocks, the new ones are apart from the old chain, and
each transaction of the old chain is in the chain or kept in the pool (`SwitchOK`); how
far the branch is connected, the old chain put back, or pushed among the alternatives
(`BranchOK`, `OldOK`, `RestoreOK`, `PushOK`).

- `TypeCorrect`, `ChainIsSound` and the action property `SwitchKeepsTxs` follow from it,
  without further conditions.
- `CheckpointsAreHeld` and `CommitsAreWhole` suppose `PointsAbove`, no checkpoint at
  height 1. It is needed: for that height `pt.first - 2` wraps around and nothing is
  rolled back (section 5). `PointsOK`, `AimOK` and `PanicOK` are added: the chain, what the
  batch falls back to and the chain before a switch agree with the points in force, and a
  switch aims beyond every point the old chain had reached.
- `MainHasMostWork` and `ForkChoiceImplemented` suppose `Undisturbed`, no checkpoints and
  no pops: both take the node to less work by design. `WorkOK` is added: during a switch
  only the block that began it has more work than the old chain. The refinement is proved
  action by action: inside a switch the mapping stutters, its end is an adoption or a
  stutter, an abort or a restart falls back to the durable chain.

**ServicesProofs.** The thread pool (`PoolAssumption`: the jobs of a caller form trees
below the routine it calls; any number of workers, callers and jobs). `PoolInv`: a job is
in one place, a routine's place in a stack agrees with its kind (`PlacesOK`); waiters and
`active` count exactly (`CountsOK`); a counted job has a living submitter (`AliveOK`); a
sleeping worker is not needed, there being at least as many awake and free as jobs queued
(`SleepOK`); an error is on its way or reported (`ErrorsOK`). That no job is begun twice
is not visible in the variables, which forget a finished job: `BegunOK` says that there
is a set of jobs ever begun, closed under submitters and well-founded (`Rooted`), in which
what a body has yet to submit is not. Theorems: `PoolTypeCorrect`, `NumIsExact`,
`SubmittersAlive`, `WakeupsNotLost`, `ErrorsAreReported`. The miner
(`MinerAssumption`): `MinerInv` says that `m_threads_active` counts the workers between
their two updates, whatever list they are in, and that no worker has a template number
that was not given yet. `LeavingInv` is about the time between the count and the emptying
of the list: unless the signal was taken back, a worker that begins then finds `m_stop` set
and goes no further than its test. Theorems: `MinerInvariant`, `StopIsQuiet`,
`TemplatesMoveOn`.

`ServicesAreConsistent` puts the invariants of the thread pool, the download queue and the
window of votes together for the composition `MCServices`: a step of one part is a stutter
of the others.

**ZonesProofs** (`MapAssumption`, `FluffAssumption`, `NoiseAssumption`, `PeersAssumed`: any
number of stems, connections, transactions, channels and messages; any addresses, hosts and
limits).

- Dandelion++. `ZoneInv`: the map is exact (`MapOK`: stems are distinct, each place counts
  the sources that are mapped to it, and sources are mapped to places that exist); the stem
  a source used last is the one the map has for it, until that one is gone or the epoch ends
  (`StemsOK`; `Tracks` inside of a step); `flush_callbacks` is the number of callbacks that
  are posted or will be, one for an armed timer (`TimerOK`); a connection has a flush time
  when it has something queued (`ContextsOK`). Theorems: `ZoneInvariant`, `StemMapIsSound`, `CallbacksAreExact` and the
  action property `SourcesKeepTheirStem`.
- Noise. `NoiseInv`: what is posted to the strands are maps that were exact when they were
  posted; the fragments sent so far are the first of the message at the head, all over the
  channel's present connection. Theorems: `NoiseInvariant` and the action property
  `MessagesSentWhole`.
- Peer lists. `PeersInv` (types and `PeerListsSound`) is inductive as it stands; the work
  is in the lemmas about lists, place by place: what an insertion by time, a replacement, an
  erasure (`Subsequence`) and a trim do to the order, the length and the addresses of a list.
  Theorems: `PeersInvariant`, `PeersTypeCorrect`, `PeersAreSound`, and the action property
  `JustSeenIsKept`, for full lists and equal times too.
- `ZonesAreConsistent` is about the composition `MCZones`.

**MinMaxLemmas.** Least and greatest elements, the places of a subsequence, and sums over
finite sets. The community modules define folds by recursive functions on sets; what such a
function gives for every finite set is shown by the absence of a smallest set for which it
does not, as the library's induction theorems cannot be used here.

**Only model-checked.** Liveness (`CallsReturn`, `WaitsForWorkersEnd`, `Adopts`,
`Downloads`, `FluffFlushed`, `QueuesDrain`), which is outside what the prover does. Every
safety property of the passing runs is a theorem, six of them under a named condition that
the code gives a reason for: `VersionsIdeal` (`NoVoting`), `VotesDecide` (`Consecutive` and
`~Pops`), `CheckpointsHold` and `CommittedWhole` (`PointsAbove`), `MostWork` and
`ImplementsForkChoice` (`Undisturbed`). The runs check them on instances that meet it.

## 5. What the models show about the code

Runs that end in a counterexample; each contradicts the quoted text (`findings`):

- `MCBlockchainReverts`: a failed reorganization is not always reverted. When the
  failing block made `add_block` throw half-way, its written transactions keep the old
  chain from being added again. The batch is then aborted, which restores a sound
  state (`CommittedWhole`, `ImplementsForkChoice` hold).
- `MCBlockchainBatch`: with two failing checkpoints the rollback for the first makes the
  lookup of the second throw, and the batch stays open.
- `MCMiner`: with background mining and autodetection together, `update_autodetection`
  waits for workers that wait for background mining to start, and nobody wakes them.
- `MCSyncReturns`: after a bad span of another peer a handler returns without going back
  to download; its connection is left synchronizing with no request, timer or callback.
- `MCSyncAdds`: the last span is delivered while the owner of `m_sync_lock` is about to
  give it back. Nobody adds it: the connections are set to normal as everything is queued,
  and each timed sync ends at the same place until a new block or peer comes.

Seen while modelling and not kept as runs:

- `tx_pool.h:635` says of `m_cookie` "incremented at each change", but `set_relayed` makes
  transactions minable without it, so the cached template stays (it can still be mined).
- `checkpoints.h:112`: alternative blocks are refused although the chain is below the
  first checkpoint, when that is for the very next height.
- A checkpoint at height 1: `pt.first - 2` wraps around and nothing is rolled back; at
  height 2 the rollback reaches the genesis block.
- After a pop the top block may have an alternative child; `build_alt_chain` refuses
  blocks on top of that child.
- With a non-zero threshold `on_block_popped` selects a fork by height alone, and it puts
  the popped block's version in front of the window. No network uses thresholds.
- Two pool transactions that share a key image, one of them from a block, need not be
  marked `double_spend_seen`.
- Chain entries: whether the first id is known is read before the queue is asked for it
  (about line 2641 of the handler); a span added in between is in neither place, and an
  honest peer is marked and dropped. `chain_mismatch` is that step.
- Miner: `start`, `stop`, `start` in quick succession may leave a thread of the first
  start among those of the second. A `stop` between autodetection's decision and its
  restart finds no threads, and mining goes on after it; a start and a stop in that window
  make the restart take back the signal of stop, which then waits for ever with
  `m_threads_lock` held (`SignalLost`). A refused `start` with zero threads leaves
  autodetection on. A worker may take a template number newer than its template
  (lines 559 to 567) and stay on it until the next.
- Thread pool: `threadpool.h` says that `wait` returns false iff a job failed; an
  exception of a job run inline by `submit` goes to the submitter instead.
- Noise: with fewer connections than channels an epoch does not swap all of them, whatever
  the comment at `levin_notify.cpp:586` says.
- Peers: an anchor added after its connection was closed stays (`stray`); taking the
  anchors while fewer than two connections exist forgets those of connected peers; the own
  address is white for a moment before the check for a connection to oneself
  (`net_node.inl:1347`); blocking a host does not remove its anchors.

## 6. Not modelled, and the plan

Modelled and checked: download queue and synchronisation, pool, hard forks, blockchain
with its abstract specification, thread pool, miner, Dandelion++ and noise, peer lists.
Proved: the safety of all of these, for every instance (section 4). What is open:

- Liveness is checked on small instances only.
- The composition of `Blockchain`, `TxPool` and `HardFork` with the same chain: each is
  proved against calls the others may make, in any order, but not against each other.

Not modelled:

- The aborted batch together with what is only in memory (key images and weight of the
  pool, current fork, invalid blocks): the composition of `Blockchain`, `TxPool` and
  `HardFork` is beyond TLC at the sizes where the case happens.
- Times of relay and embargo in the pool; the order of locks in
  `prepare_handle_incoming_blocks` (critical sections are steps).
- The rest of the p2p node: handshakes, choice of peers, slots and bans are network input
  and output with random choices.
- Multisig key exchange and message store: sequential protocols on keys, between wallets.
- Wallets, RPC and ZMQ servers (they hold no state the node depends on), crypto and ring
  signatures, serialization, difficulty (wide arithmetic), hardware devices, tools. These
  are most of the repository's lines; what is modelled is the part whose state several
  threads or several failures share.
