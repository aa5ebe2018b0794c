----------------------------- MODULE BlockQueue -----------------------------
(***************************************************************************)
(* The download queue of the synchronisation code                          *)
(* (src/cryptonote_protocol/block_queue.cpp): an ordered set of spans of   *)
(* consecutive blocks, each scheduled on (or delivered by) one connection, *)
(* with two indexes kept beside it: requested_hashes, the block ids that   *)
(* belong to a queued span, and have_blocks, the height of every id whose  *)
(* span has been delivered.                                                *)
(*                                                                         *)
(* Every public method takes the queue's mutex for its whole body, so each *)
(* is one action.  The connections that call the queue are represented by  *)
(* `outstanding', what the protocol handler has asked of each peer and not *)
(* received yet: a peer may answer long after its span was flushed,        *)
(* reassigned to another peer or replaced.                                 *)
(***************************************************************************)
EXTENDS Integers, Sequences, SequencesExt

CONSTANTS
  Conns,        \* connections (peers)
  Hashes,       \* block ids
  MaxHeight,    \* the highest block any peer reports
  PeerChain,    \* PeerChain[c][h]: id of the block peer c reports at height h
  PeerStored,   \* PeerStored[c]: heights whose full data peer c has (pruning seed)
  LocalStored,  \* heights whose full data the local pruning seed asks for
  StripeSize,   \* CRYPTONOTE_PRUNING_STRIPE_SIZE
  MaxSpan       \* the largest number of blocks asked for at once

Heights == 1..MaxHeight
NoHeight == -1  \* have_height's std::numeric_limits<uint64_t>::max()
NoRequest == [start |-> NoHeight, ids |-> <<>>]

ASSUME HeightsAssumption == MaxHeight \in Nat
ASSUME PeersAssumption ==
  /\ PeerChain \in [Conns -> [Heights -> Hashes]]
  /\ PeerStored \in [Conns -> SUBSET Heights]
  /\ LocalStored \subseteq Heights
  /\ StripeSize \in Nat
  /\ MaxSpan \in Nat

VARIABLES
  blocks,            \* the set of spans
  requested_hashes,  \* set of block ids
  have_blocks,       \* block id -> height, NoHeight when absent
  outstanding        \* connection -> the request the peer has not answered yet

queueVars == <<blocks, requested_hashes, have_blocks, outstanding>>

-----------------------------------------------------------------------------
HashesOf(spans) == UNION {ToSet(s.hashes) : s \in spans}
Filled(s) == s.blocks # <<>>
SpansAt(height) == {s \in blocks : s.start_block_height = height}

\* span(height, bcel, ...) and span(height, nblocks, ...), with the hashes
\* that set_span_hashes gives it before the mutex is released.
NewSpan(height, hashes, bcel, nblocks, c) ==
  [start_block_height |-> height, hashes |-> hashes, blocks |-> bcel,
   nblocks |-> nblocks, connection_id |-> c]

\* erase_block on every span of a set.
EraseBlocks(spans) ==
  /\ blocks' = blocks \ spans
  /\ requested_hashes' = requested_hashes \ HashesOf(spans)
  /\ have_blocks' = [h \in Hashes |->
       IF h \in HashesOf(spans) THEN NoHeight ELSE have_blocks[h]]

\* have_blocks.emplace keeps the first of several positions.
FirstPosition(seq, h) == Min({i \in 1..Len(seq) : seq[i] = h})

\* The filled add_blocks: whatever span starts at this height is removed,
\* whichever connection it belongs to, and its hashes pass to the new span.
add_filled_blocks(height, bcel, c) ==
  IF SpansAt(height) = {}
  THEN /\ blocks' = blocks \cup {NewSpan(height, <<>>, bcel, Len(bcel), c)}
       /\ UNCHANGED <<requested_hashes, have_blocks>>
  ELSE LET gone == CHOOSE s \in SpansAt(height) : TRUE
       IN /\ blocks' = (blocks \ {gone})
                         \cup {NewSpan(height, gone.hashes, bcel, Len(bcel), c)}
          /\ requested_hashes' = (requested_hashes \ ToSet(gone.hashes)) \cup ToSet(gone.hashes)
          /\ have_blocks' = [h \in Hashes |->
               IF h \in ToSet(gone.hashes)
               THEN height + FirstPosition(gone.hashes, h) - 1
               ELSE have_blocks[h]]

-----------------------------------------------------------------------------
(* reserve_span *)

\* The first position from k on whose id is not requested (Len + 1 if none).
SkipRequested(ids, k) ==
  Min({i \in k..(Len(ids) + 1) : i = Len(ids) + 1 \/ ids[i] \notin requested_hashes})

\* tools::get_next_unpruned_block_height for this peer's seed.
NextUnpruned(c, height) ==
  LET later == {h \in PeerStored[c] : h >= height}
  IN IF later = {} THEN height ELSE Min(later)

\* Fault: the loop does not stop at an id that is requested already.
MayTake_IgnoresRequested(c, ids, i, hgt, first, sync_pruned) ==
  /\ sync_pruned \/ hgt \in PeerStored[c]
  /\ ~(sync_pruned /\ (first \notin LocalStored) = (hgt \in LocalStored))

\* Whether the block at position i (height hgt) may join a span whose first
\* block is at height `first'.
MayTake(c, ids, i, hgt, first, sync_pruned) ==
  /\ ids[i] \notin requested_hashes
  /\ sync_pruned \/ hgt \in PeerStored[c]
  /\ ~(sync_pruned /\ (first \notin LocalStored) = (hgt \in LocalStored))

\* The number of blocks taken from position i (height `first') on: up to the
\* first that stops the loop.
SpanLength(c, ids, i, first, max_blocks, sync_pruned) ==
  Min({n \in 0..max_blocks : \/ n = max_blocks
                             \/ i + n > Len(ids)
                             \/ ~MayTake(c, ids, i + n, first + n, first, sync_pruned)})

\* The span chosen out of `ids', the peer's needed hashes that end at height
\* last_block_height; [start, ids] with no ids when nothing can be reserved.
ChooseSpan(c, ids, last_block_height, max_blocks, sync_pruned) ==
  LET base  == last_block_height - Len(ids) + 1
      start1 == base + SkipRequested(ids, 1) - 1
      next  == NextUnpruned(c, start1)
      start2 == IF ~sync_pruned /\ next > start1 /\ next < start1 + StripeSize
                THEN next ELSE start1
      i     == SkipRequested(ids, start2 - base + 1)
      start3 == base + i - 1
      n     == SpanLength(c, ids, i, start3, max_blocks, sync_pruned)
  IN IF max_blocks = 0 \/ Len(ids) > last_block_height \/ start2 >= Len(ids) + base
     THEN NoRequest
     ELSE [start |-> start3, ids |-> SubSeq(ids, i, i + n - 1)]

\* m_needed_objects of c: the ids of heights first..last on its chain.
NeededObjects(c, first, last) == [i \in 1..(last - first + 1) |-> PeerChain[c][first + i - 1]]

reserve_span(c, first, last, max_blocks, sync_pruned) ==
  /\ outstanding[c] = NoRequest
  /\ first <= last
  /\ LET span == ChooseSpan(c, NeededObjects(c, first, last), last, max_blocks, sync_pruned)
     IN /\ span.ids # <<>>
        /\ SpansAt(span.start) = {}
        /\ blocks' = blocks \cup {NewSpan(span.start, span.ids, <<>>, Len(span.ids), c)}
        /\ requested_hashes' = requested_hashes \cup ToSet(span.ids)
        /\ outstanding' = [outstanding EXCEPT ![c] = span]
        /\ UNCHANGED have_blocks

-----------------------------------------------------------------------------
\* get_next_span: the span at the front of the ordered set.
FirstSpan(spans) == CHOOSE s \in spans :
  \A t \in spans : s.start_block_height <= t.start_block_height

\* get_next_span_if_scheduled, and the handler's request of the same hashes
\* from a second connection whose chain has them too (match_span).
request_next_span(c) ==
  /\ outstanding[c] = NoRequest
  /\ blocks # {}
  /\ LET s == FirstSpan(blocks)
     IN /\ ~Filled(s)
        /\ s.hashes # <<>>
        /\ \A i \in 1..Len(s.hashes) : /\ s.start_block_height + i - 1 \in Heights
                                       /\ PeerChain[c][s.start_block_height + i - 1] = s.hashes[i]
        /\ outstanding' = [outstanding EXCEPT ![c] =
                             [start |-> s.start_block_height, ids |-> s.hashes]]
  /\ UNCHANGED <<blocks, requested_hashes, have_blocks>>

\* A peer answers: the handler checks the blocks are those it asked for and
\* queues them, whatever has become of the span in the meantime.
add_blocks(c) ==
  /\ outstanding[c] # NoRequest
  /\ add_filled_blocks(outstanding[c].start, outstanding[c].ids, c)
  /\ outstanding' = [outstanding EXCEPT ![c] = NoRequest]

\* The connection is closed (all = FALSE) or dropped (all = TRUE).
flush_spans(c, all) ==
  /\ EraseBlocks({s \in blocks : s.connection_id = c /\ (all \/ ~Filled(s))})
  /\ outstanding' = [outstanding EXCEPT ![c] = NoRequest]

\* Fault: delivered spans are flushed with the scheduled ones.
flush_stale_spans_Filled(live) ==
  /\ EraseBlocks({s \in blocks : s.connection_id \notin live})
  /\ UNCHANGED outstanding

\* Run by every request cycle with the connections p2p still knows.
flush_stale_spans(live) ==
  /\ EraseBlocks({s \in blocks : ~Filled(s) /\ s.connection_id \notin live})
  /\ UNCHANGED outstanding

\* get_next_span followed by remove_spans: the first filled span has been
\* added to the chain, was old, or was refused.
remove_next_filled_span ==
  LET filled == {s \in blocks : Filled(s)}
  IN /\ filled # {}
     /\ LET s == FirstSpan(filled)
        IN EraseBlocks({t \in blocks : /\ t.connection_id = s.connection_id
                                       /\ t.start_block_height <= s.start_block_height})
     /\ UNCHANGED outstanding

-----------------------------------------------------------------------------
QueueInit ==
  /\ blocks = {}
  /\ requested_hashes = {}
  /\ have_blocks = [h \in Hashes |-> NoHeight]
  /\ outstanding = [c \in Conns |-> NoRequest]

QueueNext ==
  \/ \E c \in Conns, first, last \in Heights, max_blocks \in 0..MaxSpan, sp \in BOOLEAN :
       reserve_span(c, first, last, max_blocks, sp)
  \/ \E c \in Conns : request_next_span(c)
  \/ \E c \in Conns : add_blocks(c)
  \/ \E c \in Conns, all \in BOOLEAN : flush_spans(c, all)
  \/ \E live \in SUBSET Conns : flush_stale_spans(live)
  \/ remove_next_filled_span

QueueSpec == QueueInit /\ [][QueueNext]_queueVars

-----------------------------------------------------------------------------
\* get_next_needed_height: the loop over the ordered spans, of which the last
\* comes after all others, with its early return at the first gap carried in
\* the accumulator.
SpanEnd(s) == s.start_block_height + s.nblocks
LastSpan(spans) == CHOOSE s \in spans :
  \A t \in spans : t.start_block_height <= s.start_block_height
\* Fault: a span adjacent to what is covered counts as a gap.
CoverStep_Adjacent(blockchain_height, acc, s) ==
  IF acc.gap \/ SpanEnd(s) - 1 < blockchain_height THEN acc
  ELSE IF s.start_block_height >= acc.covered_until THEN [acc EXCEPT !.gap = TRUE]
  ELSE [acc EXCEPT !.covered_until = Max({@, SpanEnd(s)})]

CoverStep(blockchain_height, acc, s) ==
  IF acc.gap \/ SpanEnd(s) - 1 < blockchain_height THEN acc
  ELSE IF s.start_block_height > acc.covered_until THEN [acc EXCEPT !.gap = TRUE]
  ELSE [acc EXCEPT !.covered_until = Max({@, SpanEnd(s)})]
get_next_needed_height(blockchain_height) ==
  MapThenFoldSet(LAMBDA s, acc : CoverStep(blockchain_height, acc, s),
                 [covered_until |-> blockchain_height, gap |-> FALSE],
                 LAMBDA s : s, LastSpan, blocks).covered_until

-----------------------------------------------------------------------------
(* Properties *)

SpanType == [start_block_height : Nat, hashes : Seq(Hashes), blocks : Seq(Hashes),
             nblocks : Nat, connection_id : Conns]
RequestType == [start : Int, ids : Seq(Hashes)]

\* Type correctness of the queue and of the requests in flight.
QueueTypeOK ==
  /\ blocks \subseteq SpanType
  /\ requested_hashes \subseteq Hashes
  /\ have_blocks \in [Hashes -> Nat \cup {NoHeight}]
  /\ outstanding \in [Conns -> RequestType]
  /\ \A c \in Conns : outstanding[c] # NoRequest =>
                       (outstanding[c].start \in Nat /\ outstanding[c].ids # <<>>)

\* std::set<span> orders spans by their start only, so two spans never start
\* at the same height.
OneSpanPerStart ==
  \A s, t \in blocks : s.start_block_height = t.start_block_height => s = t

\* requested_hashes is exactly what the queued spans stand for: a block whose
\* span was erased can be asked for again, and one that is queued cannot.
RequestedExact == requested_hashes = HashesOf(blocks)

\* reserve_span never schedules a block that another span already covers,
\* however late answers, flushes and reassignments are interleaved.
SpansDisjoint ==
  \A s, t \in blocks : s # t => ToSet(s.hashes) \cap ToSet(t.hashes) = {}

\* have_blocks answers have() and have_height(): it holds exactly the ids
\* registered for delivered spans, each at its height in its span.
HaveExact ==
  \A h \in Hashes :
    \/ /\ have_blocks[h] = NoHeight
       /\ \A s \in blocks : Filled(s) => h \notin ToSet(s.hashes)
    \/ \E s \in blocks :
         /\ Filled(s)
         /\ \E i \in 1..Len(s.hashes) : /\ s.hashes[i] = h
                                        /\ have_blocks[h] = s.start_block_height + i - 1

\* What the queue says of ids is what its spans hold, through late answers,
\* flushes and reassignments: no block is asked for twice or by two spans, and
\* none is taken for requested or delivered that is not.
QueueIndexesExact == RequestedExact /\ HaveExact /\ SpansDisjoint

\* get_next_needed_height returns the first height at or above the chain
\* height that no span covers, for overlapping spans and partial deliveries too.
NextNeededIsFirstGap ==
  \A bc \in Heights :
    LET free == {h \in bc..(MaxHeight + 1) :
                   \A s \in blocks : h \notin s.start_block_height..(SpanEnd(s) - 1)}
    IN get_next_needed_height(bc) = Min(free)

\* A delivered span leaves the queue only with its own connection (flush,
\* drop, processed) or because another delivery starts at the same height.
DeliveredSpansKept ==
  [][\A s \in blocks \ blocks' : Filled(s) =>
       \/ \E t \in blocks' : Filled(t) /\ t.start_block_height = s.start_block_height
       \/ \A t \in blocks \ blocks' : t.connection_id = s.connection_id]_queueVars

=============================================================================
