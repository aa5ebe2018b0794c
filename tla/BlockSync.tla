----------------------------- MODULE BlockSync ------------------------------
(***************************************************************************)
(* How the protocol handler (cryptonote_protocol_handler.inl) downloads a  *)
(* chain from several peers at once: every connection asks for the ids of  *)
(* the peer's chain, reserves spans in the block queue, asks for their     *)
(* blocks and queues the answers; whichever connection gets m_sync_lock    *)
(* adds the queued spans of all of them to the chain; connections with     *)
(* nothing to do stand by until a timer calls them back.                   *)
(*                                                                         *)
(* The handlers of one connection never overlap; those of two connections  *)
(* interleave between their calls of the queue and of the core (ctx.pc).   *)
(* The check of the queue in request_missing_objects and the commit of a   *)
(* span exclude each other (m_check_span_queue_mutex), so each is one      *)
(* step.  No peer is pruned.  A peer answers every request, once, in order *)
(* and truthfully, but as late as it likes; the blocks it has may fail     *)
(* verification.                                                           *)
(***************************************************************************)
EXTENDS BlockQueue, FiniteSets, Subsequences

CONSTANTS
  Tip,          \* Tip[c]: the height of the last block of peer c
  Bad,          \* ids of the blocks that fail verification
  Steady,       \* connections the network does not cut
  Slow,         \* connections whose peer may answer after the idle timer
  MaxIds,       \* MaxIds[c]: ids in a NOTIFY_RESPONSE_CHAIN_ENTRY of peer c
  MaxFilled,    \* delivered spans at which the queue is full
  MaxCallbacks  \* callbacks one connection waits for at most

\* An id stands for a block, its height and every block below it.  Where two
\* peers differ, one has a block that fails verification at that height or
\* below; the genesis block, at height 0, is the same for all.
ASSUME SyncAssumption ==
  /\ Conns # {}
  /\ Tip \in [Conns -> Heights]
  /\ Bad \subseteq Hashes
  /\ Steady \subseteq Conns /\ Slow \subseteq Conns
  /\ PeerStored = [c \in Conns |-> Heights]
  /\ \A c, d \in Conns : \A g \in 1..Tip[c], h \in 1..Tip[d] :
       PeerChain[c][g] = PeerChain[d][h] =>
         g = h /\ \A i \in 1..h : PeerChain[c][i] = PeerChain[d][i]
  /\ \A c, d \in Conns : \A h \in 1..Min({Tip[c], Tip[d]}) :
       PeerChain[c][h] # PeerChain[d][h] =>
         \E i \in 1..h : {PeerChain[c][i], PeerChain[d][i]} \cap Bad # {}
  /\ MaxIds \in [Conns -> Nat \ {0}]
  /\ MaxFilled \in Nat /\ {MaxCallbacks, MaxSpan} \subseteq Nat \ {0}

VARIABLES
  main_chain, \* the ids of the main chain above the genesis block
  sync_lock,  \* the connections (at most one) whose handler has m_sync_lock
  hand,       \* the spans (at most one) that it is verifying
  overdue,    \* starts of spans asked for too long ago
  ctx,        \* cryptonote_connection_context, with the place of its handler
  wire,       \* answers of each peer, in order
  left        \* handlers that ended after a span of another peer failed

syncVars == <<queueVars, main_chain, sync_lock, hand, overdue, ctx, wire, left>>
spanVars == <<blocks, requested_hashes, have_blocks>>

Honest(c) == \A h \in 1..Tip[c] : PeerChain[c][h] \notin Bad

-----------------------------------------------------------------------------
(* What the handlers read *)

BcHeight == Len(main_chain) + 1  \* get_current_blockchain_height
Remote(c) == Tip[c] + 1          \* m_remote_blockchain_height
have_block(id) == id \in ToSet(main_chain)
ChainHas(c, h) == h > 0 => have_block(PeerChain[c][h])

\* get_target_blockchain_height, lowered by on_connection_close.
Target == Max({0} \cup {Remote(c) : c \in {d \in Conns : ctx[d].conn # "closed"}})

\* The block at which find_blockchain_supplement of peer c starts its answer
\* to our get_short_chain_history.
CommonTop(c) == Max({h \in 0..Min({Len(main_chain), Tip[c]}) : ChainHas(c, h)})

DeliveredSpans == {s \in blocks : Filled(s)}
ScheduledNext == blocks # {} /\ ~Filled(FirstSpan(blocks))
HasNextSpan == blocks # {} /\ FirstSpan(blocks).start_block_height <= BcHeight

\* remove_spans
RemovedWith(s) == {t \in blocks : /\ t.connection_id = s.connection_id
                                  /\ t.start_block_height <= s.start_block_height}

\* get_expected_hash finds an id
Expected(k, h) == h \in k.expected_first..k.expected_last

\* match_span
MatchSpan(c, s) ==
  IF ~(Expected(ctx[c], s.start_block_height - 1) /\ Expected(ctx[c], SpanEnd(s) - 1))
  THEN "missing_history"
  ELSE IF \E i \in 1..Len(s.hashes) :
            PeerChain[c][s.start_block_height + i - 1] # s.hashes[i]
  THEN "different_chain" ELSE "matches"

\* The answers should_download_next_span can give: a standby connection may
\* also go by speeds that are not modelled.
should_download_next_span(c, standby) ==
  IF Remote(c) <= BcHeight THEN {FALSE}
  ELSE IF ~HasNextSpan THEN {TRUE}
  ELSE IF Filled(FirstSpan(blocks)) THEN {FALSE}
  ELSE IF FirstSpan(blocks).start_block_height \in overdue THEN {TRUE}
  ELSE IF standby THEN BOOLEAN ELSE {FALSE}

\* skip_unneeded_hashes: m_needed_objects are the ids of the peer's heights
\* first..last_response_height.
skip_unneeded_hashes(c, k, check_block_queue) ==
  LET Unneeded(h) == \/ ChainHas(c, h)
                     \/ check_block_queue /\ have_blocks[PeerChain[c][h]] # NoHeight
      n == Min({h \in k.first..(k.last_response_height + 1) :
                  h = k.last_response_height + 1 \/ ~Unneeded(h)})
  IN IF k.first <= k.last_response_height /\ n > k.last_response_height
     THEN [k EXCEPT !.first = n, !.last_known = k.last_response_height]
     ELSE [k EXCEPT !.first = n]

NoneNeeded(k) == k.first > k.last_response_height

-----------------------------------------------------------------------------
(* What the handlers do to their connection *)

\* The handler returns; handle_response_chain_entry clears m_num_requested last.
Done(k) == [k EXCEPT !.pc = "idle", !.force = FALSE, !.entry = FALSE,
                     !.num_requested = @ /\ ~k.entry]
SetNormal(k) == [Done(k) EXCEPT !.state = "normal", !.first = k.last_response_height + 1,
                                !.expected_first = 1, !.expected_last = 0]
Standby(k) == [Done(k) EXCEPT !.state = "standby"]
StandbyCalled(k) == [Standby(k) EXCEPT !.callbacks = Min({@ + 1, MaxCallbacks})]
Put(c, k) == ctx' = [ctx EXCEPT ![c] = k]

\* drop_connection of the handler's own connection
drop_connection(c) ==
  /\ EraseBlocks({s \in blocks : s.connection_id = c /\ ~Filled(s)})
  /\ Put(c, [Done(ctx[c]) EXCEPT !.conn = "closing"])
  /\ UNCHANGED <<outstanding, main_chain, sync_lock, hand, overdue, left>>

ChainEntry(start, c) ==
  [kind |-> "chain", start |-> start, last |-> Min({start + MaxIds[c] - 1, Tip[c]})]

\* request_chain, from the peer's last known block or from our own chain
request_chain(c, k, refresh) ==
  LET r == IF refresh THEN [k EXCEPT !.first = k.last_response_height + 1, !.last_known = 0]
                      ELSE k
      start == IF r.last_known = 0 THEN CommonTop(c) ELSE r.last_known
  IN /\ Put(c, Done([r EXCEPT !.refresh = refresh, !.timer = "set", !.expect = "chain"]))
     /\ wire' = [wire EXCEPT ![c] = Append(@, ChainEntry(start, c))]
     /\ UNCHANGED <<spanVars, outstanding, overdue>>

\* NOTIFY_REQUEST_GET_OBJECTS for the blocks from height `start' on
RequestObjects(c, k, start, ids) ==
  /\ outstanding' = [outstanding EXCEPT ![c] = [start |-> start, ids |-> ids]]
  /\ wire' = [wire EXCEPT ![c] = Append(@, [kind |-> "objects", start |-> start,
                                            last |-> start + Len(ids) - 1])]
  /\ Put(c, Done([k EXCEPT !.timer = "set", !.expect = "objects", !.num_requested = TRUE]))
  /\ overdue' = overdue \ {start}

At(c, pc) == ctx[c].pc = pc
Idle(c) == ctx[c].conn = "open" /\ At(c, "idle")
Receives(c, kind) ==
  /\ Idle(c)
  /\ wire[c] # <<>>
  /\ Head(wire[c]).kind = kind
  /\ wire' = [wire EXCEPT ![c] = Tail(@)]

-----------------------------------------------------------------------------
(* handle_response_get_objects *)

\* The blocks are the ones asked for, at heights whose ids, and whose
\* parent's id, the peer has announced.
objects_received(c) ==
  LET m == Head(wire[c])
      ids == NeededObjects(c, m.start, m.last)
  IN /\ Receives(c, "objects")
     /\ ctx[c].expect = "objects"
     /\ outstanding[c] = [start |-> m.start, ids |-> ids]
     /\ Expected(ctx[c], m.start - 1) /\ Expected(ctx[c], m.last)
     /\ add_filled_blocks(m.start, ids, c)
     /\ outstanding' = [outstanding EXCEPT ![c] = NoRequest]
     /\ Put(c, [ctx[c] EXCEPT !.expect = "none", !.timer = "unset",
                              !.last_known = m.last, !.pc = "try"])
     /\ UNCHANGED <<main_chain, sync_lock, hand, overdue, left>>

\* An answer out of the blue, or to an earlier request.
objects_refused(c) ==
  LET m == Head(wire[c])
  IN /\ Receives(c, "objects")
     /\ \/ ctx[c].expect # "objects"
        \/ outstanding[c] # [start |-> m.start, ids |-> NeededObjects(c, m.start, m.last)]
        \/ ~(Expected(ctx[c], m.start - 1) /\ Expected(ctx[c], m.last))
     /\ drop_connection(c)

-----------------------------------------------------------------------------
(* try_add_next_blocks *)

try_lock_sync(c) ==
  /\ At(c, "try")
  /\ IF sync_lock = {}
     THEN sync_lock' = {c} /\ Put(c, [ctx[c] EXCEPT !.pc = "adding"])
     ELSE UNCHANGED sync_lock /\ Put(c, [ctx[c] EXCEPT !.pc = "flush"])
  /\ UNCHANGED <<queueVars, main_chain, hand, overdue, wire, left>>

NextSpan == FirstSpan(DeliveredSpans)
Parent(s) == PeerChain[s.connection_id][s.start_block_height - 1]
ParentKnown(s) == ChainHas(s.connection_id, s.start_block_height - 1)
Old(s) == have_block(Last(s.blocks))

Adding(c) == At(c, "adding") /\ DeliveredSpans # {}

\* These are old blocks.
ignore_old_span(c) ==
  /\ Adding(c)
  /\ Old(NextSpan)
  /\ EraseBlocks(RemovedWith(NextSpan))
  /\ UNCHANGED <<outstanding, main_chain, sync_lock, hand, overdue, ctx, wire, left>>

\* Fault: the parent need only have been asked for.
Addable_Requested(s) ==
  ~Old(s) /\ (s.start_block_height > 1 => ParentKnown(s) \/ Parent(s) \in requested_hashes)
Addable(s) == ~Old(s) /\ ParentKnown(s)

take_span(c) ==
  /\ Adding(c)
  /\ Addable(NextSpan)
  /\ hand' = {NextSpan}
  /\ Put(c, [ctx[c] EXCEPT !.pc = "verify"])
  /\ UNCHANGED <<queueVars, main_chain, sync_lock, overdue, wire, left>>

Orphan(s) == ~Old(s) /\ ~ParentKnown(s) /\ Parent(s) \notin requested_hashes

\* An orphan that is not the block we need: back to download, without the
\* question whether the next span should be asked for again.
skip_orphan_span(c) ==
  /\ Adding(c)
  /\ Orphan(NextSpan) /\ NextSpan.start_block_height > BcHeight
  /\ sync_lock' = {}
  /\ Put(c, [ctx[c] EXCEPT !.pc = "flush"])
  /\ UNCHANGED <<queueVars, main_chain, hand, overdue, wire, left>>

\* An orphan at the height we need, left of a chain with a bad block: the ids of
\* the peer whose handler this is, not of the one the span came from, are asked
\* for again.
requery_orphan_span(c) ==
  /\ Adding(c)
  /\ Orphan(NextSpan) /\ NextSpan.start_block_height <= BcHeight
  /\ EraseBlocks(RemovedWith(NextSpan))
  /\ sync_lock' = {}
  /\ Put(c, [ctx[c] EXCEPT !.first = 1, !.last_response_height = 0, !.pc = "flush"])
  /\ UNCHANGED <<outstanding, main_chain, hand, overdue, wire, left>>

\* Nothing is delivered, or its parent will be retrieved later.
stop_adding(c) ==
  /\ At(c, "adding")
  /\ DeliveredSpans # {} => ~Old(NextSpan) /\ ~ParentKnown(NextSpan)
                              /\ Parent(NextSpan) \in requested_hashes
  /\ \E force \in should_download_next_span(c, FALSE) :
       Put(c, [ctx[c] EXCEPT !.pc = "flush", !.force = force])
  /\ sync_lock' = {}
  /\ UNCHANGED <<queueVars, main_chain, hand, overdue, wire, left>>

\* The blocks of a span before the first that fails verification, without
\* those that the chain has.
GoodLength(s) == Min({n \in 0..Len(s.blocks) :
                        n = Len(s.blocks) \/ s.blocks[n + 1] \in Bad})
Added(s) == Subsequence(s.blocks, {i \in 1..GoodLength(s) : ~have_block(s.blocks[i])})

Verifies(c, s) == At(c, "verify") /\ c \in sync_lock /\ s \in hand

\* Every block is added: cleanup_handle_incoming_blocks makes the new height
\* visible, and remove_spans follows.
add_span(c) == \E s \in hand :
  /\ Verifies(c, s)
  /\ GoodLength(s) = Len(s.blocks)
  /\ main_chain' = main_chain \o Added(s)
  /\ EraseBlocks(RemovedWith(s))
  /\ hand' = {}
  /\ Put(c, [ctx[c] EXCEPT !.pc = "adding"])
  /\ overdue' = overdue \ 1..Len(main_chain')
  /\ UNCHANGED <<outstanding, sync_lock, wire, left>>

\* A block fails: the peer of the span, if it is still connected, is dropped
\* with all its spans.
refuse_span(c) == \E s \in hand :
  /\ Verifies(c, s)
  /\ GoodLength(s) < Len(s.blocks)
  /\ LET d == s.connection_id
     IN /\ EraseBlocks({t \in blocks : t.connection_id = d /\ ctx[d].conn # "closed"})
        /\ ctx' = [e \in Conns |->
             LET k == IF e = d /\ ctx[e].conn = "open"
                      THEN [ctx[e] EXCEPT !.conn = "closing"] ELSE ctx[e]
             IN IF e = c THEN [k EXCEPT !.pc = "failed"] ELSE k]
  /\ UNCHANGED <<outstanding, main_chain, sync_lock, hand, overdue, wire, left>>

\* ... and the blocks before it stay; the handler returns there.
end_refused(c) == \E s \in hand :
  /\ At(c, "failed")
  /\ c \in sync_lock
  /\ main_chain' = main_chain \o Added(s)
  /\ EraseBlocks(RemovedWith(s))
  /\ hand' = {}
  /\ sync_lock' = {}
  /\ Put(c, Done(ctx[c]))
  /\ left' = left \cup ({c} \ {s.connection_id})
  /\ UNCHANGED <<outstanding, overdue, wire>>

-----------------------------------------------------------------------------
(* request_missing_objects *)

\* flush_stale_spans
flush_stale(c) ==
  /\ At(c, "flush")
  /\ EraseBlocks({s \in blocks : ~Filled(s) /\ ctx[s.connection_id].conn = "closed"})
  /\ Put(c, [ctx[c] EXCEPT !.pc = IF ctx[c].force THEN "reserve" ELSE "check"])
  /\ UNCHANGED <<outstanding, main_chain, sync_lock, hand, overdue, wire, left>>

\* Nothing is left to ask this peer for, and nothing was asked.
NothingToAsk(c, k) == k.first # ctx[c].first /\ NoneNeeded(k) /\ ~k.num_requested
nothing_to_ask(c, k) ==
  IF Remote(c) > get_next_needed_height(BcHeight)
  THEN drop_connection(c)
  ELSE Put(c, SetNormal(k)) /\ UNCHANGED <<spanVars, outstanding, overdue>>

\* Fault: the very next block does not count.
NextHeightProceeds_Beyond(k, needed) ==
  needed < Max({IF NoneNeeded(k) THEN needed ELSE k.first, BcHeight})
\* next_height_proceed
NextHeightProceeds(k, needed) ==
  needed < Max({IF NoneNeeded(k) THEN needed ELSE k.first, BcHeight + 1})

\* queue_proceed: the next block is always asked for, others while there is room.
QueueProceeds(k, needed) ==
  IF needed = BcHeight THEN NextHeightProceeds(k, needed)
  ELSE Cardinality(DeliveredSpans) < MaxFilled

Resume(k, force) == [k EXCEPT !.state = "synchronizing", !.pc = "reserve", !.force = force]

\* Under m_check_span_queue_mutex: nothing to ask, or on to the request, or
\* standby, with a callback if the next span waits and nobody is adding.
check_queue(c) ==
  /\ At(c, "check")
  /\ \E k \in {skip_unneeded_hashes(c, ctx[c], TRUE)},
        needed \in {get_next_needed_height(BcHeight)} :
       IF NothingToAsk(c, k)
       THEN nothing_to_ask(c, k)
       ELSE /\ \E force \in IF NextHeightProceeds(k, needed)
                           THEN should_download_next_span(c, TRUE) ELSE {FALSE} :
                 IF force \/ QueueProceeds(k, needed) THEN Put(c, Resume(k, force))
                 ELSE IF sync_lock = {} /\ HasNextSpan /\ Filled(FirstSpan(blocks))
                 THEN Put(c, StandbyCalled(k))
                 ELSE Put(c, Standby(k))
            /\ UNCHANGED <<spanVars, outstanding, overdue>>
  /\ UNCHANGED <<main_chain, sync_lock, hand, wire, left>>

\* A span that another request is out for is asked of this peer as well, if
\* its chain is known to have it.
ask_scheduled(c, k) == \E s \in {FirstSpan(blocks)} :
  LET match == MatchSpan(c, s)
  IN \/ /\ match = "matches"
        /\ RequestObjects(c, [k EXCEPT !.first = IF k.force THEN @ ELSE Max({@, SpanEnd(s)})],
                          s.start_block_height, s.hashes)
        /\ UNCHANGED spanVars
     \/ /\ match = "missing_history" /\ Remote(c) >= SpanEnd(s)
        /\ request_chain(c, k, TRUE)
     \/ /\ match = "different_chain" \/ (match = "missing_history" /\ Remote(c) < SpanEnd(s))
        /\ Put(c, Standby(k))
        /\ UNCHANGED <<spanVars, outstanding, overdue, wire>>

\* reserve_span and the request for it
reserve_and_request(c, k, r) ==
  /\ blocks' = blocks \cup {NewSpan(r.start, r.ids, <<>>, Len(r.ids), c)}
  /\ requested_hashes' = requested_hashes \cup ToSet(r.ids)
  /\ UNCHANGED have_blocks
  /\ RequestObjects(c, [k EXCEPT !.first = r.start + Len(r.ids)], r.start, r.ids)

\* We can download nothing from this peer.
no_span(c, k) ==
  IF Max({BcHeight, get_next_needed_height(BcHeight)}) >= Target
  THEN Put(c, SetNormal(k)) /\ UNCHANGED <<spanVars, outstanding, overdue>>
  ELSE drop_connection(c)

\* reserve_span for a peer that is not pruned: the needed ids that are not
\* requested yet, unless a span starts there (ChooseSpan has the other peers).
Reservable(c, k) ==
  LET ids == NeededObjects(c, k.first, k.last_response_height)
      i == SkipRequested(ids, 1)
      start == k.first + i - 1
  IN IF i > Len(ids) \/ SpansAt(start) # {} THEN NoRequest
     ELSE [start |-> start,
           ids |-> SubSeq(ids, i, i - 1 + SpanLength(c, ids, i, start, MaxSpan, FALSE))]

request_objects(c) ==
  /\ At(c, "reserve")
  /\ ctx[c].force \/ ~NoneNeeded(ctx[c])
  /\ IF ctx[c].force /\ ScheduledNext
     THEN ask_scheduled(c, ctx[c])
     ELSE \E k \in {skip_unneeded_hashes(c, ctx[c], FALSE)} : \E r \in {Reservable(c, k)} :
       \/ /\ NothingToAsk(c, k)
          /\ nothing_to_ask(c, k)
          /\ UNCHANGED wire
       \/ /\ ~NothingToAsk(c, k) /\ r # NoRequest
          /\ reserve_and_request(c, k, r)
       \/ /\ ~NothingToAsk(c, k) /\ r = NoRequest /\ ScheduledNext
          /\ ask_scheduled(c, k)
       \/ /\ ~NothingToAsk(c, k) /\ r = NoRequest /\ ~ScheduledNext
          /\ no_span(c, k)
          /\ UNCHANGED wire
  /\ UNCHANGED <<main_chain, sync_lock, hand, left>>

\* No id is needed and no span forced: at once to the next step.
request_nothing(c) ==
  /\ At(c, "reserve")
  /\ ~ctx[c].force /\ NoneNeeded(ctx[c])
  /\ Put(c, [ctx[c] EXCEPT !.pc = "chain"])
  /\ UNCHANGED <<queueVars, main_chain, sync_lock, hand, overdue, wire, left>>

\* The end of request_missing_objects: add blocks if nobody does, ask for
\* more ids, or be done with this peer.
request_ids(c) ==
  LET k == ctx[c]
      can_add == BcHeight < Target /\ sync_lock = {} /\ DeliveredSpans # {}
  IN /\ At(c, "chain")
     /\ \/ /\ can_add
           /\ Put(c, StandbyCalled(k))
           /\ UNCHANGED <<spanVars, outstanding, overdue, wire>>
        \/ /\ ~can_add /\ k.last_response_height < Remote(c) - 1
           /\ request_chain(c, k, FALSE)
        \/ /\ ~can_add /\ k.last_response_height = Remote(c) - 1
           /\ Put(c, SetNormal(k))
           /\ UNCHANGED <<spanVars, outstanding, overdue, wire>>
     /\ UNCHANGED <<main_chain, sync_lock, hand, left>>

-----------------------------------------------------------------------------
(* handle_response_chain_entry *)

chain_refused(c) ==
  /\ Receives(c, "chain")
  /\ ctx[c].expect # "chain"
  /\ drop_connection(c)

\* Up to the look at our own chain for the first id.
chain_received(c) ==
  LET m == Head(wire[c])
  IN /\ Receives(c, "chain")
     /\ ctx[c].expect = "chain"
     /\ Put(c, [ctx[c] EXCEPT !.expect = "none", !.timer = "unset", !.entry = TRUE,
                              !.last_response_height = m.last, !.first = Max({1, m.start}),
                              !.expected_first = m.start, !.expected_last = m.last,
                              !.known = ChainHas(c, m.start), !.pc = "scan"])
     /\ UNCHANGED <<queueVars, main_chain, sync_lock, hand, overdue, left>>

\* The looks at the queue for the first id, and at the chain for the others:
\* either finds that the peer is lying when the chain was extended meanwhile.
FirstUnknown(c) == ~ctx[c].known /\ have_blocks[PeerChain[c][ctx[c].expected_first]]
                                      # ctx[c].expected_first
KnownAfterUnknown(c) ==
  /\ ~ctx[c].known
  /\ \E h \in (ctx[c].expected_first + 1)..ctx[c].expected_last : ChainHas(c, h)

chain_mismatch(c) ==
  /\ At(c, "scan")
  /\ FirstUnknown(c) \/ KnownAfterUnknown(c)
  /\ drop_connection(c)
  /\ UNCHANGED wire

chain_accepted(c) ==
  LET k == ctx[c]
      covered == /\ ScheduledNext
                 /\ Expected(k, FirstSpan(blocks).start_block_height - 1)
                 /\ Expected(k, SpanEnd(FirstSpan(blocks)) - 1)
  IN /\ At(c, "scan")
     /\ ~FirstUnknown(c) /\ ~KnownAfterUnknown(c)
     /\ \E download \in IF k.refresh THEN should_download_next_span(c, TRUE) ELSE {FALSE} :
          Put(c, [k EXCEPT !.refresh = FALSE, !.known = FALSE, !.pc = "flush",
                         !.force = download /\ covered])
     /\ UNCHANGED <<queueVars, main_chain, sync_lock, hand, overdue, wire, left>>

-----------------------------------------------------------------------------
(* Timers, callbacks and closing connections *)

CanCall(c) == ctx[c].callbacks < MaxCallbacks

\* kick_idle_peers: the peer has not answered for long.
kick_idle(c) ==
  /\ Idle(c) /\ CanCall(c)
  /\ c \in Slow
  /\ ctx[c].state = "synchronizing" /\ ctx[c].timer # "unset"
  /\ Put(c, [ctx[c] EXCEPT !.timer = "expired", !.idle_notification = TRUE, !.callbacks = @ + 1])
  /\ UNCHANGED <<queueVars, main_chain, sync_lock, hand, overdue, wire, left>>

\* check_standby_peers
check_standby(c) ==
  /\ Idle(c) /\ CanCall(c)
  /\ ctx[c].state = "standby"
  /\ Put(c, [ctx[c] EXCEPT !.callbacks = @ + 1])
  /\ UNCHANGED <<queueVars, main_chain, sync_lock, hand, overdue, wire, left>>

\* The time after which the next span is asked for again has passed.
span_overdue ==
  /\ ScheduledNext
  /\ overdue' = overdue \cup {FirstSpan(blocks).start_block_height}
  /\ UNCHANGED <<queueVars, main_chain, sync_lock, hand, ctx, wire, left>>

\* Fault: the request for a callback is taken back twice.
Called_Twice(c) == [ctx[c] EXCEPT !.callbacks = @ - 2, !.idle_notification = FALSE]
Called(c) == [ctx[c] EXCEPT !.callbacks = @ - 1, !.idle_notification = FALSE]
Kicked(c) == /\ ctx[c].idle_notification
             /\ ctx[c].state = "synchronizing" /\ ctx[c].timer = "expired"

callback_fires(c) == Idle(c) /\ ctx[c].callbacks > 0

\* on_callback of a peer kicked for the second time
callback_drops(c) ==
  /\ callback_fires(c)
  /\ Kicked(c) /\ ctx[c].kicked
  /\ drop_connection(c)
  /\ UNCHANGED wire

\* on_callback of a peer kicked for the first time: its request is forgotten.
callback_kicks(c) ==
  /\ callback_fires(c)
  /\ Kicked(c) /\ ~ctx[c].kicked
  /\ outstanding' = [outstanding EXCEPT ![c] = NoRequest]
  /\ Put(c, [Called(c) EXCEPT !.timer = "unset", !.expect = "none", !.refresh = FALSE,
                              !.kicked = TRUE, !.pc = "try"])
  /\ UNCHANGED <<spanVars, main_chain, sync_lock, hand, overdue, wire, left>>

\* on_callback otherwise
callback_resumes(c) ==
  /\ callback_fires(c)
  /\ ~Kicked(c)
  /\ \/ /\ ctx[c].state = "synchronizing" /\ ctx[c].timer = "unset"
        /\ Put(c, [Called(c) EXCEPT !.first = ctx[c].last_response_height + 1,
                                    !.timer = "set", !.expect = "chain"])
        /\ wire' = [wire EXCEPT ![c] = Append(@, ChainEntry(CommonTop(c), c))]
     \/ /\ ctx[c].state = "standby"
        /\ Put(c, [Called(c) EXCEPT !.state = "synchronizing", !.pc = "try"])
        /\ UNCHANGED wire
     \/ /\ ctx[c].state = "normal" \/ (ctx[c].state = "synchronizing" /\ ctx[c].timer # "unset")
        /\ Put(c, Called(c))
        /\ UNCHANGED wire
  /\ UNCHANGED <<queueVars, main_chain, sync_lock, hand, overdue, left>>

\* Fault: the connection is to synchronize but is not called back.
Wanted_Uncalled(k) == [k EXCEPT !.state = "synchronizing", !.num_requested = FALSE]
Wanted(k) == [k EXCEPT !.state = "synchronizing", !.callbacks = @ + 1, !.num_requested = FALSE]

\* process_payload_sync_data of a timed sync
timed_sync(c) ==
  /\ Idle(c)
  /\ \/ /\ ctx[c].state = "standby" /\ ChainHas(c, Tip[c])
        /\ Put(c, SetNormal(ctx[c]))
     \/ /\ ctx[c].state # "synchronizing" /\ ~ChainHas(c, Tip[c])
        /\ CanCall(c)
        /\ Put(c, Wanted(ctx[c]))
  /\ UNCHANGED <<queueVars, main_chain, sync_lock, hand, overdue, wire, left>>

\* The peer closes the connection.
peer_closes(c) ==
  /\ ctx[c].conn = "open"
  /\ c \notin Steady
  /\ Put(c, [ctx[c] EXCEPT !.conn = "closing"])
  /\ UNCHANGED <<queueVars, main_chain, sync_lock, hand, overdue, wire, left>>

NewContext ==
  [conn |-> "open", state |-> "synchronizing", pc |-> "idle", force |-> FALSE,
   entry |-> FALSE, known |-> FALSE, first |-> 1, last_response_height |-> 0,
   expected_first |-> 1, expected_last |-> 0, last_known |-> 0, num_requested |-> FALSE,
   refresh |-> FALSE, expect |-> "none", timer |-> "unset", callbacks |-> 1,
   idle_notification |-> FALSE, kicked |-> FALSE]

\* on_connection_close, when no handler of the connection is left
on_connection_close(c) ==
  /\ ctx[c].conn = "closing" /\ At(c, "idle")
  /\ EraseBlocks({s \in blocks : s.connection_id = c /\ ~Filled(s)})
  /\ outstanding' = [outstanding EXCEPT ![c] = NoRequest]
  /\ Put(c, [NewContext EXCEPT !.conn = "closed", !.kicked = ctx[c].kicked])
  /\ wire' = [wire EXCEPT ![c] = <<>>]
  /\ UNCHANGED <<main_chain, sync_lock, hand, overdue, left>>

-----------------------------------------------------------------------------
\* Every connection has shaken hands: process_payload_sync_data has set it to
\* synchronizing and asked for a callback.
SyncInit ==
  /\ QueueInit
  /\ main_chain = <<>>
  /\ sync_lock = {} /\ hand = {} /\ overdue = {}
  /\ ctx = [c \in Conns |-> NewContext]
  /\ wire = [c \in Conns |-> <<>>]
  /\ left = {}

\* The steps of a handler that has begun
Handles(c) ==
  \/ try_lock_sync(c) \/ ignore_old_span(c) \/ take_span(c) \/ skip_orphan_span(c)
  \/ requery_orphan_span(c) \/ stop_adding(c) \/ add_span(c) \/ refuse_span(c) \/ end_refused(c)
  \/ flush_stale(c) \/ check_queue(c) \/ request_objects(c) \/ request_nothing(c)
  \/ request_ids(c) \/ chain_mismatch(c) \/ chain_accepted(c)

\* An answer or a callback begins one
Begins(c) ==
  \/ objects_received(c) \/ objects_refused(c) \/ chain_received(c) \/ chain_refused(c)

Calls(c) == callback_drops(c) \/ callback_kicks(c) \/ callback_resumes(c)

Works(c) == \/ Handles(c) \/ Begins(c) \/ Calls(c)
            \/ check_standby(c) \/ timed_sync(c) \/ on_connection_close(c)

\* Every connection is closed, or has nothing more to download.
SyncDone ==
  /\ \A c \in Conns : At(c, "idle") /\ (ctx[c].conn = "closed" \/ ctx[c].state = "normal" \/ c \in left)
  /\ UNCHANGED syncVars

SyncNext ==
  \/ \E c \in Conns : Works(c) \/ kick_idle(c) \/ peer_closes(c)
  \/ span_overdue \/ SyncDone

\* Threads run, peers answer, and the timers of on_idle and of the timed sync
\* go off: a connection for which something of the kind is due all the time
\* does not stand still.  Nothing makes a peer slow, or cuts a connection.
SyncFairness ==
  /\ \A c \in Conns : WF_syncVars(Works(c))
  /\ WF_syncVars(span_overdue)

SyncSpec == SyncInit /\ [][SyncNext]_syncVars /\ SyncFairness

-----------------------------------------------------------------------------
(* Properties *)

ContextType ==
  [conn : {"open", "closing", "closed"}, state : {"synchronizing", "standby", "normal"},
   pc : {"idle", "scan", "try", "adding", "verify", "failed", "flush", "check", "reserve", "chain"},
   force : BOOLEAN, entry : BOOLEAN, known : BOOLEAN, first : 1..(MaxHeight + 1),
   last_response_height : 0..MaxHeight, expected_first : 0..MaxHeight,
   expected_last : 0..MaxHeight, last_known : 0..MaxHeight, num_requested : BOOLEAN,
   refresh : BOOLEAN, expect : {"none", "chain", "objects"},
   timer : {"unset", "set", "expired"}, callbacks : 0..MaxCallbacks,
   idle_notification : BOOLEAN, kicked : BOOLEAN]

\* Type correctness; m_sync_lock has one owner, who alone has a span in hand.
SyncTypeOK ==
  /\ ctx \in [Conns -> ContextType]
  /\ sync_lock = {c \in Conns : ctx[c].pc \in {"adding", "verify", "failed"}}
  /\ Cardinality(sync_lock) <= 1
  /\ Cardinality(hand) = Cardinality({c \in Conns : ctx[c].pc \in {"verify", "failed"}})

\* The main chain is a prefix of the chain all peers would agree on: no span
\* is added before the one below it, whoever delivered them and whoever adds.
ChainOrdered ==
  /\ ToSet(main_chain) \cap Bad = {}
  /\ \E c \in Conns : Len(main_chain) <= Tip[c] /\ main_chain = SubSeq(PeerChain[c], 1, Len(main_chain))

\* No connection is forgotten: one that synchronizes and is in no handler has
\* a request out, whose answer or timer will wake it, or a callback to come.
\* The exception is a handler that met a bad span of another peer.  And one at
\* the end of request_missing_objects meets its final condition: it has nothing
\* to ask for and nothing out, and heard of no block the peer does not have.
NotForgotten == \A c \in Conns :
  /\ (Idle(c) /\ ctx[c].state = "synchronizing" /\ c \notin left) =>
        ctx[c].timer # "unset" \/ ctx[c].callbacks > 0
  /\ At(c, "chain") => /\ NoneNeeded(ctx[c]) /\ outstanding[c] = NoRequest
                       /\ ctx[c].last_response_height < Remote(c)

\* "... so we do that for as long as we can from the block queue. Then, we go
\* back to download" (try_add_next_blocks): also after a span that failed.
GoesBackToDownload == \A c \in Conns :
  (Idle(c) /\ ctx[c].state = "synchronizing") =>
     ctx[c].timer # "unset" \/ ctx[c].callbacks > 0

\* The node downloads the chain of every honest peer that stays and answers,
\* whoever delivers it and however requests, late answers, full queues,
\* dropped peers and refused spans interleave, unless the peer is dropped or
\* forgotten.
Downloads == \A c \in {d \in Steady : Honest(d)} :
  (wire[c] # <<>>) ~> (get_next_needed_height(BcHeight) > Tip[c] \/ ctx[c].conn # "open" \/ c \in left)

\* "... if we can add blocks instead, do so" (request_missing_objects): it
\* also adds what it downloads.
Synchronizes == \A c \in {d \in Steady : Honest(d)} :
  (wire[c] # <<>>) ~> (Len(main_chain) >= Tip[c] \/ ctx[c].conn # "open" \/ c \in left)
=============================================================================
