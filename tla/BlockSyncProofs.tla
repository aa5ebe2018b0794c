-------------------------- MODULE BlockSyncProofs --------------------------
(***************************************************************************)
(* Proofs about the download of the chain (BlockSync): whatever peers      *)
(* answer, however late, and however the handlers of their connections     *)
(* interleave, the main chain is a prefix of the chain they would agree    *)
(* on, the indexes of the queue are exact, and no connection is forgotten. *)
(***************************************************************************)
EXTENDS BlockSync, BlockQueueProofs, SequenceTheorems

-----------------------------------------------------------------------------
(* The invariant *)

Locking == {"adding", "verify", "failed"}
Holding == {"verify", "failed"}

\* What a peer sends: ids or blocks of its chain.
Message(c) == {m \in [kind : {"chain", "objects"}, start : 0..Tip[c], last : 0..Tip[c]] :
                 m.start <= m.last /\ (m.kind = "objects" => m.start # 0)}
WireOK == DOMAIN wire = Conns /\ \A c \in Conns : wire[c] \in Seq(Message(c))

\* A delivered span has blocks of its peer's chain, another one the ids that
\* were asked for.
SpanOK(s) ==
  /\ s \in SpanType /\ s.start_block_height # 0
  /\ Filled(s) => /\ s.start_block_height + Len(s.blocks) - 1 <= Tip[s.connection_id]
                  /\ \A i \in 1..Len(s.blocks) :
                       s.blocks[i] = PeerChain[s.connection_id][s.start_block_height + i - 1]
  /\ ~Filled(s) => s.hashes # << >> /\ s.nblocks = Len(s.hashes)
SpansOK == \A s \in blocks : SpanOK(s)

\* What is known of the peer's chain is within it.  The ids it announced may be
\* asked for again, from the beginning.
ContextOK(c, k) ==
  /\ k \in ContextType
  /\ k.last_response_height <= Tip[c] /\ k.last_known <= Tip[c]
  /\ k.first <= k.last_response_height + 1
  /\ k.expected_last <= Tip[c]
  /\ k.last_response_height # 0 => k.expected_last <= k.last_response_height
ContextsOK == ctx \in [Conns -> ContextType] /\ \A c \in Conns : ContextOK(c, ctx[c])

LockOK ==
  /\ sync_lock = {c \in Conns : ctx[c].pc \in Locking}
  /\ \A c, d \in sync_lock : c = d
  /\ hand = {} <=> \A c \in Conns : ctx[c].pc \notin Holding
  /\ \A s, t \in hand : s = t

\* The span in hand fits on the chain, and a handler that refused a span of its
\* own peer has dropped it.
HandOK ==
  /\ \A s \in hand : SpanOK(s) /\ Filled(s) /\ ParentKnown(s)
  /\ \A c \in Conns, s \in hand :
       ctx[c].pc = "failed" /\ s.connection_id = c => ctx[c].conn # "open"

ChainOK == main_chain \in Seq(Hashes) /\ ChainOrdered

\* A connection that is in no handler has something to wake it.
Awake(k) == k.conn = "open" /\ k.pc = "idle" /\ k.state = "synchronizing" => k.timer # "unset" \/ k.callbacks > 0
AwakeOK == \A c \in Conns \ left : Awake(ctx[c])

QueueOK == IndexInv /\ SpansOK
ConnsOK == ContextsOK /\ LockOK /\ HandOK /\ AwakeOK

SyncInv == QueueOK /\ WireOK /\ ConnsOK /\ ChainOK

-----------------------------------------------------------------------------
(* What the handlers make of their context *)

\* The constants, in the form the proofs use.
LEMMA Constants ==
  /\ MaxHeight \in Nat /\ MaxCallbacks \in Nat \ {0} /\ MaxSpan \in Nat \ {0}
  /\ \A c \in Conns : Tip[c] \in Nat /\ Tip[c] >= 1 /\ Tip[c] <= MaxHeight /\ MaxIds[c] \in Nat \ {0}
  /\ \A c \in Conns : \A h \in 1..MaxHeight : PeerChain[c][h] \in Hashes
BY HeightsAssumption, PeersAssumption, SyncAssumption DEF Heights

\* The least of two numbers.
LEMMA MinOfTwo ==
  ASSUME NEW x \in Int, NEW y \in Int
  PROVE  Min({x, y}) = IF x <= y THEN x ELSE y
BY DEF Min

\* ... and the greatest.
LEMMA MaxOfTwo ==
  ASSUME NEW x \in Int, NEW y \in Int
  PROVE  Max({x, y}) = IF x <= y THEN y ELSE x
BY DEF Max

\* The fields of a context.
LEMMA ContextFields ==
  ASSUME NEW c \in Conns, NEW k, ContextOK(c, k)
  PROVE  /\ k.first \in Nat /\ k.first >= 1 /\ k.first <= k.last_response_height + 1
         /\ k.last_response_height \in Nat /\ k.last_response_height <= Tip[c]
         /\ k.expected_first \in Nat /\ k.expected_first <= MaxHeight
         /\ k.expected_last \in Nat /\ k.expected_last <= Tip[c]
         /\ k.last_response_height # 0 => k.expected_last <= k.last_response_height
         /\ k.last_known \in Nat /\ k.last_known <= Tip[c]
         /\ k.callbacks \in Nat /\ k.callbacks <= MaxCallbacks
BY Constants DEF ContextOK, ContextType

\* A new connection.
LEMMA NewContextOK ==
  ASSUME NEW c \in Conns
  PROVE  ContextOK(c, NewContext)
BY Constants DEF ContextOK, ContextType, NewContext

\* A handler returns.
LEMMA DoneOK ==
  ASSUME NEW c \in Conns, NEW k, ContextOK(c, k)
  PROVE  /\ ContextOK(c, Done(k)) /\ Done(k).pc = "idle" /\ Done(k).conn = k.conn
         /\ Done(k).state = k.state /\ Done(k).timer = k.timer
         /\ Done(k).first = k.first /\ Done(k).last_response_height = k.last_response_height
         /\ Done(k).callbacks = k.callbacks
BY ZenonT(60) DEF ContextOK, ContextType, Done

\* ... with nothing more to ask this peer for,
LEMMA SetNormalOK ==
  ASSUME NEW c \in Conns, NEW k, ContextOK(c, k)
  PROVE  /\ ContextOK(c, SetNormal(k)) /\ SetNormal(k).pc = "idle" /\ SetNormal(k).conn = k.conn
         /\ SetNormal(k).state = "normal"
<1> DEFINE d == Done(k)
<1>1. ContextOK(c, d) /\ d.conn = k.conn /\ d.pc = "idle" /\ d.last_response_height = k.last_response_height
  BY DoneOK
<1>2. SetNormal(k) = [d EXCEPT !.state = "normal", !.first = k.last_response_height + 1,
                               !.expected_first = 1, !.expected_last = 0]
  BY DEF SetNormal
<1>3. /\ k.last_response_height + 1 \in 1..MaxHeight + 1 /\ k.last_response_height \in Nat
      /\ 1 \in 0..MaxHeight /\ 0 \in 0..MaxHeight
  BY ContextFields, Constants
<1> HIDE DEF d
<1>4. SetNormal(k) \in ContextType
  BY <1>1, <1>2, <1>3, ZenonT(60) DEF ContextOK, ContextType
<1>5. /\ SetNormal(k).pc = "idle" /\ SetNormal(k).conn = k.conn /\ SetNormal(k).state = "normal"
      /\ SetNormal(k).first = k.last_response_height + 1 /\ SetNormal(k).expected_last = 0
      /\ SetNormal(k).last_response_height = k.last_response_height
      /\ SetNormal(k).last_known = d.last_known
  BY <1>1, <1>2 DEF ContextOK, ContextType
<1> QED
  BY <1>1, <1>3, <1>4, <1>5, Constants DEF ContextOK

\* ... to stand by,
LEMMA StandbyOK ==
  ASSUME NEW c \in Conns, NEW k, ContextOK(c, k)
  PROVE  /\ ContextOK(c, Standby(k)) /\ Standby(k).pc = "idle" /\ Standby(k).conn = k.conn
         /\ Standby(k).state = "standby" /\ Standby(k).callbacks = k.callbacks
BY ZenonT(60) DEF ContextOK, ContextType, Standby, Done

\* ... and be called back.
LEMMA StandbyCalledOK ==
  ASSUME NEW c \in Conns, NEW k, ContextOK(c, k)
  PROVE  /\ ContextOK(c, StandbyCalled(k)) /\ StandbyCalled(k).pc = "idle" /\ StandbyCalled(k).conn = k.conn
         /\ StandbyCalled(k).state = "standby"
<1>1. ContextOK(c, Standby(k)) /\ Standby(k).callbacks \in 0..MaxCallbacks
  BY StandbyOK DEF ContextOK, ContextType
<1>2. Min({Standby(k).callbacks + 1, MaxCallbacks}) \in 0..MaxCallbacks
  <2>1. Standby(k).callbacks + 1 \in Int /\ MaxCallbacks \in Int
    BY <1>1, Constants
  <2> QED
    BY <1>1, <2>1, MinOfTwo, Constants
<1> QED
  BY <1>1, <1>2, StandbyOK DEF StandbyCalled, ContextOK, ContextType

\* The same peer, with no more known of its chain.
Advances(c, k, r) == /\ ContextOK(c, r) /\ r.conn = k.conn
                     /\ r.last_response_height = k.last_response_height
                     /\ r.expected_last = k.expected_last

\* skip_unneeded_hashes moves on within the ids of the peer.
LEMMA SkipOK ==
  ASSUME NEW c \in Conns, NEW k, ContextOK(c, k), NEW r,
         r = skip_unneeded_hashes(c, k, TRUE) \/ r = skip_unneeded_hashes(c, k, FALSE)
  PROVE  Advances(c, k, r)
<1> DEFINE l == k.last_response_height
           Known(h) == ChainHas(c, h)
           Queued(h) == have_blocks[PeerChain[c][h]] # NoHeight
           S == {h \in k.first..(l + 1) : h = l + 1 \/ ~(Known(h) \/ Queued(h))}
           T == {h \in k.first..(l + 1) : h = l + 1 \/ ~Known(h)}
<1>1. /\ k.first \in Nat /\ k.first >= 1 /\ k.first <= l + 1 /\ l \in Nat /\ l <= Tip[c] /\ Tip[c] <= MaxHeight
      /\ Tip[c] \in Nat /\ MaxHeight \in Nat
  BY ContextFields, Constants
<1> HIDE DEF Known, Queued, l
<1>2. S \in SUBSET Nat /\ T \in SUBSET Nat /\ l + 1 \in S /\ l + 1 \in T
  BY <1>1
<1>3. Min(S) \in S /\ Min(T) \in T
  BY <1>2, MinNat
<1>4. PICK n \in Nat : /\ n >= 1 /\ n <= l + 1
                       /\ r = [k EXCEPT !.first = n, !.last_known = l] \/ r = [k EXCEPT !.first = n]
  <2>1. /\ Min(S) \in Nat /\ Min(S) >= 1 /\ Min(S) <= l + 1
        /\ Min(T) \in Nat /\ Min(T) >= 1 /\ Min(T) <= l + 1
    BY <1>1, <1>3
  <2>2. CASE r = skip_unneeded_hashes(c, k, TRUE)
    <3>1. r = [k EXCEPT !.first = Min(S), !.last_known = l] \/ r = [k EXCEPT !.first = Min(S)]
      BY <2>2 DEF skip_unneeded_hashes, l, Known, Queued
    <3> QED
      BY <2>1, <3>1
  <2>3. CASE r = skip_unneeded_hashes(c, k, FALSE)
    <3>1. r = [k EXCEPT !.first = Min(T), !.last_known = l] \/ r = [k EXCEPT !.first = Min(T)]
      BY <2>3 DEF skip_unneeded_hashes, l, Known
    <3> QED
      BY <2>1, <3>1
  <2> QED
    BY <2>2, <2>3
<1>5. n \in 1..MaxHeight + 1 /\ l \in 0..MaxHeight
  BY <1>1, <1>4
<1>6. CASE r = [k EXCEPT !.first = n, !.last_known = l]
  BY <1>1, <1>4, <1>5, <1>6 DEF Advances, ContextOK, ContextType, l
<1>7. CASE r = [k EXCEPT !.first = n]
  BY <1>1, <1>4, <1>5, <1>7 DEF Advances, ContextOK, ContextType, l
<1> QED
  BY <1>4, <1>6, <1>7

-----------------------------------------------------------------------------
(* What a step leaves alone *)

\* A handler changes its context, but neither takes nor gives back the lock.
LEMMA PutStep ==
  ASSUME ConnsOK, NEW c \in Conns, NEW k, ContextOK(c, k), Put(c, k),
         k.pc = ctx[c].pc \/ (k.pc \notin Locking /\ ctx[c].pc \notin Locking),
         k.conn = "open" => ctx[c].conn = "open",
         c \in left \/ Awake(k),
         UNCHANGED <<sync_lock, hand, main_chain, left>>
  PROVE  ConnsOK'
<1>1. /\ ctx' \in [Conns -> ContextType] /\ ctx'[c] = k /\ \A d \in Conns : d # c => ctx'[d] = ctx[d]
  BY DEF Put, ConnsOK, ContextsOK, ContextOK
<1>2. ContextsOK'
  BY <1>1 DEF ConnsOK, ContextsOK
<1>3. LockOK'
  <2>1. \A d \in Conns : /\ ctx'[d].pc \in Locking <=> ctx[d].pc \in Locking
                         /\ ctx'[d].pc \in Holding <=> ctx[d].pc \in Holding
    BY <1>1 DEF Locking, Holding
  <2> QED
    BY <2>1 DEF ConnsOK, LockOK
<1>4. HandOK'
  <2>1. \A d \in Conns : ctx'[d].pc = "failed" /\ ctx'[d].conn = "open" => ctx[d].pc = "failed" /\ ctx[d].conn = "open"
    BY <1>1 DEF Locking
  <2>2. \A s \in hand' : s \in hand /\ (ParentKnown(s) => ParentKnown(s)')
    BY DEF ParentKnown, ChainHas, have_block
  <2> QED
    BY <2>1, <2>2 DEF ConnsOK, HandOK, SpanOK
<1>5. AwakeOK'
  BY <1>1 DEF ConnsOK, AwakeOK, Awake
<1> QED
  BY <1>2, <1>3, <1>4, <1>5 DEF ConnsOK

\* Spans are taken from the queue.
LEMMA EraseStep ==
  ASSUME QueueOK, NEW S \in SUBSET blocks, EraseBlocks(S)
  PROVE  QueueOK'
<1>1. IndexInv'
  BY EraseKeepsIndex DEF QueueOK
<1>2. SpansOK'
  BY DEF QueueOK, SpansOK, EraseBlocks
<1> QED
  BY <1>1, <1>2 DEF QueueOK

\* The queue is left alone.
LEMMA SameQueue ==
  ASSUME QueueOK, UNCHANGED spanVars
  PROVE  QueueOK'
<1>1. IndexInv'
  BY UnchangedIndex DEF QueueOK, spanVars
<1> QED
  BY <1>1 DEF QueueOK, SpansOK, spanVars

\* The chain is left alone.
LEMMA SameChain ==
  ASSUME ChainOK, UNCHANGED main_chain
  PROVE  ChainOK'
BY DEF ChainOK, ChainOrdered

\* The wire is left alone.
LEMMA SameWire ==
  ASSUME WireOK, UNCHANGED wire
  PROVE  WireOK'
BY DEF WireOK

\* A handler takes what its peer sent.
LEMMA ReceiveStep ==
  ASSUME WireOK, NEW c \in Conns, NEW kind, Receives(c, kind)
  PROVE  WireOK' /\ Head(wire[c]) \in Message(c)
<1>1. wire[c] \in Seq(Message(c)) /\ wire[c] # << >>
  BY DEF WireOK, Receives
<1>2. Head(wire[c]) \in Message(c) /\ Tail(wire[c]) \in Seq(Message(c))
  BY <1>1
<1> QED
  BY <1>2 DEF WireOK, Receives

\* A peer sends something more.
LEMMA SendStep ==
  ASSUME WireOK, NEW c \in Conns, NEW m \in Message(c), wire' = [wire EXCEPT ![c] = Append(@, m)]
  PROVE  WireOK'
<1>1. Append(wire[c], m) \in Seq(Message(c))
  BY DEF WireOK
<1> QED
  BY <1>1 DEF WireOK

\* The first of some spans is one of them.
LEMMA FirstSpanIn ==
  ASSUME NEW S \in SUBSET SpanType, S # {}
  PROVE  FirstSpan(S) \in S
<1> DEFINE starts == {t.start_block_height : t \in S}
<1>1. starts \in SUBSET Nat /\ starts # {}
  BY DEF SpanType
<1>2. Min(starts) \in starts /\ \A y \in starts : Min(starts) <= y
  BY <1>1, MinNat
<1>3. PICK t \in S : t.start_block_height = Min(starts)
  BY <1>2
<1>4. \A u \in S : t.start_block_height <= u.start_block_height
  BY <1>2, <1>3
<1> QED
  BY <1>4 DEF FirstSpan

-----------------------------------------------------------------------------
(* Requests *)

\* What a peer answers from a block of its chain on.
LEMMA ChainEntryOK ==
  ASSUME NEW c \in Conns, NEW start \in 0..Tip[c]
  PROVE  ChainEntry(start, c) \in Message(c)
<1> DEFINE x == start + MaxIds[c] - 1
           l == Min({x, Tip[c]})
<1>1. x \in Int /\ Tip[c] \in Int /\ start <= x /\ start \in Nat /\ start <= Tip[c]
  BY Constants
<1> HIDE DEF x
<1>2. l \in 0..Tip[c] /\ start <= l
  BY <1>1, MinOfTwo
<1>3. ChainEntry(start, c) = [kind |-> "chain", start |-> start, last |-> l]
  BY DEF ChainEntry, x
<1> HIDE DEF l
<1> QED
  BY <1>2, <1>3 DEF Message

\* It has a block in common with us.
LEMMA CommonTopOK ==
  ASSUME ChainOK, NEW c \in Conns
  PROVE  CommonTop(c) \in 0..Tip[c]
<1> DEFINE m == Min({Len(main_chain), Tip[c]})
           S == {h \in 0..m : ChainHas(c, h)}
<1>1. Len(main_chain) \in Nat /\ Tip[c] \in Nat
  BY Constants DEF ChainOK
<1>2. m \in Nat /\ m <= Tip[c]
  BY <1>1, MinOfTwo
<1> HIDE DEF m
<1>3. S \in SUBSET (0..m) /\ 0 \in S
  BY <1>2 DEF ChainHas
<1>4. Max(S) \in S
  BY <1>2, <1>3, MaxNat
<1> QED
  BY <1>1, <1>2, <1>4 DEF CommonTop, m

\* A request for ids leaves an answer to come and a timer.
LEMMA RequestChainStep ==
  ASSUME SyncInv, NEW c \in Conns, NEW k, ContextOK(c, k), NEW refresh \in BOOLEAN,
         request_chain(c, k, refresh), ctx[c].pc \notin Locking, k.conn = ctx[c].conn,
         UNCHANGED <<main_chain, sync_lock, hand, left>>
  PROVE  SyncInv'
<1> DEFINE r == IF refresh THEN [k EXCEPT !.first = k.last_response_height + 1, !.last_known = 0] ELSE k
           start == IF r.last_known = 0 THEN CommonTop(c) ELSE r.last_known
           t == [r EXCEPT !.refresh = refresh, !.timer = "set", !.expect = "chain"]
<1>1. /\ Put(c, Done(t)) /\ wire' = [wire EXCEPT ![c] = Append(@, ChainEntry(start, c))]
      /\ UNCHANGED spanVars
  BY DEF request_chain
<1>2. ContextOK(c, r) /\ r.conn = k.conn
  <2>1. k.last_response_height + 1 \in 1..MaxHeight + 1 /\ 0 \in 0..MaxHeight /\ k.last_response_height \in Nat
        /\ Tip[c] \in Nat
    BY ContextFields, Constants
  <2>2. CASE refresh
    <3>1. r = [k EXCEPT !.first = k.last_response_height + 1, !.last_known = 0]
      BY <2>2
    <3> HIDE DEF r
    <3>2. r \in ContextType
      BY <2>1, <3>1 DEF ContextOK, ContextType
    <3>3. /\ r.conn = k.conn /\ r.first = k.last_response_height + 1 /\ r.last_known = 0
          /\ r.last_response_height = k.last_response_height /\ r.expected_last = k.expected_last
      BY <3>1 DEF ContextOK, ContextType
    <3> QED
      BY <2>1, <3>2, <3>3 DEF ContextOK
  <2>3. CASE ~refresh
    BY <2>3
  <2> QED
    BY <2>2, <2>3
<1>3. start \in 0..Tip[c]
  <2>1. r.last_known \in 0..Tip[c]
    BY <1>2, ContextFields, Constants
  <2> QED
    BY <2>1, CommonTopOK DEF SyncInv
<1> HIDE DEF r, start
<1>4. ContextOK(c, t) /\ t.conn = k.conn /\ t.timer = "set"
  BY <1>2, ZenonT(60) DEF ContextOK, ContextType
<1> HIDE DEF t
<1>5. /\ ContextOK(c, Done(t)) /\ Done(t).pc = "idle" /\ Done(t).conn = k.conn /\ Done(t).timer = "set"
  BY <1>4, DoneOK
<1>6. ConnsOK'
  <2>1. Awake(Done(t)) /\ Done(t).pc \notin Locking
    BY <1>5 DEF Awake, Locking
  <2> QED
    BY <1>1, <1>5, <2>1, PutStep DEF SyncInv
<1>7. WireOK'
  <2>1. ChainEntry(start, c) \in Message(c)
    BY <1>3, ChainEntryOK
  <2> QED
    BY <1>1, <2>1, SendStep DEF SyncInv
<1> QED
  BY <1>1, <1>6, <1>7, SameQueue, SameChain DEF SyncInv

\* So does a request for blocks.
LEMMA RequestObjectsStep ==
  ASSUME SyncInv, NEW c \in Conns, NEW k, ContextOK(c, k), NEW start \in Nat, NEW ids,
         Len(ids) \in Nat, start # 0, Len(ids) # 0, start + Len(ids) - 1 <= Tip[c],
         RequestObjects(c, k, start, ids), ctx[c].pc \notin Locking, k.conn = ctx[c].conn,
         UNCHANGED <<main_chain, sync_lock, hand, left>>
  PROVE  WireOK' /\ ConnsOK' /\ ChainOK'
<1> DEFINE t == [k EXCEPT !.timer = "set", !.expect = "objects", !.num_requested = TRUE]
           m == [kind |-> "objects", start |-> start, last |-> start + Len(ids) - 1]
<1>1. Put(c, Done(t)) /\ wire' = [wire EXCEPT ![c] = Append(@, m)]
  BY DEF RequestObjects
<1>2. ContextOK(c, t) /\ t.conn = k.conn /\ t.timer = "set"
  BY DEF ContextOK, ContextType
<1> HIDE DEF t
<1>3. /\ ContextOK(c, Done(t)) /\ Done(t).pc = "idle" /\ Done(t).conn = k.conn /\ Done(t).timer = "set"
  BY <1>2, DoneOK
<1>4. ConnsOK'
  <2>1. Awake(Done(t)) /\ Done(t).pc \notin Locking
    BY <1>3 DEF Awake, Locking
  <2> QED
    BY <1>1, <1>3, <2>1, PutStep DEF SyncInv
<1>5. m \in Message(c)
  <2>1. Tip[c] \in Nat
    BY Constants
  <2>2. start \in 0..Tip[c] /\ start + Len(ids) - 1 \in 0..Tip[c] /\ start <= start + Len(ids) - 1
    BY <2>1
  <2> QED
    BY <2>2 DEF Message
<1> HIDE DEF m
<1>6. WireOK'
  BY <1>1, <1>5, SendStep DEF SyncInv
<1> QED
  BY <1>4, <1>6, SameChain DEF SyncInv

\* A connection is dropped by its own handler.
LEMMA DropStep ==
  ASSUME SyncInv, NEW c \in Conns, drop_connection(c), ctx[c].pc \notin Locking, WireOK'
  PROVE  SyncInv'
<1> DEFINE k == [Done(ctx[c]) EXCEPT !.conn = "closing"]
           S == {s \in blocks : s.connection_id = c /\ ~Filled(s)}
<1>1. EraseBlocks(S) /\ Put(c, k) /\ UNCHANGED <<main_chain, sync_lock, hand, left>>
  BY DEF drop_connection
<1>2. ContextOK(c, Done(ctx[c])) /\ Done(ctx[c]).pc = "idle"
  BY DoneOK DEF SyncInv, ConnsOK, ContextsOK
<1>3. ContextOK(c, k) /\ k.pc = "idle" /\ k.conn = "closing"
  BY <1>2 DEF ContextOK, ContextType
<1> HIDE DEF k
<1>4. ConnsOK'
  <2>1. Awake(k) /\ k.pc \notin Locking
    BY <1>3 DEF Awake, Locking
  <2> QED
    BY <1>1, <1>3, <2>1, PutStep DEF SyncInv
<1>5. QueueOK'
  BY <1>1, EraseStep DEF SyncInv
<1> QED
  BY <1>1, <1>4, <1>5, SameChain DEF SyncInv

\* A handler only changes its context.
LEMMA ContextStep ==
  ASSUME SyncInv, NEW c \in Conns, NEW k, ContextOK(c, k), Put(c, k),
         k.pc = ctx[c].pc \/ (k.pc \notin Locking /\ ctx[c].pc \notin Locking),
         k.conn = "open" => ctx[c].conn = "open",
         c \in left \/ Awake(k),
         UNCHANGED <<spanVars, sync_lock, hand, main_chain, wire, left>>
  PROVE  SyncInv'
<1>1. ConnsOK'
  BY PutStep DEF SyncInv
<1> QED
  BY <1>1, SameQueue, SameWire, SameChain DEF SyncInv

\* The ids of a part of a peer's chain.
LEMMA NeededObjectsOK ==
  ASSUME NEW c \in Conns, NEW first \in Nat, NEW last \in Nat, first # 0, last <= Tip[c], first <= last + 1
  PROVE  /\ NeededObjects(c, first, last) \in Seq(Hashes)
         /\ Len(NeededObjects(c, first, last)) = last - first + 1
         /\ \A i \in 1..last - first + 1 : NeededObjects(c, first, last)[i] = PeerChain[c][first + i - 1]
<1> DEFINE n == last - first + 1
           f == [i \in 1..n |-> PeerChain[c][first + i - 1]]
<1>1. n \in Nat
  OBVIOUS
<1>2. \A i \in 1..n : first + i - 1 \in 1..MaxHeight
  BY Constants
<1>3. \A i \in 1..n : PeerChain[c][first + i - 1] \in Hashes
  BY <1>2, Constants
<1> HIDE DEF n
<1>4. f \in Seq(Hashes) /\ Len(f) = n /\ \A i \in 1..n : f[i] = PeerChain[c][first + i - 1]
  BY <1>1, <1>3
<1>5. NeededObjects(c, first, last) = f
  BY DEF NeededObjects, n
<1> QED
  BY <1>4, <1>5 DEF n

\* What reserve_span offers a peer: ids of its chain that nobody was asked for.
LEMMA ReservableOK ==
  ASSUME NEW c \in Conns, NEW k, ContextOK(c, k), NEW r, r = Reservable(c, k), r # NoRequest
  PROVE  /\ r.start \in Nat /\ r.start # 0 /\ r.ids \in Seq(Hashes) /\ Len(r.ids) \in Nat /\ Len(r.ids) # 0
         /\ ToSet(r.ids) \cap requested_hashes = {} /\ SpansAt(r.start) = {}
         /\ r.start + Len(r.ids) <= k.last_response_height + 1
<1> DEFINE l == k.last_response_height
           ids == NeededObjects(c, k.first, l)
           i == SkipRequested(ids, 1)
           start == k.first + i - 1
           n == SpanLength(c, ids, i, start, MaxSpan, FALSE)
           sub == SubSeq(ids, i, i - 1 + n)
<1>1. /\ k.first \in Nat /\ k.first >= 1 /\ k.first <= l + 1 /\ l \in Nat /\ l <= Tip[c]
      /\ Tip[c] <= MaxHeight /\ Tip[c] \in Nat /\ MaxHeight \in Nat /\ MaxSpan \in Nat /\ MaxSpan >= 1
  BY ContextFields, Constants
<1>2. ids \in Seq(Hashes) /\ Len(ids) = l - k.first + 1
  BY <1>1, NeededObjectsOK
<1>3. r = IF i > Len(ids) \/ SpansAt(start) # {} THEN NoRequest ELSE [start |-> start, ids |-> sub]
  BY DEF Reservable
<1>4. ~(i > Len(ids)) /\ SpansAt(start) = {} /\ r = [start |-> start, ids |-> sub]
  BY <1>3
<1> HIDE DEF ids, l
<1>5. i \in 1..Len(ids) /\ ids[i] \notin requested_hashes
  <2> DEFINE S == {j \in 1..(Len(ids) + 1) : j = Len(ids) + 1 \/ ids[j] \notin requested_hashes}
  <2>1. S \in SUBSET Nat /\ Len(ids) + 1 \in S
    BY <1>2
  <2>2. Min(S) \in S
    BY <2>1, MinNat
  <2>3. i = Min(S)
    BY DEF SkipRequested
  <2>4. i \in S
    BY <2>2, <2>3
  <2> HIDE DEF i
  <2>5. i \in 1..(Len(ids) + 1) /\ (i = Len(ids) + 1 \/ ids[i] \notin requested_hashes)
    BY <2>4
  <2>6. Len(ids) \in Nat
    BY <1>2
  <2> QED
    BY <1>4, <2>5, <2>6
<1> HIDE DEF i
<1>6. start \in Nat /\ start >= 1 /\ start <= MaxHeight /\ start = k.first + i - 1
  BY <1>1, <1>2, <1>5
<1> HIDE DEF start
<1> DEFINE S == {m \in 0..MaxSpan : \/ m = MaxSpan
                                   \/ i + m > Len(ids)
                                   \/ ~MayTake(c, ids, i + m, start + m, start, FALSE)}
<1>7. n \in S /\ \A y \in S : n <= y
  <2>1. S \in SUBSET Nat /\ MaxSpan \in S
    <3>1. MaxSpan \in 0..MaxSpan /\ 0..MaxSpan \subseteq Nat
      BY <1>1
    <3> QED
      BY <3>1
  <2>2. n = Min(S)
    BY DEF SpanLength
  <2> HIDE DEF S, n
  <2> QED
    BY <2>1, <2>2, MinNat
<1> HIDE DEF n
<1>8. n \in Nat /\ n # 0
  <2>1. 0 \notin S
    <3>1. MayTake(c, ids, i, start, start, FALSE)
      BY <1>1, <1>5, <1>6, SyncAssumption DEF MayTake, Heights
    <3>2. i + 0 = i /\ start + 0 = start /\ ~(i > Len(ids)) /\ MaxSpan # 0
      BY <1>1, <1>2, <1>5, <1>6
    <3> QED
      BY <3>1, <3>2
  <2>2. n \in 0..MaxSpan /\ n # 0
    BY <1>7, <2>1
  <2> HIDE DEF S
  <2> QED
    BY <1>1, <2>2
<1>9. ASSUME NEW m \in 0..n - 1 PROVE i + m <= Len(ids) /\ ids[i + m] \notin requested_hashes
  <2>1. m \in 0..MaxSpan /\ ~(n <= m)
    BY <1>1, <1>7, <1>8
  <2>2. m \notin S
    BY <1>7, <2>1
  <2>3. i + m \in Int /\ Len(ids) \in Int
    BY <1>2, <1>5
  <2> QED
    BY <2>1, <2>2, <2>3 DEF MayTake
<1> HIDE DEF S
<1>10. i + n - 1 <= Len(ids) /\ i + n - 1 = i - 1 + n /\ i \in Nat /\ i >= 1 /\ Len(ids) \in Nat
  <2>1. n - 1 \in 0..n - 1
    BY <1>8
  <2>2. i + (n - 1) <= Len(ids)
    BY <1>9, <2>1
  <2> QED
    BY <1>2, <1>5, <1>8, <2>2
<1>11. sub \in Seq(Hashes) /\ Len(sub) = n /\ \A j \in 1..n : sub[j] = ids[i + j - 1]
  BY <1>2, <1>8, <1>10
<1>12. ASSUME NEW j \in 1..n PROVE sub[j] \notin requested_hashes
  <2>1. j - 1 \in 0..n - 1 /\ i + (j - 1) = i + j - 1
    BY <1>8, <1>10
  <2> QED
    BY <1>9, <1>11, <2>1
<1> HIDE DEF sub
<1>13. ToSet(sub) \cap requested_hashes = {}
  <2>1. DOMAIN sub = 1..n
    BY <1>11
  <2> QED
    BY <1>12, <2>1 DEF ToSet
<1>14. start + n <= l + 1
  BY <1>1, <1>2, <1>6, <1>8, <1>10
<1>15. r.start = start /\ r.ids = sub
  BY <1>4
<1> QED
  BY <1>4, <1>6, <1>8, <1>11, <1>13, <1>14, <1>15 DEF l

\* A reservation registers ids that no span had.
LEMMA ReserveStep ==
  ASSUME QueueOK, NEW c \in Conns, NEW start \in Nat, start # 0, NEW ids \in Seq(Hashes), Len(ids) # 0,
         ToSet(ids) \cap requested_hashes = {}, SpansAt(start) = {},
         blocks' = blocks \cup {NewSpan(start, ids, << >>, Len(ids), c)},
         requested_hashes' = requested_hashes \cup ToSet(ids),
         UNCHANGED have_blocks
  PROVE  QueueOK'
<1> DEFINE new == NewSpan(start, ids, << >>, Len(ids), c)
<1>1. /\ new \in SpanType /\ new.hashes = ids /\ new.blocks = << >> /\ new.nblocks = Len(ids)
      /\ new.start_block_height = start /\ new.connection_id = c
  BY DEF SpanType, NewSpan
<1>2. SpanOK(new)
  <2>1. ~Filled(new) /\ ids # << >>
    BY <1>1 DEF Filled
  <2> HIDE DEF new
  <2> QED
    BY <1>1, <2>1 DEF SpanOK
<1>3. blocks' = blocks \cup {new}
  OBVIOUS
<1> HIDE DEF new
<1>4. ToSet(ids) \subseteq Hashes
  BY DEF ToSet
<1>5. blocks' \subseteq SpanType /\ requested_hashes' \subseteq Hashes
  BY <1>1, <1>3, <1>4 DEF QueueOK, IndexInv
<1>6. OneSpanPerStart'
  BY <1>1, <1>3 DEF QueueOK, IndexInv, OneSpanPerStart, SpansAt
<1>7. RequestedExact'
  BY <1>1, <1>3 DEF QueueOK, IndexInv, RequestedExact, HashesOf
<1>8. SpansDisjoint'
  <2>1. \A s \in blocks : ToSet(s.hashes) \cap ToSet(new.hashes) = {}
    BY <1>1 DEF QueueOK, IndexInv, RequestedExact, HashesOf
  <2> QED
    BY <1>3, <2>1 DEF QueueOK, IndexInv, SpansDisjoint
<1>9. HaveExact'
  <2>1. ~Filled(new)
    BY <1>1 DEF Filled
  <2> QED
    BY <1>3, <2>1, SilentSpanKeepsHave DEF QueueOK, IndexInv
<1>10. SpansOK'
  BY <1>2, <1>3 DEF QueueOK, SpansOK
<1> QED
  BY <1>5, <1>6, <1>7, <1>8, <1>9, <1>10 DEF QueueOK, IndexInv

\* A delivery of blocks of the peer's chain.
LEMMA DeliverStep ==
  ASSUME QueueOK, NEW c \in Conns, NEW start \in Nat, start # 0, NEW last \in Nat, start <= last, last <= Tip[c],
         add_filled_blocks(start, NeededObjects(c, start, last), c)
  PROVE  QueueOK'
<1> DEFINE ids == NeededObjects(c, start, last)
<1>1. /\ ids \in Seq(Hashes) /\ Len(ids) = last - start + 1
      /\ \A i \in 1..last - start + 1 : ids[i] = PeerChain[c][start + i - 1]
  BY NeededObjectsOK
<1>2. ids # << >> /\ Len(ids) \in Nat
  BY <1>1
<1> HIDE DEF ids
<1>3. IndexInv'
  BY <1>1, <1>2, DeliveryKeepsIndex DEF QueueOK, ids
<1>4. ASSUME NEW hs \in Seq(Hashes) PROVE SpanOK(NewSpan(start, hs, ids, Len(ids), c))
  <2> DEFINE new == NewSpan(start, hs, ids, Len(ids), c)
  <2>1. /\ new \in SpanType /\ new.blocks = ids /\ new.start_block_height = start /\ new.connection_id = c
    BY <1>1, <1>2 DEF SpanType, NewSpan
  <2>2. Filled(new)
    BY <1>2, <2>1 DEF Filled
  <2> HIDE DEF new
  <2>3. start + Len(ids) - 1 <= Tip[c] /\ \A i \in 1..Len(ids) : ids[i] = PeerChain[c][start + i - 1]
    BY <1>1, Constants
  <2> QED
    BY <2>1, <2>2, <2>3 DEF SpanOK, new
<1>5. SpansOK'
  <2>1. << >> \in Seq(Hashes)
    OBVIOUS
  <2>2. \A t \in SpansAt(start) : t \in blocks /\ t.hashes \in Seq(Hashes)
    BY DEF QueueOK, IndexInv, SpansAt, SpanType
  <2>3. CASE SpansAt(start) = {}
    <3>1. blocks' = blocks \cup {NewSpan(start, << >>, ids, Len(ids), c)}
      BY <2>3 DEF add_filled_blocks, ids
    <3> QED
      BY <1>4, <2>1, <3>1 DEF QueueOK, SpansOK
  <2>4. CASE SpansAt(start) # {}
    <3> DEFINE gone == CHOOSE t \in SpansAt(start) : TRUE
    <3>1. blocks' = (blocks \ {gone}) \cup {NewSpan(start, gone.hashes, ids, Len(ids), c)}
      BY <2>4 DEF add_filled_blocks, ids
    <3>2. gone.hashes \in Seq(Hashes)
      BY <2>2, <2>4
    <3> HIDE DEF gone
    <3> QED
      BY <1>4, <3>1, <3>2 DEF QueueOK, SpansOK
  <2> QED
    BY <2>3, <2>4
<1> QED
  BY <1>3, <1>5 DEF QueueOK

-----------------------------------------------------------------------------
(* The chain grows *)

\* An id is at one height, above the same blocks for all peers.
LEMMA SameId ==
  ASSUME NEW c \in Conns, NEW d \in Conns, NEW g \in 1..Tip[c], NEW h \in 1..Tip[d],
         PeerChain[c][g] = PeerChain[d][h]
  PROVE  g = h /\ \A i \in 1..h : PeerChain[c][i] = PeerChain[d][i]
BY SyncAssumption

\* Peers agree on blocks that do not fail.
LEMMA GoodAgree ==
  ASSUME NEW c \in Conns, NEW d \in Conns, NEW h \in 1..Tip[c], h <= Tip[d],
         \A i \in 1..h : PeerChain[c][i] \notin Bad /\ PeerChain[d][i] \notin Bad
  PROVE  PeerChain[c][h] = PeerChain[d][h]
<1>1. Tip[c] \in Int /\ Tip[d] \in Int
  BY Constants
<1>2. Min({Tip[c], Tip[d]}) = IF Tip[c] <= Tip[d] THEN Tip[c] ELSE Tip[d]
  BY <1>1, MinOfTwo
<1>3. h \in 1..Min({Tip[c], Tip[d]})
  BY <1>1, <1>2
<1>4. PeerChain[c][h] # PeerChain[d][h] => \E i \in 1..h : {PeerChain[c][i], PeerChain[d][i]} \cap Bad # {}
  BY <1>3, SyncAssumption
<1> QED
  BY <1>4

\* A prefix of a peer's chain, place by place.
Prefix(m, c) == Len(m) <= Tip[c] /\ \A i \in 1..Len(m) : m[i] = PeerChain[c][i]

\* It is the part of the peer's chain of that length.
LEMMA PrefixIsSubSeq ==
  ASSUME NEW c \in Conns, NEW m \in Seq(Hashes), Len(m) <= Tip[c]
  PROVE  Prefix(m, c) <=> m = SubSeq(PeerChain[c], 1, Len(m))
<1> DEFINE f == PeerChain[c]
           n == Len(m)
           r == SubSeq(f, 1, n)
<1>1. n \in Nat /\ n <= MaxHeight /\ MaxHeight \in Nat
  BY Constants
<1>2. f \in Seq(Hashes) /\ Len(f) = MaxHeight
  <2>1. f \in [1..MaxHeight -> Hashes]
    BY PeersAssumption DEF Heights
  <2> HIDE DEF f
  <2> QED
    BY <1>1, <2>1
<1> HIDE DEF f, n
<1>3. r \in Seq(Hashes) /\ Len(r) = n /\ \A i \in 1..n : r[i] = f[i]
  BY <1>1, <1>2
<1> HIDE DEF r
<1>4. m = r <=> \A i \in 1..n : m[i] = r[i]
  BY <1>3 DEF n
<1> QED
  BY <1>3, <1>4 DEF Prefix, f, n, r

\* A span that fits extends the chain as far as its blocks are good, whoever
\* delivered the blocks that are there already.
LEMMA ChainGrows ==
  ASSUME ChainOK, NEW s, SpanOK(s), Filled(s), ParentKnown(s), main_chain' = main_chain \o Added(s)
  PROVE  ChainOK'
<1> DEFINE n == Len(main_chain)
           a == s.start_block_height
           d == s.connection_id
           L == Len(s.blocks)
           G == GoodLength(s)
           e == a + G - 1
           S == {i \in 1..G : ~have_block(s.blocks[i])}
           m == main_chain \o Added(s)
<1>1. PICK c \in Conns : n <= Tip[c] /\ main_chain = SubSeq(PeerChain[c], 1, n)
  BY DEF ChainOK, ChainOrdered
<1>2. /\ main_chain \in Seq(Hashes) /\ n \in Nat /\ n <= Tip[c] /\ Tip[c] \in Nat
      /\ \A i \in 1..n : main_chain[i] = PeerChain[c][i] /\ main_chain[i] \notin Bad
  <2>1. main_chain \in Seq(Hashes) /\ n \in Nat
    BY DEF ChainOK
  <2>2. Prefix(main_chain, c)
    BY <1>1, <2>1, PrefixIsSubSeq
  <2>3. \A i \in 1..n : main_chain[i] \in ToSet(main_chain)
    BY <2>1 DEF ToSet
  <2> QED
    BY <1>1, <2>1, <2>2, <2>3, Constants DEF Prefix, ChainOK, ChainOrdered
<1>3. /\ s.blocks \in Seq(Hashes) /\ L \in Nat /\ a \in Nat /\ a >= 1 /\ d \in Conns /\ Tip[d] \in Nat
      /\ a + L - 1 <= Tip[d] /\ \A i \in 1..L : s.blocks[i] = PeerChain[d][a + i - 1]
  <2>1. s.blocks \in Seq(Hashes) /\ a \in Nat /\ d \in Conns /\ a # 0
    BY DEF SpanOK, SpanType
  <2> QED
    BY <2>1, Constants DEF SpanOK
<1>4. ToSet(main_chain) = {main_chain[i] : i \in 1..n}
  BY <1>2 DEF ToSet
<1>5. a - 1 > 0 => PeerChain[d][a - 1] \in ToSet(main_chain)
  BY DEF ParentKnown, ChainHas, have_block
<1>6. G \in 0..L /\ \A i \in 1..G : s.blocks[i] \notin Bad
  <2> DEFINE R == {j \in 0..Len(s.blocks) : j = Len(s.blocks) \/ s.blocks[j + 1] \in Bad}
  <2>1. R \in SUBSET Nat /\ L \in R
    BY <1>3
  <2>2. G = Min(R)
    BY DEF GoodLength
  <2>3. G \in R /\ \A y \in R : G <= y
    BY <2>1, <2>2, MinNat
  <2> HIDE DEF G
  <2>4. ASSUME NEW i \in 1..G PROVE s.blocks[i] \notin Bad
    <3>1. G \in 0..L
      BY <2>3
    <3>2. i - 1 \in 0..L /\ ~(G <= i - 1) /\ (i - 1) + 1 = i
      BY <1>3, <3>1
    <3> QED
      BY <2>3, <3>2
  <2> QED
    BY <2>3, <2>4
<1>8. \A i \in 1..n : have_block(main_chain[i])
  BY <1>4 DEF have_block
<1>9. \A id : have_block(id) => \E i \in 1..n : main_chain[i] = id
  BY <1>4 DEF have_block
<1> HIDE DEF n, a, d, L, G
<1>10. a - 1 <= n /\ \A i \in 1..a - 1 : PeerChain[d][i] = main_chain[i]
  <2>1. CASE a = 1
    BY <1>2, <1>3, <2>1
  <2>2. CASE a # 1
    <3>1. a - 1 > 0 /\ a - 1 \in 1..Tip[d]
      BY <1>3, <1>6, <2>2
    <3>2. PICK g \in 1..n : PeerChain[d][a - 1] = main_chain[g]
      BY <1>4, <1>5, <3>1
    <3>3. g \in 1..Tip[c] /\ PeerChain[c][g] = PeerChain[d][a - 1]
      BY <1>2, <3>2
    <3>4. g = a - 1 /\ \A i \in 1..a - 1 : PeerChain[c][i] = PeerChain[d][i]
      BY <1>3, <3>1, <3>3, SameId
    <3>5. a - 1 <= n
      BY <1>2, <3>4
    <3>6. \A i \in 1..a - 1 : i \in 1..n
      BY <1>2, <1>3, <3>5
    <3> QED
      BY <1>2, <3>4, <3>5, <3>6
  <2> QED
    BY <2>1, <2>2
<1>11. e \in Nat /\ e <= Tip[d] /\ e = a + G - 1 /\ G \in Nat
  BY <1>3, <1>6
<1> HIDE DEF e
<1>12. ASSUME NEW i \in 1..e PROVE PeerChain[d][i] \notin Bad
  <2>1. CASE i <= a - 1
    <3>1. i \in 1..a - 1 /\ i \in 1..n
      BY <1>2, <1>3, <1>10, <2>1
    <3> QED
      BY <1>2, <1>10, <3>1
  <2>2. CASE ~(i <= a - 1)
    <3>1. i - a + 1 \in 1..G /\ i - a + 1 \in 1..L /\ a + (i - a + 1) - 1 = i
      BY <1>3, <1>6, <1>11, <2>2
    <3> QED
      BY <1>3, <1>6, <3>1
  <2> QED
    BY <2>1, <2>2
<1>13. ASSUME NEW h \in 1..n, h <= e PROVE main_chain[h] = PeerChain[d][h]
  <2>1. h \in 1..Tip[c] /\ h <= Tip[d]
    BY <1>2, <1>3, <1>11, <1>13
  <2>2. \A i \in 1..h : i \in 1..n /\ i \in 1..e
    BY <1>2, <1>11, <1>13
  <2>3. \A i \in 1..h : PeerChain[c][i] \notin Bad /\ PeerChain[d][i] \notin Bad
    BY <1>2, <1>12, <2>2
  <2>4. PeerChain[c][h] = PeerChain[d][h]
    BY <1>3, <2>1, <2>3, GoodAgree
  <2> QED
    BY <1>2, <2>4
<1>14. ASSUME NEW i \in 1..G PROVE have_block(s.blocks[i]) <=> a + i - 1 <= n
  <2>0. i \in 1..L /\ a + i - 1 \in 1..e /\ a + i - 1 \in 1..Tip[d] /\ s.blocks[i] = PeerChain[d][a + i - 1]
    <3>1. i \in 1..L /\ a + i - 1 \in 1..e /\ a + i - 1 \in 1..Tip[d]
      BY <1>3, <1>6, <1>11
    <3> QED
      BY <1>3, <3>1
  <2>1. ASSUME a + i - 1 <= n PROVE have_block(s.blocks[i])
    <3>1. a + i - 1 \in 1..n /\ a + i - 1 <= e
      BY <1>2, <1>11, <2>0, <2>1
    <3> QED
      BY <1>8, <1>13, <2>0, <3>1
  <2>2. ASSUME have_block(s.blocks[i]) PROVE a + i - 1 <= n
    <3>1. PICK g \in 1..n : main_chain[g] = s.blocks[i]
      BY <1>9, <2>2
    <3>2. g \in 1..Tip[c] /\ PeerChain[c][g] = PeerChain[d][a + i - 1]
      BY <1>2, <2>0, <3>1
    <3>3. g = a + i - 1
      BY <1>3, <2>0, <3>2, SameId
    <3> QED
      BY <1>2, <3>3
  <2> QED
    BY <2>1, <2>2
<1>15. Added(s) = [k \in 1..Cardinality(S) |-> s.blocks[Nth(S, k)]]
  BY DEF Added, Subsequence, G
<1>16. CASE e <= n
  <2>1. S = {}
    BY <1>2, <1>3, <1>11, <1>14, <1>16
  <2>2. Cardinality(S) = 0
    BY <2>1, FS_EmptySet
  <2> HIDE DEF S
  <2>3. Added(s) = << >>
    BY <1>15, <2>2
  <2>4. main_chain' = main_chain
    BY <1>2, <2>3
  <2> QED
    BY <2>4, SameChain
<1>17. CASE ~(e <= n)
  <2> DEFINE b == n - a + 1
  <2>1. b \in Nat /\ b <= G /\ a + b - 1 = n /\ G - b = e - n
    BY <1>2, <1>3, <1>10, <1>11, <1>17
  <2> HIDE DEF b
  <2>2. S = b + 1..G
    <3>1. \A i \in 1..G : (i \in S <=> i \in b + 1..G)
      BY <1>2, <1>3, <1>11, <1>14, <2>1
    <3>2. b + 1..G \subseteq 1..G
      BY <2>1, <1>11
    <3> QED
      BY <3>1, <3>2
  <2> HIDE DEF S
  <2>3. Cardinality(S) = G - b /\ \A k \in 1..G - b : Nth(S, k) = b + k
    <3>1. Cardinality(b + 1..G) = G - b /\ \A k \in 1..G - b : Nth(b + 1..G, k) = b + k
      BY <1>11, <2>1, NthInterval
    <3> QED
      BY <2>2, <3>1
  <2> DEFINE r == Added(s)
  <2>4. r = [k \in 1..e - n |-> s.blocks[Nth(S, k)]] /\ e - n \in Nat
    BY <1>2, <1>11, <1>15, <1>17, <2>1, <2>3
  <2>5. ASSUME NEW k \in 1..e - n
        PROVE  s.blocks[Nth(S, k)] = PeerChain[d][n + k] /\ PeerChain[d][n + k] \in Hashes
    <3>1. k \in 1..G - b /\ b + k \in 1..L /\ a + (b + k) - 1 = n + k
      BY <1>2, <1>3, <1>6, <1>11, <2>1
    <3>2. s.blocks[b + k] = PeerChain[d][n + k] /\ s.blocks[b + k] \in Hashes
      BY <1>3, <3>1 DEF L
    <3> QED
      BY <2>3, <3>1, <3>2
  <2> HIDE DEF r
  <2>6. r \in Seq(Hashes) /\ Len(r) = e - n /\ \A k \in 1..e - n : r[k] = PeerChain[d][n + k]
    <3> DEFINE z == e - n
    <3>1. z \in Nat /\ r = [k \in 1..z |-> s.blocks[Nth(S, k)]]
      BY <2>4
    <3>2. \A k \in 1..z : s.blocks[Nth(S, k)] = PeerChain[d][n + k] /\ s.blocks[Nth(S, k)] \in Hashes
      BY <2>5
    <3> HIDE DEF z
    <3>3. r \in [1..z -> Hashes] /\ \A k \in 1..z : r[k] = PeerChain[d][n + k]
      BY <3>1, <3>2
    <3>4. z \in Nat /\ r \in [1..z -> Hashes] /\ DOMAIN r = 1..z
      BY <3>1, <3>3
    <3>5. r \in Seq(Hashes)
      BY <3>4, SeqDef
    <3>6. Len(r) = z
      BY <3>4, <3>5, LenProperties
    <3> QED
      BY <3>3, <3>5, <3>6 DEF z
  <2>7. m = main_chain \o r /\ main_chain' = m
    BY DEF r
  <2> HIDE DEF m
  <2>8. /\ m \in Seq(Hashes) /\ Len(m) = n + (e - n)
        /\ \A i \in 1..n + (e - n) : m[i] = IF i <= n THEN main_chain[i] ELSE r[i - n]
    <3>1. /\ main_chain \o r \in Seq(Hashes) /\ Len(main_chain \o r) = Len(main_chain) + Len(r)
          /\ \A i \in 1..Len(main_chain) + Len(r) :
               (main_chain \o r)[i] = IF i <= Len(main_chain) THEN main_chain[i] ELSE r[i - Len(main_chain)]
      BY <1>2, <2>6, ConcatProperties
    <3>2. Len(main_chain) = n
      BY DEF n
    <3> QED
      BY <2>6, <2>7, <3>1, <3>2
  <2>9. Len(m) = e /\ n + (e - n) = e
    BY <1>2, <1>11, <2>8
  <2>10. ASSUME NEW i \in 1..e PROVE m[i] = PeerChain[d][i]
    <3>1. CASE i <= n
      <4>1. i \in 1..n
        BY <1>2, <3>1
      <4> QED
        BY <1>13, <2>8, <2>9, <3>1, <4>1
    <3>2. CASE ~(i <= n)
      <4>1. i - n \in 1..e - n /\ n + (i - n) = i
        BY <1>2, <1>11, <3>2
      <4>2. m[i] = r[i - n]
        BY <2>8, <2>9, <3>2
      <4>3. r[i - n] = PeerChain[d][n + (i - n)]
        BY <2>6, <4>1
      <4> QED
        BY <4>1, <4>2, <4>3
    <3> QED
      BY <3>1, <3>2
  <2>11. Prefix(m, d)
    BY <1>11, <2>9, <2>10 DEF Prefix
  <2>12. m = SubSeq(PeerChain[d], 1, Len(m)) /\ Len(m) <= Tip[d]
    BY <1>3, <1>11, <2>8, <2>9, <2>11, PrefixIsSubSeq
  <2>13. ToSet(m) \cap Bad = {}
    <3>1. ToSet(m) = {m[i] : i \in 1..e}
      BY <2>8, <2>9 DEF ToSet
    <3> QED
      BY <1>12, <2>10, <3>1
  <2>14. (ToSet(main_chain))' = ToSet(m)
    BY <2>7 DEF ToSet
  <2> QED
    BY <1>3, <2>7, <2>8, <2>12, <2>13, <2>14 DEF ChainOK, ChainOrdered
<1> QED
  BY <1>16, <1>17

-----------------------------------------------------------------------------
(* try_add_next_blocks *)

\* The contexts after a step of one handler.
LEMMA PutContexts ==
  ASSUME ConnsOK, NEW c \in Conns, NEW k, ContextOK(c, k), Put(c, k), left \subseteq left', c \in left' \/ Awake(k)
  PROVE  /\ ContextsOK' /\ AwakeOK'
         /\ ctx'[c] = k /\ \A d \in Conns : d # c => ctx'[d] = ctx[d]
<1>1. /\ ctx' \in [Conns -> ContextType] /\ ctx'[c] = k /\ \A d \in Conns : d # c => ctx'[d] = ctx[d]
  BY DEF Put, ConnsOK, ContextsOK, ContextOK
<1> QED
  BY <1>1 DEF ConnsOK, ContextsOK, AwakeOK, Awake

\* The contexts, the lock and the span in hand are left alone.
LEMMA SameConns ==
  ASSUME ConnsOK, UNCHANGED <<ctx, sync_lock, hand, main_chain, left>>
  PROVE  ConnsOK'
<1>1. \A s \in hand : ParentKnown(s) => ParentKnown(s)'
  BY DEF ParentKnown, ChainHas, have_block
<1>2. HandOK'
  BY <1>1 DEF ConnsOK, HandOK, SpanOK
<1> QED
  BY <1>2 DEF ConnsOK, ContextsOK, LockOK, AwakeOK, Awake

\* A change of the place of a handler.
LEMMA PlaceOK ==
  ASSUME ConnsOK, NEW c \in Conns,
         NEW pc \in {"idle", "scan", "try", "adding", "verify", "failed", "flush", "check", "reserve", "chain"},
         NEW force \in BOOLEAN
  PROVE  /\ ContextOK(c, [ctx[c] EXCEPT !.pc = pc]) /\ [ctx[c] EXCEPT !.pc = pc].pc = pc
         /\ [ctx[c] EXCEPT !.pc = pc].conn = ctx[c].conn
         /\ ContextOK(c, [ctx[c] EXCEPT !.pc = pc, !.force = force])
         /\ [ctx[c] EXCEPT !.pc = pc, !.force = force].pc = pc
         /\ [ctx[c] EXCEPT !.pc = pc, !.force = force].conn = ctx[c].conn
<1>1. ContextOK(c, ctx[c])
  BY DEF ConnsOK, ContextsOK
<1>2. ctx[c] \in ContextType
  BY <1>1 DEF ContextOK
<1>3. [ctx[c] EXCEPT !.pc = pc] \in ContextType /\ [ctx[c] EXCEPT !.pc = pc, !.force = force] \in ContextType
  BY <1>2, ZenonT(60) DEF ContextType
<1> QED
  BY <1>1, <1>2, <1>3 DEF ContextOK, ContextType

\* A handler that is adding spans gives the lock back.
LEMMA UnlockStep ==
  ASSUME SyncInv, NEW c \in Conns, ctx[c].pc = "adding", NEW k, ContextOK(c, k), Put(c, k),
         k.pc \notin Locking, k.pc # "idle", sync_lock' = {}, QueueOK',
         UNCHANGED <<main_chain, hand, wire, left>>
  PROVE  SyncInv'
<1>1. ConnsOK
  BY DEF SyncInv
<1>2. /\ ContextsOK' /\ AwakeOK' /\ ctx'[c] = k /\ \A d \in Conns : d # c => ctx'[d] = ctx[d]
  BY <1>1, PutContexts DEF Awake
<1>3. c \in sync_lock /\ \A d \in Conns : d # c => ctx[d].pc \notin Locking
  BY <1>1 DEF ConnsOK, LockOK, Locking
<1>4. hand = {}
  BY <1>1, <1>3 DEF ConnsOK, LockOK, Locking, Holding
<1>5. LockOK'
  BY <1>2, <1>3, <1>4 DEF LockOK, Locking, Holding
<1>6. HandOK'
  BY <1>4 DEF HandOK
<1>7. ConnsOK'
  BY <1>2, <1>5, <1>6 DEF ConnsOK
<1> QED
  BY <1>7, SameWire, SameChain DEF SyncInv

\* m_sync_lock is tried.
LEMMA TryLockStep ==
  ASSUME SyncInv, NEW c \in Conns, try_lock_sync(c)
  PROVE  SyncInv'
<1>1. ConnsOK /\ ctx[c].pc = "try"
  BY DEF SyncInv, try_lock_sync, At
<1>2. UNCHANGED <<spanVars, main_chain, hand, wire, left>>
  BY DEF try_lock_sync, queueVars, spanVars
<1>3. TRUE \in BOOLEAN
  OBVIOUS
<1>4. CASE sync_lock = {}
  <2> DEFINE k == [ctx[c] EXCEPT !.pc = "adding"]
  <2>1. sync_lock' = {c} /\ Put(c, k)
    BY <1>4 DEF try_lock_sync
  <2>2. ContextOK(c, k) /\ k.pc = "adding"
    BY <1>1, <1>3, PlaceOK
  <2> HIDE DEF k
  <2>3. /\ ContextsOK' /\ AwakeOK' /\ ctx'[c] = k /\ \A d \in Conns : d # c => ctx'[d] = ctx[d]
    BY <1>1, <1>2, <2>1, <2>2, PutContexts DEF Awake
  <2>4. \A d \in Conns : ctx[d].pc \notin Locking
    BY <1>1, <1>4 DEF ConnsOK, LockOK
  <2>5. hand = {}
    BY <1>1, <2>4 DEF ConnsOK, LockOK, Locking, Holding
  <2>6. LockOK' /\ HandOK'
    BY <1>2, <2>1, <2>2, <2>3, <2>4, <2>5 DEF LockOK, HandOK, Locking, Holding
  <2>7. ConnsOK'
    BY <2>3, <2>6 DEF ConnsOK
  <2> QED
    BY <1>2, <2>7, SameQueue, SameWire, SameChain DEF SyncInv
<1>5. CASE sync_lock # {}
  <2> DEFINE k == [ctx[c] EXCEPT !.pc = "flush"]
  <2>1. sync_lock' = sync_lock /\ Put(c, k)
    BY <1>5 DEF try_lock_sync
  <2>2. ContextOK(c, k) /\ k.pc = "flush" /\ k.conn = ctx[c].conn
    BY <1>1, <1>3, PlaceOK
  <2> HIDE DEF k
  <2> QED
    BY <1>1, <1>2, <2>1, <2>2, ContextStep DEF Awake, Locking
<1> QED
  BY <1>4, <1>5

\* An old span is passed over.
LEMMA IgnoreStep ==
  ASSUME SyncInv, NEW c \in Conns, ignore_old_span(c)
  PROVE  SyncInv'
<1>1. RemovedWith(NextSpan) \in SUBSET blocks /\ EraseBlocks(RemovedWith(NextSpan))
  BY DEF ignore_old_span, RemovedWith
<1>2. UNCHANGED <<main_chain, sync_lock, hand, ctx, wire, left>>
  BY DEF ignore_old_span
<1>3. QueueOK'
  BY <1>1, EraseStep DEF SyncInv
<1> QED
  BY <1>2, <1>3, SameConns, SameWire, SameChain DEF SyncInv

\* A span whose parent the chain has is taken.
LEMMA TakeStep ==
  ASSUME SyncInv, NEW c \in Conns, take_span(c)
  PROVE  SyncInv'
<1> DEFINE k == [ctx[c] EXCEPT !.pc = "verify"]
<1>0. PICK s : s = NextSpan
  OBVIOUS
<1>1. /\ ConnsOK /\ ctx[c].pc = "adding" /\ DeliveredSpans # {} /\ ParentKnown(s)
      /\ hand' = {s} /\ Put(c, k) /\ UNCHANGED <<spanVars, main_chain, sync_lock, wire, left>>
  BY <1>0 DEF SyncInv, take_span, Adding, At, Addable, queueVars, spanVars
<1>2. s \in blocks /\ Filled(s) /\ SpanOK(s)
  <2>1. DeliveredSpans \in SUBSET SpanType
    BY DEF SyncInv, QueueOK, IndexInv, DeliveredSpans
  <2>2. s \in DeliveredSpans
    BY <1>0, <1>1, <2>1, FirstSpanIn DEF NextSpan
  <2> QED
    BY <2>2 DEF DeliveredSpans, SyncInv, QueueOK, SpansOK
<1>3. TRUE \in BOOLEAN
  OBVIOUS
<1>4. ContextOK(c, k) /\ k.pc = "verify"
  BY <1>1, <1>3, PlaceOK, ZenonT(60)
<1> HIDE DEF k
<1>5. /\ ContextsOK' /\ AwakeOK' /\ ctx'[c] = k /\ \A d \in Conns : d # c => ctx'[d] = ctx[d]
  BY <1>1, <1>4, PutContexts DEF Awake
<1>6. c \in sync_lock /\ \A d \in Conns : d # c => ctx[d].pc \notin Locking
  BY <1>1 DEF ConnsOK, LockOK, Locking
<1>7. LockOK'
  BY <1>1, <1>4, <1>5, <1>6 DEF ConnsOK, LockOK, Locking, Holding
<1>8. HandOK'
  <2>1. ParentKnown(s)'
    BY <1>1 DEF ParentKnown, ChainHas, have_block
  <2>2. \A d \in Conns : ctx'[d].pc # "failed"
    BY <1>4, <1>5, <1>6 DEF Locking
  <2>3. \A t \in hand' : t = s
    BY <1>1
  <2> QED
    BY <1>1, <1>2, <2>1, <2>2, <2>3 DEF HandOK, SpanOK
<1>9. ConnsOK'
  BY <1>5, <1>7, <1>8 DEF ConnsOK
<1> QED
  BY <1>1, <1>9, SameQueue, SameWire, SameChain DEF SyncInv

\* A span is added.
LEMMA AddStep ==
  ASSUME SyncInv, NEW c \in Conns, add_span(c)
  PROVE  SyncInv'
<1> DEFINE k == [ctx[c] EXCEPT !.pc = "adding"]
<1>1. PICK s \in hand : /\ Verifies(c, s) /\ main_chain' = main_chain \o Added(s) /\ EraseBlocks(RemovedWith(s))
                        /\ hand' = {} /\ Put(c, k) /\ UNCHANGED <<sync_lock, wire, left>>
  BY DEF add_span
<1>2. ConnsOK /\ ctx[c].pc = "verify" /\ c \in sync_lock
  BY <1>1 DEF SyncInv, Verifies, At
<1>3. TRUE \in BOOLEAN
  OBVIOUS
<1>4. ContextOK(c, k) /\ k.pc = "adding"
  BY <1>2, <1>3, PlaceOK, ZenonT(60)
<1> HIDE DEF k
<1>5. /\ ContextsOK' /\ AwakeOK' /\ ctx'[c] = k /\ \A d \in Conns : d # c => ctx'[d] = ctx[d]
  BY <1>1, <1>2, <1>4, PutContexts DEF Awake
<1>6. \A d \in Conns : d # c => ctx[d].pc \notin Locking
  BY <1>2 DEF ConnsOK, LockOK
<1>7. LockOK' /\ HandOK'
  BY <1>1, <1>2, <1>4, <1>5, <1>6 DEF ConnsOK, LockOK, HandOK, Locking, Holding
<1>8. ConnsOK'
  BY <1>5, <1>7 DEF ConnsOK
<1>9. ChainOK'
  <2>1. SpanOK(s) /\ Filled(s) /\ ParentKnown(s)
    BY <1>2 DEF ConnsOK, HandOK
  <2> QED
    BY <1>1, <2>1, ChainGrows DEF SyncInv
<1>10. QueueOK'
  <2>1. RemovedWith(s) \in SUBSET blocks
    BY DEF RemovedWith
  <2> QED
    BY <1>1, <2>1, EraseStep DEF SyncInv
<1> QED
  BY <1>1, <1>8, <1>9, <1>10, SameWire DEF SyncInv

\* A block of a span fails: its peer is dropped.
LEMMA RefuseStep ==
  ASSUME SyncInv, NEW c \in Conns, refuse_span(c)
  PROVE  SyncInv'
<1>1. PICK s \in hand :
        /\ Verifies(c, s)
        /\ EraseBlocks({t \in blocks : t.connection_id = s.connection_id /\ ctx[s.connection_id].conn # "closed"})
        /\ ctx' = [e \in Conns |->
             LET k == IF e = s.connection_id /\ ctx[e].conn = "open"
                      THEN [ctx[e] EXCEPT !.conn = "closing"] ELSE ctx[e]
             IN IF e = c THEN [k EXCEPT !.pc = "failed"] ELSE k]
        /\ UNCHANGED <<main_chain, sync_lock, hand, wire, left>>
  BY DEF refuse_span
<1>2. ConnsOK /\ ctx[c].pc = "verify" /\ c \in sync_lock
  BY <1>1 DEF SyncInv, Verifies, At
<1>3. ASSUME NEW e \in Conns
      PROVE  /\ ContextOK(e, ctx'[e])
             /\ e # c => ctx'[e].pc = ctx[e].pc
             /\ e = c => ctx'[e].pc = "failed"
             /\ ctx'[e].conn = "open" => ctx[e].conn = "open" /\ e # s.connection_id
             /\ ctx'[e].state = ctx[e].state /\ ctx'[e].timer = ctx[e].timer /\ ctx'[e].callbacks = ctx[e].callbacks
  <2> DEFINE k == IF e = s.connection_id /\ ctx[e].conn = "open"
                  THEN [ctx[e] EXCEPT !.conn = "closing"] ELSE ctx[e]
             j == IF e = c THEN [k EXCEPT !.pc = "failed"] ELSE k
  <2>1. ctx'[e] = j
    BY <1>1
  <2>2. ContextOK(e, ctx[e])
    BY <1>2 DEF ConnsOK, ContextsOK
  <2>3. /\ ContextOK(e, k) /\ k.pc = ctx[e].pc /\ k.state = ctx[e].state /\ k.timer = ctx[e].timer
        /\ k.callbacks = ctx[e].callbacks
        /\ k.conn = "open" => ctx[e].conn = "open" /\ e # s.connection_id
    BY <2>2 DEF ContextOK, ContextType
  <2> HIDE DEF k
  <2>4. /\ ContextOK(e, j) /\ j.conn = k.conn /\ j.state = k.state /\ j.timer = k.timer
        /\ j.callbacks = k.callbacks /\ j.pc = IF e = c THEN "failed" ELSE k.pc
    BY <2>3 DEF ContextOK, ContextType
  <2> HIDE DEF j
  <2> QED
    BY <2>1, <2>3, <2>4
<1>4. ContextsOK'
  <2>1. ctx' = [e \in Conns |-> ctx'[e]]
    BY <1>1
  <2>2. \A e \in Conns : ctx'[e] \in ContextType
    BY <1>3 DEF ContextOK
  <2>3. ctx' \in [Conns -> ContextType]
    BY <2>1, <2>2
  <2> QED
    BY <1>3, <2>3 DEF ContextsOK
<1>5. LockOK'
  <2>1. \A e \in Conns : /\ ctx'[e].pc \in Locking <=> ctx[e].pc \in Locking
                         /\ ctx'[e].pc \in Holding <=> ctx[e].pc \in Holding
    BY <1>2, <1>3 DEF Locking, Holding
  <2> QED
    BY <1>1, <1>2, <2>1 DEF ConnsOK, LockOK
<1>6. HandOK'
  <2>1. \A t \in hand : t = s /\ SpanOK(t) /\ Filled(t) /\ ParentKnown(t)
    BY <1>1, <1>2 DEF ConnsOK, LockOK, HandOK
  <2>2. \A t \in hand : ParentKnown(t) => ParentKnown(t)'
    BY <1>1 DEF ParentKnown, ChainHas, have_block
  <2>3. \A e \in Conns : ctx'[e].pc = "failed" => e = c
    BY <1>2, <1>3 DEF ConnsOK, LockOK, Locking
  <2> QED
    BY <1>1, <1>3, <2>1, <2>2, <2>3 DEF HandOK, SpanOK
<1>7. AwakeOK'
  <2>1. ASSUME NEW e \in Conns \ left PROVE Awake(ctx'[e])
    BY <1>2, <1>3, <2>1 DEF ConnsOK, AwakeOK, Awake
  <2> QED
    BY <1>1, <2>1 DEF AwakeOK, Awake
<1>8. ConnsOK'
  BY <1>4, <1>5, <1>6, <1>7 DEF ConnsOK
<1>9. QueueOK'
  <2>1. {t \in blocks : t.connection_id = s.connection_id /\ ctx[s.connection_id].conn # "closed"} \in SUBSET blocks
    OBVIOUS
  <2> QED
    BY <1>1, <2>1, EraseStep DEF SyncInv
<1> QED
  BY <1>1, <1>8, <1>9, SameWire, SameChain DEF SyncInv

\* The handler of a refused span returns: unless the peer was its own, and is
\* dropped, nothing wakes it.
LEMMA EndRefusedStep ==
  ASSUME SyncInv, NEW c \in Conns, end_refused(c)
  PROVE  SyncInv'
<1> DEFINE k == Done(ctx[c])
<1>1. PICK s \in hand : /\ ctx[c].pc = "failed" /\ c \in sync_lock
                        /\ main_chain' = main_chain \o Added(s) /\ EraseBlocks(RemovedWith(s))
                        /\ hand' = {} /\ sync_lock' = {} /\ Put(c, k)
                        /\ left' = left \cup ({c} \ {s.connection_id}) /\ UNCHANGED wire
  BY DEF end_refused, At
<1>2. ConnsOK
  BY DEF SyncInv
<1>3. ContextOK(c, k) /\ k.pc = "idle" /\ k.conn = ctx[c].conn
  BY <1>2, DoneOK DEF ConnsOK, ContextsOK
<1> HIDE DEF k
<1>4. c \in left' \/ Awake(k)
  <2>1. CASE s.connection_id = c
    BY <1>1, <1>2, <1>3, <2>1 DEF ConnsOK, HandOK, Awake
  <2>2. CASE s.connection_id # c
    BY <1>1, <2>2
  <2> QED
    BY <2>1, <2>2
<1>5. /\ ContextsOK' /\ AwakeOK' /\ ctx'[c] = k /\ \A d \in Conns : d # c => ctx'[d] = ctx[d]
  <2>1. left \subseteq left'
    BY <1>1
  <2> QED
    BY <1>1, <1>2, <1>3, <1>4, <2>1, PutContexts
<1>6. \A d \in Conns : d # c => ctx[d].pc \notin Locking
  BY <1>1, <1>2 DEF ConnsOK, LockOK
<1>7. LockOK' /\ HandOK'
  BY <1>1, <1>3, <1>5, <1>6 DEF LockOK, HandOK, Locking, Holding
<1>8. ConnsOK'
  BY <1>5, <1>7 DEF ConnsOK
<1>9. ChainOK'
  <2>1. SpanOK(s) /\ Filled(s) /\ ParentKnown(s)
    BY <1>2 DEF ConnsOK, HandOK
  <2> QED
    BY <1>1, <2>1, ChainGrows DEF SyncInv
<1>10. QueueOK'
  <2>1. RemovedWith(s) \in SUBSET blocks
    BY DEF RemovedWith
  <2> QED
    BY <1>1, <2>1, EraseStep DEF SyncInv
<1> QED
  BY <1>1, <1>8, <1>9, <1>10, SameWire DEF SyncInv

\* An orphan that is not needed next, or nothing to add: back to download.
LEMMA StopStep ==
  ASSUME SyncInv, NEW c \in Conns, skip_orphan_span(c) \/ stop_adding(c)
  PROVE  SyncInv'
<1>1. ConnsOK /\ TRUE \in BOOLEAN /\ "flush" \notin Locking
  BY DEF SyncInv, Locking
<1>2. CASE skip_orphan_span(c)
  <2> DEFINE k == [ctx[c] EXCEPT !.pc = "flush"]
  <2>1. /\ ctx[c].pc = "adding" /\ sync_lock' = {} /\ Put(c, k)
        /\ UNCHANGED <<spanVars, main_chain, hand, wire, left>>
    BY <1>2, SMTT(30) DEF skip_orphan_span, Adding, At, queueVars, spanVars
  <2>2. ContextOK(c, k) /\ k.pc = "flush"
    BY <1>1, PlaceOK
  <2> HIDE DEF k
  <2> QED
    BY <1>1, <2>1, <2>2, UnlockStep, SameQueue DEF SyncInv
<1>3. CASE stop_adding(c)
  <2>1. PICK force \in should_download_next_span(c, FALSE) : Put(c, [ctx[c] EXCEPT !.pc = "flush", !.force = force])
    BY <1>3 DEF stop_adding
  <2> DEFINE k == [ctx[c] EXCEPT !.pc = "flush", !.force = force]
  <2>2. /\ ctx[c].pc = "adding" /\ sync_lock' = {}
        /\ UNCHANGED <<spanVars, main_chain, hand, wire, left>>
    BY <1>3 DEF stop_adding, At, queueVars, spanVars
  <2>3. force \in BOOLEAN
    BY <2>1 DEF should_download_next_span
  <2>4. ContextOK(c, k) /\ k.pc = "flush"
    <3>1. ContextOK(c, ctx[c])
      BY <1>1 DEF ConnsOK, ContextsOK
    <3> QED
      BY <2>3, <3>1 DEF ContextOK, ContextType
  <2>5. Put(c, k)
    BY <2>1
  <2> HIDE DEF k
  <2> QED
    BY <1>1, <2>2, <2>4, <2>5, UnlockStep, SameQueue DEF SyncInv
<1> QED
  BY <1>2, <1>3

\* An orphan where the next block is needed: it goes, and the ids with it.
LEMMA RequeryStep ==
  ASSUME SyncInv, NEW c \in Conns, requery_orphan_span(c)
  PROVE  SyncInv'
<1> DEFINE k == [ctx[c] EXCEPT !.first = 1, !.last_response_height = 0, !.pc = "flush"]
<1>1. /\ ctx[c].pc = "adding" /\ sync_lock' = {} /\ Put(c, k) /\ EraseBlocks(RemovedWith(NextSpan))
      /\ UNCHANGED <<main_chain, hand, wire, left>>
  BY SMTT(30) DEF requery_orphan_span, Adding, At
<1>2. QueueOK'
  <2>1. RemovedWith(NextSpan) \in SUBSET blocks
    BY DEF RemovedWith
  <2> QED
    BY <1>1, <2>1, EraseStep DEF SyncInv
<1>3. ContextOK(c, k) /\ k.pc = "flush"
  <2>1. ContextOK(c, ctx[c])
    BY DEF SyncInv, ConnsOK, ContextsOK
  <2>2. 1 \in 1..MaxHeight + 1 /\ 0 \in 0..MaxHeight
    BY Constants
  <2>3. k \in ContextType
    BY <2>1, <2>2 DEF ContextOK, ContextType
  <2>4. /\ k.pc = "flush" /\ k.first = 1 /\ k.last_response_height = 0
        /\ k.last_known = ctx[c].last_known /\ k.expected_last = ctx[c].expected_last
    BY <2>1 DEF ContextOK, ContextType
  <2> HIDE DEF k
  <2> QED
    BY <2>1, <2>3, <2>4, Constants DEF ContextOK
<1> HIDE DEF k
<1>4. k.pc \notin Locking /\ k.pc # "idle"
  BY <1>3 DEF Locking
<1> QED
  BY <1>1, <1>2, <1>3, <1>4, UnlockStep

-----------------------------------------------------------------------------
(* request_missing_objects *)

\* Spans of closed connections are flushed.
LEMMA FlushStep ==
  ASSUME SyncInv, NEW c \in Conns, flush_stale(c)
  PROVE  SyncInv'
<1> DEFINE S == {s \in blocks : ~Filled(s) /\ ctx[s.connection_id].conn = "closed"}
           pc == IF ctx[c].force THEN "reserve" ELSE "check"
           k == [ctx[c] EXCEPT !.pc = pc]
<1>1. /\ ctx[c].pc = "flush" /\ EraseBlocks(S) /\ Put(c, k) /\ ConnsOK
      /\ UNCHANGED <<main_chain, sync_lock, hand, wire, left>>
  BY DEF flush_stale, At, SyncInv
<1>2. TRUE \in BOOLEAN /\ pc \in {"reserve", "check"}
  OBVIOUS
<1> HIDE DEF pc
<1>3. ContextOK(c, k) /\ k.pc = pc /\ k.conn = ctx[c].conn
  <2>1. ContextOK(c, ctx[c])
    BY <1>1 DEF ConnsOK, ContextsOK
  <2> QED
    BY <1>2, <2>1 DEF ContextOK, ContextType
<1> HIDE DEF k
<1>4. ConnsOK'
  <2>1. k.pc \notin Locking /\ ctx[c].pc \notin Locking /\ Awake(k)
    BY <1>1, <1>2, <1>3 DEF Locking, Awake
  <2> QED
    BY <1>1, <1>3, <2>1, PutStep
<1>5. QueueOK'
  <2>1. S \in SUBSET blocks
    OBVIOUS
  <2> QED
    BY <1>1, <2>1, EraseStep DEF SyncInv
<1> QED
  BY <1>1, <1>4, <1>5, SameWire, SameChain DEF SyncInv

\* There is nothing to ask this peer for.
LEMMA NothingStep ==
  ASSUME SyncInv, NEW c \in Conns, ctx[c].pc \notin Locking, NEW k, ContextOK(c, k), k.conn = ctx[c].conn,
         nothing_to_ask(c, k), UNCHANGED <<main_chain, sync_lock, hand, wire, left>>
  PROVE  SyncInv'
<1>1. CASE drop_connection(c)
  BY <1>1, DropStep, SameWire DEF SyncInv
<1>2. CASE Put(c, SetNormal(k)) /\ UNCHANGED <<spanVars, outstanding, overdue>>
  <2>1. /\ ContextOK(c, SetNormal(k)) /\ SetNormal(k).pc = "idle" /\ SetNormal(k).conn = k.conn
        /\ SetNormal(k).state = "normal"
    BY SetNormalOK
  <2>2. SetNormal(k).pc \notin Locking /\ Awake(SetNormal(k))
    BY <2>1 DEF Locking, Awake
  <2> QED
    BY <1>2, <2>1, <2>2, ContextStep
<1> QED
  BY <1>1, <1>2 DEF nothing_to_ask

\* The queue is looked at.
LEMMA CheckStep ==
  ASSUME SyncInv, NEW c \in Conns, check_queue(c)
  PROVE  SyncInv'
<1> DEFINE Answers(k, needed) == IF NextHeightProceeds(k, needed) THEN should_download_next_span(c, TRUE) ELSE {FALSE}
<1>1. PICK k \in {skip_unneeded_hashes(c, ctx[c], TRUE)}, needed \in {get_next_needed_height(BcHeight)} :
        IF NothingToAsk(c, k)
        THEN nothing_to_ask(c, k)
        ELSE /\ \E force \in Answers(k, needed) :
                  IF force \/ QueueProceeds(k, needed) THEN Put(c, Resume(k, force))
                  ELSE IF sync_lock = {} /\ HasNextSpan /\ Filled(FirstSpan(blocks))
                  THEN Put(c, StandbyCalled(k))
                  ELSE Put(c, Standby(k))
             /\ UNCHANGED <<spanVars, outstanding, overdue>>
  BY DEF check_queue
<1>2. ctx[c].pc = "check" /\ ctx[c].pc \notin Locking /\ UNCHANGED <<main_chain, sync_lock, hand, wire, left>>
  BY DEF check_queue, At, Locking
<1>3. ContextOK(c, k) /\ k.conn = ctx[c].conn
  <2>1. ContextOK(c, ctx[c])
    BY DEF SyncInv, ConnsOK, ContextsOK
  <2>2. k = skip_unneeded_hashes(c, ctx[c], TRUE)
    OBVIOUS
  <2> QED
    BY <2>1, <2>2, SkipOK DEF Advances
<1>4. CASE NothingToAsk(c, k)
  BY <1>1, <1>2, <1>3, <1>4, NothingStep
<1>5. CASE ~NothingToAsk(c, k)
  <2>1. PICK force \in Answers(k, needed) :
          IF force \/ QueueProceeds(k, needed) THEN Put(c, Resume(k, force))
          ELSE IF sync_lock = {} /\ HasNextSpan /\ Filled(FirstSpan(blocks))
          THEN Put(c, StandbyCalled(k)) ELSE Put(c, Standby(k))
    BY <1>1, <1>5
  <2>2. UNCHANGED spanVars
    BY <1>1, <1>5
  <2>3. force \in BOOLEAN
    BY DEF should_download_next_span
  <2>4. CASE Put(c, Resume(k, force))
    <3>1. ContextOK(c, Resume(k, force)) /\ Resume(k, force).pc = "reserve" /\ Resume(k, force).conn = k.conn
      BY <1>3, <2>3 DEF Resume, ContextOK, ContextType
    <3>2. Resume(k, force).pc \notin Locking /\ Awake(Resume(k, force))
      BY <3>1 DEF Locking, Awake
    <3> QED
      BY <1>2, <1>3, <2>2, <2>4, <3>1, <3>2, ContextStep
  <2>5. CASE Put(c, StandbyCalled(k))
    <3>1. /\ ContextOK(c, StandbyCalled(k)) /\ StandbyCalled(k).pc = "idle" /\ StandbyCalled(k).conn = k.conn
          /\ StandbyCalled(k).state = "standby"
      BY <1>3, StandbyCalledOK
    <3>2. StandbyCalled(k).pc \notin Locking /\ Awake(StandbyCalled(k))
      BY <3>1 DEF Locking, Awake
    <3> QED
      BY <1>2, <1>3, <2>2, <2>5, <3>1, <3>2, ContextStep
  <2>6. CASE Put(c, Standby(k))
    <3>1. /\ ContextOK(c, Standby(k)) /\ Standby(k).pc = "idle" /\ Standby(k).conn = k.conn
          /\ Standby(k).state = "standby"
      BY <1>3, StandbyOK
    <3>2. Standby(k).pc \notin Locking /\ Awake(Standby(k))
      BY <3>1 DEF Locking, Awake
    <3> QED
      BY <1>2, <1>3, <2>2, <2>6, <3>1, <3>2, ContextStep
  <2> QED
    BY <2>1, <2>4, <2>5, <2>6
<1> QED
  BY <1>4, <1>5

\* The first span, which is not delivered, is asked of this peer as well.
LEMMA ScheduledStep ==
  ASSUME SyncInv, NEW c \in Conns, ctx[c].pc \notin Locking, NEW k, ContextOK(c, k), k.conn = ctx[c].conn,
         k.last_response_height = ctx[c].last_response_height, k.expected_last = ctx[c].expected_last,
         k.force \/ k.last_response_height # 0, ScheduledNext, ask_scheduled(c, k), UNCHANGED <<main_chain, sync_lock, hand, left>>
  PROVE  SyncInv'
<1>1. PICK s \in {FirstSpan(blocks)} :
        LET match == MatchSpan(c, s)
        IN \/ /\ match = "matches"
              /\ RequestObjects(c, [k EXCEPT !.first = IF k.force THEN @ ELSE Max({@, SpanEnd(s)})],
                                s.start_block_height, s.hashes)
              /\ UNCHANGED spanVars
           \/ /\ match = "missing_history" /\ Remote(c) >= SpanEnd(s)
              /\ request_chain(c, k, TRUE)
           \/ /\ match = "different_chain" \/ (match = "missing_history" /\ Remote(c) < SpanEnd(s))
              /\ Put(c, Standby(k))
              /\ UNCHANGED <<spanVars, outstanding, overdue, wire>>
  BY DEF ask_scheduled
<1> DEFINE t == [k EXCEPT !.first = IF k.force THEN @ ELSE Max({@, SpanEnd(s)})]
<1>2. CASE MatchSpan(c, s) = "matches" /\ RequestObjects(c, t, s.start_block_height, s.hashes) /\ UNCHANGED spanVars
  <2> DEFINE a == s.start_block_height
             n == Len(s.hashes)
  <2>1. a \in Nat /\ a # 0 /\ n \in Nat /\ n # 0 /\ s.nblocks = n
    <3>1. blocks \in SUBSET SpanType /\ blocks # {} /\ ~Filled(s)
      BY DEF ScheduledNext, SyncInv, QueueOK, IndexInv
    <3>2. s \in blocks
      BY <3>1, FirstSpanIn
    <3>3. SpanOK(s)
      BY <3>2 DEF SyncInv, QueueOK, SpansOK
    <3> QED
      BY <3>1, <3>3 DEF SpanOK, SpanType
  <2>2. Expected(ctx[c], SpanEnd(s) - 1)
    BY <1>2 DEF MatchSpan
  <2> HIDE DEF a, n
  <2>3. SpanEnd(s) = a + n
    BY <2>1 DEF SpanEnd, a, n
  <2>4. /\ k.last_response_height \in Nat /\ k.last_response_height <= Tip[c] /\ k.expected_last \in Nat
        /\ k.expected_last <= Tip[c] /\ (k.force \/ k.expected_last <= k.last_response_height) /\ k.first \in Nat /\ k.first >= 1
        /\ k.first <= k.last_response_height + 1 /\ Tip[c] \in Nat /\ Tip[c] <= MaxHeight /\ MaxHeight \in Nat
    BY ContextFields, Constants
  <2>5. a + n - 1 <= k.expected_last
    BY <2>1, <2>2, <2>3, <2>4 DEF Expected
  <2> DEFINE f == IF k.force THEN k.first ELSE Max({k.first, SpanEnd(s)})
  <2>6. f \in Nat /\ f >= 1 /\ f <= k.last_response_height + 1 /\ f \in 1..MaxHeight + 1
    <3>1. Max({k.first, SpanEnd(s)}) = IF k.first <= SpanEnd(s) THEN SpanEnd(s) ELSE k.first
      BY <2>1, <2>3, <2>4, MaxOfTwo
    <3> QED
      BY <2>1, <2>3, <2>4, <2>5, <3>1
  <2>7. t = [k EXCEPT !.first = f]
    BY DEF ContextOK, ContextType
  <2> HIDE DEF f, t
  <2>8. ContextOK(c, t) /\ t.conn = k.conn
    BY <2>6, <2>7 DEF ContextOK, ContextType
  <2>9. a + n - 1 <= Tip[c]
    BY <2>1, <2>4, <2>5
  <2>10. WireOK' /\ ConnsOK' /\ ChainOK'
    BY <1>2, <2>1, <2>8, <2>9, RequestObjectsStep DEF a, n
  <2> QED
    BY <1>2, <2>10, SameQueue DEF SyncInv
<1>3. CASE request_chain(c, k, TRUE)
  <2>1. TRUE \in BOOLEAN
    OBVIOUS
  <2> QED
    BY <1>3, <2>1, RequestChainStep
<1>4. CASE Put(c, Standby(k)) /\ UNCHANGED <<spanVars, outstanding, overdue, wire>>
  <2>1. /\ ContextOK(c, Standby(k)) /\ Standby(k).pc = "idle" /\ Standby(k).conn = k.conn
        /\ Standby(k).state = "standby"
    BY StandbyOK
  <2>2. Standby(k).pc \notin Locking /\ Awake(Standby(k))
    BY <2>1 DEF Locking, Awake
  <2> QED
    BY <1>4, <2>1, <2>2, ContextStep
<1> QED
  BY <1>1, <1>2, <1>3, <1>4

\* A span is reserved and asked for.
LEMMA ReserveRequestStep ==
  ASSUME SyncInv, NEW c \in Conns, ctx[c].pc \notin Locking, NEW k, ContextOK(c, k), k.conn = ctx[c].conn,
         NEW r, r = Reservable(c, k), r # NoRequest,
         reserve_and_request(c, k, r), UNCHANGED <<main_chain, sync_lock, hand, left>>
  PROVE  SyncInv'
<1> DEFINE n == Len(r.ids)
           t == [k EXCEPT !.first = r.start + n]
<1>1. /\ r.start \in Nat /\ r.start # 0 /\ r.ids \in Seq(Hashes) /\ n \in Nat /\ n # 0
      /\ ToSet(r.ids) \cap requested_hashes = {} /\ SpansAt(r.start) = {}
      /\ r.start + n <= k.last_response_height + 1
  BY ReservableOK
<1>2. /\ blocks' = blocks \cup {NewSpan(r.start, r.ids, << >>, n, c)}
      /\ requested_hashes' = requested_hashes \cup ToSet(r.ids) /\ UNCHANGED have_blocks
      /\ RequestObjects(c, t, r.start, r.ids)
  BY DEF reserve_and_request
<1>3. QueueOK'
  BY <1>1, <1>2, ReserveStep DEF SyncInv
<1>4. /\ k.last_response_height \in Nat /\ k.last_response_height <= Tip[c] /\ Tip[c] \in Nat
      /\ Tip[c] <= MaxHeight /\ MaxHeight \in Nat
  BY ContextFields, Constants
<1> HIDE DEF n
<1>5. r.start + n \in 1..MaxHeight + 1 /\ r.start + n - 1 <= Tip[c]
  BY <1>1, <1>4
<1>6. ContextOK(c, t) /\ t.conn = k.conn
  BY <1>1, <1>5 DEF ContextOK, ContextType
<1> HIDE DEF t
<1>7. WireOK' /\ ConnsOK' /\ ChainOK'
  BY <1>1, <1>2, <1>5, <1>6, RequestObjectsStep DEF n
<1> QED
  BY <1>3, <1>7 DEF SyncInv

\* The request itself.
LEMMA RequestStep ==
  ASSUME SyncInv, NEW c \in Conns, request_objects(c)
  PROVE  SyncInv'
<1>1. ctx[c].pc = "reserve" /\ ctx[c].pc \notin Locking /\ UNCHANGED <<main_chain, sync_lock, hand, left>>
  BY DEF request_objects, At, Locking
<1>2. ContextOK(c, ctx[c])
  BY DEF SyncInv, ConnsOK, ContextsOK
<1>3. CASE ctx[c].force /\ ScheduledNext
  <2>1. ask_scheduled(c, ctx[c])
    BY <1>3 DEF request_objects
  <2> QED
    BY <1>1, <1>2, <1>3, <2>1, ScheduledStep
<1>4. CASE ~(ctx[c].force /\ ScheduledNext)
  <2>1. PICK k \in {skip_unneeded_hashes(c, ctx[c], FALSE)} : \E r \in {Reservable(c, k)} :
       \/ /\ NothingToAsk(c, k)
          /\ nothing_to_ask(c, k)
          /\ UNCHANGED wire
       \/ /\ ~NothingToAsk(c, k) /\ r # NoRequest
          /\ reserve_and_request(c, k, r)
       \/ /\ ~NothingToAsk(c, k) /\ r = NoRequest /\ ScheduledNext
          /\ ask_scheduled(c, k)
       \/ /\ ~NothingToAsk(c, k) /\ r = NoRequest /\ ~ScheduledNext
          /\ no_span(c, k)
          /\ UNCHANGED wire
    BY <1>4 DEF request_objects
  <2>2. /\ ContextOK(c, k) /\ k.conn = ctx[c].conn
        /\ k.last_response_height = ctx[c].last_response_height /\ k.expected_last = ctx[c].expected_last
        /\ ScheduledNext => k.last_response_height # 0
    <3>1. k = skip_unneeded_hashes(c, ctx[c], TRUE) \/ k = skip_unneeded_hashes(c, ctx[c], FALSE)
      OBVIOUS
    <3>2. Advances(c, ctx[c], k)
      BY <1>2, <3>1, SkipOK
    <3>3. ~ctx[c].force => ctx[c].last_response_height # 0
      BY <1>2, ContextFields DEF request_objects, NoneNeeded
    <3> QED
      BY <1>4, <3>2, <3>3 DEF Advances
  <2>3. CASE nothing_to_ask(c, k) /\ UNCHANGED wire
    BY <1>1, <2>2, <2>3, NothingStep
  <2>4. CASE Reservable(c, k) # NoRequest /\ reserve_and_request(c, k, Reservable(c, k))
    BY <1>1, <2>2, <2>4, ReserveRequestStep
  <2>5. CASE ScheduledNext /\ ask_scheduled(c, k)
    BY <1>1, <2>2, <2>5, ScheduledStep
  <2>6. CASE no_span(c, k) /\ UNCHANGED wire
    <3>1. CASE Put(c, SetNormal(k)) /\ UNCHANGED <<spanVars, outstanding, overdue>>
      <4>1. /\ ContextOK(c, SetNormal(k)) /\ SetNormal(k).pc = "idle" /\ SetNormal(k).conn = k.conn
            /\ SetNormal(k).state = "normal"
        BY <2>2, SetNormalOK
      <4>2. SetNormal(k).pc \notin Locking /\ Awake(SetNormal(k))
        BY <4>1 DEF Locking, Awake
      <4> QED
        BY <1>1, <2>2, <2>6, <3>1, <4>1, <4>2, ContextStep
    <3>2. CASE drop_connection(c)
      BY <1>1, <2>6, <3>2, DropStep, SameWire DEF SyncInv
    <3> QED
      BY <2>6, <3>1, <3>2 DEF no_span
  <2> QED
    BY <2>1, <2>3, <2>4, <2>5, <2>6
<1> QED
  BY <1>3, <1>4

\* Nothing to request: on to the next step.
LEMMA RequestNothingStep ==
  ASSUME SyncInv, NEW c \in Conns, request_nothing(c)
  PROVE  SyncInv'
<1> DEFINE k == [ctx[c] EXCEPT !.pc = "chain"]
<1>1. /\ ctx[c].pc = "reserve" /\ Put(c, k) /\ ConnsOK /\ TRUE \in BOOLEAN
      /\ UNCHANGED <<spanVars, main_chain, sync_lock, hand, wire, left>>
  BY SMTT(30) DEF request_nothing, At, SyncInv, queueVars, spanVars
<1>2. ContextOK(c, k) /\ k.pc = "chain" /\ k.conn = ctx[c].conn
  BY <1>1, PlaceOK
<1> HIDE DEF k
<1>3. k.pc \notin Locking /\ ctx[c].pc \notin Locking /\ Awake(k)
  BY <1>1, <1>2 DEF Locking, Awake
<1> QED
  BY <1>1, <1>2, <1>3, ContextStep

\* More ids are asked for, or the handler returns.
LEMMA RequestIdsStep ==
  ASSUME SyncInv, NEW c \in Conns, request_ids(c)
  PROVE  SyncInv'
<1>1. PICK k : k = ctx[c]
  OBVIOUS
<1>2. /\ ctx[c].pc \notin Locking /\ ContextOK(c, k) /\ k.conn = ctx[c].conn
      /\ UNCHANGED <<main_chain, sync_lock, hand, left>>
  BY <1>1 DEF request_ids, At, Locking, SyncInv, ConnsOK, ContextsOK
<1>3. CASE Put(c, StandbyCalled(k)) /\ UNCHANGED <<spanVars, wire>>
  <2>1. /\ ContextOK(c, StandbyCalled(k)) /\ StandbyCalled(k).pc = "idle" /\ StandbyCalled(k).conn = k.conn
        /\ StandbyCalled(k).state = "standby"
    BY <1>2, StandbyCalledOK
  <2>2. StandbyCalled(k).pc \notin Locking /\ Awake(StandbyCalled(k))
    BY <2>1 DEF Locking, Awake
  <2> QED
    BY <1>2, <1>3, <2>1, <2>2, ContextStep
<1>4. CASE request_chain(c, k, FALSE)
  <2>1. FALSE \in BOOLEAN
    OBVIOUS
  <2> QED
    BY <1>2, <1>4, <2>1, RequestChainStep
<1>5. CASE Put(c, SetNormal(k)) /\ UNCHANGED <<spanVars, wire>>
  <2>1. /\ ContextOK(c, SetNormal(k)) /\ SetNormal(k).pc = "idle" /\ SetNormal(k).conn = k.conn
        /\ SetNormal(k).state = "normal"
    BY <1>2, SetNormalOK
  <2>2. SetNormal(k).pc \notin Locking /\ Awake(SetNormal(k))
    BY <2>1 DEF Locking, Awake
  <2> QED
    BY <1>2, <1>5, <2>1, <2>2, ContextStep
<1> QED
  BY <1>1, <1>3, <1>4, <1>5 DEF request_ids

-----------------------------------------------------------------------------
(* Answers *)

\* The blocks that were asked for are queued.
LEMMA ObjectsStep ==
  ASSUME SyncInv, NEW c \in Conns, objects_received(c)
  PROVE  SyncInv'
<1>1. PICK m : m = Head(wire[c])
  OBVIOUS
<1> DEFINE k == [ctx[c] EXCEPT !.expect = "none", !.timer = "unset", !.last_known = m.last, !.pc = "try"]
<1>2. /\ Receives(c, "objects") /\ add_filled_blocks(m.start, NeededObjects(c, m.start, m.last), c) /\ Put(c, k)
      /\ UNCHANGED <<main_chain, sync_lock, hand, left>>
  BY <1>1 DEF objects_received
<1>3. WireOK' /\ m \in Message(c) /\ m.kind = "objects" /\ ctx[c].pc = "idle" /\ ctx[c].conn = "open"
  BY <1>1, <1>2, ReceiveStep DEF SyncInv, Receives, Idle, At
<1>4. /\ m.start \in Nat /\ m.start # 0 /\ m.last \in Nat /\ m.start <= m.last /\ m.last <= Tip[c]
      /\ m.last \in 0..MaxHeight
  BY <1>3, Constants DEF Message
<1>5. QueueOK'
  BY <1>2, <1>4, DeliverStep DEF SyncInv
<1>6. ContextOK(c, k) /\ k.pc = "try"
  <2>1. ContextOK(c, ctx[c])
    BY DEF SyncInv, ConnsOK, ContextsOK
  <2> QED
    BY <1>4, <2>1, ZenonT(60) DEF ContextOK, ContextType
<1> HIDE DEF k
<1>7. ConnsOK'
  <2>1. k.pc \notin Locking /\ ctx[c].pc \notin Locking /\ Awake(k)
    BY <1>3, <1>6 DEF Locking, Awake
  <2> QED
    BY <1>2, <1>3, <1>6, <2>1, PutStep DEF SyncInv
<1> QED
  BY <1>2, <1>3, <1>5, <1>7, SameChain DEF SyncInv

\* An answer that was not asked for: the connection is dropped.
LEMMA RefusedAnswerStep ==
  ASSUME SyncInv, NEW c \in Conns, objects_refused(c) \/ chain_refused(c)
  PROVE  SyncInv'
<1>1. drop_connection(c) /\ (Receives(c, "objects") \/ Receives(c, "chain"))
  BY DEF objects_refused, chain_refused
<1>2. WireOK' /\ ctx[c].pc \notin Locking
  BY <1>1, ReceiveStep DEF SyncInv, Receives, Idle, At, Locking
<1> QED
  BY <1>1, <1>2, DropStep

\* Ids of the peer's chain.
LEMMA ChainStep ==
  ASSUME SyncInv, NEW c \in Conns, chain_received(c)
  PROVE  SyncInv'
<1>1. PICK m : m = Head(wire[c])
  OBVIOUS
<1>2. PICK known, first : known = ChainHas(c, m.start) /\ first = Max({1, m.start})
  OBVIOUS
<1> DEFINE k == [ctx[c] EXCEPT !.expect = "none", !.timer = "unset", !.entry = TRUE,
                               !.last_response_height = m.last, !.first = first,
                               !.expected_first = m.start, !.expected_last = m.last,
                               !.known = known, !.pc = "scan"]
<1>3. Receives(c, "chain") /\ Put(c, k) /\ UNCHANGED <<spanVars, main_chain, sync_lock, hand, left>>
  BY <1>1, <1>2 DEF chain_received, queueVars, spanVars
<1>4. WireOK' /\ m \in Message(c) /\ ctx[c].pc = "idle" /\ ctx[c].conn = "open"
  BY <1>1, <1>3, ReceiveStep DEF SyncInv, Receives, Idle, At
<1>5. /\ m.start \in Nat /\ m.last \in Nat /\ m.start <= m.last /\ m.last <= Tip[c]
      /\ m.start \in 0..MaxHeight /\ m.last \in 0..MaxHeight
  BY <1>4, Constants DEF Message
<1>6. first \in 1..MaxHeight + 1 /\ first <= m.last + 1
  BY <1>2, <1>5, MaxOfTwo, Constants
<1>7. known \in BOOLEAN
  BY <1>2 DEF ChainHas
<1>8. k \in ContextType
  <2>1. ctx[c] \in ContextType
    BY DEF SyncInv, ConnsOK, ContextsOK, ContextOK
  <2>2. PICK i : i = [ctx[c] EXCEPT !.last_response_height = m.last, !.first = first,
                                    !.expected_first = m.start, !.expected_last = m.last]
    OBVIOUS
  <2>3. PICK j : j = [i EXCEPT !.expect = "none", !.timer = "unset", !.entry = TRUE, !.pc = "scan"]
    OBVIOUS
  <2>4. i \in ContextType
    BY <1>5, <1>6, <2>1, <2>2 DEF ContextType
  <2>5. j \in ContextType
    BY <2>3, <2>4, ZenonT(60) DEF ContextType
  <2>6. k = [j EXCEPT !.known = known]
    BY <2>1, <2>2, <2>3 DEF ContextType
  <2> HIDE DEF k
  <2> QED
    BY <1>7, <2>5, <2>6 DEF ContextType
<1>9. /\ k.pc = "scan" /\ k.last_response_height = m.last /\ k.first = first /\ k.expected_last = m.last
      /\ k.last_known = ctx[c].last_known
  BY DEF SyncInv, ConnsOK, ContextsOK, ContextOK, ContextType
<1> HIDE DEF k
<1>10. ContextOK(c, k)
  BY <1>5, <1>6, <1>8, <1>9 DEF SyncInv, ConnsOK, ContextsOK, ContextOK
<1>11. ConnsOK'
  <2>1. k.pc \notin Locking /\ ctx[c].pc \notin Locking /\ Awake(k)
    BY <1>4, <1>9 DEF Locking, Awake
  <2> QED
    BY <1>3, <1>4, <1>10, <2>1, PutStep DEF SyncInv
<1> QED
  BY <1>3, <1>4, <1>11, SameQueue, SameChain DEF SyncInv

\* The ids are looked at.
LEMMA ScanStep ==
  ASSUME SyncInv, NEW c \in Conns, chain_mismatch(c) \/ chain_accepted(c)
  PROVE  SyncInv'
<1>1. CASE chain_mismatch(c)
  <2>1. drop_connection(c) /\ ctx[c].pc \notin Locking /\ UNCHANGED wire
    BY <1>1 DEF chain_mismatch, At, Locking
  <2> QED
    BY <2>1, DropStep, SameWire DEF SyncInv
<1>2. CASE chain_accepted(c)
  <2>1. PICK force \in BOOLEAN :
          Put(c, [ctx[c] EXCEPT !.refresh = FALSE, !.known = FALSE, !.pc = "flush", !.force = force])
    <3> DEFINE covered == /\ ScheduledNext
                          /\ Expected(ctx[c], FirstSpan(blocks).start_block_height - 1)
                          /\ Expected(ctx[c], SpanEnd(FirstSpan(blocks)) - 1)
    <3>1. \E download \in (IF ctx[c].refresh THEN should_download_next_span(c, TRUE) ELSE {FALSE}) :
            Put(c, [ctx[c] EXCEPT !.refresh = FALSE, !.known = FALSE, !.pc = "flush",
                                  !.force = download /\ covered])
      BY <1>2 DEF chain_accepted
    <3> HIDE DEF covered
    <3>2. PICK download : Put(c, [ctx[c] EXCEPT !.refresh = FALSE, !.known = FALSE, !.pc = "flush",
                                                !.force = download /\ covered])
      BY <3>1
    <3>3. (download /\ covered) \in BOOLEAN
      OBVIOUS
    <3> QED
      BY <3>2, <3>3
  <2> DEFINE k == [ctx[c] EXCEPT !.refresh = FALSE, !.known = FALSE, !.pc = "flush", !.force = force]
  <2>2. ctx[c].pc = "scan" /\ UNCHANGED <<spanVars, main_chain, sync_lock, hand, wire, left>>
    BY <1>2 DEF chain_accepted, At, queueVars, spanVars
  <2>3. ContextOK(c, k) /\ k.pc = "flush" /\ k.conn = ctx[c].conn
    <3>1. ContextOK(c, ctx[c])
      BY DEF SyncInv, ConnsOK, ContextsOK
    <3> QED
      BY <3>1, ZenonT(60) DEF ContextOK, ContextType
  <2>4. Put(c, k)
    BY <2>1
  <2> HIDE DEF k
  <2>5. k.pc \notin Locking /\ ctx[c].pc \notin Locking /\ Awake(k)
    BY <2>2, <2>3 DEF Locking, Awake
  <2> QED
    BY <2>2, <2>3, <2>4, <2>5, ContextStep
<1> QED
  BY <1>1, <1>2

-----------------------------------------------------------------------------
(* Timers, callbacks and closing connections *)

\* A timer asks for a callback.
LEMMA TimerStep ==
  ASSUME SyncInv, NEW c \in Conns, kick_idle(c) \/ check_standby(c)
  PROVE  SyncInv'
<1>1. ContextOK(c, ctx[c]) /\ ctx[c].pc = "idle" /\ CanCall(c)
  BY DEF SyncInv, ConnsOK, ContextsOK, kick_idle, check_standby, Idle, At
<1>2. ctx[c].callbacks + 1 \in 0..MaxCallbacks /\ ctx[c].callbacks + 1 > 0
  BY <1>1, ContextFields, Constants DEF CanCall
<1>3. PICK k : /\ k \in {[ctx[c] EXCEPT !.timer = "expired", !.idle_notification = TRUE, !.callbacks = @ + 1],
                         [ctx[c] EXCEPT !.callbacks = @ + 1]}
               /\ Put(c, k) /\ UNCHANGED <<spanVars, main_chain, sync_lock, hand, wire, left>>
  BY DEF kick_idle, check_standby, queueVars, spanVars
<1>4. ContextOK(c, k) /\ k.pc = "idle" /\ k.conn = ctx[c].conn /\ k.callbacks > 0
  <2>1. CASE k = [ctx[c] EXCEPT !.timer = "expired", !.idle_notification = TRUE, !.callbacks = @ + 1]
    BY <1>1, <1>2, <2>1 DEF ContextOK, ContextType
  <2>2. CASE k = [ctx[c] EXCEPT !.callbacks = @ + 1]
    BY <1>1, <1>2, <2>2 DEF ContextOK, ContextType
  <2> QED
    BY <1>3, <2>1, <2>2
<1>5. Awake(k)
  BY <1>4 DEF Awake
<1> QED
  BY <1>1, <1>3, <1>4, <1>5, ContextStep

\* The context after a callback.
LEMMA CalledOK ==
  ASSUME SyncInv, NEW c \in Conns, callback_fires(c)
  PROVE  /\ ContextOK(c, ctx[c]) /\ ctx[c].pc = "idle" /\ ctx[c].conn = "open"
         /\ ContextOK(c, Called(c)) /\ Called(c).pc = "idle" /\ Called(c).conn = "open"
         /\ Called(c).state = ctx[c].state /\ Called(c).timer = ctx[c].timer
         /\ Called(c).last_response_height = ctx[c].last_response_height
<1>1. ContextOK(c, ctx[c]) /\ ctx[c].pc = "idle" /\ ctx[c].conn = "open" /\ ctx[c].callbacks > 0
  BY DEF SyncInv, ConnsOK, ContextsOK, callback_fires, Idle, At
<1>2. ctx[c].callbacks - 1 \in 0..MaxCallbacks
  BY <1>1, ContextFields, Constants
<1> QED
  BY <1>1, <1>2 DEF Called, ContextOK, ContextType

\* The callback of a peer that did not answer.
LEMMA KickStep ==
  ASSUME SyncInv, NEW c \in Conns, callback_drops(c) \/ callback_kicks(c)
  PROVE  SyncInv'
<1>1. CASE callback_drops(c)
  <2>1. drop_connection(c) /\ ctx[c].pc \notin Locking /\ UNCHANGED wire
    BY <1>1 DEF callback_drops, callback_fires, Idle, At, Locking
  <2> QED
    BY <2>1, DropStep, SameWire DEF SyncInv
<1>2. CASE callback_kicks(c)
  <2>1. PICK j : j = Called(c)
    OBVIOUS
  <2> DEFINE k == [j EXCEPT !.timer = "unset", !.expect = "none", !.refresh = FALSE,
                            !.kicked = TRUE, !.pc = "try"]
  <2>2. callback_fires(c) /\ Put(c, k) /\ UNCHANGED <<spanVars, main_chain, sync_lock, hand, wire, left>>
    BY <1>2, <2>1 DEF callback_kicks
  <2>3. ctx[c].pc = "idle" /\ ctx[c].conn = "open" /\ ContextOK(c, j)
    BY <2>1, <2>2, CalledOK
  <2>4. ContextOK(c, k) /\ k.pc = "try"
    BY <2>3, ZenonT(60) DEF ContextOK, ContextType
  <2> HIDE DEF k
  <2>5. k.pc \notin Locking /\ ctx[c].pc \notin Locking /\ Awake(k)
    BY <2>3, <2>4 DEF Locking, Awake
  <2> QED
    BY <2>2, <2>3, <2>4, <2>5, ContextStep
<1> QED
  BY <1>1, <1>2

\* Any other callback.
LEMMA ResumeStep ==
  ASSUME SyncInv, NEW c \in Conns, callback_resumes(c)
  PROVE  SyncInv'
<1>1. PICK j : j = Called(c)
  OBVIOUS
<1>2. /\ ContextOK(c, j) /\ j.pc = "idle" /\ j.conn = "open" /\ j.state = ctx[c].state /\ j.timer = ctx[c].timer
      /\ j.last_response_height = ctx[c].last_response_height
      /\ ctx[c].pc = "idle" /\ ctx[c].conn = "open" /\ ContextOK(c, ctx[c])
  BY <1>1, CalledOK DEF callback_resumes
<1>3. UNCHANGED <<spanVars, main_chain, sync_lock, hand, left>>
  BY DEF callback_resumes, queueVars, spanVars
<1> DEFINE a == [j EXCEPT !.first = ctx[c].last_response_height + 1, !.timer = "set", !.expect = "chain"]
           b == [j EXCEPT !.state = "synchronizing", !.pc = "try"]
<1>4. CASE Put(c, a) /\ wire' = [wire EXCEPT ![c] = Append(@, ChainEntry(CommonTop(c), c))]
  <2>1. ctx[c].last_response_height + 1 \in 1..MaxHeight + 1 /\ ctx[c].last_response_height \in Nat
    BY <1>2, ContextFields, Constants
  <2>2. ContextOK(c, a) /\ a.pc = "idle" /\ a.timer = "set"
    <3>1. a \in ContextType
      BY <1>2, <2>1 DEF ContextOK, ContextType
    <3>2. /\ a.pc = "idle" /\ a.timer = "set" /\ a.first = j.last_response_height + 1 /\ a.last_known = j.last_known
          /\ a.last_response_height = j.last_response_height /\ a.expected_last = j.expected_last
      BY <1>2 DEF ContextOK, ContextType
    <3> HIDE DEF a
    <3> QED
      BY <1>2, <2>1, <3>1, <3>2 DEF ContextOK
  <2> HIDE DEF a
  <2>3. ConnsOK'
    <3>1. Awake(a)
      BY <2>2 DEF Awake
    <3> QED
      BY <1>2, <1>3, <1>4, <2>2, <3>1, PutStep DEF SyncInv
  <2>4. ChainEntry(CommonTop(c), c) \in Message(c)
    BY CommonTopOK, ChainEntryOK DEF SyncInv
  <2>5. WireOK'
    BY <1>4, <2>4, SendStep DEF SyncInv
  <2> QED
    BY <1>3, <2>3, <2>5, SameQueue, SameChain DEF SyncInv
<1>5. CASE Put(c, b) /\ UNCHANGED wire
  <2>1. ContextOK(c, b) /\ b.pc = "try"
    BY <1>2 DEF ContextOK, ContextType
  <2> HIDE DEF b
  <2>2. b.pc \notin Locking /\ ctx[c].pc \notin Locking /\ Awake(b)
    BY <1>2, <2>1 DEF Locking, Awake
  <2> QED
    BY <1>2, <1>3, <1>5, <2>1, <2>2, ContextStep
<1>6. CASE /\ ctx[c].state = "normal" \/ (ctx[c].state = "synchronizing" /\ ctx[c].timer # "unset")
           /\ Put(c, j) /\ UNCHANGED wire
  <2>1. Awake(j)
    BY <1>2, <1>6 DEF Awake
  <2> QED
    BY <1>2, <1>3, <1>6, <2>1, ContextStep
<1> QED
  BY <1>1, <1>4, <1>5, <1>6 DEF callback_resumes

\* What a timed sync tells of the peer.
LEMMA TimedSyncStep ==
  ASSUME SyncInv, NEW c \in Conns, timed_sync(c)
  PROVE  SyncInv'
<1>1. /\ ContextOK(c, ctx[c]) /\ ctx[c].pc = "idle" /\ ctx[c].conn = "open"
      /\ UNCHANGED <<spanVars, main_chain, sync_lock, hand, wire, left>>
  BY DEF SyncInv, ConnsOK, ContextsOK, timed_sync, Idle, At, queueVars, spanVars
<1>2. PICK k : k = ctx[c]
  OBVIOUS
<1>3. CASE Put(c, SetNormal(k))
  <2>1. ContextOK(c, SetNormal(k)) /\ SetNormal(k).pc = "idle" /\ SetNormal(k).state = "normal"
    BY <1>1, <1>2, SetNormalOK
  <2>2. Awake(SetNormal(k))
    BY <2>1 DEF Awake
  <2> QED
    BY <1>1, <1>3, <2>1, <2>2, ContextStep
<1>4. CASE CanCall(c) /\ Put(c, Wanted(k))
  <2>1. k.callbacks + 1 \in 0..MaxCallbacks /\ k.callbacks + 1 > 0
    BY <1>1, <1>2, <1>4, ContextFields, Constants DEF CanCall
  <2>2. ContextOK(c, Wanted(k)) /\ Wanted(k).pc = "idle" /\ Wanted(k).callbacks > 0
    BY <1>1, <1>2, <2>1 DEF Wanted, ContextOK, ContextType
  <2>3. Awake(Wanted(k))
    BY <2>2 DEF Awake
  <2> QED
    BY <1>1, <1>4, <2>2, <2>3, ContextStep
<1> QED
  BY <1>2, <1>3, <1>4 DEF timed_sync

\* The peer closes the connection, maybe while its handler has the lock.
LEMMA PeerClosesStep ==
  ASSUME SyncInv, NEW c \in Conns, peer_closes(c)
  PROVE  SyncInv'
<1> DEFINE k == [ctx[c] EXCEPT !.conn = "closing"]
<1>1. Put(c, k) /\ UNCHANGED <<spanVars, main_chain, sync_lock, hand, wire, left>>
  BY DEF peer_closes, queueVars, spanVars
<1>2. ContextOK(c, ctx[c])
  BY DEF SyncInv, ConnsOK, ContextsOK
<1>3. ContextOK(c, k) /\ k.pc = ctx[c].pc /\ k.conn = "closing"
  BY <1>2 DEF ContextOK, ContextType
<1> HIDE DEF k
<1>4. Awake(k)
  BY <1>3 DEF Awake
<1> QED
  BY <1>1, <1>3, <1>4, ContextStep

\* A connection is gone.
LEMMA CloseStep ==
  ASSUME SyncInv, NEW c \in Conns, on_connection_close(c)
  PROVE  SyncInv'
<1> DEFINE k == [NewContext EXCEPT !.conn = "closed", !.kicked = ctx[c].kicked]
           S == {s \in blocks : s.connection_id = c /\ ~Filled(s)}
<1>1. /\ ctx[c].pc = "idle" /\ EraseBlocks(S) /\ Put(c, k) /\ wire' = [wire EXCEPT ![c] = << >>]
      /\ UNCHANGED <<main_chain, sync_lock, hand, left>>
  BY DEF on_connection_close, At
<1>2. ContextOK(c, k) /\ k.pc = "idle" /\ k.conn = "closed"
  <2>1. ctx[c].kicked \in BOOLEAN
    BY DEF SyncInv, ConnsOK, ContextsOK, ContextOK, ContextType
  <2>2. ContextOK(c, NewContext)
    BY NewContextOK
  <2>3. k \in ContextType
    BY <2>1, <2>2 DEF ContextOK, ContextType
  <2> QED
    BY <2>2, <2>3 DEF ContextOK, NewContext
<1> HIDE DEF k
<1>3. ConnsOK'
  <2>1. Awake(k)
    BY <1>2 DEF Awake
  <2> QED
    BY <1>1, <1>2, <2>1, PutStep DEF SyncInv
<1>4. QueueOK'
  BY <1>1, EraseStep DEF SyncInv
<1>5. WireOK'
  BY <1>1 DEF SyncInv, WireOK
<1> QED
  BY <1>1, <1>3, <1>4, <1>5, SameChain DEF SyncInv

-----------------------------------------------------------------------------
(* What a connection waits for *)

\* A handler that runs waits for nothing, a connection that waits for an answer
\* has a timer, and blocks are out only where they are what it waits for.
Coherent(k, o) ==
  /\ k.pc # "idle" => k.state = "synchronizing" /\ k.expect = "none" /\ o = NoRequest
  /\ k.expect # "none" => k.state = "synchronizing" /\ k.timer # "unset"
  /\ o # NoRequest => k.expect = "objects"
  /\ k.pc = "chain" => NoneNeeded(k)
CoherentOK == outstanding = [c \in Conns |-> outstanding[c]] /\ \A c \in Conns : Coherent(ctx[c], outstanding[c])

\* What Coherent says of a context is in these fields.
Same(r, k) == r.state = k.state /\ r.expect = k.expect /\ r.timer = k.timer

\* A step of one connection.
LEMMA CoherentPut ==
  ASSUME SyncInv, CoherentOK, NEW c \in Conns, NEW k, Put(c, k),
         NEW o, outstanding' = [outstanding EXCEPT ![c] = o], Coherent(k, o)
  PROVE  CoherentOK'
<1>1. ctx'[c] = k /\ \A d \in Conns : d # c => ctx'[d] = ctx[d]
  BY DEF Put, SyncInv, ConnsOK, ContextsOK
<1>2. /\ outstanding' = [d \in Conns |-> outstanding'[d]] /\ outstanding'[c] = o
      /\ \A d \in Conns : d # c => outstanding'[d] = outstanding[d]
  BY DEF CoherentOK
<1>3. \A d \in Conns : Coherent(ctx'[d], outstanding'[d])
  BY <1>1, <1>2 DEF CoherentOK
<1>4. \A d \in Conns : Coherent(ctx'[d], outstanding'[d]) => Coherent(ctx[d], outstanding[d])'
  BY DEF Coherent, NoneNeeded
<1> QED
  BY <1>2, <1>3, <1>4 DEF CoherentOK

\* ... with its request left alone
LEMMA CoherentStep ==
  ASSUME SyncInv, CoherentOK, NEW c \in Conns, NEW k, Put(c, k),
         UNCHANGED outstanding, Coherent(k, outstanding[c])
  PROVE  CoherentOK'
<1>1. outstanding' = [outstanding EXCEPT ![c] = outstanding[c]]
  BY DEF CoherentOK
<1> QED
  BY <1>1, CoherentPut

\* A handler that goes on, or returns, as it was.
LEMMA CoherentGoesOn ==
  ASSUME SyncInv, CoherentOK, NEW c \in Conns, NEW k, Same(k, ctx[c]), Put(c, k), UNCHANGED outstanding,
         k.pc = "idle" \/ (ctx[c].pc # "idle" /\ (k.pc = "chain" => NoneNeeded(k)))
  PROVE  CoherentOK'
<1>1. Coherent(ctx[c], outstanding[c])
  BY DEF CoherentOK
<1>2. Coherent(k, outstanding[c])
  BY <1>1 DEF Coherent, Same
<1> QED
  BY <1>2, CoherentStep

\* The fields after the common ends of a handler.
LEMMA EndFields ==
  ASSUME NEW c \in Conns, NEW k, ContextOK(c, k)
  PROVE  /\ Same(Done(k), k) /\ Done(k).pc = "idle"
         /\ SetNormal(k).pc = "idle" /\ SetNormal(k).expect = k.expect
         /\ Standby(k).pc = "idle" /\ Standby(k).expect = k.expect
         /\ StandbyCalled(k).pc = "idle" /\ StandbyCalled(k).expect = k.expect
<1>1. Same(Done(k), k) /\ Done(k).pc = "idle"
  BY DEF ContextOK, ContextType, Done, Same
<1>2. ContextOK(c, Done(k))
  BY DoneOK
<1>3. SetNormal(k).pc = "idle" /\ SetNormal(k).expect = k.expect
  BY <1>1, <1>2 DEF SetNormal, ContextOK, ContextType, Same
<1>4. Standby(k).pc = "idle" /\ Standby(k).expect = k.expect
  BY <1>1, <1>2 DEF Standby, ContextOK, ContextType, Same
<1>5. StandbyCalled(k).pc = "idle" /\ StandbyCalled(k).expect = k.expect
  BY <1>4, StandbyOK DEF StandbyCalled, ContextOK, ContextType
<1> QED
  BY <1>1, <1>3, <1>4, <1>5

\* skip_unneeded_hashes leaves them alone.
LEMMA SkipSame ==
  ASSUME NEW c \in Conns, NEW k, ContextOK(c, k), NEW check, NEW r, r = skip_unneeded_hashes(c, k, check)
  PROVE  Same(r, k)
<1>1. \E n : r = [k EXCEPT !.first = n, !.last_known = k.last_response_height] \/ r = [k EXCEPT !.first = n]
  BY DEF skip_unneeded_hashes
<1>2. PICK n : r = [k EXCEPT !.first = n, !.last_known = k.last_response_height] \/ r = [k EXCEPT !.first = n]
  BY <1>1
<1>3. CASE r = [k EXCEPT !.first = n, !.last_known = k.last_response_height]
  BY <1>3 DEF ContextOK, ContextType, Same
<1>4. CASE r = [k EXCEPT !.first = n]
  BY <1>4 DEF ContextOK, ContextType, Same
<1> QED
  BY <1>2, <1>3, <1>4

\* A handler that ends with no request out.
LEMMA CoherentEnds ==
  ASSUME SyncInv, CoherentOK, NEW c \in Conns, ctx[c].pc # "idle", NEW k, k.pc = "idle", k.expect = "none",
         Put(c, k), UNCHANGED outstanding
  PROVE  CoherentOK'
<1>1. Coherent(k, outstanding[c])
  BY DEF CoherentOK, Coherent
<1> QED
  BY <1>1, CoherentStep

\* A request for blocks.
LEMMA CoherentObjects ==
  ASSUME SyncInv, CoherentOK, NEW c \in Conns, ctx[c].pc # "idle", NEW k, ContextOK(c, k), Same(k, ctx[c]),
         NEW f, NEW start, NEW ids, RequestObjects(c, [k EXCEPT !.first = f], start, ids)
  PROVE  CoherentOK'
<1>0. k.state = "synchronizing"
  BY DEF CoherentOK, Coherent, Same
<1> DEFINE i == [k EXCEPT !.first = f]
           t == [i EXCEPT !.timer = "set", !.expect = "objects", !.num_requested = TRUE]
           u == Done(t)
           o == [start |-> start, ids |-> ids]
<1>1. Put(c, u) /\ outstanding' = [outstanding EXCEPT ![c] = o]
  BY DEF RequestObjects
<1>2. u.pc = "idle" /\ u.timer = "set" /\ u.expect = "objects" /\ u.state = "synchronizing"
  BY <1>0 DEF Done, ContextOK, ContextType
<1> HIDE DEF u, o
<1>3. Coherent(u, o)
  BY <1>2 DEF Coherent
<1> QED
  BY <1>1, <1>3, CoherentPut

\* A request for ids.
LEMMA CoherentIds ==
  ASSUME SyncInv, CoherentOK, NEW c \in Conns, ctx[c].pc # "idle", NEW k, ContextOK(c, k), Same(k, ctx[c]),
         NEW refresh \in BOOLEAN, request_chain(c, k, refresh)
  PROVE  CoherentOK'
<1>0. k.state = "synchronizing" /\ outstanding[c] = NoRequest
  BY DEF CoherentOK, Coherent, Same
<1> DEFINE r == IF refresh THEN [k EXCEPT !.first = k.last_response_height + 1, !.last_known = 0] ELSE k
           t == [r EXCEPT !.refresh = refresh, !.timer = "set", !.expect = "chain"]
<1>1. Put(c, Done(t)) /\ UNCHANGED outstanding
  BY DEF request_chain
<1>2. ContextOK(c, r) /\ r.state = "synchronizing"
  <2>1. /\ k.last_response_height + 1 \in 1..MaxHeight + 1 /\ 0 \in 0..MaxHeight /\ k.last_response_height \in Nat
        /\ Tip[c] \in Nat
    BY ContextFields, Constants
  <2>2. CASE refresh
    <3>1. r = [k EXCEPT !.first = k.last_response_height + 1, !.last_known = 0]
      BY <2>2
    <3> HIDE DEF r
    <3>2. r \in ContextType
      BY <2>1, <3>1 DEF ContextOK, ContextType
    <3>3. /\ r.state = k.state /\ r.first = k.last_response_height + 1 /\ r.last_known = 0
          /\ r.last_response_height = k.last_response_height /\ r.expected_last = k.expected_last
      BY <3>1 DEF ContextOK, ContextType
    <3> QED
      BY <1>0, <2>1, <3>2, <3>3 DEF ContextOK
  <2>3. CASE ~refresh
    BY <1>0, <2>3
  <2> QED
    BY <2>2, <2>3
<1> HIDE DEF r
<1>3. ContextOK(c, t) /\ t.timer = "set" /\ t.expect = "chain" /\ t.state = "synchronizing"
  BY <1>2, ZenonT(60) DEF ContextOK, ContextType
<1> HIDE DEF t
<1>4. Same(Done(t), t) /\ Done(t).pc = "idle"
  BY <1>3, EndFields
<1>5. Coherent(Done(t), outstanding[c])
  BY <1>0, <1>3, <1>4 DEF Coherent, Same
<1> QED
  BY <1>1, <1>5, CoherentStep

\* A dropped connection goes on waiting, until it is closed.
LEMMA CoherentDrop ==
  ASSUME SyncInv, CoherentOK, NEW c \in Conns, drop_connection(c)
  PROVE  CoherentOK'
<1> DEFINE j == Done(ctx[c])
           k == [j EXCEPT !.conn = "closing"]
<1>1. Put(c, k) /\ UNCHANGED outstanding
  BY DEF drop_connection
<1>2. ContextOK(c, j) /\ Same(j, ctx[c]) /\ j.pc = "idle"
  BY DoneOK, EndFields DEF SyncInv, ConnsOK, ContextsOK
<1> HIDE DEF j
<1>3. Same(k, ctx[c]) /\ k.pc = "idle"
  BY <1>2 DEF Same, ContextOK, ContextType
<1> HIDE DEF k
<1> QED
  BY <1>1, <1>3, CoherentGoesOn

\* The steps with m_sync_lock.
LEMMA CoherentAdds ==
  ASSUME SyncInv, CoherentOK, NEW c \in Conns,
         \/ try_lock_sync(c) \/ ignore_old_span(c) \/ take_span(c) \/ skip_orphan_span(c) \/ requery_orphan_span(c)
         \/ stop_adding(c) \/ add_span(c) \/ end_refused(c)
  PROVE  CoherentOK'
<1>0. ContextOK(c, ctx[c])
  BY DEF SyncInv, ConnsOK, ContextsOK
<1>1. CASE try_lock_sync(c) \/ take_span(c) \/ skip_orphan_span(c) \/ add_span(c)
  <2>1. /\ ctx[c].pc # "idle" /\ UNCHANGED outstanding
        /\ \E pc \in {"adding", "flush", "verify"} : Put(c, [ctx[c] EXCEPT !.pc = pc])
    BY <1>1 DEF try_lock_sync, take_span, skip_orphan_span, add_span, Adding, Verifies, At, queueVars
  <2>2. PICK pc \in {"adding", "flush", "verify"} : Put(c, [ctx[c] EXCEPT !.pc = pc])
    BY <2>1
  <2>3. PICK k : k = [ctx[c] EXCEPT !.pc = pc]
    OBVIOUS
  <2>4. Same(k, ctx[c]) /\ k.pc # "chain"
    BY <1>0, <2>3 DEF Same, ContextOK, ContextType
  <2> QED
    BY <2>1, <2>2, <2>3, <2>4, CoherentGoesOn
<1>2. CASE stop_adding(c)
  <2>1. ctx[c].pc # "idle" /\ UNCHANGED outstanding
    BY <1>2 DEF stop_adding, At, queueVars
  <2>2. PICK force : Put(c, [ctx[c] EXCEPT !.pc = "flush", !.force = force])
    BY <1>2 DEF stop_adding
  <2>3. PICK k : k = [ctx[c] EXCEPT !.pc = "flush", !.force = force]
    OBVIOUS
  <2>4. Same(k, ctx[c]) /\ k.pc # "chain"
    BY <1>0, <2>3 DEF Same, ContextOK, ContextType
  <2> QED
    BY <2>1, <2>2, <2>3, <2>4, CoherentGoesOn
<1>3. CASE requery_orphan_span(c)
  <2>1. PICK k : k = [ctx[c] EXCEPT !.first = 1, !.last_response_height = 0, !.pc = "flush"]
    OBVIOUS
  <2>2. ctx[c].pc # "idle" /\ UNCHANGED outstanding /\ Put(c, k)
    BY <1>3, <2>1 DEF requery_orphan_span, Adding, At
  <2>3. Same(k, ctx[c]) /\ k.pc # "chain"
    BY <1>0, <2>1 DEF Same, ContextOK, ContextType
  <2> QED
    BY <2>2, <2>3, CoherentGoesOn
<1>4. CASE end_refused(c)
  <2>1. UNCHANGED outstanding /\ Put(c, Done(ctx[c]))
    BY <1>4 DEF end_refused
  <2>2. Same(Done(ctx[c]), ctx[c]) /\ Done(ctx[c]).pc = "idle"
    BY <1>0, EndFields
  <2> QED
    BY <2>1, <2>2, CoherentGoesOn
<1>5. CASE ignore_old_span(c)
  <2>1. UNCHANGED <<ctx, outstanding>>
    BY <1>5 DEF ignore_old_span
  <2> QED
    BY <2>1 DEF CoherentOK, Coherent, NoneNeeded
<1> QED
  BY <1>1, <1>2, <1>3, <1>4, <1>5

\* A refused span also cuts the connection it came from.
LEMMA CoherentRefuse ==
  ASSUME SyncInv, CoherentOK, NEW c \in Conns, refuse_span(c)
  PROVE  CoherentOK'
<1>1. PICK s \in hand :
        /\ Verifies(c, s)
        /\ ctx' = [e \in Conns |->
             LET k == IF e = s.connection_id /\ ctx[e].conn = "open"
                      THEN [ctx[e] EXCEPT !.conn = "closing"] ELSE ctx[e]
             IN IF e = c THEN [k EXCEPT !.pc = "failed"] ELSE k]
        /\ UNCHANGED outstanding
  BY DEF refuse_span
<1>2. ASSUME NEW e \in Conns PROVE Coherent(ctx'[e], outstanding[e])
  <2> DEFINE k == IF e = s.connection_id /\ ctx[e].conn = "open"
                  THEN [ctx[e] EXCEPT !.conn = "closing"] ELSE ctx[e]
             j == IF e = c THEN [k EXCEPT !.pc = "failed"] ELSE k
  <2>1. ctx'[e] = j
    BY <1>1
  <2>2. ContextOK(e, ctx[e]) /\ Coherent(ctx[e], outstanding[e])
    BY DEF SyncInv, ConnsOK, ContextsOK, CoherentOK
  <2>3. k \in ContextType /\ Same(k, ctx[e]) /\ k.pc = ctx[e].pc /\ k.first = ctx[e].first
        /\ k.last_response_height = ctx[e].last_response_height
    BY <2>2 DEF ContextOK, ContextType, Same
  <2>4. ctx[c].pc = "verify"
    BY <1>1 DEF Verifies, At
  <2> HIDE DEF k
  <2>5. CASE e = c
    <3>1. j = [k EXCEPT !.pc = "failed"]
      BY <2>5
    <3> HIDE DEF j
    <3>2. Same(j, ctx[e]) /\ j.pc = "failed"
      BY <2>3, <3>1 DEF ContextType, Same
    <3> QED
      BY <2>1, <2>2, <2>4, <2>5, <3>2 DEF Coherent, Same
  <2>6. CASE e # c
    BY <2>1, <2>2, <2>3, <2>6 DEF Coherent, Same, NoneNeeded
  <2> QED
    BY <2>5, <2>6
<1>3. \A e \in Conns : Coherent(ctx'[e], outstanding[e]) => Coherent(ctx[e], outstanding[e])'
  BY <1>1 DEF Coherent, NoneNeeded
<1> QED
  BY <1>1, <1>2, <1>3 DEF CoherentOK

\* Nothing to ask for, or nothing to download.
LEMMA CoherentNothing ==
  ASSUME SyncInv, CoherentOK, NEW c \in Conns, ctx[c].pc # "idle", NEW k, ContextOK(c, k), Same(k, ctx[c]),
         nothing_to_ask(c, k) \/ no_span(c, k)
  PROVE  CoherentOK'
<1>1. CASE drop_connection(c)
  BY <1>1, CoherentDrop
<1>2. CASE Put(c, SetNormal(k)) /\ UNCHANGED outstanding
  <2>1. SetNormal(k).pc = "idle" /\ SetNormal(k).expect = "none"
    BY EndFields DEF CoherentOK, Coherent, Same
  <2> QED
    BY <1>2, <2>1, CoherentEnds
<1> QED
  BY <1>1, <1>2 DEF nothing_to_ask, no_span

\* The steps of request_missing_objects.
LEMMA CoherentCheck ==
  ASSUME SyncInv, CoherentOK, NEW c \in Conns, flush_stale(c) \/ check_queue(c) \/ request_nothing(c)
  PROVE  CoherentOK'
<1>0. ContextOK(c, ctx[c]) /\ Coherent(ctx[c], outstanding[c])
  BY DEF SyncInv, ConnsOK, ContextsOK, CoherentOK
<1>1. CASE flush_stale(c)
  <2>1. PICK pc \in {"reserve", "check"} : Put(c, [ctx[c] EXCEPT !.pc = pc])
    BY <1>1 DEF flush_stale
  <2>2. PICK k : k = [ctx[c] EXCEPT !.pc = pc]
    OBVIOUS
  <2>3. ctx[c].pc # "idle" /\ UNCHANGED outstanding
    BY <1>1 DEF flush_stale, At
  <2>4. Same(k, ctx[c]) /\ k.pc # "chain"
    BY <1>0, <2>2 DEF Same, ContextOK, ContextType
  <2> QED
    BY <2>1, <2>2, <2>3, <2>4, CoherentGoesOn
<1>2. CASE request_nothing(c)
  <2>1. PICK k : k = [ctx[c] EXCEPT !.pc = "chain"]
    OBVIOUS
  <2>2. ctx[c].pc # "idle" /\ UNCHANGED outstanding /\ NoneNeeded(ctx[c]) /\ Put(c, k)
    BY <1>2, <2>1 DEF request_nothing, At, queueVars
  <2>3. Same(k, ctx[c]) /\ NoneNeeded(k)
    BY <1>0, <2>1, <2>2 DEF Same, ContextOK, ContextType, NoneNeeded
  <2> QED
    BY <2>2, <2>3, CoherentGoesOn
<1>3. CASE check_queue(c)
  <2>1. PICK k : k = skip_unneeded_hashes(c, ctx[c], TRUE)
    OBVIOUS
  <2>2. \/ nothing_to_ask(c, k)
        \/ /\ UNCHANGED outstanding
           /\ \/ \E force \in BOOLEAN : Put(c, Resume(k, force))
              \/ Put(c, StandbyCalled(k)) \/ Put(c, Standby(k))
    <3>1. should_download_next_span(c, TRUE) \subseteq BOOLEAN
      BY DEF should_download_next_span
    <3> QED
      BY <1>3, <2>1, <3>1 DEF check_queue
  <2>3. ContextOK(c, k) /\ Same(k, ctx[c]) /\ ctx[c].pc # "idle"
    BY <1>0, <1>3, <2>1, SkipOK, SkipSame DEF Advances, check_queue, At
  <2>4. CASE nothing_to_ask(c, k)
    BY <2>3, <2>4, CoherentNothing
  <2>5. ASSUME NEW force \in BOOLEAN, UNCHANGED outstanding, Put(c, Resume(k, force)) PROVE CoherentOK'
    <3>1. PICK j : j = Resume(k, force)
      OBVIOUS
    <3>2. Same(j, ctx[c]) /\ j.pc # "chain"
      BY <1>0, <2>3, <3>1 DEF Resume, Same, ContextOK, ContextType, Coherent
    <3> QED
      BY <2>3, <2>5, <3>1, <3>2, CoherentGoesOn
  <2>6. CASE UNCHANGED outstanding /\ (Put(c, StandbyCalled(k)) \/ Put(c, Standby(k)))
    <3>1. k.expect = "none"
      BY <1>0, <2>3 DEF Coherent, Same
    <3> QED
      BY <2>3, <2>6, <3>1, EndFields, CoherentEnds
  <2> QED
    BY <2>2, <2>4, <2>5, <2>6
<1> QED
  BY <1>1, <1>2, <1>3

\* A span that is out already is asked of this peer as well.
LEMMA CoherentScheduled ==
  ASSUME SyncInv, CoherentOK, NEW c \in Conns, ctx[c].pc # "idle", NEW k, ContextOK(c, k), Same(k, ctx[c]),
         ask_scheduled(c, k)
  PROVE  CoherentOK'
<1>1. PICK s \in {FirstSpan(blocks)} :
           \/ RequestObjects(c, [k EXCEPT !.first = IF k.force THEN @ ELSE Max({@, SpanEnd(s)})],
                             s.start_block_height, s.hashes)
           \/ request_chain(c, k, TRUE)
           \/ Put(c, Standby(k)) /\ UNCHANGED outstanding
  BY DEF ask_scheduled
<1>2. CASE RequestObjects(c, [k EXCEPT !.first = IF k.force THEN @ ELSE Max({@, SpanEnd(s)})],
                          s.start_block_height, s.hashes)
  BY <1>2, CoherentObjects
<1>3. CASE request_chain(c, k, TRUE)
  <2>1. TRUE \in BOOLEAN
    OBVIOUS
  <2> QED
    BY <1>3, <2>1, CoherentIds
<1>4. CASE Put(c, Standby(k)) /\ UNCHANGED outstanding
  <2>1. Standby(k).pc = "idle" /\ Standby(k).expect = "none"
    BY EndFields DEF CoherentOK, Coherent, Same
  <2> QED
    BY <1>4, <2>1, CoherentEnds
<1> QED
  BY <1>1, <1>2, <1>3, <1>4

\* The requests at the end of request_missing_objects.
LEMMA CoherentRequests ==
  ASSUME SyncInv, CoherentOK, NEW c \in Conns, request_objects(c) \/ request_ids(c)
  PROVE  CoherentOK'
<1>0. ContextOK(c, ctx[c]) /\ Same(ctx[c], ctx[c]) /\ ctx[c].pc # "idle"
  BY DEF SyncInv, ConnsOK, ContextsOK, Same, request_objects, request_ids, At
<1>1. CASE request_ids(c)
  <2>1. \/ UNCHANGED outstanding /\ (Put(c, StandbyCalled(ctx[c])) \/ Put(c, SetNormal(ctx[c])))
        \/ request_chain(c, ctx[c], FALSE)
    BY <1>1 DEF request_ids
  <2>2. CASE UNCHANGED outstanding /\ (Put(c, StandbyCalled(ctx[c])) \/ Put(c, SetNormal(ctx[c])))
    <3>1. ctx[c].expect = "none"
      BY <1>0 DEF CoherentOK, Coherent
    <3> QED
      BY <1>0, <2>2, <3>1, EndFields, CoherentEnds
  <2>3. CASE request_chain(c, ctx[c], FALSE)
    <3>1. FALSE \in BOOLEAN
      OBVIOUS
    <3> QED
      BY <1>0, <2>3, <3>1, CoherentIds
  <2> QED
    BY <2>1, <2>2, <2>3
<1>2. CASE request_objects(c) /\ ask_scheduled(c, ctx[c])
  BY <1>0, <1>2, CoherentScheduled
<1>3. CASE request_objects(c) /\ ~ask_scheduled(c, ctx[c])
  <2>1. PICK k \in {skip_unneeded_hashes(c, ctx[c], FALSE)} : \E r \in {Reservable(c, k)} :
          nothing_to_ask(c, k) \/ reserve_and_request(c, k, r) \/ ask_scheduled(c, k) \/ no_span(c, k)
    BY <1>3 DEF request_objects
  <2>2. ContextOK(c, k) /\ Same(k, ctx[c])
    <3>1. k = skip_unneeded_hashes(c, ctx[c], TRUE) \/ k = skip_unneeded_hashes(c, ctx[c], FALSE)
      OBVIOUS
    <3> QED
      BY <1>0, <3>1, SkipOK, SkipSame DEF Advances
  <2>3. CASE nothing_to_ask(c, k) \/ no_span(c, k)
    BY <1>0, <2>2, <2>3, CoherentNothing
  <2>4. ASSUME NEW r, reserve_and_request(c, k, r) PROVE CoherentOK'
    <3>1. RequestObjects(c, [k EXCEPT !.first = r.start + Len(r.ids)], r.start, r.ids)
      BY <2>4 DEF reserve_and_request
    <3> QED
      BY <1>0, <2>2, <3>1, CoherentObjects
  <2>5. CASE ask_scheduled(c, k)
    BY <1>0, <2>2, <2>5, CoherentScheduled
  <2> QED
    BY <2>1, <2>3, <2>4, <2>5
<1> QED
  BY <1>1, <1>2, <1>3

\* Answers.
LEMMA CoherentAnswers ==
  ASSUME SyncInv, CoherentOK, NEW c \in Conns,
         objects_received(c) \/ chain_received(c) \/ chain_accepted(c)
  PROVE  CoherentOK'
<1>0. ContextOK(c, ctx[c]) /\ Coherent(ctx[c], outstanding[c])
  BY DEF SyncInv, ConnsOK, ContextsOK, CoherentOK
<1>1. CASE objects_received(c)
  <2>1. PICK m : m = Head(wire[c])
    OBVIOUS
  <2>2. PICK k : k = [ctx[c] EXCEPT !.expect = "none", !.timer = "unset", !.last_known = m.last, !.pc = "try"]
    OBVIOUS
  <2>3. Put(c, k) /\ outstanding' = [outstanding EXCEPT ![c] = NoRequest] /\ ctx[c].expect = "objects"
    BY <1>1, <2>1, <2>2 DEF objects_received
  <2>4. k.expect = "none" /\ k.pc = "try" /\ k.state = "synchronizing"
    BY <1>0, <2>2, <2>3 DEF ContextOK, ContextType, Coherent
  <2>5. Coherent(k, NoRequest)
    BY <2>4 DEF Coherent
  <2> QED
    BY <2>3, <2>5, CoherentPut
<1>2. CASE chain_received(c)
  <2>1. PICK m : m = Head(wire[c])
    OBVIOUS
  <2>2. PICK k : k = [ctx[c] EXCEPT !.expect = "none", !.timer = "unset", !.entry = TRUE,
                              !.last_response_height = m.last, !.first = Max({1, m.start}),
                              !.expected_first = m.start, !.expected_last = m.last,
                              !.known = ChainHas(c, m.start), !.pc = "scan"]
    OBVIOUS
  <2>3. Put(c, k) /\ UNCHANGED outstanding /\ ctx[c].expect = "chain"
    BY <1>2, <2>1, <2>2 DEF chain_received, queueVars
  <2>4. k.expect = "none" /\ k.pc = "scan" /\ k.state = "synchronizing"
    BY <1>0, <2>2, <2>3 DEF ContextOK, ContextType, Coherent
  <2>5. Coherent(k, outstanding[c])
    BY <1>0, <2>3, <2>4 DEF Coherent
  <2> QED
    BY <2>3, <2>5, CoherentStep
<1>3. CASE chain_accepted(c)
  <2>1. PICK force : Put(c, [ctx[c] EXCEPT !.refresh = FALSE, !.known = FALSE, !.pc = "flush", !.force = force])
    BY <1>3 DEF chain_accepted
  <2>2. PICK k : k = [ctx[c] EXCEPT !.refresh = FALSE, !.known = FALSE, !.pc = "flush", !.force = force]
    OBVIOUS
  <2>3. ctx[c].pc # "idle" /\ UNCHANGED outstanding
    BY <1>3 DEF chain_accepted, At, queueVars
  <2>4. Same(k, ctx[c]) /\ k.pc # "chain"
    BY <1>0, <2>2 DEF Same, ContextOK, ContextType
  <2> QED
    BY <2>1, <2>2, <2>3, <2>4, CoherentGoesOn
<1> QED
  BY <1>1, <1>2, <1>3

\* Timers and callbacks.
LEMMA CoherentTimers ==
  ASSUME SyncInv, CoherentOK, NEW c \in Conns,
         kick_idle(c) \/ check_standby(c) \/ timed_sync(c) \/ peer_closes(c) \/ on_connection_close(c)
  PROVE  CoherentOK'
<1>0. ContextOK(c, ctx[c]) /\ Coherent(ctx[c], outstanding[c])
  BY DEF SyncInv, ConnsOK, ContextsOK, CoherentOK
<1>1. CASE kick_idle(c)
  <2>1. PICK k : k = [ctx[c] EXCEPT !.timer = "expired", !.idle_notification = TRUE, !.callbacks = @ + 1]
    OBVIOUS
  <2>2. Put(c, k) /\ UNCHANGED outstanding /\ ctx[c].pc = "idle"
    BY <1>1, <2>1 DEF kick_idle, Idle, At, queueVars
  <2>3. k.pc = ctx[c].pc /\ k.timer = "expired" /\ k.expect = ctx[c].expect /\ k.state = ctx[c].state
    BY <1>0, <2>1 DEF ContextOK, ContextType
  <2>4. Coherent(k, outstanding[c])
    BY <1>0, <2>2, <2>3 DEF Coherent
  <2> QED
    BY <2>2, <2>4, CoherentStep
<1>2. CASE check_standby(c) \/ peer_closes(c)
  <2>1. PICK k : k \in {[ctx[c] EXCEPT !.callbacks = @ + 1], [ctx[c] EXCEPT !.conn = "closing"]} /\ Put(c, k)
    BY <1>2 DEF check_standby, peer_closes
  <2>2. UNCHANGED outstanding
    BY <1>2 DEF check_standby, peer_closes, queueVars
  <2>3. Same(k, ctx[c]) /\ k.pc = ctx[c].pc /\ k.first = ctx[c].first /\ k.last_response_height = ctx[c].last_response_height
    BY <1>0, <2>1 DEF Same, ContextOK, ContextType
  <2>4. Coherent(k, outstanding[c])
    BY <1>0, <2>3 DEF Coherent, Same, NoneNeeded
  <2> QED
    BY <2>1, <2>2, <2>4, CoherentStep
<1>3. CASE timed_sync(c)
  <2>1. /\ UNCHANGED outstanding /\ ctx[c].pc = "idle" /\ ctx[c].state # "synchronizing"
        /\ Put(c, SetNormal(ctx[c])) \/ Put(c, Wanted(ctx[c]))
    BY <1>3 DEF timed_sync, Idle, At, queueVars
  <2>2. ctx[c].expect = "none" /\ outstanding[c] = NoRequest
    BY <1>0, <2>1 DEF Coherent
  <2>3. Wanted(ctx[c]).pc = "idle" /\ Wanted(ctx[c]).expect = "none"
    BY <1>0, <2>1, <2>2 DEF Wanted, ContextOK, ContextType
  <2>4. SetNormal(ctx[c]).pc = "idle" /\ SetNormal(ctx[c]).expect = "none"
    BY <1>0, <2>2, EndFields
  <2>5. Coherent(SetNormal(ctx[c]), outstanding[c]) /\ Coherent(Wanted(ctx[c]), outstanding[c])
    BY <2>2, <2>3, <2>4 DEF Coherent
  <2> QED
    BY <2>1, <2>5, CoherentStep
<1>4. CASE on_connection_close(c)
  <2>1. PICK k : k = [NewContext EXCEPT !.conn = "closed", !.kicked = ctx[c].kicked]
    OBVIOUS
  <2>2. Put(c, k) /\ outstanding' = [outstanding EXCEPT ![c] = NoRequest]
    BY <1>4, <2>1 DEF on_connection_close
  <2>3. k.pc = "idle" /\ k.expect = "none"
    BY <2>1 DEF NewContext
  <2>4. Coherent(k, NoRequest)
    BY <2>3 DEF Coherent
  <2> QED
    BY <2>2, <2>4, CoherentPut
<1> QED
  BY <1>1, <1>2, <1>3, <1>4

\* The callbacks that do not drop the connection.
LEMMA CoherentCalls ==
  ASSUME SyncInv, CoherentOK, NEW c \in Conns, callback_kicks(c) \/ callback_resumes(c)
  PROVE  CoherentOK'
<1>0. Coherent(ctx[c], outstanding[c])
  BY DEF CoherentOK
<1>1. PICK j : j = Called(c)
  OBVIOUS
<1>2. ContextOK(c, j) /\ Same(j, ctx[c]) /\ j.pc = "idle" /\ ctx[c].pc = "idle" /\ ContextOK(c, ctx[c])
  <2>1. ContextOK(c, j) /\ j.pc = "idle" /\ ctx[c].pc = "idle" /\ ContextOK(c, ctx[c])
    BY <1>1, CalledOK DEF callback_kicks, callback_resumes
  <2> QED
    BY <1>1, <2>1 DEF Called, Same, ContextOK, ContextType
<1>3. CASE callback_kicks(c)
  <2>1. PICK k : k = [j EXCEPT !.timer = "unset", !.expect = "none", !.refresh = FALSE, !.kicked = TRUE, !.pc = "try"]
    OBVIOUS
  <2>2. Put(c, k) /\ outstanding' = [outstanding EXCEPT ![c] = NoRequest] /\ ctx[c].state = "synchronizing"
    BY <1>1, <1>3, <2>1 DEF callback_kicks, Kicked
  <2>3. k.pc = "try" /\ k.expect = "none" /\ k.state = "synchronizing"
    BY <1>2, <2>1, <2>2 DEF Same, ContextOK, ContextType
  <2>4. Coherent(k, NoRequest)
    BY <2>3 DEF Coherent
  <2> QED
    BY <2>2, <2>4, CoherentPut
<1>4. CASE callback_resumes(c)
  <2>1. UNCHANGED outstanding
    BY <1>4 DEF callback_resumes, queueVars
  <2>2. CASE /\ ctx[c].state = "synchronizing" /\ ctx[c].timer = "unset"
             /\ Put(c, [j EXCEPT !.first = ctx[c].last_response_height + 1, !.timer = "set", !.expect = "chain"])
    <3>1. PICK k : k = [j EXCEPT !.first = ctx[c].last_response_height + 1, !.timer = "set", !.expect = "chain"]
      OBVIOUS
    <3>2. k.pc = "idle" /\ k.timer = "set" /\ k.expect = "chain" /\ k.state = "synchronizing"
      BY <1>2, <2>2, <3>1 DEF Same, ContextOK, ContextType
    <3>3. Coherent(k, outstanding[c])
      BY <1>0, <2>2, <3>2 DEF Coherent
    <3> QED
      BY <2>1, <2>2, <3>1, <3>3, CoherentStep
  <2>3. CASE ctx[c].state = "standby" /\ Put(c, [j EXCEPT !.state = "synchronizing", !.pc = "try"])
    <3>1. PICK k : k = [j EXCEPT !.state = "synchronizing", !.pc = "try"]
      OBVIOUS
    <3>2. k.pc = "try" /\ k.expect = ctx[c].expect /\ k.state = "synchronizing"
      BY <1>2, <3>1 DEF Same, ContextOK, ContextType
    <3>3. Coherent(k, outstanding[c])
      BY <1>0, <2>3, <3>2 DEF Coherent
    <3> QED
      BY <2>1, <2>3, <3>1, <3>3, CoherentStep
  <2>4. CASE Put(c, j)
    BY <1>2, <2>1, <2>4, CoherentGoesOn
  <2> QED
    BY <1>1, <1>4, <2>2, <2>3, <2>4 DEF callback_resumes
<1> QED
  BY <1>3, <1>4

\* Every step keeps it.
LEMMA NextCoherent == SyncInv /\ CoherentOK /\ [SyncNext]_syncVars => CoherentOK'
<1> SUFFICES ASSUME SyncInv, CoherentOK, [SyncNext]_syncVars PROVE CoherentOK'
  OBVIOUS
<1>1. ASSUME NEW c \in Conns, Handles(c) PROVE CoherentOK'
  <2>1. CASE chain_mismatch(c)
    BY <2>1, CoherentDrop DEF chain_mismatch
  <2> QED
    BY <1>1, <2>1, CoherentAdds, CoherentRefuse, CoherentCheck, CoherentRequests, CoherentAnswers DEF Handles
<1>2. ASSUME NEW c \in Conns, Begins(c) PROVE CoherentOK'
  <2>1. CASE objects_refused(c) \/ chain_refused(c)
    BY <2>1, CoherentDrop DEF objects_refused, chain_refused
  <2> QED
    BY <1>2, <2>1, CoherentAnswers DEF Begins
<1>3. ASSUME NEW c \in Conns, Calls(c) PROVE CoherentOK'
  <2>1. CASE callback_drops(c)
    BY <2>1, CoherentDrop DEF callback_drops
  <2> QED
    BY <1>3, <2>1, CoherentCalls DEF Calls
<1>4. ASSUME NEW c \in Conns, Works(c) \/ kick_idle(c) \/ peer_closes(c) PROVE CoherentOK'
  BY <1>1, <1>2, <1>3, <1>4, CoherentTimers DEF Works
<1>5. CASE span_overdue \/ SyncDone \/ UNCHANGED syncVars
  <2>1. UNCHANGED <<ctx, outstanding>>
    BY <1>5 DEF span_overdue, SyncDone, syncVars, queueVars
  <2> QED
    BY <2>1 DEF CoherentOK, Coherent, NoneNeeded
<1> QED
  BY <1>4, <1>5 DEF SyncNext

\* At first nobody waits for an answer.
LEMMA InitCoherent == SyncInit => CoherentOK
<1> SUFFICES ASSUME SyncInit PROVE CoherentOK
  OBVIOUS
<1>1. outstanding = [c \in Conns |-> NoRequest] /\ \A c \in Conns : ctx[c] = NewContext
  BY DEF SyncInit, QueueInit
<1> QED
  BY <1>1 DEF CoherentOK, Coherent, NewContext

-----------------------------------------------------------------------------
(* The theorems *)

\* The invariant holds at first: every connection awaits a callback.
LEMMA InitSyncInv == SyncInit => SyncInv
<1> SUFFICES ASSUME SyncInit PROVE SyncInv
  OBVIOUS
<1>1. QueueOK
  BY InitQueueInv, SplitQueueInv DEF SyncInit, QueueInit, QueueOK, SpansOK
<1>2. WireOK
  BY DEF SyncInit, WireOK
<1>3. ConnsOK
  <2>1. \A c \in Conns : ctx[c] = NewContext
    BY DEF SyncInit
  <2>2. ContextsOK
    BY <2>1, NewContextOK DEF SyncInit, ContextsOK, ContextOK
  <2>3. \A c \in Conns : ctx[c].pc = "idle" /\ ctx[c].callbacks = 1
    BY <2>1 DEF NewContext
  <2>4. LockOK /\ HandOK
    BY <2>3 DEF SyncInit, LockOK, HandOK, Locking, Holding
  <2>5. AwakeOK
    BY <2>3 DEF AwakeOK, Awake
  <2> QED
    BY <2>2, <2>4, <2>5 DEF ConnsOK
<1>4. ChainOK
  <2>1. main_chain = << >> /\ main_chain \in Seq(Hashes) /\ Len(main_chain) = 0 /\ ToSet(main_chain) = {}
    BY DEF SyncInit, ToSet
  <2>2. PICK c \in Conns : TRUE
    BY SyncAssumption
  <2>3. Prefix(main_chain, c) /\ Len(main_chain) <= Tip[c]
    BY <2>1, Constants DEF Prefix
  <2>4. main_chain = SubSeq(PeerChain[c], 1, Len(main_chain))
    BY <2>1, <2>3, PrefixIsSubSeq
  <2> QED
    BY <2>1, <2>3, <2>4 DEF ChainOK, ChainOrdered
<1> QED
  BY <1>1, <1>2, <1>3, <1>4 DEF SyncInv

\* Every step keeps it.
LEMMA NextSyncInv == SyncInv /\ [SyncNext]_syncVars => SyncInv'
<1> SUFFICES ASSUME SyncInv, [SyncNext]_syncVars PROVE SyncInv'
  OBVIOUS
<1>1. ASSUME NEW c \in Conns, Handles(c) PROVE SyncInv'
  BY <1>1, TryLockStep, IgnoreStep, TakeStep, StopStep, RequeryStep, AddStep, RefuseStep, EndRefusedStep, FlushStep,
     CheckStep, RequestStep, RequestNothingStep, RequestIdsStep, ScanStep DEF Handles
<1>2. ASSUME NEW c \in Conns, Begins(c) PROVE SyncInv'
  BY <1>2, ObjectsStep, RefusedAnswerStep, ChainStep DEF Begins
<1>3. ASSUME NEW c \in Conns, Calls(c) PROVE SyncInv'
  BY <1>3, KickStep, ResumeStep DEF Calls
<1>4. ASSUME NEW c \in Conns, Works(c) \/ kick_idle(c) \/ peer_closes(c) PROVE SyncInv'
  BY <1>1, <1>2, <1>3, <1>4, TimerStep, TimedSyncStep, CloseStep, PeerClosesStep DEF Works
<1>5. ASSUME UNCHANGED <<spanVars, main_chain, sync_lock, hand, ctx, wire, left>> PROVE SyncInv'
  BY <1>5, SameQueue, SameWire, SameConns, SameChain DEF SyncInv
<1>6. CASE span_overdue
  BY <1>5, <1>6 DEF span_overdue, queueVars, spanVars
<1>7. CASE SyncDone \/ UNCHANGED syncVars
  BY <1>5, <1>7 DEF SyncDone, syncVars, queueVars, spanVars
<1> QED
  BY <1>4, <1>6, <1>7 DEF SyncNext

\* The invariant of the download.
THEOREM SyncInvariant == SyncSpec => []SyncInv
BY InitSyncInv, NextSyncInv, PTL DEF SyncSpec

\* One owner of m_sync_lock, who has a span in hand.
LEMMA SyncTyped ==
  ASSUME SyncInv
  PROVE  SyncTypeOK
<1> DEFINE H == {c \in Conns : ctx[c].pc \in {"verify", "failed"}}
<1>1. ConnsOK
  BY DEF SyncInv
<1>2. ctx \in [Conns -> ContextType]
  BY <1>1 DEF ConnsOK, ContextsOK, ContextOK
<1>3. ASSUME NEW S, \A x, y \in S : x = y
      PROVE  Cardinality(S) = IF S = {} THEN 0 ELSE 1
  <2>1. CASE S = {}
    BY <2>1, FS_EmptySet
  <2>2. CASE S # {}
    <3>1. PICK x \in S : TRUE
      BY <2>2
    <3>2. S = {x}
      BY <1>3, <3>1
    <3> QED
      BY <2>2, <3>2, FS_Singleton
  <2> QED
    BY <2>1, <2>2
<1>4. Cardinality(sync_lock) <= 1
  BY <1>1, <1>3 DEF ConnsOK, LockOK
<1>5. \A x, y \in H : x = y
  BY <1>1 DEF ConnsOK, LockOK, Locking
<1>6. \A s, t \in hand : s = t
  BY <1>1 DEF ConnsOK, LockOK
<1>7. hand = {} <=> H = {}
  BY <1>1 DEF ConnsOK, LockOK, Holding
<1> HIDE DEF H
<1>8. Cardinality(hand) = Cardinality(H)
  <2>1. Cardinality(hand) = IF hand = {} THEN 0 ELSE 1
    BY <1>3, <1>6
  <2>2. Cardinality(H) = IF H = {} THEN 0 ELSE 1
    BY <1>3, <1>5
  <2> QED
    BY <1>7, <2>1, <2>2
<1> QED
  BY <1>1, <1>2, <1>4, <1>8 DEF SyncTypeOK, ConnsOK, LockOK, Locking, H

\* Every context keeps its type; m_sync_lock has one owner, and only the owner
\* has a span in hand.
THEOREM SyncTypeCorrect == SyncSpec => []SyncTypeOK
<1>1. SyncInv => SyncTypeOK
  BY SyncTyped
<1> QED
  BY <1>1, SyncInvariant, PTL

\* However many peers deliver, and whoever adds what they delivered: the main
\* chain is a prefix of a peer's chain, without a block that fails.
THEOREM ChainIsOrdered == SyncSpec => []ChainOrdered
<1>1. SyncInv => ChainOrdered
  BY DEF SyncInv, ChainOK
<1> QED
  BY <1>1, SyncInvariant, PTL

\* A connection that synchronizes and is in no handler has a timer or a
\* callback to wake it, unless its handler met a bad span of another peer, and a
\* handler that comes to the end of request_missing_objects meets its final
\* condition, whichever of the ways out of try_add_next_blocks it took: for any
\* number of peers.
THEOREM NobodyForgotten == SyncSpec => []NotForgotten
<1>1. SyncInv /\ CoherentOK => NotForgotten
  <2> SUFFICES ASSUME SyncInv, CoherentOK, NEW c \in Conns
               PROVE  /\ Idle(c) /\ ctx[c].state = "synchronizing" /\ c \notin left =>
                           ctx[c].timer # "unset" \/ ctx[c].callbacks > 0
                      /\ At(c, "chain") => /\ NoneNeeded(ctx[c]) /\ outstanding[c] = NoRequest
                                           /\ ctx[c].last_response_height < Remote(c)
    BY DEF NotForgotten
  <2>1. Idle(c) /\ ctx[c].state = "synchronizing" /\ c \notin left => ctx[c].timer # "unset" \/ ctx[c].callbacks > 0
    BY DEF SyncInv, ConnsOK, AwakeOK, Awake, Idle, At
  <2>2. At(c, "chain") => NoneNeeded(ctx[c]) /\ outstanding[c] = NoRequest
    BY DEF CoherentOK, Coherent, At
  <2>3. ContextOK(c, ctx[c])
    BY DEF SyncInv, ConnsOK, ContextsOK
  <2>4. ctx[c].last_response_height < Remote(c)
    BY <2>3, ContextFields, Constants DEF Remote
  <2> QED
    BY <2>1, <2>2, <2>4
<1> QED
  BY <1>1, SyncInvariant, InitCoherent, NextCoherent, PTL DEF SyncSpec

\* The indexes of the queue stay exact under the calls of all handlers.
THEOREM SyncKeepsIndexes == SyncSpec => []QueueIndexesExact
<1>1. SyncInv => QueueIndexesExact
  BY DEF SyncInv, QueueOK, IndexInv, QueueIndexesExact
<1> QED
  BY <1>1, SyncInvariant, PTL
=============================================================================
