-------------------------- MODULE BlockQueueProofs --------------------------
(***************************************************************************)
(* For any set of peers, chains and pruning seeds, the indexes of the      *)
(* download queue agree with its spans and no block is scheduled twice.    *)
(* The invariant is inductive only as a whole: that reserve_span keeps the *)
(* spans disjoint needs RequestedExact, and that erase_block may clear the *)
(* hashes of one span without harming another needs SpansDisjoint.         *)
(***************************************************************************)
EXTENDS BlockQueue, MinMaxLemmas, TLAPS

QueueInv ==
  /\ QueueTypeOK
  /\ OneSpanPerStart
  /\ RequestedExact
  /\ SpansDisjoint
  /\ HaveExact

-----------------------------------------------------------------------------
(* The position returned by SkipRequested is in range.                       *)
LEMMA SkipRequestedRange ==
  ASSUME NEW ids \in Seq(Hashes), NEW k \in 1..(Len(ids) + 1)
  PROVE  SkipRequested(ids, k) \in k..(Len(ids) + 1)
<1>1. DEFINE S == {i \in k..(Len(ids) + 1) : i = Len(ids) + 1 \/ ids[i] \notin requested_hashes}
<1>2. S \subseteq Nat /\ Len(ids) + 1 \in S
  OBVIOUS
<1>3. Min(S) \in S
  BY <1>2, MinNat
<1>4. QED BY <1>3 DEF SkipRequested
(* What reserve_span chooses: blocks of the peer's list, none of them        *)
(* requested already, and more than none only when it returns a start.      *)
LEMMA ChooseSpanFresh ==
  ASSUME NEW c \in Conns, NEW ids \in Seq(Hashes), NEW last \in Nat,
         NEW max_blocks \in Nat, NEW sp \in BOOLEAN,
         requested_hashes \subseteq Hashes,
         ChooseSpan(c, ids, last, max_blocks, sp).ids # <<>>
  PROVE  LET span == ChooseSpan(c, ids, last, max_blocks, sp)
         IN /\ span \in RequestType
            /\ span.start \in Nat
            /\ ToSet(span.ids) \cap requested_hashes = {}
            /\ ToSet(span.ids) \subseteq Hashes
            /\ span.start + Len(span.ids) <= last + 1
<1> DEFINE base  == last - Len(ids) + 1
           i1    == SkipRequested(ids, 1)
           start1 == base + i1 - 1
           next  == NextUnpruned(c, start1)
           start2 == IF ~sp /\ next > start1 /\ next < start1 + StripeSize
                     THEN next ELSE start1
           i     == SkipRequested(ids, start2 - base + 1)
           start3 == base + i - 1
           n     == SpanLength(c, ids, i, start3, max_blocks, sp)
<1>1. /\ max_blocks # 0 /\ Len(ids) <= last /\ ~(start2 >= Len(ids) + base)
      /\ ChooseSpan(c, ids, last, max_blocks, sp) = [start |-> start3, ids |-> SubSeq(ids, i, i + n - 1)]
  BY DEF ChooseSpan, NoRequest
<1>2. base \in Nat /\ base >= 1
  BY <1>1
<1>3. i1 \in 1..(Len(ids) + 1)
  BY SkipRequestedRange
<1>4. start1 \in Nat /\ start1 >= base
  BY <1>2, <1>3
<1>5. next \in Nat
  <2> DEFINE later == {h \in PeerStored[c] : h >= start1}
  <2>1. later \subseteq Nat
    BY HeightsAssumption, PeersAssumption DEF Heights
  <2>2. CASE later = {}
    BY <2>2, <1>4 DEF NextUnpruned
  <2>3. CASE later # {}
    <3>1. Min(later) \in later
      BY <2>1, <2>3, MinNat
    <3>2. next = Min(later)
      BY <2>3 DEF NextUnpruned
    <3>3. QED BY <3>1, <3>2, <2>1
  <2>4. QED BY <2>2, <2>3
<1>6. start2 \in Nat /\ start2 >= base /\ start2 < Len(ids) + base
  BY <1>1, <1>2, <1>4, <1>5, PeersAssumption
<1>7. start2 - base + 1 \in 1..(Len(ids) + 1)
  BY <1>6, <1>2
<1>8. i \in 1..(Len(ids) + 1)
  BY <1>7, SkipRequestedRange
<1>9. start3 \in Nat
  BY <1>8, <1>2
<1>10. /\ n \in 0..max_blocks
       /\ \A k \in 0..(n - 1) : i + k <= Len(ids) /\ MayTake(c, ids, i + k, start3 + k, start3, sp)
  <2> DEFINE S == {m \in 0..max_blocks : \/ m = max_blocks
                                         \/ i + m > Len(ids)
                                         \/ ~MayTake(c, ids, i + m, start3 + m, start3, sp)}
  <2>1. S \subseteq Nat /\ max_blocks \in S
    OBVIOUS
  <2>2. n = Min(S)
    BY DEF SpanLength
  <2>3. n \in S /\ \A y \in S : n <= y
    BY <2>1, <2>2, MinNat
  <2> HIDE DEF n, i, start3
  <2>4. ASSUME NEW k \in 0..(n - 1)
        PROVE i + k <= Len(ids) /\ MayTake(c, ids, i + k, start3 + k, start3, sp)
    <3>1. k \in 0..max_blocks /\ k < n
      BY <2>3, <2>1
    <3>2. k \notin S
      BY <3>1, <2>3
    <3>3. i + k \in Int /\ Len(ids) \in Int
      BY <1>8
    <3>4. QED BY <3>1, <3>2, <3>3
  <2>5. QED BY <2>3, <2>4
<1> HIDE DEF n, i, start3
<1>11. \A k \in i..(i + n - 1) : k \in 1..Len(ids) /\ ids[k] \notin requested_hashes
  <2>1. TAKE k \in i..(i + n - 1)
  <2>2. k - i \in 0..(n - 1) /\ i + (k - i) = k
    BY <1>8, <1>10
  <2>3. k <= Len(ids) /\ MayTake(c, ids, k, start3 + (k - i), start3, sp)
    BY <2>2, <1>10
  <2>4. QED BY <2>2, <2>3, <1>8 DEF MayTake
<1> DEFINE sub == SubSeq(ids, i, i + n - 1)
<1>12. /\ sub \in Seq(Hashes) /\ Len(sub) = n /\ i + n - 1 <= Len(ids)
       /\ \A j \in 1..Len(sub) : sub[j] \in Hashes /\ sub[j] \notin requested_hashes
  <2>1. i \in Nat /\ n \in Nat /\ i >= 1
    BY <1>8, <1>10
  <2>2. i + n - 1 <= Len(ids)
    <3>1. CASE n = 0
      BY <3>1, <1>8, <2>1
    <3>2. CASE n # 0
      <4>1. i + n - 1 \in i..(i + n - 1)
        BY <3>2, <2>1
      <4>2. QED BY <4>1, <1>11
    <3>3. QED BY <3>1, <3>2
  <2>3. /\ Len(sub) = n
        /\ \A j \in 1..n : sub[j] = ids[i + j - 1]
    BY <2>1, <2>2
  <2>4. \A j \in 1..n : i + j - 1 \in i..(i + n - 1)
    BY <2>1
  <2>5. \A j \in 1..n : ids[i + j - 1] \in Hashes /\ ids[i + j - 1] \notin requested_hashes
    BY <2>4, <1>11
  <2>6. sub \in Seq(Hashes)
    BY <2>1, <2>2, <1>11
  <2>7. QED BY <2>2, <2>3, <2>5, <2>6
<1>13. ToSet(sub) \cap requested_hashes = {} /\ ToSet(sub) \subseteq Hashes
  BY <1>12 DEF ToSet
<1>14. start3 + Len(sub) <= last + 1
  <2>1. start3 = base + i - 1 /\ i \in Nat /\ n \in Nat /\ Len(ids) \in Nat
    BY <1>8, <1>10 DEF start3
  <2>2. base = last - Len(ids) + 1
    OBVIOUS
  <2>3. Len(sub) = n /\ i + n - 1 <= Len(ids)
    BY <1>12
  <2> HIDE DEF base, sub
  <2> QED
    BY <1>2, <2>1, <2>2, <2>3
<1>15. QED BY <1>1, <1>9, <1>12, <1>13, <1>14 DEF RequestType, n, i, start3
-----------------------------------------------------------------------------
(* The conjuncts of the invariant that speak of the queue alone.             *)
IndexInv ==
  /\ blocks \subseteq SpanType
  /\ requested_hashes \subseteq Hashes
  /\ have_blocks \in [Hashes -> Nat \cup {NoHeight}]
  /\ OneSpanPerStart
  /\ RequestedExact
  /\ SpansDisjoint
  /\ HaveExact

(* erase_block, applied to any set of spans, leaves the indexes exact: what  *)
(* the erased spans registered is forgotten, what the others registered is  *)
(* kept.                                                                    *)
LEMMA EraseKeepsIndex ==
  ASSUME IndexInv, NEW S \in SUBSET blocks, EraseBlocks(S)
  PROVE  IndexInv'
<1> USE DEF IndexInv
<1>1. /\ blocks' = blocks \ S
      /\ requested_hashes' = requested_hashes \ HashesOf(S)
      /\ have_blocks' = [h \in Hashes |-> IF h \in HashesOf(S) THEN NoHeight ELSE have_blocks[h]]
  BY DEF EraseBlocks
<1>2. (blocks \subseteq SpanType)' /\ (requested_hashes \subseteq Hashes)'
  BY <1>1
<1>3. (have_blocks \in [Hashes -> Nat \cup {NoHeight}])'
  BY <1>1
<1>4. OneSpanPerStart' /\ SpansDisjoint'
  BY <1>1 DEF OneSpanPerStart, SpansDisjoint
<1>5. RequestedExact'
  <2>1. HashesOf(blocks \ S) = HashesOf(blocks) \ HashesOf(S)
    BY DEF HashesOf, SpansDisjoint
  <2>2. QED BY <2>1, <1>1 DEF RequestedExact, HashesOf
<1>6. HaveExact'
  <2>1. SUFFICES ASSUME NEW h \in Hashes
        PROVE \/ /\ have_blocks'[h] = NoHeight
                 /\ \A s \in blocks' : Filled(s) => h \notin ToSet(s.hashes)
              \/ \E s \in blocks' :
                   /\ Filled(s)
                   /\ \E i \in 1..Len(s.hashes) :
                        /\ s.hashes[i] = h
                        /\ have_blocks'[h] = s.start_block_height + i - 1
    BY DEF HaveExact, Filled
  <2>2. CASE h \in HashesOf(S)
    <3>1. PICK t \in S : h \in ToSet(t.hashes)
      BY <2>2 DEF HashesOf
    <3>2. \A s \in blocks' : h \notin ToSet(s.hashes)
      BY <3>1, <1>1 DEF SpansDisjoint
    <3>3. QED BY <3>2, <2>2, <1>1
  <2>3. CASE h \notin HashesOf(S)
    <3>1. have_blocks'[h] = have_blocks[h]
      BY <2>3, <1>1
    <3>2. CASE have_blocks[h] = NoHeight /\ \A s \in blocks : Filled(s) => h \notin ToSet(s.hashes)
      BY <3>1, <3>2, <1>1
    <3>3. CASE \E s \in blocks : /\ Filled(s)
                                 /\ \E i \in 1..Len(s.hashes) :
                                      /\ s.hashes[i] = h
                                      /\ have_blocks[h] = s.start_block_height + i - 1
      <4>1. PICK s \in blocks : /\ Filled(s)
                                /\ \E i \in 1..Len(s.hashes) :
                                     /\ s.hashes[i] = h
                                     /\ have_blocks[h] = s.start_block_height + i - 1
        BY <3>3
      <4>2. s.hashes \in Seq(Hashes)
        BY DEF SpanType
      <4>3. h \in ToSet(s.hashes)
        BY <4>1, <4>2 DEF ToSet
      <4>4. s \notin S
        BY <4>3, <2>3 DEF HashesOf
      <4>5. QED BY <4>1, <4>4, <3>1, <1>1
    <3>4. QED BY <3>2, <3>3 DEF HaveExact
  <2>4. QED BY <2>2, <2>3
<1>7. QED BY <1>2, <1>3, <1>4, <1>5, <1>6
(* A span that is not delivered yet, or that carries no hashes, does not     *)
(* concern have_blocks.                                                     *)
LEMMA SilentSpanKeepsHave ==
  ASSUME HaveExact, NEW x, ~Filled(x) \/ ToSet(x.hashes) = {},
         blocks' = blocks \cup {x}, have_blocks' = have_blocks
  PROVE  HaveExact'
<1>1. SUFFICES ASSUME NEW h \in Hashes
      PROVE \/ /\ have_blocks'[h] = NoHeight
               /\ \A s \in blocks' : Filled(s) => h \notin ToSet(s.hashes)
            \/ \E s \in blocks' :
                 /\ Filled(s)
                 /\ \E i \in 1..Len(s.hashes) :
                      /\ s.hashes[i] = h
                      /\ have_blocks'[h] = s.start_block_height + i - 1
  BY DEF HaveExact, Filled
<1>2. CASE have_blocks[h] = NoHeight /\ \A s \in blocks : Filled(s) => h \notin ToSet(s.hashes)
  BY <1>2
<1>3. CASE \E s \in blocks : /\ Filled(s)
                             /\ \E i \in 1..Len(s.hashes) :
                                  /\ s.hashes[i] = h
                                  /\ have_blocks[h] = s.start_block_height + i - 1
  BY <1>3
<1>4. QED BY <1>2, <1>3 DEF HaveExact

(* A delivery takes over the hashes of whatever span started at its height,  *)
(* whoever it was scheduled on, and registers them at their heights.        *)
LEMMA DeliveryKeepsIndex ==
  ASSUME IndexInv, NEW height \in Nat, NEW bcel \in Seq(Hashes), bcel # <<>>,
         NEW c \in Conns, add_filled_blocks(height, bcel, c)
  PROVE  IndexInv'
<1> USE DEF IndexInv
<1> DEFINE fresh == NewSpan(height, <<>>, bcel, Len(bcel), c)
<1>1. fresh \in SpanType /\ fresh.start_block_height = height /\ fresh.hashes = <<>> /\ fresh.blocks = bcel
  BY DEF NewSpan, SpanType
<1>2. CASE SpansAt(height) = {}
  <2>1. /\ blocks' = blocks \cup {fresh}
        /\ requested_hashes' = requested_hashes /\ have_blocks' = have_blocks
    BY <1>2 DEF add_filled_blocks
  <2>2. ToSet(fresh.hashes) = {}
    BY <1>1 DEF ToSet
  <2>3. blocks' \subseteq SpanType
    BY <2>1, <1>1
  <2>4. OneSpanPerStart'
    BY <2>1, <1>1, <1>2 DEF OneSpanPerStart, SpansAt
  <2>5. SpansDisjoint'
    BY <2>1, <2>2 DEF SpansDisjoint
  <2>6. RequestedExact'
    BY <2>1, <2>2 DEF RequestedExact, HashesOf
  <2>7. HaveExact'
    BY <2>1, <2>2, SilentSpanKeepsHave
  <2>8. QED BY <2>1, <2>3, <2>4, <2>5, <2>6, <2>7
<1>3. CASE SpansAt(height) # {}
  <2> DEFINE gone == CHOOSE s \in SpansAt(height) : TRUE
             new == NewSpan(height, gone.hashes, bcel, Len(bcel), c)
  <2>1. gone \in blocks /\ gone.start_block_height = height
    BY <1>3 DEF SpansAt
  <2>2. /\ blocks' = (blocks \ {gone}) \cup {new}
        /\ requested_hashes' = (requested_hashes \ ToSet(gone.hashes)) \cup ToSet(gone.hashes)
        /\ have_blocks' = [h \in Hashes |->
             IF h \in ToSet(gone.hashes)
             THEN height + FirstPosition(gone.hashes, h) - 1 ELSE have_blocks[h]]
    BY <1>3 DEF add_filled_blocks
  <2>3. gone.hashes \in Seq(Hashes)
    BY <2>1 DEF SpanType
  <2>4. /\ new \in SpanType /\ new.start_block_height = height
        /\ new.hashes = gone.hashes /\ new.blocks = bcel
    BY <2>3 DEF SpanType, NewSpan
  <2> HIDE DEF gone, new, fresh
  <2>5. blocks' \subseteq SpanType
    BY <2>2, <2>4
  <2>6. OneSpanPerStart'
    BY <2>1, <2>2, <2>4 DEF OneSpanPerStart
  <2>7. SpansDisjoint'
    BY <2>1, <2>2, <2>4 DEF SpansDisjoint
  <2>8. RequestedExact' /\ requested_hashes' \subseteq Hashes
    <3>1. HashesOf(blocks') = HashesOf(blocks)
      BY <2>1, <2>2, <2>4 DEF HashesOf
    <3>2. ToSet(gone.hashes) \subseteq requested_hashes
      BY <2>1 DEF RequestedExact, HashesOf
    <3>3. requested_hashes' = requested_hashes
      BY <3>2, <2>2
    <3>4. QED BY <3>1, <3>3 DEF RequestedExact, HashesOf
  <2>9. ASSUME NEW h \in ToSet(gone.hashes)
        PROVE  \E i \in 1..Len(gone.hashes) : gone.hashes[i] = h /\ FirstPosition(gone.hashes, h) = i
    <3> DEFINE S == {i \in 1..Len(gone.hashes) : gone.hashes[i] = h}
    <3>1. S \subseteq Nat /\ S # {}
      <4>1. PICK i \in DOMAIN gone.hashes : gone.hashes[i] = h
        BY DEF ToSet
      <4>2. i \in S
        BY <4>1, <2>3
      <4>3. S \subseteq Nat
        OBVIOUS
      <4>4. QED BY <4>2, <4>3
    <3>2. Min(S) \in S
      BY <3>1, MinNat
    <3>3. QED BY <3>2 DEF FirstPosition
  <2>10. ToSet(gone.hashes) \subseteq Hashes
    BY <2>3 DEF ToSet
  <2>11. (have_blocks \in [Hashes -> Nat \cup {NoHeight}])'
    <3>1. ASSUME NEW h \in ToSet(gone.hashes)
          PROVE height + FirstPosition(gone.hashes, h) - 1 \in Nat
      <4>1. PICK i \in 1..Len(gone.hashes) : FirstPosition(gone.hashes, h) = i
        BY <2>9
      <4>2. QED BY <4>1, <2>3
    <3>2. QED BY <3>1, <2>2
  <2>12. HaveExact'
    <3>1. SUFFICES ASSUME NEW h \in Hashes
          PROVE \/ /\ have_blocks'[h] = NoHeight
                   /\ \A s \in blocks' : Filled(s) => h \notin ToSet(s.hashes)
                \/ \E s \in blocks' :
                     /\ Filled(s)
                     /\ \E i \in 1..Len(s.hashes) :
                          /\ s.hashes[i] = h
                          /\ have_blocks'[h] = s.start_block_height + i - 1
      BY DEF HaveExact, Filled
    <3>2. CASE h \in ToSet(gone.hashes)
      <4>1. PICK i \in 1..Len(gone.hashes) : gone.hashes[i] = h /\ FirstPosition(gone.hashes, h) = i
        BY <2>9, <3>2
      <4>2. have_blocks'[h] = height + i - 1
        BY <2>2, <3>2, <4>1
      <4>3. new \in blocks' /\ Filled(new)
        BY <2>2, <2>4 DEF Filled
      <4>4. QED BY <4>1, <4>2, <4>3, <2>4
    <3>3. CASE h \notin ToSet(gone.hashes)
      <4>1. have_blocks'[h] = have_blocks[h]
        BY <3>3, <2>2
      <4>2. CASE have_blocks[h] = NoHeight /\ \A s \in blocks : Filled(s) => h \notin ToSet(s.hashes)
        BY <4>1, <4>2, <2>2, <2>4, <3>3
      <4>3. CASE \E s \in blocks : /\ Filled(s)
                                   /\ \E i \in 1..Len(s.hashes) :
                                        /\ s.hashes[i] = h
                                        /\ have_blocks[h] = s.start_block_height + i - 1
        <5>1. PICK s \in blocks : /\ Filled(s)
                                  /\ \E i \in 1..Len(s.hashes) :
                                       /\ s.hashes[i] = h
                                       /\ have_blocks[h] = s.start_block_height + i - 1
          BY <4>3
        <5>2. s.hashes \in Seq(Hashes)
          BY DEF SpanType
        <5>3. s # gone
          BY <5>1, <5>2, <3>3 DEF ToSet
        <5>4. QED BY <5>1, <5>3, <4>1, <2>2
      <4>4. QED BY <4>2, <4>3 DEF HaveExact
    <3>4. QED BY <3>2, <3>3
  <2>13. QED BY <2>5, <2>6, <2>7, <2>8, <2>11, <2>12
<1>4. QED BY <1>2, <1>3

(* A reservation registers only ids that no span held.                       *)
LEMMA ReserveKeepsIndex ==
  ASSUME IndexInv, NEW c \in Conns, NEW first \in Heights, NEW last \in Heights,
         NEW max_blocks \in 0..MaxSpan, NEW sp \in BOOLEAN,
         reserve_span(c, first, last, max_blocks, sp)
  PROVE  IndexInv' /\ \E span \in RequestType :
           /\ span.start \in Nat /\ span.ids # <<>> /\ outstanding' = [outstanding EXCEPT ![c] = span]
           /\ span.start + Len(span.ids) <= last + 1
           /\ blocks' = blocks \cup {NewSpan(span.start, span.ids, <<>>, Len(span.ids), c)}
<1> USE DEF IndexInv
<1> DEFINE needed == NeededObjects(c, first, last)
           span == ChooseSpan(c, needed, last, max_blocks, sp)
           new == NewSpan(span.start, span.ids, <<>>, Len(span.ids), c)
<1>1. /\ span.ids # <<>>
      /\ SpansAt(span.start) = {}
      /\ blocks' = blocks \cup {new}
      /\ requested_hashes' = requested_hashes \cup ToSet(span.ids)
      /\ outstanding' = [outstanding EXCEPT ![c] = span]
      /\ have_blocks' = have_blocks
      /\ first <= last
  BY DEF reserve_span
<1>2. first \in Nat /\ last \in Nat /\ max_blocks \in Nat
  BY HeightsAssumption, PeersAssumption DEF Heights
<1>3. needed \in Seq(Hashes)
  <2>1. \A i \in 1..(last - first + 1) : first + i - 1 \in Heights
    BY <1>1, <1>2, HeightsAssumption DEF Heights
  <2>2. \A i \in 1..(last - first + 1) : PeerChain[c][first + i - 1] \in Hashes
    BY <2>1, PeersAssumption
  <2>3. QED BY <1>1, <1>2, <2>2 DEF NeededObjects
<1> HIDE DEF needed
<1>4. /\ span \in RequestType /\ span.start \in Nat
      /\ ToSet(span.ids) \cap requested_hashes = {}
      /\ ToSet(span.ids) \subseteq Hashes
      /\ span.start + Len(span.ids) <= last + 1
  BY <1>1, <1>2, <1>3, ChooseSpanFresh
<1> HIDE DEF span
<1>5. span.ids \in Seq(Hashes)
  BY <1>4 DEF RequestType
<1>6. /\ new \in SpanType /\ new.hashes = span.ids /\ new.blocks = <<>>
      /\ new.start_block_height = span.start
  BY <1>4, <1>5 DEF SpanType, NewSpan
<1> HIDE DEF new
<1>7. blocks' \subseteq SpanType /\ requested_hashes' \subseteq Hashes
  BY <1>1, <1>4, <1>6
<1>8. OneSpanPerStart'
  BY <1>1, <1>6 DEF OneSpanPerStart, SpansAt
<1>9. RequestedExact'
  BY <1>1, <1>6 DEF RequestedExact, HashesOf
<1>10. SpansDisjoint'
  <2>1. \A s \in blocks : ToSet(s.hashes) \cap ToSet(new.hashes) = {}
    BY <1>4, <1>6 DEF RequestedExact, HashesOf
  <2>2. QED BY <2>1, <1>1 DEF SpansDisjoint
<1>11. HaveExact'
  <2>1. ~Filled(new)
    BY <1>6 DEF Filled
  <2>2. QED BY <2>1, <1>1, SilentSpanKeepsHave
<1>12. blocks' = blocks \cup {NewSpan(span.start, span.ids, <<>>, Len(span.ids), c)}
  BY <1>1 DEF new
<1>13. QED BY <1>1, <1>4, <1>7, <1>8, <1>9, <1>10, <1>11, <1>12

-----------------------------------------------------------------------------
(* The requests in flight name blocks, and a real height.                    *)
RequestsInv ==
  /\ outstanding \in [Conns -> RequestType]
  /\ \A c \in Conns : outstanding[c] # NoRequest =>
                       (outstanding[c].start \in Nat /\ outstanding[c].ids # <<>>)

\* The invariant is that of the indexes and that of the requests.
LEMMA SplitQueueInv == QueueInv <=> IndexInv /\ RequestsInv
BY DEF QueueInv, IndexInv, RequestsInv, QueueTypeOK

\* A step that leaves the queue leaves its indexes.
LEMMA UnchangedIndex ==
  ASSUME IndexInv, UNCHANGED <<blocks, requested_hashes, have_blocks>>
  PROVE  IndexInv'
<1>1. HaveExact'
  BY Zenon DEF IndexInv, HaveExact, Filled
<1>2. OneSpanPerStart' /\ RequestedExact' /\ SpansDisjoint'
  BY DEF IndexInv, OneSpanPerStart, RequestedExact, SpansDisjoint, HashesOf
<1>3. QED BY <1>1, <1>2 DEF IndexInv

\* The empty queue.
LEMMA InitQueueInv == QueueInit => QueueInv
<1>1. ASSUME QueueInit PROVE IndexInv
  BY <1>1 DEF QueueInit, IndexInv, OneSpanPerStart, RequestedExact, SpansDisjoint, HaveExact, HashesOf
<1>2. ASSUME QueueInit PROVE RequestsInv
  <2>1. NoRequest \in RequestType
    BY DEF NoRequest, RequestType, NoHeight
  <2>2. QED BY <1>2, <2>1 DEF QueueInit, RequestsInv
<1>3. QED BY <1>1, <1>2, SplitQueueInv

\* Every operation of the queue keeps the invariant.
LEMMA NextQueueInv == QueueInv /\ [QueueNext]_queueVars => QueueInv'
<1>1. SUFFICES ASSUME IndexInv, RequestsInv, [QueueNext]_queueVars
      PROVE  IndexInv' /\ RequestsInv'
  BY SplitQueueInv DEF QueueInv, IndexInv, RequestsInv, QueueTypeOK
<1> USE <1>1
<1>2. NoRequest \in RequestType
  BY DEF NoRequest, RequestType, NoHeight
<1>3. ASSUME NEW c \in Conns, NEW r \in RequestType, r = NoRequest \/ (r.start \in Nat /\ r.ids # <<>>),
             outstanding' = [outstanding EXCEPT ![c] = r]
      PROVE  RequestsInv'
  BY <1>3 DEF RequestsInv
<1>4. ASSUME NEW c \in Conns, NEW first \in Heights, NEW last \in Heights,
             NEW max_blocks \in 0..MaxSpan, NEW sp \in BOOLEAN,
             reserve_span(c, first, last, max_blocks, sp)
      PROVE  IndexInv' /\ RequestsInv'
  <2>1. IndexInv' /\ \E span \in RequestType :
          span.start \in Nat /\ span.ids # <<>> /\ outstanding' = [outstanding EXCEPT ![c] = span]
    BY <1>4, ReserveKeepsIndex
  <2>2. QED BY <2>1, <1>3
<1>5. ASSUME NEW c \in Conns, request_next_span(c)
      PROVE  IndexInv' /\ RequestsInv'
  <2> DEFINE s == FirstSpan(blocks)
             r == [start |-> s.start_block_height, ids |-> s.hashes]
  <2>1. /\ blocks # {} /\ s.hashes # <<>>
        /\ outstanding' = [outstanding EXCEPT ![c] = r]
        /\ blocks' = blocks /\ requested_hashes' = requested_hashes /\ have_blocks' = have_blocks
    BY <1>5 DEF request_next_span
  <2>2. s \in blocks
    <3> DEFINE starts == {t.start_block_height : t \in blocks}
    <3>1. starts \subseteq Nat /\ starts # {}
      BY <2>1 DEF IndexInv, SpanType
    <3>2. Min(starts) \in starts /\ \A y \in starts : Min(starts) <= y
      BY <3>1, MinNat
    <3>3. PICK t \in blocks : t.start_block_height = Min(starts)
      BY <3>2
    <3>4. \A u \in blocks : t.start_block_height <= u.start_block_height
      BY <3>2, <3>3
    <3>5. QED BY <3>4 DEF FirstSpan
  <2>3. r \in RequestType /\ r.start \in Nat /\ r.ids # <<>>
    BY <2>1, <2>2 DEF RequestType, IndexInv, SpanType
  <2>4. RequestsInv'
    BY <2>1, <2>3, <1>3
  <2>5. IndexInv'
    BY <2>1, UnchangedIndex
  <2>6. QED BY <2>4, <2>5
<1>6. ASSUME NEW c \in Conns, add_blocks(c)
      PROVE  IndexInv' /\ RequestsInv'
  <2>1. /\ outstanding[c].start \in Nat /\ outstanding[c].ids \in Seq(Hashes) /\ outstanding[c].ids # <<>>
        /\ add_filled_blocks(outstanding[c].start, outstanding[c].ids, c)
        /\ outstanding' = [outstanding EXCEPT ![c] = NoRequest]
    BY <1>6 DEF add_blocks, RequestsInv, RequestType
  <2>2. IndexInv'
    BY <2>1, DeliveryKeepsIndex
  <2>3. QED BY <2>1, <2>2, <1>2, <1>3
<1>7. ASSUME NEW c \in Conns, NEW all \in BOOLEAN, flush_spans(c, all)
      PROVE  IndexInv' /\ RequestsInv'
  BY <1>2, <1>3, <1>7, EraseKeepsIndex DEF flush_spans
<1>8. ASSUME NEW live \in SUBSET Conns, flush_stale_spans(live)
      PROVE  IndexInv' /\ RequestsInv'
  <2>1. IndexInv'
    BY <1>8, EraseKeepsIndex DEF flush_stale_spans
  <2>2. QED BY <2>1, <1>8 DEF flush_stale_spans, RequestsInv
<1>9. ASSUME remove_next_filled_span
      PROVE  IndexInv' /\ RequestsInv'
  <2>1. IndexInv'
    BY <1>9, EraseKeepsIndex DEF remove_next_filled_span
  <2>2. QED BY <2>1, <1>9 DEF remove_next_filled_span, RequestsInv
<1>10. ASSUME UNCHANGED queueVars
       PROVE  IndexInv' /\ RequestsInv'
  BY <1>10, UnchangedIndex DEF queueVars, RequestsInv
<1>11. QED BY <1>4, <1>5, <1>6, <1>7, <1>8, <1>9, <1>10 DEF QueueNext

-----------------------------------------------------------------------------
(* Type correctness of the queue, for every instance.                        *)
THEOREM QueueTypeCorrect == QueueSpec => []QueueTypeOK
<1>1. QueueInv => QueueTypeOK
  BY DEF QueueInv
<1>2. QED BY <1>1, InitQueueInv, NextQueueInv, PTL DEF QueueSpec

(* The ids the queue keeps beside its spans are exactly those of the spans,   *)
(* in any order of reservations, late deliveries, flushes and reassignments:  *)
(* nothing stays marked as requested or delivered after its span is gone, no  *)
(* block is queued twice, and have_height answers with the height in the span. *)
THEOREM QueueIndexesCorrect == QueueSpec => []QueueIndexesExact
<1>1. QueueInv => QueueIndexesExact
  BY DEF QueueInv, QueueIndexesExact
<1>2. QED BY <1>1, InitQueueInv, NextQueueInv, PTL DEF QueueSpec

\* A delivered span leaves the queue only with its own connection, or because a
\* delivery takes its place: neither a late answer, nor the flush of stale
\* spans, nor the removal of what another peer delivered takes it along.
THEOREM QueueKeepsDeliveries == QueueSpec => DeliveredSpansKept
<1> DEFINE Kept == \A s \in blocks \ blocks' : Filled(s) =>
                     \/ \E t \in blocks' : Filled(t) /\ t.start_block_height = s.start_block_height
                     \/ \A t \in blocks \ blocks' : t.connection_id = s.connection_id
<1>1. ASSUME QueueInv, QueueNext PROVE Kept
  <2>1. ASSUME blocks \subseteq blocks' PROVE Kept
    BY <2>1
  <2>2. ASSUME NEW S, NEW c, EraseBlocks(S), \A s \in S \cap blocks : s.connection_id = c PROVE Kept
    BY <2>2 DEF EraseBlocks
  <2>3. ASSUME NEW c \in Conns, NEW first, NEW last, NEW max_blocks, NEW sp,
               reserve_span(c, first, last, max_blocks, sp)
        PROVE  Kept
    <3>1. blocks \subseteq blocks'
      BY <2>3 DEF reserve_span
    <3> QED
      BY <2>1, <3>1
  <2>4. ASSUME NEW c \in Conns, request_next_span(c) PROVE Kept
    BY <2>4 DEF request_next_span
  <2>5. ASSUME NEW c \in Conns, add_blocks(c) PROVE Kept
    <3> DEFINE height == outstanding[c].start
               bcel == outstanding[c].ids
               gone == CHOOSE s \in SpansAt(height) : TRUE
               fresh == NewSpan(height, gone.hashes, bcel, Len(bcel), c)
    <3>1. add_filled_blocks(height, bcel, c) /\ bcel # << >>
      BY <1>1, <2>5 DEF add_blocks, QueueInv, QueueTypeOK
    <3>2. CASE SpansAt(height) = {}
      BY <2>1, <3>1, <3>2 DEF add_filled_blocks
    <3>3. CASE SpansAt(height) # {}
      <4>1. blocks' = (blocks \ {gone}) \cup {fresh}
        BY <3>1, <3>3 DEF add_filled_blocks
      <4>2. gone.start_block_height = height
        BY <3>3 DEF SpansAt
      <4>3. Filled(fresh) /\ fresh.start_block_height = height
        BY <3>1 DEF Filled, NewSpan
      <4> HIDE DEF gone, fresh, height
      <4> QED
        BY <4>1, <4>2, <4>3
    <3> QED
      BY <3>2, <3>3
  <2>6. ASSUME NEW c \in Conns, NEW all, flush_spans(c, all) PROVE Kept
    <3> DEFINE S == {s \in blocks : s.connection_id = c /\ (all \/ ~Filled(s))}
    <3>1. EraseBlocks(S) /\ \A s \in S \cap blocks : s.connection_id = c
      BY <2>6 DEF flush_spans
    <3> QED
      BY <2>2, <3>1
  <2>7. ASSUME NEW live, flush_stale_spans(live) PROVE Kept
    <3>1. \A s \in blocks \ blocks' : ~Filled(s)
      BY <2>7 DEF flush_stale_spans, EraseBlocks
    <3> QED
      BY <3>1
  <2>8. CASE remove_next_filled_span
    <3> DEFINE n == FirstSpan({s \in blocks : Filled(s)})
               S == {t \in blocks : t.connection_id = n.connection_id /\ t.start_block_height <= n.start_block_height}
    <3>1. EraseBlocks(S)
      BY <2>8 DEF remove_next_filled_span
    <3>2. \A s \in S \cap blocks : s.connection_id = n.connection_id
      OBVIOUS
    <3> HIDE DEF n, S
    <3> QED
      BY <2>2, <3>1, <3>2
  <2> QED
    BY <1>1, <2>3, <2>4, <2>5, <2>6, <2>7, <2>8 DEF QueueNext
<1>2. QueueInv /\ [QueueNext]_queueVars => [Kept]_queueVars
  BY <1>1
<1> QED
  BY <1>2, InitQueueInv, NextQueueInv, PTL DEF QueueSpec, DeliveredSpansKept

-----------------------------------------------------------------------------
(* Folding over a finite set, one element after the other *)

\* g gives the result of every subset of S: e[x] is the step for x, and at[s]
\* the last element of s.
FoldsTo(e, at, b, S, g) ==
  g = [s \in SUBSET S |-> IF s = {} THEN b ELSE e[at[s]][g[s \ {at[s]}]]]

\* There is such a g, by the least size for which a table fails.
LEMMA FoldExists ==
  ASSUME NEW S, IsFiniteSet(S), NEW A, NEW b \in A, NEW e \in [S -> [A -> A]],
         NEW at, \A s \in SUBSET S : s # {} => at[s] \in s
  PROVE  \E g \in [SUBSET S -> A] : FoldsTo(e, at, b, S, g)
<1> DEFINE Right(g, s) == g[s] = IF s = {} THEN b ELSE e[at[s]][g[s \ {at[s]}]]
           Table(n, g) == \A s \in SUBSET S : Cardinality(s) <= n => Right(g, s)
           Bad == {n \in Nat : ~ \E g \in [SUBSET S -> A] : Table(n, g)}
<1>1. \A s \in SUBSET S : Cardinality(s) \in Nat /\ (Cardinality(s) = 0 <=> s = {})
  BY FS_Subset, FS_CardinalityType, FS_EmptySet
<1>p. ASSUME NEW s \in SUBSET S, s # {}
      PROVE  /\ at[s] \in S /\ s \ {at[s]} \in SUBSET S /\ Cardinality(s \ {at[s]}) = Cardinality(s) - 1
             /\ \A g \in [SUBSET S -> A] : e[at[s]][g[s \ {at[s]}]] \in A
  <2>1. at[s] \in s /\ at[s] \in S /\ s \ {at[s]} \in SUBSET S
    BY <1>p
  <2>2. Cardinality(s \ {at[s]}) = Cardinality(s) - 1
    BY <1>p, <2>1, PickFacts
  <2>3. ASSUME NEW g \in [SUBSET S -> A] PROVE e[at[s]][g[s \ {at[s]}]] \in A
    <3>1. e[at[s]] \in [A -> A] /\ g[s \ {at[s]}] \in A
      BY <2>1
    <3> QED
      BY <3>1
  <2> QED
    BY <2>1, <2>2, <2>3
<1>2. Bad = {}
  <2>1. SUFFICES ASSUME Bad # {} PROVE FALSE
    OBVIOUS
  <2>2. PICK n \in Bad : \A y \in Bad : n <= y
    BY <2>1, MinNat
  <2>3. n \in Nat /\ ~ \E g \in [SUBSET S -> A] : Table(n, g)
    OBVIOUS
  <2>4. n # 0
    <3> DEFINE z == [s \in SUBSET S |-> b]
    <3>1. z \in [SUBSET S -> A] /\ \A s \in SUBSET S : z[s] = b
      OBVIOUS
    <3>2. Table(0, z)
      <4>1. ASSUME NEW s \in SUBSET S, Cardinality(s) <= 0 PROVE Right(z, s)
        <5>1. s = {}
          BY <1>1, <4>1
        <5> QED
          BY <3>1, <5>1
      <4> QED
        BY <4>1
    <3> HIDE DEF Table, z
    <3> QED
      BY <2>3, <3>1, <3>2, Zenon
  <2>5. n - 1 \in Nat /\ n - 1 \notin Bad
    <3> HIDE DEF Bad
    <3>1. n - 1 \in Nat /\ ~(n <= n - 1)
      BY <2>3, <2>4
    <3> QED
      BY <2>2, <3>1
  <2>6. PICK g \in [SUBSET S -> A] : Table(n - 1, g)
    BY <2>5
  <2> DEFINE h == [s \in SUBSET S |-> IF Cardinality(s) = n THEN e[at[s]][g[s \ {at[s]}]] ELSE g[s]]
  <2>7. ASSUME NEW s \in SUBSET S, Cardinality(s) = n
        PROVE  /\ e[at[s]][g[s \ {at[s]}]] \in A
               /\ s # {} /\ s \ {at[s]} \in SUBSET S /\ Cardinality(s \ {at[s]}) # n
    <3>1. s # {}
      BY <1>1, <2>4, <2>7
    <3>2. s \ {at[s]} \in SUBSET S /\ Cardinality(s \ {at[s]}) = n - 1 /\ e[at[s]][g[s \ {at[s]}]] \in A
      BY <1>p, <2>7, <3>1
    <3> QED
      BY <2>3, <3>1, <3>2
  <2>8. h \in [SUBSET S -> A]
    BY <2>7
  <2>9. Table(n, h)
    <3>1. ASSUME NEW s \in SUBSET S, Cardinality(s) <= n PROVE Right(h, s)
      <4>1. CASE Cardinality(s) = n
        <5>1. h[s] = e[at[s]][g[s \ {at[s]}]] /\ h[s \ {at[s]}] = g[s \ {at[s]}]
          BY <2>7, <4>1
        <5> HIDE DEF h
        <5> QED
          BY <2>7, <4>1, <5>1
      <4>2. CASE Cardinality(s) # n
        <5>0. Cardinality(s) <= n - 1
          BY <1>1, <2>3, <3>1, <4>2
        <5>1. Right(g, s) /\ h[s] = g[s]
          <6>1. h[s] = g[s]
            BY <4>2
          <6>2. Right(g, s)
            BY <2>6, <5>0, Zenon
          <6> HIDE DEF h, Right
          <6> QED
            BY <6>1, <6>2
        <5>2. CASE s = {}
          <6> HIDE DEF h
          <6> QED
            BY <5>1, <5>2
        <5>3. CASE s # {}
          <6>1. s \ {at[s]} \in SUBSET S /\ Cardinality(s \ {at[s]}) = Cardinality(s) - 1
            BY <1>p, <5>3
          <6>2. Cardinality(s \ {at[s]}) # n
            BY <1>1, <2>3, <3>1, <6>1
          <6>3. h[s \ {at[s]}] = g[s \ {at[s]}]
            BY <6>1, <6>2
          <6> HIDE DEF h
          <6> QED
            BY <5>1, <5>3, <6>3
        <5> QED
          BY <5>2, <5>3
      <4> QED
        BY <4>1, <4>2
    <3> QED
      BY <3>1
  <2> HIDE DEF h
  <2> QED
    BY <2>3, <2>8, <2>9
<1>3. Cardinality(S) \in Nat /\ \A s \in SUBSET S : Cardinality(s) <= Cardinality(S)
  BY FS_Subset, FS_CardinalityType
<1>4. PICK g \in [SUBSET S -> A] : Table(Cardinality(S), g)
  BY <1>2, <1>3
<1>5. \A s \in SUBSET S : Right(g, s)
  BY <1>3, <1>4
<1>6. FoldsTo(e, at, b, S, g)
  <2>1. g = [s \in SUBSET S |-> g[s]]
    OBVIOUS
  <2>2. g = [s \in SUBSET S |-> IF s = {} THEN b ELSE e[at[s]][g[s \ {at[s]}]]]
    BY <1>5, <2>1
  <2> QED
    BY <2>2 DEF FoldsTo
<1> QED
  BY <1>6

-----------------------------------------------------------------------------
(* get_next_needed_height *)

Accumulators == [covered_until : Nat, gap : BOOLEAN]

\* A step of the loop, by its cases.
LEMMA CoverStepIs ==
  ASSUME NEW bc \in Nat, NEW a \in Accumulators, NEW s \in SpanType
  PROVE  /\ CoverStep(bc, a, s) \in Accumulators
         /\ a.covered_until \in Nat /\ a.gap \in BOOLEAN
         /\ s.start_block_height \in Nat /\ SpanEnd(s) \in Nat
         /\ \/ (a.gap \/ SpanEnd(s) <= bc) /\ CoverStep(bc, a, s) = a
            \/ /\ ~a.gap /\ SpanEnd(s) > bc /\ s.start_block_height > a.covered_until
               /\ CoverStep(bc, a, s).covered_until = a.covered_until /\ CoverStep(bc, a, s).gap
            \/ /\ ~a.gap /\ SpanEnd(s) > bc /\ s.start_block_height <= a.covered_until
               /\ ~CoverStep(bc, a, s).gap
               /\ CoverStep(bc, a, s).covered_until
                    = IF a.covered_until <= SpanEnd(s) THEN SpanEnd(s) ELSE a.covered_until
<1>1. a.covered_until \in Nat /\ a.gap \in BOOLEAN
  BY DEF Accumulators
<1>2. s.start_block_height \in Nat /\ s.nblocks \in Nat
  BY DEF SpanType
<1>3. SpanEnd(s) \in Nat
  BY <1>2 DEF SpanEnd
<1>4. SpanEnd(s) - 1 < bc <=> SpanEnd(s) <= bc
  BY <1>3
<1> DEFINE m == Max({a.covered_until, SpanEnd(s)})
<1>5. m = IF a.covered_until <= SpanEnd(s) THEN SpanEnd(s) ELSE a.covered_until
  <2> DEFINE S == {a.covered_until, SpanEnd(s)}
             n == IF a.covered_until <= SpanEnd(s) THEN SpanEnd(s) ELSE a.covered_until
  <2>1. n \in Nat /\ S \in SUBSET (0..n) /\ n \in S /\ \A y \in S : y <= n
    BY <1>1, <1>3
  <2>2. Max(S) \in S /\ \A y \in S : y <= Max(S)
    BY <2>1, MaxNat
  <2>3. Max(S) \in Nat
    BY <1>1, <1>3, <2>2
  <2> HIDE DEF S, n
  <2>4. Max(S) = n
    BY <2>1, <2>2, <2>3
  <2> QED
    BY <2>4 DEF S, n
<1> HIDE DEF m
<1>6. m \in Nat
  BY <1>1, <1>3, <1>5
<1>7. CASE a.gap \/ SpanEnd(s) <= bc
  BY <1>1, <1>2, <1>3, <1>4, <1>7 DEF CoverStep
<1>8. CASE ~a.gap /\ SpanEnd(s) > bc /\ s.start_block_height > a.covered_until
  <2>1. CoverStep(bc, a, s) = [a EXCEPT !.gap = TRUE]
    BY <1>3, <1>4, <1>8 DEF CoverStep
  <2> QED
    BY <1>1, <1>2, <1>3, <1>8, <2>1 DEF Accumulators
<1>9. CASE ~a.gap /\ SpanEnd(s) > bc /\ s.start_block_height <= a.covered_until
  <2>1. CoverStep(bc, a, s) = [a EXCEPT !.covered_until = m]
    BY <1>1, <1>2, <1>3, <1>4, <1>9 DEF CoverStep, m
  <2>2. CoverStep(bc, a, s) \in Accumulators /\ CoverStep(bc, a, s).covered_until = m
        /\ CoverStep(bc, a, s).gap = a.gap
    BY <1>1, <1>6, <2>1 DEF Accumulators
  <2> QED
    BY <1>1, <1>2, <1>3, <1>5, <1>9, <2>2
<1> QED
  BY <1>1, <1>2, <1>3, <1>7, <1>8, <1>9

\* The last span of a set of spans.
LEMMA LastSpanIs ==
  ASSUME NEW D \in SUBSET SpanType, D # {}, NEW N \in Nat, \A t \in D : t.start_block_height <= N
  PROVE  LastSpan(D) \in D /\ \A t \in D : t.start_block_height <= LastSpan(D).start_block_height
<1> DEFINE starts == {t.start_block_height : t \in D}
<1>1. \A t \in D : t.start_block_height \in Nat
  BY DEF SpanType
<1>2. starts \in SUBSET (0..N) /\ starts # {}
  BY <1>1
<1>3. PICK m \in starts : \A y \in starts : y <= m
  BY <1>2, MaxNat
<1>4. PICK s \in D : s.start_block_height = m
  BY <1>3
<1>5. \A t \in D : t.start_block_height <= s.start_block_height
  BY <1>3, <1>4
<1> QED
  BY <1>4, <1>5 DEF LastSpan

\* What the loop knows after the spans of D: the heights below covered_until are
\* those of spans; no span reaches beyond it, or a gap begins there.
CoverOK(bc, D, a) ==
  /\ a \in Accumulators /\ a.covered_until >= bc
  /\ \A h \in bc..(a.covered_until - 1) : \E s \in D : h \in s.start_block_height..(SpanEnd(s) - 1)
  /\ ~a.gap => \A s \in D : SpanEnd(s) <= a.covered_until
  /\ a.gap => /\ \E s \in D : s.start_block_height > a.covered_until
              /\ \A s \in D : a.covered_until \notin s.start_block_height..(SpanEnd(s) - 1)

\* The loop goes on to a span that starts after the others.
LEMMA CoverOKStep ==
  ASSUME NEW bc \in Nat, NEW D \in SUBSET SpanType, NEW m \in SpanType, NEW a,
         \A t \in D : t.start_block_height <= m.start_block_height, CoverOK(bc, D, a)
  PROVE  CoverOK(bc, D \cup {m}, CoverStep(bc, a, m))
<1> DEFINE r == CoverStep(bc, a, m)
           cov == a.covered_until
           ms == m.start_block_height
           me == SpanEnd(m)
<1>1. /\ a \in Accumulators /\ cov >= bc
      /\ \A h \in bc..(cov - 1) : \E s \in D : h \in s.start_block_height..(SpanEnd(s) - 1)
      /\ ~a.gap => \A s \in D : SpanEnd(s) <= cov
      /\ a.gap => /\ \E s \in D : s.start_block_height > cov
                  /\ \A s \in D : cov \notin s.start_block_height..(SpanEnd(s) - 1)
  BY DEF CoverOK
<1>2. /\ r \in Accumulators
      /\ cov \in Nat /\ a.gap \in BOOLEAN /\ ms \in Nat /\ me \in Nat
      /\ \/ (a.gap \/ me <= bc) /\ r = a
         \/ ~a.gap /\ me > bc /\ ms > cov /\ r.covered_until = cov /\ r.gap
         \/ /\ ~a.gap /\ me > bc /\ ms <= cov
            /\ ~r.gap /\ r.covered_until = IF cov <= me THEN me ELSE cov
  BY <1>1, CoverStepIs
<1>3. \A s \in D : s.start_block_height \in Nat /\ SpanEnd(s) \in Nat
  BY DEF SpanType, SpanEnd
<1> HIDE DEF r, cov, ms, me
<1> SUFFICES CoverOK(bc, D \cup {m}, r)
  BY DEF r
<1>4. CASE a.gap /\ r = a
  <2>1. PICK s \in D : s.start_block_height > cov
    BY <1>1, <1>4
  <2>2. ms > cov
    BY <1>2, <1>3, <2>1 DEF ms
  <2>3. cov \notin ms..(me - 1)
    BY <1>2, <2>2
  <2> QED
    BY <1>1, <1>4, <2>1, <2>3, Zenon DEF CoverOK, ms, me, cov
<1>5. CASE ~a.gap /\ me <= bc /\ r = a
  <2>1. me <= cov
    BY <1>1, <1>2, <1>5
  <2> QED
    BY <1>1, <1>5, <2>1, Zenon DEF CoverOK, me, cov
<1>6. CASE ~a.gap /\ me > bc /\ ms > cov /\ r.covered_until = cov /\ r.gap
  <2>1. cov \notin ms..(me - 1)
    BY <1>2, <1>6
  <2>2. ASSUME NEW s \in D PROVE cov \notin s.start_block_height..(SpanEnd(s) - 1)
    <3>1. SpanEnd(s) <= cov /\ s.start_block_height \in Nat /\ SpanEnd(s) \in Nat
      BY <1>1, <1>3, <1>6
    <3> QED
      BY <1>2, <3>1
  <2> QED
    BY <1>1, <1>2, <1>6, <2>1, <2>2, Zenon DEF CoverOK, ms, me, cov
<1>7. CASE ~a.gap /\ me > bc /\ ms <= cov /\ ~r.gap /\ r.covered_until = IF cov <= me THEN me ELSE cov
  <2> DEFINE c2 == r.covered_until
  <2>1. c2 \in Nat /\ c2 >= cov /\ c2 >= me /\ c2 >= bc /\ (c2 = cov \/ c2 = me)
    BY <1>1, <1>2, <1>7
  <2> HIDE DEF c2
  <2>2. ASSUME NEW h \in bc..(c2 - 1)
        PROVE  \E s \in D \cup {m} : h \in s.start_block_height..(SpanEnd(s) - 1)
    <3>1. CASE h < cov
      <4>1. h \in bc..(cov - 1)
        BY <1>2, <3>1
      <4> QED
        BY <1>1, <4>1
    <3>2. CASE h >= cov
      <4>1. h \in ms..(me - 1)
        BY <1>2, <1>7, <2>1, <3>2
      <4> QED
        BY <4>1 DEF ms, me
    <3> QED
      BY <1>2, <3>1, <3>2
  <2>3. ASSUME NEW s \in D \cup {m} PROVE SpanEnd(s) <= c2
    <3>1. CASE s \in D
      <4>1. SpanEnd(s) <= cov /\ SpanEnd(s) \in Nat
        BY <1>1, <1>3, <1>7, <3>1
      <4> QED
        BY <1>2, <2>1, <4>1
    <3>2. CASE s = m
      BY <2>1, <3>2 DEF me
    <3> QED
      BY <3>1, <3>2
  <2> QED
    BY <1>2, <1>7, <2>1, <2>2, <2>3, Zenon DEF CoverOK, c2
<1> QED
  BY <1>2, <1>4, <1>5, <1>6, <1>7

\* What the queue must look like.
SpansFit ==
  /\ IsFiniteSet(blocks) /\ blocks \subseteq SpanType
  /\ \A s \in blocks : SpanEnd(s) <= MaxHeight + 1

CoverBase(bc) == [covered_until |-> bc, gap |-> FALSE]
CoverTable(bc, g) ==
  g = [s \in SUBSET blocks |-> IF s = {} THEN CoverBase(bc) ELSE CoverStep(bc, g[s \ {LastSpan(s)}], LastSpan(s))]

\* The fold of get_next_needed_height, unfolded.
LEMMA NextNeededIs ==
  ASSUME NEW bc
  PROVE  get_next_needed_height(bc) = (CHOOSE g : CoverTable(bc, g))[blocks].covered_until
  BY Zenon DEF get_next_needed_height, MapThenFoldSet, CoverTable, CoverBase

\* The last span, of the spans in the queue.
LEMMA LastOfSome ==
  ASSUME SpansFit, NEW D \in SUBSET blocks, D # {}
  PROVE  LastSpan(D) \in D /\ \A t \in D : t.start_block_height <= LastSpan(D).start_block_height
<1>1. D \in SUBSET SpanType /\ MaxHeight + 1 \in Nat
  BY HeightsAssumption DEF SpansFit
<1>2. ASSUME NEW t \in D PROVE t.start_block_height <= MaxHeight + 1
  <2>1. t \in SpanType /\ SpanEnd(t) <= MaxHeight + 1
    BY <1>1 DEF SpansFit
  <2>2. t.start_block_height \in Nat /\ t.nblocks \in Nat
    BY <2>1 DEF SpanType
  <2> QED
    BY <1>1, <2>1, <2>2 DEF SpanEnd
<1> QED
  BY <1>1, <1>2, LastSpanIs

\* The loop has a result for every set of spans.
LEMMA CoverExists ==
  ASSUME SpansFit, NEW bc \in Nat
  PROVE  \E g : CoverTable(bc, g)
<1> DEFINE A == Accumulators
           b == CoverBase(bc)
           e == [s \in blocks |-> [a \in A |-> CoverStep(bc, a, s)]]
           at == [D \in SUBSET blocks |-> LastSpan(D)]
<1>1. b \in A
  BY DEF CoverBase, Accumulators
<1>2. e \in [blocks -> [A -> A]]
  BY CoverStepIs DEF SpansFit
<1>3. \A D \in SUBSET blocks : at[D] = LastSpan(D) /\ (D # {} => at[D] \in D)
  BY LastOfSome
<1>4. \A s \in blocks : \A a \in A : e[s][a] = CoverStep(bc, a, s)
  OBVIOUS
<1> HIDE DEF A, b, e, at
<1>5. PICK g \in [SUBSET blocks -> A] : FoldsTo(e, at, b, blocks, g)
  BY <1>1, <1>2, <1>3, FoldExists DEF SpansFit
<1>6. g = [s \in SUBSET blocks |-> IF s = {} THEN b ELSE e[at[s]][g[s \ {at[s]}]]]
  BY <1>5 DEF FoldsTo
<1>7. ASSUME NEW s \in SUBSET blocks
      PROVE  (IF s = {} THEN b ELSE e[at[s]][g[s \ {at[s]}]])
               = IF s = {} THEN CoverBase(bc) ELSE CoverStep(bc, g[s \ {LastSpan(s)}], LastSpan(s))
  <2>1. CASE s = {}
    BY <2>1 DEF b
  <2>2. CASE s # {}
    <3>1. at[s] = LastSpan(s) /\ LastSpan(s) \in blocks /\ s \ {LastSpan(s)} \in SUBSET blocks
      BY <1>3, <2>2
    <3>2. g[s \ {LastSpan(s)}] \in A
      BY <3>1
    <3>3. e[LastSpan(s)][g[s \ {LastSpan(s)}]] = CoverStep(bc, g[s \ {LastSpan(s)}], LastSpan(s))
      BY <1>4, <3>1, <3>2
    <3> QED
      BY <2>2, <3>1, <3>3
  <2> QED
    BY <2>1, <2>2
<1>8. g = [s \in SUBSET blocks |-> IF s = {} THEN CoverBase(bc)
                                    ELSE CoverStep(bc, g[s \ {LastSpan(s)}], LastSpan(s))]
  BY <1>6, <1>7
<1> QED
  BY <1>8 DEF CoverTable

\* What the loop knows at its end, by the smallest set of spans for which it
\* does not.
LEMMA CoverAll ==
  ASSUME SpansFit, NEW bc \in Nat, NEW g, CoverTable(bc, g)
  PROVE  CoverOK(bc, blocks, g[blocks])
<1> DEFINE Bad == {n \in Nat : \E D \in SUBSET blocks : Cardinality(D) = n /\ ~CoverOK(bc, D, g[D])}
<1>1. \A D \in SUBSET blocks : IsFiniteSet(D) /\ Cardinality(D) \in Nat
  BY FS_Subset, FS_CardinalityType DEF SpansFit
<1>2. \A s \in SUBSET blocks :
        g[s] = IF s = {} THEN CoverBase(bc) ELSE CoverStep(bc, g[s \ {LastSpan(s)}], LastSpan(s))
  BY DEF CoverTable
<1>3. ASSUME Bad # {} PROVE FALSE
  <2>1. PICK n \in Bad : \A y \in Bad : n <= y
    BY <1>3, MinNat
  <2>2. PICK D \in SUBSET blocks : Cardinality(D) = n /\ ~CoverOK(bc, D, g[D])
    BY <2>1
  <2>3. D # {}
    <3> SUFFICES ASSUME D = {} PROVE CoverOK(bc, D, g[D])
      BY <2>2
    <3>1. g[D] = CoverBase(bc)
      BY <1>2
    <3>2. CoverOK(bc, {}, CoverBase(bc))
      BY DEF CoverOK, CoverBase, Accumulators
    <3> QED
      BY <3>1, <3>2
  <2> DEFINE m == LastSpan(D)
             E == D \ {m}
  <2>4. m \in D /\ \A t \in D : t.start_block_height <= m.start_block_height
    BY <2>3, LastOfSome
  <2>5. E \in SUBSET blocks /\ E \in SUBSET SpanType /\ m \in SpanType /\ D = E \cup {m}
    BY <2>4 DEF SpansFit
  <2>6. Cardinality(E) = n - 1 /\ n \in Nat \ {0}
    BY <1>1, <2>2, <2>3, <2>4, PickFacts DEF SpansFit
  <2>7. g[D] = CoverStep(bc, g[E], m)
    BY <1>2, <2>3
  <2> HIDE DEF m, E
  <2>8. n - 1 \notin Bad /\ n - 1 \in Nat
    <3> HIDE DEF Bad
    <3> QED
      BY <2>1, <2>6
  <2>9. CoverOK(bc, E, g[E])
    BY <2>5, <2>6, <2>8
  <2>10. CoverOK(bc, E \cup {m}, CoverStep(bc, g[E], m))
    BY <2>4, <2>5, <2>9, CoverOKStep
  <2> QED
    BY <2>2, <2>5, <2>7, <2>10
<1>4. Bad = {}
  BY <1>3
<1>5. blocks \in SUBSET blocks
  OBVIOUS
<1> QED
  BY <1>1, <1>4, <1>5

\* The result is the first height from bc on that no span covers.
LEMMA FirstGap ==
  ASSUME SpansFit, NEW bc \in Heights
  PROVE  LET free == {h \in bc..(MaxHeight + 1) :
                        \A s \in blocks : h \notin s.start_block_height..(SpanEnd(s) - 1)}
         IN get_next_needed_height(bc) = Min(free)
<1> DEFINE free == {h \in bc..(MaxHeight + 1) :
                      \A s \in blocks : h \notin s.start_block_height..(SpanEnd(s) - 1)}
           g == CHOOSE f : CoverTable(bc, f)
           a == g[blocks]
           cov == a.covered_until
<1>1. bc \in Nat /\ bc <= MaxHeight /\ MaxHeight \in Nat
  BY HeightsAssumption DEF Heights
<1>2. CoverTable(bc, g)
  BY <1>1, CoverExists
<1>3. get_next_needed_height(bc) = cov
  BY NextNeededIs
<1> HIDE DEF g
<1>4. CoverOK(bc, blocks, a)
  BY <1>1, <1>2, CoverAll
<1> HIDE DEF a
<1>5. /\ cov \in Nat /\ a.gap \in BOOLEAN /\ cov >= bc
      /\ \A h \in bc..(cov - 1) : \E s \in blocks : h \in s.start_block_height..(SpanEnd(s) - 1)
      /\ ~a.gap => \A s \in blocks : SpanEnd(s) <= cov
      /\ a.gap => \A s \in blocks : cov \notin s.start_block_height..(SpanEnd(s) - 1)
  BY <1>4 DEF CoverOK, Accumulators
<1> HIDE DEF cov
<1>6. \A s \in blocks : SpanEnd(s) \in Nat /\ s.start_block_height \in Nat /\ SpanEnd(s) <= MaxHeight + 1
  BY DEF SpansFit, SpanType, SpanEnd
<1>7. \A s \in blocks : cov \notin s.start_block_height..(SpanEnd(s) - 1)
  BY <1>5, <1>6
<1>8. cov <= MaxHeight + 1
  <2>1. CASE cov = bc
    BY <1>1, <2>1
  <2>2. CASE cov # bc
    <3>1. cov - 1 \in bc..(cov - 1)
      BY <1>1, <1>5, <2>2
    <3>2. PICK s \in blocks : cov - 1 \in s.start_block_height..(SpanEnd(s) - 1)
      BY <1>5, <3>1
    <3> QED
      BY <1>1, <1>5, <1>6, <3>2
  <2> QED
    BY <2>1, <2>2
<1>9. cov \in free
  BY <1>1, <1>5, <1>7, <1>8
<1>10. free \in SUBSET Nat
  BY <1>1
<1>11. \A h \in free : cov <= h
  BY <1>1, <1>5, <1>10
<1> HIDE DEF free
<1>12. Min(free) \in free /\ \A y \in free : Min(free) <= y
  BY <1>9, <1>10, MinNat
<1>13. Min(free) \in Nat /\ Min(free) <= cov /\ cov <= Min(free)
  BY <1>9, <1>10, <1>11, <1>12
<1>14. Min(free) = cov
  BY <1>5, <1>13
<1> QED
  BY <1>3, <1>14 DEF free

-----------------------------------------------------------------------------
(* Spans end where the peers' chains end *)

\* There are finitely many spans, and what is queued or asked for are blocks
\* that some peer reported.
FitInv ==
  /\ IsFiniteSet(blocks) /\ \A s \in blocks : SpanEnd(s) <= MaxHeight + 1
  /\ \A c \in Conns : outstanding[c] # NoRequest =>
                        outstanding[c].start + Len(outstanding[c].ids) <= MaxHeight + 1

\* Spans that are erased leave the others.
LEMMA EraseFits ==
  ASSUME FitInv, NEW D, EraseBlocks(D)
  PROVE  IsFiniteSet(blocks') /\ \A s \in blocks' : SpanEnd(s) <= MaxHeight + 1
<1>1. blocks' \subseteq blocks
  BY DEF EraseBlocks
<1> QED
  BY <1>1, FS_Subset DEF FitInv

\* A span that is queued in the place of others.
LEMMA NewFits ==
  ASSUME FitInv, NEW D, NEW new, SpanEnd(new) <= MaxHeight + 1, blocks' = (blocks \ D) \cup {new}
  PROVE  IsFiniteSet(blocks') /\ \A s \in blocks' : SpanEnd(s) <= MaxHeight + 1
<1>1. IsFiniteSet(blocks \ D)
  BY FS_Subset DEF FitInv
<1>2. IsFiniteSet((blocks \ D) \cup {new})
  BY <1>1, FS_AddElement
<1> QED
  BY <1>2 DEF FitInv

\* Every operation keeps the spans within the chains.
LEMMA FitStep ==
  ASSUME QueueInv, FitInv, [QueueNext]_queueVars
  PROVE  FitInv'
<1> DEFINE Ends(bs) == IsFiniteSet(bs) /\ \A s \in bs : SpanEnd(s) <= MaxHeight + 1
<1>r. ASSUME NEW c \in Conns, NEW r, r = NoRequest \/ r.start + Len(r.ids) <= MaxHeight + 1,
             outstanding' = [outstanding EXCEPT ![c] = r], Ends(blocks')
      PROVE  FitInv'
  <2>1. \A d \in Conns : outstanding'[d] = IF d = c THEN r ELSE outstanding[d]
    BY <1>r DEF QueueInv, QueueTypeOK
  <2> QED
    BY <1>r, <2>1 DEF FitInv
<1>0. MaxHeight \in Nat
  BY HeightsAssumption
<1>1. ASSUME NEW c \in Conns, NEW first \in Heights, NEW last \in Heights,
             NEW max_blocks \in 0..MaxSpan, NEW sp \in BOOLEAN,
             reserve_span(c, first, last, max_blocks, sp)
      PROVE  FitInv'
  <2>1. PICK span \in RequestType :
           /\ span.start \in Nat /\ outstanding' = [outstanding EXCEPT ![c] = span]
           /\ span.start + Len(span.ids) <= last + 1
           /\ blocks' = blocks \cup {NewSpan(span.start, span.ids, <<>>, Len(span.ids), c)}
    <3>1. IndexInv
      BY SplitQueueInv
    <3> QED
      BY <1>1, <3>1, ReserveKeepsIndex
  <2>2. span.start + Len(span.ids) <= MaxHeight + 1
    <3>1. Len(span.ids) \in Nat /\ last \in Nat /\ last <= MaxHeight
      BY <1>0 DEF RequestType, Heights
    <3> QED
      BY <1>0, <2>1, <3>1
  <2> DEFINE new == NewSpan(span.start, span.ids, <<>>, Len(span.ids), c)
  <2>3. SpanEnd(new) <= MaxHeight + 1
    BY <2>2 DEF NewSpan, SpanEnd
  <2>4. blocks' = (blocks \ {}) \cup {new}
    BY <2>1
  <2> HIDE DEF new
  <2>5. Ends(blocks')
    BY <2>3, <2>4, NewFits
  <2> QED
    BY <1>r, <2>1, <2>2, <2>5
<1>2. ASSUME NEW c \in Conns, request_next_span(c) PROVE FitInv'
  <2> DEFINE s == FirstSpan(blocks)
             r == [start |-> s.start_block_height, ids |-> s.hashes]
  <2>1. /\ blocks # {} /\ s.hashes # <<>>
        /\ \A i \in 1..Len(s.hashes) : s.start_block_height + i - 1 \in Heights
        /\ outstanding' = [outstanding EXCEPT ![c] = r] /\ blocks' = blocks
    BY <1>2 DEF request_next_span
  <2>2. s \in blocks
    <3> DEFINE starts == {t.start_block_height : t \in blocks}
    <3>1. starts \subseteq Nat /\ starts # {}
      BY <2>1 DEF QueueInv, QueueTypeOK, SpanType
    <3>2. Min(starts) \in starts /\ \A y \in starts : Min(starts) <= y
      BY <3>1, MinNat
    <3>3. PICK t \in blocks : t.start_block_height = Min(starts)
      BY <3>2
    <3>4. \A u \in blocks : t.start_block_height <= u.start_block_height
      BY <3>2, <3>3
    <3> QED
      BY <3>4 DEF FirstSpan
  <2>3. s.hashes \in Seq(Hashes) /\ s.start_block_height \in Nat
    BY <2>2 DEF QueueInv, QueueTypeOK, SpanType
  <2> HIDE DEF s
  <2>4. r.start = s.start_block_height /\ r.ids = s.hashes /\ Len(s.hashes) \in Nat \ {0}
    BY <2>1, <2>3
  <2>5. s.start_block_height + Len(s.hashes) - 1 \in Heights
    <3>1. Len(s.hashes) \in 1..Len(s.hashes)
      BY <2>4
    <3> QED
      BY <2>1, <3>1
  <2>6. s.start_block_height + Len(s.hashes) <= MaxHeight + 1
    BY <1>0, <2>3, <2>4, <2>5 DEF Heights
  <2>7. r.start + Len(r.ids) <= MaxHeight + 1
    BY <2>4, <2>6
  <2> HIDE DEF r
  <2> QED
    BY <1>r, <2>1, <2>7 DEF FitInv
<1>3. ASSUME NEW c \in Conns, add_blocks(c) PROVE FitInv'
  <2> DEFINE height == outstanding[c].start
             bcel == outstanding[c].ids
  <2>1. /\ add_filled_blocks(height, bcel, c)
        /\ outstanding' = [outstanding EXCEPT ![c] = NoRequest]
        /\ height + Len(bcel) <= MaxHeight + 1
    BY <1>3 DEF add_blocks, FitInv
  <2> HIDE DEF height, bcel
  <2>2. \A hashes : SpanEnd(NewSpan(height, hashes, bcel, Len(bcel), c)) <= MaxHeight + 1
    BY <2>1 DEF NewSpan, SpanEnd
  <2>3. PICK D, hashes : blocks' = (blocks \ D) \cup {NewSpan(height, hashes, bcel, Len(bcel), c)}
    <3>1. CASE SpansAt(height) = {}
      <4>1. blocks' = (blocks \ {}) \cup {NewSpan(height, <<>>, bcel, Len(bcel), c)}
        BY <2>1, <3>1 DEF add_filled_blocks
      <4> QED
        BY <4>1
    <3>2. CASE SpansAt(height) # {}
      BY <2>1, <3>2 DEF add_filled_blocks
    <3> QED
      BY <3>1, <3>2
  <2>4. Ends(blocks')
    BY <2>2, <2>3, NewFits
  <2> QED
    BY <1>r, <2>1, <2>4
<1>4. ASSUME NEW c \in Conns, NEW all \in BOOLEAN, flush_spans(c, all) PROVE FitInv'
  <2>1. Ends(blocks')
    BY <1>4, EraseFits DEF flush_spans
  <2> QED
    BY <1>4, <1>r, <2>1 DEF flush_spans
<1>5. ASSUME NEW live \in SUBSET Conns, flush_stale_spans(live) PROVE FitInv'
  <2>1. Ends(blocks') /\ outstanding' = outstanding
    BY <1>5, EraseFits DEF flush_stale_spans
  <2> QED
    BY <2>1 DEF FitInv
<1>6. ASSUME remove_next_filled_span PROVE FitInv'
  <2>1. Ends(blocks') /\ outstanding' = outstanding
    BY <1>6, EraseFits DEF remove_next_filled_span
  <2> QED
    BY <2>1 DEF FitInv
<1>7. CASE UNCHANGED queueVars
  BY <1>7 DEF queueVars, FitInv
<1> QED
  BY <1>1, <1>2, <1>3, <1>4, <1>5, <1>6, <1>7 DEF QueueNext

\* get_next_needed_height, which decides what is asked for next and whether a
\* peer has anything to offer, gives the first height from the chain's on that no
\* span covers, for every queue that reservations, late answers and flushes
\* leave: overlapping spans, spans below the chain, and gaps.
THEOREM NextNeededCorrect == QueueSpec => []NextNeededIsFirstGap
<1>1. QueueInit => FitInv
  BY FS_EmptySet DEF QueueInit, FitInv
<1>2. QueueInv /\ FitInv /\ [QueueNext]_queueVars => FitInv'
  BY FitStep
<1>3. QueueInv /\ FitInv => NextNeededIsFirstGap
  <2> SUFFICES ASSUME QueueInv, FitInv PROVE NextNeededIsFirstGap
    OBVIOUS
  <2>1. SpansFit
    BY DEF QueueInv, QueueTypeOK, FitInv, SpansFit
  <2> QED
    BY <2>1, FirstGap, Zenon DEF NextNeededIsFirstGap
<1> QED
  BY <1>1, <1>2, <1>3, InitQueueInv, NextQueueInv, PTL DEF QueueSpec
=============================================================================
