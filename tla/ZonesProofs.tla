---------------------------- MODULE ZonesProofs ----------------------------
(***************************************************************************)
(* Proofs about the zones of the network (MCZones): for any number of      *)
(* stems, connections, transactions and messages, the map of stems is      *)
(* exact, a source keeps its stem while that is connected, the timer's     *)
(* callbacks are counted exactly (FluffZone), and a noise channel lets go  *)
(* of a message only when it was sent whole over one connection            *)
(* (NoiseZone); for any addresses, hosts and limits the lists of peers     *)
(* (PeerList) stay sorted, bounded and disjoint, and a peer that has just  *)
(* answered is never the one that has to go.                               *)
(***************************************************************************)
EXTENDS MCZones, MinMaxLemmas, FiniteSetTheorems, SequenceTheorems, TLAPS

-----------------------------------------------------------------------------
(* The map of stems *)

\* Sources mapped to places, and the records that are maps.
Assigned == UNION {[D -> 1..Stems] : D \in SUBSET Sources}
Maps == [out : Seq(Sources), in : Assigned, usage : [1..Stems -> Nat]]

\* What every map satisfies that the operations make.
MapOK(m) ==
  /\ m \in Maps
  /\ \A s \in DOMAIN m.in : m.in[s] \in DOMAIN m.out
  /\ UsageExact(m) /\ StemsDistinct(m)

\* The source s is mapped to the connection c.
Goes(m, s, c) == s \in DOMAIN m.in /\ m.out[m.in[s]] = c

\* The sources are finitely many, and nil is no connection.
LEMMA SourcesFinite == IsFiniteSet(Sources) /\ Stems \in Nat /\ Stems > 0 /\ NilConn \notin ZoneConns
<1>1. IsFiniteSet(ZoneConns \cup {NilConn})
  BY MapAssumption, FS_AddElement
<1> QED
  BY <1>1, MapAssumption DEF Sources

\* A map's parts, and how a record of them is taken apart.
LEMMA MapParts ==
  ASSUME NEW m \in Maps
  PROVE  /\ m.out \in Seq(Sources) /\ DOMAIN m.out = 1..Len(m.out) /\ Len(m.out) \in Nat
         /\ \A i \in DOMAIN m.out : m.out[i] \in Sources
         /\ DOMAIN m.in \in SUBSET Sources /\ m.in \in [DOMAIN m.in -> 1..Stems]
         /\ m.usage \in [1..Stems -> Nat] /\ DOMAIN m.usage = 1..Stems
<1>1. m.out \in Seq(Sources) /\ m.in \in Assigned /\ m.usage \in [1..Stems -> Nat]
  BY DEF Maps
<1>2. PICK D \in SUBSET Sources : m.in \in [D -> 1..Stems]
  BY <1>1 DEF Assigned
<1>3. DOMAIN m.in = D
  BY <1>2
<1> QED
  BY <1>1, <1>2, <1>3

\* A record of three parts of the right types is a map.
LEMMA IsMap ==
  ASSUME NEW o \in Seq(Sources), NEW D \in SUBSET Sources, NEW f \in [D -> 1..Stems],
         NEW u \in [1..Stems -> Nat]
  PROVE  [out |-> o, in |-> f, usage |-> u] \in Maps
BY DEF Maps, Assigned

\* The smaller of two numbers.
LEMMA LeastOfTwo ==
  ASSUME NEW a \in Nat, NEW b \in Nat
  PROVE  /\ Least({a, b}) \in {a, b} /\ Least({a, b}) <= a /\ Least({a, b}) <= b
<1>1. \E n \in {a, b} : \A k \in {a, b} : n <= k
  <2>1. CASE a <= b
    BY <2>1
  <2>2. CASE b <= a
    BY <2>2
  <2> QED
    BY <2>1, <2>2
<1> QED
  BY <1>1 DEF Least

\* What Least returns, for any set of numbers that is not empty.
LEMMA LeastOf ==
  ASSUME NEW S \in SUBSET Nat, S # {}
  PROVE  Least(S) \in S /\ \A k \in S : Least(S) <= k
<1>1. \E n \in S : \A k \in S : n <= k
  BY MinNat
<1> QED
  BY <1>1 DEF Least

\* A map for a new epoch has places for some of the connections and no source.
LEMMA NewMapsOK ==
  ASSUME NEW cs \in SUBSET ZoneConns, NEW m \in NewMaps(cs)
  PROVE  MapOK(m) /\ m.in = [x \in {} |-> 0]
<1> DEFINE n == Least({Stems, Cardinality(cs)})
           u == [i \in 1..Stems |-> 0]
           f == [x \in {} |-> 0]
<1>1. PICK s \in Draws(cs, n) : m = [out |-> s, in |-> f, usage |-> u]
  BY DEF NewMaps
<1>2. Cardinality(cs) \in Nat /\ Stems \in Nat
  BY MapAssumption, FS_Subset, FS_CardinalityType
<1>3. n \in Nat /\ n <= Stems
  BY <1>2, LeastOfTwo
<1> HIDE DEF n
<1>4. /\ s \in [1..n -> ZoneConns] /\ \A i, j \in 1..n : i # j => s[i] # s[j]
  BY <1>1 DEF Draws
<1>5. s \in Seq(Sources) /\ Len(s) = n /\ DOMAIN s = 1..n
  <2>1. s \in [1..n -> Sources]
    BY <1>4 DEF Sources
  <2> QED
    BY <1>3, <2>1
<1>6. f \in [{} -> 1..Stems] /\ DOMAIN f = {} /\ {} \in SUBSET Sources
  OBVIOUS
<1>7. u \in [1..Stems -> Nat] /\ DOMAIN u = 1..Stems /\ \A i \in 1..Stems : u[i] = 0
  OBVIOUS
<1> HIDE DEF f, u
<1>8. m \in Maps
  BY <1>1, <1>5, <1>6, <1>7, IsMap
<1>9. m.out = s /\ m.in = f /\ m.usage = u
  BY <1>1
<1>10. UsageExact(m)
  <2>1. ASSUME NEW i \in 1..Stems PROVE Cardinality({x \in DOMAIN f : f[x] = i}) = 0
    <3>1. {x \in DOMAIN f : f[x] = i} = {}
      BY <1>6
    <3> QED
      BY <3>1, FS_EmptySet
  <2> QED
    BY <1>7, <1>9, <2>1 DEF UsageExact
<1>11. StemsDistinct(m)
  BY <1>3, <1>4, <1>5, <1>9 DEF StemsDistinct
<1> QED
  BY <1>6, <1>8, <1>9, <1>10, <1>11 DEF MapOK, f

-----------------------------------------------------------------------------
(* connection_map::update *)

\* The places of a set are numbered from one in their order.
LEMMA PlaceFacts ==
  ASSUME NEW n \in Nat, NEW S \in SUBSET (1..n)
  PROVE  /\ IsFiniteSet(S) /\ Cardinality(S) \in Nat
         /\ \A i \in S : PlaceOf(i, S) \in 1..Cardinality(S)
         /\ \A i, j \in S : i < j => PlaceOf(i, S) < PlaceOf(j, S)
<1>1. IsFiniteSet(S) /\ Cardinality(S) \in Nat
  BY UpTo, FS_Subset, FS_CardinalityType
<1>2. ASSUME NEW i \in S
      PROVE  /\ IsFiniteSet({k \in S : k <= i}) /\ PlaceOf(i, S) \in Nat
             /\ PlaceOf(i, S) <= Cardinality(S) /\ PlaceOf(i, S) # 0
  <2>1. {k \in S : k <= i} \subseteq S /\ i \in {k \in S : k <= i}
    OBVIOUS
  <2>2. IsFiniteSet({k \in S : k <= i}) /\ Cardinality({k \in S : k <= i}) <= Cardinality(S)
    BY <1>1, <2>1, FS_Subset
  <2>3. Cardinality({k \in S : k <= i}) \in Nat /\ Cardinality({k \in S : k <= i}) # 0
    BY <2>1, <2>2, FS_CardinalityType, FS_EmptySet
  <2> QED
    BY <2>2, <2>3 DEF PlaceOf
<1>3. ASSUME NEW i \in S, NEW j \in S, i < j PROVE PlaceOf(i, S) < PlaceOf(j, S)
  <2>1. i \in Nat /\ j \in Nat /\ \A k \in S : k \in Nat
    OBVIOUS
  <2>2. {k \in S : k <= i} \subseteq {k \in S : k <= j} /\ j \in {k \in S : k <= j} /\ j \notin {k \in S : k <= i}
    <3>1. ~(j <= i) /\ j <= j /\ \A k \in S : k <= i => k <= j
      BY <1>3, <2>1
    <3> QED
      BY <3>1
  <2>3. {k \in S : k <= i} \subseteq {k \in S : k <= j} /\ {k \in S : k <= i} # {k \in S : k <= j}
    BY <2>2
  <2>4. IsFiniteSet({k \in S : k <= j})
    BY <1>2
  <2>5. Cardinality({k \in S : k <= i}) < Cardinality({k \in S : k <= j})
    <3> DEFINE A == {k \in S : k <= i}
               B == {k \in S : k <= j}
    <3>1. A \in SUBSET B /\ A # B /\ IsFiniteSet(B)
      BY <2>3, <2>4
    <3> HIDE DEF A, B
    <3>2. IsFiniteSet(A) /\ Cardinality(A) <= Cardinality(B) /\ Cardinality(A) # Cardinality(B)
      BY <3>1, FS_Subset
    <3>3. Cardinality(A) \in Nat /\ Cardinality(B) \in Nat
      BY <3>1, <3>2, FS_CardinalityType
    <3>4. Cardinality(A) < Cardinality(B)
      BY <3>2, <3>3
    <3> QED
      BY <3>4 DEF A, B
  <2> QED
    BY <2>5 DEF PlaceOf
<1>4. ASSUME NEW i \in S PROVE PlaceOf(i, S) \in 1..Cardinality(S)
  <2>1. PlaceOf(i, S) \in Nat /\ PlaceOf(i, S) <= Cardinality(S) /\ PlaceOf(i, S) # 0
    BY <1>2
  <2> QED
    BY <1>1, <2>1
<1> QED
  BY <1>1, <1>3, <1>4

\* What the update of a list of places does: the connections that are gone leave
\* their places, and connections that are not in the list come in free ones.
Updated(o, after, current) ==
  /\ after \in Seq(Sources) /\ Len(after) \in Len(o)..Stems
  /\ \A i \in 1..Len(after) : after[i] # NilConn => after[i] \in current
  /\ \A i \in 1..Len(o) : o[i] \in current => after[i] = o[i]
  /\ \A i, k \in 1..Len(after) : after[i] = after[k] /\ after[i] # NilConn => i = k

\* The free places that are filled leave no gap in the list.
LEMMA FilledPlaces ==
  ASSUME NEW l \in 0..Stems, NEW free \in SUBSET (1..Stems), \A i \in 1..Stems : i > l => i \in free,
         NEW n \in Nat
  PROVE  LET D == 1..l \cup {i \in free : PlaceOf(i, free) <= n}
         IN  Cardinality(D) \in l..Stems /\ D = 1..Cardinality(D)
<1> DEFINE D == 1..l \cup {i \in free : PlaceOf(i, free) <= n}
<1>0. Stems \in Nat /\ l \in Nat
  BY SourcesFinite
<1>1. D \in SUBSET (1..Stems)
  <2>1. 1..l \subseteq 1..Stems
    BY <1>0
  <2> QED
    BY <2>1
<1>2. ASSUME NEW i \in D, NEW j \in 1..i PROVE j \in D
  <2>0. i \in 1..Stems /\ j \in 1..Stems /\ j <= i
    BY <1>0, <1>1
  <2>1. CASE j <= l
    BY <2>0, <2>1, <1>0
  <2>2. CASE j > l
    <3>1. i > l /\ i \in free /\ PlaceOf(i, free) <= n /\ j \in free
      BY <1>0, <2>0, <2>2
    <3>2. PlaceOf(j, free) \in Nat /\ PlaceOf(i, free) \in Nat /\ PlaceOf(j, free) <= PlaceOf(i, free)
      <4>1. PlaceOf(j, free) \in Nat /\ PlaceOf(i, free) \in Nat
        <5>1. /\ Cardinality(free) \in Nat
              /\ PlaceOf(j, free) \in 1..Cardinality(free) /\ PlaceOf(i, free) \in 1..Cardinality(free)
          BY <1>0, <3>1, PlaceFacts
        <5> QED
          BY <5>1
      <4>2. j < i => PlaceOf(j, free) < PlaceOf(i, free)
        BY <1>0, <3>1, PlaceFacts
      <4>3. j = i => PlaceOf(j, free) = PlaceOf(i, free)
        OBVIOUS
      <4> QED
        BY <2>0, <4>1, <4>2, <4>3
    <3> QED
      BY <3>1, <3>2
  <2> QED
    BY <1>0, <2>0, <2>1, <2>2
<1>3. Cardinality(D) \in 0..Stems /\ D = 1..Cardinality(D)
  BY <1>0, <1>1, <1>2, DownClosed
<1>4. l <= Cardinality(D)
  <2>1. l # 0 => l \in D
    BY <1>0
  <2> HIDE DEF D
  <2> QED
    BY <1>0, <1>3, <2>1
<1> QED
  BY <1>0, <1>3, <1>4

\* The list after is o without the connections that are gone, the first n free
\* places filled with the draw s from left.
FilledBy(o, current, kept, free, left, n, s, filled, size, after) ==
  /\ o \in Seq(Sources) /\ Len(o) <= Stems
  /\ \A i, k \in 1..Len(o) : o[i] = o[k] /\ o[i] # NilConn => i = k
  /\ current \in SUBSET ZoneConns
  /\ kept = [i \in 1..Len(o) |-> IF o[i] \in current THEN o[i] ELSE NilConn]
  /\ free = {i \in 1..Stems : i \notin 1..Len(o) \/ kept[i] = NilConn}
  /\ left \subseteq current /\ \A i \in 1..Len(o) : kept[i] \notin left
  /\ n \in Nat /\ n <= Cardinality(free) /\ s \in Draws(left, n)
  /\ filled = {i \in free : PlaceOf(i, free) <= n}
  /\ size = Cardinality(1..Len(o) \cup filled)
  /\ after = [i \in 1..size |-> IF i \in filled THEN s[PlaceOf(i, free)] ELSE kept[i]]

\* Such a list is an update.
LEMMA FillUpdates ==
  ASSUME NEW o, NEW current, NEW kept, NEW free, NEW left, NEW n, NEW s, NEW filled, NEW size, NEW after,
         FilledBy(o, current, kept, free, left, n, s, filled, size, after)
  PROVE  Updated(o, after, current)
<1> USE DEF FilledBy
<1>0. /\ Stems \in Nat /\ Len(o) \in Nat /\ Len(o) \in 0..Stems /\ NilConn \notin ZoneConns
      /\ free \in SUBSET (1..Stems) /\ n \in Nat
  BY SourcesFinite
<1>1. /\ s \in [1..n -> left] /\ \A i, j \in 1..n : i # j => s[i] # s[j]
  BY DEF Draws
<1>2. size \in Len(o)..Stems /\ 1..Len(o) \cup filled = 1..size
  <2>1. \A i \in 1..Stems : i > Len(o) => i \in free
    BY <1>0
  <2>2. LET D == 1..Len(o) \cup {i \in free : PlaceOf(i, free) <= n}
        IN  Cardinality(D) \in Len(o)..Stems /\ D = 1..Cardinality(D)
    BY ONLY <1>0, <2>1, FilledPlaces
  <2> QED
    BY <2>2
<1>3. \A i \in filled : PlaceOf(i, free) \in 1..n /\ PlaceOf(i, free) \in Nat
  <2>1. /\ Cardinality(free) \in Nat
        /\ \A i \in free : PlaceOf(i, free) \in 1..Cardinality(free)
    BY ONLY <1>0, PlaceFacts
  <2>2. ASSUME NEW i \in filled PROVE PlaceOf(i, free) \in 1..n /\ PlaceOf(i, free) \in Nat
    <3>1. PlaceOf(i, free) \in 1..Cardinality(free) /\ PlaceOf(i, free) <= n
      BY <2>1
    <3> QED
      BY ONLY <1>0, <2>1, <3>1
  <2> QED
    BY <2>2
<1>4. ASSUME NEW i \in filled
      PROVE  i \in 1..size /\ after[i] = s[PlaceOf(i, free)] /\ after[i] \in left /\ after[i] \in current
  <2>1. i \in 1..size
    BY <1>2
  <2>2. after[i] = s[PlaceOf(i, free)]
    BY <2>1
  <2>3. s[PlaceOf(i, free)] \in left
    BY <1>1, <1>3
  <2> QED
    BY <2>1, <2>2, <2>3
<1>5. ASSUME NEW i \in 1..size, i \notin filled
      PROVE  i \in 1..Len(o) /\ after[i] = kept[i] /\ kept[i] = IF o[i] \in current THEN o[i] ELSE NilConn
  BY <1>2, <1>5
<1>6. ASSUME NEW i \in 1..Len(o), o[i] \in current PROVE i \notin filled /\ i \in 1..size
  <2>1. kept[i] = o[i] /\ o[i] # NilConn
    BY <1>0, <1>6
  <2> QED
    BY <1>2, <2>1
<1>7. ASSUME NEW i \in filled, NEW k \in filled, after[i] = after[k] PROVE i = k
  <2>1. s[PlaceOf(i, free)] = s[PlaceOf(k, free)]
    BY <1>4, <1>7
  <2>2. PlaceOf(i, free) = PlaceOf(k, free)
    BY <1>1, <1>3, <2>1
  <2>3. i \in free /\ k \in free /\ i \in Nat /\ k \in Nat
    BY <1>0
  <2>4. /\ i < k => PlaceOf(i, free) < PlaceOf(k, free)
        /\ k < i => PlaceOf(k, free) < PlaceOf(i, free)
    BY <1>0, <2>3, PlaceFacts
  <2>5. PlaceOf(i, free) \in Nat
    BY <1>3
  <2> QED
    BY <2>2, <2>3, <2>4, <2>5
<1>8. after \in Seq(Sources) /\ Len(after) = size
  <2>1. size \in Nat
    BY <1>0, <1>2
  <2>2. ASSUME NEW i \in 1..size PROVE after[i] \in Sources
    BY <1>4, <1>5 DEF Sources
  <2>3. after \in [1..size -> Sources]
    BY <2>2
  <2> QED
    BY ONLY <2>1, <2>3
<1>9. \A i \in 1..size : after[i] # NilConn => after[i] \in current
  BY <1>4, <1>5
<1>10. \A i \in 1..Len(o) : o[i] \in current => after[i] = o[i]
  BY <1>5, <1>6
<1>11. ASSUME NEW i \in 1..size, NEW k \in 1..size, after[i] = after[k], after[i] # NilConn PROVE i = k
  <2>1. CASE i \in filled /\ k \in filled
    BY <1>7, <1>11, <2>1
  <2>2. CASE i \in filled /\ k \notin filled
    BY <1>4, <1>5, <1>11, <2>2
  <2>3. CASE i \notin filled /\ k \in filled
    BY <1>4, <1>5, <1>11, <2>3
  <2>4. CASE i \notin filled /\ k \notin filled
    BY <1>5, <1>11, <2>4
  <2> QED
    BY <2>1, <2>2, <2>3, <2>4
<1>12. \A i, k \in 1..size : after[i] = after[k] /\ after[i] # NilConn => i = k
  BY <1>11
<1> QED
  BY ONLY <1>2, <1>8, <1>9, <1>10, <1>12 DEF Updated

\* update changes the places only, in that way.
LEMMA UpdatesOK ==
  ASSUME NEW m, MapOK(m), NEW current \in SUBSET ZoneConns, NEW u \in Updates(m, current)
  PROVE  MapOK(u.map) /\ u.map.in = m.in /\ u.map.usage = m.usage /\ Updated(m.out, u.map.out, current)
<1> DEFINE ko == [i \in DOMAIN m.out |-> IF m.out[i] \in current THEN m.out[i] ELSE NilConn]
           kept == [m EXCEPT !.out = ko]
           replace == \E i \in DOMAIN m.out : m.out[i] \notin current
           free == FreePlaces(kept)
           left == Candidates(kept, current)
           n == Least({Cardinality(free), Cardinality(left)})
           filled == {i \in free : PlaceOf(i, free) <= n}
           size == Cardinality(DOMAIN m.out \cup filled)
           Fill(s) == [i \in 1..size |-> IF i \in filled THEN s[PlaceOf(i, free)] ELSE kept.out[i]]
<1>0. m \in Maps /\ UsageExact(m) /\ StemsDistinct(m) /\ \A s \in DOMAIN m.in : m.in[s] \in DOMAIN m.out
  BY DEF MapOK
<1>1. /\ m.out \in Seq(Sources) /\ DOMAIN m.out = 1..Len(m.out) /\ Len(m.out) \in Nat
      /\ \A i \in DOMAIN m.out : m.out[i] \in Sources
      /\ DOMAIN m.in \in SUBSET Sources /\ m.in \in [DOMAIN m.in -> 1..Stems]
      /\ m.usage \in [1..Stems -> Nat] /\ DOMAIN m.usage = 1..Stems
  BY <1>0, MapParts
<1>2. /\ Len(m.out) <= Stems
      /\ \A i, k \in 1..Len(m.out) : m.out[i] = m.out[k] /\ m.out[i] # NilConn => i = k
  BY <1>0, <1>1 DEF StemsDistinct
<1>3. CASE u = [map |-> m, changed |-> FALSE] /\ ~replace
  <2>1. u.map = m
    BY <1>3
  <2>2. \A i \in 1..Len(m.out) : m.out[i] \in current
    BY <1>1, <1>3
  <2>3. Updated(m.out, m.out, current)
    BY <1>1, <1>2, <2>2, SourcesFinite DEF Updated
  <2> QED
    BY <2>1, <2>3
<1>4. ASSUME NEW s \in Draws(left, n), u.map = [kept EXCEPT !.out = Fill(s)]
      PROVE  MapOK(u.map) /\ u.map.in = m.in /\ u.map.usage = m.usage /\ Updated(m.out, u.map.out, current)
  <2>1. kept.out = ko /\ kept.in = m.in /\ kept.usage = m.usage
    BY <1>0 DEF Maps
  <2>2. u.map = [out |-> Fill(s), in |-> m.in, usage |-> m.usage]
    BY <1>0, <1>4 DEF Maps
  <2>3. u.map.out = Fill(s) /\ u.map.in = m.in /\ u.map.usage = m.usage
    BY <2>2
  <2> HIDE DEF kept
  <2>4. free = {i \in 1..Stems : i \notin 1..Len(m.out) \/ ko[i] = NilConn}
    BY <1>1, <2>1 DEF FreePlaces
  <2>5. left = current \ ({ko[i] : i \in 1..Len(m.out)} \ {NilConn})
    BY <1>1, <2>1 DEF Candidates, InUse
  <2>6. n \in Nat /\ n <= Cardinality(free)
    <3>1. free \in SUBSET (1..Stems) /\ left \in SUBSET ZoneConns
      BY <2>4, <2>5
    <3>2. Cardinality(free) \in Nat /\ Cardinality(left) \in Nat
      BY <3>1, SourcesFinite, MapAssumption, UpTo, FS_Subset, FS_CardinalityType
    <3> HIDE DEF free, left
    <3> QED
      BY <3>2, LeastOfTwo
  <2>7. left \subseteq current /\ \A i \in 1..Len(m.out) : ko[i] \notin left
    <3>1. ASSUME NEW i \in 1..Len(m.out), ko[i] \in left PROVE FALSE
      <4>1. ko[i] \in current /\ ko[i] # NilConn
        BY <2>5, <3>1, SourcesFinite
      <4> HIDE DEF ko
      <4> QED
        BY <2>5, <3>1, <4>1
    <3> QED
      BY <2>5, <3>1
  <2>8. /\ Fill(s) = [i \in 1..size |-> IF i \in filled THEN s[PlaceOf(i, free)] ELSE ko[i]]
        /\ size = Cardinality(1..Len(m.out) \cup filled)
        /\ filled = {i \in free : PlaceOf(i, free) <= n}
        /\ ko = [i \in 1..Len(m.out) |-> IF m.out[i] \in current THEN m.out[i] ELSE NilConn]
    BY <1>1, <2>1
  <2> DEFINE after == Fill(s)
  <2>9. after = [i \in 1..size |-> IF i \in filled THEN s[PlaceOf(i, free)] ELSE ko[i]]
    BY <2>8
  <2> HIDE DEF after, size, filled, n, left, free, ko
  <2>10. Updated(m.out, after, current)
    <3>1. s \in Draws(left, n) /\ current \in SUBSET ZoneConns
      OBVIOUS
    <3> QED
      <4>1. FilledBy(m.out, current, ko, free, left, n, s, filled, size, after)
        BY ONLY <1>1, <1>2, <3>1, <2>4, <2>6, <2>7, <2>8, <2>9, Zenon DEF FilledBy
      <4> QED
        BY <4>1, FillUpdates
  <2>11. after \in Seq(Sources) /\ Len(after) \in Len(m.out)..Stems /\ DOMAIN after = 1..Len(after)
    BY <2>10 DEF Updated
  <2>12. u.map = [out |-> after, in |-> m.in, usage |-> m.usage] /\ u.map.out = after
    BY <2>2, <2>3 DEF after
  <2>13. u.map \in Maps
    BY <1>1, <2>11, <2>12, IsMap
  <2>14. UsageExact(u.map)
    BY <1>0, <2>3 DEF UsageExact
  <2>15. StemsDistinct(u.map)
    BY <2>10, <2>11, <2>12 DEF StemsDistinct, Updated
  <2>16. \A x \in DOMAIN u.map.in : u.map.in[x] \in DOMAIN u.map.out
    <3>1. 1..Len(m.out) \subseteq 1..Len(after)
      BY <1>1, <2>11
    <3> QED
      BY <1>0, <1>1, <2>3, <2>11, <2>12, <3>1
  <2> QED
    BY <2>3, <2>10, <2>12, <2>13, <2>14, <2>15, <2>16 DEF MapOK
<1>5. \/ u = [map |-> m, changed |-> FALSE] /\ ~replace
      \/ \E s \in Draws(left, n) : u = [map |-> [kept EXCEPT !.out = Fill(s)],
                                        changed |-> replace \/ size > Len(m.out)]
  BY DEF Updates
<1>6. ASSUME NEW s \in Draws(left, n), u = [map |-> [kept EXCEPT !.out = Fill(s)],
                                            changed |-> replace \/ size > Len(m.out)]
      PROVE  u.map = [kept EXCEPT !.out = Fill(s)]
  BY <1>6
<1> QED
  BY <1>3, <1>4, <1>5, <1>6

-----------------------------------------------------------------------------
(* connection_map::get_stem *)

\* The other sources that are mapped to a place.
Others(m, source, i) == {s \in DOMAIN m.in \ {source} : m.in[s] = i}

\* The other sources of a place can be counted.
LEMMA OthersFinite ==
  ASSUME NEW m \in Maps, NEW source, NEW i
  PROVE  IsFiniteSet(Others(m, source, i)) /\ Cardinality(Others(m, source, i)) \in Nat
         /\ source \notin Others(m, source, i)
<1>1. Others(m, source, i) \in SUBSET Sources
  BY MapParts DEF Others
<1>2. IsFiniteSet(Others(m, source, i))
  BY <1>1, SourcesFinite, FS_Subset
<1> QED
  BY <1>2, FS_CardinalityType DEF Others

\* The counts without a source that is to be mapped anew.
LEMMA UnuseFacts ==
  ASSUME NEW m, MapOK(m), NEW source
  PROVE  \E w \in [1..Stems -> Nat] :
           /\ Unuse(m, source) = [out |-> m.out, in |-> m.in, usage |-> w]
           /\ \A i \in 1..Stems : w[i] = Cardinality(Others(m, source, i))
<1>0. /\ m \in Maps /\ m = [out |-> m.out, in |-> m.in, usage |-> m.usage]
      /\ \A i \in DOMAIN m.usage : m.usage[i] = Cardinality({s \in DOMAIN m.in : m.in[s] = i})
  BY DEF MapOK, Maps, UsageExact
<1>1. /\ m.in \in [DOMAIN m.in -> 1..Stems] /\ m.usage \in [1..Stems -> Nat] /\ DOMAIN m.usage = 1..Stems
  BY <1>0, MapParts
<1>2. CASE source \notin DOMAIN m.in
  <2>1. Unuse(m, source) = m
    BY <1>2 DEF Unuse
  <2>2. \A i : Others(m, source, i) = {s \in DOMAIN m.in : m.in[s] = i}
    BY <1>2 DEF Others
  <2> QED
    BY <1>0, <1>1, <2>1, <2>2
<1>3. CASE source \in DOMAIN m.in
  <2> DEFINE j == m.in[source]
             us == [m.usage EXCEPT ![j] = @ - 1]
  <2>1. j \in 1..Stems
    BY <1>1, <1>3
  <2>2. Unuse(m, source) = [m EXCEPT !.usage = us]
    BY <1>3 DEF Unuse
  <2>3. Unuse(m, source) = [out |-> m.out, in |-> m.in, usage |-> us] /\ Unuse(m, source).usage = us
    BY <1>0, <2>2 DEF Maps
  <2>4. ASSUME NEW i \in 1..Stems PROVE us[i] = Cardinality(Others(m, source, i))
    <3>1. CASE i = j
      <4>1. {s \in DOMAIN m.in : m.in[s] = i} = Others(m, source, i) \cup {source}
        BY <1>3, <3>1 DEF Others
      <4>0. Cardinality(Others(m, source, i) \cup {source}) = Cardinality(Others(m, source, i)) + 1
        BY <1>0, OthersFinite, FS_AddElement
      <4>2. m.usage[i] = Cardinality(Others(m, source, i)) + 1
        BY <1>0, <1>1, <4>0, <4>1
      <4>3. us[i] = m.usage[i] - 1
        BY <1>1, <3>1
      <4> HIDE DEF us
      <4> QED
        BY <1>0, <4>2, <4>3, OthersFinite
    <3>2. CASE i # j
      <4>1. {s \in DOMAIN m.in : m.in[s] = i} = Others(m, source, i)
        BY <3>2 DEF Others
      <4>2. us[i] = m.usage[i]
        BY <1>1, <3>2
      <4> QED
        BY <1>0, <1>1, <4>1, <4>2
    <3> QED
      BY <3>1, <3>2
  <2>5. us \in [1..Stems -> Nat]
    <3>1. DOMAIN us = 1..Stems /\ us = [i \in 1..Stems |-> us[i]]
      BY <1>1
    <3> HIDE DEF us
    <3>2. \A i \in 1..Stems : us[i] \in Nat
      BY <1>0, <2>4, OthersFinite
    <3> QED
      BY <3>1, <3>2
  <2> HIDE DEF us
  <2> QED
    BY <2>3, <2>4, <2>5
<1> QED
  BY <1>2, <1>3

\* What get_stem does to a map: it may map the source anew, unless its stem is
\* there, and nothing else.
Mapped(m, m2, source, to) ==
  /\ MapOK(m2) /\ m2.out = m.out /\ to \in Sources
  /\ \A s \in Sources \ {source} : \A c : Goes(m2, s, c) <=> Goes(m, s, c)
  /\ HasStem(m, source) => m2 = m
  /\ to # NilConn => Goes(m2, source, to)

\* connection_map::get_stem, whatever place it draws: the map stays exact, no other
\* source moves, and the source goes to the connection that it returns.
LEMMA GetStemsOK ==
  ASSUME NEW m, MapOK(m), NEW source \in Sources, NEW r \in GetStems(m, source)
  PROVE  Mapped(m, r.map, source, r.to)
<1>0. /\ m \in Maps /\ \A s \in DOMAIN m.in : m.in[s] \in DOMAIN m.out
      /\ UsageExact(m) /\ StemsDistinct(m)
  BY DEF MapOK
<1>1. /\ m.out \in Seq(Sources) /\ DOMAIN m.out = 1..Len(m.out) /\ Len(m.out) \in Nat
      /\ \A i \in DOMAIN m.out : m.out[i] \in Sources
      /\ DOMAIN m.in \in SUBSET Sources /\ m.in \in [DOMAIN m.in -> 1..Stems]
      /\ m.usage \in [1..Stems -> Nat] /\ DOMAIN m.usage = 1..Stems
  BY <1>0, MapParts
<1>2. PICK w \in [1..Stems -> Nat] :
        /\ Unuse(m, source) = [out |-> m.out, in |-> m.in, usage |-> w]
        /\ \A i \in 1..Stems : w[i] = Cardinality(Others(m, source, i))
  BY UnuseFacts
<1> DEFINE u == [out |-> m.out, in |-> m.in, usage |-> w]
<1>3. CASE HasStem(m, source) /\ r = [map |-> m, to |-> m.out[m.in[source]]]
  <2>1. r.map = m /\ r.to = m.out[m.in[source]] /\ r.to \in Sources
    BY <1>0, <1>1, <1>3 DEF HasStem
  <2> QED
    BY <1>3, <2>1 DEF Mapped, Goes, HasStem
<1>4. CASE ~HasStem(m, source) /\ r = [map |-> Forget(u, source), to |-> NilConn]
  <2> DEFINE D == DOMAIN m.in \ {source}
             f == [s \in D |-> m.in[s]]
  <2>1. Forget(u, source) = [out |-> m.out, in |-> f, usage |-> w]
    BY DEF Forget
  <2>2. f \in [D -> 1..Stems] /\ D \in SUBSET Sources /\ DOMAIN f = D /\ \A s \in D : f[s] = m.in[s]
    BY <1>1
  <2> HIDE DEF f
  <2>3. /\ r.map = [out |-> m.out, in |-> f, usage |-> w] /\ r.to = NilConn
        /\ r.map.out = m.out /\ r.map.in = f /\ r.map.usage = w
    BY <1>4, <2>1
  <2>4. r.map \in Maps
    <3>1. [out |-> m.out, in |-> f, usage |-> w] \in Maps
      BY <1>1, <2>2, IsMap
    <3> QED
      BY <2>3, <3>1, Zenon
  <2>5. UsageExact(r.map)
    <3>1. \A i \in 1..Stems : {s \in DOMAIN f : f[s] = i} = Others(m, source, i)
      BY <2>2 DEF Others
    <3>2. DOMAIN w = 1..Stems /\ \A i \in 1..Stems : w[i] = Cardinality({s \in DOMAIN f : f[s] = i})
      BY <1>2, <3>1
    <3> QED
      BY <2>3, <3>2, Zenon DEF UsageExact
  <2>6. StemsDistinct(r.map)
    BY <1>0, <2>3 DEF StemsDistinct
  <2>7. MapOK(r.map)
    BY <1>0, <2>2, <2>3, <2>4, <2>5, <2>6 DEF MapOK
  <2>8. \A s \in Sources \ {source} : \A c : Goes(r.map, s, c) <=> Goes(m, s, c)
    BY <2>2, <2>3 DEF Goes
  <2> QED
    BY <1>4, <2>3, <2>7, <2>8 DEF Mapped, Sources
<1>5. ASSUME ~HasStem(m, source), NEW i \in LeastUsed(u), r = [map |-> Assign(u, source, i), to |-> m.out[i]]
      PROVE  Mapped(m, r.map, source, r.to)
  <2> DEFINE D == DOMAIN m.in \cup {source}
             f == [s \in D |-> IF s = source THEN i ELSE m.in[s]]
             us == [w EXCEPT ![i] = @ + 1]
  <2>1. i \in DOMAIN m.out /\ m.out[i] # NilConn /\ i \in 1..Stems
    <3>1. i \in DOMAIN m.out /\ m.out[i] # NilConn
      BY DEF LeastUsed
    <3>2. Len(m.out) <= Stems /\ Stems \in Nat
      BY <1>0, SourcesFinite DEF StemsDistinct
    <3> QED
      BY <1>1, <3>1, <3>2
  <2>2. Assign(u, source, i) = [out |-> m.out, in |-> f, usage |-> us]
    <3>0. u.in = m.in /\ u.usage = w
      OBVIOUS
    <3>1. Assign(u, source, i) = [u EXCEPT !.in = f, !.usage[i] = @ + 1]
      BY <3>0, Zenon DEF Assign
    <3> HIDE DEF f
    <3>2. [u EXCEPT !.in = f, !.usage[i] = @ + 1] = [u EXCEPT !.in = f, !.usage = us]
      OBVIOUS
    <3> HIDE DEF us
    <3>3. [u EXCEPT !.in = f, !.usage = us] = [out |-> m.out, in |-> f, usage |-> us]
      <4>1. [u EXCEPT !.in = f] = [out |-> m.out, in |-> f, usage |-> w]
        OBVIOUS
      <4>2. [[out |-> m.out, in |-> f, usage |-> w] EXCEPT !.usage = us] = [out |-> m.out, in |-> f, usage |-> us]
        OBVIOUS
      <4>3. [u EXCEPT !.in = f, !.usage = us] = [[u EXCEPT !.in = f] EXCEPT !.usage = us]
        BY Zenon
      <4> QED
        BY <4>1, <4>2, <4>3, Zenon
    <3> QED
      BY <3>1, <3>2, <3>3, Zenon
  <2>3. f \in [D -> 1..Stems] /\ D \in SUBSET Sources /\ DOMAIN f = D
        /\ f[source] = i /\ \A s \in DOMAIN m.in \ {source} : f[s] = m.in[s]
    BY <1>1, <2>1
  <2>4. us \in [1..Stems -> Nat] /\ us[i] = w[i] + 1
        /\ \A k \in 1..Stems \ {i} : us[k] = w[k]
    BY <2>1
  <2> HIDE DEF f, us
  <2>5. /\ r.map = [out |-> m.out, in |-> f, usage |-> us] /\ r.to = m.out[i]
        /\ r.map.out = m.out /\ r.map.in = f /\ r.map.usage = us
    BY <1>5, <2>2
  <2>6. r.map \in Maps
    <3>1. [out |-> m.out, in |-> f, usage |-> us] \in Maps
      BY ONLY <1>1, <2>3, <2>4, IsMap
    <3> QED
      BY <2>5, <3>1, Zenon
  <2>7. UsageExact(r.map)
    <3>1. ASSUME NEW k \in 1..Stems, k # i PROVE us[k] = Cardinality({s \in DOMAIN f : f[s] = k})
      <4>1. {s \in DOMAIN f : f[s] = k} = Others(m, source, k)
        BY <2>3, <3>1 DEF Others
      <4> QED
        BY <1>2, <2>4, <3>1, <4>1
    <3>2. us[i] = Cardinality({s \in DOMAIN f : f[s] = i})
      <4>1. {s \in DOMAIN f : f[s] = i} = Others(m, source, i) \cup {source}
        BY <2>3 DEF Others
      <4>2. Cardinality({s \in DOMAIN f : f[s] = i}) = Cardinality(Others(m, source, i)) + 1
        BY <1>0, <4>1, OthersFinite, FS_AddElement
      <4> QED
        BY <1>2, <2>1, <2>4, <4>2
    <3> QED
      <4>1. DOMAIN us = 1..Stems /\ \A k \in 1..Stems : us[k] = Cardinality({s \in DOMAIN f : f[s] = k})
        BY <2>4, <3>1, <3>2
      <4> QED
        BY <2>5, <4>1, Zenon DEF UsageExact
  <2>8. StemsDistinct(r.map)
    BY <1>0, <2>5 DEF StemsDistinct
  <2>9. MapOK(r.map)
    <3>1. \A s \in DOMAIN f : f[s] \in DOMAIN m.out
      BY <1>0, <2>1, <2>3
    <3> QED
      BY <2>5, <2>6, <2>7, <2>8, <3>1 DEF MapOK
  <2>10. \A s \in Sources \ {source} : \A c : Goes(r.map, s, c) <=> Goes(m, s, c)
    BY <2>3, <2>5 DEF Goes
  <2>11. Goes(r.map, source, r.to) /\ r.to \in Sources
    BY <1>1, <2>1, <2>3, <2>5 DEF Goes
  <2> QED
    BY <1>5, <2>5, <2>9, <2>10, <2>11 DEF Mapped
<1> HIDE DEF u
<1>6. \/ HasStem(m, source) /\ r = [map |-> m, to |-> m.out[m.in[source]]]
      \/ ~HasStem(m, source) /\ r = [map |-> Forget(u, source), to |-> NilConn]
      \/ ~HasStem(m, source) /\ \E i \in LeastUsed(u) : r = [map |-> Assign(u, source, i), to |-> m.out[i]]
  BY <1>2 DEF GetStems, u
<1> QED
  BY <1>3, <1>4, <1>5, <1>6

-----------------------------------------------------------------------------
(* The zone without noise: the stems *)

\* The last peers ls of the sources are those the map m leads to.
StemsOK(m, ls) ==
  /\ MapOK(m) /\ ls \in [RelaySources -> Sources]
  /\ \A s \in RelaySources : ls[s] # NilConn => Goes(m, s, ls[s])

\* In the middle of a step: a peer that the map m no longer leads to has left
\* it, and is not among the connections cs that may come in.
Tracks(m, ls, cs) ==
  \A s \in RelaySources : ls[s] # NilConn =>
    Goes(m, s, ls[s]) \/ (ls[s] \notin cs /\ ls[s] \notin InUse(m))

\* What OneStemPerSource says of a step.
StemStep(ls, ls2, m2) ==
  \A s \in RelaySources : ls[s] # NilConn /\ ls2[s] \notin {NilConn, ls[s]} => ls[s] \notin InUse(m2)

\* get_stem loses track of no source's last stem.
LEMMA GetTracks ==
  ASSUME NEW m, NEW m2, NEW source, NEW to, Mapped(m, m2, source, to),
         NEW ls, NEW cs, Tracks(m, ls, cs)
  PROVE  Tracks(m2, ls, cs)
<1> SUFFICES ASSUME NEW s \in RelaySources, ls[s] # NilConn
             PROVE  Goes(m2, s, ls[s]) \/ (ls[s] \notin cs /\ ls[s] \notin InUse(m2))
  BY DEF Tracks
<1>1. s \in Sources
  BY FluffAssumption
<1>2. InUse(m2) = InUse(m)
  BY DEF Mapped, InUse
<1>3. Goes(m, s, ls[s]) \/ (ls[s] \notin cs /\ ls[s] \notin InUse(m))
  BY DEF Tracks
<1>4. CASE s # source
  <2>1. Goes(m2, s, ls[s]) <=> Goes(m, s, ls[s])
    BY <1>1, <1>4 DEF Mapped
  <2> QED
    BY <1>2, <1>3, <2>1
<1>5. CASE s = source
  <2>1. Goes(m, s, ls[s]) => m2 = m
    BY <1>5 DEF Mapped, Goes, HasStem
  <2> QED
    BY <1>2, <1>3, <2>1
<1> QED
  BY <1>4, <1>5

\* connection_map::update loses track of no source's last stem.
LEMMA UpdateTracks ==
  ASSUME NEW m, MapOK(m), NEW m2, MapOK(m2), m2.in = m.in, NEW cs \in SUBSET ZoneConns,
         Updated(m.out, m2.out, cs), NEW ls, Tracks(m, ls, cs)
  PROVE  Tracks(m2, ls, cs)
<1> SUFFICES ASSUME NEW s \in RelaySources, ls[s] # NilConn
             PROVE  Goes(m2, s, ls[s]) \/ (ls[s] \notin cs /\ ls[s] \notin InUse(m2))
  BY DEF Tracks
<1>0. DOMAIN m.out = 1..Len(m.out) /\ DOMAIN m2.out = 1..Len(m2.out) /\ Len(m.out) \in Nat
      /\ \A x \in DOMAIN m.in : m.in[x] \in DOMAIN m.out
  BY MapParts DEF MapOK
<1>1. ls[s] \notin cs => ls[s] \notin InUse(m2)
  BY <1>0 DEF Updated, InUse
<1>2. Goes(m, s, ls[s]) \/ ls[s] \notin cs
  BY DEF Tracks
<1>3. Goes(m, s, ls[s]) /\ ls[s] \in cs => Goes(m2, s, ls[s])
  BY <1>0 DEF Goes, Updated
<1> QED
  BY <1>1, <1>2, <1>3

\* Transactions of a source are sent to the stem the map leads to.
LEMMA StemmedOK ==
  ASSUME NEW m, MapOK(m), NEW m2, NEW source \in RelaySources, NEW to \in ZoneConns,
         Mapped(m, m2, source, to), NEW cs, Tracks(m2, last_stem, cs),
         last_stem \in [RelaySources -> Sources], Stemmed(source, m2, to)
  PROVE  StemsOK(stem_map', last_stem') /\ StemStep(last_stem, last_stem', stem_map')
<1>1. /\ stem_map' = m2 /\ last_stem' \in [RelaySources -> Sources]
      /\ last_stem'[source] = to
      /\ \A s \in RelaySources \ {source} :
           last_stem'[s] = IF last_stem[s] \in InUse(m2) THEN last_stem[s] ELSE NilConn
  <2>1. Known(last_stem, m2) \in [RelaySources -> Sources]
    BY DEF Known, Sources
  <2>2. to \in Sources
    BY DEF Sources
  <2>3. \A s \in RelaySources : Known(last_stem, m2)[s] = IF last_stem[s] \in InUse(m2) THEN last_stem[s] ELSE NilConn
    BY DEF Known
  <2> QED
    BY <2>1, <2>2, <2>3 DEF Stemmed
<1>2. to # NilConn /\ Goes(m2, source, to)
  BY SourcesFinite DEF Mapped
<1>3. ASSUME NEW s \in RelaySources, last_stem'[s] # NilConn PROVE Goes(m2, s, last_stem'[s])
  <2>1. CASE s = source
    BY <1>1, <1>2, <2>1
  <2>2. CASE s # source
    <3>1. last_stem'[s] = last_stem[s] /\ last_stem[s] \in InUse(m2) /\ last_stem[s] # NilConn
      BY <1>1, <1>3, <2>2
    <3> QED
      BY <3>1 DEF Tracks
  <2> QED
    BY <2>1, <2>2
<1>4. ASSUME NEW s \in RelaySources, last_stem[s] # NilConn, last_stem'[s] \notin {NilConn, last_stem[s]}
      PROVE  last_stem[s] \notin InUse(m2)
  <2>1. CASE s = source
    <3>1. ~Goes(m2, s, last_stem[s])
      BY <1>1, <1>2, <1>4, <2>1 DEF Goes
    <3> QED
      BY <1>4, <3>1 DEF Tracks
  <2>2. CASE s # source
    BY <1>1, <1>4, <2>2
  <2> QED
    BY <2>1, <2>2
<1>5. MapOK(m2)
  BY DEF Mapped
<1> QED
  BY <1>1, <1>3, <1>4, <1>5 DEF StemsOK, StemStep

\* The stem part of dandelionpp_notify.
LEMMA StemOK ==
  ASSUME StemsOK(stem_map, last_stem), p2p \subseteq ZoneConns, NEW t, NEW source \in RelaySources,
         Stem(t, source)
  PROVE  /\ StemsOK(stem_map', last_stem') /\ StemStep(last_stem, last_stem', stem_map')
         /\ Fluff(t, source) \/ UNCHANGED <<contextVars, timerVars>>
<1>0. /\ MapOK(stem_map) /\ last_stem \in [RelaySources -> Sources] /\ source \in Sources
      /\ NilConn \notin ZoneConns
  BY FluffAssumption, SourcesFinite DEF StemsOK
<1>2. PICK r1 \in GetStems(stem_map, source) :
        \/ r1.to \in p2p /\ Stemmed(source, r1.map, r1.to)
        \/ \E u1 \in Refreshed(r1.map) : \E r2 \in GetStems(u1.map, source) :
             \/ r2.to \in p2p /\ Stemmed(source, r2.map, r2.to)
             \/ \E u2 \in Refreshed(r2.map) :
                  /\ stem_map' = u2.map
                  /\ Fluff(t, source)
                  /\ last_stem' = Known(Known(last_stem, u1.map), u2.map)
  BY DEF Stem
<1>3. \A cs \in OutConnections : cs \in SUBSET ZoneConns
  BY DEF OutConnections
<1>4. \A cs : Tracks(stem_map, last_stem, cs)
  BY DEF Tracks, StemsOK
<1>5. Mapped(stem_map, r1.map, source, r1.to)
  BY <1>0, GetStemsOK
<1>6. MapOK(r1.map) /\ \A cs : Tracks(r1.map, last_stem, cs)
  BY <1>4, <1>5, GetTracks DEF Mapped
<1>7. CASE r1.to \in p2p /\ Stemmed(source, r1.map, r1.to)
  <2>1. r1.to \in ZoneConns
    BY <1>7
  <2>2. StemsOK(stem_map', last_stem') /\ StemStep(last_stem, last_stem', stem_map')
    BY <1>0, <1>5, <1>6, <1>7, <2>1, StemmedOK
  <2> QED
    BY <1>7, <2>2 DEF Stemmed
<1>8. ASSUME NEW u1 \in Refreshed(r1.map), NEW r2 \in GetStems(u1.map, source),
             \/ r2.to \in p2p /\ Stemmed(source, r2.map, r2.to)
             \/ \E u2 \in Refreshed(r2.map) :
                  /\ stem_map' = u2.map
                  /\ Fluff(t, source)
                  /\ last_stem' = Known(Known(last_stem, u1.map), u2.map)
      PROVE  /\ StemsOK(stem_map', last_stem') /\ StemStep(last_stem, last_stem', stem_map')
             /\ Fluff(t, source) \/ UNCHANGED <<contextVars, timerVars>>
  <2>0. PICK cs \in OutConnections : u1 \in Updates(r1.map, cs)
    BY Zenon DEF Refreshed
  <2>1. MapOK(u1.map) /\ u1.map.in = r1.map.in /\ Updated(r1.map.out, u1.map.out, cs)
    BY <1>3, <1>6, <2>0, UpdatesOK
  <2>2. Tracks(u1.map, last_stem, cs)
    BY <1>3, <1>6, <2>1, UpdateTracks
  <2>3. Mapped(u1.map, r2.map, source, r2.to)
    BY <1>0, <2>1, GetStemsOK
  <2>4. MapOK(r2.map) /\ Tracks(r2.map, last_stem, cs)
    BY <2>2, <2>3, GetTracks DEF Mapped
  <2>5. CASE r2.to \in p2p /\ Stemmed(source, r2.map, r2.to)
    <3>1. r2.to \in ZoneConns
      BY <2>5
    <3>2. StemsOK(stem_map', last_stem') /\ StemStep(last_stem, last_stem', stem_map')
      BY <1>0, <2>1, <2>3, <2>4, <2>5, <3>1, StemmedOK
    <3> QED
      BY <2>5, <3>2 DEF Stemmed
  <2>6. ASSUME NEW u2 \in Refreshed(r2.map), stem_map' = u2.map, Fluff(t, source),
               last_stem' = Known(Known(last_stem, u1.map), u2.map)
        PROVE  StemsOK(stem_map', last_stem') /\ StemStep(last_stem, last_stem', stem_map')
    <3>1. PICK cs2 \in OutConnections : u2 \in Updates(r2.map, cs2)
      BY <2>6, Zenon DEF Refreshed
    <3>2. MapOK(u2.map) /\ u2.map.in = r2.map.in /\ Updated(r2.map.out, u2.map.out, cs2)
      BY <1>3, <2>4, <3>1, UpdatesOK
    <3>3. PICK known : known = Known(last_stem, u1.map)
      OBVIOUS
    <3>4. /\ known \in [RelaySources -> Sources]
          /\ \A s \in RelaySources :
               known[s] = IF last_stem[s] \in InUse(u1.map) THEN last_stem[s] ELSE NilConn
      BY <1>0, <3>3 DEF Known, Sources
    <3>5. InUse(r2.map) = InUse(u1.map)
      BY <2>3 DEF Mapped, InUse
    <3>6. Tracks(r2.map, known, cs2)
      BY <2>4, <3>4, <3>5 DEF Tracks
    <3>7. Tracks(u2.map, known, cs2)
      BY <1>3, <2>4, <3>2, <3>6, UpdateTracks
    <3>8. /\ last_stem' \in [RelaySources -> Sources]
          /\ \A s \in RelaySources :
               last_stem'[s] = IF known[s] \in InUse(u2.map) THEN known[s] ELSE NilConn
      BY <2>6, <3>3, <3>4 DEF Known, Sources
    <3>9. StemStep(last_stem, last_stem', stem_map')
      BY <3>4, <3>8 DEF StemStep
    <3> QED
      BY <2>6, <3>2, <3>7, <3>8, <3>9 DEF StemsOK, Tracks
  <2> QED
    BY <1>8, <2>5, <2>6
<1> QED
  BY <1>2, <1>7, <1>8

-----------------------------------------------------------------------------
(* The zone without noise: the flush timer *)

\* What waits for a connection has a time to be flushed.
ContextsOK(txs, times) ==
  /\ DOMAIN txs \subseteq ZoneConns
  /\ txs \in [DOMAIN txs -> SUBSET RelayTxs] /\ times \in [DOMAIN txs -> 0..Never]
  /\ \A c \in DOMAIN txs : txs[c] # {} => times[c] \in 0..MaxDelay

\* The callbacks are those in the strand and the one the timer will post.
TimerOK(callbacks, at, arm, post) ==
  /\ at \in 0..MaxDelay /\ arm \in BOOLEAN /\ post \in Seq(BOOLEAN)
  /\ callbacks = Len(post) + (IF arm THEN 1 ELSE 0)

\* Another callback of the timer is posted.
LEMMA PostTimer ==
  ASSUME NEW post \in Seq(BOOLEAN), NEW b \in BOOLEAN
  PROVE  Append(post, b) \in Seq(BOOLEAN) /\ Len(Append(post, b)) = Len(post) + 1 /\ Len(post) \in Nat
<1>1. Append(post, b) \in Seq(BOOLEAN) /\ Len(Append(post, b)) = Len(post) + 1
  BY AppendProperties, Zenon
<1>2. Len(post) \in Nat
  BY LenProperties, Zenon
<1> QED
  BY <1>1, <1>2

\* fluff_flush::queue: one more callback is owed, armed or posted.
LEMMA QueueFlushOK ==
  ASSUME armed \in BOOLEAN, NEW callbacks, NEW waiting \in Seq(BOOLEAN), NEW at \in 0..MaxDelay,
         callbacks = Len(waiting) + (IF armed THEN 1 ELSE 0), QueueFlush(callbacks, waiting, at)
  PROVE  TimerOK(flush_callbacks', expiry', armed', posted')
<1>1. flush_callbacks' = callbacks + 1 /\ expiry' = at /\ armed' = TRUE
      /\ posted' = IF armed THEN Append(waiting, TRUE) ELSE waiting
  BY Zenon DEF QueueFlush
<1>2. Append(waiting, TRUE) \in Seq(BOOLEAN) /\ Len(Append(waiting, TRUE)) = Len(waiting) + 1
      /\ Len(waiting) \in Nat
  <2>1. TRUE \in BOOLEAN
    OBVIOUS
  <2> QED
    BY <2>1, PostTimer, Zenon
<1>3. CASE armed
  <2>1. posted' \in Seq(BOOLEAN) /\ Len(posted') = Len(waiting) + 1 /\ callbacks = Len(waiting) + 1
    BY <1>1, <1>2, <1>3
  <2>2. flush_callbacks' = Len(posted') + 1
    BY <1>1, <1>2, <2>1
  <2> QED
    BY <1>1, <2>1, <2>2 DEF TimerOK
<1>4. CASE ~armed
  <2>1. posted' \in Seq(BOOLEAN) /\ Len(posted') = Len(waiting) /\ callbacks = Len(waiting)
    BY <1>1, <1>2, <1>4
  <2>2. flush_callbacks' = Len(posted') + 1
    BY <1>1, <1>2, <2>1
  <2> QED
    BY <1>1, <2>1, <2>2 DEF TimerOK
<1> QED
  BY <1>3, <1>4

\* Never is later than every flush time.
LEMMA TimeTypes == MaxDelay \in Nat /\ Never = MaxDelay + 1
BY FluffAssumption DEF Never

\* fluff_notify::run
LEMMA FluffOK ==
  ASSUME ContextsOK(fluff_txs, flush_time), TimerOK(flush_callbacks, expiry, armed, posted),
         NEW t \in RelayTxs, NEW source, Fluff(t, source)
  PROVE  ContextsOK(fluff_txs', flush_time') /\ TimerOK(flush_callbacks', expiry', armed', posted')
<1> DEFINE to == {c \in Contexts : c # source /\ (zone_public \/ c \notin Income)}
           fresh == {c \in to : fluff_txs[c] = {}}
<1>0. /\ Contexts \subseteq ZoneConns /\ fluff_txs \in [Contexts -> SUBSET RelayTxs]
      /\ flush_time \in [Contexts -> 0..Never]
      /\ \A c \in Contexts : fluff_txs[c] # {} => flush_time[c] \in 0..MaxDelay
  BY DEF ContextsOK, Contexts
<1>1. PICK delay \in [fresh -> 0..MaxDelay] :
        LET at   == [c \in Contexts |-> IF c \in fresh THEN delay[c] ELSE flush_time[c]]
            next == Least({at[c] : c \in to})
        IN  /\ fluff_txs' = [c \in Contexts |-> IF c \in to THEN fluff_txs[c] \cup {t} ELSE fluff_txs[c]]
            /\ flush_time' = at
            /\ IF to # {} /\ SetsTimer(next) THEN QueueFlush(flush_callbacks, posted, next)
               ELSE UNCHANGED timerVars
  BY DEF Fluff
<1> DEFINE at == [c \in Contexts |-> IF c \in fresh THEN delay[c] ELSE flush_time[c]]
           next == Least({at[c] : c \in to})
<1>2. to \subseteq Contexts /\ fresh \subseteq to /\ \A c \in to \ fresh : fluff_txs[c] # {}
  OBVIOUS
<1> HIDE DEF to, fresh
<1>3. /\ \A c \in fresh : at[c] = delay[c] /\ at[c] \in 0..MaxDelay
      /\ \A c \in Contexts \ fresh : at[c] = flush_time[c]
  BY <1>2
<1>4. 0..MaxDelay \subseteq 0..Never
  BY TimeTypes
<1>5. /\ at \in [Contexts -> 0..Never]
      /\ \A c \in to : at[c] \in 0..MaxDelay
  <2>1. \A c \in Contexts : at[c] \in 0..Never
    BY <1>0, <1>3, <1>4
  <2>2. \A c \in to : at[c] \in 0..MaxDelay
    BY <1>0, <1>2, <1>3
  <2> QED
    BY <2>1, <2>2
<1>6. /\ fluff_txs' \in [Contexts -> SUBSET RelayTxs] /\ DOMAIN fluff_txs' = Contexts
      /\ \A c \in Contexts \ to : fluff_txs'[c] = fluff_txs[c]
      /\ flush_time' = at
  BY <1>0, <1>1, <1>2
<1>7. ContextsOK(fluff_txs', flush_time')
  <2> HIDE DEF at
  <2>1. ASSUME NEW c \in Contexts, fluff_txs'[c] # {} PROVE at[c] \in 0..MaxDelay
    <3>1. CASE c \in to
      BY <1>5, <3>1
    <3>2. CASE c \notin to
      BY <1>0, <1>2, <1>3, <1>6, <2>1, <3>2
    <3> QED
      BY <3>1, <3>2
  <2> QED
    BY <1>0, <1>5, <1>6, <2>1 DEF ContextsOK
<1>8. TimerOK(flush_callbacks', expiry', armed', posted')
  <2>1. CASE to # {} /\ SetsTimer(next)
    <3>1. {at[c] : c \in to} \in SUBSET (0..MaxDelay) /\ {at[c] : c \in to} # {}
      BY <1>5, <2>1
    <3>2. {at[c] : c \in to} \in SUBSET Nat
      BY <3>1
    <3>3. next \in {at[c] : c \in to}
      BY <3>1, <3>2, LeastOf
    <3>4. next \in 0..MaxDelay
      BY <3>1, <3>3
    <3>5. QueueFlush(flush_callbacks, posted, next)
      BY <1>1, <2>1
    <3> HIDE DEF next
    <3>6. armed \in BOOLEAN /\ posted \in Seq(BOOLEAN) /\ flush_callbacks = Len(posted) + (IF armed THEN 1 ELSE 0)
      BY DEF TimerOK
    <3> QED
      BY <3>4, <3>5, <3>6, QueueFlushOK, Zenon
  <2>2. CASE ~(to # {} /\ SetsTimer(next))
    <3>1. UNCHANGED timerVars
      BY <1>1, <2>2
    <3>2. flush_callbacks' = flush_callbacks /\ expiry' = expiry /\ armed' = armed /\ posted' = posted
      BY <3>1, Zenon DEF timerVars
    <3> QED
      BY <3>2, Zenon DEF TimerOK
  <2> QED
    BY <2>1, <2>2
<1> QED
  BY <1>7, <1>8

\* fluff_flush
LEMMA FluffFlushOK ==
  ASSUME ContextsOK(fluff_txs, flush_time), TimerOK(flush_callbacks, expiry, armed, posted), FluffFlush
  PROVE  ContextsOK(fluff_txs', flush_time') /\ TimerOK(flush_callbacks', expiry', armed', posted')
<1> DEFINE left == {c \in Contexts : fluff_txs[c] # {} /\ ~(flush_time[c] = 0 \/ Head(posted))}
<1>0. /\ Contexts \subseteq ZoneConns /\ fluff_txs \in [Contexts -> SUBSET RelayTxs]
      /\ flush_time \in [Contexts -> 0..Never]
      /\ \A c \in Contexts : fluff_txs[c] # {} => flush_time[c] \in 0..MaxDelay
  BY DEF ContextsOK, Contexts
<1>1. /\ armed \in BOOLEAN /\ posted \in Seq(BOOLEAN) /\ expiry \in 0..MaxDelay
      /\ flush_callbacks = Len(posted) + (IF armed THEN 1 ELSE 0)
  BY DEF TimerOK
<1>2. posted # << >>
  BY DEF FluffFlush
<1>3. Tail(posted) \in Seq(BOOLEAN) /\ Len(Tail(posted)) = Len(posted) - 1 /\ Len(posted) \in Nat /\ Len(posted) # 0
  <2>1. Tail(posted) \in Seq(BOOLEAN) /\ Len(Tail(posted)) = Len(posted) - 1
    BY <1>1, <1>2, HeadTailProperties, Zenon
  <2>2. Len(posted) \in Nat
    BY <1>1, LenProperties, Zenon
  <2>3. Len(posted) # 0
    BY <1>1, <1>2, EmptySeq, Zenon
  <2> QED
    BY <2>1, <2>2, <2>3
<1>4. CASE flush_callbacks > 1
  <2>1. /\ flush_callbacks' = flush_callbacks - 1 /\ posted' = Tail(posted)
        /\ fluff_txs' = fluff_txs /\ flush_time' = flush_time /\ expiry' = expiry /\ armed' = armed
    BY <1>4 DEF FluffFlush, contextVars
  <2>2. flush_callbacks' = Len(posted') + (IF armed' THEN 1 ELSE 0)
    <3>1. CASE armed
      BY <1>1, <1>3, <2>1, <3>1
    <3>2. CASE ~armed
      BY <1>1, <1>3, <2>1, <3>2
    <3> QED
      BY <3>1, <3>2
  <2>3. TimerOK(flush_callbacks', expiry', armed', posted')
    <3>1. expiry' \in 0..MaxDelay /\ armed' \in BOOLEAN /\ posted' \in Seq(BOOLEAN)
      BY <1>1, <1>3, <2>1, Zenon
    <3> QED
      BY <2>2, <3>1, Zenon DEF TimerOK
  <2>4. ContextsOK(fluff_txs', flush_time')
    BY <2>1
  <2> QED
    BY <2>3, <2>4
<1>5. CASE ~(flush_callbacks > 1)
  <2>1. ~armed /\ Len(posted) = 1 /\ Len(Tail(posted)) = 0
    <3>1. CASE armed
      BY <1>1, <1>3, <1>5, <3>1
    <3>2. CASE ~armed
      BY <1>1, <1>3, <1>5, <3>2
    <3> QED
      BY <3>1, <3>2
  <2>2. /\ fluff_txs' = [c \in Contexts |-> IF c \in left THEN fluff_txs[c] ELSE {}]
        /\ flush_time' = [c \in Contexts |-> IF c \in left THEN flush_time[c] ELSE Never]
        /\ IF Rearms(left) THEN QueueFlush(0, Tail(posted), Least({flush_time[c] : c \in left}))
           ELSE flush_callbacks' = 0 /\ posted' = Tail(posted) /\ UNCHANGED <<expiry, armed>>
    BY <1>5 DEF FluffFlush
  <2>3. left \subseteq Contexts /\ \A c \in left : fluff_txs[c] # {}
    OBVIOUS
  <2> HIDE DEF left
  <2>4. ContextsOK(fluff_txs', flush_time')
    <3>1. fluff_txs' \in [Contexts -> SUBSET RelayTxs] /\ DOMAIN fluff_txs' = Contexts
      BY <1>0, <2>2
    <3>2. Never \in 0..Never
      BY TimeTypes
    <3>3. flush_time' \in [Contexts -> 0..Never]
      BY <1>0, <2>2, <3>2
    <3>4. ASSUME NEW c \in Contexts, fluff_txs'[c] # {} PROVE flush_time'[c] \in 0..MaxDelay
      <4>1. c \in left
        BY <2>2, <3>4
      <4> QED
        BY <1>0, <2>2, <2>3, <4>1
    <3> QED
      BY <1>0, <3>1, <3>3, <3>4 DEF ContextsOK
  <2>5. TimerOK(flush_callbacks', expiry', armed', posted')
    <3>1. CASE Rearms(left)
      <4> DEFINE next == Least({flush_time[c] : c \in left})
      <4>1. {flush_time[c] : c \in left} \in SUBSET (0..MaxDelay) /\ {flush_time[c] : c \in left} # {}
        BY <1>0, <2>3, <3>1 DEF Rearms
      <4>2. {flush_time[c] : c \in left} \in SUBSET Nat
        BY <4>1
      <4>3. next \in {flush_time[c] : c \in left}
        BY <4>1, <4>2, LeastOf
      <4>4. next \in 0..MaxDelay
        BY <4>1, <4>3
      <4>5. QueueFlush(0, Tail(posted), next)
        BY <2>2, <3>1
      <4> HIDE DEF next
      <4>6. 0 = Len(Tail(posted)) + (IF armed THEN 1 ELSE 0)
        BY <2>1
      <4> QED
        BY <1>1, <1>3, <4>4, <4>5, <4>6, QueueFlushOK, Zenon
    <3>2. CASE ~Rearms(left)
      <4>1. flush_callbacks' = 0 /\ posted' = Tail(posted) /\ expiry' = expiry /\ armed' = armed
        BY <2>2, <3>2
      <4>2. flush_callbacks' = Len(posted') + (IF armed' THEN 1 ELSE 0)
        BY <2>1, <4>1
      <4>3. expiry' \in 0..MaxDelay /\ armed' \in BOOLEAN /\ posted' \in Seq(BOOLEAN)
        BY <1>1, <1>3, <4>1, Zenon
      <4> QED
        BY <4>2, <4>3, Zenon DEF TimerOK
    <3> QED
      BY <3>1, <3>2
  <2> QED
    BY <2>4, <2>5
<1> QED
  BY <1>4, <1>5

-----------------------------------------------------------------------------
(* The zone without noise: its invariant *)

ZoneInv ==
  /\ zone_public \in BOOLEAN /\ p2p \subseteq ZoneConns /\ fluffing \in BOOLEAN
  /\ ContextsOK(fluff_txs, flush_time)
  /\ TimerOK(flush_callbacks, expiry, armed, posted)
  /\ StemsOK(stem_map, last_stem)

\* A new zone satisfies the invariant.
LEMMA ZoneInitInv == ZoneInit => ZoneInv
<1> SUFFICES ASSUME ZoneInit PROVE ZoneInv
  OBVIOUS
<1>1. zone_public \in BOOLEAN
  <2>1. PICK b \in ZoneBounds : zone_public = b.public
    BY DEF ZoneInit
  <2>2. b \in [public: BOOLEAN, sends: Nat, moves: Nat]
    BY FluffAssumption
  <2> QED
    BY <2>1, <2>2
<1>2. p2p \subseteq ZoneConns /\ fluffing \in BOOLEAN
  BY DEF ZoneInit
<1>3. ContextsOK(fluff_txs, flush_time)
  <2>1. fluff_txs = [c \in ZoneConns |-> {}] /\ flush_time = [c \in ZoneConns |-> Never]
    BY DEF ZoneInit
  <2>2. Never \in 0..Never
    BY TimeTypes
  <2> QED
    BY <2>1, <2>2 DEF ContextsOK
<1>4. TimerOK(flush_callbacks, expiry, armed, posted)
  <2>1. flush_callbacks = 0 /\ expiry = 0 /\ ~armed /\ armed \in BOOLEAN /\ posted = << >>
    BY DEF ZoneInit
  <2>2. posted \in Seq(BOOLEAN) /\ Len(posted) = 0
    BY <2>1, EmptySeq
  <2>3. 0 \in 0..MaxDelay
    BY TimeTypes
  <2> QED
    BY <2>1, <2>2, <2>3 DEF TimerOK
<1>5. StemsOK(stem_map, last_stem)
  <2>1. stem_map \in NewMaps({}) /\ last_stem = NoStem
    BY DEF ZoneInit
  <2>2. MapOK(stem_map)
    <3>1. {} \in SUBSET ZoneConns
      OBVIOUS
    <3> QED
      BY <2>1, <3>1, NewMapsOK
  <2>3. last_stem \in [RelaySources -> Sources] /\ \A s \in RelaySources : last_stem[s] = NilConn
    BY <2>1 DEF NoStem, Sources
  <2> QED
    BY <2>2, <2>3 DEF StemsOK
<1> QED
  BY <1>1, <1>2, <1>3, <1>4, <1>5 DEF ZoneInv

\* Parts of the invariant that a step leaves alone.
LEMMA SameStems ==
  ASSUME ZoneInv, UNCHANGED <<stem_map, last_stem>>
  PROVE  StemsOK(stem_map', last_stem') /\ StemStep(last_stem, last_stem', stem_map')
<1>1. stem_map' = stem_map /\ last_stem' = last_stem
  OBVIOUS
<1>2. StemsOK(stem_map', last_stem')
  BY <1>1, Zenon DEF ZoneInv
<1> QED
  BY <1>1, <1>2 DEF StemStep

\* Steps that leave the timer alone keep its part of the invariant.
LEMMA SameTimer ==
  ASSUME ZoneInv, UNCHANGED timerVars
  PROVE  TimerOK(flush_callbacks', expiry', armed', posted')
<1>1. flush_callbacks' = flush_callbacks /\ expiry' = expiry /\ armed' = armed /\ posted' = posted
  BY Zenon DEF timerVars
<1> QED
  BY <1>1, Zenon DEF ZoneInv

\* Steps that leave the contexts alone keep their part of the invariant.
LEMMA SameContexts ==
  ASSUME ZoneInv, UNCHANGED contextVars
  PROVE  ContextsOK(fluff_txs', flush_time')
BY Zenon DEF ZoneInv, contextVars

\* The timer posts a callback: it expired, or it was cancelled.
LEMMA TimerPosts ==
  ASSUME ZoneInv, armed, NEW b \in BOOLEAN, armed' = FALSE, posted' = Append(posted, b),
         UNCHANGED <<flush_callbacks, expiry>>
  PROVE  TimerOK(flush_callbacks', expiry', armed', posted')
<1>1. /\ posted \in Seq(BOOLEAN) /\ expiry \in 0..MaxDelay
      /\ flush_callbacks = Len(posted) + (IF armed THEN 1 ELSE 0)
  BY DEF ZoneInv, TimerOK
<1>2. posted' \in Seq(BOOLEAN) /\ Len(posted') = Len(posted) + 1 /\ Len(posted) \in Nat
  BY <1>1, PostTimer, Zenon
<1>3. flush_callbacks = Len(posted) + 1
  BY <1>1
<1>4. flush_callbacks' = Len(posted') /\ expiry' \in 0..MaxDelay
  BY <1>1, <1>2, <1>3
<1>5. flush_callbacks' = Len(posted') + (IF armed' THEN 1 ELSE 0)
  BY <1>2, <1>4
<1> QED
  BY <1>2, <1>4, <1>5 DEF TimerOK

\* Every step of a zone keeps the invariant, and no source changes a stem that is
\* still connected.
LEMMA ZoneStepInv ==
  ASSUME ZoneInv, [ZoneNext]_zoneVars
  PROVE  ZoneInv' /\ StemStep(last_stem, last_stem', stem_map')
<1>0. /\ zone_public \in BOOLEAN /\ p2p \subseteq ZoneConns /\ fluffing \in BOOLEAN
      /\ ContextsOK(fluff_txs, flush_time) /\ TimerOK(flush_callbacks, expiry, armed, posted)
      /\ StemsOK(stem_map, last_stem)
  BY DEF ZoneInv
<1>z. ASSUME zone_public' \in BOOLEAN, p2p' \subseteq ZoneConns, fluffing' \in BOOLEAN,
             ContextsOK(fluff_txs', flush_time'), TimerOK(flush_callbacks', expiry', armed', posted'),
             StemsOK(stem_map', last_stem')
      PROVE  ZoneInv'
  BY <1>z DEF ZoneInv
<1>1. ASSUME NEW c \in ZoneConns, Connect(c) \/ Disconnect(c) PROVE ZoneInv' /\ StemStep(last_stem, last_stem', stem_map')
  <2>1. /\ p2p' \in {p2p \cup {c}, p2p \ {c}}
        /\ UNCHANGED <<zone_public, contextVars, mapVars, timerVars>>
    BY <1>1 DEF Connect, Disconnect
  <2>2. UNCHANGED <<stem_map, fluffing, last_stem>> /\ UNCHANGED timerVars /\ UNCHANGED contextVars /\ UNCHANGED zone_public
    BY <2>1 DEF mapVars
  <2>3. p2p' \subseteq ZoneConns /\ fluffing' \in BOOLEAN /\ zone_public' \in BOOLEAN
    BY <1>0, <2>1, <2>2
  <2> QED
    BY <1>z, <2>2, <2>3, SameStems, SameTimer, SameContexts
<1>2. ASSUME NEW c \in ZoneConns, HandshakeComplete(c) \/ ConnectionClose(c)
      PROVE  ZoneInv' /\ StemStep(last_stem, last_stem', stem_map')
  <2>1. /\ UNCHANGED <<zone_public, p2p, mapVars, timerVars>>
        /\ \E D \in SUBSET ZoneConns :
             /\ fluff_txs' = [d \in D |-> IF d \in Contexts /\ d # c THEN fluff_txs[d] ELSE {}]
             /\ flush_time' = [d \in D |-> IF d \in Contexts /\ d # c THEN flush_time[d] ELSE Never]
    <3>0. Contexts \subseteq ZoneConns
      BY <1>0 DEF ContextsOK, Contexts
    <3>1. CASE HandshakeComplete(c)
      <4>1. /\ UNCHANGED <<zone_public, p2p, mapVars, timerVars>>
            /\ fluff_txs' = [d \in Contexts \cup {c} |-> IF d = c THEN {} ELSE fluff_txs[d]]
            /\ flush_time' = [d \in Contexts \cup {c} |-> IF d = c THEN Never ELSE flush_time[d]]
        BY <3>1 DEF HandshakeComplete
      <4>2. /\ fluff_txs' = [d \in Contexts \cup {c} |-> IF d \in Contexts /\ d # c THEN fluff_txs[d] ELSE {}]
            /\ flush_time' = [d \in Contexts \cup {c} |-> IF d \in Contexts /\ d # c THEN flush_time[d] ELSE Never]
        BY <4>1
      <4>3. Contexts \cup {c} \in SUBSET ZoneConns
        BY <3>0
      <4> QED
        BY <4>1, <4>2, <4>3
    <3>2. CASE ConnectionClose(c)
      <4>1. /\ UNCHANGED <<zone_public, p2p, mapVars, timerVars>>
            /\ fluff_txs' = [d \in Contexts \ {c} |-> fluff_txs[d]]
            /\ flush_time' = [d \in Contexts \ {c} |-> flush_time[d]]
        BY <3>2 DEF ConnectionClose
      <4>2. /\ fluff_txs' = [d \in Contexts \ {c} |-> IF d \in Contexts /\ d # c THEN fluff_txs[d] ELSE {}]
            /\ flush_time' = [d \in Contexts \ {c} |-> IF d \in Contexts /\ d # c THEN flush_time[d] ELSE Never]
        BY <4>1
      <4>3. Contexts \ {c} \in SUBSET ZoneConns
        BY <3>0
      <4> QED
        BY <4>1, <4>2, <4>3
    <3> QED
      BY <1>2, <3>1, <3>2
  <2>2. PICK D \in SUBSET ZoneConns :
             /\ fluff_txs' = [d \in D |-> IF d \in Contexts /\ d # c THEN fluff_txs[d] ELSE {}]
             /\ flush_time' = [d \in D |-> IF d \in Contexts /\ d # c THEN flush_time[d] ELSE Never]
    BY <2>1
  <2>3. ContextsOK(fluff_txs', flush_time')
    <3>1. Never \in 0..Never
      BY TimeTypes
    <3>2. /\ fluff_txs \in [Contexts -> SUBSET RelayTxs]
          /\ flush_time \in [Contexts -> 0..Never]
          /\ \A d \in Contexts : fluff_txs[d] # {} => flush_time[d] \in 0..MaxDelay
      BY <1>0 DEF ContextsOK, Contexts
    <3>3. DOMAIN fluff_txs' = D /\ fluff_txs' \in [D -> SUBSET RelayTxs]
      BY <2>2, <3>2
    <3>4. flush_time' \in [D -> 0..Never]
      BY <2>2, <3>1, <3>2
    <3>5. \A d \in D : fluff_txs'[d] # {} => flush_time'[d] \in 0..MaxDelay
      BY <2>2, <3>2
    <3> QED
      BY <3>3, <3>4, <3>5 DEF ContextsOK
  <2>4. UNCHANGED <<stem_map, fluffing, last_stem>> /\ UNCHANGED timerVars /\ UNCHANGED <<zone_public, p2p>>
    BY <2>1 DEF mapVars
  <2>5. p2p' \subseteq ZoneConns /\ fluffing' \in BOOLEAN /\ zone_public' \in BOOLEAN
    BY <1>0, <2>4
  <2> QED
    BY <1>z, <2>3, <2>4, <2>5, SameStems, SameTimer
<1>3. ASSUME StartEpoch PROVE ZoneInv' /\ StemStep(last_stem, last_stem', stem_map')
  <2>1. /\ \E cs \in OutConnections : stem_map' \in NewMaps(cs)
        /\ fluffing' \in BOOLEAN /\ last_stem' = NoStem
        /\ UNCHANGED <<zone_public, p2p>> /\ UNCHANGED contextVars /\ UNCHANGED timerVars
    BY <1>3 DEF StartEpoch
  <2>2. MapOK(stem_map')
    <3>1. PICK cs \in OutConnections : stem_map' \in NewMaps(cs)
      BY <2>1
    <3>2. cs \in SUBSET ZoneConns
      BY <1>0 DEF OutConnections
    <3> QED
      BY <3>1, <3>2, NewMapsOK
  <2>3. last_stem' \in [RelaySources -> Sources] /\ \A s \in RelaySources : last_stem'[s] = NilConn
    BY <2>1 DEF NoStem, Sources
  <2>4. StemsOK(stem_map', last_stem') /\ StemStep(last_stem, last_stem', stem_map')
    BY <2>2, <2>3 DEF StemsOK, StemStep
  <2>5. p2p' \subseteq ZoneConns /\ zone_public' \in BOOLEAN
    BY <1>0, <2>1
  <2> QED
    BY <1>z, <2>1, <2>4, <2>5, SameTimer, SameContexts
<1>4. ASSUME NEW t \in RelayTxs, NEW s \in RelaySources, NEW relay, SendTxs(t, s, relay)
      PROVE  ZoneInv' /\ StemStep(last_stem, last_stem', stem_map')
  <2>1. /\ Stem(t, s) \/ (Fluff(t, s) /\ UNCHANGED <<stem_map, last_stem>>)
        /\ UNCHANGED <<zone_public, p2p, fluffing>>
    BY <1>4 DEF SendTxs
  <2>2. /\ StemsOK(stem_map', last_stem') /\ StemStep(last_stem, last_stem', stem_map')
        /\ Fluff(t, s) \/ UNCHANGED <<contextVars, timerVars>>
    <3>1. CASE Stem(t, s)
      BY <1>0, <3>1, StemOK
    <3>2. CASE Fluff(t, s) /\ UNCHANGED <<stem_map, last_stem>>
      BY <3>2, SameStems
    <3> QED
      BY <2>1, <3>1, <3>2
  <2>3. ContextsOK(fluff_txs', flush_time') /\ TimerOK(flush_callbacks', expiry', armed', posted')
    <3>1. CASE Fluff(t, s)
      BY <1>0, <3>1, FluffOK
    <3>2. CASE UNCHANGED <<contextVars, timerVars>>
      BY <3>2, SameTimer, SameContexts
    <3> QED
      BY <2>2, <3>1, <3>2
  <2>4. p2p' \subseteq ZoneConns /\ fluffing' \in BOOLEAN /\ zone_public' \in BOOLEAN
    BY <1>0, <2>1
  <2> QED
    BY <1>z, <2>2, <2>3, <2>4
<1>5. ASSUME Tick PROVE ZoneInv' /\ StemStep(last_stem, last_stem', stem_map')
  <2>1. /\ expiry' = Earlier(expiry) /\ flush_time' = [c \in Contexts |-> Earlier(flush_time[c])]
        /\ UNCHANGED <<zone_public, p2p, fluff_txs, mapVars, flush_callbacks, armed, posted>>
    BY <1>5 DEF Tick
  <2>2. /\ \A at \in 0..Never : Earlier(at) \in 0..Never
        /\ \A at \in 0..MaxDelay : Earlier(at) \in 0..MaxDelay
    BY TimeTypes DEF Earlier
  <2>3. ContextsOK(fluff_txs', flush_time')
    <3>1. /\ Contexts \subseteq ZoneConns /\ fluff_txs \in [Contexts -> SUBSET RelayTxs]
          /\ flush_time \in [Contexts -> 0..Never] /\ DOMAIN fluff_txs = Contexts
          /\ \A d \in Contexts : fluff_txs[d] # {} => flush_time[d] \in 0..MaxDelay
      BY <1>0 DEF ContextsOK, Contexts
    <3>2. fluff_txs' = fluff_txs
      BY <2>1
    <3>3. flush_time' \in [Contexts -> 0..Never] /\ \A c \in Contexts : flush_time'[c] = Earlier(flush_time[c])
      BY <2>1, <2>2, <3>1
    <3> QED
      BY <2>2, <3>1, <3>2, <3>3 DEF ContextsOK
  <2>4. TimerOK(flush_callbacks', expiry', armed', posted')
    <3>1. expiry' \in 0..MaxDelay
      BY <1>0, <2>1, <2>2 DEF TimerOK
    <3>2. flush_callbacks' = flush_callbacks /\ armed' = armed /\ posted' = posted
      BY <2>1
    <3> QED
      BY <1>0, <3>1, <3>2, Zenon DEF TimerOK
  <2>5. UNCHANGED <<stem_map, last_stem, zone_public, p2p, fluffing>>
    BY <2>1 DEF mapVars
  <2>6. p2p' \subseteq ZoneConns /\ fluffing' \in BOOLEAN /\ zone_public' \in BOOLEAN
    BY <1>0, <2>5
  <2> QED
    BY <1>z, <2>3, <2>4, <2>5, <2>6, SameStems
<1>6. ASSUME TimerExpires \/ RunFluff PROVE ZoneInv' /\ StemStep(last_stem, last_stem', stem_map')
  <2>1. /\ UNCHANGED <<zone_public, p2p, contextVars, mapVars>>
        /\ TimerOK(flush_callbacks', expiry', armed', posted')
    <3>1. CASE TimerExpires
      <4>1. armed /\ armed' = FALSE /\ posted' = Append(posted, FALSE) /\ UNCHANGED <<flush_callbacks, expiry>>
        BY <3>1 DEF TimerExpires
      <4>2. FALSE \in BOOLEAN
        OBVIOUS
      <4>3. TimerOK(flush_callbacks', expiry', armed', posted')
        BY <4>1, <4>2, TimerPosts, Zenon
      <4> QED
        BY <3>1, <4>3 DEF TimerExpires
    <3>2. CASE RunFluff
      <4>1. armed /\ armed' = FALSE /\ posted' = Append(posted, TRUE) /\ UNCHANGED <<flush_callbacks, expiry>>
        BY <3>2 DEF RunFluff
      <4>2. TRUE \in BOOLEAN
        OBVIOUS
      <4>3. TimerOK(flush_callbacks', expiry', armed', posted')
        BY <4>1, <4>2, TimerPosts, Zenon
      <4> QED
        BY <3>2, <4>3 DEF RunFluff
    <3> QED
      BY <1>6, <3>1, <3>2
  <2>2. UNCHANGED <<stem_map, last_stem, zone_public, p2p, fluffing>> /\ UNCHANGED contextVars
    BY <2>1 DEF mapVars
  <2>3. p2p' \subseteq ZoneConns /\ fluffing' \in BOOLEAN /\ zone_public' \in BOOLEAN
    BY <1>0, <2>2
  <2> QED
    BY <1>z, <2>1, <2>2, <2>3, SameStems, SameContexts
<1>7. ASSUME FluffFlush PROVE ZoneInv' /\ StemStep(last_stem, last_stem', stem_map')
  <2>1. UNCHANGED <<stem_map, last_stem, zone_public, p2p, fluffing>>
    BY <1>7 DEF FluffFlush, mapVars
  <2>2. p2p' \subseteq ZoneConns /\ fluffing' \in BOOLEAN /\ zone_public' \in BOOLEAN
    BY <1>0, <2>1
  <2> QED
    BY <1>z, <1>0, <1>7, <2>1, <2>2, FluffFlushOK, SameStems
<1>8. ASSUME ZoneDone \/ UNCHANGED zoneVars PROVE ZoneInv' /\ StemStep(last_stem, last_stem', stem_map')
  <2>1. UNCHANGED <<stem_map, last_stem, zone_public, p2p, fluffing>> /\ UNCHANGED contextVars /\ UNCHANGED timerVars
    BY <1>8 DEF ZoneDone, zoneVars, contextVars, timerVars
  <2>2. p2p' \subseteq ZoneConns /\ fluffing' \in BOOLEAN /\ zone_public' \in BOOLEAN
    BY <1>0, <2>1
  <2> QED
    BY <1>z, <2>1, <2>2, SameStems, SameTimer, SameContexts
<1> QED
  BY <1>1, <1>2, <1>3, <1>4, <1>5, <1>6, <1>7, <1>8 DEF ZoneNext

\* What the invariant of the zone says in the words of FluffZone.
LEMMA ZoneInvFacts == ZoneInv => ZoneTypeOK /\ StemMapSound /\ CallbacksExact
<1> SUFFICES ASSUME ZoneInv PROVE ZoneTypeOK /\ StemMapSound /\ CallbacksExact
  OBVIOUS
<1>1. StemMapSound
  BY DEF ZoneInv, StemsOK, MapOK, StemMapSound
<1>2. CallbacksExact /\ flush_callbacks \in Nat
  <2>1. Len(posted) \in Nat
    BY LenProperties, Zenon DEF ZoneInv, TimerOK
  <2>2. flush_callbacks = Len(posted) + (IF armed THEN 1 ELSE 0)
    BY DEF ZoneInv, TimerOK
  <2> QED
    BY <2>1, <2>2 DEF CallbacksExact
<1>3. stem_map \in Maps /\ \A s \in DOMAIN stem_map.in : stem_map.in[s] \in DOMAIN stem_map.out
  BY DEF ZoneInv, StemsOK, MapOK
<1>4. /\ DOMAIN stem_map.in \subseteq Sources
      /\ \A i \in DOMAIN stem_map.out : stem_map.out[i] \in Sources
      /\ \A i \in DOMAIN stem_map.usage : stem_map.usage[i] \in Nat
  BY <1>3, MapParts
<1>5. expiry \in 0..MaxDelay /\ armed \in BOOLEAN /\ posted \in Seq(BOOLEAN)
  BY DEF ZoneInv, TimerOK
<1>6. /\ Contexts \subseteq ZoneConns /\ DOMAIN flush_time = Contexts
      /\ \A c \in Contexts : fluff_txs[c] \subseteq RelayTxs /\ flush_time[c] \in 0..Never
  BY DEF ZoneInv, ContextsOK, Contexts
<1>7. zone_public \in BOOLEAN /\ p2p \subseteq ZoneConns /\ fluffing \in BOOLEAN /\ last_stem \in [RelaySources -> Sources]
  BY DEF ZoneInv, StemsOK
<1> QED
  BY <1>1, <1>2, <1>3, <1>4, <1>5, <1>6, <1>7 DEF ZoneTypeOK

\* However connections come and go, transactions arrive, epochs change and the
\* timer fires late or is cancelled, the zone's map, contexts, callbacks and last
\* stems satisfy the inductive invariant.
THEOREM ZoneInvariant == ZoneSpec => []ZoneInv
<1>1. ZoneInv /\ [ZoneNext]_zoneVars => ZoneInv'
  BY ZoneStepInv
<1> QED
  BY <1>1, ZoneInitInv, PTL DEF ZoneSpec

\* connection_map: the usage of every stem is the number of sources mapped to it,
\* and no connection is the stem of two places, through get_stem and update.
THEOREM StemMapIsSound == ZoneSpec => []StemMapSound
<1>1. ZoneInv => StemMapSound
  BY ZoneInvFacts
<1> QED
  BY <1>1, ZoneInvariant, PTL

\* zone.flush_callbacks is exactly the number of fluff_flush callbacks that are
\* armed or posted: the counter never underflows and none is forgotten.
THEOREM CallbacksAreExact == ZoneSpec => []CallbacksExact
<1>1. ZoneInv => CallbacksExact
  BY ZoneInvFacts
<1> QED
  BY <1>1, ZoneInvariant, PTL

\* dandelionpp_notify sends what a source relays to the same stem for as long as
\* that stem is connected; a source that moves left a stem that is out of the map.
THEOREM SourcesKeepTheirStem == ZoneSpec => OneStemPerSource
<1>1. ZoneInv /\ [ZoneNext]_zoneVars => StemStep(last_stem, last_stem', stem_map')
  BY ZoneStepInv
<1>2. ZoneInv /\ [ZoneNext]_zoneVars =>
      [\A s \in RelaySources :
         last_stem[s] # NilConn /\ last_stem'[s] \notin {NilConn, last_stem[s]}
           => last_stem[s] \notin InUse(stem_map')]_zoneVars
  BY <1>1 DEF StemStep
<1> QED
  BY <1>2, ZoneInvariant, PTL DEF ZoneSpec, OneStemPerSource

-----------------------------------------------------------------------------
(* The noise channels *)

ZonePosts == {Merge(cs) : cs \in SUBSET ZoneConns} \cup {Replace(m) : m \in {x \in Maps : MapOK(x)}}
ChannelPosts == {UpdateTo(c) : c \in Sources} \cup {QueueMsg(m) : m \in Messages}

\* The first n fragments of a message over the connection c.
SentOver(c, n) == [k \in 1..n |-> <<c, k>>]

\* The place in the first message is within it, and what came before it went
\* over the channel's connection.
PartsOK(i) ==
  active_part[i] > 0 =>
    /\ queued[i] # << >> /\ active_part[i] < Fragments[Head(queued[i])]
    /\ run[i] = SentOver(connection[i], active_part[i])

NoiseInv ==
  /\ outs \subseteq Peers
  /\ MapOK(noise_map) /\ connection_count = MapSize(noise_map)
  /\ zone_posts \in Seq(ZonePosts)
  /\ ch_posts \in [Channels -> Seq(ChannelPosts)]
  /\ connection \in [Channels -> Sources]
  /\ queued \in [Channels -> Seq(Messages)]
  /\ active_part \in [Channels -> Nat]
  /\ run \in [Channels -> Seq(Sources \X Nat)]
  /\ \A i \in Channels : PartsOK(i)

\* The number of a map's connections.
LEMMA MapSizeOK ==
  ASSUME NEW m, MapOK(m)
  PROVE  MapSize(m) \in 0..Stems
<1>1. m \in Maps /\ Len(m.out) <= Stems
  BY DEF MapOK, StemsDistinct
<1>2. DOMAIN m.out = 1..Len(m.out) /\ Len(m.out) \in Nat
  BY <1>1, MapParts
<1> DEFINE D == {i \in DOMAIN m.out : m.out[i] # NilConn}
<1>3. IsFiniteSet(1..Stems) /\ Cardinality(1..Stems) = Stems /\ Stems \in Nat
  BY SourcesFinite, UpTo
<1>4. D \subseteq 1..Stems
  BY <1>1, <1>2, <1>3
<1> HIDE DEF D
<1>5. IsFiniteSet(D) /\ Cardinality(D) <= Stems
  BY <1>3, <1>4, FS_Subset
<1>6. Cardinality(D) \in Nat
  BY <1>5, FS_CardinalityType
<1> QED
  BY <1>3, <1>5, <1>6 DEF D, MapSize

\* One more fragment.
LEMMA SentOverGrows ==
  ASSUME NEW c \in Sources, NEW n \in Nat
  PROVE  /\ SentOver(c, n) \in Seq(Sources \X Nat)
         /\ Append(SentOver(c, n), <<c, n + 1>>) = SentOver(c, n + 1)
         /\ Append(<< >>, <<c, 1>>) = SentOver(c, 1)
<1>1. ASSUME NEW k \in Nat PROVE SentOver(c, k) \in Seq(Sources \X Nat) /\ Len(SentOver(c, k)) = k
  BY DEF SentOver
<1>2. Append(SentOver(c, n), <<c, n + 1>>) = SentOver(c, n + 1)
  <2> DEFINE s == SentOver(c, n)
             e == <<c, n + 1>>
             a == Append(s, e)
  <2>1. s \in Seq(Sources \X Nat) /\ Len(s) = n /\ e \in Sources \X Nat
    <3>1. n + 1 \in Nat
      OBVIOUS
    <3>2. e \in Sources \X Nat
      BY <3>1
    <3>3. s \in Seq(Sources \X Nat) /\ Len(s) = n
      BY <1>1
    <3> QED
      BY <3>2, <3>3
  <2>2. \A k \in 1..n : s[k] = <<c, k>>
    BY DEF SentOver
  <2> HIDE DEF s, e
  <2>3. /\ a \in Seq(Sources \X Nat) /\ Len(a) = n + 1 /\ a[n + 1] = e
        /\ \A k \in 1..n : a[k] = s[k]
    BY <2>1
  <2> HIDE DEF a
  <2>4. \A k \in 1..n + 1 : a[k] = <<c, k>>
    <3>1. ASSUME NEW k \in 1..n + 1 PROVE a[k] = <<c, k>>
      <4>1. CASE k \in 1..n
        BY <2>2, <2>3, <4>1
      <4>2. CASE k = n + 1
        BY <2>3, <4>2 DEF e
      <4> QED
        BY <4>1, <4>2
    <3> QED
      BY <3>1
  <2>5. a = [k \in 1..n + 1 |-> a[k]]
    BY <2>3
  <2>6. a = [k \in 1..n + 1 |-> <<c, k>>]
    BY <2>4, <2>5
  <2> QED
    BY <2>6 DEF SentOver, a, s, e
<1>3. Append(<< >>, <<c, 1>>) = SentOver(c, 1)
  BY DEF SentOver
<1> QED
  BY <1>1, <1>2, <1>3

\* A new noise zone satisfies the invariant.
LEMMA NoiseInitInv == NoiseInit => NoiseInv
<1> SUFFICES ASSUME NoiseInit PROVE NoiseInv
  OBVIOUS
<1>1. MapOK(noise_map) /\ outs \subseteq Peers
  BY NewMapsOK DEF NoiseInit
<1>2. connection_count = MapSize(noise_map)
  <2>1. noise_map \in NewMaps({}) /\ connection_count = 0
    BY DEF NoiseInit
  <2>2. PICK s \in Draws({}, Least({Stems, Cardinality({})})) :
          noise_map = [out |-> s, in |-> [x \in {} |-> 0], usage |-> [i \in 1..Stems |-> 0]]
    BY <2>1 DEF NewMaps
  <2>3. noise_map.out = s /\ \A i \in DOMAIN s : s[i] \in {}
    BY <2>2 DEF Draws
  <2>4. {i \in DOMAIN noise_map.out : noise_map.out[i] # NilConn} = {}
    BY <2>3
  <2> QED
    BY <2>1, <2>4, FS_EmptySet DEF MapSize
<1>3. /\ connection \in [Channels -> Sources] /\ queued \in [Channels -> Seq(Messages)]
      /\ active_part \in [Channels -> Nat] /\ run \in [Channels -> Seq(Sources \X Nat)]
      /\ \A i \in Channels : active_part[i] = 0
  BY DEF NoiseInit, Sources
<1>4. zone_posts \in Seq(ZonePosts) /\ ch_posts \in [Channels -> Seq(ChannelPosts)]
  BY DEF NoiseInit
<1> QED
  BY <1>1, <1>2, <1>3, <1>4 DEF NoiseInv, PartsOK

\* What update_channels::post and change_channels leave.
LEMMA PostMapOK ==
  ASSUME NoiseInv, NEW m, MapOK(m), PostMap(m)
  PROVE  /\ MapOK(noise_map') /\ connection_count' = MapSize(noise_map')
         /\ ch_posts' \in [Channels -> Seq(ChannelPosts)]
<1>1. MapOK(noise_map') /\ connection_count' = MapSize(noise_map')
  BY DEF PostMap
<1>2. \A i \in DOMAIN m.out : m.out[i] \in Sources
  BY MapParts DEF MapOK
<1>3. \A i \in DOMAIN m.out : UpdateTo(m.out[i]) \in ChannelPosts
  BY <1>2 DEF ChannelPosts
<1>4. \A i \in Channels : ch_posts[i] \in Seq(ChannelPosts)
  BY DEF NoiseInv
<1>5. \A i \in Channels : i \in DOMAIN m.out => Append(ch_posts[i], UpdateTo(m.out[i])) \in Seq(ChannelPosts)
  BY <1>3, <1>4, AppendProperties
<1>6. ch_posts' = [i \in Channels |-> IF i \in DOMAIN m.out THEN Append(ch_posts[i], UpdateTo(m.out[i])) ELSE ch_posts[i]]
  BY DEF PostMap
<1>7. ch_posts' \in [Channels -> Seq(ChannelPosts)]
  BY <1>4, <1>5, <1>6
<1> QED
  BY <1>1, <1>7

\* A message that leaves the queue of channel i was sent whole.
WholeStep(i) ==
  queued[i] # << >> /\ queued'[i] = Tail(queued[i]) /\ connection'[i] # NilConn
    => run'[i] = [k \in 1..Fragments[Head(queued[i])] |-> <<connection[i], k>>]

\* A queue is longer than its tail, and longer still with a message added.
LEMMA TailIsShorter ==
  ASSUME NEW q \in Seq(Messages), q # << >>
  PROVE  /\ q # Tail(q) /\ \A m \in Messages : Append(q, m) # Tail(q)
         /\ Tail(q) \in Seq(Messages) /\ Head(q) \in Messages
<1>1. Len(Tail(q)) = Len(q) - 1 /\ Tail(q) \in Seq(Messages) /\ Head(q) \in Messages /\ Len(q) \in Nat
  BY HeadTailProperties, LenProperties
<1>2. \A m \in Messages : Len(Append(q, m)) = Len(q) + 1
  BY AppendProperties
<1> DEFINE l == Len(q)
<1>3. q # Tail(q)
  <2>1. ASSUME q = Tail(q) PROVE l = l - 1
    BY <1>1, <2>1, Zenon
  <2> HIDE DEF l
  <2>2. l \in Nat
    BY <1>1 DEF l
  <2> QED
    BY <2>1, <2>2
<1>4. ASSUME NEW m \in Messages PROVE Append(q, m) # Tail(q)
  <2>1. ASSUME Append(q, m) = Tail(q) PROVE l + 1 = l - 1
    BY <1>1, <1>2, <2>1, Zenon
  <2> HIDE DEF l
  <2>2. l \in Nat
    BY <1>1 DEF l
  <2> QED
    BY <2>1, <2>2
<1> QED
  BY <1>1, <1>3, <1>4

\* Steps of the zone and of the connections: the channels are left alone.
LEMMA ChannelsAlone ==
  ASSUME NoiseInv, UNCHANGED <<connection, queued, active_part, run>>
  PROVE  /\ connection' \in [Channels -> Sources] /\ queued' \in [Channels -> Seq(Messages)]
         /\ active_part' \in [Channels -> Nat] /\ run' \in [Channels -> Seq(Sources \X Nat)]
         /\ \A i \in Channels : PartsOK(i)' /\ WholeStep(i)
<1>1. \A i \in Channels : PartsOK(i) /\ queued[i] \in Seq(Messages)
  BY DEF NoiseInv
<1>2. \A i \in Channels : PartsOK(i)'
  BY <1>1 DEF PartsOK
<1>3. ASSUME NEW i \in Channels, queued[i] # << >> PROVE queued[i] # Tail(queued[i])
  BY <1>1, <1>3, TailIsShorter
<1>4. \A i \in Channels : WholeStep(i)
  BY <1>3 DEF WholeStep
<1> QED
  BY <1>2, <1>4 DEF NoiseInv

\* What the strand of the zone is given to do, and what its posts hold.
LEMMA ZonePostsOK ==
  /\ \A cs \in SUBSET Peers : Merge(cs) \in ZonePosts
  /\ \A m : MapOK(m) => Replace(m) \in ZonePosts
  /\ \A p \in ZonePosts : /\ p.kind = "merge" => p.value \in SUBSET ZoneConns
                          /\ p.kind = "replace" => MapOK(p.value)
<1>1. \A cs \in SUBSET Peers : Merge(cs) \in ZonePosts
  BY NoiseAssumption DEF ZonePosts
<1>2. \A m : MapOK(m) => Replace(m) \in ZonePosts
  BY DEF ZonePosts, MapOK
<1>3. ASSUME NEW p \in ZonePosts
      PROVE  (p.kind = "merge" => p.value \in SUBSET ZoneConns) /\ (p.kind = "replace" => MapOK(p.value))
  <2>1. CASE p \in {Merge(cs) : cs \in SUBSET ZoneConns}
    BY <2>1 DEF Merge
  <2>2. CASE p \in {Replace(m) : m \in {x \in Maps : MapOK(x)}}
    BY <2>2 DEF Replace
  <2> QED
    BY <2>1, <2>2 DEF ZonePosts
<1> QED
  BY <1>1, <1>2, <1>3

\* What the strand of a channel is given to do, and what its posts hold.
LEMMA ChannelPostsOK ==
  /\ \A m \in Messages : QueueMsg(m) \in ChannelPosts
  /\ \A p \in ChannelPosts : /\ p.kind = "connection" => p.value \in Sources
                             /\ p.kind = "message" => p.value \in Messages
<1>1. \A m \in Messages : QueueMsg(m) \in ChannelPosts
  BY DEF ChannelPosts
<1>2. ASSUME NEW p \in ChannelPosts
      PROVE  (p.kind = "connection" => p.value \in Sources) /\ (p.kind = "message" => p.value \in Messages)
  <2>1. CASE p \in {UpdateTo(c) : c \in Sources}
    BY <2>1 DEF UpdateTo
  <2>2. CASE p \in {QueueMsg(m) : m \in Messages}
    BY <2>2 DEF QueueMsg
  <2> QED
    BY <2>1, <2>2 DEF ChannelPosts
<1> QED
  BY <1>1, <1>2

\* What the steps of the noise zone show.
NoiseStepOK == NoiseInv' /\ \A i \in Channels : WholeStep(i)

\* A connection that opens or is lost leaves the channels alone.
LEMMA NoiseConnectionsStep ==
  ASSUME NoiseInv, NEW c \in Peers, NewOutConnection(c) \/ LoseConnection(c)
  PROVE  NoiseStepOK
<1>1. /\ UNCHANGED <<connection, queued, active_part, run>>
      /\ noise_map' = noise_map /\ connection_count' = connection_count /\ ch_posts' = ch_posts
      /\ outs' \subseteq Peers
  BY DEF NewOutConnection, LoseConnection, channelVars, NoiseInv
<1>2. zone_posts' \in Seq(ZonePosts)
  <2>1. CASE zone_posts' = zone_posts
    BY <2>1 DEF NoiseInv
  <2>2. CASE zone_posts' = Append(zone_posts, Merge(outs'))
    <3>1. Merge(outs') \in ZonePosts
      BY <1>1, ZonePostsOK
    <3> QED
      BY <2>2, <3>1, AppendProperties DEF NoiseInv
  <2> QED
    BY <2>1, <2>2 DEF NewOutConnection, LoseConnection
<1>3. MapOK(noise_map') /\ connection_count' = MapSize(noise_map') /\ ch_posts' \in [Channels -> Seq(ChannelPosts)]
  BY <1>1 DEF NoiseInv
<1> QED
  BY <1>1, <1>2, <1>3, ChannelsAlone DEF NoiseStepOK, NoiseInv

\* The start of an epoch posts a new map.
LEMMA NoiseEpochStep ==
  ASSUME NoiseInv, NoiseEpoch
  PROVE  NoiseStepOK
<1>1. /\ UNCHANGED <<connection, queued, active_part, run>>
      /\ noise_map' = noise_map /\ connection_count' = connection_count /\ ch_posts' = ch_posts
      /\ outs' = outs
  BY DEF NoiseEpoch
<1>2. zone_posts' \in Seq(ZonePosts)
  <2>1. PICK m \in NewMaps(outs) : zone_posts' = <<Replace(m)>>
    BY DEF NoiseEpoch
  <2>2. outs \in SUBSET ZoneConns
    BY NoiseAssumption DEF NoiseInv
  <2>3. MapOK(m)
    BY <2>2, NewMapsOK
  <2>4. Replace(m) \in ZonePosts
    BY <2>3, ZonePostsOK
  <2> QED
    BY <2>1, <2>4
<1>3. MapOK(noise_map') /\ connection_count' = MapSize(noise_map') /\ ch_posts' \in [Channels -> Seq(ChannelPosts)]
  BY <1>1 DEF NoiseInv
<1> QED
  BY <1>1, <1>2, <1>3, ChannelsAlone DEF NoiseStepOK, NoiseInv

\* The strand of the zone merges connections or replaces the map, and posts the
\* connection of every channel.
LEMMA ZoneStrandStep ==
  ASSUME NoiseInv, ZoneStrand
  PROVE  NoiseStepOK
<1>1. UNCHANGED <<connection, queued, active_part, run>> /\ outs' = outs
  BY DEF ZoneStrand, channelVars
<1> DEFINE p == Head(zone_posts)
<1>2. p \in ZonePosts /\ zone_posts' \in Seq(ZonePosts)
  <2>1. zone_posts \in Seq(ZonePosts) /\ zone_posts # << >> /\ zone_posts' = Tail(zone_posts)
    BY DEF ZoneStrand, NoiseInv
  <2> QED
    BY <2>1, HeadTailProperties
<1>3. /\ MapOK(noise_map') /\ connection_count' = MapSize(noise_map')
      /\ ch_posts' \in [Channels -> Seq(ChannelPosts)]
  <2>1. CASE p.kind = "merge"
            /\ \E u \in Updates(noise_map, p.value) :
                 IF u.changed THEN PostMap(u.map) ELSE UNCHANGED <<noise_map, connection_count, ch_posts>>
    <3>1. PICK u \in Updates(noise_map, p.value) :
                 IF u.changed THEN PostMap(u.map) ELSE UNCHANGED <<noise_map, connection_count, ch_posts>>
      BY <2>1
    <3>2. p.value \in SUBSET ZoneConns /\ MapOK(noise_map)
      BY <1>2, <2>1, ZonePostsOK DEF NoiseInv
    <3>3. MapOK(u.map)
      BY <3>2, UpdatesOK
    <3>4. CASE PostMap(u.map)
      BY <3>3, <3>4, PostMapOK
    <3>5. CASE UNCHANGED <<noise_map, connection_count, ch_posts>>
      BY <3>5 DEF NoiseInv
    <3> QED
      BY <3>1, <3>4, <3>5
  <2>2. CASE p.kind = "replace" /\ PostMap(p.value)
    BY <1>2, <2>2, ZonePostsOK, PostMapOK
  <2> QED
    BY <2>1, <2>2 DEF ZoneStrand
<1> QED
  BY <1>1, <1>2, <1>3, ChannelsAlone DEF NoiseStepOK, NoiseInv

\* A message is posted to every channel.
LEMMA SendCovertStep ==
  ASSUME NoiseInv, NEW m \in Messages, SendCovert(m)
  PROVE  NoiseStepOK
<1>1. /\ UNCHANGED <<connection, queued, active_part, run>> /\ outs' = outs
      /\ noise_map' = noise_map /\ connection_count' = connection_count /\ zone_posts' = zone_posts
      /\ ch_posts' = [i \in Channels |-> Append(ch_posts[i], QueueMsg(m))]
  BY DEF SendCovert, channelVars
<1>2. \A i \in Channels : Append(ch_posts[i], QueueMsg(m)) \in Seq(ChannelPosts)
  <2>1. QueueMsg(m) \in ChannelPosts
    BY ChannelPostsOK
  <2>2. \A i \in Channels : ch_posts[i] \in Seq(ChannelPosts)
    BY DEF NoiseInv
  <2> QED
    BY <2>1, <2>2, AppendProperties
<1>3. ch_posts' \in [Channels -> Seq(ChannelPosts)]
  BY <1>1, <1>2
<1> QED
  BY <1>1, <1>3, ChannelsAlone DEF NoiseStepOK, NoiseInv

\* Another channel's step leaves channel i alone.
LEMMA OtherChannel ==
  ASSUME NoiseInv, NEW i \in Channels,
         connection'[i] = connection[i] /\ queued'[i] = queued[i]
           /\ active_part'[i] = active_part[i] /\ run'[i] = run[i]
  PROVE  PartsOK(i)' /\ WholeStep(i)
<1>1. PartsOK(i) /\ queued[i] \in Seq(Messages)
  BY DEF NoiseInv
<1>2. queued[i] # << >> => queued[i] # Tail(queued[i])
  BY <1>1, TailIsShorter
<1> QED
  BY <1>1, <1>2 DEF PartsOK, WholeStep

\* The strand of a channel takes a message in, or a connection.
LEMMA ChannelStrandStep ==
  ASSUME NoiseInv, NEW i \in Channels, ChannelStrand(i)
  PROVE  NoiseStepOK
<1> DEFINE p == Head(ch_posts[i])
           t == Tail(ch_posts[i])
<1>1. /\ outs' = outs /\ noise_map' = noise_map /\ connection_count' = connection_count
      /\ zone_posts' = zone_posts /\ ch_posts' = [ch_posts EXCEPT ![i] = t]
      /\ ch_posts[i] # << >>
  BY DEF ChannelStrand
<1>2. p \in ChannelPosts /\ t \in Seq(ChannelPosts)
  <2>1. ch_posts[i] \in Seq(ChannelPosts)
    BY DEF NoiseInv
  <2> QED
    BY <1>1, <2>1, HeadTailProperties
<1>3. \/ /\ p.kind = "connection"
         /\ connection' = [connection EXCEPT ![i] = p.value]
         /\ queued' = IF p.value = NilConn THEN [queued EXCEPT ![i] = << >>] ELSE queued
         /\ Restart(i)
      \/ /\ p.kind = "message"
         /\ queued' = IF connection[i] # NilConn THEN [queued EXCEPT ![i] = Append(@, p.value)] ELSE queued
         /\ UNCHANGED <<connection, active_part, run>>
  BY DEF ChannelStrand
<1> HIDE DEF p, t
<1>4. /\ connection \in [Channels -> Sources] /\ queued \in [Channels -> Seq(Messages)]
      /\ active_part \in [Channels -> Nat] /\ run \in [Channels -> Seq(Sources \X Nat)]
      /\ ch_posts \in [Channels -> Seq(ChannelPosts)]
  BY DEF NoiseInv
<1>5. ch_posts' \in [Channels -> Seq(ChannelPosts)]
  BY <1>1, <1>2, <1>4
<1>6. /\ connection' \in [Channels -> Sources] /\ queued' \in [Channels -> Seq(Messages)]
      /\ active_part' \in [Channels -> Nat] /\ run' \in [Channels -> Seq(Sources \X Nat)]
      /\ PartsOK(i)' /\ WholeStep(i)
      /\ \A j \in Channels \ {i} : /\ connection'[j] = connection[j] /\ queued'[j] = queued[j]
                                   /\ active_part'[j] = active_part[j] /\ run'[j] = run[j]
  <2>1. CASE /\ p.kind = "connection"
             /\ connection' = [connection EXCEPT ![i] = p.value]
             /\ queued' = IF p.value = NilConn THEN [queued EXCEPT ![i] = << >>] ELSE queued
             /\ Restart(i)
    <3>1. p.value \in Sources
      BY <1>2, <2>1, ChannelPostsOK
    <3>2. /\ connection' \in [Channels -> Sources] /\ connection'[i] = p.value
          /\ \A j \in Channels \ {i} : connection'[j] = connection[j]
      BY <1>4, <2>1, <3>1
    <3>3. /\ queued' \in [Channels -> Seq(Messages)]
          /\ \A j \in Channels \ {i} : queued'[j] = queued[j]
          /\ p.value # NilConn => queued'[i] = queued[i]
      <4>1. << >> \in Seq(Messages)
        OBVIOUS
      <4>2. CASE p.value = NilConn
        BY <1>4, <2>1, <4>1, <4>2
      <4>3. CASE p.value # NilConn
        BY <1>4, <2>1, <4>3
      <4> QED
        BY <4>2, <4>3
    <3>4. /\ active_part' \in [Channels -> Nat] /\ active_part'[i] = 0
          /\ \A j \in Channels \ {i} : active_part'[j] = active_part[j]
      BY <1>4, <2>1 DEF Restart
    <3>5. /\ run' \in [Channels -> Seq(Sources \X Nat)]
          /\ \A j \in Channels \ {i} : run'[j] = run[j]
      BY <1>4, <2>1 DEF Restart
    <3>6. PartsOK(i)'
      BY <3>4 DEF PartsOK
    <3>7. WholeStep(i)
      <4>1. queued[i] # << >> => queued[i] # Tail(queued[i])
        BY <1>4, TailIsShorter
      <4> QED
        BY <3>2, <3>3, <4>1 DEF WholeStep
    <3> QED
      BY <3>2, <3>3, <3>4, <3>5, <3>6, <3>7
  <2>2. CASE /\ p.kind = "message"
             /\ queued' = IF connection[i] # NilConn THEN [queued EXCEPT ![i] = Append(@, p.value)] ELSE queued
             /\ UNCHANGED <<connection, active_part, run>>
    <3>1. p.value \in Messages
      BY <1>2, <2>2, ChannelPostsOK
    <3>2. queued[i] \in Seq(Messages)
      BY <1>4
    <3>3. CASE connection[i] = NilConn
      <4>1. queued' = queued
        BY <2>2, <3>3
      <4>2. PartsOK(i)' /\ WholeStep(i)
        BY <2>2, <4>1, OtherChannel
      <4> QED
        BY <1>4, <2>2, <4>1, <4>2
    <3>4. CASE connection[i] # NilConn
      <4> DEFINE q == Append(queued[i], p.value)
      <4>1. /\ q \in Seq(Messages) /\ q # << >>
            /\ queued[i] # << >> => Head(q) = Head(queued[i]) /\ q # Tail(queued[i])
        <5>1. /\ q \in Seq(Messages) /\ Len(q) = Len(queued[i]) + 1 /\ Len(queued[i]) \in Nat
              /\ \A k \in 1..Len(queued[i]) : q[k] = queued[i][k]
          BY <3>1, <3>2, AppendProperties, LenProperties
        <5>2. q # << >>
          BY <3>1, <3>2, AppendProperties
        <5>3. ASSUME queued[i] # << >> PROVE Head(q) = Head(queued[i]) /\ q # Tail(queued[i])
          <6>1. q # Tail(queued[i])
            BY <3>1, <3>2, <5>3, TailIsShorter
          <6>2. Head(q) = q[1] /\ Head(queued[i]) = queued[i][1]
            BY <3>2, <5>1, <5>2, <5>3, HeadTailProperties
          <6>3. Len(queued[i]) >= 1
            BY <3>2, <5>3, <5>1, EmptySeq
          <6>4. q[1] = queued[i][1]
            BY <5>1, <6>3
          <6> QED
            BY <6>1, <6>2, <6>4
        <5> QED
          BY <5>1, <5>2, <5>3
      <4>2. queued' = [queued EXCEPT ![i] = q]
        BY <2>2, <3>4
      <4> HIDE DEF q
      <4>3. /\ queued' \in [Channels -> Seq(Messages)] /\ queued'[i] = q
            /\ \A j \in Channels \ {i} : queued'[j] = queued[j]
        BY <1>4, <4>1, <4>2
      <4>4. PartsOK(i)
        BY DEF NoiseInv
      <4>5. PartsOK(i)'
        BY <2>2, <4>1, <4>3, <4>4 DEF PartsOK
      <4>6. WholeStep(i)
        BY <4>1, <4>3 DEF WholeStep
      <4> QED
        BY <1>4, <2>2, <4>3, <4>5, <4>6
    <3> QED
      BY <3>3, <3>4
  <2> QED
    BY <1>3, <2>1, <2>2
<1>7. \A j \in Channels : PartsOK(j)' /\ WholeStep(j)
  BY <1>6, OtherChannel
<1> QED
  BY <1>1, <1>5, <1>6, <1>7 DEF NoiseInv, NoiseStepOK

\* send_noise: a fragment goes out, the last one takes the message with it.
LEMMA SendNoiseStep ==
  ASSUME NoiseInv, NEW i \in Channels, SendNoise(i)
  PROVE  NoiseStepOK
<1> DEFINE k == active_part[i] + 1
           r == Append(IF k = 1 THEN << >> ELSE run[i], <<connection[i], k>>)
           n == Fragments[Head(queued[i])]
<1>1. /\ outs' = outs /\ noise_map' = noise_map /\ connection_count' = connection_count
      /\ zone_posts' = zone_posts /\ ch_posts' = ch_posts /\ connection' = connection
  BY DEF SendNoise
<1>2. /\ connection \in [Channels -> Sources] /\ queued \in [Channels -> Seq(Messages)]
      /\ active_part \in [Channels -> Nat] /\ run \in [Channels -> Seq(Sources \X Nat)]
      /\ PartsOK(i)
  BY DEF NoiseInv
<1>3. CASE queued[i] = << >>
  <2>1. UNCHANGED <<connection, queued, active_part, run>>
    BY <1>1, <1>3 DEF SendNoise
  <2> QED
    BY <1>1, <2>1, ChannelsAlone DEF NoiseInv, NoiseStepOK
<1>4. CASE queued[i] # << >>
  <2>1. /\ queued' = IF k = n THEN [queued EXCEPT ![i] = Tail(@)] ELSE queued
        /\ active_part' = [active_part EXCEPT ![i] = IF k = n THEN 0 ELSE k]
        /\ run' = [run EXCEPT ![i] = r]
    BY <1>4 DEF SendNoise, PoppedAfter
  <2>2. /\ Tail(queued[i]) \in Seq(Messages) /\ Head(queued[i]) \in Messages /\ queued[i] # Tail(queued[i])
    BY <1>2, <1>4, TailIsShorter
  <2>3. n \in Nat /\ n > 0
    BY <2>2, NoiseAssumption
  <2>4. k \in Nat /\ k > 0 /\ k <= n /\ active_part[i] \in Nat
    BY <1>2, <2>3 DEF PartsOK
  <2>5. connection[i] \in Sources
    BY <1>2
  <2>6. r = SentOver(connection[i], k) /\ r \in Seq(Sources \X Nat)
    <3>1. SentOver(connection[i], k) \in Seq(Sources \X Nat)
      BY <2>4, <2>5, SentOverGrows
    <3>2. CASE k = 1
      BY <2>5, <3>1, <3>2, SentOverGrows
    <3>3. CASE k # 1
      <4>1. run[i] = SentOver(connection[i], active_part[i])
        BY <1>2, <2>4, <3>3 DEF PartsOK
      <4>2. Append(SentOver(connection[i], active_part[i]), <<connection[i], active_part[i] + 1>>)
              = SentOver(connection[i], active_part[i] + 1)
        BY <2>4, <2>5, SentOverGrows
      <4> QED
        BY <3>1, <3>3, <4>1, <4>2
    <3> QED
      BY <3>2, <3>3
  <2> HIDE DEF k, r, n
  <2>7. /\ run' \in [Channels -> Seq(Sources \X Nat)] /\ run'[i] = r
        /\ \A j \in Channels \ {i} : run'[j] = run[j]
    BY <1>2, <2>1, <2>6
  <2>8. /\ active_part' \in [Channels -> Nat] /\ active_part'[i] = IF k = n THEN 0 ELSE k
        /\ \A j \in Channels \ {i} : active_part'[j] = active_part[j]
    BY <1>2, <2>1, <2>4
  <2>9. /\ queued' \in [Channels -> Seq(Messages)] /\ queued'[i] = IF k = n THEN Tail(queued[i]) ELSE queued[i]
        /\ \A j \in Channels \ {i} : queued'[j] = queued[j]
    BY <1>2, <2>1, <2>2
  <2>10. PartsOK(i)'
    <3>1. CASE k = n
      BY <2>8, <3>1 DEF PartsOK
    <3>2. CASE k # n
      <4>1. active_part'[i] = k /\ queued'[i] = queued[i] /\ connection'[i] = connection[i]
        BY <1>1, <2>8, <2>9, <3>2
      <4>2. active_part'[i] < Fragments[Head(queued'[i])]
        BY <2>3, <2>4, <3>2, <4>1 DEF n
      <4>3. run'[i] = SentOver(connection'[i], active_part'[i])
        BY <2>6, <2>7, <4>1
      <4> QED
        BY <1>4, <4>1, <4>2, <4>3 DEF PartsOK
    <3> QED
      BY <3>1, <3>2
  <2>11. WholeStep(i)
    <3>1. CASE k = n
      <4>1. run'[i] = SentOver(connection[i], n)
        BY <2>6, <2>7, <3>1
      <4> QED
        BY <4>1 DEF SentOver, WholeStep, n
    <3>2. CASE k # n
      BY <2>2, <2>9, <3>2 DEF WholeStep
    <3> QED
      BY <3>1, <3>2
  <2>12. \A j \in Channels : PartsOK(j)' /\ WholeStep(j)
    BY <1>1, <2>7, <2>8, <2>9, <2>10, <2>11, OtherChannel
  <2> QED
    BY <1>1, <1>2, <2>7, <2>8, <2>9, <2>12 DEF NoiseInv, NoiseStepOK
<1> QED
  BY <1>3, <1>4

\* send_noise over a connection that is gone starts the message again.
LEMMA SendNoiseFailsStep ==
  ASSUME NoiseInv, NEW i \in Channels, SendNoiseFails(i)
  PROVE  NoiseStepOK
<1>1. /\ outs' = outs /\ noise_map' = noise_map /\ connection_count' = connection_count
      /\ ch_posts' = ch_posts /\ queued' = queued
      /\ connection' = [connection EXCEPT ![i] = NilConn] /\ Restart(i)
      /\ zone_posts' = Append(zone_posts, Merge(outs))
  BY DEF SendNoiseFails
<1>2. /\ connection \in [Channels -> Sources] /\ queued \in [Channels -> Seq(Messages)]
      /\ active_part \in [Channels -> Nat] /\ run \in [Channels -> Seq(Sources \X Nat)]
      /\ NilConn \in Sources
  BY DEF NoiseInv, Sources
<1>3. /\ connection' \in [Channels -> Sources] /\ connection'[i] = NilConn
      /\ \A j \in Channels \ {i} : connection'[j] = connection[j]
  BY <1>1, <1>2
<1>4. /\ active_part' \in [Channels -> Nat] /\ active_part'[i] = 0
      /\ \A j \in Channels \ {i} : active_part'[j] = active_part[j]
  BY <1>1, <1>2 DEF Restart
<1>5. /\ run' \in [Channels -> Seq(Sources \X Nat)]
      /\ \A j \in Channels \ {i} : run'[j] = run[j]
  BY <1>1, <1>2 DEF Restart
<1>6. zone_posts' \in Seq(ZonePosts)
  <2>1. Merge(outs) \in ZonePosts
    BY ZonePostsOK DEF NoiseInv
  <2> QED
    BY <1>1, <2>1, AppendProperties DEF NoiseInv
<1>7. PartsOK(i)' /\ WholeStep(i)
  BY <1>3, <1>4 DEF PartsOK, WholeStep
<1>8. \A j \in Channels : PartsOK(j)' /\ WholeStep(j)
  BY <1>1, <1>3, <1>4, <1>5, <1>7, OtherChannel
<1> QED
  BY <1>1, <1>2, <1>3, <1>4, <1>5, <1>6, <1>8 DEF NoiseInv, NoiseStepOK

\* Every step of a noise zone keeps the invariant, and lets go of whole messages only.
LEMMA NoiseStepInv ==
  ASSUME NoiseInv, [NoiseNext]_noiseVars
  PROVE  NoiseStepOK
<1>1. CASE UNCHANGED noiseVars
  BY <1>1, ChannelsAlone DEF noiseVars, NoiseInv, NoiseStepOK
<1>2. CASE \E c \in Peers : NewOutConnection(c) \/ LoseConnection(c)
  BY <1>2, NoiseConnectionsStep
<1>3. CASE NoiseEpoch
  BY <1>3, NoiseEpochStep
<1>4. CASE ZoneStrand
  BY <1>4, ZoneStrandStep
<1>5. CASE \E i \in Channels : NoiseStep(i)
  BY <1>5, ChannelStrandStep, SendNoiseStep, SendNoiseFailsStep DEF NoiseStep
<1>6. CASE \E m \in Messages : SendCovert(m)
  BY <1>6, SendCovertStep
<1> QED
  BY <1>1, <1>2, <1>3, <1>4, <1>5, <1>6 DEF NoiseNext

\* The invariant has the types of NoiseZone.
LEMMA NoiseInvFacts == NoiseInv => NoiseTypeOK
<1> SUFFICES ASSUME NoiseInv PROVE NoiseTypeOK
  OBVIOUS
<1>1. connection_count \in 0..Stems
  BY MapSizeOK DEF NoiseInv
<1>2. \A i \in DOMAIN noise_map.out : noise_map.out[i] \in Sources
  BY MapParts DEF NoiseInv, MapOK
<1> QED
  BY <1>1, <1>2 DEF NoiseInv, NoiseTypeOK, PartsOK

\* The invariant of the noise channels.
THEOREM NoiseInvariant == NoiseSpec => []NoiseInv
<1>1. NoiseInv /\ [NoiseNext]_noiseVars => NoiseInv'
  BY NoiseStepInv DEF NoiseStepOK
<1> QED
  BY <1>1, NoiseInitInv, PTL DEF NoiseSpec

\* noise_channel: a message leaves the queue of a channel, while that keeps a
\* connection, only when all of its fragments went out in order over the same
\* connection, whatever maps and connections the strands deliver in between.
THEOREM MessagesSentWhole == NoiseSpec => SentWhole
<1>1. NoiseInv /\ [NoiseNext]_noiseVars => \A i \in Channels : WholeStep(i)
  BY NoiseStepInv DEF NoiseStepOK
<1>2. NoiseInv /\ [NoiseNext]_noiseVars =>
      [\A i \in Channels :
         queued[i] # << >> /\ queued'[i] = Tail(queued[i]) /\ connection'[i] # NilConn
           => run'[i] = [k \in 1..Fragments[Head(queued[i])] |-> <<connection[i], k>>]]_noiseVars
  BY <1>1 DEF WholeStep
<1> QED
  BY <1>2, NoiseInvariant, PTL DEF NoiseSpec, SentWhole

-----------------------------------------------------------------------------
(* The peer lists *)

\* A list as of time t: entries in the order of time, no address twice.
Entries(t) == [adr : Addrs, last_seen : 0..t]
IsList(s, t) == s \in Seq(Entries(t)) /\ Ordered(s)

-----------------------------------------------------------------------------
(* The operations on sequences, place by place *)

\* InsertAt puts an element at its place and moves those behind it.
LEMMA InsertPlaces ==
  ASSUME NEW S, NEW s \in Seq(S), NEW e \in S, NEW p \in 1..Len(s) + 1
  PROVE  /\ InsertAt(s, p, e) \in Seq(S) /\ Len(InsertAt(s, p, e)) = Len(s) + 1
         /\ \A i \in 1..Len(s) + 1 :
              InsertAt(s, p, e)[i] = IF i < p THEN s[i] ELSE IF i = p THEN e ELSE s[i - 1]
<1> DEFINE n == Len(s)
           u == SubSeq(s, 1, p - 1)
           v == SubSeq(s, p, n)
<1>1. n \in Nat /\ p \in Nat /\ p >= 1 /\ p <= n + 1 /\ \A i \in 1..n : s[i] \in S
  OBVIOUS
<1>2. /\ u \in Seq(S) /\ Len(u) = p - 1
      /\ \A i \in 1..p - 1 : u[i] = s[i]
  <2>1. \A i \in 1..p - 1 : s[i] \in S
    BY <1>1
  <2>2. /\ u \in Seq(S) /\ Len(u) = (IF 1 <= p - 1 THEN (p - 1) - 1 + 1 ELSE 0)
        /\ \A i \in 1..(p - 1) - 1 + 1 : u[i] = s[1 + i - 1]
    BY <1>1, <2>1, SubSeqProperties
  <2> HIDE DEF u
  <2> QED
    BY <1>1, <2>2
<1>3. /\ v \in Seq(S) /\ Len(v) = n - p + 1
      /\ \A i \in 1..n - p + 1 : v[i] = s[p + i - 1]
  <2>1. \A i \in p..n : s[i] \in S
    BY <1>1
  <2>2. /\ v \in Seq(S) /\ Len(v) = (IF p <= n THEN n - p + 1 ELSE 0)
        /\ \A i \in 1..n - p + 1 : v[i] = s[p + i - 1]
    BY <1>1, <2>1, SubSeqProperties
  <2> HIDE DEF v
  <2> QED
    BY <1>1, <2>2
<1>4. /\ <<e>> \in Seq(S) /\ Len(<<e>>) = 1 /\ <<e>>[1] = e
  OBVIOUS
<1> HIDE DEF n, u, v
<1> DEFINE w == u \o <<e>>
<1>5. /\ w \in Seq(S) /\ Len(w) = p
      /\ \A i \in 1..p : w[i] = IF i < p THEN s[i] ELSE e
  <2>1. /\ w \in Seq(S) /\ Len(w) = Len(u) + Len(<<e>>)
        /\ \A i \in 1..Len(u) + Len(<<e>>) : w[i] = IF i <= Len(u) THEN u[i] ELSE <<e>>[i - Len(u)]
    BY <1>2, <1>4, ConcatProperties
  <2> HIDE DEF w
  <2>2. w \in Seq(S) /\ Len(w) = p
    BY <1>1, <1>2, <1>4, <2>1
  <2>3. ASSUME NEW i \in 1..p PROVE w[i] = IF i < p THEN s[i] ELSE e
    <3>0. i \in 1..Len(u) + Len(<<e>>)
      BY <1>1, <1>2, <1>4
    <3>1. w[i] = IF i <= Len(u) THEN u[i] ELSE <<e>>[i - Len(u)]
      BY <2>1, <3>0
    <3>2. CASE i < p
      BY <1>1, <1>2, <3>1, <3>2
    <3>3. CASE i = p
      <4>1. i - Len(u) = 1 /\ ~(i <= Len(u))
        BY <1>1, <1>2, <3>3
      <4> QED
        BY <1>1, <1>4, <3>1, <3>3, <4>1
    <3> QED
      BY <1>1, <3>2, <3>3
  <2> QED
    BY <2>2, <2>3
<1> HIDE DEF w
<1> DEFINE r == w \o v
<1>6. /\ r \in Seq(S) /\ Len(r) = Len(w) + Len(v)
      /\ \A i \in 1..Len(w) + Len(v) : r[i] = IF i <= Len(w) THEN w[i] ELSE v[i - Len(w)]
  BY <1>3, <1>5, ConcatProperties
<1>7. InsertAt(s, p, e) = r
  BY DEF InsertAt, r, w, u, v, n
<1> HIDE DEF r
<1>8. r \in Seq(S) /\ Len(r) = n + 1
  BY <1>1, <1>3, <1>5, <1>6
<1>9. ASSUME NEW i \in 1..n + 1
      PROVE  r[i] = IF i < p THEN s[i] ELSE IF i = p THEN e ELSE s[i - 1]
  <2>0. i \in 1..Len(w) + Len(v)
    BY <1>1, <1>3, <1>5, <1>9
  <2>1. CASE i <= p
    <3>1. r[i] = w[i] /\ i \in 1..p
      BY <1>1, <1>5, <1>6, <2>0, <2>1
    <3> QED
      BY <1>5, <2>1, <3>1
  <2>2. CASE i > p
    <3>1. r[i] = v[i - p] /\ i - p \in 1..n - p + 1
      BY <1>1, <1>5, <1>6, <2>0, <2>2
    <3>2. v[i - p] = s[p + (i - p) - 1]
      BY <1>3, <3>1
    <3> QED
      BY <1>1, <2>2, <3>1, <3>2
  <2> QED
    BY <1>1, <2>1, <2>2
<1> QED
  BY <1>7, <1>8, <1>9 DEF n

\* RemoveAt closes the gap.
LEMMA RemovePlaces ==
  ASSUME NEW S, NEW s \in Seq(S), NEW p \in 1..Len(s)
  PROVE  /\ RemoveAt(s, p) \in Seq(S) /\ Len(RemoveAt(s, p)) = Len(s) - 1
         /\ \A i \in 1..Len(s) - 1 : RemoveAt(s, p)[i] = IF i < p THEN s[i] ELSE s[i + 1]
<1> DEFINE n == Len(s)
           u == SubSeq(s, 1, p - 1)
           v == SubSeq(s, p + 1, n)
<1>1. n \in Nat /\ p \in Nat /\ p >= 1 /\ p <= n /\ \A i \in 1..n : s[i] \in S
  OBVIOUS
<1>2. /\ u \in Seq(S) /\ Len(u) = p - 1
      /\ \A i \in 1..p - 1 : u[i] = s[i]
  <2>1. \A i \in 1..p - 1 : s[i] \in S
    BY <1>1
  <2>2. /\ u \in Seq(S) /\ Len(u) = (IF 1 <= p - 1 THEN (p - 1) - 1 + 1 ELSE 0)
        /\ \A i \in 1..(p - 1) - 1 + 1 : u[i] = s[1 + i - 1]
    BY <1>1, <2>1, SubSeqProperties
  <2> HIDE DEF u
  <2> QED
    BY <1>1, <2>2
<1>3. /\ v \in Seq(S) /\ Len(v) = n - p
      /\ \A i \in 1..n - p : v[i] = s[p + i]
  <2>1. \A i \in p + 1..n : s[i] \in S
    BY <1>1
  <2>2. /\ v \in Seq(S) /\ Len(v) = (IF p + 1 <= n THEN n - (p + 1) + 1 ELSE 0)
        /\ \A i \in 1..n - (p + 1) + 1 : v[i] = s[(p + 1) + i - 1]
    BY <1>1, <2>1, SubSeqProperties
  <2> HIDE DEF v
  <2> QED
    BY <1>1, <2>2
<1> HIDE DEF n, u, v
<1> DEFINE r == u \o v
<1>4. /\ r \in Seq(S) /\ Len(r) = Len(u) + Len(v)
      /\ \A i \in 1..Len(u) + Len(v) : r[i] = IF i <= Len(u) THEN u[i] ELSE v[i - Len(u)]
  BY <1>2, <1>3, ConcatProperties
<1>5. RemoveAt(s, p) = r
  BY DEF RemoveAt, r, u, v, n
<1> HIDE DEF r
<1>6. r \in Seq(S) /\ Len(r) = n - 1
  BY <1>1, <1>2, <1>3, <1>4
<1>7. ASSUME NEW i \in 1..n - 1 PROVE r[i] = IF i < p THEN s[i] ELSE s[i + 1]
  <2>0. i \in 1..Len(u) + Len(v)
    BY <1>1, <1>2, <1>3, <1>7
  <2>1. CASE i < p
    <3>1. r[i] = u[i] /\ i \in 1..p - 1
      BY <1>1, <1>2, <1>4, <2>0, <2>1
    <3> QED
      BY <1>2, <2>1, <3>1
  <2>2. CASE i >= p
    <3>1. r[i] = v[i - (p - 1)] /\ i - (p - 1) \in 1..n - p
      BY <1>1, <1>2, <1>4, <2>0, <2>2
    <3>2. v[i - (p - 1)] = s[p + (i - (p - 1))]
      BY <1>3, <3>1
    <3> QED
      BY <1>1, <2>2, <3>1, <3>2
  <2> QED
    BY <1>1, <2>1, <2>2
<1> QED
  BY <1>5, <1>6, <1>7 DEF n

\* TrimmedList keeps the last of the list.
LEMMA TrimPlaces ==
  ASSUME NEW S, NEW s \in Seq(S), NEW limit \in Nat
  PROVE  /\ TrimmedList(s, limit) \in Seq(S)
         /\ Len(TrimmedList(s, limit)) = (IF limit <= Len(s) THEN limit ELSE Len(s))
         /\ \A i \in 1..Len(TrimmedList(s, limit)) :
              TrimmedList(s, limit)[i] = s[Len(s) - Len(TrimmedList(s, limit)) + i]
<1> DEFINE n == Len(s)
           m == IF limit <= n THEN limit ELSE n
           r == SubSeq(s, n - m + 1, n)
<1>1. n \in Nat /\ m \in Nat /\ m <= n /\ \A i \in 1..n : s[i] \in S
  OBVIOUS
<1>2. Min({limit, n}) = m
  BY <1>1 DEF Min
<1>3. TrimmedList(s, limit) = r
  BY <1>2 DEF TrimmedList
<1>4. \A i \in n - m + 1..n : s[i] \in S
  <2> HIDE DEF n, m
  <2> QED
    BY <1>1
<1>5. n - m + 1 \in Int /\ n \in Int
  BY <1>1
<1> HIDE DEF n, m
<1>6. /\ r \in Seq(S) /\ Len(r) = (IF n - m + 1 <= n THEN n - (n - m + 1) + 1 ELSE 0)
      /\ \A i \in 1..n - (n - m + 1) + 1 : r[i] = s[(n - m + 1) + i - 1]
  BY <1>4, <1>5, SubSeqProperties
<1> HIDE DEF r
<1>7. /\ r \in Seq(S) /\ Len(r) = m /\ \A i \in 1..m : r[i] = s[n - m + i]
  BY <1>1, <1>6
<1>8. /\ r \in Seq(S) /\ Len(r) = (IF limit <= Len(s) THEN limit ELSE Len(s))
      /\ \A i \in 1..Len(r) : r[i] = s[Len(s) - Len(r) + i]
  BY <1>7 DEF n, m
<1> QED
  BY <1>3, <1>8

-----------------------------------------------------------------------------
(* The operations on lists *)

\* The parts of a list.
LEMMA ListFacts ==
  ASSUME NEW t \in Nat, NEW s, IsList(s, t)
  PROVE  /\ s \in Seq(Entries(t)) /\ Len(s) \in Nat /\ DOMAIN s = 1..Len(s)
         /\ \A i \in 1..Len(s) : /\ s[i] \in Entries(t) /\ s[i].adr \in Addrs /\ s[i].last_seen \in 0..t
                                 /\ s[i].last_seen \in Nat /\ s[i].last_seen <= t /\ s[i].adr \in Listed(s)
         /\ \A i, j \in 1..Len(s) : i < j => s[i].last_seen <= s[j].last_seen /\ s[i].adr # s[j].adr
<1>1. s \in Seq(Entries(t)) /\ Len(s) \in Nat /\ DOMAIN s = 1..Len(s)
  BY DEF IsList
<1>2. ASSUME NEW i \in 1..Len(s)
      PROVE  /\ s[i] \in Entries(t) /\ s[i].adr \in Addrs /\ s[i].last_seen \in 0..t
             /\ s[i].last_seen \in Nat /\ s[i].last_seen <= t /\ s[i].adr \in Listed(s)
  <2>1. s[i] \in Entries(t)
    BY <1>1
  <2>2. s[i].adr \in Addrs /\ s[i].last_seen \in 0..t
    BY <2>1 DEF Entries
  <2>3. s[i].adr \in Listed(s)
    BY <1>1 DEF Listed
  <2> QED
    BY <2>1, <2>2, <2>3
<1>3. \A i, j \in 1..Len(s) : i < j => s[i].last_seen <= s[j].last_seen /\ s[i].adr # s[j].adr
  BY <1>1 DEF IsList, Ordered
<1> QED
  BY <1>1, <1>2, <1>3

\* Taking away addresses leaves a list.
LEMMA WithoutList ==
  ASSUME NEW t \in Nat, NEW s, IsList(s, t), NEW as
  PROVE  /\ IsList(Without(s, as), t) /\ Len(Without(s, as)) <= Len(s)
         /\ Listed(Without(s, as)) \subseteq Listed(s) \ as
<1> DEFINE left == {i \in DOMAIN s : s[i].adr \notin as}
           c == Cardinality(left)
           r == [k \in 1..c |-> s[Nth(left, k)]]
<1>1. Without(s, as) = r
  BY DEF Without, Subsequence
<1>2. /\ s \in Seq(Entries(t)) /\ Len(s) \in Nat /\ DOMAIN s = 1..Len(s)
      /\ \A i \in 1..Len(s) : s[i] \in Entries(t)
      /\ \A i, j \in 1..Len(s) : i < j => s[i].last_seen <= s[j].last_seen /\ s[i].adr # s[j].adr
  BY ListFacts
<1>3. left \in SUBSET (1..Len(s)) /\ \A i \in left : s[i].adr \notin as /\ s[i].adr \in Listed(s)
  BY <1>2 DEF Listed
<1> HIDE DEF left
<1>4. c \in Nat /\ c <= Len(s)
  <2>1. IsFiniteSet(1..Len(s)) /\ Cardinality(1..Len(s)) = Len(s)
    BY <1>2, UpTo
  <2> QED
    BY <1>3, <2>1, FS_Subset, FS_CardinalityType
<1>5. /\ \A k \in 1..c : Nth(left, k) \in left
      /\ \A k, l \in 1..c : k < l => Nth(left, k) < Nth(left, l)
  BY <1>2, <1>3, NthFacts
<1> HIDE DEF c
<1>6. \A k \in 1..c : r[k] = s[Nth(left, k)] /\ r[k] \in Entries(t)
  BY <1>2, <1>3, <1>5
<1>7. r \in Seq(Entries(t)) /\ Len(r) = c /\ DOMAIN r = 1..c
  BY <1>4, <1>6
<1> HIDE DEF r
<1>8. Ordered(r)
  <2> SUFFICES ASSUME NEW k \in 1..c, NEW l \in 1..c, k < l
               PROVE  r[k].last_seen <= r[l].last_seen /\ r[k].adr # r[l].adr
    BY <1>7 DEF Ordered
  <2>1. Nth(left, k) \in 1..Len(s) /\ Nth(left, l) \in 1..Len(s) /\ Nth(left, k) < Nth(left, l)
    BY <1>3, <1>5
  <2> QED
    BY <1>2, <1>6, <2>1
<1>9. Listed(r) \subseteq Listed(s) \ as
  <2> SUFFICES ASSUME NEW k \in 1..c PROVE r[k].adr \in Listed(s) \ as
    BY <1>7 DEF Listed
  <2> QED
    BY <1>3, <1>5, <1>6
<1> QED
  BY <1>1, <1>4, <1>7, <1>8, <1>9 DEF IsList

\* A new entry gets the place of its time: a list stays one, and the newest
\* entry is the last.
LEMMA InsertList ==
  ASSUME NEW t \in Nat, NEW s, IsList(s, t), NEW e \in Entries(t), e.adr \notin Listed(s)
  PROVE  /\ IsList(InsertByTime(s, e), t) /\ Len(InsertByTime(s, e)) = Len(s) + 1
         /\ Listed(InsertByTime(s, e)) = Listed(s) \cup {e.adr}
         /\ e.last_seen = t => InsertByTime(s, e)[Len(s) + 1] = e
<1> DEFINE n == Len(s)
           D == {i \in DOMAIN s : s[i].last_seen <= e.last_seen}
           p == 1 + Cardinality(D)
           r == InsertByTime(s, e)
<1>1. /\ s \in Seq(Entries(t)) /\ n \in Nat /\ DOMAIN s = 1..n
      /\ \A i \in 1..n : s[i].last_seen \in Nat /\ s[i].last_seen <= t /\ s[i].adr \in Listed(s)
      /\ \A i, j \in 1..n : i < j => s[i].last_seen <= s[j].last_seen /\ s[i].adr # s[j].adr
  BY ListFacts
<1>2. e.adr \in Addrs /\ e.last_seen \in Nat
  BY DEF Entries
<1>3. Cardinality(D) \in 0..n /\ D = 1..Cardinality(D)
  <2>1. D \in SUBSET (1..n)
    BY <1>1
  <2>2. ASSUME NEW i \in D, NEW j \in 1..i PROVE j \in D
    <3>1. i \in 1..n /\ s[i].last_seen <= e.last_seen /\ j \in 1..n /\ j <= i
      BY <1>1, <2>2
    <3>2. s[j].last_seen <= s[i].last_seen
      <4>1. CASE j = i
        BY <1>1, <3>1, <4>1
      <4>2. CASE j < i
        BY <1>1, <3>1, <4>2
      <4> QED
        BY <3>1, <4>1, <4>2
    <3>3. s[j].last_seen <= e.last_seen
      <4>1. s[j].last_seen \in Nat /\ s[i].last_seen \in Nat
        BY <1>1, <3>1
      <4> QED
        BY <1>2, <3>1, <3>2, <4>1
    <3> QED
      BY <1>1, <3>1, <3>3
  <2> HIDE DEF D, n
  <2> QED
    BY <1>1, <2>1, <2>2, DownClosed
<1>4. p \in 1..n + 1 /\ \A i \in 1..n : s[i].last_seen <= e.last_seen <=> i < p
  <2>1. \A i \in 1..n : i \in D <=> s[i].last_seen <= e.last_seen
    BY <1>1
  <2> HIDE DEF D, n
  <2> QED
    BY <1>1, <1>3, <2>1
<1>5. r = InsertAt(s, p, e)
  BY DEF InsertByTime
<1> HIDE DEF p, D
<1>6. /\ r \in Seq(Entries(t)) /\ Len(r) = n + 1
      /\ \A i \in 1..n + 1 : r[i] = IF i < p THEN s[i] ELSE IF i = p THEN e ELSE s[i - 1]
  <2>1. s \in Seq(Entries(t)) /\ p \in 1..Len(s) + 1
    BY <1>1, <1>4
  <2> HIDE DEF r
  <2>2. /\ InsertAt(s, p, e) \in Seq(Entries(t)) /\ Len(InsertAt(s, p, e)) = Len(s) + 1
        /\ \A i \in 1..Len(s) + 1 :
             InsertAt(s, p, e)[i] = IF i < p THEN s[i] ELSE IF i = p THEN e ELSE s[i - 1]
    BY <2>1, InsertPlaces
  <2> QED
    BY <1>5, <2>2
<1>7. DOMAIN r = 1..n + 1
  BY <1>6
<1> HIDE DEF r, n
<1>8. Ordered(r)
  <2> SUFFICES ASSUME NEW i \in 1..n + 1, NEW j \in 1..n + 1, i < j
               PROVE  r[i].last_seen <= r[j].last_seen /\ r[i].adr # r[j].adr
    BY <1>7 DEF Ordered
  <2>0. p \in Nat /\ i \in Nat /\ j \in Nat /\ n \in Nat
    BY <1>1, <1>4
  <2>1. CASE i < p /\ j < p
    <3>1. i \in 1..n /\ j \in 1..n /\ r[i] = s[i] /\ r[j] = s[j]
      BY <1>4, <1>6, <2>0, <2>1
    <3> QED
      BY <1>1, <3>1
  <2>2. CASE i < p /\ j = p
    <3>1. i \in 1..n /\ r[i] = s[i] /\ r[j] = e
      BY <1>4, <1>6, <2>0, <2>2
    <3>2. s[i].last_seen <= e.last_seen /\ s[i].adr # e.adr
      BY <1>1, <1>4, <2>2, <3>1
    <3> QED
      BY <3>1, <3>2
  <2>3. CASE i < p /\ j > p
    <3>0. i \in 1..n /\ j - 1 \in 1..n /\ i < j - 1 /\ ~(j < p) /\ j # p
      BY <2>0, <2>3
    <3>1. r[i] = s[i] /\ r[j] = s[j - 1]
      BY <1>6, <2>3, <3>0
    <3> QED
      BY <1>1, <3>0, <3>1
  <2>4. CASE i = p
    <3>1. j - 1 \in 1..n /\ ~(j - 1 < p) /\ r[i] = e /\ r[j] = s[j - 1]
      BY <1>4, <1>6, <2>0, <2>4
    <3>2. ~(s[j - 1].last_seen <= e.last_seen) /\ s[j - 1].last_seen \in Nat /\ s[j - 1].adr # e.adr
      BY <1>1, <1>4, <3>1
    <3> QED
      BY <1>2, <3>1, <3>2
  <2>5. CASE i > p
    <3>1. i - 1 \in 1..n /\ j - 1 \in 1..n /\ i - 1 < j - 1 /\ r[i] = s[i - 1] /\ r[j] = s[j - 1]
      BY <1>4, <1>6, <2>0, <2>5
    <3> QED
      BY <1>1, <3>1
  <2> QED
    BY <2>0, <2>1, <2>2, <2>3, <2>4, <2>5
<1>9. Listed(r) = Listed(s) \cup {e.adr}
  <2>1. ASSUME NEW i \in 1..n + 1 PROVE r[i].adr \in Listed(s) \cup {e.adr}
    <3>1. CASE i < p
      BY <1>1, <1>4, <1>6, <3>1
    <3>2. CASE i = p
      BY <1>6, <3>2
    <3>3. CASE i > p
      <4>1. r[i] = s[i - 1] /\ i - 1 \in 1..n
        BY <1>1, <1>4, <1>6, <3>3
      <4> QED
        BY <1>1, <4>1
    <3> QED
      BY <1>4, <3>1, <3>2, <3>3
  <2>2. ASSUME NEW i \in 1..n PROVE \E j \in 1..n + 1 : r[j].adr = s[i].adr
    <3>1. CASE i < p
      <4>1. i \in 1..n + 1 /\ r[i] = s[i]
        BY <1>1, <1>6, <3>1
      <4> QED
        BY <4>1
    <3>2. CASE ~(i < p)
      <4>1. i + 1 \in 1..n + 1 /\ ~(i + 1 < p) /\ i + 1 # p
        BY <1>1, <1>4, <3>2
      <4>2. r[i + 1] = s[(i + 1) - 1]
        BY <1>6, <4>1
      <4>3. (i + 1) - 1 = i
        OBVIOUS
      <4> QED
        BY <4>1, <4>2, <4>3
    <3> QED
      BY <3>1, <3>2
  <2>3. p \in 1..n + 1 /\ r[p] = e
    BY <1>4, <1>6
  <2>4. Listed(r) = {r[i].adr : i \in 1..n + 1} /\ Listed(s) = {s[i].adr : i \in 1..n}
    BY <1>1, <1>7 DEF Listed
  <2>5. Listed(r) \subseteq Listed(s) \cup {e.adr}
    BY <2>1, <2>4
  <2>6. Listed(s) \subseteq Listed(r)
    BY <2>2, <2>4
  <2>7. e.adr \in Listed(r)
    BY <2>3, <2>4
  <2> QED
    BY <2>5, <2>6, <2>7
<1>10. ASSUME e.last_seen = t PROVE r[n + 1] = e
  <2>1. ASSUME p <= n PROVE FALSE
    <3>1. p \in 1..n
      BY <1>4, <2>1
    <3> QED
      BY <1>1, <1>4, <1>10, <3>1
  <2>2. p = n + 1
    BY <1>1, <1>4, <2>1
  <2> QED
    BY <1>1, <1>6, <2>2
<1> QED
  BY <1>6, <1>8, <1>9, <1>10 DEF IsList, r, n

\* Taking one entry away leaves a list, without its address.
LEMMA RemoveList ==
  ASSUME NEW t \in Nat, NEW s, IsList(s, t), NEW p \in 1..Len(s)
  PROVE  /\ IsList(RemoveAt(s, p), t) /\ Len(RemoveAt(s, p)) = Len(s) - 1
         /\ Listed(RemoveAt(s, p)) = Listed(s) \ {s[p].adr}
<1> DEFINE n == Len(s)
           r == RemoveAt(s, p)
<1>1. /\ s \in Seq(Entries(t)) /\ n \in Nat /\ DOMAIN s = 1..n
      /\ \A i \in 1..n : s[i].adr \in Listed(s)
      /\ \A i, j \in 1..n : i < j => s[i].last_seen <= s[j].last_seen /\ s[i].adr # s[j].adr
  BY ListFacts, SMTT(30)
<1>2. /\ r \in Seq(Entries(t)) /\ Len(r) = n - 1
      /\ \A i \in 1..n - 1 : r[i] = IF i < p THEN s[i] ELSE s[i + 1]
  BY <1>1, RemovePlaces
<1>3. DOMAIN r = 1..n - 1 /\ p \in 1..n
  BY <1>2
<1> HIDE DEF r, n
<1> DEFINE at(i) == IF i < p THEN i ELSE i + 1
<1>4. ASSUME NEW i \in 1..n - 1
      PROVE  r[i] = s[at(i)] /\ at(i) \in 1..n /\ at(i) # p
  BY <1>1, <1>2, <1>3
<1>5. ASSUME NEW i \in 1..n - 1, NEW j \in 1..n - 1, i < j PROVE at(i) < at(j)
  BY <1>1, <1>3, <1>5
<1>6. ASSUME NEW i \in 1..n, i # p PROVE \E j \in 1..n - 1 : at(j) = i
  <2>1. CASE i < p
    <3>1. i \in 1..n - 1 /\ at(i) = i
      BY <1>1, <1>3, <2>1
    <3> QED
      BY <3>1
  <2>2. CASE i > p
    <3>1. i - 1 \in 1..n - 1 /\ at(i - 1) = i
      BY <1>1, <1>3, <2>2
    <3> QED
      BY <3>1
  <2> QED
    BY <1>1, <1>3, <1>6, <2>1, <2>2
<1> HIDE DEF at
<1>7. Ordered(r)
  <2> SUFFICES ASSUME NEW i \in 1..n - 1, NEW j \in 1..n - 1, i < j
               PROVE  r[i].last_seen <= r[j].last_seen /\ r[i].adr # r[j].adr
    BY <1>3 DEF Ordered
  <2> QED
    BY <1>1, <1>4, <1>5
<1>8. Listed(r) = {r[i].adr : i \in 1..n - 1} /\ Listed(s) = {s[i].adr : i \in 1..n}
  BY <1>1, <1>3 DEF Listed
<1>9. ASSUME NEW i \in 1..n, i # p PROVE s[i].adr # s[p].adr
  <2>1. i < p \/ p < i
    BY <1>1, <1>3, <1>9
  <2> QED
    BY <1>1, <1>3, <2>1
<1>10. Listed(r) \subseteq Listed(s) \ {s[p].adr}
  BY <1>4, <1>8, <1>9
<1>11. Listed(s) \ {s[p].adr} \subseteq Listed(r)
  <2> SUFFICES ASSUME NEW i \in 1..n, s[i].adr # s[p].adr PROVE s[i].adr \in Listed(r)
    BY <1>8
  <2>1. PICK j \in 1..n - 1 : at(j) = i
    BY <1>6
  <2> QED
    BY <1>4, <1>8, <2>1
<1> QED
  BY <1>2, <1>7, <1>10, <1>11 DEF IsList, r, n

\* Trimming leaves a list within the limit that still has the last entry.
LEMMA TrimList ==
  ASSUME NEW t \in Nat, NEW s, IsList(s, t), NEW limit \in Nat \ {0}
  PROVE  /\ IsList(TrimmedList(s, limit), t) /\ Len(TrimmedList(s, limit)) <= limit
         /\ Listed(TrimmedList(s, limit)) \subseteq Listed(s)
         /\ Len(s) # 0 => s[Len(s)].adr \in Listed(TrimmedList(s, limit))
<1> DEFINE n == Len(s)
           r == TrimmedList(s, limit)
           m == Len(r)
<1>1. /\ s \in Seq(Entries(t)) /\ n \in Nat /\ DOMAIN s = 1..n
      /\ \A i \in 1..n : s[i].adr \in Listed(s)
      /\ \A i, j \in 1..n : i < j => s[i].last_seen <= s[j].last_seen /\ s[i].adr # s[j].adr
  BY ListFacts
<1>2. /\ r \in Seq(Entries(t)) /\ m = (IF limit <= n THEN limit ELSE n)
      /\ \A i \in 1..m : r[i] = s[n - m + i]
  <2>1. limit \in Nat
    OBVIOUS
  <2> QED
    BY <1>1, <2>1, TrimPlaces
<1>3. DOMAIN r = 1..m
  BY <1>2
<1> HIDE DEF r, n, m
<1>4. m \in Nat /\ m <= n /\ m <= limit /\ \A i \in 1..m : n - m + i \in 1..n
  BY <1>1, <1>2
<1>5. Ordered(r)
  <2> SUFFICES ASSUME NEW i \in 1..m, NEW j \in 1..m, i < j
               PROVE  r[i].last_seen <= r[j].last_seen /\ r[i].adr # r[j].adr
    BY <1>3 DEF Ordered
  <2>1. n - m + i \in 1..n /\ n - m + j \in 1..n /\ n - m + i < n - m + j
    BY <1>1, <1>4
  <2> QED
    BY <1>1, <1>2, <2>1
<1>6. Listed(r) \subseteq Listed(s)
  <2> SUFFICES ASSUME NEW i \in 1..m PROVE r[i].adr \in Listed(s)
    BY <1>3 DEF Listed
  <2> QED
    BY <1>1, <1>2, <1>4
<1>7. ASSUME n # 0 PROVE s[n].adr \in Listed(r)
  <2>1. m \in 1..m /\ n - m + m = n
    BY <1>1, <1>2, <1>4, <1>7
  <2>2. r[m] = s[n]
    BY <1>2, <2>1
  <2> QED
    BY <1>3, <2>1, <2>2 DEF Listed
<1> QED
  BY <1>2, <1>4, <1>5, <1>6, <1>7 DEF IsList, r, n, m

\* An entry that is replaced by one of the same address stays on the list.
LEMMA ReplaceList ==
  ASSUME NEW t \in Nat, NEW s, IsList(s, t), NEW p \in 1..Len(s),
         NEW e \in Entries(t), e.adr = s[p].adr
  PROVE  /\ IsList(ReplaceByTime(s, p, e), t) /\ Len(ReplaceByTime(s, p, e)) = Len(s)
         /\ Listed(ReplaceByTime(s, p, e)) = Listed(s)
<1> DEFINE n == Len(s)
           r == [s EXCEPT ![p] = e]
           Fits == /\ p > 1 => s[p - 1].last_seen <= e.last_seen
                   /\ p < Len(s) => e.last_seen <= s[p + 1].last_seen
<1>1. /\ s \in Seq(Entries(t)) /\ n \in Nat /\ DOMAIN s = 1..n
      /\ \A i \in 1..n : s[i].adr \in Listed(s) /\ s[i].last_seen \in Nat
      /\ \A i, j \in 1..n : i < j => s[i].last_seen <= s[j].last_seen /\ s[i].adr # s[j].adr
  BY ListFacts
<1>2. CASE Fits
  <2>1. ReplaceByTime(s, p, e) = r
    BY <1>2 DEF ReplaceByTime
  <2>2. /\ r \in Seq(Entries(t)) /\ Len(r) = n /\ DOMAIN r = 1..n /\ p \in 1..n
        /\ \A i \in 1..n : r[i] = IF i = p THEN e ELSE s[i]
    BY <1>1
  <2>3. /\ e.last_seen \in Nat
        /\ p > 1 => s[p - 1].last_seen <= e.last_seen
        /\ p < n => e.last_seen <= s[p + 1].last_seen
    BY <1>2 DEF Entries
  <2> HIDE DEF r, n, Fits
  <2>4. \A i \in 1..n : r[i].adr = s[i].adr
    BY <2>2
  <2>5. Ordered(r)
    <3> SUFFICES ASSUME NEW i \in 1..n, NEW j \in 1..n, i < j
                 PROVE  r[i].last_seen <= r[j].last_seen /\ r[i].adr # r[j].adr
      BY <2>2 DEF Ordered
    <3>1. r[i].adr # r[j].adr
      BY <1>1, <2>4
    <3>2. CASE i # p /\ j # p
      BY <1>1, <2>2, <3>1, <3>2
    <3>3. CASE j = p
      <4>1. p > 1 /\ p - 1 \in 1..n /\ (i = p - 1 \/ i < p - 1) /\ i # p
        BY <1>1, <2>2, <3>3
      <4>2. s[i].last_seen <= s[p - 1].last_seen
        BY <1>1, <4>1
      <4>3. s[i].last_seen <= e.last_seen
        BY <1>1, <2>3, <4>1, <4>2
      <4> QED
        BY <2>2, <3>1, <3>3, <4>1, <4>3
    <3>4. CASE i = p
      <4>1. p < n /\ p + 1 \in 1..n /\ (j = p + 1 \/ p + 1 < j) /\ j # p
        BY <1>1, <2>2, <3>4
      <4>2. s[p + 1].last_seen <= s[j].last_seen
        BY <1>1, <4>1
      <4>3. e.last_seen <= s[j].last_seen
        BY <1>1, <2>3, <4>1, <4>2
      <4> QED
        BY <2>2, <3>1, <3>4, <4>1, <4>3
    <3> QED
      BY <3>2, <3>3, <3>4
  <2>6. Listed(r) = Listed(s)
    <3>1. Listed(r) = {r[i].adr : i \in 1..n} /\ Listed(s) = {s[i].adr : i \in 1..n}
      BY <1>1, <2>2 DEF Listed
    <3> QED
      BY <2>4, <3>1
  <2> QED
    BY <2>1, <2>2, <2>5, <2>6 DEF IsList, n
<1>3. CASE ~Fits
  <2> DEFINE q == RemoveAt(s, p)
  <2>1. ReplaceByTime(s, p, e) = InsertByTime(q, e)
    BY <1>3 DEF ReplaceByTime
  <2>2. IsList(q, t) /\ Len(q) = n - 1 /\ Listed(q) = Listed(s) \ {s[p].adr}
    BY RemoveList
  <2> HIDE DEF q, n
  <2>3. /\ IsList(InsertByTime(q, e), t) /\ Len(InsertByTime(q, e)) = Len(q) + 1
        /\ Listed(InsertByTime(q, e)) = Listed(q) \cup {e.adr}
    BY <2>2, InsertList
  <2>4. s[p].adr \in Listed(s) /\ n \in Nat
    BY <1>1 DEF n
  <2>5. Len(InsertByTime(q, e)) = n
    BY <2>2, <2>3, <2>4
  <2> QED
    BY <2>1, <2>2, <2>3, <2>4, <2>5 DEF n
<1> QED
  BY <1>2, <1>3

\* A list stays one as time passes.
LEMMA LaterList ==
  ASSUME NEW t \in Nat, NEW s, IsList(s, t)
  PROVE  IsList(s, t + 1)
<1>1. Entries(t) \subseteq Entries(t + 1)
  BY DEF Entries
<1>2. s \in Seq(Entries(t)) /\ Ordered(s)
  BY DEF IsList
<1>3. \A i \in 1..Len(s) : s[i] \in Entries(t + 1)
  BY <1>1, <1>2
<1>4. s \in Seq(Entries(t + 1))
  BY <1>2, <1>3
<1> QED
  BY <1>2, <1>4 DEF IsList

\* What is loaded is a list of the entries that were stored.
LEMMA ReloadedList ==
  ASSUME NEW t \in Nat, NEW s, IsList(s, t), NEW r \in Reloaded(s)
  PROVE  IsList(r, t) /\ Len(r) <= Len(s) /\ Listed(r) \subseteq Listed(s)
<1> DEFINE n == Len(s)
           S == ToSet(s)
           c == Cardinality(S)
<1>1. /\ s \in Seq(Entries(t)) /\ n \in Nat /\ DOMAIN s = 1..n
      /\ \A i \in 1..n : s[i] \in Entries(t) /\ s[i].adr \in Listed(s)
      /\ \A i, j \in 1..n : i < j => s[i].last_seen <= s[j].last_seen /\ s[i].adr # s[j].adr
  BY ListFacts
<1>2. S = {s[i] : i \in 1..n}
  BY <1>1 DEF ToSet
<1>3. /\ r \in [1..c -> S]
      /\ \A i, j \in 1..c : i # j => r[i] # r[j]
      /\ \A i, j \in DOMAIN r : i < j => r[i].last_seen < r[j].last_seen \/ (r[i].last_seen = r[j].last_seen /\ r[i].adr < r[j].adr)
  BY DEF Reloaded, SetToSeqs
<1>4. c \in Nat /\ c <= n
  <2>1. IsFiniteSet(1..n) /\ Cardinality(1..n) = n
    BY <1>1, UpTo
  <2>2. s \in [1..n -> S]
    <3>1. s = [i \in 1..n |-> s[i]]
      BY <1>1
    <3> QED
      BY <1>2, <3>1
  <2>3. s \in Surjection(1..n, S)
    BY <1>2, <2>2 DEF Surjection
  <2> HIDE DEF n, S
  <2>4. IsFiniteSet(S) /\ Cardinality(S) <= Cardinality(1..n)
    BY <2>1, <2>3, FS_Surjection
  <2> QED
    BY <2>1, <2>4, FS_CardinalityType
<1> HIDE DEF n, S, c
<1>5. \A x, y \in S : x # y => x.adr # y.adr
  <2> SUFFICES ASSUME NEW i \in 1..n, NEW j \in 1..n, s[i] # s[j] PROVE s[i].adr # s[j].adr
    BY <1>2
  <2>1. i < j \/ j < i
    BY <1>1
  <2> QED
    BY <1>1, <2>1
<1>6. DOMAIN r = 1..c /\ \A i \in 1..c : r[i] \in S
  BY <1>3
<1>7. \A x \in S : x \in Entries(t) /\ x.last_seen \in Nat /\ x.adr \in Listed(s)
  <2>1. \A x \in Entries(t) : x.last_seen \in Nat
    BY DEF Entries
  <2> QED
    BY <1>1, <1>2, <2>1
<1>8. r \in Seq(Entries(t)) /\ Len(r) = c
  <2>1. r \in [1..c -> Entries(t)]
    BY <1>3, <1>7
  <2> QED
    BY <1>4, <2>1
<1>9. Ordered(r)
  <2> SUFFICES ASSUME NEW i \in 1..c, NEW j \in 1..c, i < j
               PROVE  r[i].last_seen <= r[j].last_seen /\ r[i].adr # r[j].adr
    BY <1>6 DEF Ordered
  <2>1. r[i] \in S /\ r[j] \in S /\ r[i] # r[j]
    <3>1. i # j
      BY <1>4
    <3> QED
      BY <1>3, <1>6, <3>1
  <2>2. r[i].last_seen < r[j].last_seen \/ r[i].last_seen = r[j].last_seen
    BY <1>3, <1>6
  <2> QED
    BY <1>5, <1>7, <2>1, <2>2
<1>10. Listed(r) \subseteq Listed(s)
  BY <1>6, <1>7 DEF Listed
<1> QED
  BY <1>4, <1>8, <1>9, <1>10 DEF IsList, n

-----------------------------------------------------------------------------
(* What the peer lists become *)

\* The inductive invariant.
PeersInv ==
  /\ time_now \in Nat
  /\ IsList(white, time_now) /\ Len(white) <= WhiteLimit
  /\ IsList(gray, time_now) /\ Len(gray) <= GrayLimit
  /\ anchors \subseteq Addrs /\ out_conns \subseteq Addrs /\ Cardinality(out_conns) <= MaxOut
  /\ PeerListsSound

\* A peer on the list keeps its place or gets a new one; a new peer takes the
\* place of its host, and, just seen, is not the one that goes.
LEMMA NewWhiteList ==
  ASSUME PeersInv, NEW a \in Addrs, NEW b \in BOOLEAN
  PROVE  /\ IsList(NewWhite(a, time_now, b), time_now) /\ Len(NewWhite(a, time_now, b)) <= WhiteLimit
         /\ Listed(NewWhite(a, time_now, b)) \subseteq Listed(white) \cup {a}
         /\ a \in Listed(NewWhite(a, time_now, b))
         /\ \A x, y \in Listed(NewWhite(a, time_now, b)) : HostOf[x] = HostOf[y] => x = y
<1> DEFINE t == time_now
           r == NewWhite(a, t, b)
           e == Entry(a, t)
<1>1. /\ t \in Nat /\ IsList(white, t) /\ Len(white) \in Nat /\ Len(white) <= WhiteLimit
      /\ DOMAIN white = 1..Len(white) /\ OneWhitePerHost /\ WhiteLimit \in Nat \ {0}
      /\ Listed(white) \subseteq Addrs
  <2>1. time_now \in Nat /\ IsList(white, time_now)
    BY DEF PeersInv
  <2>2. Len(white) \in Nat /\ DOMAIN white = 1..Len(white) /\ \A i \in 1..Len(white) : white[i].adr \in Addrs
    BY <2>1, ListFacts
  <2> QED
    BY <2>1, <2>2, PeersAssumed DEF PeersInv, PeerListsSound, Listed
<1>2. e \in Entries(t) /\ e.adr = a /\ e.last_seen = t
  BY <1>1 DEF Entry, Entries
<1> HIDE DEF e
<1>3. CASE a \notin Listed(white)
  <2> DEFINE u == Evicted(white, a)
             v == InsertByTime(u, e)
  <2>1. IsList(u, t) /\ Listed(u) \subseteq Listed(white) \ SameHost(a)
    BY <1>1, WithoutList DEF Evicted
  <2>2. a \notin Listed(u)
    BY <1>3, <2>1
  <2> HIDE DEF u
  <2>3. /\ IsList(v, t) /\ Len(v) = Len(u) + 1 /\ Listed(v) = Listed(u) \cup {a}
        /\ v[Len(u) + 1] = e
    BY <1>1, <1>2, <2>1, <2>2, InsertList
  <2>4. Len(u) \in Nat
    BY <1>1, <2>1, ListFacts
  <2>5. r = TrimmedList(v, WhiteLimit)
    BY <1>3 DEF NewWhite, e, u
  <2> HIDE DEF v, r, t
  <2>6. Len(v) # 0 /\ v[Len(v)].adr = a
    BY <1>2, <2>3, <2>4
  <2>7. /\ IsList(r, t) /\ Len(r) <= WhiteLimit /\ Listed(r) \subseteq Listed(v)
        /\ a \in Listed(r)
    <3>1. /\ IsList(TrimmedList(v, WhiteLimit), t) /\ Len(TrimmedList(v, WhiteLimit)) <= WhiteLimit
          /\ Listed(TrimmedList(v, WhiteLimit)) \subseteq Listed(v)
          /\ Len(v) # 0 => v[Len(v)].adr \in Listed(TrimmedList(v, WhiteLimit))
      BY <1>1, <2>3, TrimList
    <3> QED
      BY <2>5, <2>6, <3>1
  <2>8. \A x, y \in Listed(r) : HostOf[x] = HostOf[y] => x = y
    <3> SUFFICES ASSUME NEW x \in Listed(r), NEW y \in Listed(r), HostOf[x] = HostOf[y] PROVE x = y
      OBVIOUS
    <3>1. /\ x \in (Listed(white) \ SameHost(a)) \cup {a}
          /\ y \in (Listed(white) \ SameHost(a)) \cup {a}
      BY <2>1, <2>3, <2>7
    <3>2. \A z \in Listed(white) \ SameHost(a) : HostOf[z] # HostOf[a]
      BY <1>1 DEF SameHost
    <3> QED
      BY <1>1, <3>1, <3>2 DEF OneWhitePerHost
  <2> QED
    BY <2>1, <2>3, <2>7, <2>8 DEF r, t
<1>4. CASE a \in Listed(white) /\ b
  <2> DEFINE p == CHOOSE i \in DOMAIN white : white[i].adr = a
  <2>1. p \in 1..Len(white) /\ white[p].adr = a
    BY <1>1, <1>4 DEF Listed
  <2>2. r = ReplaceByTime(white, p, e)
    BY <1>4 DEF NewWhite, e
  <2> HIDE DEF p, r
  <2>3. IsList(r, t) /\ Len(r) = Len(white) /\ Listed(r) = Listed(white)
    BY <1>1, <1>2, <2>1, <2>2, ReplaceList
  <2> QED
    BY <1>1, <1>4, <2>3 DEF r, OneWhitePerHost
<1>5. CASE a \in Listed(white) /\ ~b
  <2>1. r = white
    BY <1>5 DEF NewWhite
  <2> QED
    BY <1>1, <1>5, <2>1 DEF OneWhitePerHost
<1> QED
  BY <1>3, <1>4, <1>5

\* A peer told of becomes gray unless it is known.
LEMMA NewGrayList ==
  ASSUME PeersInv, NEW a \in Addrs
  PROVE  /\ IsList(NewGray(a, 0), time_now) /\ Len(NewGray(a, 0)) <= GrayLimit
         /\ Listed(white) \cap Listed(NewGray(a, 0)) = {}
<1> DEFINE t == time_now
           r == NewGray(a, 0)
           e == Entry(a, 0)
<1>1. /\ t \in Nat /\ IsList(gray, t) /\ Len(gray) <= GrayLimit
      /\ Listed(white) \cap Listed(gray) = {} /\ GrayLimit \in Nat \ {0}
  BY PeersAssumed DEF PeersInv, PeerListsSound, ListsDisjoint
<1>2. CASE a \in Listed(white) \cup Listed(gray)
  BY <1>1, <1>2 DEF NewGray
<1>3. CASE a \notin Listed(white) \cup Listed(gray)
  <2> DEFINE v == InsertByTime(gray, e)
  <2>1. e \in Entries(t) /\ e.adr = a
    BY <1>1 DEF Entry, Entries
  <2>2. r = TrimmedList(v, GrayLimit)
    BY <1>3 DEF NewGray
  <2> HIDE DEF e, r, t
  <2>3. IsList(v, t) /\ Listed(v) = Listed(gray) \cup {a}
    BY <1>1, <1>3, <2>1, InsertList
  <2> HIDE DEF v
  <2>4. IsList(r, t) /\ Len(r) <= GrayLimit /\ Listed(r) \subseteq Listed(v)
    BY <1>1, <2>2, <2>3, TrimList
  <2> QED
    BY <1>1, <1>3, <2>3, <2>4 DEF r, t
<1> QED
  BY <1>2, <1>3

\* What a peer that is put on the white list leaves behind: the lists are
\* still lists within their limits, they stay disjoint and have one port of a
\* host, and the peer is white.
LEMMA WhiteStep ==
  ASSUME PeersInv, NEW a \in Addrs, NEW b \in BOOLEAN, append_with_peer_white(a, b)
  PROVE  /\ IsList(white', time_now) /\ Len(white') <= WhiteLimit
         /\ IsList(gray', time_now) /\ Len(gray') <= GrayLimit
         /\ ListsDisjoint' /\ OneWhitePerHost'
         /\ a \in Listed(white')
<1>1. white' = NewWhite(a, time_now, b) /\ gray' = Without(gray, {a})
  BY DEF append_with_peer_white, LeavesGray
<1>2. /\ IsList(white', time_now) /\ Len(white') <= WhiteLimit
      /\ Listed(white') \subseteq Listed(white) \cup {a} /\ a \in Listed(white')
      /\ \A x, y \in Listed(white') : HostOf[x] = HostOf[y] => x = y
  BY <1>1, NewWhiteList
<1>3. /\ time_now \in Nat /\ IsList(gray, time_now) /\ Len(gray) <= GrayLimit
      /\ Listed(white) \cap Listed(gray) = {}
  BY DEF PeersInv, PeerListsSound, ListsDisjoint
<1>4. IsList(gray', time_now) /\ Len(gray') <= Len(gray) /\ Listed(gray') \subseteq Listed(gray) \ {a}
  BY <1>1, <1>3, WithoutList
<1>5. Len(gray') <= GrayLimit
  <2>1. Len(gray) \in Nat /\ Len(gray') \in Nat /\ GrayLimit \in Nat
    BY <1>3, <1>4, ListFacts, PeersAssumed
  <2> QED
    BY <1>3, <1>4, <2>1
<1>6. ListsDisjoint'
  BY <1>2, <1>3, <1>4 DEF ListsDisjoint
<1>7. OneWhitePerHost'
  BY <1>2 DEF OneWhitePerHost
<1> QED
  BY <1>2, <1>4, <1>5, <1>6, <1>7

\* Lists that only lose entries keep what the invariant says of them.
LEMMA FewerStep ==
  ASSUME PeersInv,
         IsList(white', time_now), Len(white') <= Len(white), Listed(white') \subseteq Listed(white),
         IsList(gray', time_now), Len(gray') <= Len(gray), Listed(gray') \subseteq Listed(gray)
  PROVE  /\ IsList(white', time_now) /\ Len(white') <= WhiteLimit
         /\ IsList(gray', time_now) /\ Len(gray') <= GrayLimit
         /\ ListsDisjoint' /\ OneWhitePerHost'
<1>1. /\ time_now \in Nat /\ IsList(white, time_now) /\ Len(white) <= WhiteLimit
      /\ IsList(gray, time_now) /\ Len(gray) <= GrayLimit
      /\ ListsDisjoint /\ OneWhitePerHost
  BY DEF PeersInv, PeerListsSound
<1>2. /\ Len(white) \in Nat /\ Len(white') \in Nat /\ Len(gray) \in Nat /\ Len(gray') \in Nat
      /\ WhiteLimit \in Nat /\ GrayLimit \in Nat
  BY <1>1, ListFacts, PeersAssumed
<1>3. Len(white') <= WhiteLimit /\ Len(gray') <= GrayLimit
  BY <1>1, <1>2
<1>4. ListsDisjoint' /\ OneWhitePerHost'
  BY <1>1 DEF ListsDisjoint, OneWhitePerHost
<1> QED
  BY <1>3, <1>4

\* The number of connections when one is opened or closed.
LEMMA ConnectionCount ==
  ASSUME out_conns \subseteq Addrs
  PROVE  /\ Cardinality(out_conns) \in Nat
         /\ \A a \in Addrs : Cardinality(out_conns) < MaxOut => Cardinality(out_conns \cup {a}) <= MaxOut
         /\ \A a \in Addrs : Cardinality(out_conns) <= MaxOut => Cardinality(out_conns \ {a}) <= MaxOut
<1>1. IsFiniteSet(out_conns) /\ Cardinality(out_conns) \in Nat /\ MaxOut \in Nat
  <2>1. IsFiniteSet(Addrs) /\ MaxOut \in Nat
    BY PeersAssumed
  <2> QED
    BY <2>1, FS_Subset, FS_CardinalityType
<1>2. ASSUME NEW a \in Addrs, Cardinality(out_conns) < MaxOut
      PROVE  Cardinality(out_conns \cup {a}) <= MaxOut
  <2>1. Cardinality(out_conns \cup {a}) = Cardinality(out_conns)
          \/ Cardinality(out_conns \cup {a}) = Cardinality(out_conns) + 1
    BY <1>1, FS_AddElement
  <2> QED
    BY <1>1, <1>2, <2>1
<1>3. ASSUME NEW a \in Addrs, Cardinality(out_conns) <= MaxOut
      PROVE  Cardinality(out_conns \ {a}) <= MaxOut
  <2>1. Cardinality(out_conns \ {a}) \in Nat /\ Cardinality(out_conns \ {a}) <= Cardinality(out_conns)
    <3>1. out_conns \ {a} \subseteq out_conns
      OBVIOUS
    <3> QED
      BY <1>1, <3>1, FS_Subset, FS_CardinalityType
  <2> QED
    BY <1>1, <1>3, <2>1
<1> QED
  BY <1>1, <1>2, <1>3

-----------------------------------------------------------------------------
(* The invariant *)

\* Nothing is known at first.
LEMMA PeersStart == PeersInit => PeersInv
<1> SUFFICES ASSUME PeersInit PROVE PeersInv
  OBVIOUS
<1>1. /\ white = <<>> /\ gray = <<>> /\ anchors = {} /\ out_conns = {} /\ time_now = 0
  BY DEF PeersInit
<1>2. IsList(<<>>, 0) /\ Len(<<>>) = 0 /\ Listed(<<>>) = {}
  BY DEF IsList, Ordered, Listed
<1>3. /\ Len(white) <= WhiteLimit /\ Len(gray) <= GrayLimit /\ Cardinality(out_conns) <= MaxOut
  BY <1>1, <1>2, PeersAssumed, FS_EmptySet
<1>4. PeerListsSound
  BY <1>1, <1>2 DEF PeerListsSound, ListsDisjoint, OneWhitePerHost, AnchorsConnected
<1> QED
  BY <1>1, <1>2, <1>3, <1>4 DEF PeersInv

\* Every step keeps it.
LEMMA PeersStep ==
  ASSUME PeersInv, [PeersNext]_peersVars
  PROVE  PeersInv'
<1> DEFINE Lists == /\ IsList(white', time_now) /\ Len(white') <= WhiteLimit
                    /\ IsList(gray', time_now) /\ Len(gray') <= GrayLimit
                    /\ ListsDisjoint' /\ OneWhitePerHost'
           Conns == /\ anchors' \subseteq Addrs /\ out_conns' \subseteq Addrs
                    /\ Cardinality(out_conns') <= MaxOut /\ AnchorsConnected'
<1>1. /\ time_now \in Nat /\ IsList(white, time_now) /\ Len(white) <= WhiteLimit
      /\ IsList(gray, time_now) /\ Len(gray) <= GrayLimit
      /\ anchors \subseteq Addrs /\ out_conns \subseteq Addrs /\ Cardinality(out_conns) <= MaxOut
      /\ ListsDisjoint /\ OneWhitePerHost /\ AnchorsConnected
      /\ Len(white) \in Nat /\ Len(gray) \in Nat
  <2>1. time_now \in Nat /\ IsList(white, time_now) /\ IsList(gray, time_now)
    BY DEF PeersInv
  <2>2. Len(white) \in Nat /\ Len(gray) \in Nat
    BY <2>1, ListFacts
  <2> QED
    BY <2>2 DEF PeersInv, PeerListsSound
<1>2. ASSUME Lists, Conns, UNCHANGED time_now PROVE PeersInv'
  BY <1>1, <1>2 DEF PeersInv, PeerListsSound
<1>3. ASSUME UNCHANGED <<white, gray>> PROVE Lists
  BY <1>1, <1>3 DEF ListsDisjoint, OneWhitePerHost
<1>4. ASSUME UNCHANGED <<anchors, out_conns, stray>> PROVE Conns
  BY <1>1, <1>4 DEF AnchorsConnected
<1>5. ASSUME NEW a \in Addrs, NEW b \in BOOLEAN, append_with_peer_white(a, b) PROVE Lists
  BY <1>5, WhiteStep
<1>6. ASSUME NEW as, white' = white \/ white' = Without(white, as), gray' = Without(gray, as)
      PROVE  Lists
  <2>1. IsList(white', time_now) /\ Len(white') <= Len(white) /\ Listed(white') \subseteq Listed(white)
    <3>1. CASE white' = white
      BY <1>1, <3>1
    <3>2. CASE white' = Without(white, as)
      BY <1>1, <3>2, WithoutList
    <3> QED
      BY <1>6, <3>1, <3>2
  <2>2. IsList(gray', time_now) /\ Len(gray') <= Len(gray) /\ Listed(gray') \subseteq Listed(gray)
    BY <1>1, <1>6, WithoutList
  <2> QED
    BY <2>1, <2>2, FewerStep
<1>7. TRUE \in BOOLEAN /\ FALSE \in BOOLEAN
  OBVIOUS
<1> HIDE DEF Lists
<1>8. ASSUME NEW a \in Addrs, handle_remote_peerlist(a) PROVE PeersInv'
  <2>1. gray' = NewGray(a, 0) /\ UNCHANGED <<white, anchors, out_conns, time_now, stray>>
    BY <1>8 DEF handle_remote_peerlist
  <2>2. Lists
    BY <1>1, <2>1, NewGrayList DEF Lists, ListsDisjoint, OneWhitePerHost
  <2> QED
    BY <1>2, <1>4, <2>1, <2>2
<1>9. ASSUME NEW a \in Addrs, ping_answered(a) PROVE PeersInv'
  BY <1>2, <1>4, <1>5, <1>7, <1>9 DEF ping_answered
<1>10. ASSUME NEW a \in Addrs, timed_sync_answered(a) PROVE PeersInv'
  BY <1>2, <1>4, <1>5, <1>7, <1>10 DEF timed_sync_answered, set_peer_just_seen
<1>11. ASSUME NEW a \in Addrs, handshake_answered(a) PROVE PeersInv'
  <2>1. Lists
    BY <1>5, <1>7, <1>11 DEF handshake_answered, set_peer_just_seen
  <2>2. Conns
    BY <1>1, <1>11, ConnectionCount DEF handshake_answered, AnchorsConnected
  <2> QED
    BY <1>2, <1>11, <2>1, <2>2 DEF handshake_answered
<1>12. ASSUME NEW a \in Addrs, handshake_with_self(a) PROVE PeersInv'
  BY <1>2, <1>4, <1>5, <1>7, <1>12 DEF handshake_with_self, set_peer_just_seen
<1>13. ASSUME NEW a \in Addrs, new_peer_connected(a) PROVE PeersInv'
  <2>1. Lists
    BY <1>5, <1>7, <1>13 DEF new_peer_connected
  <2>2. Conns
    BY <1>1, <1>13 DEF new_peer_connected, AnchorsConnected
  <2> QED
    BY <1>2, <1>13, <2>1, <2>2 DEF new_peer_connected
<1>14. ASSUME NEW a \in Addrs, on_connection_close(a) PROVE PeersInv'
  <2>1. Conns
    BY <1>1, <1>14, ConnectionCount DEF on_connection_close, AnchorsLeft, AnchorsConnected
  <2> QED
    BY <1>2, <1>3, <1>14, <2>1 DEF on_connection_close
<1>15. ASSUME NEW a \in Addrs, pick_gray_peer(a) PROVE PeersInv'
  BY <1>2, <1>3, <1>4, <1>15 DEF pick_gray_peer
<1>16. ASSUME NEW a \in Addrs, gray_peer_fails(a) PROVE PeersInv'
  BY <1>2, <1>4, <1>6, <1>16 DEF gray_peer_fails
<1>17. ASSUME NEW a \in Addrs, gray_peer_answers(a) PROVE PeersInv'
  BY <1>2, <1>4, <1>5, <1>7, <1>17 DEF gray_peer_answers, set_peer_just_seen
<1>18. ASSUME NEW a \in Addrs, block_host(a) PROVE PeersInv'
  <2>1. Lists
    BY <1>6, <1>18 DEF block_host, Evicted
  <2>2. Conns
    BY <1>1, <1>18 DEF block_host, AnchorsConnected
  <2> QED
    BY <1>2, <1>18, <2>1, <2>2 DEF block_host
<1>19. ASSUME take_anchors PROVE PeersInv'
  <2>1. Conns
    BY <1>1, <1>19 DEF take_anchors, AnchorsConnected
  <2> QED
    BY <1>2, <1>3, <1>19, <2>1 DEF take_anchors
<1>20. ASSUME restart PROVE PeersInv'
  <2>1. /\ white' \in Reloaded(white) /\ gray' \in Reloaded(gray)
        /\ out_conns' = {} /\ stray' = anchors /\ UNCHANGED <<anchors, time_now>>
    BY <1>20 DEF restart
  <2>2. /\ IsList(white', time_now) /\ Len(white') <= Len(white) /\ Listed(white') \subseteq Listed(white)
        /\ IsList(gray', time_now) /\ Len(gray') <= Len(gray) /\ Listed(gray') \subseteq Listed(gray)
    BY <1>1, <2>1, ReloadedList
  <2>3. Lists
    BY <2>2, FewerStep DEF Lists
  <2>4. Conns
    BY <1>1, <2>1, PeersAssumed, FS_EmptySet DEF AnchorsConnected
  <2> QED
    BY <1>2, <2>1, <2>3, <2>4
<1>21. ASSUME pass_time PROVE PeersInv'
  <2>1. time_now' = time_now + 1 /\ UNCHANGED <<white, gray, anchors, out_conns, stray>>
    BY <1>21 DEF pass_time
  <2>2. IsList(white, time_now') /\ IsList(gray, time_now') /\ time_now' \in Nat
    BY <1>1, <2>1, LaterList
  <2> QED
    BY <1>1, <2>1, <2>2 DEF PeersInv, PeerListsSound, ListsDisjoint, OneWhitePerHost, AnchorsConnected
<1>22. ASSUME UNCHANGED peersVars PROVE PeersInv'
  BY <1>2, <1>3, <1>4, <1>22 DEF peersVars
<1> QED
  BY <1>8, <1>9, <1>10, <1>11, <1>12, <1>13, <1>14, <1>15, <1>16, <1>17, <1>18, <1>19,
     <1>20, <1>21, <1>22 DEF PeersNext

\* The invariant of the peer lists, for any addresses, hosts and limits.
THEOREM PeersInvariant == PeersSpec => []PeersInv
<1>1. PeersInv /\ [PeersNext]_peersVars => PeersInv'
  BY PeersStep
<1> QED
  BY <1>1, PeersStart, PTL DEF PeersSpec

\* The lists stay within their limits and in the order of time, no address is
\* twice on one, and no more connections are made than allowed: what
\* trim_white_peerlist, trim_gray_peerlist and the two indices of the
\* containers provide through insertions, replacements, evictions and restarts.
THEOREM PeersTypeCorrect == PeersSpec => []PeersTypeOK
<1>1. PeersInv => PeersTypeOK
  BY DEF PeersInv, PeersTypeOK, IsList, Entries
<1> QED
  BY <1>1, PeersInvariant, PTL

\* A peer is white or gray and not both, one port of a host is white, and an
\* anchor that was not stored or added too late is connected, however
\* append_with_peer_white, append_with_peer_gray, block_host, closing
\* connections and restarts interleave.
THEOREM PeersAreSound == PeersSpec => []PeerListsSound
<1>1. PeersInv => PeerListsSound
  BY DEF PeersInv
<1> QED
  BY <1>1, PeersInvariant, PTL

\* set_peer_just_seen leaves the peer on the white list, which may be full of
\* entries as new: append_with_peer_white evicts the host, inserts behind the
\* entries of the same second, and trims from the other end.
THEOREM JustSeenIsKept == PeersSpec => JustSeenStays
<1>1. ASSUME PeersInv,
             [PeersNext]_peersVars
      PROVE  [\A a \in Addrs : (timed_sync_answered(a) \/ handshake_answered(a) \/ gray_peer_answers(a))
                => a \in Listed(white')]_peersVars
  <2> SUFFICES ASSUME NEW a \in Addrs, timed_sync_answered(a) \/ handshake_answered(a) \/ gray_peer_answers(a)
               PROVE  a \in Listed(white')
    OBVIOUS
  <2>1. append_with_peer_white(a, TRUE) /\ TRUE \in BOOLEAN
    BY DEF timed_sync_answered, handshake_answered, gray_peer_answers, set_peer_just_seen
  <2> QED
    BY <1>1, <2>1, WhiteStep
<1> QED
  BY <1>1, PeersInvariant, PTL DEF PeersSpec, JustSeenStays

-----------------------------------------------------------------------------
(* The zones together *)

ZonesInv == ZoneInv /\ NoiseInv /\ PeersInv

\* A step of one zone leaves the others as they are.
LEMMA OneZoneSteps ==
  [ZonesNext]_zonesVars => [ZoneNext]_zoneVars /\ [NoiseNext]_noiseVars /\ [PeersNext]_peersVars
BY DEF ZonesNext, zonesVars

\* The three parts of MCZones step one at a time, so their invariants hold together.
LEMMA ZonesInvariance == ZonesInit /\ [][ZonesNext]_zonesVars => []ZonesInv
<1>1. ZonesInit => ZonesInv
  BY ZoneInitInv, NoiseInitInv, PeersStart DEF ZonesInit, ZonesInv
<1>2. ZonesInv /\ [ZonesNext]_zonesVars => ZonesInv'
  BY OneZoneSteps, ZoneStepInv, NoiseStepInv, PeersStep DEF ZonesInv, NoiseStepOK
<1> QED
  BY <1>1, <1>2, PTL

\* ZonesConsistent: in the zones together, as in each of them alone, every
\* variable has its type, the stems and their sources are counted exactly and
\* the callbacks of the fluff timer too.
THEOREM ZonesAreConsistent == ZonesSpec => []ZonesConsistent
<1>1. ZonesInv => ZonesConsistent
  BY ZoneInvFacts, NoiseInvFacts DEF ZonesInv, ZonesConsistent, PeersInv, PeersTypeOK, IsList, Entries
<1> QED
  BY <1>1, ZonesInvariance, PTL DEF ZonesSpec
=============================================================================
