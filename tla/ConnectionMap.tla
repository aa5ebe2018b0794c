--------------------------- MODULE ConnectionMap ---------------------------
(***************************************************************************)
(* net::dandelionpp::connection_map (net/dandelionpp.cpp): the outgoing    *)
(* connections a zone uses as stems (or noise channels) in this epoch, the *)
(* stem every source is mapped to, and how many sources use each stem.     *)
(*                                                                         *)
(* A map is a record: out is out_mapping_, in is in_mapping_ and usage is  *)
(* usage_count_.  The code draws random numbers, so every operation is the *)
(* set of its possible results.                                            *)
(***************************************************************************)
EXTENDS Integers, Sequences, FiniteSets

CONSTANTS
  ZoneConns,   \* connection ids
  NilConn,     \* the nil uuid: no connection, and as a source this node
  Stems        \* CRYPTONOTE_DANDELIONPP_STEMS

ASSUME MapAssumption == IsFiniteSet(ZoneConns) /\ NilConn \notin ZoneConns /\ Stems \in Nat \ {0}

Sources == ZoneConns \cup {NilConn}
Least(S) == CHOOSE n \in S : \A k \in S : n <= k

\* The sequences of n different members of S.
Draws(S, n) == {s \in [1..n -> S] : \A i, j \in 1..n : i # j => s[i] # s[j]}

\* connection_map::connection_map
NewMaps(outs) ==
  {[out |-> s, in |-> [x \in {} |-> 0], usage |-> [i \in 1..Stems |-> 0]] :
     s \in Draws(outs, Least({Stems, Cardinality(outs)}))}

InUse(m) == {m.out[i] : i \in DOMAIN m.out} \ {NilConn}

\* Places of the map update may fill: the ones whose connection is gone, and
\* the ones the map has not grown to yet.
FreePlaces(m) == {i \in DOMAIN m.usage : i \notin DOMAIN m.out \/ m.out[i] = NilConn}

\* Fault: a connection that is in the map already is offered again.
AllCurrent(m, current) == current
Candidates(m, current) == current \ InUse(m)

PlaceOf(i, S) == Cardinality({k \in S : k <= i})

\* connection_map::update: the pairs of the new map and of what it returns.
Updates(m, current) ==
  LET kept    == [m EXCEPT !.out = [i \in DOMAIN m.out |-> IF m.out[i] \in current THEN m.out[i] ELSE NilConn]]
      replace == \E i \in DOMAIN m.out : m.out[i] \notin current
      free    == FreePlaces(kept)
      left    == Candidates(kept, current)
      n       == Least({Cardinality(free), Cardinality(left)})
      filled  == {i \in free : PlaceOf(i, free) <= n}
      size    == Cardinality(DOMAIN m.out \cup filled)
      Fill(s) == [i \in 1..size |-> IF i \in filled THEN s[PlaceOf(i, free)] ELSE kept.out[i]]
  IN  IF ~replace /\ Len(m.out) = Cardinality(DOMAIN m.usage)
      THEN {[map |-> m, changed |-> FALSE]}
      ELSE {[map |-> [kept EXCEPT !.out = Fill(s)], changed |-> replace \/ size > Len(m.out)] : s \in Draws(left, n)}

\* connection_map::size
MapSize(m) == Cardinality({i \in DOMAIN m.out : m.out[i] # NilConn})

\* select_stem: the places with a connection that the fewest sources use.
LeastUsed(m) ==
  {i \in DOMAIN m.out : m.out[i] # NilConn /\ \A k \in DOMAIN m.out : m.out[k] # NilConn => m.usage[i] <= m.usage[k]}

\* The count of a source whose stem is gone is taken back first.
Unuse(m, source) == IF source \in DOMAIN m.in THEN [m EXCEPT !.usage[m.in[source]] = @ - 1] ELSE m

Assign(m, source, i) ==
  [m EXCEPT !.in = [s \in DOMAIN m.in \cup {source} |-> IF s = source THEN i ELSE m.in[s]],
            !.usage[i] = @ + 1]

Forget(m, source) == [m EXCEPT !.in = [s \in DOMAIN m.in \ {source} |-> m.in[s]]]

\* Fault: a source is mapped anew each time.
Remaps(m, source) == FALSE
HasStem(m, source) == source \in DOMAIN m.in /\ m.out[m.in[source]] # NilConn

\* connection_map::get_stem: the pairs of the new map and of the stem.
GetStems(m, source) ==
  LET u == Unuse(m, source)
  IN  IF HasStem(m, source) THEN {[map |-> m, to |-> m.out[m.in[source]]]}
      ELSE IF LeastUsed(u) = {} THEN {[map |-> Forget(u, source), to |-> NilConn]}
      ELSE {[map |-> Assign(u, source, i), to |-> m.out[i]] : i \in LeastUsed(u)}

\* usage_count_ is the number of sources mapped to a stem, whatever
\* connections came and went, so that new sources are spread evenly.
UsageExact(m) == \A i \in DOMAIN m.usage : m.usage[i] = Cardinality({s \in DOMAIN m.in : m.in[s] = i})

\* No connection is the stem of two places, and the map never outgrows Stems.
StemsDistinct(m) ==
  /\ Len(m.out) <= Stems
  /\ \A i, k \in DOMAIN m.out : m.out[i] = m.out[k] /\ m.out[i] # NilConn => i = k
=============================================================================
