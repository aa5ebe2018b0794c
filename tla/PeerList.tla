------------------------------ MODULE PeerList ------------------------------
(***************************************************************************)
(* The peer lists of a zone (p2p/net_peerlist.h) and what node_server      *)
(* (p2p/net_node.inl) does with them: peers it has talked to are white,    *)
(* peers it was told of are gray, and anchors are the peers it is to try   *)
(* first after a restart.                                                  *)
(*                                                                         *)
(* Every method of peerlist_manager holds m_peerlist_lock and is part of   *)
(* one step.  idle_worker's thread makes connections and checks gray peers *)
(* one after the other; the answers of peers, pings and closing            *)
(* connections come on other threads.  Which hosts are blocked or failed   *)
(* lately is not kept: their addresses are merely not offered.  Lists are  *)
(* stored when the node stops.  No peers are given on the command line.    *)
(***************************************************************************)
EXTENDS Integers, FiniteSets, SequencesExt, Subsequences

CONSTANTS
  Addrs,       \* addresses, host and port, in their order: numbers
  HostOf,      \* HostOf[a]: the host of address a
  WhiteLimit,  \* P2P_LOCAL_WHITE_PEERLIST_LIMIT
  GrayLimit,   \* P2P_LOCAL_GRAY_PEERLIST_LIMIT
  MaxOut,      \* max_out_connection_count
  AnchorCount, \* P2P_DEFAULT_ANCHOR_CONNECTIONS_COUNT
  LastTime     \* bound of the clock

ASSUME PeersAssumed ==
  /\ Addrs \subseteq Nat /\ IsFiniteSet(Addrs)
  /\ HostOf \in [Addrs -> Nat]
  /\ {WhiteLimit, GrayLimit, MaxOut, AnchorCount} \subseteq Nat \ {0} /\ LastTime \in Nat

VARIABLES
  white,     \* m_peers_white and m_peers_gray in the order of their index by_time
  gray,
  anchors,   \* m_peers_anchor
  out_conns, \* outgoing connections
  maker,     \* what idle_worker's thread is at: <<>>, or <<what, address>>
  time_now,  \* time(NULL)
  stray      \* history: anchors of no connection, stored ones or added too late

peersVars == <<white, gray, anchors, out_conns, maker, time_now, stray>>

Entry(a, t) == [adr |-> a, last_seen |-> t]
Listed(s) == {s[i].adr : i \in DOMAIN s}
Without(s, as) == Subsequence(s, {i \in DOMAIN s : s[i].adr \notin as})
SameHost(a) == {b \in Addrs : HostOf[b] = HostOf[a]}

\* Fault: before the entries that are as old.
InsertByTime_Lower(s, e) ==
  InsertAt(s, 1 + Cardinality({i \in DOMAIN s : s[i].last_seen < e.last_seen}), e)
\* The index by_time keeps entries that are as old in the order they came.
InsertByTime(s, e) ==
  InsertAt(s, 1 + Cardinality({i \in DOMAIN s : s[i].last_seen <= e.last_seen}), e)

\* replace() leaves an entry where it is if the order allows it.
ReplaceByTime(s, i, e) ==
  IF /\ i > 1 => s[i - 1].last_seen <= e.last_seen
     /\ i < Len(s) => e.last_seen <= s[i + 1].last_seen
  THEN [s EXCEPT ![i] = e] ELSE InsertByTime(RemoveAt(s, i), e)

\* trim_white_peerlist, trim_gray_peerlist: the oldest go.
TrimmedList(s, limit) == SubSeq(s, Len(s) - Min({limit, Len(s)}) + 1, Len(s))

\* evict_host_from_peerlist
Evicted(s, a) == Without(s, SameHost(a))

\* append_with_peer_white
NewWhite(a, t, trust_last_seen) ==
  IF a \notin Listed(white)
  THEN TrimmedList(InsertByTime(Evicted(white, a), Entry(a, t)), WhiteLimit)
  ELSE IF trust_last_seen
  THEN ReplaceByTime(white, CHOOSE i \in DOMAIN white : white[i].adr = a, Entry(a, t))
  ELSE white

\* Fault: the peer stays gray.
LeavesGray_Not(a) == UNCHANGED gray
LeavesGray(a) == gray' = Without(gray, {a})

append_with_peer_white(a, trust_last_seen) ==
  white' = NewWhite(a, time_now, trust_last_seen) /\ LeavesGray(a)
set_peer_just_seen(a) == append_with_peer_white(a, TRUE)

\* append_with_peer_gray
NewGray(a, t) ==
  IF a \in Listed(white) \cup Listed(gray) THEN gray
  ELSE TrimmedList(InsertByTime(gray, Entry(a, t)), GrayLimit)

-----------------------------------------------------------------------------
(* What a peer brings about *)

\* merge_peerlist; sanitize_peerlist has taken away when the peers were seen.
handle_remote_peerlist(a) ==
  /\ gray' = NewGray(a, 0)
  /\ UNCHANGED <<white, anchors, out_conns, maker, time_now, stray>>

\* handle_handshake: the peer that connected to us answers our ping.
ping_answered(a) ==
  /\ append_with_peer_white(a, FALSE)
  /\ UNCHANGED <<anchors, out_conns, maker, time_now, stray>>

\* do_peer_timed_sync is answered.
timed_sync_answered(a) ==
  /\ a \in out_conns
  /\ set_peer_just_seen(a)
  /\ UNCHANGED <<anchors, out_conns, maker, time_now, stray>>

-----------------------------------------------------------------------------
(* Outgoing connections *)

\* connections_maker, make_expected_connections_count: with few connections
\* the anchors are taken, to be tried before other peers.  Few is less than
\* expected_white_connections, all of max_out_connection_count when a pruning
\* stripe is needed, as it may be at any time.
take_anchors ==
  /\ maker = <<>> /\ Cardinality(out_conns) < Min({MaxOut, AnchorCount})
  /\ anchors' = {} /\ stray' = {}
  /\ UNCHANGED <<white, gray, out_conns, maker, time_now>>

\* do_handshake_with_peer is answered; try_to_connect_and_handshake_with_new_peer
\* goes on in its own thread.  There may be anchors still: with enough
\* connections they are not tried, and those may have closed since.
handshake_answered(a) ==
  /\ maker = <<>> /\ a \notin out_conns /\ Cardinality(out_conns) < MaxOut
  /\ set_peer_just_seen(a)
  /\ out_conns' = out_conns \cup {a}
  /\ maker' = <<"connected", a>>
  /\ UNCHANGED <<anchors, time_now, stray>>

\* The peer was this node: it has been put on the list when that is seen.
handshake_with_self(a) ==
  /\ maker = <<>> /\ a \notin out_conns /\ Cardinality(out_conns) < MaxOut
  /\ set_peer_just_seen(a)
  /\ UNCHANGED <<anchors, out_conns, maker, time_now, stray>>

new_peer_connected(a) ==
  /\ maker = <<"connected", a>>
  /\ append_with_peer_white(a, FALSE)
  /\ anchors' = anchors \cup {a}
  /\ stray' = IF a \in out_conns THEN stray ELSE stray \cup {a}
  /\ maker' = <<>>
  /\ UNCHANGED <<out_conns, time_now>>

\* remove_from_peer_anchor
AnchorsLeft(a) == anchors \ {a}

on_connection_close(a) ==
  /\ a \in out_conns
  /\ out_conns' = out_conns \ {a}
  /\ anchors' = AnchorsLeft(a) /\ stray' = stray \ {a}
  /\ UNCHANGED <<white, gray, maker, time_now>>

\* gray_peerlist_housekeeping: a random gray peer is tried; it may have left
\* the list when the result is there.
pick_gray_peer(a) ==
  /\ maker = <<>> /\ a \in Listed(gray)
  /\ maker' = <<"checking", a>>
  /\ UNCHANGED <<white, gray, anchors, out_conns, time_now, stray>>

gray_peer_fails(a) ==
  /\ maker = <<"checking", a>>
  /\ gray' = Without(gray, {a})
  /\ maker' = <<>>
  /\ UNCHANGED <<white, anchors, out_conns, time_now, stray>>

gray_peer_answers(a) ==
  /\ maker = <<"checking", a>>
  /\ set_peer_just_seen(a)
  /\ maker' = <<>>
  /\ UNCHANGED <<anchors, out_conns, time_now, stray>>

-----------------------------------------------------------------------------
(* block_host, restarts and time *)

\* An address is blocked: it is taken from every list, or, without a port, its
\* host from two of them.  The connections are closed later.
block_host(a) ==
  /\ \/ /\ white' = Without(white, {a}) /\ gray' = Without(gray, {a})
        /\ anchors' = anchors \ {a} /\ stray' = stray \ {a}
     \/ /\ white' = Evicted(white, a) /\ gray' = Evicted(gray, a)
        /\ UNCHANGED <<anchors, stray>>
  /\ UNCHANGED <<out_conns, maker, time_now>>

\* The lists are stored, and loaded, in the order of the addresses.
Reloaded(s) == {r \in SetToSeqs(ToSet(s)) : \A i, j \in DOMAIN r : i < j =>
  r[i].last_seen < r[j].last_seen \/ (r[i].last_seen = r[j].last_seen /\ r[i].adr < r[j].adr)}

restart ==
  /\ white' \in Reloaded(white) /\ gray' \in Reloaded(gray)
  /\ out_conns' = {} /\ maker' = <<>> /\ stray' = anchors
  /\ UNCHANGED <<anchors, time_now>>

pass_time ==
  /\ time_now < LastTime
  /\ time_now' = time_now + 1
  /\ UNCHANGED <<white, gray, anchors, out_conns, maker, stray>>

PeersInit ==
  /\ white = <<>> /\ gray = <<>> /\ anchors = {} /\ out_conns = {}
  /\ maker = <<>> /\ time_now = 0 /\ stray = {}

PeersNext ==
  \/ \E a \in Addrs :
       \/ handle_remote_peerlist(a) \/ ping_answered(a) \/ timed_sync_answered(a)
       \/ handshake_answered(a) \/ handshake_with_self(a) \/ new_peer_connected(a)
       \/ on_connection_close(a)
       \/ pick_gray_peer(a) \/ gray_peer_fails(a) \/ gray_peer_answers(a) \/ block_host(a)
  \/ take_anchors \/ restart \/ pass_time

PeersSpec == PeersInit /\ [][PeersNext]_peersVars
-----------------------------------------------------------------------------
Ordered(s) == \A i, j \in DOMAIN s : i < j => s[i].last_seen <= s[j].last_seen /\ s[i].adr # s[j].adr

\* The lists are within their limits and in the order of time, with no address
\* twice.
PeersTypeOK ==
  /\ white \in Seq([adr : Addrs, last_seen : 0..time_now]) /\ Len(white) <= WhiteLimit /\ Ordered(white)
  /\ gray \in Seq([adr : Addrs, last_seen : 0..time_now]) /\ Len(gray) <= GrayLimit /\ Ordered(gray)
  /\ anchors \subseteq Addrs /\ out_conns \subseteq Addrs /\ Cardinality(out_conns) <= MaxOut

\* A peer is white or gray, whoever told of it or talked to it last.
ListsDisjoint == Listed(white) \cap Listed(gray) = {}

\* Only one port of a host is white, so that no host takes up the list, which
\* is what other peers are told, through restarts and blocked hosts.
OneWhitePerHost == \A a, b \in Listed(white) : HostOf[a] = HostOf[b] => a = b

\* Unless it was stored, or its connection closed before it was made an
\* anchor, an anchor is connected.
AnchorsConnected == anchors \subseteq out_conns \cup stray

\* What other peers are told and what a restart relies on, however gossip,
\* handshakes, checks, blocked hosts and closed connections interleave.
PeerListsSound == ListsDisjoint /\ OneWhitePerHost /\ AnchorsConnected

\* A peer that has just answered is not the one that goes when the list is
\* full, nor is it left on the gray list only.
JustSeenStays == [][\A a \in Addrs :
  (timed_sync_answered(a) \/ handshake_answered(a) \/ gray_peer_answers(a)) => a \in Listed(white')]_peersVars
=============================================================================
