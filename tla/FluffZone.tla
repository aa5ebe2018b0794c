----------------------------- MODULE FluffZone -----------------------------
(***************************************************************************)
(* The relaying of transactions in a zone without noise                    *)
(* (cryptonote_protocol/levin_notify.cpp): the stem and the fluff phase of *)
(* Dandelion++.  A transaction to fluff waits in the context of every      *)
(* connection until the connection's flush time; one system timer serves   *)
(* all of them, and its callbacks may be outstanding when it is set again. *)
(*                                                                         *)
(* Everything runs in the zone's strand and is one step.  The connections  *)
(* (p2p) change outside of it: what the strand knows of them is late.      *)
(* Times count from now, in ticks; a time that is over is 0.               *)
(***************************************************************************)
EXTENDS ConnectionMap

CONSTANTS
  Income,        \* the connections that are incoming
  Behind,        \* the connections whose peers may be behind us
  RelayTxs,      \* transactions
  RelaySources,  \* where they come from: connections, and this node as NilConn
  MaxDelay,      \* bound: the longest flush delay
  ZoneBounds     \* bounds: kinds of zone, each with how often transactions are handed
                 \* to send_txs (sends), and how often connections come and go, epochs
                 \* change and the timer is cancelled (moves)

ASSUME FluffAssumption ==
  /\ Income \subseteq ZoneConns /\ Behind \subseteq ZoneConns /\ RelaySources \subseteq Sources
  /\ MaxDelay \in Nat 
  /\ ZoneBounds \subseteq [public: BOOLEAN, sends: Nat, moves: Nat]

Never == MaxDelay + 1   \* time_point::max()

VARIABLES
  zone_public,     \* nzone is the public one
  p2p,             \* connections of the server
  fluff_txs, flush_time,        \* zone::contexts, by connection
  stem_map, fluffing,           \* zone::map, zone::fluffing
  flush_callbacks, \* zone::flush_callbacks
  expiry, armed,   \* the timer flush_txs: when it expires, and whether a wait is pending
  posted,          \* callbacks of the timer in the strand: TRUE for a cancelled one
  last_stem,       \* history: the last peer each source's transactions went to in this epoch
  sends, moves     \* what is left of the bounds

zoneVars == <<zone_public, p2p, fluff_txs, flush_time, stem_map, fluffing,
              flush_callbacks, expiry, armed, posted, last_stem, sends, moves>>
timerVars == <<flush_callbacks, expiry, armed, posted>>
contextVars == <<fluff_txs, flush_time>>
mapVars == <<stem_map, fluffing, last_stem>>

Contexts == DOMAIN fluff_txs
\* get_out_connections: the outgoing ones whose peers are not behind, now.
OutConnections == {p2p \ Income, p2p \ (Income \cup Behind)}

NoStem == [s \in RelaySources |-> NilConn]

\* The zone once connections are made.  The constructor of notify has started
\* the first epoch before there were any.
ZoneInit ==
  /\ \E b \in ZoneBounds : zone_public = b.public /\ sends = b.sends /\ moves = b.moves
  /\ p2p = ZoneConns
  /\ fluff_txs = [c \in ZoneConns |-> {}] /\ flush_time = [c \in ZoneConns |-> Never]
  /\ stem_map \in NewMaps({}) /\ fluffing = FALSE
  /\ flush_callbacks = 0 /\ expiry = 0 /\ armed = FALSE /\ posted = << >>
  /\ last_stem = NoStem

Move == moves > 0 /\ moves' = moves - 1

\* A connection is made, and its handshake completes: on_handshake_complete.
Connect(c) ==
  /\ Move /\ c \notin p2p \cup Contexts
  /\ p2p' = p2p \cup {c}
  /\ UNCHANGED <<zone_public, contextVars, mapVars, timerVars, sends>>

HandshakeComplete(c) ==
  /\ c \in p2p \ Contexts
  /\ fluff_txs' = [d \in Contexts \cup {c} |-> IF d = c THEN {} ELSE fluff_txs[d]]
  /\ flush_time' = [d \in Contexts \cup {c} |-> IF d = c THEN Never ELSE flush_time[d]]
  /\ UNCHANGED <<zone_public, p2p, mapVars, timerVars, sends, moves>>

\* A connection is lost, and the strand hears of it: on_connection_close.
Disconnect(c) ==
  /\ Move /\ c \in p2p
  /\ p2p' = p2p \ {c}
  /\ UNCHANGED <<zone_public, contextVars, mapVars, timerVars, sends>>

ConnectionClose(c) ==
  /\ c \in Contexts \ p2p
  /\ fluff_txs' = [d \in Contexts \ {c} |-> fluff_txs[d]]
  /\ flush_time' = [d \in Contexts \ {c} |-> flush_time[d]]
  /\ UNCHANGED <<zone_public, p2p, mapVars, timerVars, sends, moves>>

\* start_epoch: a new map of outgoing peers at about our height, and the kind
\* of the epoch; change_channels puts them in place.  Only public zones have
\* epochs (and zones with noise, see NoiseZone).  The map may be outdated as
\* soon as it is made, like any other.
StartEpoch ==
  /\ Move /\ zone_public
  /\ \E outs \in OutConnections : stem_map' \in NewMaps(outs)
  /\ fluffing' \in BOOLEAN
  /\ last_stem' = NoStem
  /\ UNCHANGED <<zone_public, p2p, contextVars, timerVars, sends>>

\* fluff_flush::queue: setting the timer cancels the wait that is pending,
\* whose callback is still to come.
QueueFlush(callbacks, waiting, at) ==
  /\ flush_callbacks' = callbacks + 1
  /\ expiry' = at
  /\ posted' = IF armed THEN Append(waiting, TRUE) ELSE waiting
  /\ armed' = TRUE

\* The timer is set when there is no callback, or for an earlier time.
SetsTimer(at) == flush_callbacks = 0 \/ at < expiry

\* fluff_notify::run: queue t for every other connection (for the outgoing
\* ones only in zones that are not public) and see to the timer.
Fluff(t, source) ==
  LET to    == {c \in Contexts : c # source /\ (zone_public \/ c \notin Income)}
      fresh == {c \in to : fluff_txs[c] = {}}
  IN  \E delay \in [fresh -> 0..MaxDelay] :
        LET at   == [c \in Contexts |-> IF c \in fresh THEN delay[c] ELSE flush_time[c]]
            next == Least({at[c] : c \in to})
        IN  /\ fluff_txs' = [c \in Contexts |-> IF c \in to THEN fluff_txs[c] \cup {t} ELSE fluff_txs[c]]
            /\ flush_time' = at
            /\ IF to # {} /\ SetsTimer(next) THEN QueueFlush(flush_callbacks, posted, next)
               ELSE UNCHANGED timerVars

\* History: a peer that has left the map is forgotten, even if it comes back.
Known(ls, m) == [s \in RelaySources |-> IF ls[s] \in InUse(m) THEN ls[s] ELSE NilConn]

Stemmed(source, m, to) ==
  /\ stem_map' = m
  /\ last_stem' = [Known(last_stem, m) EXCEPT ![source] = to]
  /\ UNCHANGED <<contextVars, timerVars>>

\* update_channels with the connections there are now.
Refreshed(m) == UNION {Updates(m, outs) : outs \in OutConnections}

\* dandelionpp_notify, stem part: two tries with the stem of the source, each
\* failure followed by an update of the map with the connections read again;
\* after both the transaction is fluffed.  A send may fail although the
\* connection is still there.
Stem(t, source) ==
  \E r1 \in GetStems(stem_map, source) :
    \/ r1.to \in p2p /\ Stemmed(source, r1.map, r1.to)
    \/ \E u1 \in Refreshed(r1.map) : \E r2 \in GetStems(u1.map, source) :
         \/ r2.to \in p2p /\ Stemmed(source, r2.map, r2.to)
         \/ \E u2 \in Refreshed(r2.map) :
              /\ stem_map' = u2.map
              /\ Fluff(t, source)
              /\ last_stem' = Known(Known(last_stem, u1.map), u2.map)

\* send_txs without noise: stem, forward and local transactions go through
\* Dandelion++ in a public zone, everything else is fluffed.
SendTxs(t, source, relay) ==
  /\ sends > 0 /\ sends' = sends - 1
  /\ \/ zone_public /\ relay # "fluff" /\ (~fluffing \/ relay = "local") /\ Stem(t, source)
     \/ /\ ~zone_public \/ relay = "fluff" \/ (fluffing /\ relay # "local")
        /\ Fluff(t, source)
        /\ UNCHANGED <<stem_map, last_stem>>
  /\ UNCHANGED <<zone_public, p2p, fluffing, moves>>

\* Time passes.
Earlier(at) == IF at \in {0, Never} THEN at ELSE at - 1
Tick ==
  /\ \/ armed /\ expiry > 0
     \/ \E c \in Contexts : flush_time[c] \notin {0, Never}
  /\ expiry' = Earlier(expiry)
  /\ flush_time' = [c \in Contexts |-> Earlier(flush_time[c])]
  /\ UNCHANGED <<zone_public, p2p, fluff_txs, mapVars, flush_callbacks, armed, posted, sends, moves>>

TimerExpires ==
  /\ armed /\ expiry = 0
  /\ armed' = FALSE /\ posted' = Append(posted, FALSE)
  /\ UNCHANGED <<zone_public, p2p, contextVars, mapVars, flush_callbacks, expiry, sends, moves>>

\* run_fluff cancels the timer.
RunFluff ==
  /\ armed /\ Move
  /\ armed' = FALSE /\ posted' = Append(posted, TRUE)
  /\ UNCHANGED <<zone_public, p2p, contextVars, mapVars, flush_callbacks, expiry, sends>>

\* Fault: whatever is not due is forgotten by the timer.
RearmNever(left) == FALSE
Rearms(left) == left # {}

\* fluff_flush: only the last outstanding callback does anything.  It sends
\* what is due (everything, when the timer was cancelled) and sets the timer
\* for the rest.
FluffFlush ==
  /\ posted # << >>
  /\ LET cancelled == Head(posted)
         due(c)    == flush_time[c] = 0 \/ cancelled
         left      == {c \in Contexts : fluff_txs[c] # {} /\ ~due(c)}
     IN  IF flush_callbacks > 1
         THEN /\ flush_callbacks' = flush_callbacks - 1 /\ posted' = Tail(posted)
              /\ UNCHANGED <<contextVars, expiry, armed>>
         ELSE /\ fluff_txs' = [c \in Contexts |-> IF c \in left THEN fluff_txs[c] ELSE {}]
              /\ flush_time' = [c \in Contexts |-> IF c \in left THEN flush_time[c] ELSE Never]
              /\ IF Rearms(left) THEN QueueFlush(0, Tail(posted), Least({flush_time[c] : c \in left}))
                 ELSE flush_callbacks' = 0 /\ posted' = Tail(posted) /\ UNCHANGED <<expiry, armed>>
  /\ UNCHANGED <<zone_public, p2p, mapVars, sends, moves>>

\* The bounds are used up and nothing is queued.
ZoneDone ==
  /\ sends = 0 /\ moves = 0 /\ ~armed /\ posted = << >>
  /\ UNCHANGED zoneVars

ZoneNext ==
  \/ \E c \in ZoneConns : Connect(c) \/ HandshakeComplete(c) \/ Disconnect(c) \/ ConnectionClose(c)
  \/ StartEpoch
  \/ \E t \in RelayTxs, s \in RelaySources, relay \in {"stem", "local", "fluff"} : SendTxs(t, s, relay)
  \/ Tick \/ TimerExpires \/ RunFluff \/ FluffFlush \/ ZoneDone

\* Time goes on, timers fire, and the strand runs what is posted to it.
ZoneFairness == WF_zoneVars(Tick) /\ WF_zoneVars(TimerExpires) /\ WF_zoneVars(FluffFlush)
ZoneSpec == ZoneInit /\ [][ZoneNext]_zoneVars /\ ZoneFairness
-----------------------------------------------------------------------------
\* The variables stay in their types; the counts of stems and callbacks, unsigned
\* in the code, do not go below zero.
ZoneTypeOK ==
  /\ zone_public \in BOOLEAN /\ p2p \subseteq ZoneConns /\ fluffing \in BOOLEAN
  /\ Contexts \subseteq ZoneConns /\ DOMAIN flush_time = Contexts
  /\ \A c \in Contexts : fluff_txs[c] \subseteq RelayTxs /\ flush_time[c] \in 0..Never
  /\ DOMAIN stem_map.in \subseteq Sources
  /\ \A i \in DOMAIN stem_map.out : stem_map.out[i] \in Sources
  /\ \A s \in DOMAIN stem_map.in : stem_map.in[s] \in DOMAIN stem_map.out
  /\ \A i \in DOMAIN stem_map.usage : stem_map.usage[i] \in Nat
  /\ flush_callbacks \in Nat /\ expiry \in 0..MaxDelay /\ armed \in BOOLEAN
  /\ posted \in Seq(BOOLEAN)
  /\ last_stem \in [RelaySources -> Sources]

\* usage_count_ counts the sources of every stem exactly and no connection is
\* the stem of two places, whatever update and get_stem found outdated.
StemMapSound == UsageExact(stem_map) /\ StemsDistinct(stem_map)

\* flush_callbacks counts the callbacks that are still to run: the last of them
\* is the one that flushes, and none is without a successor.
CallbacksExact == flush_callbacks = Len(posted) + (IF armed THEN 1 ELSE 0)

\* Dandelion++'s promise to a source: in an epoch its transactions go to one
\* peer, and to another one only after the first was gone from the map.
OneStemPerSource == [][\A s \in RelaySources :
  last_stem[s] # NilConn /\ last_stem'[s] \notin {NilConn, last_stem[s]} => last_stem[s] \notin InUse(stem_map')]_zoneVars

\* What is queued for a connection leaves the queue, by a flush or because the
\* connection is closed.
FluffFlushed == \A c \in ZoneConns : (c \in Contexts /\ fluff_txs[c] # {}) ~> (c \notin Contexts \/ fluff_txs[c] = {})
=============================================================================
