----------------------------- MODULE NoiseZone -----------------------------
(***************************************************************************)
(* The noise channels of an i2p or tor zone                                *)
(* (cryptonote_protocol/levin_notify.cpp): every channel sends one packet  *)
(* of fixed size per interval to its connection, a fragment of a queued    *)
(* message or else a dummy.  The zone's strand owns the map of connections *)
(* and posts every change of it to the strands of the channels; a strand   *)
(* runs what is posted to it in order.  At the other end the fragments are *)
(* put together as in epee's levin_protocol_handler_async.h.               *)
(***************************************************************************)
EXTENDS ConnectionMap

CONSTANTS
  Peers,         \* the connections that may be made to peers
  Messages,      \* notifications of transactions
  Fragments,     \* Fragments[m]: the packets m is cut into
  NoiseSends,    \* bound: calls of send_txs
  NoiseFaults    \* bound: lost connections and failed sends

ASSUME NoiseAssumption ==
  /\ Peers \subseteq ZoneConns
  /\ Fragments \in [Messages -> Nat \ {0}]
  /\ NoiseSends \in Nat /\ NoiseFaults \in Nat

VARIABLES
  outs,             \* outgoing connections of the server
  noise_map,        \* zone::map
  connection_count, \* zone::connection_count
  zone_posts,       \* posted to the zone's strand: a list of connections or a new map
  ch_posts,         \* posted to each channel's strand: a connection or a message
  connection, queued, active_part,   \* noise_channel: connection, queue, and the place in
                                     \* the first message of what active still holds (0: null)
  run,              \* history: the fragments of the first message sent so far, with their connection
  packets,          \* fragments each channel sent in this epoch, counted up to EpochPackets
  sends_left, faults_left

noiseVars == <<outs, noise_map, connection_count, zone_posts, ch_posts, connection, queued,
               active_part, run, packets, sends_left, faults_left>>
channelVars == <<connection, queued, active_part, run, packets>>

Channels == 1..Stems

\* CRYPTONOTE_MAX_FRAGMENTS: an epoch lasts at least as long as this many
\* packets of a channel (the static_assert in update_channel).
EpochPackets == CHOOSE n \in {Fragments[m] : m \in Messages} : \A m \in Messages : Fragments[m] <= n

UpdateTo(c) == [kind |-> "connection", value |-> c]
QueueMsg(m) == [kind |-> "message", value |-> m]
Merge(cs) == [kind |-> "merge", value |-> cs]
Replace(m) == [kind |-> "replace", value |-> m]

\* The constructor starts the first epoch, without connections.
NoiseInit ==
  /\ outs = {} /\ noise_map \in NewMaps({}) /\ connection_count = 0
  /\ zone_posts = << >> /\ ch_posts = [i \in Channels |-> << >>]
  /\ connection = [i \in Channels |-> NilConn]
  /\ queued = [i \in Channels |-> << >>] /\ active_part = [i \in Channels |-> 0]
  /\ run = [i \in Channels |-> << >>] /\ packets = [i \in Channels |-> 0]
  /\ sends_left = NoiseSends /\ faults_left = NoiseFaults

\* A connection is made and new_out_connection probes for it, unless the zone
\* believes that all its channels have one.
NewOutConnection(c) ==
  /\ c \notin outs
  /\ outs' = outs \cup {c}
  /\ zone_posts' = IF connection_count >= Stems THEN zone_posts ELSE Append(zone_posts, Merge(outs'))
  /\ UNCHANGED <<noise_map, connection_count, ch_posts, channelVars, sends_left, faults_left>>

LoseConnection(c) ==
  /\ c \in outs /\ faults_left > 0
  /\ outs' = outs \ {c} /\ faults_left' = faults_left - 1
  /\ UNCHANGED <<noise_map, connection_count, zone_posts, ch_posts, channelVars, sends_left>>

\* start_epoch, after the minutes an epoch lasts: the strands have nothing to do
\* and a channel with messages has sent packets enough for any of them.
NoiseEpoch ==
  /\ zone_posts = << >>
  /\ \A i \in Channels : ch_posts[i] = << >> /\ (connection[i] = NilConn \/ queued[i] = << >> \/ packets[i] = EpochPackets)
  /\ \E m \in NewMaps(outs) : zone_posts' = <<Replace(m)>>
  /\ packets' = [i \in Channels |-> 0]
  /\ UNCHANGED <<outs, noise_map, connection_count, ch_posts, connection, queued, active_part, run, sends_left, faults_left>>

\* Fault: a channel hears only of a connection that is new in the map.
PostChanged(m) ==
  /\ noise_map' = m
  /\ connection_count' = MapSize(m)
  /\ ch_posts' = [i \in Channels |->
       IF i \in DOMAIN m.out /\ ~(i \in DOMAIN noise_map.out /\ noise_map.out[i] = m.out[i])
       THEN Append(ch_posts[i], UpdateTo(m.out[i])) ELSE ch_posts[i]]
\* update_channels::post: the map's places, not the channels, are gone through.
PostMap(m) ==
  /\ noise_map' = m
  /\ connection_count' = MapSize(m)
  /\ ch_posts' = [i \in Channels |-> IF i \in DOMAIN m.out THEN Append(ch_posts[i], UpdateTo(m.out[i])) ELSE ch_posts[i]]

\* The zone's strand: update_channels or change_channels.
ZoneStrand ==
  /\ zone_posts # << >>
  /\ zone_posts' = Tail(zone_posts)
  /\ \/ /\ Head(zone_posts).kind = "merge"
        /\ \E u \in Updates(noise_map, Head(zone_posts).value) :
              IF u.changed THEN PostMap(u.map) ELSE UNCHANGED <<noise_map, connection_count, ch_posts>>
     \/ /\ Head(zone_posts).kind = "replace"
        /\ PostMap(Head(zone_posts).value)
  /\ UNCHANGED <<outs, channelVars, sends_left, faults_left>>

\* Fault: the rest of a message in flight goes to the new connection.
GoesOn(i) == UNCHANGED <<active_part, run>>
\* A message in flight is started again.
Restart(i) == active_part' = [active_part EXCEPT ![i] = 0] /\ run' = [run EXCEPT ![i] = << >>]

\* A channel's strand: update_channel, or queue_covert_notify, which drops the
\* message when the channel has no connection.
ChannelStrand(i) ==
  /\ ch_posts[i] # << >>
  /\ ch_posts' = [ch_posts EXCEPT ![i] = Tail(@)]
  /\ LET p == Head(ch_posts[i])
     IN  \/ /\ p.kind = "connection"
            /\ connection' = [connection EXCEPT ![i] = p.value]
            /\ queued' = IF p.value = NilConn THEN [queued EXCEPT ![i] = << >>] ELSE queued
            /\ Restart(i)
         \/ /\ p.kind = "message"
            /\ queued' = IF connection[i] # NilConn THEN [queued EXCEPT ![i] = Append(@, p.value)] ELSE queued
            /\ UNCHANGED <<connection, active_part, run>>
  /\ UNCHANGED <<outs, noise_map, connection_count, zone_posts, packets, sends_left, faults_left>>

\* send_txs in a zone with noise: the message is dispatched to every channel.
SendCovert(m) ==
  /\ sends_left > 0 /\ sends_left' = sends_left - 1
  /\ ch_posts' = [i \in Channels |-> Append(ch_posts[i], QueueMsg(m))]
  /\ UNCHANGED <<outs, noise_map, connection_count, zone_posts, channelVars, faults_left>>

PoppedAfter(i, k) == queued[i] # << >> /\ k = Fragments[Head(queued[i])]

\* send_noise, when the packet could be sent: the next fragment of the first
\* message, which leaves the queue with its last one, or a dummy.
SendNoise(i) ==
  /\ connection[i] \in outs
  /\ LET k == active_part[i] + 1
     IN  IF queued[i] = << >> THEN UNCHANGED <<queued, active_part, run, packets>>
         ELSE /\ packets' = [packets EXCEPT ![i] = IF @ = EpochPackets THEN @ ELSE @ + 1]
              /\ queued' = IF PoppedAfter(i, k) THEN [queued EXCEPT ![i] = Tail(@)] ELSE queued
              /\ active_part' = [active_part EXCEPT ![i] = IF k = Fragments[Head(queued[i])] THEN 0 ELSE k]
              /\ run' = [run EXCEPT ![i] = Append(IF k = 1 THEN << >> ELSE @, <<connection[i], k>>)]
  /\ UNCHANGED <<outs, noise_map, connection_count, zone_posts, ch_posts, connection, sends_left, faults_left>>

\* send_noise, when it could not: the connection is gone, or the send failed.
SendNoiseFails(i) ==
  /\ connection[i] # NilConn
  /\ connection[i] \in outs => faults_left > 0
  /\ faults_left' = IF connection[i] \in outs THEN faults_left - 1 ELSE faults_left
  /\ connection' = [connection EXCEPT ![i] = NilConn]
  /\ Restart(i)
  /\ zone_posts' = Append(zone_posts, Merge(outs))
  /\ UNCHANGED <<outs, noise_map, connection_count, ch_posts, queued, packets, sends_left>>

NoiseStep(i) == ChannelStrand(i) \/ SendNoise(i) \/ SendNoiseFails(i)

NoiseNext ==
  \/ \E c \in Peers : NewOutConnection(c) \/ LoseConnection(c)
  \/ NoiseEpoch \/ ZoneStrand
  \/ \E i \in Channels : NoiseStep(i)
  \/ \E m \in Messages : SendCovert(m)

\* The strands run what is posted, and the timers of the channels and of the
\* epoch are always set again.
NoiseFairness ==
  /\ WF_noiseVars(NoiseEpoch) /\ WF_noiseVars(ZoneStrand)
  /\ \A i \in Channels : WF_noiseVars(ChannelStrand(i)) /\ WF_noiseVars(SendNoise(i))
                         /\ WF_noiseVars(SendNoiseFails(i) /\ connection[i] \notin outs)
NoiseSpec == NoiseInit /\ [][NoiseNext]_noiseVars /\ NoiseFairness
-----------------------------------------------------------------------------
\* The variables stay in their types: among others, what is left of a message
\* in flight is less than the message.
NoiseTypeOK ==
  /\ outs \subseteq Peers /\ connection_count \in 0..Stems
  /\ \A i \in DOMAIN noise_map.out : noise_map.out[i] \in Sources
  /\ connection \in [Channels -> Sources]
  /\ queued \in [Channels -> Seq(Messages)]
  /\ \A i \in Channels : active_part[i] > 0 => queued[i] # << >> /\ active_part[i] < Fragments[Head(queued[i])]

\* A message leaves the queue of a channel only when all its fragments were
\* sent, in order, over one connection: a change of connection or a failed send
\* half way starts it again.  (A channel that loses its connection for want of
\* another drops its queue.)
SentWhole == [][\A i \in Channels :
  queued[i] # << >> /\ queued'[i] = Tail(queued[i]) /\ connection'[i] # NilConn
    => run'[i] = [k \in 1..Fragments[Head(queued[i])] |-> <<connection[i], k>>]]_noiseVars

\* When connections are there for all channels, no channel keeps a message for
\* ever: not after a failed send that left the channel without connection, nor
\* after an update made from an outdated list.
QueuesDrain ==
  <>[](Cardinality(outs) >= Stems) => \A i \in Channels : (queued[i] # << >>) ~> (queued[i] = << >>)
=============================================================================
