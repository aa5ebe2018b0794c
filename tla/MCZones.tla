------------------------------ MODULE MCZones ------------------------------
(***************************************************************************)
(* The zones of the network: one that stems and fluffs, public or not, one *)
(* with noise channels, and the lists of peers that a zone has.  They      *)
(* share no state, so a behaviour is one of `part' alone.                  *)
(***************************************************************************)
EXTENDS FluffZone, NoiseZone, PeerList

CONSTANTS o1, o2, i1, m1

MCZoneBounds == {[public |-> TRUE, sends |-> 3, moves |-> 1], [public |-> FALSE, sends |-> 4, moves |-> 2]}
MCFragments == m1 :> 2

\* Addresses 2 and 3 are two ports of one host.
MCHostOf == [a \in Addrs |-> a \div 2]

VARIABLE part
zonesVars == <<part, zoneVars, noiseVars, peersVars>>

ZonesInit ==
  /\ ZoneInit /\ NoiseInit /\ PeersInit
  /\ part = "fluff" \/ (part \in {"noise", "peers"} /\ zone_public)

ZonesNext ==
  /\ UNCHANGED part
  /\ \/ part = "fluff" /\ ZoneNext /\ UNCHANGED <<noiseVars, peersVars>>
     \/ part = "noise" /\ NoiseNext /\ UNCHANGED <<zoneVars, peersVars>>
     \/ part = "peers" /\ PeersNext /\ UNCHANGED <<zoneVars, noiseVars>>

\* ZoneFairness and NoiseFairness.  In a behaviour of another part a zone has
\* nothing to do, except that the one with noise could begin an epoch.
ZonesFairness ==
  /\ ZoneFairness
  /\ WF_noiseVars(part = "noise" /\ NoiseEpoch) /\ WF_noiseVars(ZoneStrand)
  /\ \A i \in Channels : WF_noiseVars(ChannelStrand(i)) /\ WF_noiseVars(SendNoise(i))
                         /\ WF_noiseVars(SendNoiseFails(i) /\ connection[i] \notin outs)
ZonesSpec == ZonesInit /\ [][ZonesNext]_zonesVars /\ ZonesFairness

\* Every variable has its type, and what the zone counts by hand (the sources of
\* a stem, the callbacks of the timer) is exact.
ZonesConsistent == ZoneTypeOK /\ NoiseTypeOK /\ PeersTypeOK /\ StemMapSound /\ CallbacksExact
=============================================================================
