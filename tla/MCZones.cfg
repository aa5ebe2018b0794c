CONSTANTS
  o1 = o1
  o2 = o2
  i1 = i1
  m1 = m1
  NilConn = NilConn
  ZoneConns = {o1, o2, i1}
  Stems = 2
  Income = {i1}
  Behind = {o2}
  RelayTxs = {"a"}
  RelaySources = {NilConn, i1}
  MaxDelay = 1
  ZoneBounds <- MCZoneBounds
  Peers = {o1, o2}
  Messages = {m1}
  Fragments <- MCFragments
  NoiseSends = 1
  NoiseFaults = 1
  Addrs = {1, 2, 3, 4}
  HostOf <- MCHostOf
  WhiteLimit = 2
  GrayLimit = 1
  MaxOut = 1
  AnchorCount = 2
  LastTime = 1
SPECIFICATION ZonesSpec
INVARIANTS
  ZonesConsistent
  PeerListsSound
PROPERTIES
  JustSeenStays
  OneStemPerSource
  FluffFlushed
  SentWhole
  QueuesDrain
