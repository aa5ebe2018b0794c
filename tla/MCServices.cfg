CONSTANTS
  w1 = w1
  ca = ca
  cb = cb
  ja = ja
  a1 = a1
  d = d
  la = la
  jb = jb
  jb1 = jb1
  jb2 = jb2
  Workers = {w1}
  Callers = {ca, cb}
  Jobs = {ja, a1, d, la, jb, jb1, jb2}
  Subs <- MCSubs
  CallOf <- MCCallOf
  Leaf = {la}
  Detached = {d}
  MayThrow = {la, jb2}
  MiningOptions <- MCOptions
  MaxStarts = 2
  MaxRestarts = 2
  MaxTemplates = 2
  MaxAutodetect = 2
  MaxMinerThreads = 2
  p = p
  q = q
  b1 = b1
  b2 = b2
  b3 = b3
  c2 = c2
  c3 = c3
  Conns = {p, q}
  Hashes = {b1, b2, b3, c2, c3}
  MaxHeight = 3
  PeerChain <- MCPeerChain
  PeerStored <- MCPeerStored
  LocalStored <- MCLocalStored
  StripeSize = 2
  MaxSpan = 2
  Forks <- MCForks
  WindowSize = 3
  Votes = {0, 2, 4}
  Pops = TRUE
  MaxForkHeight = 7
SPECIFICATION ServicesSpec
INVARIANTS
  ServicesConsistent
  SubmitterAlive
  NoLostWakeup
  ErrorsReported
  QueueIndexesExact
  NextNeededIsFirstGap
  VersionsIdeal
PROPERTIES
  CallsReturn
  StopQuiet
  TemplateMovesOn
  WaitsForWorkersEnd
  DeliveredSpansKept
