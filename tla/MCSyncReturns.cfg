CONSTANTS
  p = p
  q = q
  b1 = b1
  b2 = b2
  b3 = b3
  c2 = c2
  c3 = c3
  Conns = {p, q}
  Hashes = {b1, b2, b3, c2, c3}
  MaxHeight = 3
  PeerChain <- MCPeerChain
  PeerStored <- MCPeerStored
  LocalStored = {}
  StripeSize = 2
  MaxSpan = 1
  Tip <- MCTip
  Bad = {c2}
  Steady = {p}
  Slow = {p}
  MaxIds <- MCMaxIds
  MaxFilled = 2
  MaxCallbacks = 1
SPECIFICATION SyncSpec
INVARIANTS
  GoesBackToDownload
