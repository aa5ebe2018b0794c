CONSTANTS
  p = p
  q = q
  b1 = b1
  b2 = b2
  b3 = b3
  c2 = c2
  c3 = c3
  Conns = {p, q}
  Hashes = {b1, b2, b3, c2, c3}
  MaxHeight = 3
  PeerChain <- MCPeerChain
  PeerStored <- MCPeerStored
  LocalStored = {}
  StripeSize = 2
  MaxSpan = 1
  Tip <- MCTip
  Bad = {c2}
  Steady = {p}
  Slow = {p}
  MaxIds <- MCMaxIds
  MaxFilled = 2
  MaxCallbacks = 1
  Txs = {"a", "b"}
  KeyImages = {"i", "j"}
  KI <- MCKI
  Needs <- MCNeeds
  Weight <- MCWeight
  FeeRate <- MCFeeRate
  NicValid <- MCNicValid
  ForkHeight = 1
  MaxWeight = 2
  MineStem = TRUE
  NetRelays = {"none", "local", "forward", "stem", "fluff"}
  RelayedAs = {"local", "forward", "stem", "fluff"}
  MaxChain = 1
  NoTx = NoTx
  NoBlock = NoBlock
  NoTemplate = NoTemplate
  Forks <- MCVotedForks
  WindowSize = 3
  Votes = {0, 2, 4}
  Pops = FALSE
  MaxForkHeight = 8
SPECIFICATION NodeSpec
INVARIANTS
  NodeTypeOK
  ChainOrdered
  NotForgotten
  TemplateMinable
  VotesDecide
PROPERTIES
  Downloads
  RelayNeverDowngraded
