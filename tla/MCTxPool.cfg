CONSTANTS
  Txs = {"a", "b", "c"}
  KeyImages = {"i", "j", "k"}
  KI <- MCKI
  Needs <- MCNeeds
  Weight <- MCWeight
  FeeRate <- MCFeeRate
  NicValid <- MCNicValid
  ForkHeight = 1
  MaxWeight = 2
  MineStem = FALSE
  NetRelays = {"stem"}
  RelayedAs = {"fluff"}
  MaxChain = 2
  NoTx = NoTx
  NoBlock = NoBlock
  NoTemplate = NoTemplate
SPECIFICATION Spec
INVARIANTS
  PoolIndexesExact
  NotOfferedTwice
  NoInternalError
  CachesSound
  WeightSound
PROPERTIES
  ValidateEstablishesRules
