SPECIFICATION Spec
CONSTANTS
  g = g  a1 = a1  a2 = a2  a3 = a3  a4 = a4  b2 = b2  b3 = b3  b4 = b4  c3 = c3  d1 = d1
  t1 = t1  t2 = t2
  Genesis = g
  Line <- MCLine
  Work <- MCWork
  HeightLimit = 16
  Blocks = {g, a1, a2, a3, a4, b2, b3, b4}
  Difficulty <- MCDifficulty
  Txs = {t1, t2}
  TxsOf <- MCTxsOf
  Flaw <- NoFlaw
  Points <- TwoPoints
  Events = {"tx"}
INVARIANTS
  BatchEnds
