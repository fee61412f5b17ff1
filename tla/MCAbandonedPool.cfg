CONSTANTS
  f = f
  p = p
  q = q
  c = c
  Tx = {f, p, q, c}
  Block = {}
  NoBlock = NoBlock
  Vin <- DiamondVin
  Parent <- NoParents
  Height <- NoHeights
  BlockTxs <- NoTxs
SPECIFICATION Spec
INVARIANTS NobodyStranded
PROPERTIES Implements
