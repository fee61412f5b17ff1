SPECIFICATION Spec
CONSTANTS
  f = f
  p = p
  c = c
  x = x
  NoBlock = NoBlock
  Tx = {f, p, c, x}
  Block = {}
  Vin <- MCVin
  Parent <- NoBlocks
  Height <- NoBlocks
  BlockTxs <- NoBlocks
  Fee <- MCFee
  ModifiedWeight <- MCWeight
  ConflictsWith <- MCConflicts
  Rejectable = {p}
  Dropped = {f, p}
  WeightLimits = {16, 24}
  MaxBlocks = 1
  MaxReorgs = 1
INVARIANTS
  ChildsExact
  IndexAgrees
  LinksExact
  TotalsExact
  CallsSucceed
  TemplateOrdered
  TemplateConflictFree
CHECK_DEADLOCK FALSE
