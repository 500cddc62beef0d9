CONSTANTS
  k1 = k1
  k2 = k2
  b1 = b1
  b2 = b2
  p1 = p1
  Packages = {k1, k2}
  Batches = {b1, b2}
  Pairs = {p1}
  PairOf <- OnePair
  Plans <- NestedPlans
  InitialUsable <- OneOfEach
  Scale = 2
SPECIFICATION FairSpec
INVARIANTS
  TypeOK
  LockedRowsCurrent
PROPERTIES
  ImplementsLedger
  TransactionsEnd
