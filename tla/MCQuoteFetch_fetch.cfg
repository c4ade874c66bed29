SPECIFICATION FairFetchSpec
CONSTANTS
  u1 = u1
  u2 = u2
  u3 = u3
  p1 = p1
  p2 = p2
  a = a
  b = b
  x = x
  y = y
  Units <- ThreeUnits
  Pairs = {p1, p2}
  PairOf <- SharedPair
  Sources = {a, b, x, y}
  Chains <- MixedChains
  Unknown = {x}
  Implements <- Methods
  Mode = "at"
  NowInside = FALSE
  Concurrency = 1
CHECK_DEADLOCK FALSE
INVARIANTS
  NothingLeftUntried
PROPERTIES
  ImplementsChain
  FetchReturns
