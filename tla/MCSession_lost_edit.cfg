SPECIFICATION Spec
CONSTANTS
  p1 = p1
  p2 = p2
  p3 = p3
  s1 = s1
  s2 = s2
  f1 = f1
  f2 = f2
  c1 = c1
  c2 = c2
  Callers <- ThreeCallers
  Subs <- OneSub
  Paths = {f1}
  Contents = {c1}
  NoContent = NoContent
  NoLedger = NoLedger
  Free = Free
  MaxCalls = 3
  MaxEdits = 2
  MaxOps = 5
SYMMETRY Symmetry
CHECK_DEADLOCK FALSE
INVARIANTS
  OverlayEditInvalidates
