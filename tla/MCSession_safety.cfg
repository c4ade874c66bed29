SPECIFICATION FairSpec
CONSTANTS
  p1 = p1
  p2 = p2
  p3 = p3
  s1 = s1
  s2 = s2
  f1 = f1
  f2 = f2
  c1 = c1
  c2 = c2
  Callers <- TwoCallers
  Subs <- OneSub
  Paths = {f1}
  Contents = {c1}
  NoContent = NoContent
  NoLedger = NoLedger
  Free = Free
  MaxCalls = 3
  MaxEdits = 2
  MaxOps = 4
CHECK_DEADLOCK FALSE
INVARIANTS
  StaleOnlyIfOvertaken
  SendIsSafe
  BroadcastReachesSubscribers
  NoSubscriberLeaks
  JoinedLedgerIsNotOlder
  NoLostWakeup
PROPERTIES
  ImplementsStore
  EveryCallReturns
