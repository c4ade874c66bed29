SPECIFICATION FairSpec
CONSTANTS
  f1 = f1
  f2 = f2
  Files <- TwoFiles
  MaxEdits = 3
CHECK_DEADLOCK FALSE
INVARIANTS
  LastEditIsDelivered
  OverlayOutlivesOnlyByRace
PROPERTIES
  EditReachesSession
