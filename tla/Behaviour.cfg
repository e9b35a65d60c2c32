SPECIFICATION FairSpec
CONSTANTS
  MaxScripts = 5
  MaxShared = 3
  Threshold = 3
  Law = {"tax"}
  Own = "own"
  Editor = {"ann", "amy"}
  Admin = {"switch", "delete"}
  Sharing = {TRUE, FALSE}
  Budget = TRUE
  SharedQuality = {"fragile"}
  Quality = {"fragile", "broken"}
INVARIANTS
  TypeOK
  OneUnlessOverlapped
  NextIsFresh
PROPERTIES
  NeverSilenced
  CrasherStopped
CHECK_DEADLOCK FALSE
