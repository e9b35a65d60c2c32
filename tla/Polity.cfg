SPECIFICATION FairSpec
CONSTANTS
  Person = {"ann", "bob", "cyd"}
  Government = {"crown", "guild"}
  Bill = {"tax", "charter"}
  Text <- Bills
  Worlds <- Beginnings
  Mortal = {"cyd"}
  Dealings <- Deals
  Graphs <- Chains
  Rolls <- Chambers
  Orders <- Edicts
  HookWrites <- Reflexes
  Founding <- Crown
  Watched = {"mutation", "enact"}
  MaxBallots = 2
  MaxStirs = 1
INVARIANTS
  TypeOK
  LiquidIsSound
PROPERTIES
  AllOrNothing
  BarsHold
  BillsAreDecided
CHECK_DEADLOCK FALSE
