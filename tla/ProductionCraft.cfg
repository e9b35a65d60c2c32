SPECIFICATION FairSpec
CONSTANTS
  Entity = {"ann"}
  Recipe = {"FORGE", "COIN_STRIKE"}
  Slot = {1}
  Good = {"ORE", "HAMMER", "LABOR"}
  Labor = "LABOR"
  Dur <- CraftDur
  Lump <- CraftLump
  PerTick <- CraftPerTick
  Need <- CraftNeed
  Yield <- CraftYield
  Mint = {"COIN_STRIKE"}
  MaxHolding = 2
  MaxCredit = 2
INVARIANTS
  TypeOK
  JobsArePaid
PROPERTIES
  CommitReveal
  OnlyTakingBreaksBacking
  EveryRunEnds
