SPECIFICATION Spec
CONSTANTS
  Entity = {"ann"}
  Recipe = {"STUDY"}
  Slot = {1, 2}
  Good = {"FLINT", "LABOR"}
  Labor = "LABOR"
  Dur <- StudyDur
  Lump <- StudyLump
  PerTick <- StudyPerTick
  Need <- Nothing
  Yield <- Nothing
  Mint = {}
  MaxHolding = 2
  MaxCredit = 3
INVARIANT LumpPerCompletion
