SPECIFICATION Spec
CONSTANTS
  User = {ann, bob}
  ann = ann
  bob = bob
  Conditions <- ConditionsVal
  K = 2
  Wild = 1
  ActiveCap = 3
  OwnerCap = 2
  Endowment = 1
  MaxTick = 4
  MaxEntities = 2
  MaxEpochs = 2
  MaxMoney = 1
SYMMETRY Players
CHECK_DEADLOCK FALSE
INVARIANT
  TypeOK
PROPERTIES
  StampsAreTheWin
  EliminatedInTime
  NoRicherLoser
