CONSTANTS
  Case <- MCCase
  Ills = 2
SPECIFICATION LifeSpec
INVARIANTS LifeTypeOK SurvivalIsFree CraftsAreInHands LadderClimbs
