SPECIFICATION FairSpec
CONSTANTS
  User = {"ann", "bob"}
  Worker = {"timer", "one"}
  Deployments <- EveryWay
  K = 2
  MaxTick = 4
INVARIANTS
  TypeOK
  Calendar
PROPERTIES
  ConsentIsFresh
  BackstopCloses
