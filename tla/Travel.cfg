SPECIFICATION FairTravel
CONSTANTS
  Walker = {"ann"}
  Spot = {"camp", "ford", "hill"}
  Mode = {"walk", "raft"}
  Maps <- MapsVal
  Day = 4
  Night = {2, 3}
  Relight = 0
  Cargo = {"food", "ore"}
  Food = "food"
  Ration <- RationVal
  LegCap <- LegCapVal
  Pack <- PackVal
  MaxRoutes = 2
  MaxGifts = 1
PROPERTIES
  RoadsAreWalked
  JourneysEnd
