SPECIFICATION Spec
CONSTANTS
  ann = ann  bob = bob  crown = crown  Nobody = Nobody
  Entity <- CitizensVal
  Authority = {crown}
  Heir <- HeirVal
  Treasury = crown
  Parcel = {"camp", "wood"}
  Place = {"hearth", "forest"}
  Site <- SiteVal
  Facility <- FacilityVal
  Kind <- KindVal
  Ground <- GroundVal
  Public = {"fire"}
  Seats <- SeatsVal
  FuelCap <- FuelCapVal
  Burn <- BurnVal
  Good = {"WOOD", "WOUND"}
  Wood = "WOOD"
  Body = {"WOUND"}
  Cap <- CapVal
  Rot <- RotVal
  Recipe <- RecipeVal
  Works <- WorksVal
  Fuel <- FuelVal
  Lit = {"cook"}
  Cost <- CostVal
  Dig <- DigVal
  Vein <- VeinVal
  Regen <- VeinVal
  Shared = "*"
  Client = {bob}
  Home <- HomeVal
  Deed <- DeedVal
  MaxIssued = 4  MaxPending = 1  MaxWood = 3  MaxTicks = 1  MaxActs = 2  MaxAmount = 1
CHECK_DEADLOCK FALSE
INVARIANTS
  TypeOK
PROPERTIES
  LandInUse
  Conserved
  DeathSettles
