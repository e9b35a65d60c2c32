------------------------------- MODULE MCLand -------------------------------
(* A camp with a store for one, a woodpile, a private smithy and a public  *)
(* fire that seats two and banks one, and a wood with a drop.              *)
EXTENDS Land

CONSTANTS ann, bob, crown

CitizensVal == {ann, bob, crown}
HeirVal == [e \in CitizensVal |-> IF e = ann THEN bob ELSE IF e = bob THEN ann ELSE Nobody]
SiteVal == [p \in {"camp", "wood"} |-> IF p = "camp" THEN "hearth" ELSE "forest"]
FacilityVal == {"store", "pile", "smithy", "fire", "drop"}
KindVal == [store |-> "STORAGE", pile |-> "WOODPILE", smithy |-> "SMITHY", fire |-> "FIRE", drop |-> "DROP"]
GroundVal == [f \in FacilityVal |-> IF f = "drop" THEN "wood" ELSE "camp"]
SeatsVal == [f \in FacilityVal |-> IF f = "fire" THEN 2 ELSE 1]
FuelCapVal == [f \in FacilityVal |-> IF f = "fire" THEN 1 ELSE 0]
BurnVal == FuelCapVal
CapVal == [WOOD |-> 1, WOUND |-> 2]
RotVal == [WOOD |-> 0, WOUND |-> 20]
RecipeVal == {"forge", "stoke", "cook", "dig"}
WorksVal == [forge |-> "SMITHY", stoke |-> "FIRE", cook |-> "FIRE", dig |-> "none"]
FuelVal == [forge |-> 0, stoke |-> 1, cook |-> 0, dig |-> 0]
CostVal == FuelVal
DigVal == [forge |-> 0, stoke |-> 0, cook |-> 0, dig |-> 1]
VeinVal == [p \in {"camp", "wood"} |-> IF p = "wood" THEN 1 ELSE 0]
HomeVal == [e \in CitizensVal |-> IF e = bob THEN "forest" ELSE "hearth"]
DeedVal == [p \in {"camp", "wood"} |-> IF p = "camp" THEN ann ELSE bob]

(* A world the catalogue installs.                                         *)
C == INSTANCE Catalogue
ASSUME Installs ==
  /\ \A p \in Parcel :
       /\ C!MayCreateParcel(Place, [place |-> {Site[p]}])
       /\ C!MayAddDeposit([quantity |-> Vein[p], regen |-> Regen[p],
                           cap |-> {Vein[p]}])
  /\ \A f \in Facility :
       C!MayAddFacility([access |-> IF f \in Public THEN "PLACE" ELSE "OWNER",
                         capacity |-> Seats[f], fuel |-> 0,
                         fuelCap |-> {FuelCap[f]}, burn |-> Burn[f]])
  /\ \A how \in {"burn", "heir", "treasury"} :
       C!MaySetEstate([policy |-> how, treasury |-> {Treasury}], Entity)
=============================================================================
