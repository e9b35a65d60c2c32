------------------------------ MODULE StoneAge ------------------------------
(***************************************************************************)
(* The stone-age world: what one body can ever make of it.                 *)
(*                                                                         *)
(* experiments/world/stone_age.py is the content the engine runs: goods,   *)
(* a hundred recipes, ten studied ranks, nine places and two order books.  *)
(* Each row is checked by a test on its own; what no test reaches is the   *)
(* web they form, where a material moved from one recipe to another closes *)
(* a ladder three studies up.  This module lays that web out and lets a    *)
(* house, a beast or the keeper of the post live in it.                    *)
(*                                                                         *)
(* Quantities, hours and odds are left out: a body has a good once it can  *)
(* come by it at all, a step is a stretch of days in which everything      *)
(* within reach gets done, and a recipe's branches count as one output.    *)
(* `bar' says what a life is denied: a rank's study, all study, trading,   *)
(* the other houses, fighting, or a place.                                 *)
(***************************************************************************)
EXTENDS Naturals, FiniteSets, TLC

CONSTANTS Case,  \* the lives considered: who, denied what, when, in what state
          Ills   \* bound: conditions a body carries at once

VARIABLES
  who,     \* "house", "keeper", "wolf" or "boar"
  bar,     \* what this life is denied
  season,  \* "OPEN" or "WINTER"
  held,    \* goods the body can come by
  known,   \* ranks unlocked
  stands,  \* facilities it may use
  lit,     \* does a fire burn that it may use?
  ails     \* conditions it carries

lifeVars == <<who, bar, season, held, known, stands, lit, ails>>

-----------------------------------------------------------------------------
(* The map.                                                                *)

Kind == [HEARTH |-> "HEARTH", THICKET |-> "THICKET", RIVER |-> "RIVER",
         FLINT |-> "FLINT", FOREST |-> "FOREST", POST |-> "POST",
         RIDGE_PASS |-> "RIDGE", SALT_LICK |-> "SALT", VALE |-> "PASTURE"]
Place == DOMAIN Kind

Roads ==
  { {"HEARTH", "THICKET"}, {"HEARTH", "RIVER"}, {"THICKET", "RIVER"},
    {"HEARTH", "FLINT"}, {"HEARTH", "FOREST"}, {"THICKET", "FOREST"},
    {"FOREST", "POST"}, {"RIVER", "POST"}, {"HEARTH", "POST"},
    {"FLINT", "RIDGE_PASS"}, {"RIDGE_PASS", "SALT_LICK"},
    {"RIDGE_PASS", "VALE"}, {"VALE", "SALT_LICK"} }

Home == [house |-> "HEARTH", keeper |-> "POST",
         wolf |-> "FOREST", boar |-> "THICKET"]

(* Where a body gets to on foot, a barred place being one nobody crosses.  *)
(* No way through nine places has more than eight roads.                   *)
Onward(S) == {p \in Place \ bar : p \in S \/ \E q \in S : {p, q} \in Roads}
Reach ==
  LET TwoOn(S) == Onward(Onward(S))
      FourOn(S) == TwoOn(TwoOn(S))
  IN FourOn(FourOn({Home[who]}))

Grounds == {Kind[p] : p \in Reach}

-----------------------------------------------------------------------------
(* Goods, by what becomes of them.                                         *)

Fresh == {"MEAT", "BERRIES", "APPLES", "COOKED_MEAT", "EGGS", "HONEY"}
Keeping == {"JERKY", "WOOD", "YARN", "FLINT", "HERB", "CLAY", "SALT"}
Capital == {"SPEAR", "AXE", "BAG", "CHICKEN", "BEEHIVE", "POULTICE", "TONIC",
            "FEATHER", "BONE", "ARROW", "KNIFE", "SHIELD"}
Worked == {"LEATHER", "RESIN", "CHARCOAL", "ROPE", "KINDLING", "TRAP", "BOW",
           "CLOTHES", "FINE_CLOTHES", "BED"}
Kit == {"TORCH", "LIT_TORCH", "WATER", "SKINWATER", "WATERSKIN", "WARMTH",
        "SATIETY", "SHOP_KEY", "SHOP_OPEN"}
Trophies == {"REST", "COMFORT", "HITS", "PELT", "IBEX_PELT"}

Good == Fresh \cup Keeping \cup Capital \cup Worked \cup Kit \cup Trophies
          \cup {"LABOR", "COIN"}

(* What rot or fading takes if nothing renews it.                          *)
Rots == Fresh \cup {"LIT_TORCH", "SKINWATER", "WARMTH", "SATIETY",
                    "SHOP_OPEN", "COMFORT", "PELT", "IBEX_PELT"}

Condition == {"HUNGER", "EXPOSURE", "DISEASE", "THIRST", "FATIGUE",
              "SQUALOR", "WOUND", "INFECTION", "FROSTBITE"}

(* The conditions that shorten the hourly ration of labour.                *)
Throttles == {"SQUALOR", "WOUND", "INFECTION", "FROSTBITE"}

(* What a condition left alone breeds.                                     *)
Breeds == [WOUND |-> "INFECTION", EXPOSURE |-> "FROSTBITE"]

-----------------------------------------------------------------------------
(* Ranks.                                                                  *)

Prerequisite ==
  [KNAPPING |-> {}, APIARY |-> {"KNAPPING"}, FIRE_HARDENING |-> {"KNAPPING"},
   TANNING |-> {}, POTTERY |-> {"FIRE_HARDENING"}, ALCHEMY |-> {"POTTERY"},
   FLETCHING |-> {"FIRE_HARDENING"}, BONEWORK |-> {"KNAPPING"},
   LEATHERWORK |-> {"TANNING"}, SALT_CURING |-> {}]
Rank == DOMAIN Prerequisite
Trait == {"CARNIVORE"}

(* A recipe: what it draws at the start, what a completed run or one of    *)
(* its branches credits, and the gates of start_process.                   *)
Plain(in, out) ==
  [in |-> in, out |-> out, tools |-> {}, ranks |-> {}, ground |-> "ANY",
   bench |-> "NONE", lit |-> FALSE, open |-> FALSE, hourly |-> FALSE,
   eases |-> {}, risks |-> {}, builds |-> "NONE", stokes |-> FALSE,
   ember |-> FALSE, unlocks |-> {}]

At(r, kind) == [r EXCEPT !.ground = kind]
With(r, tools) == [r EXCEPT !.tools = tools]
ByAnyone(r, rank) == r    \* mutant: the requirement is not written down
By(r, rank) == [r EXCEPT !.ranks = {rank}]
OpenSeasons(r) == [r EXCEPT !.open = TRUE]
Bench(r, facility) == [r EXCEPT !.bench = facility]
Fire(r) == [r EXCEPT !.bench = "FIRE", !.lit = TRUE]
Raises(r, facility) == [r EXCEPT !.builds = facility]
Study(in, kind, rank) ==
  [Plain(in, {}) EXCEPT !.ground = kind, !.hourly = TRUE, !.unlocks = {rank}]

Gathering ==
  [GATHER |-> OpenSeasons(At(Plain({"LABOR"},
     {"BERRIES", "APPLES", "WOOD", "YARN", "FLINT", "HERB"}), "THICKET")),
   GATHER_BAG |-> With(OpenSeasons(At(Plain({"LABOR"},
     {"BERRIES", "APPLES", "WOOD", "YARN", "FLINT", "COIN", "HERB", "RESIN"}),
     "THICKET")), {"BAG"}),
   CHOP_WOOD |-> With(At(Plain({"LABOR"}, {"WOOD"}), "THICKET"), {"AXE"}),
   DIG_FLINT |-> At(Plain({"LABOR"}, {"FLINT"}), "FLINT"),
   DIG_CLAY |-> At(Plain({"LABOR"}, {"CLAY"}), "RIVER")]

Hunting ==
  [HUNT |-> At(Plain({"LABOR"}, {"MEAT"}), "FOREST"),
   HUNT_SPEAR |-> With(At(Plain({"LABOR"}, {"MEAT"}), "FOREST"), {"SPEAR"}),
   HUNT_TRAPS |-> At(Plain({"LABOR", "TRAP"}, {"MEAT"}), "FOREST"),
   HUNT_BOW |-> With(At(Plain({"LABOR", "ARROW"}, {"MEAT"}), "FOREST"), {"BOW"}),
   FISH |-> OpenSeasons(At(Plain({"LABOR"}, {"MEAT"}), "RIVER"))]

Hearthside ==
  [DRINK |-> At(Plain({}, {"WATER"}), "RIVER"),
   FILL_SKIN |-> With(At(Plain({}, {"SKINWATER"}), "RIVER"), {"WATERSKIN"}),
   MAKE_FIRE |-> Raises(At(Plain({"LABOR", "WOOD"}, {}), "HEARTH"), "FIRE"),
   MAKE_FIRE_KINDLING |->
     Raises(At(Plain({"LABOR", "WOOD", "KINDLING"}, {}), "HEARTH"), "FIRE"),
   STOKE_FIRE |-> [Bench(At(Plain({"WOOD"}, {}), "HEARTH"), "FIRE")
                     EXCEPT !.stokes = TRUE],
   WARM_BY_FIRE |->
     Fire(At(Plain({}, {"WARMTH", "REST", "COMFORT"}), "HEARTH"))]

Kitchen ==
  [MAKE_TORCH |-> Plain({"LABOR", "WOOD", "YARN"}, {"TORCH"}),
   LIGHT_TORCH |-> Fire(At(Plain({"TORCH"}, {"LIT_TORCH"}), "HEARTH")),
   CHAIN_TORCH |-> [Plain({"TORCH"}, {"LIT_TORCH"}) EXCEPT !.ember = TRUE],
   COOK_MEAT |-> Fire(Plain({"LABOR", "MEAT"}, {"COOKED_MEAT"})),
   COOK_MEAT_KNIFE |->
     With(Fire(Plain({"LABOR", "MEAT"}, {"COOKED_MEAT"})), {"KNIFE"}),
   TANN_HIDE |-> By(Plain({"PELT", "WATER"}, {"LEATHER"}), "LEATHERWORK"),
   TANN_HIDE_KNIFE |->
     With(By(Plain({"PELT", "WATER"}, {"LEATHER"}), "LEATHERWORK"), {"KNIFE"}),
   SMOKE_MEAT |-> Fire(Plain({"LABOR", "MEAT", "WOOD"}, {"JERKY"}))]

KeepShop(meal) == With(Plain({"WOOD", meal}, {"SHOP_OPEN"}), {"SHOP_KEY"})

BackRoom ==
  [SALT_MEAT |->
     By(Bench(Plain({"MEAT"}, {"JERKY"}), "SALT_SHED"), "SALT_CURING"),
   BUILD_SALT_SHED |->
     By(Raises(At(Plain({"LABOR", "WOOD", "SALT"}, {}), "HEARTH"), "SALT_SHED"),
        "SALT_CURING"),
   KEEP_SHOP_JERKY |-> KeepShop("JERKY"), KEEP_SHOP_EGGS |-> KeepShop("EGGS"),
   KEEP_SHOP_APPLES |-> KeepShop("APPLES"),
   KEEP_SHOP_BERRIES |-> KeepShop("BERRIES")]

Meal(in) == Plain(in, {"SATIETY", "WATER"})

Meals ==
  [EAT_BERRIES |-> Meal({"BERRIES"}), EAT_APPLES |-> Meal({"APPLES"}),
   EAT_COOKED |-> Meal({"COOKED_MEAT"}), EAT_EGGS |-> Meal({"EGGS"}),
   EAT_JERKY |-> Meal({"JERKY"}),
   FEAST |-> [Fire(At(Plain({"JERKY", "WOOD"}, {"COMFORT"}), "HEARTH"))
                EXCEPT !.hourly = TRUE],
   FORAGE_POT |-> By(Meal({"BERRIES", "APPLES", "MEAT"}), "POTTERY"),
   FORAGE_POT_EGGS |-> By(Meal({"BERRIES", "APPLES", "EGGS"}), "POTTERY"),
   EAT_RAW |-> [Meal({"MEAT"}) EXCEPT !.risks = {"DISEASE"}]]

Eases(r, condition) == [r EXCEPT !.eases = {condition}]

Remedies ==
  [TAKE_TONIC |-> Eases(Plain({"TONIC"}, {}), "DISEASE"),
   BIND_WOUND |-> Eases(Plain({"POULTICE"}, {}), "WOUND"),
   CLEANSE |-> Eases(Plain({"HONEY"}, {}), "INFECTION"),
   EAT_HONEY |-> Meal({"HONEY"}),
   MAKE_POULTICE |-> By(Plain({"HERB", "WATER"}, {"POULTICE"}), "ALCHEMY"),
   MAKE_TONIC |-> By(Plain({"HERB", "WATER"}, {"TONIC"}), "ALCHEMY"),
   EAT_CARRION |-> By(Meal({"MEAT"}), "CARNIVORE"),
   PACE |-> Plain({}, {"WARMTH"})]

Shelter ==
  [MAKE_SHELTER |-> Raises(Plain({"LABOR", "WOOD", "YARN"}, {}), "SHELTER"),
   SLEEP_SHELTERED |-> Bench(Plain({}, {"REST", "WARMTH"}), "SHELTER"),
   SLEEP_BY_FIRE |-> Fire(Plain({}, {"REST", "WARMTH", "COMFORT"})),
   SLEEP_IN_BED |->
     With(Bench(Plain({}, {"REST", "WARMTH", "COMFORT"}), "SHELTER"), {"BED"}),
   SLEEP_DEN |-> By(Plain({}, {"REST", "WARMTH", "COMFORT"}), "CARNIVORE"),
   MAKE_CLOTHES |->
     By(Plain({"LABOR", "LEATHER", "YARN"}, {"CLOTHES"}), "TANNING"),
   HUDDLE |-> With(Plain({}, {"WARMTH"}), {"CLOTHES"})]

Yard ==
  [MAKE_PEN |-> Raises(At(Plain({"LABOR", "WOOD"}, {}), "HEARTH"), "PEN"),
   COLLECT_EGGS |-> With(Bench(Plain({"LABOR"}, {"EGGS"}), "PEN"), {"CHICKEN"}),
   COLLECT_HONEY |-> With(By(Plain({"LABOR"}, {"HONEY"}), "APIARY"), {"BEEHIVE"})]

Ibex == {"IBEX_PELT", "MEAT", "BONE", "FEATHER"}

FarValley ==
  [DIG_SALT |-> At(Plain({"LABOR"}, {"SALT"}), "SALT"),
   HEN_ROLL |-> At(Plain({"LABOR"}, {"CHICKEN"}), "PASTURE"),
   HUNT_IBEX |-> With(At(Plain({"LABOR"}, Ibex), "RIDGE"), {"SPEAR"}),
   HUNT_IBEX_BOW |-> With(At(Plain({"LABOR", "ARROW"}, Ibex), "RIDGE"), {"BOW"}),
   MAKE_FINE_CLOTHES |->
     By(At(Plain({"LABOR", "IBEX_PELT", "YARN"}, {"FINE_CLOTHES"}), "HEARTH"),
        "TANNING"),
   HUDDLE_FINE |-> With(Plain({}, {"WARMTH"}), {"FINE_CLOTHES"})]

Studies ==
  [STUDY_KNAPPING |-> [Study({"FLINT", "LABOR"}, "FLINT", "KNAPPING")
                         EXCEPT !.hourly = FALSE],
   STUDY_FIRE |-> Study({"WOOD", "FLINT"}, "HEARTH", "FIRE_HARDENING"),
   STUDY_TANNING |-> Study({"YARN", "PELT"}, "HEARTH", "TANNING"),
   STUDY_POTTERY |-> Study({"CLAY", "WOOD"}, "RIVER", "POTTERY"),
   STUDY_ALCHEMY |-> Study({"HERB", "WOOD"}, "HEARTH", "ALCHEMY"),
   STUDY_APIARY |-> Study({"YARN", "WOOD"}, "HEARTH", "APIARY"),
   STUDY_FLETCHING |-> Study({"FEATHER", "WOOD"}, "HEARTH", "FLETCHING"),
   STUDY_BONEWORK |-> Study({"BONE", "FLINT"}, "FLINT", "BONEWORK"),
   STUDY_LEATHERWORK |-> Study({"PELT", "WATER"}, "HEARTH", "LEATHERWORK"),
   STUDY_SALT |-> Study({"SALT"}, "POST", "SALT_CURING")]

Tools ==
  [MAKE_SPEAR |->
     By(Plain({"LABOR", "FLINT", "WOOD", "YARN"}, {"SPEAR"}), "KNAPPING"),
   MAKE_AXE |-> By(Plain({"LABOR", "FLINT", "WOOD", "YARN"}, {"AXE"}), "KNAPPING"),
   MAKE_BAG |-> Plain({"LABOR", "YARN", "WOOD"}, {"BAG"}),
   MAKE_WATERSKIN |-> By(Plain({"LABOR", "LEATHER"}, {"WATERSKIN"}), "TANNING"),
   MAKE_TRAP |-> By(Plain({"LABOR", "WOOD", "YARN"}, {"TRAP"}), "FIRE_HARDENING"),
   MAKE_BED |-> Plain({"LABOR", "WOOD", "YARN"}, {"BED"}),
   MAKE_BOW |->
     By(Plain({"LABOR", "FLINT", "WOOD", "YARN"}, {"BOW"}), "FIRE_HARDENING")]

Benchwork ==
  [MAKE_ARROW |->
     By(Plain({"LABOR", "WOOD", "FLINT", "FEATHER"}, {"ARROW"}), "FLETCHING"),
   MAKE_KNIFE |-> Plain({"LABOR", "FLINT", "WOOD"}, {"KNIFE"}),
   MAKE_SHIELD |-> Plain({"LABOR", "WOOD", "FLINT"}, {"SHIELD"}),
   MAKE_ROPE |-> Plain({"LABOR", "YARN", "WOOD"}, {"ROPE"}),
   MAKE_ROPE_KNIFE |-> With(Plain({"LABOR", "YARN", "WOOD"}, {"ROPE"}), {"KNIFE"}),
   MAKE_CHARCOAL |-> Fire(Plain({"WOOD"}, {"CHARCOAL"})),
   MAKE_KINDLING |-> Plain({"CHARCOAL", "RESIN"}, {"KINDLING"})]

Chapters == {Gathering, Hunting, Hearthside, Kitchen, BackRoom, Meals, Remedies,
             Shelter, Yard, FarValley, Studies, Tools, Benchwork}
Book == [r \in UNION {DOMAIN c : c \in Chapters} |->
           (CHOOSE c \in Chapters : r \in DOMAIN c)[r]]

(* What the catalogue takes: a recipe does something, a lit gate names what *)
(* is lit and a stoke what it feeds.                                       *)
Accepted(r) ==
  /\ r.in \cup r.out \cup r.unlocks # {} \/ r.builds # "NONE" \/ r.stokes
  /\ r.lit \/ r.stokes => r.bench # "NONE"
Recipes == [r \in {b \in DOMAIN Book : Accepted(Book[b])} |-> Book[r]]

(* Mutant: the boar browses and leaves carrion alone.                      *)
ErrandsBrowse ==
  [wolf |-> {"HUNT", "EAT_CARRION", "DRINK", "SLEEP_DEN", "PACE"},
   boar |-> {"GATHER", "EAT_BERRIES", "EAT_APPLES", "DRINK", "SLEEP_DEN",
             "PACE"},
   keeper |-> DOMAIN BackRoom \ {"BUILD_SALT_SHED"},
   house |-> DOMAIN Recipes]

(* The programs of the beasts start these and no others.                   *)
Errands ==
  [wolf |-> {"HUNT", "EAT_CARRION", "DRINK", "SLEEP_DEN", "PACE"},
   boar |-> {"GATHER", "EAT_BERRIES", "EAT_APPLES", "EAT_CARRION", "DRINK",
             "SLEEP_DEN", "PACE"},
   keeper |-> DOMAIN BackRoom \ {"BUILD_SALT_SHED"},
   house |-> DOMAIN Recipes]

-----------------------------------------------------------------------------
(* What a body wants, and what the want breeds when nothing answers it.    *)

Need ==
  [FOOD |-> [from |-> {"SATIETY"}, unmet |-> "HUNGER"],
   WARMTH |-> [from |-> {"WARMTH"}, unmet |-> "EXPOSURE"],
   WATER |-> [from |-> {"WATER", "SKINWATER"}, unmet |-> "THIRST"],
   REST |-> [from |-> {"REST"}, unmet |-> "FATIGUE"],
   COMFORT |-> [from |-> {"COMFORT"}, unmet |-> "SQUALOR"]]

Wants == CASE who = "house" -> DOMAIN Need
           [] who = "keeper" -> {}
           [] OTHER -> DOMAIN Need \ {"COMFORT"}

Met(n) == Need[n].from \cap held # {}

-----------------------------------------------------------------------------
(* The two order books and what a newborn carries.                         *)

PostBook ==
  {"LABOR", "BERRIES", "APPLES", "MEAT", "COOKED_MEAT", "JERKY", "EGGS", "WOOD",
   "YARN", "FLINT", "SPEAR", "AXE", "BAG", "BOW", "CHICKEN", "TRAP", "CLOTHES",
   "BED", "PELT", "WATERSKIN", "SALT", "HERB", "HONEY", "POULTICE", "TONIC",
   "BEEHIVE", "ARROW", "BONE", "FEATHER", "KNIFE", "SHIELD", "LEATHER", "RESIN",
   "CHARCOAL", "ROPE", "KINDLING"}
FarBook == {"IBEX_PELT"}

(* The keeper's counter: what it opens with, and what it bids for.         *)
Shelf == {"BERRIES", "COOKED_MEAT", "JERKY", "CHICKEN", "SALT", "WATERSKIN",
          "BED", "TONIC", "BEEHIVE", "YARN"}
Forest == {"MEAT", "WOOD", "YARN", "FLINT", "SALT", "BERRIES", "APPLES", "EGGS",
           "PELT", "HONEY"}

Carcass == {"MEAT", "PELT", "BONE", "FEATHER"}

Born ==
  [house |-> {"COIN", "BERRIES", "WARMTH", "COMFORT", "WATER", "REST", "HITS",
              "LABOR"},
   keeper |-> Shelf \cup {"COIN", "WOOD", "SHOP_KEY", "SHOP_OPEN", "HITS",
                          "WARMTH"},
   wolf |-> Carcass \cup {"WATER", "REST", "HITS", "LABOR"},
   boar |-> Carcass \cup {"WATER", "REST", "HITS", "LABOR"}]

Gifts == [house |-> {}, keeper |-> {"SALT_CURING"},
          wolf |-> {"CARNIVORE"}, boar |-> {"CARNIVORE"}]

(* The commons fire burns for whoever stands at the hearth; the keeper has *)
(* a hearth of his own that never goes out, and a shed.                    *)
Ground == [house |-> {"FIRE"}, wolf |-> {"FIRE"}, boar |-> {"FIRE"},
           keeper |-> {"FIRE", "SALT_SHED"}]

-----------------------------------------------------------------------------
(* What can be started, and what a stretch of days brings.                 *)

(* A whole hour of labour is what a throttled body is never issued.        *)
WholeHours == "LABOR" \in held /\ Throttles \cap ails = {}

Ready(r) ==
  /\ r.in \cup r.tools \subseteq held
  /\ r.ranks \subseteq known
  /\ r.ground \in Grounds \cup {"ANY"}
  /\ r.open => season = "OPEN"
  /\ r.bench \in stands \cup {"NONE"}
  /\ r.lit => lit
  /\ r.ember => "LIT_TORCH" \in held
  /\ r.hourly => WholeHours
  /\ r.eases \subseteq ails
  /\ \A t \in r.unlocks :
       Prerequisite[t] \subseteq known /\ {t, "STUDY"} \cap bar = {}

Doable == {r \in Errands[who] : Ready(Recipes[r])}

Gained(done, part) == UNION {Recipes[r][part] : r \in done}
RaisedAll(done) == {Recipes[r].builds : r \in done}    \* mutant: no check
Learnt(done) == Gained(done, "unlocks")
Raised(done) == {Recipes[r].builds : r \in done} \ {"NONE"}
Stoked(done) == \E r \in done : Recipes[r].stokes \/ Recipes[r].builds = "FIRE"

(* Orders fill where the books trade.  A house sells what the counter bids *)
(* for, or what another house wants of a book, and then has coin to spend. *)
Buyers == IF "HOUSES" \in bar THEN Forest ELSE PostBook
Sellers == IF "HOUSES" \in bar THEN Shelf ELSE PostBook
Bargains ==
  IF "TRADE" \in bar \/ who \in {"wolf", "boar"} THEN {}
  ELSE IF who = "keeper" THEN Forest
  ELSE (IF "POST" \notin Reach THEN {}
        ELSE (IF held \cap Buyers # {} THEN {"COIN"} ELSE {})
               \cup (IF "COIN" \in held THEN Sellers ELSE {}))
       \cup (IF "SALT_LICK" \in Reach /\ "HOUSES" \notin bar /\ "COIN" \in held
             THEN FarBook ELSE {})

(* Beasts come to the fire-ground or are met on theirs.  Who has hands     *)
(* takes the estate of what it kills, a beast only meat.                   *)
SpoilsTorn == IF "FIGHT" \in bar THEN {} ELSE {"MEAT"}  \* mutant: no hands
Spoils == IF "FIGHT" \in bar \/ who = "keeper" THEN {}
          ELSE IF who = "house" THEN Carcass ELSE {"MEAT"}

(* Everything within reach has been done.                                  *)
Settled ==
  LET done == Doable
  IN /\ Gained(done, "out") \cup Bargains \cup Spoils \subseteq held
     /\ Learnt(done) \subseteq known
     /\ Raised(done) \subseteq stands
     /\ Stoked(done) => lit

-----------------------------------------------------------------------------
(* The lives considered: of bodies the pack makes, carrying conditions it  *)
(* declares.                                                               *)
Wellborn ==
  \A life \in Case :
    /\ life.who \in DOMAIN Home
    /\ life.season \in {"OPEN", "WINTER"}
    /\ life.lit \in BOOLEAN
    /\ life.ails \subseteq Condition
ASSUME BirthAssumption == Wellborn

(* None of them is denied the ground it feeds on, and whoever may not      *)
(* fight can hunt.                                                         *)
OwnGround == {"HEARTH", "THICKET", "RIVER"}
Spared ==
  \A life \in Case :
    /\ life.bar \cap OwnGround = {}
    /\ "FIGHT" \in life.bar => life.who # "boar" /\ "FOREST" \notin life.bar
ASSUME GroundAssumption == Spared

LifeInit ==
  \E life \in Case :
    /\ who = life.who
    /\ bar = life.bar
    /\ season = life.season
    /\ lit = life.lit
    /\ ails = life.ails
    /\ held = Born[life.who]
    /\ known = Gifts[life.who]
    /\ stands = Ground[life.who]

Carries(conditions) ==
  Cardinality(conditions) <= Ills /\ ails' = conditions

(* A stretch of days: every recipe that can start is started, and every    *)
(* order within the purse is filled.  A branch may be the one that sickens.*)
Live ==
  LET done == Doable
  IN /\ \E sick \in SUBSET Gained(done, "risks") :
          Carries((ails \ Gained(done, "eases")) \cup sick)
     /\ held' = held \cup Gained(done, "out") \cup Bargains
     /\ known' = known \cup Learnt(done)
     /\ stands' = stands \cup Raised(done)
     /\ lit' = (lit \/ Stoked(done))
     /\ UNCHANGED <<who, bar, season>>

(* A fight won, with or without a bite taken.                              *)
Fight ==
  /\ Spoils # {}
  /\ held' = held \cup Spoils
  /\ \E bitten \in SUBSET {"WOUND"} : Carries(ails \cup bitten)
  /\ UNCHANGED <<who, bar, season, known, stands, lit>>

(* A want nothing answers breeds its condition; a condition left alone its *)
(* own.                                                                    *)
Miss(n) ==
  /\ n \in Wants /\ ~Met(n)
  /\ Carries(ails \cup {Need[n].unmet})
  /\ UNCHANGED <<who, bar, season, held, known, stands, lit>>

Fester(c) ==
  /\ c \in ails \cap DOMAIN Breeds
  /\ Carries(ails \cup {Breeds[c]})
  /\ UNCHANGED <<who, bar, season, held, known, stands, lit>>

(* A condition fades to nothing once what feeds it is gone.                *)
Fed(c) == \/ \E n \in Wants : Need[n].unmet = c /\ ~Met(n)
          \/ \E d \in ails \cap DOMAIN Breeds : Breeds[d] = c
Fade(c) ==
  /\ c \in ails /\ ~Fed(c)
  /\ ails' = ails \ {c}
  /\ UNCHANGED <<who, bar, season, held, known, stands, lit>>

(* Winter comes and outlasts every larder: what keeps is what is used      *)
(* without being used up.  The fire may be down to ash.  Spring is left    *)
(* out: it gives back what the first open seasons gave.                    *)
Lasting == {"SPEAR", "AXE", "BAG", "BOW", "KNIFE", "WATERSKIN", "CLOTHES",
            "FINE_CLOTHES", "BED", "CHICKEN", "BEEHIVE", "SHIELD", "SHOP_KEY",
            "COIN", "HITS", "LABOR"}
Turn ==
  /\ season = "OPEN" /\ Settled
  /\ season' = "WINTER"
  /\ held' = held \cap Lasting
  /\ lit' \in {FALSE, lit}
  /\ UNCHANGED <<who, bar, known, stands, ails>>

LifeNext ==
  \/ Live \/ Fight \/ Turn
  \/ \E n \in DOMAIN Need : Miss(n)
  \/ \E c \in Condition : Fester(c) \/ Fade(c)

LifeSpec == LifeInit /\ [][LifeNext]_lifeVars

-----------------------------------------------------------------------------
(* Nobody holds, knows, uses or suffers what the pack does not declare.    *)
LifeTypeOK ==
  /\ who \in DOMAIN Home
  /\ season \in {"OPEN", "WINTER"}
  /\ lit \in BOOLEAN
  /\ held \subseteq Good
  /\ known \subseteq Rank \cup Trait
  /\ stands \subseteq {"FIRE", "SHELTER", "PEN", "SALT_SHED"}
  /\ ails \subseteq Condition

(* Subsistence never grows a research prerequisite, and the far valley is  *)
(* never a toll: whatever a house is denied that is not its own ground,    *)
(* once it has done what it can all it wants is answered, in the open      *)
(* seasons from nothing and in winter with what it has raised.             *)
SurvivalIsFree == (\A n \in Wants : Met(n)) \/ ~Settled

(* A craft is in hands, not on shelves: nobody who cannot trade holds what *)
(* a rank gates without the rank.                                          *)
Crafted ==
  [SPEAR |-> "KNAPPING", AXE |-> "KNAPPING", BOW |-> "FIRE_HARDENING",
   TRAP |-> "FIRE_HARDENING", CLOTHES |-> "TANNING", WATERSKIN |-> "TANNING",
   FINE_CLOTHES |-> "TANNING", POULTICE |-> "ALCHEMY", TONIC |-> "ALCHEMY",
   ARROW |-> "FLETCHING", LEATHER |-> "LEATHERWORK"]
CraftsAreInHands ==
  (who = "house" /\ "TRADE" \in bar) =>
    \A g \in held \cap DOMAIN Crafted : Crafted[g] \in known

(* What the words of a rank promise to whoever has it, and has a pelt.     *)
Promises ==
  [KNAPPING |-> {"SPEAR", "AXE"}, FIRE_HARDENING |-> {"BOW", "TRAP"},
   TANNING |-> {"CLOTHES", "WATERSKIN", "FINE_CLOTHES"}]
RankKeepsItsPromise ==
  (season = "OPEN" /\ "PELT" \in held /\ Settled) =>
    \A t \in known \cap DOMAIN Promises : Promises[t] \subseteq held

(* A rank denied takes down the ranks above it and no others: every study  *)
(* can be paid for with what the ranks under it and free hands bring.      *)
Upward(S) == {r \in Rank : r \in S \/ Prerequisite[r] \cap S # {}}
Above(t) == Upward(Upward(Upward(Upward({t}))))   \* no ladder has more than five rungs
LadderClimbs ==
  /\ who = "house" /\ bar \subseteq Rank \cup {"TRADE"}
  /\ season = "OPEN" /\ WholeHours /\ Settled
  =>
    Rank \ known = UNION {Above(t) : t \in bar \cap Rank}

=============================================================================
