------------------------------- MODULE Genesis -------------------------------
(***************************************************************************)
(* The numbers of the stone-age world: the rows create_content installs,   *)
(* in the columns of the catalogue.                                        *)
(*                                                                         *)
(* StoneAge plays the web these rows form with their quantities left out;  *)
(* this module is where the two are held against each other, and where     *)
(* what the pack's comments promise of the numbers is computed: that every *)
(* row installs, which deprivation kills and after how many hours, how     *)
(* long a torch burns, how far everything lies.                            *)
(***************************************************************************)
EXTENDS StoneAge, Queries

Whole(n) == n * One
Tenths(n) == n * (One \div 10)
Percent(n) == n * (One \div 100)
Given(table, s) == IF s \in DOMAIN table THEN {table[s]} ELSE {}

-----------------------------------------------------------------------------
(* Goods and conditions.                                                   *)
Decay ==
  [LABOR |-> Percent(50), MEAT |-> Percent(30), BERRIES |-> Percent(15),
   APPLES |-> Percent(8), COOKED_MEAT |-> Percent(25), EGGS |-> Percent(5),
   HONEY |-> Percent(2), LIT_TORCH |-> Percent(50), SKINWATER |-> Percent(2),
   WARMTH |-> Percent(20), SATIETY |-> Percent(10), SHOP_OPEN |-> 417,
   COMFORT |-> Percent(5), PELT |-> Percent(5), IBEX_PELT |-> Percent(5),
   HUNGER |-> Percent(5), EXPOSURE |-> Percent(5), DISEASE |-> Percent(5),
   THIRST |-> Percent(5), FATIGUE |-> Percent(5), SQUALOR |-> Percent(1),
   WOUND |-> Percent(2), INFECTION |-> Percent(1), FROSTBITE |-> Percent(5)]
MaxHolding ==
  [CHICKEN |-> 4, BEEHIVE |-> 2, FINE_CLOTHES |-> 1, LIT_TORCH |-> 2, WATER |-> 4,
   SKINWATER |-> 8, WARMTH |-> 6, SHOP_KEY |-> 1, SHOP_OPEN |-> 1, REST |-> 8]
KillLine ==
  [HUNGER |-> Whole(15), EXPOSURE |-> Whole(18), DISEASE |-> Tenths(25),
   THIRST |-> Tenths(75), FATIGUE |-> Tenths(75), WOUND |-> Whole(12),
   INFECTION |-> Whole(8), FROSTBITE |-> Whole(10)]
LaborFactor ==
  [SQUALOR |-> Percent(85), WOUND |-> Percent(80), INFECTION |-> Percent(85),
   FROSTBITE |-> Percent(75)]
Productivity ==
  [EXPOSURE |-> Percent(75), DISEASE |-> Percent(80), FATIGUE |-> Percent(90)]

(* What is of the body and not on its back.                                *)
OfTheBody ==
  {"LABOR", "HERB", "TORCH", "LIT_TORCH", "WATER", "SKINWATER", "WARMTH",
   "SATIETY", "COMFORT", "REST", "HITS"} \cup (Condition \ {"SQUALOR"})

Ration == [LABOR |-> "individual", WARMTH |-> "business"]

Goods ==
  { [symbol |-> s,
     decay |-> IF s \in DOMAIN Decay THEN Decay[s] ELSE 0,
     issue |-> IF s \in DOMAIN Ration THEN Whole(1) ELSE 0,
     issueTo |-> Given(Ration, s), daylight |-> s = "LABOR",
     pattern |-> IF s \in DOMAIN LaborFactor THEN {{"LABOR"}} ELSE {},
     factor |-> Given(LaborFactor, s), lethal |-> Given(KillLine, s),
     productivity |-> Given(Productivity, s),
     cap |-> {Whole(c) : c \in Given(MaxHolding, s)}, exempt |-> s \in OfTheBody]
    : s \in (Good \ {"COIN"}) \cup Condition }
GoodOf(s) == CHOOSE g \in Goods : g.symbol = s

-----------------------------------------------------------------------------
(* Needs, and what breeds without them.                                    *)
Wanted(code, draw, rank, grant) ==
  [code |-> code, entity |-> {"individual"}, draw |-> draw, night |-> {},
   season |-> {}, seasonNight |-> {}, body |-> {},
   satisfiers |-> Need[code].from, condition |-> {Need[code].unmet},
   grant |-> grant, priority |-> rank]
Needs ==
  { Wanted("FOOD", Tenths(5), 0, Tenths(8)),
    [Wanted("WARMTH", Whole(1), 1, Whole(1)) EXCEPT !.night = {Whole(3)},
       !.season = {<<"WINTER", Whole(2)>>},
       !.seasonNight = {<<"WINTER", Whole(4)>>}],
    Wanted("WATER", Percent(25), 2, Tenths(5)),
    Wanted("REST", Percent(25), 3, Tenths(5)),
    Wanted("COMFORT", Tenths(1), 4, Percent(2)) }

(* A condition that rides at `at' or more grants another by the tick.      *)
Festering ==
  [WOUND |-> [grants |-> "INFECTION", at |-> Tenths(5), quantity |-> Percent(5)],
   EXPOSURE |-> [grants |-> "FROSTBITE", at |-> Whole(9), quantity |-> Percent(25)]]

Threats ==
  { [code |-> "BLIZZARD", entity |-> {}, condition |-> "EXPOSURE",
     ambient |-> Tenths(5), perSay |-> 0, deterrent |-> {}, deterredAt |-> 0,
     factor |-> One, place |-> {"RIDGE_PASS"}] }

-----------------------------------------------------------------------------
(* The map and what stands on it.                                          *)
Places == {[key |-> p, kind |-> Kind[p]] : p \in Place}

Hours ==
  LET Walk(n, roads) == [r \in roads |-> n]
  IN Walk(1, {{"HEARTH", "THICKET"}, {"HEARTH", "RIVER"}, {"THICKET", "RIVER"},
              {"FOREST", "POST"}, {"HEARTH", "POST"}, {"VALE", "SALT_LICK"}})
     @@ Walk(3, {{"HEARTH", "FOREST"}})
     @@ Walk(2, {{"HEARTH", "FLINT"}, {"THICKET", "FOREST"}, {"RIVER", "POST"},
                 {"FLINT", "RIDGE_PASS"}, {"RIDGE_PASS", "SALT_LICK"},
                 {"RIDGE_PASS", "VALE"}})
Road(ends, cost) ==
  LET a == CHOOSE p \in ends : TRUE
  IN [from |-> a, to |-> CHOOSE p \in ends \ {a} : TRUE, mode |-> "WALK",
      cost |-> cost, both |-> TRUE]
Edges == {Road(ends, Hours[ends]) : ends \in DOMAIN Hours}

(* d is how many hours every place lies from one: with no hop shorter than *)
(* an hour only the true distances satisfy this.                           *)
Away(d, start) ==
  \A p \in Place :
    LET by == {d[q] + Hours[{p, q}] : q \in {r \in Place : {p, r} \in DOMAIN Hours}}
    IN IF p = start THEN d[p] = 0 ELSE d[p] \in by /\ \A h \in by : d[p] <= h

Built(kind, place, owner, access, capacity) ==
  [kind |-> kind, place |-> {place}, owner |-> owner, access |-> access,
   capacity |-> capacity, fuel |-> 0, fuelCap |-> {}, burn |-> 0]
Burning(f, fuel, burn) ==
  [f EXCEPT !.fuel = Whole(fuel), !.fuelCap = {Whole(fuel)}, !.burn = Whole(burn)]

(* The village's fire seats four and burns six hours unfed; the keeper's   *)
(* never goes out (its 999999 is written as what fits beside the rest).    *)
Commons ==
  { Burning(Built("FIRE", "HEARTH", {}, "PLACE", 4), 6, 1),
    Built("STORAGE", "HEARTH", {}, "PLACE", 40),
    Built("WOODPILE", "HEARTH", {}, "PLACE", 1) }
Drops ==
  {Built("DROP", p, {}, "PLACE", 1)
     : p \in {q \in Place \ {"HEARTH"} : Sited(Commons, q, "DROP") = {}}}
Premises ==
  { Built("SALT_SHED", "POST", {"keeper"}, "OWNER", 2),
    Burning(Built("FIRE", "POST", {"keeper"}, "OWNER", 1), 9999, 0) }
Facilities == Commons \cup Drops \cup Premises

Markets ==
  {[symbol |-> s, currency |-> "COIN", place |-> {"POST"}] : s \in PostBook}
    \cup {[symbol |-> s, currency |-> "COIN", place |-> {"SALT_LICK"}] : s \in FarBook}

-----------------------------------------------------------------------------
(* Bodies.                                                                 *)
Stats ==
  [house |-> [ATTACK |-> 1, DEFENSE |-> 1, HITS |-> 20, CARRY |-> 20],
   keeper |-> [ATTACK |-> 4, DEFENSE |-> 4, HITS |-> 20, CARRY |-> 100],
   wolf |-> [ATTACK |-> 4, DEFENSE |-> 1, HITS |-> 12],
   boar |-> [ATTACK |-> 4, DEFENSE |-> 2, HITS |-> 12]]

Carcasses == [wolf |-> [MEAT |-> 1, PELT |-> 1], boar |-> [MEAT |-> 6, PELT |-> 2]]
Beast(b) == Carcasses[b] @@ [BONE |-> 1, FEATHER |-> 1, WATER |-> 2, REST |-> 4]
Larder ==
  [BERRIES |-> 60, COOKED_MEAT |-> 20, JERKY |-> 30, CHICKEN |-> 2, SALT |-> 8,
   WATERSKIN |-> 1, BED |-> 1, TONIC |-> 3, BEEHIVE |-> 2, YARN |-> 8]

(* What make_house hands a dynasty, and what join.config hands who joins.  *)
Dynasty == [BERRIES |-> 8, WARMTH |-> 6, COMFORT |-> 2, WATER |-> 4, REST |-> 4,
            HITS |-> 20]
Holdings ==
  [house |-> Dynasty, wolf |-> Beast("wolf"), boar |-> Beast("boar"),
   keeper |-> Larder @@ [SHOP_KEY |-> 1, SHOP_OPEN |-> 1, WOOD |-> 6]]
Purse == [house |-> 10, keeper |-> 35, wolf |-> 0, boar |-> 0]

JoinConfig ==
  SetJoinConfig(BareFounder,
    [endowment |-> Purse.house, currency |-> "COIN", starter |-> {"starter"},
     holdings |-> Dynasty, stats |-> Stats.house,
     parcel |-> {[type |-> "LAND", place |-> {"HEARTH"}]}, place |-> {"HEARTH"}])

(* The rounds that breed them.                                             *)
Programs ==
  [wolf |-> [from |-> 5, every |-> 5, upTo |-> 2, max |-> 3],
   boar |-> [from |-> 3, every |-> 3, upTo |-> 1, max |-> 2]]

(* The beast's biology: no ease to want, and the lapping of a drinker that *)
(* drinks from its kill.                                                   *)
Biology == [omit |-> {"COMFORT"}, rates |-> [w \in {"WATER"} |-> Tenths(1)]]

Technologies ==
  {[code |-> t, scope |-> "entity", needs |-> Prerequisite[t]] : t \in Rank}
    \cup {[code |-> t, scope |-> "entity", needs |-> {}] : t \in Trait}

(* The rules of fighting, of the register and of the dark road.            *)
CombatRules ==
  [deterrence |-> [s \in {"FIRESIDE", "LIT"} |-> Whole(1)],
   weapons |-> [SPEAR |-> 3, AXE |-> 2, BOW |-> 3],
   armor |-> [CLOTHES |-> 1, SHIELD |-> 2],
   penalties |-> [FATIGUE |-> [floor |-> Whole(5), ATTACK |-> -Whole(1),
                               DEFENSE |-> -Whole(1)]],
   baseHit |-> 50, perPoint |-> 5]

LitFloor == Percent(25)
EmberTicks == 2
Statuses ==
  [LIT |-> [by |-> "holding", floors |-> [s \in {"LIT_TORCH"} |-> LitFloor]],
   EMBER |-> [by |-> "lit_within", window |-> EmberTicks, after |-> {"LIT"}],
   LOUD |-> [by |-> "loud_within", window |-> 1],
   FIRESIDE |-> [by |-> "place_fuel", type |-> "FIRE", floor |-> Whole(1)]]
DarkRoad == [needs |-> {"LIT"}, relight |-> EmberTicks]

(* One of the pack's bodies at home, with what it carries.                 *)
BodyOf(w, carries) ==
  [id |-> w, held |-> carries, place |-> {Home[w]}, lit |-> {},
   stats |-> [s \in DOMAIN Stats[w] |-> Whole(Stats[w][s])],
   omit |-> IF w = "house" THEN {} ELSE Biology.omit,
   rates |-> IF w = "house" THEN <<>> ELSE Biology.rates]

Unlocks ==
  UNION {{[technology |-> t, holder |-> {w}] : t \in Gifts[w]} : w \in DOMAIN Home}

(* An hour afoot a hop, free of labour and of the light.                   *)
WalkRow ==
  [code |-> "TRAVEL_WALK", duration |-> 1, travels |-> TRUE, in |-> <<>>,
   out |-> <<>>, branches |-> <<>>, tools |-> <<>>, ground |-> <<>>,
   hourly |-> <<>>, requires |-> {}, unlocks |-> {}, builds |-> {},
   access |-> "OWNER", config |-> <<>>, bench |-> {}, stokes |-> {},
   lit |-> FALSE, seasons |-> {}, scales |-> <<>>, cost |-> {}, carry |-> {},
   effect |-> "none"]

-----------------------------------------------------------------------------
(* The hours.                                                              *)

(* What the rot of a tick leaves: half a quantum rounds up, and a remnant  *)
(* too small for its rate to reach goes at once.                           *)
Faded(q, rate) ==
  LET lost == (q * rate + One \div 2) \div One
  IN IF rate = 0 THEN q ELSE IF lost = 0 THEN 0 ELSE q - lost

(* A holding after some hours, fed before each rot.                        *)
After(s, start, feed, hours) ==
  LET rate == GoodOf(s).decay
      after[q \in Nat, t \in Nat] ==
        IF t = 0 THEN q ELSE IF t = 1 THEN Faded(q + feed, rate)
        ELSE after[after[q, t \div 2], t - t \div 2]
  IN after[start, hours]

(* The incapacity pass reads what the rot has left, so it is there that a  *)
(* neglect kills; one that leaves every body under the line under it never *)
(* does.                                                                   *)
Days == 24
KilledAfter(c, feed) ==
  LET fatal == {t \in 1..4 * Days :
                  \A q \in GoodOf(c).lethal : After(c, 0, feed, t) >= q}
  IN CHOOSE t \in fatal : \A u \in fatal : t <= u
Spares(c, feed) ==
  \A q \in GoodOf(c).lethal : Faded(q - 1 + feed, GoodOf(c).decay) < q

Grant(c) == (CHOOSE n \in Needs : n.condition = {c}).grant
Draw(code) == (CHOOSE n \in Needs : n.code = code).draw

HoursLit(torches) ==
  Cardinality({t \in 1..Days : After("LIT_TORCH", Whole(torches), 0, t) >= LitFloor})

-----------------------------------------------------------------------------
(* Every row the pack declares is one the engine takes, and the unlocks it *)
(* is born with are earned or free.                                        *)
ASSUME Installs ==
  /\ Goods \subseteq GoodRow(Good \cup Condition) /\ Installed(Goods, MayCreateGood)
  /\ Needs \subseteq NeedRow(DOMAIN Need \cup Good \cup Condition)
  /\ Installed(Needs, MayCreateNeed)
  /\ Places \subseteq PlaceRow(Place, {Kind[p] : p \in Place})
  /\ Installed(Places, MayCreatePlace)
  /\ Edges \subseteq RoadRow(Place, {"WALK"})
  /\ Installed(Edges, LAMBDA had, e : MayCreateEdge(Place, had, e))
  /\ Threats \subseteq ThreatRow({"BLIZZARD"} \cup Condition, Place)
  /\ Installed(Threats, LAMBDA had, t : MayCreateThreat(Place, had, t))
  /\ Markets \subseteq MarketRow(Good, Place)
  /\ Installed(Markets, LAMBDA had, m : MayCreateMarket(Place, had, m))
  /\ \A f \in Facilities : MayCreateParcel(Place, f) /\ MayAddFacility(f)
  /\ Technologies \subseteq TechnologyRow(Rank \cup Trait)
  /\ Installable(Prerequisite) = Rank
  /\ \A t \in Technologies :
       MayCreateTechnology({r \in Technologies : r.code \in t.needs}, t)
  /\ Unlocks \subseteq UnlockRow(Rank \cup Trait, DOMAIN Home)
  /\ IsRecipe(WalkRow, Good, Rank) /\ MayCreateRecipe({}, {}, WalkRow)
  /\ TravelTemplate({WalkRow})
  /\ \A w \in DOMAIN Stats :
       {[stat |-> s, value |-> Stats[w][s]] : s \in DOMAIN Stats[w]}
         \subseteq StatRow({"ATTACK", "DEFENSE", "HITS", "CARRY"})
  /\ \A w \in DOMAIN Home :
       /\ [entity |-> w, currency |-> "COIN", balance |-> Whole(Purse[w])]
            \in AccountRow(DOMAIN Home, Good)
       /\ {[entity |-> w, symbol |-> s, quantity |-> Whole(Holdings[w][s])]
             : s \in DOMAIN Holdings[w]}
            \subseteq HoldingRow(DOMAIN Home, Good \cup {"HITS"})
  /\ MayProfile(Biology)

(* Nothing a cycle passes through can be installed in any order, and       *)
(* whatever no cycle reaches can.                                          *)
ASSUME NoCycleInstalls ==
  LET codes == {"KNAPPING", "APIARY", "TANNING"}
  IN \A needs \in [codes -> SUBSET codes] :
       (Installable(needs) = codes)
         = \A S \in SUBSET codes \ {{}} : \E t \in S : needs[t] \cap S = {}

(* What StoneAge lays out without its numbers is what these rows say.      *)
ASSUME SameWorld ==
  /\ {g.symbol : g \in {r \in Goods : r.decay > 0}} = Rots \cup {"LABOR"} \cup Condition
  /\ {g.symbol : g \in {r \in Goods : IsCondition(r)}} = Condition
  /\ {g.symbol : g \in {r \in Goods : r.pattern # {}}} = Throttles
  /\ [c \in DOMAIN Festering |-> Festering[c].grants] = Breeds
  /\ {n.code : n \in Needs} = DOMAIN Need
  /\ DOMAIN Hours = Roads
  /\ DOMAIN Larder = Shelf
  /\ \A f \in Premises : f.kind \in Ground["keeper"]
  /\ \A w \in DOMAIN Home :
       /\ EntityUnlocks(Unlocks, w) = Gifts[w]
       /\ LET body == IF w = "keeper" THEN "business" ELSE "individual"
          IN Born[w] = DOMAIN Holdings[w] \cup {"HITS"}
                         \cup {s \in DOMAIN Ration : Ration[s] = body}
                         \cup (IF Purse[w] > 0 THEN {"COIN"} ELSE {})

(* A player who joins is seated as a house of the pack is, no cap is       *)
(* broken at birth, and nobody is born with more on its back than it can   *)
(* carry off but the keeper, who never leaves.                             *)
Burdened(w) == BodyOf(w, [s \in DOMAIN Holdings[w] |-> Whole(Holdings[w][s])])
ASSUME SeatsAlike ==
  /\ Seated(JoinConfig, "house") =
       [holdings |-> Holdings.house, stats |-> Stats.house,
        parcels |-> {[owner |-> "house", type |-> "LAND", place |-> {"HEARTH"}]},
        stands |-> {Home.house}]
  /\ Seated(BareFounder, "house").parcels = {}
  /\ \A w \in DOMAIN Home : \A s \in DOMAIN Holdings[w] :
       \A c \in GoodOf(s).cap : Whole(Holdings[w][s]) <= c
  /\ \A w \in DOMAIN Home :
       Refusing(Goods, Burdened(w), {WalkRow})
         = IF w = "keeper" THEN {Whole(Stats.keeper.CARRY)} ELSE {}

(* The clocks of neglect, in hours from the first miss: sleep and water    *)
(* before the cold, the cold before hunger; squalor never, and no          *)
(* condition another breeds.  A day's fast is a debt; a body that never    *)
(* sleeps is dull in its second night and dead by the third.               *)
ASSUME Clocks ==
  /\ [c \in {"HUNGER", "EXPOSURE", "THIRST", "FATIGUE"} |-> KilledAfter(c, Grant(c))]
       = [HUNGER |-> 85, EXPOSURE |-> 58, THIRST |-> 31, FATIGUE |-> 31]
  /\ Spares("SQUALOR", Grant("SQUALOR"))
  /\ \A c \in DOMAIN Festering : Spares(Festering[c].grants, Festering[c].quantity)
  /\ \A t \in Threats : Spares(t.condition, t.ambient)
  /\ After("HUNGER", 0, Grant("HUNGER"), Days) < KillLine.HUNGER
  /\ LET rested == Whole(Dynasty.REST) \div Draw("REST")
         tired == {t \in 1..2 * Days : After("FATIGUE", 0, Grant("FATIGUE"), t) >= Whole(5)}
     IN /\ \A t \in tired : rested + t > Days
        /\ rested + KilledAfter("FATIGUE", Grant("FATIGUE")) \in Days + 1..2 * Days

(* A brand lights two hours, as many as a body may carry three; the cup    *)
(* and the skin are two dry days; a warmed body has two hours' grace.      *)
ASSUME Kits ==
  /\ HoursLit(1) = 2 /\ HoursLit(MaxHolding.LIT_TORCH) = 3
  /\ Whole(MaxHolding.WATER + MaxHolding.SKINWATER) = 2 * Days * Draw("WATER")
  /\ \A n \in Needs : n.code = "WARMTH" => n.night = {Whole(MaxHolding.WARMTH) \div 2}

(* A brand struck in the first hour is a flame in the next two; after it   *)
(* the ember can be struck from for one hour more, the hour of the burnout *)
(* being the first of its two; whoever is lit has an ember too.            *)
ASSUME Torchlight ==
  LET Flame(q) == [LIT_TORCH |-> q]
      brand[n \in 0..4] ==
        IF n = 0 THEN BodyOf("house", Flame(Whole(1)))
        ELSE StampLit(Statuses, [brand[n - 1] EXCEPT
               !.held = Flame(Faded(@.LIT_TORCH, Decay.LIT_TORCH))], n)
      Names(body, n) == ActiveConditions(Statuses, Goods, body, {}, <<>>, n)
  IN /\ [n \in 2..5 |-> Names(brand[n - 1], n)]
          = ([n \in 2..3 |-> {"LIT", "EMBER"}] @@ 4 :> {"EMBER"} @@ 5 :> {})
     /\ \A q \in {0, LitFloor - 1, LitFloor, One} : \A last \in {{}, {1}, {3}} :
          LET names == Names([BodyOf("house", Flame(q)) EXCEPT !.lit = last], 4)
          IN "LIT" \in names => "EMBER" \in names /\ DarkRoad.needs \subseteq names

(* Firelight turns an attacker and the warmth of a fire gone out does not; *)
(* a walker of the night, or one whose flame burns, is heard the hour      *)
(* after.                                                                  *)
ASSUME Firelight ==
  LET warm == BodyOf("house", [WARMTH |-> Whole(6)])
      At1(fuel) == {[type |-> "FIRE", place |-> "HEARTH", fuel |-> Whole(fuel)]}
      walked == <<[who |-> "house", tick |-> 7, loud |-> TRUE, applied |-> TRUE]>>
      Names(fires, acts, n) == ActiveConditions(Statuses, Goods, warm, fires, acts, n)
  IN /\ Deterred(CombatRules, warm, Names(At1(6), <<>>, 8))
     /\ ~Deterred(CombatRules, warm, Names(At1(0), <<>>, 8))
     /\ [n \in 7..9 |-> Carriers(Statuses, Goods, {warm}, {}, walked, "LOUD", n)]
          = (7 :> {} @@ 8 :> {<<"house", 1>>} @@ 9 :> {})
     /\ Names(At1(1), walked, 8) = {"FIRESIDE", "LOUD"}

(* The duels the pack's notes promise, by chance in a hundred and damage:  *)
(* a wolf at a bare house, the spear that makes it even and kills in four, *)
(* the boar's tusk at a clothed one, the shield, and the tired.            *)
ASSUME Duels ==
  LET Bearing(arms) == BodyOf("house", [s \in arms |-> Whole(1)])
      Clash(a, b) ==
        LET x == EffectiveAttack(CombatRules, a)  y == EffectiveDefense(CombatRules, b)
        IN <<HitChance(CombatRules, x, y) \div One, Blow(x, y, 0) \div One>>
      beast(b) == BodyOf(b, <<>>)
      tired == BodyOf("house", [FATIGUE |-> Whole(5)])
  IN /\ Clash(beast("wolf"), Bearing({})) = <<65, 3>>
     /\ Clash(Bearing({"SPEAR"}), beast("wolf")) = <<65, 3>> /\ 4 * 3 >= Stats.wolf.HITS
     /\ Clash(beast("boar"), Bearing({"CLOTHES"})) = <<60, 2>>
     /\ Clash(beast("wolf"), Bearing({"SHIELD"})) = <<55, 1>>
     /\ Clash(tired, beast("wolf")) = <<45, 1>> /\ Clash(beast("wolf"), tired) = <<70, 4>>
     /\ \A roll \in {6499, 6500} : Lands(65 * One, roll) = (roll < 6500)

(* The year: fourteen hours of light a day and six days a season.  What a  *)
(* body draws of the cold by season and hour; a beast wants no ease and    *)
(* laps a tenth; and the least speck of a throttle leaves less than the    *)
(* whole hour the recipes ask for.                                         *)
ASSUME HoursOfNeed ==
  LET noon(day) == (day - 1) * TicksPerDay + 13
      midnight(day) == noon(day) - 12
      Drawn(code, w, tick) ==
        EffectiveDraw(CHOOSE n \in Needs : n.code = code, BodyOf(w, <<>>), tick, 6)
  IN /\ Cardinality({t \in 1..TicksPerDay : ~Dark(t)}) = 14
     /\ \A day \in {18, 19, 24, 25} :
          /\ (ClockFacts(noon(day), 6).season = "WINTER") = (day \in 19..24)
          /\ Drawn("WARMTH", "house", noon(day)) = {Whole(IF day \in 19..24 THEN 2 ELSE 1)}
          /\ Drawn("WARMTH", "house", midnight(day)) = {Whole(IF day \in 19..24 THEN 4 ELSE 3)}
     /\ Drawn("COMFORT", "wolf", 1) = {} /\ Drawn("WATER", "wolf", 1) = {Percent(25) \div 10}
     /\ Satisfaction(Percent(25), Percent(25)) = One
     /\ {Satisfaction(q, Whole(1)) : q \in {0, 1, One - 1}} \subseteq NeedScore \ {One}
     /\ \A c \in Condition :
          LET speck == BodyOf("house", [s \in {c} |-> 1])
              ration == EffectiveQuantity(One, EffectiveFactor(Goods, speck, "LABOR"))
              effort == EffectiveQuantity(One, HeldProductivity(Goods, speck))
          IN (ration < One) = (c \in Throttles) /\ (effort < One) = (c \in DOMAIN Productivity)

(* The ground: wood has a pool everywhere and the hearth takes nothing     *)
(* else, a store is at home only; the commons' fire is everybody's but the *)
(* keeper's, who has a better one, and nobody else salts at the post.      *)
ASSUME Commonage ==
  LET at(p) == [BodyOf("house", <<>>) EXCEPT !.place = {p}]
      heap == {[facility |-> f, owner |-> Everybody, symbol |-> "BERRIES", quantity |-> One]
                 : f \in Sited(Facilities, "THICKET", "DROP")}
  IN /\ heap \subseteq ShelfRow(Facilities, DOMAIN Home, Good)
     /\ \A p \in Place :
          /\ Dropped(Facilities, heap, at(p), "WOOD") = {0}
          /\ Dropped(Facilities, heap, at(p), "BERRIES")
               = IF p = "HEARTH" THEN {} ELSE IF p = "THICKET" THEN {One} ELSE {0}
          /\ Stored(Facilities, heap, at(p), "BERRIES") = IF p = "HEARTH" THEN {0} ELSE {}
     /\ \A w \in DOMAIN Home :
          /\ Usable(Facilities, w, "FIRE") \subseteq IF w = "keeper" THEN Premises ELSE Commons
          /\ (Usable(Facilities, w, "SALT_SHED") # {}) = (w = "keeper")

(* The fauna: by the tenth round the pack is whole and by the sixth the    *)
(* boars are, no later call adds to either, and no two beasts of one kind, *)
(* the dead included, bear one name.                                       *)
ASSUME Waves ==
  LET grown[k \in DOMAIN Programs, r \in 0..20] ==
        IF r = 0 THEN 0
        ELSE LET before == grown[k, r - 1]
             IN IF Called(Programs[k], r) THEN before + Litter(Programs[k], before) ELSE before
  IN /\ [r \in {4, 5, 9, 10, 20} |-> grown["wolf", r]]
          = (4 :> 0 @@ 5 :> 2 @@ 9 :> 2 @@ 10 :> 3 @@ 20 :> 3)
     /\ [r \in {2, 3, 5, 6, 20} |-> grown["boar", r]]
          = (2 :> 0 @@ 3 :> 1 @@ 5 :> 1 @@ 6 :> 2 @@ 20 :> 2)
     /\ \A k \in DOMAIN Programs : Litter(Programs[k], Programs[k].max + 1) = 0
     /\ Cardinality({Roman(n) : n \in 1..200}) = 200

(* The valleys: what lies how far, and the one door between them.          *)
ASSUME Distances ==
  /\ Away([HEARTH |-> 0, THICKET |-> 1, RIVER |-> 1, POST |-> 1, FLINT |-> 2,
           FOREST |-> 2, RIDGE_PASS |-> 4, SALT_LICK |-> 6, VALE |-> 6], "HEARTH")
  /\ Away([RIVER |-> 0, HEARTH |-> 1, THICKET |-> 1, POST |-> 2, FLINT |-> 3,
           FOREST |-> 3, RIDGE_PASS |-> 5, SALT_LICK |-> 7, VALE |-> 7], "RIVER")
  /\ LET beyond == {"SALT_LICK", "VALE"}
     IN \A ends \in DOMAIN Hours :
          ends \cap beyond # {} => ends \subseteq beyond \cup {"RIDGE_PASS"}
-----------------------------------------------------------------------------
(* What its scripts may ask.  The tables of a village: a house and its     *)
(* child, the keeper and a wolf that died, with bread on the shelf of the  *)
(* post, a run in hand, a law written twice and a bill before the houses.  *)
Village ==
  LET Being(e, active, birth, parents, owner) ==
        [id |-> e, active |-> active, birth |-> birth, lifespan |-> {}, parents |-> parents, owner |-> owner]
      Law(id, lineage, active, of) ==
        [id |-> id, lineage |-> lineage, active |-> active, type |-> "validator", entity |-> of]
  IN [entities |-> {Being("house", TRUE, {1}, {}, {"ann"}), Being("child", TRUE, {7}, {"house"}, {"ann"}),
                    Being("keeper", TRUE, {}, {}, {}), Being("wolf", FALSE, {5}, {}, {})},
      accounts |-> {[id |-> "till", entity |-> "keeper", currency |-> "COIN", balance |-> 35],
                    [id |-> "chest", entity |-> "keeper", currency |-> "IOU", balance |-> 3],
                    [id |-> "purse", entity |-> "house", currency |-> "COIN", balance |-> 10]},
      rank |-> [ann |-> 1, bob |-> 2, cid |-> 3, COIN |-> 1, IOU |-> 2, till |-> 1, chest |-> 2, purse |-> 3],
      holdings |-> UNION {{[entity |-> w, symbol |-> s, quantity |-> Holdings[w][s]]
                             : s \in {"BERRIES", "SHOP_KEY"} \cap DOMAIN Holdings[w]} : w \in {"house", "keeper"}},
      running |-> {[id |-> 1, entity |-> "keeper", tools |-> [s \in {"SHOP_KEY"} |-> 1]]},
      bodies |-> {BodyOf("house", <<>>)}, facilities |-> Facilities, shelves |-> {},
      markets |-> {[symbol |-> m.symbol, place |-> m.place, last |-> {}] : m \in Markets},
      escrow |-> {[symbol |-> "BERRIES", seller |-> "keeper", quantity |-> 5],
                  [symbol |-> "BERRIES", seller |-> "house", quantity |-> 2]},
      orders |-> {[id |-> 1, symbol |-> "BERRIES", side |-> "sell", price |-> 2, remaining |-> 4, open |-> TRUE],
                  [id |-> 2, symbol |-> "BERRIES", side |-> "sell", price |-> 3, remaining |-> 9, open |-> TRUE],
                  [id |-> 3, symbol |-> "BERRIES", side |-> "buy", price |-> 1, remaining |-> 4, open |-> FALSE]},
      settings |-> [x \in {} |-> 0], unlocks |-> Unlocks, technologies |-> Technologies,
      scripts |-> <<Law(1, "L", FALSE, {}), Law(2, "L", TRUE, {}), Law(3, "M", TRUE, {"keeper"})>>,
      proposals |-> <<[id |-> 1, status |-> "open", model |-> "citizen",
                       votes |-> {[voter |-> "house", choice |-> "for", weight |-> 1],
                                  [voter |-> "wolf", choice |-> "for", weight |-> 1],
                                  [voter |-> "child", choice |-> "against", weight |-> 1]}]>>,
      electorate |-> [citizen |-> 2],
      ticks |-> 1..7, executing |-> {}, stamps |-> {}, eliminated |-> {}, places |-> Place, roads |-> Edges]

(* Whose pantry it is nobody else's script reads, where the world says so; *)
(* its own, and what it may still use of it, everybody's does; and who     *)
(* guards the world reads the whole register, each with its first account. *)
ASSUME Pantries ==
  LET kept == [Village EXCEPT !.settings = [k \in {"world.private_holdings"} |-> TRUE]]
  IN /\ \A w \in {Village, kept} : \A reader \in {{}, {"house"}, {"keeper"}} :
          LET own == w = Village \/ reader \in {{}, {"keeper"}}
          IN /\ Holding(w, reader, "keeper", "SHOP_KEY") = IF own THEN {1} ELSE {}
             /\ Unreserved(w, reader, "keeper", "SHOP_KEY") = IF own THEN {0} ELSE {}
             /\ SumOf(Holders(w, reader, "BERRIES"), "quantity")
                  = IF w = Village \/ reader = {} THEN Larder.BERRIES + Dynasty.BERRIES ELSE 0
     /\ Column(Holders(Village, {}, "BERRIES"), "account") = {{"till"}, {"purse"}}
     /\ TotalSupply(Village, "COIN") = Purse.keeper + Purse.house

(* The shelf is the sum of what its sellers left on it and splits into     *)
(* what is claimed and what is free, however much is asked; and the touch  *)
(* is of resting orders alone.                                             *)
ASSUME Counter ==
  LET asked(n) == [Village EXCEPT !.orders = {[o EXCEPT !.open = o.id <= n] : o \in @}]
  IN /\ \A n \in 0..3 : \A s \in {"BERRIES", "IBEX_PELT", "COIN"} :
          \A m \in MarketShelf(asked(n), s) :
            /\ m.claimed \in 0..m.shelf /\ m.claimed + m.free = m.shelf
            /\ {m.shelf} = {a + b : a \in OwnShelf(Village, {"house"}, s), b \in OwnShelf(Village, {"keeper"}, s)}
     /\ MarketShelf(Village, "COIN") = {} /\ OwnShelf(Village, {}, "BERRIES") = {}
     /\ BestAsk(Village, "BERRIES") = {2} /\ BestBid(Village, "BERRIES") = {}

(* A law is read as its version of the day and kept as all of them; laws   *)
(* bind everybody and a household's own rule that household.  A vote       *)
(* outlives its voter: more may have been cast than there is left to cast. *)
ASSUME Statutes ==
  LET Listed(seq) == {seq[i] : i \in DOMAIN seq}
      bound(e) == {law.id : law \in Listed(ApplicableScripts(Village, "validator", [entity |-> e]))}
  IN /\ Column(ActiveScript(Village, "L"), "id") = {2} /\ Len(History(Village, "L")) = 2
     /\ bound({"house"}) = {2} /\ bound({"keeper"}) = {2, 3} /\ bound({}) = {2}
     /\ \A t \in Tally(Village, 1) : t.turnout > One /\ t.yes > t.no
     /\ \A stored \in {<<>>, [supermajority_quorum |-> One]} :
          LET w == [Village EXCEPT !.settings = [k \in {"constitution"} |-> stored]]
          IN DOMAIN DefaultConstitution = DOMAIN Constitution(w)

(* Who was born of whom reads the same both ways; the newborn is no age in *)
(* its tick, and who never had a birth none ever; the dead are not of the  *)
(* population and stay in the family.                                      *)
ASSUME Kin ==
  LET born == [Village EXCEPT !.executing = {8}, !.entities = {[e EXCEPT !.birth = IF @ = {7} THEN {8} ELSE @] : e \in @}]
      all == Column(born.entities, "id")
  IN /\ \A a, b \in all : (a \in Children(born, b)) = (b \in Parents(born, a))
     /\ Age(born, "child", ExecutingTick(born)) = {0} /\ Age(born, "keeper", 8) = {}
     /\ Population(born) = Cardinality(all) - 1
     /\ DynastyCounts(born, "ann") = <<2, 2>> /\ OldestAge(born, "ann", LatestTick(born)) = {6}
     /\ DynastyUnlocks(born, "ann") = 0

(* The board is an order of all who ever owned somebody, the dead included *)
(* and the world's own beings not: a win outweighs any purse, what the     *)
(* dead still own is no money, and of two who lost everybody only the one  *)
(* an epoch struck out is called eliminated.                               *)
ASSUME Board ==
  LET Heir(e, user) == [id |-> e, active |-> FALSE, birth |-> {}, lifespan |-> {}, parents |-> {}, owner |-> {user}]
      w == [Village EXCEPT !.entities = @ \cup {Heir("b", "bob"), Heir("c", "cid")},
                           !.accounts = @ \cup {[id |-> "b", entity |-> "b", currency |-> "COIN", balance |-> 99]},
                           !.stamps = {[epoch |-> 1, user |-> "cid"]}, !.eliminated = {"bob"}]
      rows == Standings(w)
      first(user) == {r.user : r \in {x \in rows : \E y \in rows : y.user = user /\ Outranks(w, x, y)}}
  IN /\ first("cid") = {} /\ first("ann") = {"cid"} /\ first("bob") = {"cid", "ann"}
     /\ [u \in {"ann", "bob", "cid"} |-> {r.status : r \in {x \in rows : x.user = u}}]
          = [ann |-> {"active"}, bob |-> {"eliminated"}, cid |-> {"extinct"}]

(* A script hears what it did and what is loud, once each; who was dead as *)
(* the tick ended heard nothing, and nobody hears what was refused or the  *)
(* plumbing of the book.                                                   *)
ASSUME Hearsay ==
  LET Event(type, of, status, why) == [type |-> type, entity |-> {of}, status |-> status, reason |-> why]
      tick == <<Event("say", "house", "applied", ""), Event("combat", "wolf", "rejected", ""),
                Event("order_cancelled", "house", "applied", "superseded"),
                Event("order_cancelled", "keeper", "applied", "insufficient funds"),
                Event("start_process", "keeper", "applied", "")>>
      delivered == RecordDelivery(Village, 7, tick)
  IN /\ [e \in {"house", "child", "keeper", "wolf"} |-> ScriptFeed(delivered, 7, e, tick)]
          = [house |-> {1, 3, 4}, child |-> {1, 4}, keeper |-> {1, 4, 5}, wolf |-> {2}]
     /\ Len(ObservableEvents(tick)) = 2 /\ ScriptFeed(delivered, 8, "child", tick) = {}

(* The roads as a script measures them are the hours of the map, both      *)
(* ways, and there is no road over a mode no edge has.                     *)
ASSUME Measured ==
  /\ \A p, q \in Place :
       /\ DistanceTicks(Village, p, q, {}) = DistanceTicks(Village, q, p, {"WALK"})
       /\ DistanceTicks(Village, p, q, {"RAFT"}) = IF p = q THEN {0} ELSE {}
  /\ Away([p \in Place |-> CHOOSE h \in DistanceTicks(Village, "HEARTH", p, {}) : TRUE], "HEARTH")
  /\ Column(PublicFacilities(Village, {"HEARTH"}), "type") = {"FIRE", "STORAGE", "WOODPILE"}
  /\ QueryStored(Village, {"house"}, "WOOD") = {0} /\ QueryDropped(Village, {}, "WOOD") = {}
=============================================================================
