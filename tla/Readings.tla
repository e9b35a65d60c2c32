------------------------------ MODULE Readings ------------------------------
(***************************************************************************)
(* What the engine reads off a body: how its conditions tax its work, what *)
(* it draws of a need this hour, which names of the conditions register it *)
(* bears, and what it is worth in a fight.                                 *)
(*                                                                         *)
(* These are projections: every pass derives them anew from holdings, the  *)
(* clock and a few stamps, so they are operators here and no state.  A     *)
(* body is a record of what they read: [id, held, stats, place, lit, omit, *)
(* rates], `held' giving the quanta of each good it has, `place' and `lit' *)
(* (the tick its flame was last seen) sets of at most one value.           *)
(***************************************************************************)
EXTENDS Catalogue
LOCAL INSTANCE FiniteSetsExt

Of(body, s) == IF s \in DOMAIN body.held THEN body.held[s] ELSE 0
Bonus(bonuses, body) == MapThenSumSet(LAMBDA s : bonuses[s] * Of(body, s), DOMAIN bonuses)

-----------------------------------------------------------------------------
(* The clock: an hour a tick, the seasons of the year in turn.             *)
TicksPerDay == 24
Daylight == 6..19
Seasons == <<"SPRING", "SUMMER", "AUTUMN", "WINTER">>

HourOf(tick) == (tick - 1) % TicksPerDay
DayOf(tick) == (tick - 1) \div TicksPerDay + 1
Dark(tick) == HourOf(tick) \notin Daylight
SeasonOf(tick, days) == Seasons[(((DayOf(tick) - 1) \div days) % Len(Seasons)) + 1]
ClockFacts(tick, days) ==
  [tick |-> tick, day |-> DayOf(tick), hour |-> HourOf(tick), night |-> Dark(tick),
   season |-> SeasonOf(tick, days), seasonDay |-> ((DayOf(tick) - 1) % days) + 1]

-----------------------------------------------------------------------------
(* What a condition does to work.  Factors are of One and their product is *)
(* exact; a quantity is cut, never rounded, so that a taxed ration does    *)
(* not come back up over a threshold.                                      *)
Product(factor, S) ==
  [of |-> MapThenFoldSet(LAMBDA a, b : a * b, 1, LAMBDA g : factor[g],
                         LAMBDA T : CHOOSE g \in T : TRUE, S),
   in |-> One^Cardinality(S)]

HeldModifiers(goods, body) == {g \in goods : g.pattern # {} /\ Of(body, g.symbol) > 0}
EffectiveFactor(goods, body, s) ==
  LET taxing == {g \in HeldModifiers(goods, body) : \E p \in g.pattern : s \in p}
  IN Product([g \in taxing |-> CHOOSE f \in g.factor : TRUE], taxing)
EffectiveQuantity(q, f) == (q * f.of) \div f.in

(* The conversion of effort into output, read at completion.               *)
HeldProductivity(goods, body) ==
  LET dulling == {g \in goods : g.productivity # {} /\ Of(body, g.symbol) > 0}
  IN Product([g \in dulling |-> CHOOSE p \in g.productivity : TRUE], dulling)

-----------------------------------------------------------------------------
(* What a need draws.  By night the rate of the season's night goes before *)
(* the night's; the season's own is next, and the plain rate last.         *)
Rate(need, season, night) ==
  LET of(rates) == {r[2] : r \in {x \in rates : x[1] = season}}
      ladder == IF night THEN <<of(need.seasonNight), need.night, of(need.season), {need.draw}>>
                         ELSE <<of(need.season), {need.draw}>>
      rung == CHOOSE i \in DOMAIN ladder :
                ladder[i] # {} /\ \A j \in 1..i - 1 : ladder[j] = {}
  IN CHOOSE q \in ladder[rung] : TRUE

(* What this body draws: nothing of a need its profile leaves out, and     *)
(* what it holds adds to or takes from the rest.                           *)
EffectiveDraw(need, body, tick, days) ==
  LET q == Rate(need, SeasonOf(tick, days), Dark(tick))
             * (IF need.code \in DOMAIN body.rates THEN body.rates[need.code] ELSE One)
      scale == MapThenFoldSet(LAMBDA a, b : a * b, 1,
                              LAMBDA d : One * One + d[2] * Of(body, d[1]),
                              LAMBDA T : CHOOSE d \in T : TRUE, need.body)
      unit == One * (One * One)^Cardinality(need.body)
  IN IF need.code \in body.omit THEN {}
     ELSE {IF need.body # {} /\ scale <= 0 THEN 0 ELSE (q * scale + unit \div 2) \div unit}

(* Only a need met in full scores One.                                     *)
Satisfaction(consumed, required) ==
  IF consumed >= required THEN One ELSE (consumed * One) \div required

-----------------------------------------------------------------------------
(* The conditions register: the names a world declares, each with the way  *)
(* it is derived, beside the conditions among its goods.                   *)
Meets(body, floors) == \A s \in DOMAIN floors : Of(body, s) >= floors[s]

(* The floors a memory reads: those of the name it comes after.            *)
Remembered(rules, rule) ==
  {rules[n].floors : n \in {m \in rule.after \cap DOMAIN rules :
                              rules[m].by = "holding" /\ DOMAIN rules[m].floors # {}}}

Bears(rule, rules, body, fires, tick) ==
  \/ rule.by = "holding" /\ Meets(body, rule.floors)
  \/ /\ rule.by = "lit_within"
     /\ \/ \E last \in body.lit : tick - last \in 0..rule.window
        \/ \E floors \in Remembered(rules, rule) : Meets(body, floors)
  \/ /\ rule.by = "place_fuel"
     /\ \E f \in fires : f.type = rule.type /\ f.place \in body.place /\ f.fuel >= rule.floor

(* Acts of the last ticks that were loud and came through; this tick's are *)
(* heard in the next.                                                      *)
LoudActs(acts, who, window, tick) ==
  Cardinality({i \in DOMAIN acts : /\ acts[i].who = who /\ acts[i].loud /\ acts[i].applied
                                   /\ acts[i].tick \in tick - window..tick - 1})

Ailments(goods) == {g.symbol : g \in {x \in goods : IsCondition(x)}}

ActiveConditions(rules, goods, body, fires, acts, tick) ==
  {n \in DOMAIN rules : Bears(rules[n], rules, body, fires, tick)}
    \cup {n \in DOMAIN rules : rules[n].by = "loud_within"
                               /\ LoudActs(acts, body.id, rules[n].window, tick) > 0}
    \cup {s \in Ailments(goods) : Of(body, s) > 0}

(* The register's one write, after the rot: who still meets the floors a   *)
(* memory reads is stamped with the tick.                                  *)
StampLit(rules, body, tick) ==
  LET memories == {rules[n] : n \in {m \in DOMAIN rules : rules[m].by = "lit_within"}}
  IN IF \E rule \in memories : \E floors \in Remembered(rules, rule) : Meets(body, floors)
     THEN [body EXCEPT !.lit = {tick}] ELSE body

(* Which of the living bear a condition, and how strongly.                 *)
Carriers(rules, goods, bodies, fires, acts, c, tick) ==
  IF c \in DOMAIN rules /\ rules[c].by = "loud_within"
  THEN LET heard(w) == LoudActs(acts, w, rules[c].window, tick)
       IN {<<w, heard(w)>> : w \in {acts[i].who : i \in {j \in DOMAIN acts : heard(acts[j].who) > 0}}}
  ELSE {<<b.id, 1>> : b \in {x \in bodies :
           \/ c \in DOMAIN rules /\ Bears(rules[c], rules, x, fires, tick)
           \/ c \in Ailments(goods) /\ Of(x, c) > 0}}

-----------------------------------------------------------------------------
(* Fighting strength in quanta, a bonus a unit of each arm held, less what *)
(* a condition at its floor dulls.                                         *)
StatPenalty(rules, body, stat) ==
  MapThenSumSet(LAMBDA c : rules.penalties[c][stat],
                {c \in DOMAIN rules.penalties :
                   Of(body, c) >= rules.penalties[c].floor
                     /\ stat \in DOMAIN rules.penalties[c]})
Strength(rules, body, stat, arms) ==
  (IF stat \in DOMAIN body.stats THEN body.stats[stat] ELSE 0)
    + Bonus(arms, body) + StatPenalty(rules, body, stat)
EffectiveAttack(rules, body) == Strength(rules, body, "ATTACK", rules.weapons)
EffectiveDefense(rules, body) == Strength(rules, body, "DEFENSE", rules.armor)

(* The chance of a hundred in quanta, the roll of ten thousand that makes  *)
(* it, and what a landed blow takes: the last tenth opens a deep cut.      *)
HitChance(rules, attack, defense) ==
  LET odds == One * rules.baseHit + rules.perPoint * (attack - defense)
  IN IF odds < 5 * One THEN 5 * One ELSE IF odds > 95 * One THEN 95 * One ELSE odds
Lands(chance, roll) == roll * (One \div 100) < chance
Blow(attack, defense, roll) ==
  (IF attack - defense < One THEN One ELSE attack - defense)
    + (IF roll >= 9000 THEN One ELSE 0)

(* What turns an attacker at the door: a name of the register, else a      *)
(* holding at its floor.                                                   *)
Deterred(rules, body, active) ==
  \E key \in DOMAIN rules.deterrence : key \in active \/ Of(body, key) >= rules.deterrence[key]

-----------------------------------------------------------------------------
(* The road.  Everything carried weighs but what a good exempts; each leg  *)
(* has the limit of its template, else the walker's own, else none; and    *)
(* the tightest of those that are passed refuses the departure.            *)
Cargo(goods, body) ==
  LET light == {g.symbol : g \in {x \in goods : x.exempt}}
  IN MapThenSumSet(LAMBDA s : body.held[s], DOMAIN body.held \ light)
LegCapacity(recipe, body) ==
  IF recipe.carry # {} \/ "CARRY" \notin DOMAIN body.stats
  THEN recipe.carry ELSE {body.stats.CARRY}
Refusing(goods, body, legs) ==
  LET passed == {c \in UNION {LegCapacity(r, body) : r \in legs} : Cargo(goods, body) > c}
  IN {c \in passed : \A d \in passed : c <= d}

(* The ground: facilities of a kind at a place or where a body stands, the *)
(* pool a thing dropped there joins, and those a body may use: its own,    *)
(* and only where it has none the public ones.                             *)
Sited(facilities, place, kind) == {f \in facilities : f.kind = kind /\ place \in f.place}
Near(facilities, body, kind) == UNION {Sited(facilities, p, kind) : p \in body.place}
Pool(facilities, body, s) ==
  LET pile == Near(facilities, body, "WOODPILE")
  IN IF s = "WOOD" /\ pile # {} THEN pile ELSE Near(facilities, body, "DROP")

HasPublic(facilities, kind) == {f \in facilities : f.kind = kind /\ f.access = "PLACE"}
Usable(facilities, who, kind) ==
  LET own == {f \in facilities : f.kind = kind /\ f.owner = {who}}
  IN IF own # {} THEN own ELSE HasPublic(facilities, kind)

(* What a body reads of a shelf: nothing where none stands, naught where   *)
(* it is bare.                                                             *)
OnShelf(at, rows, owner, s) ==
  LET of(f) == {r.quantity : r \in {x \in rows : <<x.facility, x.owner, x.symbol>> = <<f, owner, s>>}}
  IN UNION {IF of(f) = {} THEN {0} ELSE of(f) : f \in at}
Dropped(facilities, rows, body, s) == OnShelf(Pool(facilities, body, s), rows, Everybody, s)
Stored(facilities, rows, body, s) ==
  OnShelf(Near(facilities, body, "STORAGE"), rows, body.id, s)

-----------------------------------------------------------------------------
(* The fauna: one program or several, each called by its own rounds up to  *)
(* its own number, and the numeral that tells a beast from the dead.       *)
Called(program, round) ==
  round >= program.from /\ (round - program.from) % program.every = 0
Litter(program, alive) ==
  LET room == program.max - alive
  IN IF room < 0 THEN 0 ELSE IF room < program.upTo THEN room ELSE program.upTo

Numerals ==
  <<<<1000, <<"M">>>>, <<900, <<"C", "M">>>>, <<500, <<"D">>>>, <<400, <<"C", "D">>>>,
    <<100, <<"C">>>>, <<90, <<"X", "C">>>>, <<50, <<"L">>>>, <<40, <<"X", "L">>>>,
    <<10, <<"X">>>>, <<9, <<"I", "X">>>>, <<5, <<"V">>>>, <<4, <<"I", "V">>>>, <<1, <<"I">>>>>>
Roman(n) ==
  LET write[k \in Nat, i \in 1..Len(Numerals) + 1] ==
        IF i > Len(Numerals) THEN <<>>
        ELSE IF k < Numerals[i][1] THEN write[k, i + 1]
        ELSE Numerals[i][2] \o write[k - Numerals[i][1], i]
  IN IF n = 0 THEN <<"I">> ELSE write[n, 1]
=============================================================================
