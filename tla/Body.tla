-------------------------------- MODULE Body --------------------------------
(***************************************************************************)
(* The body of a creature through the tick: the attacks of the night       *)
(* (combat.py), then the passes run_tick makes after the auctions: needs   *)
(* (needs.py), one condition breeding another and the deaths               *)
(* (conditions.py), the pressure of the dark (threats.py) and decay        *)
(* (goods.py); at the close of a round the fauna is renewed (spawns.py).   *)
(*                                                                         *)
(* Quantities are in quanta.  FOOD is the good the one need eats, TORCH    *)
(* the good whose bearer is LIT, WOUND and ILL are condition goods, and    *)
(* ILL is the one with a death threshold.                                  *)
(***************************************************************************)
EXTENDS Integers, Sequences, FiniteSets, Totals

CONSTANTS
  People,       \* creatures of the type the need is declared for
  Aging,        \* those of them with a birth tick and a lifespan
  Post,         \* an institution: it has no HITS stat and no needs
  Names,        \* the names the spawn program gives, in order, a bound
  Ground, Lair, \* places; Lair is the one the template names
  Heirs,        \* whom the estate rule may name
  Stat,         \* stat rows of each kind
  Rules,        \* COMBAT_RULES
  Need, Drip, Dark,  \* the need, the register row WOUND -> ILL, the threat
  Lethal, Lifespan,  \* incapacitates_at of ILL, lifespan of a person
  Program,      \* spawns.rules
  Cap,          \* max_holding of each good
  Day, Night,   \* ticks of a day, and which of its hours are dark
  SleepFor,     \* duration of the sleep recipe
  MaxDeeds      \* a bound: what is done in a tick, or between two

Beasts == {Names[i] : i \in DOMAIN Names}
Everyone == People \cup {Post} \cup Beasts
Kind(w) == IF w \in Beasts THEN "beast" ELSE IF w = Post THEN "post" ELSE "person"

ASSUME BodyAssumption ==
  /\ IsFiniteSet(People) /\ Names \in Seq(Beasts)
  /\ \A i, j \in DOMAIN Names : Names[i] = Names[j] => i = j
  /\ People \cap Beasts = {} /\ Post \notin People \cup Beasts
  /\ Aging \subseteq People /\ Heirs \subseteq Everyone /\ Lair \in Ground
  /\ \A k \in {"person", "post", "beast"} : {Stat[k].attack, Stat[k].defense, Stat[k].hits} \subseteq Nat
  /\ Stat["person"].hits > 0 /\ Stat["beast"].hits > 0
  /\ {Rules.bite, Rules.carcass, Rules.on_hit} \subseteq Nat
  /\ {Cap.food, Cap.torch, Cap.wound, Cap.ill} \subseteq Nat
  /\ {Need.day, Need.night, Drip.at, Lethal, Day, SleepFor} \subseteq Nat \ {0}
  /\ {Need.grant, Drip.quantity, Dark.rate, Dark.per_say} \subseteq Nat
  /\ {Lifespan, MaxDeeds, Program.max_alive, Program.up_to} \subseteq Nat
  /\ Night \subseteq 0..Day - 1

VARIABLES
  body,     \* status, age (-1: no lifespan or no birth tick) and holdings
  place,    \* location_place_id
  asleep,   \* completes_tick of the running SLEEP after the last tick begun, 0: none
  seeded,   \* history: sleepers whose outcome the committed events have drawn
  visited,  \* history: who an attempt found asleep, its outcome not drawn
  hour,     \* of the last tick begun
  phase,    \* "idle" between ticks, "deeds" while intents are resolved
  spoke,    \* whose say this tick has heard
  noise,    \* the speakers of the ticks a prowler remembers
  rolled,   \* the rolls drawn from the seed of the last tick begun
  told,     \* how many events of ticks tell of a death
  armed,    \* whether the world clock runs, and so intents are parked
  heir,     \* whom the estate rule names
  due,      \* a round is over and not closed
  deeds     \* what was done since the last tick began or ended

bodyVars == <<body, place, asleep, seeded, visited, hour, phase, spoke, noise, rolled, told, armed, heir, due, deeds>>

Creature(life, hits, food) ==
  [life |-> life, age |-> -1, hits |-> hits, food |-> food, torch |-> 0, wound |-> 0, ill |-> 0]
Lives(b, w) == b[w].life = "active"
EverBorn(b) == {w \in Beasts : b[w].life # "unborn"}
Clip(q, cap) == IF q > cap THEN cap ELSE q
IsNight == hour \in Night
Lit(b, w) == b[w].torch >= Rules.lit
Fightable(w) == w # Post   \* is_creature: the HITS stat

BodyInit ==
  /\ body = [w \in Everyone |-> IF w \in Beasts THEN Creature("unborn", 0, 0)
                                ELSE [Creature("active", Stat[Kind(w)].hits, 0) EXCEPT !.age = IF w \in Aging THEN 0 ELSE -1]]
  /\ place = [w \in Everyone |-> Lair]
  /\ asleep = [w \in Everyone |-> 0] /\ seeded = {} /\ visited = {}
  /\ hour = 0 /\ phase = "idle" /\ due = FALSE /\ deeds = 0
  /\ spoke = {} /\ noise = {}
  /\ rolled = [a \in {} |-> 0]
  /\ told = [w \in Everyone |-> 0]
  /\ armed \in BOOLEAN /\ heir \in Heirs

-----------------------------------------------------------------------------
(* Death and the estate.                                                   *)

Corpse(r) == [Creature("dead", 0, 0) EXCEPT !.age = r.age]

Inherits(r, x) == [r EXCEPT !.food = Clip(@ + x.food, Cap.food), !.torch = Clip(@ + x.torch, Cap.torch)]

Estate(b, S) ==
  LET food == [w \in S |-> b[w].food]  torch == [w \in S |-> b[w].torch]
  IN  [food |-> Total(food, S), torch |-> Total(torch, S)]

(* All of S are buried, by entity id.  What one leaves after another is    *)
(* clipped in the heir's hands as all of it would be at once; an heir who  *)
(* is himself of S ends with nothing, before or after the others.          *)
Buried(b, S) ==
  [w \in Everyone |-> IF w \in S THEN Corpse(b[w])
                      ELSE IF w = heir /\ Lives(b, w) THEN Inherits(b[w], Estate(b, S)) ELSE b[w]]

-----------------------------------------------------------------------------
(* The fight.  A roll stands for those below the odds of a miss, of a hit  *)
(* and of a deep cut; an attempt repeated within a tick draws it again     *)
(* from the same seed.                                                     *)

Penalty(b, w) == IF b[w].wound >= Rules.tired THEN 1 ELSE 0
Edge(b, a, d) == (Stat[Kind(a)].attack - Penalty(b, a)) - (Stat[Kind(d)].defense - Penalty(b, d))
Odds(n) == LET p == Rules.base_hit + Rules.per_point * n
           IN  IF p > 95 THEN 95 ELSE IF p < 5 THEN 5 ELSE p
Rolls == {0, 92, 99}
Hits(b, a, d, roll) == roll < Odds(Edge(b, a, d))
Damage(b, a, d, roll) ==
  (IF Edge(b, a, d) > 1 THEN Edge(b, a, d) ELSE 1) + (IF roll >= 90 THEN 1 ELSE 0)

Eats(r, n) == [r EXCEPT !.food = Clip(@ + n, Cap.food)]
Cut(r, n) == [r EXCEPT !.hits = IF @ > n THEN @ - n ELSE 0, !.wound = Clip(@ + Rules.on_hit, Cap.wound)]

Bitten(b, a, d, roll) == [b EXCEPT ![d] = Cut(@, Damage(b, a, d, roll)), ![a] = Eats(@, Rules.bite)]

(* A victor with hands takes the goods before the estate is settled.       *)
Seized(b, a, d) ==
  IF Stat[Kind(a)].carry
  THEN [b EXCEPT ![a] = Inherits(@, b[d]), ![d] = [@ EXCEPT !.food = 0, !.torch = 0]]
  ELSE b

Killed(b, a, d) == [Buried(Seized(b, a, d), {d}) EXCEPT ![a] = Eats(@, Rules.carcass)]

Struck(b, a, d, roll) ==
  LET bitten == Bitten(b, a, d, roll)
  IN  IF ~Hits(b, a, d, roll) THEN b
      ELSE IF bitten[d].hits > 0 THEN bitten ELSE Killed(bitten, a, d)

(* completes_tick less next_tick_number, which is the running tick while   *)
(* intents are resolved and the coming one between ticks.                  *)
ToGo(w) == asleep[w] - (IF phase = "idle" THEN 1 ELSE 0)

(* Mutant: cancel_process lets go of what completes with the next tick.    *)
WokenLate(d) == IF ToGo(d) >= 0 THEN [asleep EXCEPT ![d] = 0] ELSE asleep

(* _interrupt_sleep: cancel_process refuses once completes_tick is no      *)
(* later than the next tick, and the sleep then finishes.                  *)
Woken(d) == IF ToGo(d) > 0 THEN [asleep EXCEPT ![d] = 0] ELSE asleep

(* pick_prey: any ACTIVE individual, beasts among them.                    *)
AtHand(a) ==
  {w \in Everyone \ {a, Post} : Lives(body, w) /\ place[w] = place[a]}
Prey(a) == IF AtHand(a) \cap noise # {} THEN AtHand(a) \cap noise ELSE AtHand(a)

MayFight(a, d) ==
  /\ Lives(body, a) /\ Lives(body, d) /\ Fightable(d) /\ a # d
  /\ place[a] = place[d]
  /\ IsNight

(* run_tick lifts the nested death into its stream; submit_intent, which   *)
(* resolves between ticks, has no stream.                                  *)
Told(a, d, after) ==
  IF after[d].life = "dead" /\ phase = "deeds" THEN [told EXCEPT ![d] = @ + 1] ELSE told

Attack(a, d) ==
  /\ MayFight(a, d)
  /\ IF Lit(body, d)
     THEN UNCHANGED <<body, told, rolled>> /\ asleep' = Woken(d)
     ELSE \E roll \in IF <<a, d>> \in DOMAIN rolled THEN {rolled[<<a, d>>]} ELSE Rolls :
            LET after == Struck(body, a, d, roll)
            IN  /\ body' = after
                /\ told' = Told(a, d, after)
                /\ asleep' = IF after[d].life = "dead" THEN [asleep EXCEPT ![d] = 0] ELSE Woken(d)
                /\ rolled' = [p \in DOMAIN rolled \cup {<<a, d>>} |-> IF p = <<a, d>> THEN roll ELSE rolled[p]]
  /\ visited' = IF asleep[d] > 0 /\ d \notin seeded THEN visited \cup {d} ELSE visited
  /\ UNCHANGED <<place, seeded, hour, phase, spoke, noise, armed, heir, due>>

(* By a script or from the outbox within the tick, or at once when the     *)
(* world clock is off.                                                     *)
MayAct == phase = "deeds" \/ (phase = "idle" /\ ~armed)

Strike(a, d) == MayAct /\ Attack(a, d)

Prowl(a) == MayAct /\ \E d \in Prey(a) : Attack(a, d)

-----------------------------------------------------------------------------
(* What else is done in the night.                                         *)

Say(w) ==
  /\ phase = "deeds" /\ w \in People /\ w \notin spoke
  /\ spoke' = spoke \cup {w}
  /\ UNCHANGED <<body, place, asleep, seeded, visited, hour, phase, noise, rolled, told, armed, heir, due>>

Sleep(w) ==
  /\ MayAct /\ w \in People /\ Lives(body, w) /\ asleep[w] = 0
  /\ asleep' = [asleep EXCEPT ![w] = SleepFor + (IF phase = "idle" THEN 1 ELSE 0)]
  /\ visited' = visited \ {w}
  /\ UNCHANGED <<body, place, seeded, hour, phase, spoke, noise, rolled, told, armed, heir, due>>

(* External: a recipe gives food or a torch, a road leads elsewhere.       *)
Gain(w) ==
  /\ phase = "deeds" /\ w \in People /\ Lives(body, w)
  /\ \/ body' = [body EXCEPT ![w].food = Clip(@ + 2, Cap.food)] /\ UNCHANGED place
     \/ body' = [body EXCEPT ![w].torch = Cap.torch] /\ UNCHANGED place
     \/ \E g \in Ground : place' = [place EXCEPT ![w] = g] /\ UNCHANGED body
  /\ UNCHANGED <<asleep, seeded, visited, hour, phase, spoke, noise, rolled, told, armed, heir, due>>

-----------------------------------------------------------------------------
(* The passes that end a tick, each over everybody.                        *)

Draw == IF IsNight THEN Need.night ELSE Need.day

Granted(eaten) == (Need.grant * (Draw - eaten)) \div Draw

Fed(w, r) ==
  IF w \notin People THEN r
  ELSE LET eaten == Clip(r.food, Draw)
       IN  [r EXCEPT !.food = @ - eaten, !.ill = @ + Granted(eaten)]

Festered(r) ==
  IF r.wound < Drip.at THEN r ELSE [r EXCEPT !.ill = Clip(@ + Drip.quantity, Cap.ill)]

Pressure(w, r) ==
  LET rate == Dark.rate + (IF w \in spoke THEN Dark.per_say ELSE 0)
  IN  IF r.torch >= Rules.lit THEN (rate + 1) \div 2 ELSE rate

Pressed(w, r) ==
  IF IsNight /\ w \in People /\ place[w] = Dark.place
  THEN [r EXCEPT !.ill = @ + Pressure(w, r)] ELSE r

Left(q, per) == LET lost == (2 * q + per) \div (2 * per)
                IN  IF lost = 0 THEN 0 ELSE q - lost

Decayed(r) == [r EXCEPT !.torch = Left(@, 2), !.wound = Left(@, 2), !.ill = Left(@, 4)]

(* The dead and the unborn neither eat nor suffer; what they hold rots.    *)
Worn(b) == [w \in Everyone |->
  Decayed(IF b[w].life = "active" THEN Pressed(w, Festered(Fed(w, b[w]))) ELSE b[w])]

Sick(b) == {w \in Everyone \ {Post} : Lives(b, w) /\ b[w].ill >= Lethal}

Old(b) == {w \in Everyone : Lives(b, w) /\ b[w].age >= Lifespan}

(* The tick commits with what its passes left, and one event a death.      *)
Dusk ==
  /\ phase = "deeds"
  /\ LET spent == Worn(body)
         culled == Buried(spent, Sick(spent))
         aged == Old(culled)
     IN  /\ body' = Buried(culled, aged)
         /\ told' = [w \in Everyone |-> told[w] + (IF w \in Sick(spent) THEN 1 ELSE 0) + (IF w \in aged THEN 1 ELSE 0)]
         /\ asleep' = [w \in Everyone |-> IF w \in Sick(spent) \cup aged THEN 0 ELSE asleep[w]]
         /\ seeded' = {w \in Everyone : asleep'[w] = 1}   \* the seed of the next tick is its events
  /\ phase' = "idle"
  /\ noise' = spoke /\ spoke' = {}
  /\ due' = (hour = Day - 1)
  /\ deeds' = 0
  /\ rolled' = IF armed THEN [a \in {} |-> 0] ELSE rolled   \* read again only between ticks
  /\ UNCHANGED <<place, visited, hour, armed, heir>>

(* run_tick opens: the sleeps that are due complete, a year older.         *)
Dawn ==
  /\ phase = "idle" /\ ~due
  /\ phase' = "deeds"
  /\ hour' = (hour + 1) % Day
  /\ rolled' = [a \in {} |-> 0]
  /\ asleep' = [w \in Everyone |-> IF asleep[w] = 0 THEN 0 ELSE asleep[w] - 1]
  /\ seeded' = {}
  /\ body' = [w \in Everyone |-> IF body[w].age \in 0..Lifespan - 1 THEN [body[w] EXCEPT !.age = @ + 1] ELSE body[w]]
  /\ deeds' = 0
  /\ UNCHANGED <<place, visited, spoke, noise, told, armed, heir, due>>

(* Mutant: a name is numbered from the living.                             *)
NumberedAlive(b) == Cardinality({w \in Beasts : Lives(b, w)})

Numbered(b) == Cardinality(EverBorn(b))

(* apply_on_round.                                                         *)
Renew ==
  /\ phase = "idle" /\ due
  /\ LET alive == Cardinality({w \in Beasts : Lives(body, w)})
         room == Program.max_alive - alive
         n == IF room < Program.up_to THEN room ELSE Program.up_to
         litter == {Names[i] : i \in (Numbered(body) + 1..Numbered(body) + n) \cap DOMAIN Names}
     IN  /\ body' = [w \in Everyone |-> IF w \in litter THEN Creature("active", Stat["beast"].hits, 0) ELSE body[w]]
         /\ place' = [w \in Everyone |-> IF w \in litter THEN Lair ELSE place[w]]
  /\ due' = FALSE
  /\ UNCHANGED <<asleep, seeded, visited, hour, phase, spoke, noise, rolled, told, armed, heir, deeds>>

BodyNext ==
  \/ Dawn \/ Dusk \/ Renew
  \/ /\ deeds < MaxDeeds /\ deeds' = deeds + 1
     /\ \/ \E a, d \in Everyone : Strike(a, d)
        \/ \E w \in Everyone : Prowl(w) \/ Say(w) \/ Sleep(w) \/ Gain(w)

BodySpec == BodyInit /\ [][BodyNext]_bodyVars

-----------------------------------------------------------------------------
(* Types.                                                                  *)
Being ==
  [life : {"unborn", "active", "dead"}, age : -1..Lifespan, hits : Nat,
   food : 0..Cap.food, torch : 0..Cap.torch, wound : 0..Cap.wound, ill : Nat]

BodyTypeOK ==
  /\ body \in [Everyone -> Being]
  /\ place \in [Everyone -> Ground] /\ asleep \in [Everyone -> 0..SleepFor + 1]
  /\ seeded \subseteq Everyone /\ visited \subseteq Everyone
  /\ hour \in 0..Day - 1 /\ phase \in {"idle", "deeds"}
  /\ spoke \subseteq Everyone /\ noise \subseteq Everyone
  /\ DOMAIN rolled \subseteq Everyone \X Everyone
  /\ told \in [Everyone -> Nat] /\ armed \in BOOLEAN /\ heir \in Heirs /\ due \in BOOLEAN /\ deeds \in 0..MaxDeeds

(* Nobody stands with a mortal body: who is ACTIVE after a tick has hits   *)
(* left and is below the thresholds, and who is not has nothing, sleeps    *)
(* not and is struck no more (the passes and the estate of _incapacitate). *)
TheBodySettles ==
  /\ \A w \in Everyone : ~Lives(body, w) =>
       /\ asleep[w] = 0
       /\ \A f \in {"hits", "food", "torch", "wound", "ill"} : body[w][f] = 0
  /\ phase = "idle" => \A w \in Everyone \ {Post} : Lives(body, w) => body[w].hits > 0 /\ body[w].ill < Lethal

(* With the world clock on, a death is told by one event of one tick,      *)
(* whether of wounds, of illness or of age (tick.py lifts the nested one). *)
DeathToldOnce == armed => \A w \in Everyone : told[w] = (IF body[w].life = "dead" THEN 1 ELSE 0)

(* tick.py:271 has a death by HITS "as visible as a death by hunger".      *)
DeathAsVisible == \A w \in Everyone : body[w].life = "dead" => told[w] > 0

(* A life is lived once: a name given is not given again.                  *)
NobodyRises ==
  \A w \in Everyone : body'[w].life # body[w].life =>
     <<body[w].life, body'[w].life>> \in {<<"unborn", "active">>, <<"active", "dead">>}

(* A kill makes no more food than its bite and its carcass: what the dead  *)
(* carried goes to the victor or by the estate rule, never to both.        *)
Fare(b) == LET food == [w \in Everyone |-> b[w].food] IN Total(food, Everyone)
KillsMakeNothing ==
  (\E w \in Everyone : body'[w].hits < body[w].hits) =>
     Fare(body') <= Fare(body) + Rules.bite + Rules.carcass

(* A death is final: the body is emptied, one event tells of it, the name  *)
(* is not given again and a kill feeds no two bodies with one (combat.py,  *)
(* _incapacitate, run_tick and ever_count).                                *)
DeathIsFinal ==
  [][BodyTypeOK' /\ TheBodySettles' /\ DeathToldOnce' /\ NobodyRises /\ KillsMakeNothing]_bodyVars

(* Sleep and the seed of its outcome.  Whom an attempt found asleep, be it *)
(* landed, missed or turned away, is awake until he lies down again; but a *)
(* sleep whose outcome is drawn, which somebody could cancel for knowing   *)
(* it, finishes with the tick unless the sleeper dies (combat.py,          *)
(* _interrupt_sleep, on cancel_process; rng.py, the commitment).           *)
NoOutcomeIsDodged ==
  /\ \A w \in seeded : Lives(body, w) => asleep[w] = 1
  /\ \A w \in visited : asleep[w] = 0
=============================================================================
