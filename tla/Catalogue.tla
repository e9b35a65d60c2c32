------------------------------ MODULE Catalogue ------------------------------
(***************************************************************************)
(* What a world may declare: the content rows a pack or the API installs   *)
(* (tables of engine/econengine/models) and what the create_* services     *)
(* refuse.  The state machines beside this module take such rows as        *)
(* constants, and no pass of the engine checks them again: that a world    *)
(* they are checked on can be installed is said with these operators.      *)
(*                                                                         *)
(* A number counts quanta of 0.0001, as the services round it; a nullable  *)
(* column is a set of at most one value; a key stands for its upper-case   *)
(* form; names, descriptions, stamps and pack ids are left out.  `...Row'  *)
(* is a table's columns; `May...' says whether a service takes a row       *)
(* beside the rows `had' of its table.                                     *)
(***************************************************************************)
EXTENDS Integers, Sequences, FiniteSets

One == 10000
Optional(S) == SUBSET S
AtMostOne(row, columns) == \A c \in columns : Cardinality(row[c]) <= 1
EntityType == {"individual", "business", "bank", "government"}
Season == {"SPRING", "SUMMER", "AUTUMN", "WINTER"}
Access == {"OWNER", "PLACE"}

Unclaimed(had, key, row) == \A r \in had : r[key] # row[key]
AllPositive(amounts) == \A s \in DOMAIN amounts : amounts[s] > 0

(* Every row of a table was taken beside the others.                       *)
Installed(rows, May(_, _)) == \A r \in rows : May(rows \ {r}, r)

-----------------------------------------------------------------------------
(* Goods.  A good with a pattern it modifies or a holding that kills is a  *)
(* condition; only a condition may tax the work of who holds it.           *)
GoodRow(Symbol) ==
  [symbol : Symbol, decay : Int, issue : Int, issueTo : Optional(EntityType),
   daylight : BOOLEAN, pattern : Optional(SUBSET Symbol), factor : Optional(Int),
   lethal : Optional(Int), productivity : Optional(Int), cap : Optional(Int),
   exempt : BOOLEAN]

IsCondition(g) == g.pattern # {} \/ g.lethal # {}

MayCreateGood(had, g) ==
  /\ AtMostOne(g, {"issueTo", "pattern", "factor", "lethal", "productivity", "cap"})
  /\ Unclaimed(had, "symbol", g)
  /\ g.decay \in 0..One
  /\ g.issue >= 0
  /\ \A cap \in g.cap : cap > 0 /\ cap >= g.issue
  /\ (g.pattern = {}) = (g.factor = {})
  /\ \A f \in g.factor : f >= 0
  /\ \A q \in g.lethal : q > 0
  /\ \A p \in g.productivity : p \in 0..One /\ IsCondition(g)

-----------------------------------------------------------------------------
(* Needs.  `season' and `seasonNight' override the draw of some seasons,   *)
(* `body' scales it by what the body holds.                                *)
Draws == SUBSET (Season \X Int)
NeedRow(Symbol) ==
  [code : Symbol, entity : Optional(EntityType), draw : Int, night : Optional(Int),
   season : Draws, seasonNight : Draws, body : SUBSET (Symbol \X Int),
   satisfiers : SUBSET Symbol, condition : Optional(Symbol), grant : Int,
   priority : Int]

(* What a unit of a good held adds to or takes from the draw.              *)
Modifiers(deltas) == \A d \in deltas : d[2] # 0

MayCreateNeed(had, n) ==
  /\ AtMostOne(n, {"entity", "night", "condition"})
  /\ Unclaimed(had, "code", n)
  /\ n.draw > 0
  /\ n.satisfiers # {}
  /\ (n.condition = {}) = (n.grant <= 0)
  /\ \A q \in n.night : q > 0
  /\ \A d \in n.season \cup n.seasonNight : d[2] > 0
  /\ Modifiers(n.body)

(* How one entity departs from the common body: needs it does not have,    *)
(* and rates it has them at.                                               *)
MayProfile(profile) ==
  \A c \in DOMAIN profile.rates : profile.rates[c] \in 1..10 * One

(* The score of one entity on one need at the end of a tick.               *)
NeedScore == 0..One

-----------------------------------------------------------------------------
(* The map.                                                                *)
PlaceRow(Key, PlaceKind) == [key : Key, kind : PlaceKind]
MayCreatePlace(had, p) == Unclaimed(had, "key", p)

RoadRow(Key, Mode) ==
  [from : Key, to : Key, mode : Mode, cost : Int, both : BOOLEAN]
MayCreateEdge(map, had, e) ==
  /\ {e.from, e.to} \subseteq map
  /\ e.cost >= 1
  /\ \A r \in had : \/ <<r.from, r.to>> # <<e.from, e.to>>
                    \/ <<r.mode, r.both>> # <<e.mode, e.both>>

(* A mode can be travelled by where its template is installed and leaves   *)
(* the time of a hop to the road.                                          *)
TravelTemplate(recipe) == recipe # {} /\ \A r \in recipe : r.duration # 0

(* What stands nowhere (`place' empty) is everywhere: a market open to all,*)
(* a threat in every dark.                                                 *)
SitedOn(map, place) == place \subseteq map

MarketRow(Symbol, Key) == [symbol : Symbol, currency : Symbol, place : Optional(Key)]
MayCreateMarket(map, had, m) == Unclaimed(had, "symbol", m) /\ SitedOn(map, m.place)

ThreatRow(Symbol, Key) ==
  [code : Symbol, entity : Optional(EntityType), condition : Symbol, ambient : Int,
   perSay : Int, deterrent : Optional(Symbol), deterredAt : Int, factor : Int,
   place : Optional(Key)]
MayCreateThreat(map, had, t) ==
  /\ AtMostOne(t, {"entity", "deterrent", "place"})
  /\ Unclaimed(had, "code", t)
  /\ t.ambient > 0 /\ t.perSay >= 0
  /\ t.factor \in 1..One
  /\ t.deterrent # {} => t.deterredAt > 0 /\ t.factor < One
  /\ SitedOn(map, t.place)

-----------------------------------------------------------------------------
(* Land: parcels, what is built on them and what lies in them.             *)
MayCreateParcel(map, p) == SitedOn(map, p.place)

MayAddFacility(f) ==
  /\ f.access \in Access
  /\ f.capacity >= 1
  /\ f.fuel >= 0 /\ f.burn >= 0
  /\ \A cap \in f.fuelCap : cap >= f.fuel

MayAddDeposit(d) ==
  /\ d.quantity >= 0 /\ d.regen >= 0
  /\ \A cap \in d.cap : cap >= d.quantity
  /\ d.regen > 0 => d.cap # {}

(* What lies on a facility's shelf: somebody's own, or anybody's.          *)
Everybody == "*"
ShelfRow(Facility, Body, Symbol) ==
  [facility : Facility, owner : Body \cup {Everybody}, symbol : Symbol, quantity : Nat]

-----------------------------------------------------------------------------
(* Technologies.  A prerequisite must be a row already, so the tech graph  *)
(* is acyclic by the order of its installation, whatever a pack declares.  *)
TechScope == {"entity", "world"}
TechnologyRow(Code) == [code : Code, scope : TechScope, needs : SUBSET Code]
MayCreateTechnology(had, t) ==
  Unclaimed(had, "code", t) /\ t.needs \subseteq {r.code : r \in had}

(* What of a declaration can be installed, in whatever order.              *)
Installable(needs) ==
  LET after[done \in SUBSET DOMAIN needs] ==
        LET more == {t \in DOMAIN needs : needs[t] \subseteq done}
        IN IF more = done THEN done ELSE after[more]
  IN after[{}]

(* An unlock is had by one entity or, with no holder, by the world.        *)
UnlockRow(Code, Body) == [technology : Code, holder : Optional(Body)]
EntityUnlocks(unlocks, e) == {u.technology : u \in {v \in unlocks : v.holder \subseteq {e}}}

-----------------------------------------------------------------------------
(* Recipes.  What is drawn at the start and by the tick, what must be held *)
(* or lie in the ground, what a completion or one of its branches credits, *)
(* the technologies it wants and those it teaches.                         *)
Amounts(rows, Symbol) == DOMAIN rows \subseteq Symbol /\ \A s \in DOMAIN rows : rows[s] \in Int
IsRecipe(r, Symbol, Code) ==
  /\ \A rows \in {r.in, r.hourly, r.out, r.tools, r.ground} : Amounts(rows, Symbol)
  /\ \A i \in DOMAIN r.branches :
       r.branches[i].weight \in Int /\ Amounts(r.branches[i].out, Symbol)
  /\ r.requires \cup r.unlocks \subseteq Code

(* Nothing but a travel template may do nothing at all.                    *)
MayCreateRecipe(had, techs, r) ==
  /\ Unclaimed(had, "code", r)
  /\ r.duration >= 0
  /\ \A q \in r.carry \cup r.stokes \cup r.cost : q > 0
  /\ r.effect \in {"none", "yield", "success"}
  /\ r.effect = "success" => Len(r.branches) >= 2
  /\ DOMAIN r.out = {} \/ r.branches = <<>>
  /\ \/ DOMAIN r.in \cup DOMAIN r.out \cup r.unlocks \cup r.builds \cup r.stokes # {}
     \/ r.branches # <<>> \/ r.travels
  /\ r.requires \cup r.unlocks \subseteq techs
  /\ AllPositive(r.in) /\ AllPositive(r.out) /\ AllPositive(r.tools)
  /\ AllPositive(r.ground) /\ AllPositive(r.hourly)
  /\ \A i \in DOMAIN r.branches :
       r.branches[i].weight > 0 /\ AllPositive(r.branches[i].out)
  /\ r.access \in Access
  /\ r.stokes # {} \/ r.lit => r.bench # {}
  /\ DOMAIN r.config \subseteq {"capacity", "fuel", "fuelCap", "burn"}
  /\ DOMAIN r.config # {} => r.builds # {}
  /\ Cardinality(DOMAIN r.scales) <= 1
  /\ \A s \in DOMAIN r.scales :
       r.scales[s] >= 1 /\ s \in DOMAIN r.tools /\ r.tools[s] >= One
  /\ r.seasons \subseteq Season

-----------------------------------------------------------------------------
(* The settings of a world.                                                *)
MaySetEstate(rule, entities) ==
  /\ rule.policy \in {"burn", "heir", "treasury"}
  /\ rule.policy = "treasury" => rule.treasury # {} /\ rule.treasury \subseteq entities

(* The menu a victory condition is chosen from.                            *)
MayStartEpoch(spec, techs) ==
  \/ spec.code \in {"accumulate", "grow", "endure"} /\ spec.bound > 0
  \/ spec.code = "innovate" /\ spec.technology \in techs

(* What a body is born with.                                               *)
StatRow(Stat) == [stat : Stat, value : Int]
HoldingRow(Body, Symbol) == [entity : Body, symbol : Symbol, quantity : Nat]
AccountRow(Body, Symbol) == [entity : Body, currency : Symbol, balance : Int]

(* What a founder is given: each call of the setter replaces the fields it *)
(* is given and leaves the others; a field never given reads as its        *)
(* default, which mints nothing and seats nobody.                          *)
BareFounder == [endowment |-> 0, currency |-> "USD", starter |-> {},
                holdings |-> <<>>, stats |-> <<>>, parcel |-> {}, place |-> {}]
SetJoinConfig(cfg, given) ==
  [f \in DOMAIN cfg |-> IF f \in DOMAIN given THEN given[f] ELSE cfg[f]]
Seated(cfg, who) ==
  [holdings |-> cfg.holdings, stats |-> cfg.stats,
   parcels |-> {[owner |-> who, type |-> p.type, place |-> p.place] : p \in cfg.parcel},
   stands |-> cfg.place]
=============================================================================
