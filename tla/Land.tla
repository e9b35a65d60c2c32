-------------------------------- MODULE Land --------------------------------
(***************************************************************************)
(* Property and the estate: accounts and the compelled transfers of        *)
(* engine/econengine/services.py, the parcels, facilities, shelves and     *)
(* deposits of engine/econengine/parcels.py, the reservation a running     *)
(* process makes of a facility (production.start_process), and the estate  *)
(* that engine/econengine/conditions.py settles at a death, under the      *)
(* outbox of intents that a controller fills between ticks and run_tick    *)
(* drains.                                                                 *)
(*                                                                         *)
(* Quantities are whole units.  Nothing asks that a quantity stored, taken,*)
(* dropped or picked up is positive: a shelf can be left owing goods.      *)
(* A validator that vetoes an operation, and the gates of a recipe that    *)
(* are not about land, can only refuse: they are the freedom not to take   *)
(* the action.  When a run completes and who is dying belong to other      *)
(* modules: any run may complete at dawn, anyone may die at dusk or at a   *)
(* blow.                                                                   *)
(***************************************************************************)
EXTENDS Integers, Sequences, FiniteSets, Totals

CONSTANTS
  Entity, Nobody,  \* the citizens, and the owner of unclaimed land
  Authority,       \* holders of LEVY, SEIZE and MONETARY_AUTHORITY
  Heir,            \* heir_id of an entity, or Nobody
  Treasury,        \* the treasury_entity_id of the estate rule
  Parcel, Place,
  Site,            \* the place a parcel stands at
  Facility,
  Kind,            \* facility_type
  Ground,          \* the parcel a facility stands on
  Public,          \* facilities whose access is PLACE
  Seats,           \* capacity: binder slots, and the cap of a private store
  FuelCap, Burn,   \* fuel_capacity and fuel_burn_per_tick
  Good, Wood,      \* symbols held; the one the woodpile takes
  Body,            \* condition goods: never inherited
  Cap,             \* max_holding of a good
  Rot,             \* decay_per_tick of a good, in hundredths
  Recipe,
  Works,           \* recipe |-> the facility type it requires, or "none"
  Fuel,            \* recipe |-> facility_fuel_output
  Lit,             \* recipes whose facility must be burning
  Cost,            \* recipe |-> wood it draws
  Dig,             \* recipe |-> what it draws from the deposit of its parcel
  Vein, Regen,     \* capacity and regen_per_tick of a parcel's deposit
  Shared,          \* the owner of a shared pool, "*"
  Client,          \* entities with a controller that submits intents itself
  Home, Deed,      \* where everybody stands and who owns what at genesis
  MaxIssued, MaxPending, MaxWood, MaxTicks, MaxActs, MaxAmount  \* bounds

Holder == Entity \union {Shared}

ASSUME LandAssumption ==
  /\ IsFiniteSet(Entity) /\ IsFiniteSet(Facility) /\ IsFiniteSet(Good)
  /\ Nobody \notin Entity \union Parcel /\ Shared \notin Entity \union {Nobody}
  /\ Authority \subseteq Entity /\ Wood \in Good \ Body
  /\ Heir \in [Entity -> Entity \union {Nobody}] /\ Treasury \in Entity \union {Nobody}
  /\ Deed \in [Parcel -> Entity \union {Nobody}] /\ Home \in [Entity -> Place]
  /\ Cap \in [Good -> Nat \ {0}] /\ Rot \in [Good -> 0..100]
  /\ {FuelCap, Burn, Seats} \subseteq [Facility -> Nat]
  /\ {Vein, Regen} \subseteq [Parcel -> Nat]
  /\ {Fuel, Cost, Dig} \subseteq [Recipe -> Nat]
  /\ {MaxIssued, MaxPending, MaxTicks, MaxActs, MaxAmount} \subseteq Nat
  /\ Cardinality(Entity) <= MaxIssued

VARIABLES
  phase,    \* "idle", or the pass of run_tick in progress
  ticks,    \* ticks begun
  acts,     \* intents submitted or resolved, claims and moves so far
  pending,  \* the pending_intents outbox, oldest first
  alive,    \* entities whose status is ACTIVE
  rule,     \* the estate rule's policy
  money,    \* balance of each entity's account
  issued,   \* history: issuances and deposits less retirements, withdrawals
  buried,   \* history: balances that went with the dead
  at,       \* location_place_id
  held,     \* holdings
  shelf,    \* FacilityHolding rows: facility, owner or "*", symbol
  owner,    \* owner_id of a parcel, or Nobody
  bound,    \* the parcel of a running process, or Nobody when it does not run
  fuel,     \* the burning stock of a facility
  deposit   \* quantity left in a parcel's deposit

world == <<alive, money, issued, buried, held, shelf, owner, bound, fuel, deposit>>
vars == <<phase, ticks, acts, pending, rule, at, world>>

Least(a, b) == IF a <= b THEN a ELSE b
Greatest(a, b) == IF a <= b THEN b ELSE a

Run == Entity \X Recipe
Owned(e) == {p \in Parcel : owner[p] = e}

Init ==
  /\ phase = "idle" /\ ticks = 0 /\ acts = 0 /\ pending = <<>>
  /\ alive = Entity
  /\ rule \in {"burn", "heir", "treasury"}
  /\ money = [e \in Entity |-> 1] /\ issued = Cardinality(Entity) /\ buried = 0
  /\ at = Home
  /\ held = [e \in Entity |-> [g \in Good |-> IF g \in Body THEN 1 ELSE Cap[g]]]
  /\ shelf = [f \in Facility |-> [o \in Holder |-> [g \in Good |-> 0]]]
  /\ owner = Deed
  /\ bound = [r \in Run |-> Nobody]
  /\ fuel = [f \in Facility |-> 0]
  /\ deposit = Vein

-----------------------------------------------------------------------------
(* Holdings and shelves.                                                   *)

(* A credit clips at max_holding.                                          *)
Credited(e, g, q) == Least(held[e][g] + q, Cap[g])

(* The facilities of a type at a place; the code takes the first of them,  *)
(* and no place here has two.                                              *)
FacilityAt(e, k) == {f \in Facility : Kind[f] = k /\ Site[Ground[f]] = at[e]}

(* WOOD goes to the woodpile where one stands, all else to the drop.       *)
DropTarget(e, g) ==
  IF g = Wood /\ FacilityAt(e, "WOODPILE") # {} THEN FacilityAt(e, "WOODPILE")
                                                ELSE FacilityAt(e, "DROP")

StoreTotal(f, o) == Net(shelf[f][o], Good)

(* Goods leave e's hands for the row of o at f; less than nothing comes    *)
(* out of a row, whatever it holds.                                        *)
PutAway(f, o, e, g, q) ==
  /\ held[e][g] >= q
  /\ held' = [held EXCEPT ![e][g] = Credited(e, g, -q)]
  /\ shelf' = [shelf EXCEPT ![f][o][g] = @ + q]

(* Mutant: the row is read and never drawn.                                *)
TakeBackCopied(f, o, e, g, q) ==
  /\ shelf[f][o][g] >= q /\ held[e][g] + q >= 0
  /\ held' = [held EXCEPT ![e][g] = Credited(e, g, q)]
  /\ UNCHANGED shelf

(* And back, clipped at what e may hold; less than nothing goes in.        *)
TakeBack(f, o, e, g, q) ==
  /\ shelf[f][o][g] >= q /\ held[e][g] + q >= 0
  /\ held' = [held EXCEPT ![e][g] = Credited(e, g, q)]
  /\ shelf' = [shelf EXCEPT ![f][o][g] = @ - q]

Rest == UNCHANGED <<alive, money, issued, buried, owner, bound, fuel, deposit>>

(* Mutant: a full store takes one more.                                    *)
StoreOver(i) ==
  /\ i.op = "store" /\ Rest
  /\ \E f \in FacilityAt(i.by, "STORAGE") :
       /\ StoreTotal(f, i.by) <= Seats[f]
       /\ PutAway(f, i.by, i.by, i.good, i.q)

Store(i) ==
  /\ i.op = "store" /\ Rest
  /\ \E f \in FacilityAt(i.by, "STORAGE") :
       /\ StoreTotal(f, i.by) + i.q <= Seats[f]
       /\ PutAway(f, i.by, i.by, i.good, i.q)

Unstore(i) ==
  /\ i.op = "take" /\ Rest
  /\ \E f \in FacilityAt(i.by, "STORAGE") : TakeBack(f, i.by, i.by, i.good, i.q)

Drop(i) ==
  /\ i.op = "drop" /\ Rest
  /\ \E f \in DropTarget(i.by, i.good) : PutAway(f, Shared, i.by, i.good, i.q)

PickUp(i) ==
  /\ i.op = "pickup" /\ Rest
  /\ \E f \in DropTarget(i.by, i.good) : TakeBack(f, Shared, i.by, i.good, i.q)

-----------------------------------------------------------------------------
(* Money.                                                                  *)

Move(a, b, q) ==
  /\ money[a] >= q
  /\ money' = [e \in Entity |-> money[e] - (IF e = a THEN q ELSE 0)
                                         + (IF e = b THEN q ELSE 0)]
  /\ UNCHANGED <<alive, issued, buried, held, shelf, owner, bound, fuel, deposit>>

(* One's own money, to anybody's account.                                  *)
Pay(i) == i.op = "pay" /\ Move(i.by, i.to, i.q)

(* Anybody's money, into the authority's own account.                      *)
Levy(i) == i.op = "levy" /\ i.by \in Authority /\ Move(i.to, i.by, i.q)

Supply(e, q) ==
  /\ money[e] + q >= 0
  /\ money' = [money EXCEPT ![e] = @ + q]
  /\ issued' = issued + q
  /\ UNCHANGED <<alive, buried, held, shelf, owner, bound, fuel, deposit>>

(* issue_money and a deposit: the supply grows.                            *)
Issue(i) ==
  /\ i.op = "issue" /\ i.by \in Authority
  /\ issued + i.q <= MaxIssued
  /\ Supply(i.by, i.q)

(* retire_money and a withdrawal: it shrinks.                              *)
Retire(i) == i.op = "retire" /\ i.by \in Authority /\ Supply(i.by, -i.q)

-----------------------------------------------------------------------------
(* Land.                                                                   *)

Pinned(p) == \E r \in Run : bound[r] = p

(* No parcel changes hands while a process bound to it runs.               *)
Grant(p, e) == ~Pinned(p) /\ owner' = [owner EXCEPT ![p] = e]

TransferParcel(i) ==
  /\ i.op = "deed"
  /\ owner[i.parcel] = i.by
  /\ Grant(i.parcel, i.to)
  /\ UNCHANGED <<alive, money, issued, buried, held, shelf, bound, fuel, deposit>>

(* Goods, land or both out of i.from, into the hands the authority names,  *)
(* its own if none, in one savepoint: the goods clip, and a pinned parcel  *)
(* or one of somebody else's undoes them.                                  *)
Seize(i) ==
  /\ i.op = "seize" /\ i.by \in Authority
  /\ held[i.from][i.good] >= i.q
  /\ LET left == held[i.from][i.good] - i.q IN
       held' = IF i.to = i.from
                 THEN [held EXCEPT ![i.to][i.good] = Least(left + i.q, Cap[i.good])]
                 ELSE [[held EXCEPT ![i.from][i.good] = left]
                            EXCEPT ![i.to][i.good] = Credited(i.to, i.good, i.q)]
  /\ \A p \in i.parcels : owner[p] = i.from /\ ~Pinned(p)
  /\ owner' = [p \in Parcel |-> IF p \in i.parcels THEN i.to ELSE owner[p]]
  /\ UNCHANGED <<alive, money, issued, buried, shelf, bound, fuel, deposit>>

Acts == acts < MaxActs /\ acts' = acts + 1

(* An administrator, or a vote on land, gives a parcel away or revokes it. *)
Claim(p, e) ==
  /\ phase = "idle"
  /\ owner[p] # e
  /\ Grant(p, e)
  /\ Acts
  /\ UNCHANGED <<phase, ticks, pending, rule, at, alive, money, issued, buried, held,
                 shelf, bound, fuel, deposit>>

-----------------------------------------------------------------------------
(* Facilities and deposits.                                                *)

On(p, k) == {f \in Facility : Ground[f] = p /\ Kind[f] = k}
Capacity(p, k) == Total(Seats, On(p, k))
Reserved(p, k) == Cardinality({r \in Run : bound[r] = p /\ Works[r[2]] = k})

(* Mutant: one public facility opens every facility of the parcel.         *)
MayBindAnything(e, r, p) ==
  owner[p] = e \/ (Works[r] # "none" /\ \E f \in Public : Ground[f] = p)

(* The owner may bind a parcel; anyone else only where a facility of the   *)
(* required type is public.  A start that names no parcel picks among the  *)
(* parcels it may bind: its own first, then the public ones.               *)
MayBind(e, r, p) ==
  owner[p] = e \/ (Works[r] # "none" /\ \E f \in On(p, Works[r]) : f \in Public)

Banks(f, q) == fuel[f] + q <= FuelCap[f]

FacilityReady(r, p) ==
  \/ Works[r] = "none"
  \/ /\ Reserved(p, Works[r]) < Capacity(p, Works[r])
     /\ r \in Lit => \E f \in On(p, Works[r]) : fuel[f] > 0
     /\ Fuel[r] > 0 => \E f \in On(p, Works[r]) : Banks(f, Fuel[r])

(* What of a wood cost a pile pays, before one's own holdings; what it     *)
(* owes is asked of them on top, and is owed still.                        *)
FromPile(f, q) == Least(shelf[f][Shared][Wood], q)

Draws(e, q) ==
  \/ q = 0 /\ UNCHANGED <<held, shelf>>
  \/ /\ q > 0 /\ FacilityAt(e, "WOODPILE") = {}
     /\ held[e][Wood] >= q
     /\ held' = [held EXCEPT ![e][Wood] = @ - q]
     /\ UNCHANGED shelf
  \/ /\ q > 0
     /\ \E f \in FacilityAt(e, "WOODPILE") :
          /\ held[e][Wood] >= q - FromPile(f, q)
          /\ held' = [held EXCEPT ![e][Wood] = @ - (q - FromPile(f, q))]
          /\ shelf' = [shelf EXCEPT ![f][Shared][Wood] = @ - Greatest(FromPile(f, q), 0)]

(* A good in all hands, and on all shelves less what they owe.             *)
InHand(g) == Total([e \in Entity |-> held[e][g]], Entity)
Shelved(f, g) == Net([o \in Holder |-> shelf[f][o][g]], Holder)
OnShelves(g) == Net([f \in Facility |-> Shelved(f, g)], Facility)
Stock(g) == InHand(g) + OnShelves(g)

Start(i) ==
  /\ i.op = "start" /\ i.by \in alive
  /\ bound[<<i.by, i.recipe>>] = Nobody
  /\ MayBind(i.by, i.recipe, i.parcel)
  /\ FacilityReady(i.recipe, i.parcel)
  /\ deposit[i.parcel] >= Dig[i.recipe]
  /\ Dig[i.recipe] > 0 => Stock(Wood) < MaxWood
  /\ Draws(i.by, Cost[i.recipe])
  /\ deposit' = [deposit EXCEPT ![i.parcel] = @ - Dig[i.recipe]]
  /\ bound' = [bound EXCEPT ![<<i.by, i.recipe>>] = i.parcel]
  /\ UNCHANGED <<alive, money, issued, buried, owner, fuel>>

(* The runner of a process gives it up; what it drew is forfeit.           *)
Cancel(i) ==
  /\ i.op = "cancel"
  /\ bound[<<i.by, i.recipe>>] # Nobody
  /\ bound' = [bound EXCEPT ![<<i.by, i.recipe>>] = Nobody]
  /\ UNCHANGED <<alive, money, issued, buried, held, shelf, owner, fuel, deposit>>

(* Mutant: a completion stokes whether or not the fire can bank it.        *)
StokedFully(f, q) == [fuel EXCEPT ![f] = @ + q]

(* credit_fuel.                                                            *)
Stoked(f, q) == [fuel EXCEPT ![f] = IF Banks(f, q) THEN @ + q ELSE @]

(* A run completes: what was dug is credited, clipped, and the fuel goes   *)
(* to a facility that can still bank it; when none can, it is dropped.     *)
Complete(r) ==
  LET rc == r[2]  p == bound[r] IN
  /\ phase = "dawn" /\ p # Nobody
  /\ bound' = [bound EXCEPT ![r] = Nobody]
  /\ held' = [held EXCEPT ![r[1]][Wood] = IF Dig[rc] = 0 THEN @ ELSE Credited(r[1], Wood, Dig[rc])]
  /\ IF Fuel[rc] = 0 THEN UNCHANGED fuel
                     ELSE \E f \in On(p, Works[rc]) : fuel' = Stoked(f, Fuel[rc])
  /\ UNCHANGED <<phase, ticks, acts, pending, rule, at, alive, money, issued, buried, shelf, owner, deposit>>

-----------------------------------------------------------------------------
(* Death and the estate.                                                   *)

(* The heir or the treasury, when alive and another; else all is burned.   *)
Recipient(e) ==
  LET named == CASE rule = "heir" -> Heir[e] [] rule = "treasury" -> Treasury
                 [] rule = "burn" -> Nobody
  IN  IF named \in alive \ {e} THEN named ELSE Nobody

(* Mutant: the estate forgets the private shelves.                         *)
InheritedShelfLost(f, e, r) ==
  [shelf[f] EXCEPT ![e] = [g \in Good |-> Least(@[g], 0)]]

(* Goods on e's private shelf stay there, now r's, past any cap; a row     *)
(* that owes is not looked at.                                             *)
InheritedShelf(f, e, r) ==
  [o \in DOMAIN shelf[f] |-> [g \in Good |->
     CASE o = e -> Least(shelf[f][e][g], 0)
       [] o = r /\ g \notin Body -> shelf[f][r][g] + Greatest(shelf[f][e][g], 0)
       [] OTHER -> shelf[f][o][g]]]

(* The running processes of the dead are cancelled.                        *)
WorkStops(e) == [r \in Run |-> IF r[1] = e THEN Nobody ELSE bound[r]]

Buried(e, r) == IF r = Nobody THEN buried + money[e] ELSE buried

(* _incapacitate: status, then holdings, private shelves, accounts and     *)
(* parcels; a parcel goes over even while a process of somebody else runs  *)
(* at a public facility on it.                                             *)
Die(e) ==
  LET r == Recipient(e) IN
  /\ alive' = alive \ {e}
  /\ bound' = WorkStops(e)
  /\ held' = [x \in Entity |-> [g \in Good |->
       CASE x = e -> 0
         [] x = r /\ g \notin Body -> Credited(r, g, held[e][g])
         [] OTHER -> held[x][g]]]
  /\ shelf' = [f \in Facility |-> InheritedShelf(f, e, r)]
  /\ money' = [x \in Entity |-> CASE x = e -> 0
                                  [] x = r -> money[r] + money[e]
                                  [] OTHER -> money[x]]
  /\ buried' = Buried(e, r)
  /\ owner' = [p \in Parcel |-> IF owner[p] = e THEN r ELSE owner[p]]
  /\ UNCHANGED <<issued, fuel, deposit>>

(* In the incapacity pass, by a condition or by age, or at a killing blow  *)
(* among the intents.                                                      *)
Incapacitate(e) ==
  /\ phase \in {"intents", "dusk"} /\ e \in alive
  /\ Die(e)
  /\ UNCHANGED <<phase, ticks, acts, pending, rule, at>>

-----------------------------------------------------------------------------
(* Intents.                                                                *)

(* What a script may send: a quantity stored or taken has any sign; a      *)
(* seizure has goods (a quantity above 0), parcels or both.                *)
Amount == (-MaxAmount)..MaxAmount
Seizure == [op : {"seize"}, by : Authority, from : Entity, to : Entity,
            good : Good, q : 0..MaxAmount, parcels : SUBSET Parcel]
Intent ==
  [op : {"store", "take", "drop", "pickup"}, by : Entity, good : Good, q : Amount]
    \union [op : {"pay", "levy"}, by : Entity, to : Entity, q : {1}]
    \union [op : {"issue", "retire"}, by : Authority, q : {1}]
    \union [op : {"deed"}, by : Entity, to : Entity, parcel : Parcel]
    \union {i \in Seizure : i.q > 0 \/ i.parcels # {}}
    \union [op : {"start"}, by : Entity, recipe : Recipe, parcel : Parcel]
    \union [op : {"cancel"}, by : Entity, recipe : Recipe]

Resolve(i) ==
  \/ Store(i) \/ Unstore(i) \/ Drop(i) \/ PickUp(i)
  \/ Pay(i) \/ Levy(i) \/ Issue(i) \/ Retire(i)
  \/ TransferParcel(i) \/ Seize(i) \/ Start(i) \/ Cancel(i)

(* A controller submits between ticks: parked while the world clock is     *)
(* armed.  Nothing asks whether the entity is alive.                       *)
Submit(i) ==
  /\ phase = "idle" /\ Len(pending) < MaxPending
  /\ i.by \in Client
  /\ pending' = Append(pending, i)
  /\ Acts
  /\ UNCHANGED <<phase, ticks, rule, at, world>>

(* Or resolved there and then while it is not.                             *)
ResolveNow(i) ==
  /\ phase = "idle"
  /\ Acts /\ Resolve(i)
  /\ UNCHANGED <<phase, ticks, pending, rule, at>>

(* The outbox, oldest first: applied if it can be, else rejected.          *)
Drain ==
  /\ phase = "intents" /\ pending # <<>>
  /\ pending' = Tail(pending)
  /\ LET i == Head(pending) IN
       \/ Resolve(i)
       \/ ~ENABLED Resolve(i) /\ UNCHANGED world
  /\ UNCHANGED <<phase, ticks, acts, rule, at>>

(* The scripts of the living, before or after it as priorities settle.     *)
ScriptActs(i) ==
  /\ phase = "intents"
  /\ i.by \in alive
  /\ Acts /\ Resolve(i)
  /\ UNCHANGED <<phase, ticks, pending, rule, at>>

-----------------------------------------------------------------------------
(* The tick.                                                               *)

BeginTick ==
  /\ phase = "idle" /\ ticks < MaxTicks
  /\ phase' = "dawn" /\ ticks' = ticks + 1
  /\ UNCHANGED <<acts, pending, rule, at, world>>

(* travel: the single writer of where an entity stands.                    *)
MoveEntity(e, pl) ==
  /\ phase = "dawn" /\ e \in alive /\ pl # at[e]
  /\ at' = [at EXCEPT ![e] = pl]
  /\ Acts
  /\ UNCHANGED <<phase, ticks, pending, rule, world>>

(* regen_deposits: towards capacity, never past it.                        *)
RegenDeposits ==
  /\ phase = "dawn" /\ phase' = "intents"
  /\ deposit' = [p \in Parcel |-> Least(Vein[p], deposit[p] + Regen[p])]
  /\ UNCHANGED <<ticks, acts, pending, rule, at, alive, money, issued, buried, held, shelf, owner, bound, fuel>>

(* What a perishable pile loses: a share rounded half up, and all of a     *)
(* pile too small for the share to be a quantum.                           *)
Lost(g, q) ==
  LET share == (q * Rot[g] + 50) \div 100
  IN  IF Rot[g] = 0 \/ q <= 0 THEN 0 ELSE IF share = 0 THEN q ELSE share

(* After the intents: the fires burn, then every pile rots alike, carried, *)
(* stored or dropped.                                                      *)
Dusk ==
  /\ phase = "intents" /\ pending = <<>>
  /\ phase' = "dusk"
  /\ fuel' = [f \in Facility |-> IF fuel[f] <= Burn[f] THEN 0 ELSE fuel[f] - Burn[f]]
  /\ held' = [e \in Entity |-> [g \in Good |-> held[e][g] - Lost(g, held[e][g])]]
  /\ shelf' = [f \in Facility |-> [o \in DOMAIN shelf[f] |-> [g \in Good |->
                 shelf[f][o][g] - Lost(g, shelf[f][o][g])]]]
  /\ UNCHANGED <<ticks, acts, pending, rule, at, alive, money, issued, buried, owner, bound, deposit>>

EndTick ==
  /\ phase = "dusk" /\ phase' = "idle"
  /\ UNCHANGED <<ticks, acts, pending, rule, at, world>>

Next ==
  \/ \E i \in Intent : Submit(i) \/ ResolveNow(i) \/ ScriptActs(i)
  \/ Drain
  \/ \E p \in Parcel, e \in Entity \union {Nobody} : Claim(p, e)
  \/ \E r \in Run : Complete(r)
  \/ \E e \in Entity : Incapacitate(e)
  \/ \E e \in Entity, pl \in Place : MoveEntity(e, pl)
  \/ BeginTick \/ RegenDeposits \/ Dusk \/ EndTick

Spec == Init /\ [][Next]_vars

-----------------------------------------------------------------------------
(* Properties.                                                             *)

(* Every row of the world has its type, and no balance, holding, fire or   *)
(* deposit leaves the range its table allows: a purse, a hand and a        *)
(* deposit are never overdrawn, a fire, a deposit and a hand never         *)
(* overfilled.  Of a shelf no such thing is true.                          *)
TypeOK ==
  /\ phase \in {"idle", "dawn", "intents", "dusk"}
  /\ ticks \in 0..MaxTicks /\ acts \in 0..MaxActs
  /\ pending \in Seq(Intent) /\ Len(pending) <= MaxPending
  /\ alive \subseteq Entity
  /\ rule \in {"burn", "heir", "treasury"}
  /\ money \in [Entity -> 0..MaxIssued] /\ at \in [Entity -> Place]
  /\ issued \in 0..MaxIssued /\ buried \in 0..MaxIssued
  /\ held \in [Entity -> [Good -> Nat]] /\ \A e \in Entity, g \in Good : held[e][g] <= Cap[g]
  /\ shelf \in [Facility -> [Holder -> [Good -> Int]]]
  /\ owner \in [Parcel -> Entity \union {Nobody}]
  /\ bound \in [Run -> Parcel \union {Nobody}]
  /\ fuel \in [Facility -> Nat] /\ \A f \in Facility : fuel[f] <= FuelCap[f]
  /\ deposit \in [Parcel -> Nat] /\ \A p \in Parcel : deposit[p] <= Vein[p]

(* A process at a private facility, or on the deposit of a parcel, belongs *)
(* to the present owner of the parcel, whatever deeds, seizures, claims    *)
(* and deaths came since it was started: "completion always credits the    *)
(* entity that controlled the parcel" (parcels.py).                        *)
PrivateWorks ==
  \A r \in Run :
    LET p == bound[r] IN
    p # Nobody =>
      \/ owner[p] = r[1]
      \/ Works[r[2]] # "none" /\ \E f \in On(p, Works[r[2]]) : f \in Public

(* The books close: what was issued and not retired is in somebody's       *)
(* account or was buried with somebody, though no estate writes a          *)
(* transaction.                                                            *)
Balanced == Total(money, Entity) + buried = issued

(* Moving goods makes none: only the end of an extraction adds to a good,  *)
(* and never more than its deposit gave up.  What a negative quantity puts *)
(* in a hand is owed by the shelf it came from.                            *)
Extracted(g, n) ==
  /\ phase = "dawn" /\ g = Wood
  /\ \E r \in Run : bound[r] # Nobody /\ bound'[r] = Nobody /\ n <= Dig[r[2]]

(* Goods are destroyed by rot, with the dead, as the cost of a start, and  *)
(* where they move to a hand that is then full.                            *)
Moving == {"store", "take", "drop", "pickup", "seize"}
Consumed(g) ==
  \/ phase = "intents" /\ phase' = "dusk" /\ Rot[g] > 0
  \/ \E e \in alive \ alive' :
       g \in Body \/ Recipient(e) = Nobody \/ held'[Recipient(e)][g] = Cap[g]
  \/ g = Wood /\ \E r \in Run : bound[r] = Nobody /\ bound'[r] # Nobody /\ Cost[r[2]] > 0
  \/ \E i \in Intent : /\ i.op \in Moving /\ i.good = g /\ Resolve(i)
                       /\ \E e \in Entity : held'[e][g] = Cap[g]

GoodsAccounted ==
  \/ UNCHANGED <<held, shelf>>
  \/ \A g \in Good :
       LET gain == Stock(g)' - Stock(g) IN
       /\ gain > 0 => Extracted(g, gain)
       /\ gain < 0 => Consumed(g)

(* A private store passes its capacity only by inheritance, or when less   *)
(* than nothing is taken out of it.                                        *)
StoreCapped ==
  \A f \in Facility, e \in Entity :
    /\ Kind[f] = "STORAGE"
    /\ StoreTotal(f, e)' > StoreTotal(f, e)
    /\ StoreTotal(f, e)' > Seats[f]
    => \/ \E d \in alive \ alive', g \in Good : shelf[f][d][g] > 0
       \/ \E i \in Intent : i.op = "take" /\ i.q < 0 /\ Unstore(i)

(* What a shelf owes grows only when less than nothing is stored or        *)
(* dropped: no pickup, take, draw, death or rot overdraws it.              *)
DebtIsAsked ==
  \A f \in Facility, o \in Holder, g \in Good :
    shelf'[f][o][g] < Least(shelf[f][o][g], 0) =>
      \E i \in Intent : i.op \in {"store", "drop"} /\ i.q < 0 /\ Resolve(i)

(* "The pool cannot go negative" (parcels.py:376), as no row of a shelf    *)
(* should.  False: a drop of a negative quantity overdraws it.             *)
NoShelfOwes == \A f \in Facility, o \in Holder, g \in Good : shelf[f][o][g] >= 0

(* "Goods move between holdings and pools (and rot); nothing is created or *)
(* destroyed here" (parcels.py:322).  False: what is picked up with a full *)
(* hand is gone.                                                           *)
StorageConserves ==
  [][\A i \in Intent : i.op \in Moving \ {"seize"} /\ Resolve(i)
       => \A g \in Good : Stock(g)' = Stock(g)]_vars

(* A death settles everything at once: the dead have no work, no land, no  *)
(* money and no goods in hand or in store; what stood on their shelves is  *)
(* still there when somebody living inherits, the land is nobody's only    *)
(* when nobody does, and no living third party gains or loses.             *)
DeathSettles ==
  [][\A e \in alive \ alive' :
       LET r == Recipient(e) IN
       /\ money'[e] = 0 /\ \A p \in Parcel : owner'[p] # e
       /\ \A c \in Recipe : bound'[<<e, c>>] = Nobody
       /\ \A g \in Good : held'[e][g] = 0 /\ \A f \in Facility : shelf'[f][e][g] <= 0
       /\ r # Nobody =>
            /\ r \in alive'
            /\ \A g \in Good \ Body : OnShelves(g)' = OnShelves(g)
            /\ \A p \in Parcel : owner'[p] = Nobody => owner[p] = Nobody
       /\ \A x \in Entity \ {e, r} : money'[x] = money[x] /\ held'[x] = held[x]]_vars

(* While a process runs on a parcel only a death takes the parcel from its *)
(* owner, and then what still runs there is somebody else's work at a      *)
(* facility open to the public.                                            *)
PinnedLandStays ==
  \A p \in Parcel : Pinned(p) /\ owner'[p] # owner[p] =>
    /\ owner[p] \in alive \ alive'
    /\ \A r \in Run : bound'[r] = p =>
         /\ r[1] # owner[p]
         /\ Works[r[2]] # "none" /\ \E f \in On(p, Works[r[2]]) : f \in Public

(* "The entity's bound processes were just cancelled, and only the         *)
(* controller can bind a process, so no running process pins these"        *)
(* (conditions.py:460); "a parcel with running processes bound to it       *)
(* cannot change hands" (parcels.py:18).  False: others run at a public    *)
(* facility on the land of the dead.                                       *)
NoRunPinsAnEstate ==
  [][\A p \in Parcel : owner[p] \in alive \ alive' => ~Pinned(p)']_vars

(* Land in use stays with its user: who works it owns it or works in       *)
(* public, no deed, seizure or claim takes it from under the work, and a   *)
(* death only from under work in public (_change_owner, start_process and  *)
(* the estate).                                                            *)
LandInUse == [][PrivateWorks' /\ PinnedLandStays]_vars

(* Money and goods are conserved, debts of shelves counted against them:   *)
(* the books close; what is not dug or issued comes from somewhere; goods  *)
(* go only by rot, death, cost or for want of room in a hand; a store      *)
(* holds what it has room for and a shelf owes only what was asked of it   *)
(* (services.py, parcels.py, conditions.py).                               *)
Conserved ==
  [][Balanced' /\ GoodsAccounted /\ StoreCapped /\ DebtIsAsked]_vars

(* "INCAPACITATED entities take no part in any tick pass and cannot act"   *)
(* (models/entity.py:17): an intent parked for somebody dead by the time   *)
(* it is drained changes nothing.                                          *)
TheDeadTakeNoPart ==
  [][pending # <<>> /\ pending' = Tail(pending) /\ Head(pending).by \notin alive
       => UNCHANGED world]_vars
=============================================================================
