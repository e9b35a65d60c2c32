------------------------------ MODULE Queries ------------------------------
(***************************************************************************)
(* What a script may ask of the world: ctx.query of scripting.py, the feed *)
(* of what it witnessed (witness.py) and the standings anybody may read    *)
(* (leaderboard.py).                                                       *)
(*                                                                         *)
(* Each is a read of tables that writes nothing.  `w' is a record of the   *)
(* tables a query selects from; `reader' is the entity a script runs for,  *)
(* a set of at most one: empty for a script that guards the whole world.   *)
(* An answer that may be nil is a set of at most one value; a list sorted  *)
(* only to be the same every time is a set; where the order does count,    *)
(* `w.rank' has the place of every key in it.                              *)
(***************************************************************************)
EXTENDS Readings
LOCAL INSTANCE FiniteSetsExt

SumOf(rows, column) == MapThenSumSet(LAMBDA r : r[column], rows)
Where(rows, column, value) == {r \in rows : r[column] = value}
Column(rows, column) == {r[column] : r \in rows}
Lowest(S) == {x \in S : \A y \in S : x <= y}
Highest(S) == {x \in S : \A y \in S : x >= y}

-----------------------------------------------------------------------------
(* Money.                                                                  *)
Balance(w, account) == Column(Where(w.accounts, "id", account), "balance")
TotalSupply(w, currency) == SumOf(Where(w.accounts, "currency", currency), "balance")

-----------------------------------------------------------------------------
(* Markets: the last price, the touch of the book and, where goods are     *)
(* delivered, the shelf.  Depth beyond the touch is nobody's to read.      *)
GetMarket(w, s) == Where(w.markets, "symbol", s)
MarketPrice(w, s) == UNION Column(GetMarket(w, s), "last")

Open(w, s, side) ==
  {o \in w.orders : o.symbol = s /\ o.side = side /\ o.open /\ o.remaining > 0}
BookTop(w, s, side) ==
  LET prices == Column(Open(w, s, side), "price")
  IN IF GetMarket(w, s) = {} THEN {} ELSE IF side = "buy" THEN Highest(prices) ELSE Lowest(prices)
BestBid(w, s) == BookTop(w, s, "buy")
BestAsk(w, s) == BookTop(w, s, "sell")

PlacedMarket(w, s) == {m \in GetMarket(w, s) : m.place # {}}
EscrowedQuantity(w, s, sellers) ==
  SumOf({r \in w.escrow : r.symbol = s /\ r.seller \in sellers}, "quantity")
MarketShelf(w, s) ==
  LET all == EscrowedQuantity(w, s, Column(w.escrow, "seller"))
      asked == SumOf(Open(w, s, "sell"), "remaining")
      claimed == IF asked < all THEN asked ELSE all
  IN {[shelf |-> all, claimed |-> claimed, free |-> all - claimed] : m \in PlacedMarket(w, s)}
OwnShelf(w, reader, s) ==
  {EscrowedQuantity(w, s, {who}) : who \in {r \in reader : PlacedMarket(w, s) # {}}}

-----------------------------------------------------------------------------
(* Holdings.  A world may keep them from scripts that are not their own;   *)
(* who guards the whole world still reads them all.                        *)
Private(w, reader) ==
  /\ reader # {} /\ "world.private_holdings" \in DOMAIN w.settings
  /\ w.settings["world.private_holdings"]
Hidden(w, reader, e) == Private(w, reader) /\ e \notin reader

GetHolding(w, e, s) == SumOf(Where(Where(w.holdings, "entity", e), "symbol", s), "quantity")
ReservedQuantity(w, e, s) ==
  SumOf({[id |-> p.id, n |-> p.tools[s]]
           : p \in {q \in Where(w.running, "entity", e) : s \in DOMAIN q.tools}}, "n")

Holding(w, reader, e, s) == IF Hidden(w, reader, e) THEN {} ELSE {GetHolding(w, e, s)}
Unreserved(w, reader, e, s) ==
  IF Hidden(w, reader, e) THEN {} ELSE {GetHolding(w, e, s) - ReservedQuantity(w, e, s)}

(* The register a dividend is paid from: who holds a share and the account *)
(* that is first of theirs by currency and then by id.                     *)
FirstAccount(w, e) ==
  LET theirs == Where(w.accounts, "entity", e)
      Before(a, b) == \/ w.rank[a.currency] < w.rank[b.currency]
                      \/ a.currency = b.currency /\ w.rank[a.id] <= w.rank[b.id]
  IN {a.id : a \in {x \in theirs : \A b \in theirs : Before(x, b)}}
Holders(w, reader, s) ==
  IF Private(w, reader) THEN {}
  ELSE {[entity |-> h.entity, quantity |-> h.quantity, account |-> FirstAccount(w, h.entity)]
          : h \in {r \in Where(w.holdings, "symbol", s) : r.quantity > 0}}

(* What the reader left in a store it stands at, and what lies in the pool *)
(* of the place, are read of bodies.                                       *)
BodyRow(w, reader) == {b \in w.bodies : b.id \in reader}
QueryStored(w, reader, s) ==
  UNION {Stored(w.facilities, w.shelves, b, s) : b \in BodyRow(w, reader)}
QueryDropped(w, reader, s) ==
  UNION {Dropped(w.facilities, w.shelves, b, s) : b \in BodyRow(w, reader)}

HasUnlock(w, e, code) ==
  code \in Column(w.technologies, "code") /\ code \in EntityUnlocks(w.unlocks, e)

-----------------------------------------------------------------------------
(* Settings: whatever the citizens vote, and the two that have defaults.   *)
Setting(w, key) == IF key \in DOMAIN w.settings THEN {w.settings[key]} ELSE {}
FiscalPolicy(w) == IF Setting(w, "fiscal_policy") = {} THEN <<>> ELSE w.settings["fiscal_policy"]

DefaultConstitution ==
  [supermajority_threshold |-> 67 * (One \div 100), supermajority_quorum |-> 0]
Constitution(w) ==
  LET stored == IF Setting(w, "constitution") = {} THEN <<>> ELSE w.settings["constitution"]
  IN [k \in DOMAIN stored \cup DOMAIN DefaultConstitution |->
        IF k \in DOMAIN stored THEN stored[k] ELSE DefaultConstitution[k]]

-----------------------------------------------------------------------------
(* Laws and bills, in the order they were written.                         *)
History(w, lineage) == SelectSeq(w.scripts, LAMBDA s : s.lineage = lineage)
ActiveScript(w, lineage) ==
  LET live == SelectSeq(History(w, lineage), LAMBDA s : s.active)
  IN {live[i] : i \in {1} \cap DOMAIN live}

(* The scripts an operation is put before: the laws, and those its entity  *)
(* keeps for itself.                                                       *)
ApplicableScripts(w, kind, op) ==
  SelectSeq(w.scripts, LAMBDA s : s.type = kind /\ s.active /\ s.entity \subseteq op.entity)

ProposalStatus == {"open", "enacted", "failed", "cancelled"}
Proposal(w, id) == {w.proposals[i] : i \in {j \in DOMAIN w.proposals : w.proposals[j].id = id}}
Proposals(w, status) ==
  SelectSeq(w.proposals, LAMBDA p : p.status \in ProposalStatus /\ \A s \in status : p.status = s)

(* The votes weigh what they weighed when they were cast; they are held    *)
(* against the electorate of now.                                          *)
Tally(w, id) ==
  {LET of(choice) == SumOf(Where(p.votes, "choice", choice), "weight")
       cast == of("for") + of("against")
   IN [yes |-> of("for"), no |-> of("against"), cast |-> cast, electorate |-> w.electorate[p.model],
       turnout |-> IF w.electorate[p.model] > 0 THEN (cast * One) \div w.electorate[p.model] ELSE 0]
     : p \in Proposal(w, id)}

-----------------------------------------------------------------------------
(* The living and the dead.                                                *)
LatestTick(w) == IF w.ticks = {} THEN 0 ELSE CHOOSE n \in w.ticks : \A m \in w.ticks : m <= n

(* Within a tick that tick, between ticks the last one committed.          *)
ExecutingTick(w) == IF w.executing = {} THEN LatestTick(w) ELSE CHOOSE n \in w.executing : TRUE

Entity(w, e) == Where(w.entities, "id", e)
Age(w, e, tick) == {tick - b : b \in UNION Column(Entity(w, e), "birth")}
Lifespan(w, e) == UNION Column(Entity(w, e), "lifespan")
Population(w) == Cardinality({e \in w.entities : e.active})
Parents(w, e) == UNION Column(Entity(w, e), "parents")
Children(w, e) == {c.id : c \in {d \in w.entities : e \in d.parents}}

-----------------------------------------------------------------------------
(* The map: the cost of the cheapest road over the allowed modes, an empty *)
(* list of which allows all; nil between places that are not, or where     *)
(* there is no road.                                                       *)
Passable(w, modes) == {r \in w.roads : modes = {} \/ r.mode \in modes}
Hops(w, modes) ==
  {<<r.from, r.to, r.cost>> : r \in Passable(w, modes)}
    \cup {<<r.to, r.from, r.cost>> : r \in {x \in Passable(w, modes) : x.both}}
Nearest(known) == {x \in known : \A y \in known : y[1] = x[1] => x[2] <= y[2]}
DistanceTicks(w, from, to, modes) ==
  LET hops == Hops(w, modes)
      known[n \in 0..Cardinality(w.places)] ==
        IF n = 0 THEN {<<from, 0>>}
        ELSE LET before == known[n - 1]
             IN Nearest(before \cup UNION {{<<h[2], x[2] + h[3]>> : h \in {y \in hops : y[1] = x[1]}}
                                             : x \in before})
  IN IF {from, to} \subseteq w.places
     THEN {x[2] : x \in {y \in known[Cardinality(w.places)] : y[1] = to}} ELSE {}

(* The fires of the commons, seen from afar.                               *)
PublicFacilities(w, place) ==
  {[type |-> f.kind, place |-> f.place, fuel |-> f.fuel, fuelCap |-> f.fuelCap]
     : f \in {x \in w.facilities : x.access = "PLACE" /\ (place = {} \/ x.place = place)}}

-----------------------------------------------------------------------------
(* The witness feed.  What everybody hears of a tick: speech, deaths,      *)
(* fights and, of the book, the orders that an empty purse bounced; never  *)
(* what was refused.  It is settled as the tick ends, for whoever is alive *)
(* then.                                                                   *)
ObservableEventTypes == {"say", "entity_incapacitated", "combat", "order_cancelled"}
Observable(e) ==
  /\ e.type \in ObservableEventTypes
  /\ e.status # "rejected"
  /\ e.type = "order_cancelled" => e.reason = "insufficient funds"
ObservableEvents(events) == SelectSeq(events, Observable)

RecordDelivery(w, tick, events) ==
  {[tick |-> tick, index |-> i, observer |-> e.id]
     : i \in {j \in DOMAIN events : Observable(events[j])}, e \in {x \in w.entities : x.active}}
WitnessedIndexes(delivered, tick, e) ==
  {d.index : d \in {r \in delivered : r.tick = tick /\ r.observer = e}}

(* A script's window on a tick: its own events and those it was delivered. *)
ScriptFeed(delivered, tick, e, events) ==
  LET seen == WitnessedIndexes(delivered, tick, e)
  IN {i \in DOMAIN events : events[i].entity = {e} \/ i \in seen}

-----------------------------------------------------------------------------
(* Standings: a row for every user who owns somebody, dead or alive, the   *)
(* most wins first, then the most money, then by the user's id.            *)
DynastyOf(w, user) == {e \in w.entities : e.owner = {user}}
DynastyCounts(w, user) ==
  <<Cardinality({e \in DynastyOf(w, user) : e.active}), Cardinality(DynastyOf(w, user))>>
OldestAge(w, user, tick) == {tick - b : b \in Lowest(UNION Column(DynastyOf(w, user), "birth"))}

(* What the world knows is nobody's in particular.                         *)
DynastyUnlocks(w, user) ==
  Cardinality(Column({u \in w.unlocks : u.holder # {} /\ u.holder \subseteq Column(DynastyOf(w, user), "id")},
                     "technology"))
(* The estate of the dead is not counted.                                  *)
DynastyMoney(w, user) ==
  SumOf({a \in w.accounts : a.entity \in Column(Where(DynastyOf(w, user), "active", TRUE), "id")}, "balance")

Standing(w, user) ==
  [user |-> user, money |-> DynastyMoney(w, user), counts |-> DynastyCounts(w, user),
   wins |-> Cardinality(Where(w.stamps, "user", user)),
   status |-> IF DynastyCounts(w, user)[1] > 0 THEN "active"
              ELSE IF user \in w.eliminated THEN "eliminated" ELSE "extinct"]
Standings(w) == {Standing(w, user) : user \in UNION Column(w.entities, "owner")}
Outranks(w, a, b) ==
  \/ a.wins > b.wins
  \/ a.wins = b.wins /\ a.money > b.money
  \/ a.wins = b.wins /\ a.money = b.money /\ w.rank[a.user] < w.rank[b.user]
=============================================================================
