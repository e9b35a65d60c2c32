------------------------------- MODULE Market -------------------------------
(***************************************************************************)
(* One commodity market (engine/econengine/markets.py): its book of limit  *)
(* orders, the call auction of every tick and, when the market sits at a   *)
(* place, the shelf its asks are delivered to.                             *)
(*                                                                         *)
(* Money is never escrowed; goods are, at placement, on a placed market.   *)
(* Fills check live balances and cancel what they cannot settle.  The tick *)
(* is one transaction; a request of the API is a read without a lock and   *)
(* then a step that writes and commits between ticks (see Rounds).         *)
(*                                                                         *)
(* Quantities are whole quanta, so a cost needs no rounding; held is what  *)
(* an entity holds and no running process reserves (see Production).       *)
(***************************************************************************)
EXTENDS Integers, Sequences, FiniteSets, Totals

CONSTANTS
  Entity,
  Quotes,      \* the sides an entity quotes on this market
  Walker,      \* entities that come and go
  Mortal,      \* entities that may be incapacitated
  Price,       \* limit prices
  MaxQty,      \* bounds the quantity of an order
  MaxBook,     \* bounds the orders in the book
  Cap,         \* max_holding of the good
  Endowment,   \* what each entity holds at first
  Purse,       \* coins of each entity at first
  Rate,        \* decay_per_tick, in tenths
  Siting,      \* whether the market has a place: {TRUE}, {FALSE} or both
  Overlapping  \* whether a request may straddle a tick

Side == {"buy", "sell"}

ASSUME MarketAssumption ==
  /\ IsFiniteSet(Entity)
  /\ Quotes \in [Entity -> SUBSET Side]
  /\ Walker \subseteq Entity /\ Mortal \subseteq Entity
  /\ Price \subseteq Nat \ {0}
  /\ {MaxQty, MaxBook, Cap, Rate} \subseteq Nat /\ Rate <= 10
  /\ Endowment \in [Entity -> 0..Cap]
  /\ Purse \in [Entity -> Nat]
  /\ Siting \subseteq BOOLEAN
  /\ Overlapping \in BOOLEAN

VARIABLES
  phase,   \* the pass of the tick in progress; "idle" between ticks
  placed,  \* whether the market has a place
  alive,   \* entities whose status is ACTIVE
  here,    \* entities that stand at the market's place
  held,    \* unreserved holdings of the good
  shelf,   \* each seller's pool on the shelf
  coins,   \* settlement accounts
  book,    \* the orders, oldest first
  last,    \* last_price; 0 when nothing has traded
  price,   \* the clearing price while an auction settles
  bids,    \* eligible buys not yet passed; the foremost is BestBid
  asks,    \* eligible sells not yet passed; the foremost is BestAsk
  hand     \* the API's request in hand and what it has read

auction == <<price, bids, asks>>
who == <<placed, alive, here>>
stock == <<held, shelf, coins>>
marketVars == <<phase, who, stock, book, last, auction, hand>>

Order == [owner : Entity, side : Side, price : Price, left : 0..MaxQty, open : BOOLEAN]
NoRequest == [for |-> "none"]

Smaller(a, b) == IF a <= b THEN a ELSE b
Excess(a, b) == IF a <= b THEN 0 ELSE a - b
Clip(n) == Smaller(n, Cap)

-----------------------------------------------------------------------------
(* The book.                                                               *)

Resting(bk) == {i \in DOMAIN bk : bk[i].open}
On(bk, side) == {i \in Resting(bk) : bk[i].side = side}
Of(bk, e) == {i \in Resting(bk) : bk[i].owner = e}
Left(bk, S) == LET left == [i \in S |-> bk[i].left] IN Total(left, S)

Cancelled(bk, S) ==
  [i \in DOMAIN bk |-> IF i \in S THEN [bk[i] EXCEPT !.open = FALSE] ELSE bk[i]]

(* The k-th of a set of orders, the oldest first.                          *)
Nth(S, k) == CHOOSE i \in S : Cardinality({j \in S : j <= i}) = k
Kept(bk) == [k \in 1..Cardinality(Resting(bk)) |-> bk[Nth(Resting(bk), k)]]

(* What is closed is forgotten, unless a request has seen it open.         *)
Purged(bk) == IF hand = NoRequest THEN Kept(bk) ELSE bk

(* The resting orders a new one supersedes: its owner's own price level.   *)
Level(bk, e, side, p) == {i \in Of(bk, e) : bk[i].side = side /\ bk[i].price = p}

-----------------------------------------------------------------------------
(* The shelf.                                                              *)

Claimed(bk, e) == Left(bk, Of(bk, e) \cap On(bk, "sell"))

(* Mutant: what is delivered is free, whatever is asked.                   *)
WholeShelf(bk, e) == shelf[e]

FreeShelf(bk, e) == shelf[e] - Smaller(shelf[e], Claimed(bk, e))

(* What an ask must still deliver, once what it supersedes is gone.        *)
Shortfall(bk, e, side, q) ==
  IF placed /\ side = "sell" THEN Excess(q, FreeShelf(bk, e)) ELSE 0

(* An order is appended and its shortfall moves from a balance of have     *)
(* units, as read, to the shelf.                                           *)
Accept(bk, e, side, p, q, short, have) ==
  /\ book' = Append(bk, [owner |-> e, side |-> side, price |-> p, left |-> q, open |-> TRUE])
  /\ IF short = 0 THEN UNCHANGED <<held, shelf>>
     ELSE /\ held' = [held EXCEPT ![e] = have - short]
          /\ shelf' = [shelf EXCEPT ![e] = @ + short]

Pending == IF hand = NoRequest THEN 0 ELSE 1
MayQuote(e, side) == side \in Quotes[e] /\ e \in alive /\ (placed => e \in here)

-----------------------------------------------------------------------------
(* A script's intents, inside the tick.  What is refused leaves nothing.   *)

Place(e, side, p, q) ==
  LET rest == Purged(Cancelled(book, Level(book, e, side, p)))
      short == Shortfall(rest, e, side, q)
  IN  /\ phase = "intents"
      /\ MayQuote(e, side)
      /\ Len(rest) + Pending < MaxBook
      /\ short <= held[e]
      /\ Accept(rest, e, side, p, q, short, held[e])
      /\ UNCHANGED <<phase, who, coins, last, auction, hand>>

(* By its owner, in a script or between ticks; the goods stay on the shelf.*)
CancelOrder(i) ==
  /\ phase \in {"intents", "idle"}
  /\ phase = "idle" => Overlapping \/ hand = NoRequest
  /\ i \in Resting(book)
  /\ book' = Purged(Cancelled(book, {i}))
  /\ UNCHANGED <<phase, who, stock, last, auction, hand>>

-----------------------------------------------------------------------------
(* The API's order: it reads; then it takes the lock, writes and commits.  *)
(* Superseding an order takes the lock at once, and what is read after it  *)
(* is fresh; a request that supersedes nothing delivers on what it read.   *)

Ask(e, side, p, q) ==
  LET level == Level(book, e, side, p) IN
  /\ phase = "idle"
  /\ hand = NoRequest
  /\ MayQuote(e, side)
  /\ Len(book) < MaxBook
  /\ hand' = [for |-> e, side |-> side, price |-> p, qty |-> q, level |-> level,
              short |-> Shortfall(book, e, side, q), have |-> held[e]]
  /\ UNCHANGED <<phase, who, stock, book, last, auction>>

Balance(r) == IF r.level = {} THEN r.have ELSE held[r.for]
Due(r, rest) == IF r.level = {} THEN r.short ELSE Shortfall(rest, r.for, r.side, r.qty)

Answer ==
  LET r == hand
      rest == Cancelled(book, r.level)
  IN  /\ phase = "idle"
      /\ r # NoRequest
      /\ hand' = NoRequest
      /\ IF Due(r, rest) <= Balance(r)
         THEN Accept(Kept(rest), r.for, r.side, r.price, r.qty,
                     Due(r, rest), Balance(r))
         ELSE book' = Kept(book) /\ UNCHANGED <<held, shelf>>
      /\ UNCHANGED <<phase, who, coins, last, auction>>

-----------------------------------------------------------------------------
(* The call auction.                                                       *)

Demand(p) == Left(book, {i \in On(book, "buy") : book[i].price >= p})
Supply(p) == Left(book, {i \in On(book, "sell") : book[i].price <= p})
Volume(p) == Smaller(Demand(p), Supply(p))
Apart(a, b) == Excess(a, b) + Excess(b, a)
Imbalance(p) == Apart(Demand(p), Supply(p))

Candidates == {c \in {book[i].price : i \in Resting(book)} : Volume(c) > 0}

(* The prices of greatest volume, and of those of least imbalance.         *)
Tied ==
  LET best == {p \in Candidates : \A c \in Candidates : Volume(c) <= Volume(p)}
  IN  {p \in best : \A c \in best : Imbalance(p) <= Imbalance(c)}

(* x comes first, or they are level and i does.                            *)
Before(x, i, y, j) == x < y \/ (x = y /\ i < j)

(* The nearest to the last price, or else the (lower) median.              *)
Nearest(S) ==
  CHOOSE p \in S : \A c \in S \ {p} : Before(Apart(p, last), p, Apart(c, last), c)
Median(S) == CHOOSE p \in S : Cardinality({c \in S : c < p}) = (Cardinality(S) - 1) \div 2
ClearingPrice == IF last = 0 THEN Median(Tied) ELSE Nearest(Tied)

(* Mutant: the newest of a level is served first.                          *)
BuyFirstNewest(i, j) == Before(-book[i].price, j, -book[j].price, i)

(* Price-time priority.                                                    *)
BuyFirst(i, j) == Before(-book[i].price, i, -book[j].price, j)
SellFirst(i, j) == Before(book[i].price, i, book[j].price, j)

OpenAuction ==
  /\ phase = "intents"
  /\ IF Tied = {}
     THEN phase' = "sweep" /\ UNCHANGED auction
     ELSE /\ phase' = "settle"
          /\ price' = ClearingPrice
          /\ bids' = {i \in On(book, "buy") : book[i].price >= price'}
          /\ asks' = {i \in On(book, "sell") : book[i].price <= price'}
  /\ UNCHANGED <<who, stock, book, last, hand>>

Settling == phase = "settle" /\ bids # {} /\ asks # {}
BestBid == CHOOSE i \in bids : \A j \in bids \ {i} : BuyFirst(i, j)
BestAsk == CHOOSE i \in asks : \A j \in asks \ {i} : SellFirst(i, j)
Buy == book[BestBid]
Sell == book[BestAsk]
Counterparties == Settling /\ Buy.owner # Sell.owner
Fill == Smaller(Buy.left, Sell.left)
Cost == Fill * price
Goods(e) == IF placed THEN shelf[e] ELSE held[e]

Cancel(side) ==
  /\ book' = Cancelled(book, {IF side = "buy" THEN BestBid ELSE BestAsk})
  /\ IF side = "buy" THEN bids' = bids \ {BestBid} /\ UNCHANGED asks
                     ELSE asks' = asks \ {BestAsk} /\ UNCHANGED bids
  /\ UNCHANGED <<phase, who, stock, last, price, hand>>

(* Of an entity's own two orders the younger steps aside.                  *)
StepAside ==
  /\ Settling
  /\ Buy.owner = Sell.owner
  /\ IF BestAsk > BestBid THEN asks' = asks \ {BestAsk} /\ UNCHANGED bids
                          ELSE bids' = bids \ {BestBid} /\ UNCHANGED asks
  /\ UNCHANGED <<phase, who, stock, book, last, price, hand>>

Broke == Counterparties /\ coins[Buy.owner] < Cost /\ Cancel("buy")
Bare == /\ Counterparties /\ coins[Buy.owner] >= Cost
        /\ Goods(Sell.owner) < Fill
        /\ Cancel("sell")

Filled(i) == [book[i] EXCEPT !.left = @ - Fill, !.open = book[i].left > Fill]

Passed(queue, i) == IF book[i].left = Fill THEN queue \ {i} ELSE queue

(* The shelf, or the seller's holding, pays; the buyer's credit is clipped.*)
Drawn(e) ==
  IF placed
  THEN /\ shelf' = [shelf EXCEPT ![e] = @ - Fill]
       /\ held' = [held EXCEPT ![Buy.owner] = Clip(@ + Fill)]
  ELSE /\ held' = [held EXCEPT ![e] = @ - Fill, ![Buy.owner] = Clip(@ + Fill)]
       /\ UNCHANGED shelf

Trade ==
  /\ Counterparties
  /\ coins[Buy.owner] >= Cost
  /\ Goods(Sell.owner) >= Fill
  /\ coins' = [coins EXCEPT ![Buy.owner] = @ - Cost, ![Sell.owner] = @ + Cost]
  /\ Drawn(Sell.owner)
  /\ book' = [book EXCEPT ![BestBid] = Filled(BestBid), ![BestAsk] = Filled(BestAsk)]
  /\ bids' = Passed(bids, BestBid)
  /\ asks' = Passed(asks, BestAsk)
  /\ last' = price
  /\ UNCHANGED <<phase, who, price, hand>>

CloseAuction ==
  /\ phase = "settle"
  /\ bids = {} \/ asks = {}
  /\ phase' = "sweep"
  /\ book' = Purged(book)
  /\ price' = 0 /\ bids' = {} /\ asks' = {}
  /\ UNCHANGED <<who, stock, last, hand>>

(* What no ask claims goes back to the sellers who stand at the place, the *)
(* dead included, clipped at what they may hold.                           *)
Returned(e) == IF placed /\ e \in here THEN FreeShelf(book, e) ELSE 0
Reclaim ==
  /\ phase = "sweep"
  /\ phase' = "rot"
  /\ shelf' = [e \in Entity |-> shelf[e] - Returned(e)]
  /\ held' = [e \in Entity |-> IF Returned(e) = 0 THEN held[e] ELSE Clip(held[e] + Returned(e))]
  /\ UNCHANGED <<who, coins, book, last, auction, hand>>

-----------------------------------------------------------------------------
(* The rest of the tick, as far as it touches the market.                  *)

BeginTick ==
  /\ phase = "idle"
  /\ hand = NoRequest \/ Overlapping
  /\ phase' = "arrive"
  /\ UNCHANGED <<who, stock, book, last, auction, hand>>

Walk(e) ==
  /\ phase = "arrive"
  /\ here' = IF e \in here THEN here \ {e} ELSE here \cup {e}
  /\ UNCHANGED <<phase, placed, alive, stock, book, last, auction, hand>>

BeginIntents ==
  /\ phase = "arrive"
  /\ phase' = "intents"
  /\ UNCHANGED <<who, stock, book, last, auction, hand>>

(* Work reserves or draws goods, and needs consume them.                   *)
Spend(e) ==
  /\ phase \in {"intents", "rot"}
  /\ held[e] > 0
  /\ held' = [held EXCEPT ![e] = @ - 1]
  /\ UNCHANGED <<phase, who, shelf, coins, book, last, auction, hand>>

(* Half up at the quantum, and never less than one.                        *)
Lost(n) ==
  LET part == (2 * n * Rate + 10) \div 20
  IN  IF Rate > 0 /\ n > 0 /\ part = 0 THEN n ELSE part

Rot ==
  /\ phase = "rot"
  /\ phase' = "death"
  /\ held' = [e \in Entity |-> held[e] - Lost(held[e])]
  /\ shelf' = [e \in Entity |-> shelf[e] - Lost(shelf[e])]
  /\ UNCHANGED <<who, coins, book, last, auction, hand>>

Withdrawn(e) == Purged(Cancelled(book, Of(book, e)))

(* The estate: holdings and money burn or go to an heir; the shelf stays.  *)
Die(e) ==
  /\ phase \in {"intents", "death"}
  /\ e \in alive
  /\ alive' = alive \ {e}
  /\ book' = Withdrawn(e)
  /\ \/ /\ held' = [held EXCEPT ![e] = 0]
        /\ coins' = [coins EXCEPT ![e] = 0]
     \/ \E h \in alive \ {e} :
          /\ held' = [held EXCEPT ![h] = IF held[e] = 0 THEN @ ELSE Clip(@ + held[e]), ![e] = 0]
          /\ coins' = [coins EXCEPT ![h] = @ + coins[e], ![e] = 0]
  /\ UNCHANGED <<phase, placed, here, shelf, last, auction, hand>>

Commit ==
  /\ phase = "death"
  /\ phase' = "idle"
  /\ UNCHANGED <<who, stock, book, last, auction, hand>>

-----------------------------------------------------------------------------
MarketInit ==
  /\ phase = "idle"
  /\ placed \in Siting
  /\ alive = Entity
  /\ here = Entity
  /\ held = Endowment
  /\ shelf = [e \in Entity |-> 0]
  /\ coins = Purse
  /\ book = <<>>
  /\ last = 0
  /\ price = 0 /\ bids = {} /\ asks = {}
  /\ hand = NoRequest

Bidding ==
  \E e \in Entity, side \in Side, p \in Price, q \in 1..MaxQty :
    Place(e, side, p, q) \/ Ask(e, side, p, q)

Settle == OpenAuction \/ StepAside \/ Broke \/ Bare \/ Trade \/ CloseAuction
Elsewhere ==
  \/ \E e \in Walker : Walk(e)
  \/ \E e \in Mortal : Die(e)
  \/ \E e \in Entity : Spend(e)

Pass == BeginTick \/ BeginIntents \/ Settle \/ Reclaim \/ Rot \/ Commit

MarketNext == Bidding \/ Answer \/ (\E i \in DOMAIN book : CancelOrder(i)) \/ Pass \/ Elsewhere

MarketSpec == MarketInit /\ [][MarketNext]_marketVars

-----------------------------------------------------------------------------
(* Types; no account is overdrawn, no holding is past its cap and no order *)
(* is filled beyond its quantity.                                          *)
MarketTypeOK ==
  /\ phase \in {"idle", "arrive", "intents", "settle", "sweep", "rot", "death"}
  /\ placed \in BOOLEAN
  /\ alive \subseteq Entity /\ here \subseteq Entity
  /\ held \in [Entity -> 0..Cap]
  /\ shelf \in [Entity -> Nat]
  /\ coins \in [Entity -> Nat]
  /\ book \in Seq(Order) /\ Len(book) <= MaxBook
  /\ \A i \in Resting(book) : book[i].left > 0
  /\ {last, price} \subseteq Price \cup {0}
  /\ bids \cup asks \subseteq DOMAIN book

(* Goods are neither made nor lost by quoting, delivering, trading and     *)
(* reclaiming: "holdings down, shelf up -- one transaction"                *)
(* (markets.py:239).  Rot, use, a death or a full holding take them.       *)
All == LET both == [e \in Entity |-> held[e] + shelf[e]] IN Total(both, Entity)
Taken == Rot \/ (\E e \in Entity : Spend(e) \/ Die(e))
GoodsAccounted ==
  /\ All' <= All
  /\ All' < All => Taken \/ \E e \in Entity : held'[e] = Cap

(* "Pool >= claimed >= remaining by construction" (markets.py:595): the    *)
(* shelf backs every open ask of a seller whose asks it backed, through    *)
(* requotes, fills, cancellations and sweeps.  Rot alone undoes it.        *)
Backed(e) == Claimed(book, e) <= shelf[e]
OnlyRotUnbacks ==
  \A e \in Entity : placed /\ Backed(e) => Rot \/ Backed(e)'

(* "Re-quoting a level re-asserts, it does not re-deliver"                 *)
(* (markets.py:399): goods leave a holding for the shelf only to back what *)
(* is asked.                                                               *)
DeliverOnlyShortfall ==
  \A e \in Entity : shelf'[e] > shelf[e] => shelf'[e] <= Claimed(book', e)

(* The shelf serves the book: it holds what is asked, is filled for        *)
(* nothing else and gives it all back (_deliver_ask, _claimed_on_shelf,    *)
(* _reclaim_escrows).                                                      *)
ShelfServesBook ==
  [][MarketTypeOK' /\ OnlyRotUnbacks /\ DeliverOnlyShortfall /\ GoodsAccounted]_marketVars

(* Incapacity withdraws the orders of the dead (conditions.py:359), and    *)
(* none is accepted after it: whoever trades is alive.                     *)
OnlyTheLivingTrade == \A i \in Resting(book) : book[i].owner \in alive

(* "Uniform price maximizing executed volume" (markets.py:527): at no      *)
(* price, quoted or not, would more change hands.                          *)
MostChangesHands ==
  OpenAuction /\ phase' = "settle" =>
    \A c \in Price : \A p \in 1..c : Volume(p) <= Volume(price')

(* "Better-priced orders fill first" and the older first at one price      *)
(* (markets.py:497): a fill passes over a better order only when that      *)
(* stepped aside for an older order of its own entity.                     *)
SteppedAside(i) ==
  \E j \in 1..i : book[j].owner = book[i].owner /\ book[j].side # book[i].side
PassedOver(i, j) ==
  /\ book[i].side = book[j].side
  /\ \/ book[i].price = book[j].price /\ i < j
     \/ book[i].side = "buy" /\ book[i].price > book[j].price
     \/ book[i].side = "sell" /\ book[i].price < book[j].price
NoQueueJumping ==
  Trade =>
    \A i \in Resting(book) :
      PassedOver(i, BestBid) \/ PassedOver(i, BestAsk) => SteppedAside(i)

(* The auction leaves no buyer and seller who would both have traded at    *)
(* its price, unless one of the two had stepped aside.                     *)
Eligible(side) ==
  {i \in On(book, side) : IF side = "buy" THEN book[i].price >= price ELSE book[i].price <= price}
NobodyLeftWilling ==
  CloseAuction => \A i \in Eligible("buy"), j \in Eligible("sell") : SteppedAside(i) \/ SteppedAside(j)

(* The auction is fair: it takes the price at which most changes hands,    *)
(* fills by price and age, and stops when nobody is left to trade          *)
(* (_clearing_price and _settle).                                          *)
AuctionIsFair == [][MostChangesHands /\ NoQueueJumping /\ NobodyLeftWilling]_marketVars
=============================================================================
