------------------------------ MODULE Exchange -----------------------------
(***************************************************************************)
(* The futures exchange of src/contracts/futures and the options exchange  *)
(* of src/contracts/option.  Both hold margins in one commingled pool,     *)
(* mark every position to the posted price each tick, and settle by an     *)
(* operator's call, seizing goods from a loser whose margin does not       *)
(* cover the loss.  A future is a symmetric pair; in an option the long    *)
(* side is the buyer, who posts nothing and owes nothing.                  *)
(***************************************************************************)
EXTENDS Purse

CONSTANTS
    Pool,        \* the house whose account is the pool, by kind of position
    Kinds,       \* "future", "call" and "put"
    Prices,      \* bound: prices posted
    Lots, Margins, Strikes, Premiums,    \* bounds: terms of a position
    MaxPositions \* bound: positions opened

ASSUME ExchangeAssumption ==
    /\ Pool \in [Kinds -> House] /\ Kinds \subseteq {"future", "call", "put"}
    /\ Prices \cup Premiums \subseteq Nat /\ MaxPositions \in Nat /\ Lots \cup Margins \cup Strikes \subseteq Nat \ {0}

VARIABLES
    positions,   \* state.positions of both scripts, in order of opening
    price,       \* the row futures:price:<symbol>
    documented,  \* the rows <kind>:deficiency:<loser>:<symbol>
    seizes       \* the houses that hold SEIZE

exchangeVars == <<positions, price, documented, seizes>>

Dark == -1

ExchangeInit ==
    /\ positions = <<>>
    /\ price = Dark
    /\ documented = [k \in House |-> [p \in Folk |-> 0]]
    /\ seizes \in {{}, House}

LongMargin(p) == IF p.kind = "future" THEN p.margin ELSE 0

\* What the short side owes the long at a price, before margins.
Claim(p, at) ==
    CASE p.kind = "future" -> (at - p.strike) * p.lot
      [] p.kind = "call"   -> Greater(0, at - p.strike) * p.lot
      [] p.kind = "put"    -> Greater(0, p.strike - at) * p.lot

LongCredit(p, at) == LongMargin(p) + Claim(p, at)
ShortCredit(p, at) == p.margin - Claim(p, at)

Opens(p) ==
    /\ Len(positions) < MaxPositions
    /\ p.expiry > tick
    /\ positions' = Append(positions, p)
    /\ UNCHANGED <<goods, tick, price, documented, seizes>>

\* open_future: both sides post the margin.
OpenFuture(p) ==
    /\ PaysBoth(Payment(p.long, Pool[p.kind], p.margin), Payment(p.short, Pool[p.kind], p.margin))
    /\ Opens(p)

\* open_option: the buyer pays the writer a premium, if one is asked, and the
\* writer posts the margin.
OpenOption(p, premium) ==
    /\ IF premium > 0
       THEN PaysBoth(Payment(p.long, p.short, premium), Payment(p.short, Pool[p.kind], p.margin))
       ELSE Pays(Payment(p.short, Pool[p.kind], p.margin))
    /\ Opens(p)

\* The platform posts a price between ticks; without one the feed is dark.
PostPrice(at) ==
    /\ price # at
    /\ price' = at
    /\ UNCHANGED <<purse, positions, documented, seizes>>

\* futures.lua and option.lua for one position in tick t.
Marked(p, t) ==
    LET thin == \/ 2 * LongCredit(p, price) < LongMargin(p)
                \/ 2 * ShortCredit(p, price) < p.margin
    IN  IF p.status = "settled" \/ price = Dark THEN p
        ELSE [p EXCEPT !.status = IF t >= p.expiry THEN "expired" ELSE IF thin THEN "breached" ELSE "open",
                       !.credit = ShortCredit(p, price)]

ExchangeTick ==
    /\ Ticks
    /\ positions' \in {positions, [i \in DOMAIN positions |-> Marked(positions[i], tick + 1)]}
    /\ UNCHANGED <<cash, goods, price, documented, seizes>>

\* Decimal.quantize: to the nearest unit, a half to the even one.
Quantized(m, n) ==
    LET q == m \div n
        r == 2 * (m % n)
    IN  IF r > n \/ (r = n /\ q % 2 = 1) THEN q + 1 ELSE q

\* margin_sufficiency.lua and option_sufficiency.lua.
Sufficient(row, quantity) == row > 0 /\ quantity <= row

\* settle, when neither side owes more than its margin.  Either credit being
\* exactly zero makes a payment of nothing, which is refused.
SettleSolvent(i) ==
    LET p    == positions[i]
        pool == Pool[p.kind]
    IN  /\ LongCredit(p, price) >= 0 /\ ShortCredit(p, price) >= 0
        /\ IF p.kind # "future" /\ Claim(p, price) = 0
           THEN Pays(Payment(pool, p.short, p.margin))
           ELSE PaysBoth(Payment(pool, p.long, LongCredit(p, price)),
                         Payment(pool, p.short, ShortCredit(p, price)))
        /\ UNCHANGED <<goods, documented>>

\* settle, when a side is short: the other takes the pool and goods worth the
\* deficiency, if there are any to take and the exchange may take them.
SettleDeficient(i) ==
    LET p        == positions[i]
        pool     == Pool[p.kind]
        longWins == ShortCredit(p, price) < 0
        loser    == IF longWins THEN p.short ELSE p.long
        winner   == IF longWins THEN p.long ELSE p.short
        owing    == -(IF longWins THEN ShortCredit(p, price) ELSE LongCredit(p, price))
        quantity == Quantized(owing, price)
        row      == IF quantity > 0 THEN quantity ELSE documented[pool][loser]
    IN  /\ owing > 0
        /\ Pays(Payment(pool, winner, p.margin + LongMargin(p)))
        /\ price # 0
        /\ documented' = [documented EXCEPT ![pool][loser] = row]
        /\ IF quantity > 0 /\ pool \in seizes /\ Sufficient(row, quantity) /\ goods[loser] >= quantity
           THEN Takes(loser, winner, quantity) ELSE UNCHANGED goods

Settle(i) ==
    /\ positions[i].status # "settled"
    /\ price # Dark
    /\ SettleSolvent(i) \/ SettleDeficient(i)
    /\ positions' = [positions EXCEPT ![i].status = "settled"]
    /\ UNCHANGED <<tick, price, seizes>>

Position(kind, long, short, lot, strike, margin, expiry) ==
    [kind |-> kind, long |-> long, short |-> short, lot |-> lot, strike |-> strike,
     margin |-> margin, expiry |-> expiry, credit |-> margin, status |-> "open"]

ExchangeNext ==
    \/ \E long, short \in Folk, lot \in Lots, strike \in Strikes, margin \in Margins :
           \/ /\ "future" \in Kinds
              /\ OpenFuture(Position("future", long, short, lot, strike, margin, tick + 1))
           \/ \E kind \in Kinds \ {"future"}, premium \in Premiums :
                  OpenOption(Position(kind, long, short, lot, strike, margin, tick + 1), premium)
    \/ \E at \in Prices \cup {Dark} : PostPrice(at)
    \/ \E i \in DOMAIN positions : Settle(i)
    \/ ExchangeTick

----------------------------------------------------------------------------
Unsettled(k) == {i \in DOMAIN positions : positions[i].status # "settled" /\ Pool[positions[i].kind] = k}

(***************************************************************************)
(* The commingled pool holds the margins of the positions not settled yet, *)
(* neither more nor less: no settlement, however deep the loss, is paid    *)
(* out of what others posted, and none leaves anything behind.             *)
(***************************************************************************)
PoolIsTheBook ==
    \A k \in {Pool[kind] : kind \in Kinds} :
        cash[k] = Total([i \in DOMAIN positions |-> positions[i].margin + LongMargin(positions[i])],
                        Unsettled(k))

(***************************************************************************)
(* A settlement is fair.  Only the loser of a deficiency loses goods,      *)
(* worth what is owing to the nearest unit of the good; and a winner whose *)
(* loser has the goods, at an exchange that may seize, is made whole, in   *)
(* cash and goods at the posted price.  A buyer of an option is never      *)
(* seized from.  Nothing stops one party from taking both sides, and such  *)
(* a position has neither winner nor loser.                                *)
(***************************************************************************)
SettlementIsFair ==
    \A i \in DOMAIN positions : Settle(i) =>
        LET p      == positions[i]
            lost(x) == goods[x] - goods'[x]
            gain(x) == cash'[x] - cash[x] - price * lost(x)
            owing  == Greater(-ShortCredit(p, price), -LongCredit(p, price))
        IN  /\ \A x \in Folk : lost(x) > 0 =>
                   /\ IF ShortCredit(p, price) < 0 THEN x = p.short
                      ELSE x = p.long /\ p.kind = "future" /\ LongCredit(p, price) < 0
                   /\ 2 * lost(x) * price \in (2 * owing - price) .. (2 * owing + price)
            /\ LET enough(x) == Pool[p.kind] \in seizes /\ goods[x] >= Quantized(owing, price)
               IN  p.long # p.short =>
                   /\ LongCredit(p, price) > 0 /\ (owing > 0 => enough(p.short)) =>
                          2 * (gain(p.long) - LongCredit(p, price)) \in (-price) .. price
                   /\ ShortCredit(p, price) > 0 /\ (owing > 0 => enough(p.long)) =>
                          2 * (gain(p.short) - ShortCredit(p, price)) \in (-price) .. price

(***************************************************************************)
(* A position can be settled once the feed is lit.  It does not hold: a    *)
(* loss that eats the margin exactly leaves a payment of nothing, and a    *)
(* price of zero divides the deficiency.                                   *)
(***************************************************************************)
SettlementCanBeHad ==
    \A i \in DOMAIN positions :
        positions[i].status # "settled" /\ price # Dark => ENABLED Settle(i)
============================================================================
