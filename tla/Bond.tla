-------------------------------- MODULE Bond -------------------------------
(***************************************************************************)
(* The government bond of src/contracts/bond.  A unit is a holding that    *)
(* trades like any good; bond.py sells units and registers the terms, and  *)
(* gov_bond.lua pays whoever holds them when the coupons and the face fall *)
(* due.  The script queues its payments and marks them settled at once;    *)
(* each is then carried out or refused by itself.                          *)
(***************************************************************************)
EXTENDS Purse

CONSTANTS
    Issuer,      \* the house that issues
    Symbols,     \* bond symbols
    MaxUnits,    \* bound: units one buyer takes of an issue
    Face, Coupon, Interval, Periods,     \* BondTerms
    Tidy         \* whether redeem_holdings is run before a symbol is issued again

ASSUME BondAssumption ==
    /\ Issuer \in House /\ Tidy \in BOOLEAN /\ MaxUnits \in Nat
    /\ {Face, Coupon, Interval, Periods} \subseteq Nat \ {0}

VARIABLES
    bonds,       \* state.bonds of the servicing script
    units,       \* holdings of each symbol
    sold,        \* history: units of the present issue of each symbol
    coupons,     \* coupons queued and not paid yet, by symbol and holder
    faces,       \* faces queued and not paid yet
    spent        \* history: money paid out on the present issue

bondVars == <<bonds, units, sold, coupons, faces, spent>>

NoBond == [issued |-> 0, maturity |-> 0, settled |-> 0, redeemed |-> TRUE]

BondInit ==
    /\ bonds = [s \in Symbols |-> NoBond]
    /\ units = [s \in Symbols |-> [p \in Folk |-> 0]]
    /\ sold = [s \in Symbols |-> 0]
    /\ coupons = [s \in Symbols |-> [p \in Folk |-> 0]]
    /\ faces = [s \in Symbols |-> [p \in Folk |-> 0]]
    /\ spent = [s \in Symbols |-> 0]

\* Nothing queued is unresolved: the tick is over.
Quiet == \A s \in Symbols, p \in Folk : coupons[s][p] = 0 /\ faces[s][p] = 0

Holders(s) == {p \in Folk : units[s][p] > 0}

\* issue_bond: every buyer pays par, and the terms are written over those of
\* any earlier issue.  The caller says from which tick they run.
IssueBond(s, takes, at) ==
    LET taken == Total(takes, Folk)
    IN  /\ Quiet
        /\ Tidy => Holders(s) = {}
        /\ \A p \in Folk : Face * takes[p] <= cash[p]
        /\ cash' = [p \in Party |-> IF p \in Folk THEN cash[p] - Face * takes[p]
                                   ELSE IF p = Issuer THEN cash[p] + Face * taken ELSE cash[p]]
        /\ units' = [units EXCEPT ![s] = [p \in Folk |-> @[p] + takes[p]]]
        /\ bonds' = [bonds EXCEPT ![s] = [issued |-> at, maturity |-> at + Periods * Interval,
                                          settled |-> 0, redeemed |-> FALSE]]
        /\ sold' = [sold EXCEPT ![s] = taken]
        /\ spent' = [spent EXCEPT ![s] = 0]
        /\ UNCHANGED <<goods, tick, coupons, faces>>

\* The units trade.
SellUnit(s, p, to) ==
    /\ Quiet
    /\ units[s][p] > 0
    /\ Pays(Payment(to, p, 1))
    /\ units' = [[units EXCEPT ![s][p] = @ - 1] EXCEPT ![s][to] = @ + 1]
    /\ UNCHANGED <<goods, tick, bonds, sold, coupons, faces, spent>>

\* Coupon periods over by tick t.
Elapsed(b, t) == Lesser((t - b.issued) \div Interval, Periods)

\* What gov_bond.lua queues for each unit of a symbol in tick t.
CouponDue(b, t) == IF b.redeemed THEN 0 ELSE Coupon * Greater(0, Elapsed(b, t) - b.settled)
FaceDue(b, t) == IF ~b.redeemed /\ t >= b.maturity THEN Face ELSE 0

(***************************************************************************)
(* Mutant: a run settles one period, however many it has paid.             *)
(***************************************************************************)
AdvancedByOne(b, t) ==
    IF b.redeemed THEN b
    ELSE [b EXCEPT !.settled = Greater(@, Lesser(@ + 1, Elapsed(b, t))), !.redeemed = t >= b.maturity]

Advanced(b, t) ==
    IF b.redeemed THEN b
    ELSE [b EXCEPT !.settled = Greater(@, Elapsed(b, t)), !.redeemed = t >= b.maturity]

\* A tick: the script queues what has fallen due, or is skipped.
BondTick ==
    /\ Quiet
    /\ Ticks
    /\ \/ /\ coupons' = [s \in Symbols |-> [p \in Folk |-> CouponDue(bonds[s], tick + 1) * units[s][p]]]
          /\ faces' = [s \in Symbols |-> [p \in Folk |-> FaceDue(bonds[s], tick + 1) * units[s][p]]]
          /\ bonds' = [s \in Symbols |-> Advanced(bonds[s], tick + 1)]
       \/ UNCHANGED <<coupons, faces, bonds>>
    /\ UNCHANGED <<cash, goods, units, sold, spent>>

Pay(s, p, sum) ==
    LET payment == Payment(Issuer, p, sum)
    IN  /\ cash' = Resolved(cash, payment)
        /\ spent' = [spent EXCEPT ![s] = @ + IF Clears(cash, payment) THEN sum ELSE 0]
        /\ UNCHANGED <<goods, tick, bonds, units, sold>>

\* The queued payments of a symbol are resolved, its coupons before its faces.
PayCoupon(s, p) ==
    /\ coupons[s][p] > 0
    /\ Pay(s, p, coupons[s][p])
    /\ coupons' = [coupons EXCEPT ![s][p] = 0]
    /\ UNCHANGED faces

PayFace(s, p) ==
    /\ \A h \in Folk : coupons[s][h] = 0
    /\ faces[s][p] > 0
    /\ Pay(s, p, faces[s][p])
    /\ faces' = [faces EXCEPT ![s][p] = 0]
    /\ UNCHANGED coupons

\* redeem_holdings: units are extinguished by the operator, on nobody's leave
\* and whether or not the face has been paid.
RedeemHoldings(s) ==
    /\ Quiet
    /\ Holders(s) # {}
    /\ units' = [units EXCEPT ![s] = [p \in Folk |-> 0]]
    /\ UNCHANGED <<purse, bonds, sold, coupons, faces, spent>>

BondNext ==
    \/ \E s \in Symbols, takes \in [Folk -> 0..MaxUnits], at \in 0..LastTick : IssueBond(s, takes, at)
    \/ \E s \in Symbols, p, to \in Folk : p # to /\ SellUnit(s, p, to)
    \/ \E s \in Symbols : RedeemHoldings(s)
    \/ \E s \in Symbols, p \in Folk : PayCoupon(s, p) \/ PayFace(s, p)
    \/ BondTick

----------------------------------------------------------------------------
(***************************************************************************)
(* Each coupon and the face are paid once: what an issue has cost its      *)
(* issuer is at most its units times the periods settled and the face if   *)
(* redeemed, through trades, skipped ticks that are caught up with, and    *)
(* payments that were refused.  With Tidy FALSE it does not hold: units of *)
(* an earlier issue under the symbol are paid again, where gov_bond.lua    *)
(* says they "linger harmlessly".                                          *)
(***************************************************************************)
CouponsArePaidOnce ==
    \A s \in Symbols :
        spent[s] <= sold[s] * (Coupon * bonds[s].settled
                               + IF sold[s] > 0 /\ bonds[s].redeemed THEN Face ELSE 0)
============================================================================
