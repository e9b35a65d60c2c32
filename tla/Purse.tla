------------------------------- MODULE Purse -------------------------------
(***************************************************************************)
(* The ground the contract packs of src/contracts stand on: base money in  *)
(* settlement accounts, one pledgeable good in holdings, the number of the *)
(* last tick committed, and the two movements the engine makes of them.    *)
(* `Pays' is a call of services.transfer, and                              *)
(* `Takes' what services.seize does once its authority has been checked.   *)
(*                                                                         *)
(* A pack's operation is one call of a Python helper.  A helper raises at  *)
(* the first payment that is refused, and its caller rolls the session     *)
(* back, so a refused operation leaves no trace and is not a step here.    *)
(* Money is a whole number of units, and so is the good.                   *)
(***************************************************************************)
EXTENDS Integers, Sequences, FiniteSets, Totals

CONSTANTS
    Folk,        \* the people a pack deals with
    House,       \* the businesses that run the packs
    LastTick     \* bound: ticks committed

Party == Folk \cup House

ASSUME PurseAssumption ==
    /\ IsFiniteSet(Folk) /\ Folk \cap House = {}
    /\ LastTick \in Nat

VARIABLES
    cash,        \* Account.balance of each party
    goods,       \* Holding.quantity of the pledgeable good
    tick         \* max(Tick.number)

purse == <<cash, goods, tick>>

Payment(from, to, amount) == [from |-> from, to |-> to, amount |-> amount]

\* What a payment must satisfy to go through: a positive amount that the
\* sender has.
(***************************************************************************)
(* Mutant: the balance is not looked at.                                   *)
(***************************************************************************)
ClearsOverdrawn(c, p) == p.amount > 0
Clears(c, p) == p.amount > 0 /\ p.amount <= c[p.from]

Moved(c, p) == [[c EXCEPT ![p.from] = @ - p.amount] EXCEPT ![p.to] = @ + p.amount]

\* One call of transfer, and two in a row of which the second finds what the
\* first left.
Pays(p) == Clears(cash, p) /\ cash' = Moved(cash, p)
PaysBoth(p, q) ==
    /\ Clears(cash, p) /\ Clears(Moved(cash, p), q)
    /\ cash' = Moved(Moved(cash, p), q)

\* A payment a script queued goes through or is refused on its own.
Resolved(c, p) == IF Clears(c, p) THEN Moved(c, p) ELSE c

\* A quantity of the good changes hands by authority.
Takes(from, to, quantity) ==
    goods' = [[goods EXCEPT ![from] = @ - quantity] EXCEPT ![to] = @ + quantity]

Lesser(m, n) == IF m < n THEN m ELSE n
Greater(m, n) == IF m > n THEN m ELSE n

\* The tick in progress is committed.
Ticks == tick < LastTick /\ tick' = tick + 1
============================================================================
