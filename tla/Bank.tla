-------------------------------- MODULE Bank -------------------------------
(***************************************************************************)
(* The commercial bank of src/contracts/bank.  Base money is in the        *)
(* reserve account; deposits are a book in the script's state, and lending *)
(* is an entry in that book which calls nothing in the engine.  The        *)
(* validator reserve_floor.lua gates what leaves the reserve.              *)
(***************************************************************************)
EXTENDS Purse

CONSTANTS
    Sums,        \* bound: sums deposited, lent and repaid
    DebtRates,   \* rates, in units of principal per tick
    Floor,       \* the reserve a bank must keep
    MaxDeposit   \* bound: deposits a bank lends up to

ASSUME BankAssumption ==
    /\ Sums \subseteq Nat \ {0} /\ DebtRates \subseteq Nat
    /\ {Floor, MaxDeposit} \subseteq Nat

VARIABLES
    deposits,    \* state.deposits of each bank
    debts,       \* state.loans of each bank
    capital,     \* history: what the owners put in
    forgotten    \* history: principal less repayments of the records written over

bankVars == <<deposits, debts, capital, forgotten>>

NoDebt == [principal |-> 0, rate |-> 0, interest |-> 0, accrued |-> 0, paid |-> 0, repaid |-> TRUE]

Due(debt) == IF debt.repaid THEN 0 ELSE debt.principal + debt.interest - debt.paid

TotalDeposits(k) == Total(deposits[k], Folk)

BankInit ==
    /\ deposits = [k \in House |-> [p \in Folk |-> 0]]
    /\ debts = [k \in House |-> [p \in Folk |-> NoDebt]]
    /\ capital = [k \in House |-> cash[k]]
    /\ forgotten = [k \in House |-> 0]

\* reserve_floor.lua, bound to the bank: an outward payment keeps the floor.
KeepsFloor(k, sum) == cash[k] - sum >= Floor

Deposit(k, p, sum) ==
    /\ Pays(Payment(p, k, sum))
    /\ deposits' = [deposits EXCEPT ![k][p] = @ + sum]
    /\ UNCHANGED <<goods, tick, debts, capital, forgotten>>

\* withdraw: the money goes first and the deposit is looked at after; a
\* deposit too small undoes both.
Withdraw(k, p, sum) ==
    /\ KeepsFloor(k, sum)
    /\ Pays(Payment(k, p, sum))
    /\ deposits[k][p] >= sum
    /\ deposits' = [deposits EXCEPT ![k][p] = @ - sum]
    /\ UNCHANGED <<goods, tick, debts, capital, forgotten>>

\* pay: two depositors of one bank; no base money moves.
PayInBook(k, p, to, sum) ==
    /\ deposits[k][p] >= sum
    /\ deposits' = [[deposits EXCEPT ![k][p] = @ - sum] EXCEPT ![k][to] = @ + sum]
    /\ UNCHANGED <<purse, debts, capital, forgotten>>

\* interbank_pay: the reserves settle what the two books say.
InterbankPay(k, p, other, to, sum) ==
    /\ deposits[k][p] >= sum
    /\ KeepsFloor(k, sum)
    /\ Pays(Payment(k, other, sum))
    /\ deposits' = [[deposits EXCEPT ![k][p] = @ - sum] EXCEPT ![other][to] = @ + sum]
    /\ UNCHANGED <<goods, tick, debts, capital, forgotten>>

\* lend: the deposit is created by writing it down, and so is the loan, over
\* whatever loan the borrower had.
Lend(k, p, sum, rate) ==
    /\ TotalDeposits(k) + sum <= MaxDeposit
    /\ deposits' = [deposits EXCEPT ![k][p] = @ + sum]
    /\ debts' = [debts EXCEPT ![k][p] = [principal |-> sum, rate |-> rate, interest |-> 0,
                                         accrued |-> tick, paid |-> 0, repaid |-> FALSE]]
    /\ forgotten' = [forgotten EXCEPT ![k] = @ + debts[k][p].principal - debts[k][p].paid]
    /\ UNCHANGED <<purse, capital>>

\* repay: the deposit that pays a loan off is destroyed.
RepayDebt(k, p, sum) ==
    LET debt    == debts[k][p]
        applied == Lesser(sum, Due(debt))
    IN  /\ ~debt.repaid
        /\ deposits[k][p] >= applied
        /\ deposits' = [deposits EXCEPT ![k][p] = @ - applied]
        /\ debts' = [debts EXCEPT ![k][p] =
                        [debt EXCEPT !.paid = @ + applied, !.repaid = Due(debt) <= applied]]
        /\ UNCHANGED <<purse, capital, forgotten>>

\* bank.lua for one loan in tick t.
Accrues(debt, t) ==
    IF debt.repaid THEN debt
    ELSE [debt EXCEPT !.interest = @ + debt.principal * debt.rate * (t - debt.accrued), !.accrued = t]

\* A tick runs the scripts of some banks and skips those of the others.
BankTick ==
    /\ Ticks
    /\ \E run \in SUBSET House :
           debts' = [k \in House |-> IF k \in run THEN [p \in Folk |-> Accrues(debts[k][p], tick + 1)]
                                    ELSE debts[k]]
    /\ UNCHANGED <<cash, goods, deposits, capital, forgotten>>

BankNext ==
    \/ \E k \in House, p \in Folk, sum \in Sums : Deposit(k, p, sum)
    \/ \E k \in House, p \in Folk, sum \in Sums : Withdraw(k, p, sum)
    \/ \E k \in House, p, to \in Folk, sum \in Sums : p # to /\ PayInBook(k, p, to, sum)
    \/ \E k, other \in House, p, to \in Folk, sum \in Sums :
           k # other /\ InterbankPay(k, p, other, to, sum)
    \/ \E k \in House, p \in Folk, sum \in Sums, rate \in DebtRates : Lend(k, p, sum, rate)
    \/ \E k \in House, p \in Folk, sum \in Sums : RepayDebt(k, p, sum)
    \/ BankTick

----------------------------------------------------------------------------
Lent(k) ==
    Total([p \in Folk |-> debts[k][p].principal], Folk) - Total([p \in Folk |-> debts[k][p].paid], Folk)

(***************************************************************************)
(* The two tiers of money agree.  What a bank owes its depositors is what  *)
(* they brought, which is in the reserve over its capital, and what it     *)
(* lent them and has not had back, whatever was paid between depositors,   *)
(* across banks, in interest, or withdrawn to the floor.                   *)
(***************************************************************************)
BalanceSheet ==
    \A k \in House :
        TotalDeposits(k) = cash[k] - capital[k] + Lent(k) + forgotten[k]

(***************************************************************************)
(* Every loan a bank made is on its book until it is repaid.  It does not  *)
(* hold: a second loan to the same borrower is written over the first.     *)
(***************************************************************************)
NoLoanIsForgotten ==
    \A k \in House, p \in Folk, sum \in Sums, rate \in DebtRates :
        Lend(k, p, sum, rate) => debts[k][p].repaid
============================================================================
