-------------------------------- MODULE Loan -------------------------------
(***************************************************************************)
(* The secured loan of src/contracts/loan: loan.py holds the book and the  *)
(* operations on it, loan.lua accrues interest and marks defaults every    *)
(* tick the lender's script gets to run, and usury_cap.lua is the          *)
(* validator that stands between a lender and the levy.  The validator     *)
(* cannot see the book, so the terms are mirrored in an oracle, one row    *)
(* for each borrower's account whoever the lender is.                      *)
(***************************************************************************)
EXTENDS Purse

CONSTANTS
    Lenders,     \* the houses that lend
    Principals,  \* bound: sums lent and repaid
    LoanRates,   \* rates a lender writes, in units of principal per tick
    Cap          \* the statutory rate, in the same unit

ASSUME LoanAssumption ==
    /\ Lenders \subseteq House /\ Principals \subseteq Nat \ {0}
    /\ LoanRates \subseteq Nat /\ Cap \in Nat

VARIABLES
    loans,       \* state.loans of each lender's script, by borrower
    oracle,      \* the rows loan:account:<id>, by borrower
    licence      \* LEVY and SEIZE, as far as the lenders hold them

loanVars == <<loans, oracle, licence>>

NoLoan == [status |-> "none", principal |-> 0, rate |-> 0, interest |-> 0, issued |-> 0,
           maturity |-> 0, accrued |-> 0, paid |-> 0, pledge |-> 0]
NoRow == [principal |-> 0, issued |-> 0, paid |-> 0]

Outstanding(loan) == loan.status \in {"active", "default"}

\* loan_due: what is still owed on a loan that is not settled.
Owed(loan) ==
    IF Outstanding(loan) THEN loan.principal + loan.interest - loan.paid ELSE 0

(***************************************************************************)
(* Mutant: the mirror is written with nothing paid.                        *)
(***************************************************************************)
MirrorUnpaid(loan) == [principal |-> loan.principal, issued |-> loan.issued, paid |-> 0]
Mirror(loan) == [principal |-> loan.principal, issued |-> loan.issued, paid |-> loan.paid]

LoanInit ==
    /\ loans = [l \in Lenders |-> [b \in Folk |-> NoLoan]]
    /\ oracle = [b \in Folk |-> NoRow]
    /\ licence \in SUBSET {"LEVY", "SEIZE"}

\* The book of l takes a new record for b and its mirror follows.
Books(l, b, loan) ==
    /\ loans' = [loans EXCEPT ![l][b] = loan]
    /\ oracle' = [oracle EXCEPT ![b] = Mirror(loan)]

\* create_loan: whatever the lender had on its book for this borrower is
\* written over.
CreateLoan(l, b, principal, rate, term, pledge) ==
    /\ Pays(Payment(l, b, principal))
    /\ Books(l, b, [status |-> "active", principal |-> principal, rate |-> rate, interest |-> 0,
                    issued |-> tick, maturity |-> tick + term, accrued |-> tick, paid |-> 0,
                    pledge |-> pledge])
    /\ UNCHANGED <<goods, tick, licence>>

Credited(loan, sum) == [loan EXCEPT !.paid = @ + sum]

RepayLoan(l, b, sum) ==
    LET loan    == loans[l][b]
        applied == Lesser(sum, Owed(loan))
        after   == Credited(loan, applied)
    IN  /\ Outstanding(loan)
        /\ Pays(Payment(b, l, applied))
        /\ Books(l, b, IF Owed(after) <= 0 THEN [after EXCEPT !.status = "settled"] ELSE after)
        /\ UNCHANGED <<goods, tick, licence>>

\* usury_cap.lua: the most the lender may compel.
LegalMax(row) == row.principal + row.principal * Cap * (tick - row.issued) - row.paid

Vetoed(b, sum) == oracle[b] # NoRow /\ sum > LegalMax(oracle[b])

\* enforce: levy what cash there is, seize the pledge if that left anything
\* owing, and close the loan whatever came of it.  A lender that lacks the
\* capability for a step it comes to gets nothing at all: that error is not
\* among those caught.
Enforce(l, b) ==
    LET loan   == loans[l][b]
        take   == Lesser(cash[b], Owed(loan))
        levied == IF take > 0 /\ ~Vetoed(b, take) THEN take ELSE 0
        wants  == loan.pledge > 0 /\ Owed(loan) > levied
    IN  /\ loan # NoLoan
        /\ take > 0 => "LEVY" \in licence
        /\ wants => "SEIZE" \in licence
        /\ IF levied > 0 THEN Pays(Payment(b, l, levied)) ELSE UNCHANGED cash
        /\ IF wants /\ goods[b] >= loan.pledge
           THEN Takes(b, l, loan.pledge) ELSE UNCHANGED goods
        /\ Books(l, b, [Credited(loan, levied) EXCEPT !.status = "settled"])
        /\ UNCHANGED <<tick, licence>>

\* loan.lua for one loan, in tick t: interest since it last accrued, and a
\* loan that has come due is in default or, if nothing is owed, settled.
Serviced(loan, t) ==
    LET accrued == [loan EXCEPT !.interest = @ + loan.principal * loan.rate * (t - loan.accrued),
                                !.accrued = t]
    IN  IF ~Outstanding(loan) THEN loan
        ELSE IF accrued.status = "active" /\ t >= loan.maturity
             THEN [accrued EXCEPT !.status = IF Owed(accrued) > 0 THEN "default" ELSE "settled"]
             ELSE accrued

\* A tick; the script may have been skipped for want of compute budget.
LoanTick ==
    /\ Ticks
    /\ loans' \in {loans, [l \in Lenders |-> [b \in Folk |-> Serviced(loans[l][b], tick + 1)]]}
    /\ UNCHANGED <<cash, goods, oracle, licence>>

\* The pledge stays with the borrower, who may sell it to somebody.
SellPledge(b, to) ==
    /\ goods[b] > 0
    /\ Pays(Payment(to, b, 1))
    /\ Takes(b, to, 1)
    /\ UNCHANGED <<tick, loanVars>>

LoanNext ==
    \/ \E l \in Lenders, b \in Folk, principal \in Principals, rate \in LoanRates, pledge \in {0, 1} :
           CreateLoan(l, b, principal, rate, 1, pledge)
    \/ \E l \in Lenders, b \in Folk, sum \in Principals : RepayLoan(l, b, sum)
    \/ \E l \in Lenders, b \in Folk : Enforce(l, b)
    \/ \E b, to \in Folk : b # to /\ SellPledge(b, to)
    \/ LoanTick

----------------------------------------------------------------------------
(***************************************************************************)
(* What a lender compels is bounded by the law and by its own book: over   *)
(* the life of a loan no more money than the principal, the statutory      *)
(* interest since it was made and less what came back already, and no more *)
(* goods than were pledged, from a borrower who still owed it something.   *)
(* The validator judges by the oracle, so this is about the mirror being   *)
(* kept in step by every operation on the book.                            *)
(***************************************************************************)
ForeclosureIsLawful ==
    \A l \in Lenders, b \in Folk : Enforce(l, b) =>
        LET loan == loans[l][b]
        IN  /\ cash[b] - cash'[b] > 0 =>
                   cash[b] - cash'[b] <= Lesser(Owed(loan), LegalMax(loan))
            /\ goods[b] - goods'[b] > 0 => goods[b] - goods'[b] = loan.pledge /\ Owed(loan) > 0
            /\ loans'[l][b].status = "settled"

(***************************************************************************)
(* Foreclosure is for default: "on default enforces".  It does not hold:   *)
(* enforce asks nothing about the status of the loan.                      *)
(***************************************************************************)
OnlyOnDefault ==
    \A l \in Lenders, b \in Folk :
        Enforce(l, b) /\ cash'[b] < cash[b] => loans[l][b].status = "default"
============================================================================
