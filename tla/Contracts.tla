------------------------------ MODULE Contracts ----------------------------
(***************************************************************************)
(* The contract packs side by side on one purse.  They share the accounts, *)
(* the good and the clock and nothing else, so a world keeps one of them   *)
(* busy, its `line', and holds the others still.                           *)
(***************************************************************************)
EXTENDS Loan, Bank, Bond, Exchange, Insurance

CONSTANTS
    Lines,       \* the packs a world may be about
    Purses,      \* what the accounts may hold at first, by line; a pool is opened empty
    Opened       \* the last tick committed when the pack is opened, by line

ASSUME ContractsAssumption ==
    /\ Lines \subseteq {"loan", "bank", "bond", "exchange", "insurance"}
    /\ \A l \in Lines : Purses[l] \subseteq [Party -> Nat] /\ Opened[l] \in 0..LastTick
    /\ "exchange" \in Lines =>
           \A c \in Purses["exchange"], kind \in Kinds : c[Pool[kind]] = 0

VARIABLE line

vars == <<line, purse, loanVars, bankVars, bondVars, exchangeVars, insuranceVars>>

Init ==
    /\ line \in Lines
    /\ cash \in Purses[line]
    /\ goods = [p \in Party |-> IF p \in Folk THEN 1 ELSE 0]
    /\ tick = Opened[line]
    /\ LoanInit /\ (line # "loan" => licence = {})
    /\ BankInit
    /\ BondInit
    /\ ExchangeInit /\ (line # "exchange" => seizes = {})
    /\ InsuranceInit

Next ==
    \/ line = "loan" /\ LoanNext
          /\ UNCHANGED <<line, bankVars, bondVars, exchangeVars, insuranceVars>>
    \/ line = "bank" /\ BankNext
          /\ UNCHANGED <<line, loanVars, bondVars, exchangeVars, insuranceVars>>
    \/ line = "bond" /\ BondNext
          /\ UNCHANGED <<line, loanVars, bankVars, exchangeVars, insuranceVars>>
    \/ line = "exchange" /\ ExchangeNext
          /\ UNCHANGED <<line, loanVars, bankVars, bondVars, insuranceVars>>
    \/ line = "insurance" /\ InsuranceNext
          /\ UNCHANGED <<line, loanVars, bankVars, bondVars, exchangeVars>>

Spec == Init /\ [][Next]_vars

----------------------------------------------------------------------------
\* Money, goods and books never go below nothing, and no interest is accrued
\* ahead of the clock; a bank is not repaid more than it is owed.
PurseOK ==
    /\ line \in Lines /\ tick \in 0..LastTick
    /\ cash \in [Party -> Nat] /\ goods \in [Party -> Nat]

LoanRecord ==
    [status : {"none", "active", "default", "settled"}, principal : Nat, rate : Nat, interest : Nat,
     issued : Nat, maturity : Nat, accrued : Nat, paid : Nat, pledge : Nat]
LoanOK ==
    /\ loans \in [Lenders -> [Folk -> LoanRecord]]
    /\ oracle \in [Folk -> [principal : Nat, issued : Nat, paid : Nat]]
    /\ licence \subseteq {"LEVY", "SEIZE"}
    /\ \A l \in Lenders, b \in Folk : loans[l][b].accrued <= tick

DebtRecord ==
    [principal : Nat, rate : Nat, interest : Nat, accrued : Nat, paid : Nat, repaid : BOOLEAN]
BankOK ==
    /\ deposits \in [House -> [Folk -> Nat]]
    /\ debts \in [House -> [Folk -> DebtRecord]]
    /\ capital \in [House -> Nat] /\ forgotten \in [House -> Int]
    /\ \A k \in House, p \in Folk :
          debts[k][p].accrued <= tick /\ debts[k][p].paid <= debts[k][p].principal + debts[k][p].interest

BondOK ==
    /\ bonds \in [Symbols -> [issued : Nat, maturity : Nat, settled : Nat, redeemed : BOOLEAN]]
    /\ {units, coupons, faces} \subseteq [Symbols -> [Folk -> Nat]]
    /\ {sold, spent} \subseteq [Symbols -> Nat]

PositionRecord ==
    [kind : Kinds, long : Folk, short : Folk, lot : Lots, strike : Strikes, margin : Margins,
     expiry : Nat, credit : Int, status : {"open", "breached", "expired", "settled"}]
ExchangeOK ==
    /\ positions \in Seq(PositionRecord)
    /\ price \in Prices \cup {Dark}
    /\ documented \in [House -> [Folk -> Nat]] /\ seizes \subseteq House

PolicyRecord ==
    [heir : Folk, coverage : Coverages, term : Nat, triggered : BOOLEAN, paid : BOOLEAN]
InsuranceOK ==
    /\ policies \in [Folk -> PolicyRecord \cup {NoPolicy}]
    /\ coverage \in [Folk -> Nat] /\ received \in [Folk -> Nat] /\ fallen \in [Folk -> Nat]

TypeOK == PurseOK /\ LoanOK /\ BankOK /\ BondOK /\ ExchangeOK /\ InsuranceOK

(***************************************************************************)
(* The books agree with the money: a bank's with its reserve, an           *)
(* exchange's with its pool, an issuer's with what its bonds have cost it  *)
(* and an insurer's with what its beneficiaries received.                  *)
(***************************************************************************)
BooksBalance ==
    /\ line = "bank" => BalanceSheet
    /\ line = "exchange" => PoolIsTheBook
    /\ CouponsArePaidOnce
    /\ PaidIsPaid

(***************************************************************************)
(* What is taken by force is taken within the law and the contract, by a   *)
(* lender that forecloses and by an exchange that settles.                 *)
(***************************************************************************)
ForceIsLawful == [][ForeclosureIsLawful /\ SettlementIsFair]_vars
============================================================================
