--------------------------- MODULE Contracts_proofs ---------------------------
(* Theorems about the contract packs, for any people, terms and prices:    *)
(* types, what is taken by force is within the law, and every contract's   *)
(* book agrees with the money behind it.                                   *)
EXTENDS Contracts, Totals_proofs

----------------------------------------------------------------------------
(* The two movements.                                                      *)
LEMMA Parties == Folk \subseteq Party /\ House \subseteq Party /\ \A f \in Folk, h \in House : f # h
  BY PurseAssumption DEF Party

(* What a movement of n to or from y is to x.                              *)
Part(x, y, n) == IF x = y THEN n ELSE 0

LEMMA MovedIs ==
  ASSUME NEW c \in [Party -> Nat], NEW from \in Party, NEW to \in Party,
         NEW sum \in Int, Clears(c, Payment(from, to, sum))
  PROVE  LET m == Moved(c, Payment(from, to, sum))
         IN  /\ sum > 0 /\ sum <= c[from]
             /\ m \in [Party -> Nat]
             /\ \A x \in Party : m[x] = c[x] - Part(x, from, sum) + Part(x, to, sum)
  BY DEF Clears, Moved, Payment, Part

LEMMA PaysIs ==
  ASSUME cash \in [Party -> Nat], NEW from \in Party, NEW to \in Party, from # to,
         NEW sum \in Int, Pays(Payment(from, to, sum))
  PROVE  /\ sum > 0 /\ sum <= cash[from]
         /\ cash' \in [Party -> Nat]
         /\ \A x \in Party : cash'[x] = IF x = from THEN cash[x] - sum
                                        ELSE IF x = to THEN cash[x] + sum ELSE cash[x]
  BY MovedIs DEF Pays, Part

LEMMA PaysBothIs ==
  ASSUME cash \in [Party -> Nat], NEW from1 \in Party, NEW to1 \in Party,
         NEW from2 \in Party, NEW to2 \in Party,
         NEW sum1 \in Int, NEW sum2 \in Int,
         PaysBoth(Payment(from1, to1, sum1), Payment(from2, to2, sum2))
  PROVE  /\ sum1 > 0 /\ sum2 > 0
         /\ cash' \in [Party -> Nat]
         /\ \A x \in Party :
              cash'[x] = cash[x] - Part(x, from1, sum1) + Part(x, to1, sum1)
                                 - Part(x, from2, sum2) + Part(x, to2, sum2)
<1> DEFINE mid == Moved(cash, Payment(from1, to1, sum1))
<1>1. /\ Clears(cash, Payment(from1, to1, sum1))
      /\ Clears(mid, Payment(from2, to2, sum2))
      /\ cash' = Moved(mid, Payment(from2, to2, sum2))
  BY DEF PaysBoth
<1>2. /\ sum1 > 0 /\ mid \in [Party -> Nat]
      /\ \A x \in Party : mid[x] = cash[x] - Part(x, from1, sum1) + Part(x, to1, sum1)
  BY <1>1, MovedIs
<1> HIDE DEF mid
<1>3. /\ sum2 > 0 /\ cash' \in [Party -> Nat]
      /\ \A x \in Party : cash'[x] = mid[x] - Part(x, from2, sum2) + Part(x, to2, sum2)
  BY <1>1, <1>2, MovedIs
<1> QED BY <1>2, <1>3 DEF Part

LEMMA TakesIs ==
  ASSUME goods \in [Party -> Nat], NEW from \in Party, NEW to \in Party,
         NEW n \in Nat, n <= goods[from], Takes(from, to, n)
  PROVE  /\ goods' \in [Party -> Nat]
         /\ \A x \in Party : goods'[x] = goods[x] - Part(x, from, n) + Part(x, to, n)
  BY DEF Takes, Part

(* A tick that passes leaves every date behind it.                         *)
LEMMA TicksIs ==
  ASSUME tick \in 0..LastTick, Ticks
  PROVE  tick' \in 0..LastTick /\ tick' = tick + 1 /\ tick \in Nat
  BY PurseAssumption DEF Ticks

----------------------------------------------------------------------------
(* Each pack keeps the purse and its own books typed.                      *)
LEMMA OwedType ==
  ASSUME NEW loan \in LoanRecord
  PROVE  Owed(loan) \in Int
  BY DEF Owed, Outstanding, LoanRecord

LEMMA CreditedType ==
  ASSUME NEW loan \in LoanRecord, NEW n \in Nat
  PROVE  /\ Credited(loan, n) \in LoanRecord
         /\ [Credited(loan, n) EXCEPT !.status = "settled"] \in LoanRecord
         /\ Credited(loan, n).accrued = loan.accrued
         /\ [Credited(loan, n) EXCEPT !.status = "settled"].accrued = loan.accrued
<1>1. Credited(loan, n) \in LoanRecord /\ Credited(loan, n).accrued = loan.accrued
  BY DEF Credited, LoanRecord
<1> QED BY <1>1 DEF LoanRecord

LEMMA BooksType ==
  ASSUME LoanOK, tick \in Nat, NEW l \in Lenders, NEW b \in Folk, NEW loan \in LoanRecord,
         loan.accrued <= tick, tick' = tick, licence' = licence, Books(l, b, loan)
  PROVE  LoanOK'
<1>1. Mirror(loan) \in [principal : Nat, issued : Nat, paid : Nat]
  BY DEF Mirror, LoanRecord
<1>2. oracle' \in [Folk -> [principal : Nat, issued : Nat, paid : Nat]]
  BY <1>1 DEF Books, LoanOK
<1>3. loans' \in [Lenders -> [Folk -> LoanRecord]]
  BY DEF Books, LoanOK
<1>4. \A m \in Lenders, p \in Folk : loans'[m][p] = IF m = l /\ p = b THEN loan ELSE loans[m][p]
  BY DEF Books, LoanOK
<1> QED BY <1>2, <1>3, <1>4 DEF LoanOK

LEMMA ServicedType ==
  ASSUME NEW loan \in LoanRecord, NEW t \in Nat, loan.accrued <= t
  PROVE  /\ Serviced(loan, t) \in LoanRecord
         /\ Serviced(loan, t).accrued <= t
         /\ Mirror(Serviced(loan, t)) = Mirror(loan)
         /\ Serviced(loan, t).principal = loan.principal
         /\ ~Outstanding(loan) => Serviced(loan, t) = loan
<1> DEFINE grown == [loan EXCEPT !.interest = @ + loan.principal * loan.rate * (t - loan.accrued),
                                 !.accrued = t]
<1>1. /\ loan.principal \in Nat /\ loan.rate \in Nat /\ t - loan.accrued \in Nat /\ loan.interest \in Nat
  BY DEF LoanRecord
<1>2. loan.principal * loan.rate \in Nat
  BY <1>1
<1>3. loan.principal * loan.rate * (t - loan.accrued) \in Nat
  BY <1>1, <1>2
<1>4. /\ grown \in LoanRecord /\ grown.accrued = t /\ grown.status = loan.status
      /\ grown.principal = loan.principal /\ grown.issued = loan.issued /\ grown.paid = loan.paid
  <2> DEFINE more == loan.interest + loan.principal * loan.rate * (t - loan.accrued)
             mid  == [loan EXCEPT !.interest = more]
  <2>1. more \in Nat
    BY <1>1, <1>3
  <2> HIDE DEF more
  <2>2. mid \in LoanRecord
    BY <2>1 DEF LoanRecord
  <2>3. /\ mid.status = loan.status /\ mid.principal = loan.principal
        /\ mid.issued = loan.issued /\ mid.paid = loan.paid
    BY DEF LoanRecord
  <2>4. grown = [mid EXCEPT !.accrued = t]
    BY DEF more
  <2> HIDE DEF mid, grown
  <2> QED BY <2>2, <2>3, <2>4 DEF LoanRecord
<1>5. Serviced(loan, t) = IF ~Outstanding(loan) THEN loan
                          ELSE IF grown.status = "active" /\ t >= grown.maturity
                          THEN [grown EXCEPT !.status = IF Owed(grown) > 0 THEN "default" ELSE "settled"]
                          ELSE grown
  BY DEF Serviced
<1> HIDE DEF grown
<1>6. \A s \in {"default", "settled"} :
         LET g == [grown EXCEPT !.status = s]
         IN  g \in LoanRecord /\ g.accrued = t /\ g.principal = loan.principal
             /\ g.issued = loan.issued /\ g.paid = loan.paid
  BY <1>4 DEF LoanRecord
<1> QED BY <1>4, <1>5, <1>6 DEF Mirror

LEMMA LoanKeeps ==
  ASSUME PurseOK, LoanOK, line' = line, LoanNext
  PROVE  PurseOK' /\ LoanOK' /\ tick <= tick'
<1> USE Parties
<1>0. /\ Lenders \subseteq Party /\ tick \in Nat /\ Principals \subseteq Nat /\ LoanRates \subseteq Nat
      /\ \A l \in Lenders, b \in Folk : l # b
  BY PurseAssumption, LoanAssumption DEF PurseOK
<1>1. ASSUME NEW l \in Lenders, NEW b \in Folk, NEW principal \in Principals, NEW rate \in LoanRates,
             NEW pledge \in {0, 1}, CreateLoan(l, b, principal, rate, 1, pledge)
      PROVE  PurseOK' /\ LoanOK' /\ tick <= tick'
  <2> DEFINE new == [status |-> "active", principal |-> principal, rate |-> rate, interest |-> 0,
                     issued |-> tick, maturity |-> tick + 1, accrued |-> tick, paid |-> 0,
                     pledge |-> pledge]
  <2>1. principal \in Nat /\ rate \in Nat /\ pledge \in Nat /\ tick + 1 \in Nat
    BY <1>0
  <2>2. new \in LoanRecord /\ new.accrued <= tick
    BY <1>0, <2>1 DEF LoanRecord
  <2>3. Pays(Payment(l, b, principal)) /\ Books(l, b, new) /\ UNCHANGED <<goods, tick, licence>>
    BY <1>1 DEF CreateLoan
  <2> HIDE DEF new
  <2>4. LoanOK'
    BY <1>0, <2>2, <2>3, BooksType
  <2> QED BY <1>0, <2>3, <2>4, PaysIs DEF PurseOK
<1>2. ASSUME NEW l \in Lenders, NEW b \in Folk, NEW sum \in Principals, RepayLoan(l, b, sum)
      PROVE  PurseOK' /\ LoanOK' /\ tick <= tick'
  <2> DEFINE loan    == loans[l][b]
             applied == Lesser(sum, Owed(loan))
             after   == Credited(loan, applied)
             new     == IF Owed(after) <= 0 THEN [after EXCEPT !.status = "settled"] ELSE after
  <2>1. Pays(Payment(b, l, applied)) /\ Books(l, b, new) /\ UNCHANGED <<goods, tick, licence>>
    BY <1>2 DEF RepayLoan
  <2>2. loan \in LoanRecord /\ loan.accrued <= tick
    BY DEF LoanOK
  <2>3. applied \in Int
    BY <1>0, <2>2, OwedType DEF Lesser
  <2> HIDE DEF loan, applied
  <2>4. applied \in Nat /\ cash' \in [Party -> Nat]
    BY <1>0, <2>1, <2>3, PaysIs DEF PurseOK
  <2>5. new \in LoanRecord /\ new.accrued <= tick
    BY <2>2, <2>4, CreditedType
  <2> HIDE DEF after, new
  <2>6. LoanOK'
    BY <1>0, <2>1, <2>5, BooksType
  <2> QED BY <1>0, <2>1, <2>4, <2>6 DEF PurseOK
<1>3. ASSUME NEW l \in Lenders, NEW b \in Folk, Enforce(l, b)
      PROVE  PurseOK' /\ LoanOK' /\ tick <= tick'
  <2> DEFINE loan   == loans[l][b]
             take   == Lesser(cash[b], Owed(loan))
             levied == IF take > 0 /\ ~Vetoed(b, take) THEN take ELSE 0
             wants  == loan.pledge > 0 /\ Owed(loan) > levied
             new    == [Credited(loan, levied) EXCEPT !.status = "settled"]
  <2>1. /\ IF levied > 0 THEN Pays(Payment(b, l, levied)) ELSE UNCHANGED cash
        /\ IF wants /\ goods[b] >= loan.pledge THEN Takes(b, l, loan.pledge) ELSE UNCHANGED goods
        /\ Books(l, b, new) /\ UNCHANGED <<tick, licence>>
    BY <1>3 DEF Enforce
  <2>2. loan \in LoanRecord /\ loan.accrued <= tick /\ loan.pledge \in Nat
    BY DEF LoanOK, LoanRecord
  <2>3. levied \in Nat
    BY <2>2, OwedType DEF Lesser, PurseOK
  <2> HIDE DEF loan, levied, wants
  <2>4. new \in LoanRecord /\ new.accrued <= tick
    BY <2>2, <2>3, CreditedType
  <2> HIDE DEF new
  <2>5. LoanOK'
    BY <1>0, <2>1, <2>4, BooksType
  <2>6. cash' \in [Party -> Nat]
    BY <1>0, <2>1, <2>3, PaysIs DEF PurseOK
  <2>7. goods' \in [Party -> Nat]
    BY <1>0, <2>1, <2>2, TakesIs DEF PurseOK
  <2> QED BY <1>0, <2>1, <2>5, <2>6, <2>7 DEF PurseOK
<1>4. ASSUME NEW b \in Folk, NEW to \in Folk, b # to, SellPledge(b, to)
      PROVE  PurseOK' /\ LoanOK' /\ tick <= tick'
  <2>1. goods[b] > 0 /\ Pays(Payment(to, b, 1)) /\ Takes(b, to, 1) /\ UNCHANGED <<tick, loans, oracle, licence>>
    BY <1>4 DEF SellPledge, loanVars
  <2>2. cash' \in [Party -> Nat]
    BY <1>4, <2>1, PaysIs DEF PurseOK
  <2>3. goods' \in [Party -> Nat]
    <3>1. goods \in [Party -> Nat] /\ 1 <= goods[b]
      BY <2>1 DEF PurseOK
    <3> QED BY <1>4, <2>1, <3>1, TakesIs
  <2> QED BY <1>0, <2>1, <2>2, <2>3 DEF PurseOK, LoanOK
<1>5. ASSUME LoanTick
      PROVE  PurseOK' /\ LoanOK' /\ tick <= tick'
  <2>1. Ticks /\ UNCHANGED <<cash, goods, oracle, licence>>
    BY <1>5 DEF LoanTick
  <2>2. tick' \in 0..LastTick /\ tick' = tick + 1
    BY <2>1, TicksIs DEF PurseOK
  <2>3. \/ loans' = loans
        \/ loans' = [l \in Lenders |-> [b \in Folk |-> Serviced(loans[l][b], tick + 1)]]
    BY <1>5 DEF LoanTick
  <2>4. \A l \in Lenders, b \in Folk :
           Serviced(loans[l][b], tick + 1) \in LoanRecord /\ Serviced(loans[l][b], tick + 1).accrued <= tick + 1
    <3> SUFFICES ASSUME NEW l \in Lenders, NEW b \in Folk
                 PROVE  /\ Serviced(loans[l][b], tick + 1) \in LoanRecord
                        /\ Serviced(loans[l][b], tick + 1).accrued <= tick + 1
      OBVIOUS
    <3>1. loans[l][b] \in LoanRecord /\ loans[l][b].accrued <= tick + 1 /\ tick + 1 \in Nat
      BY <1>0 DEF LoanOK, LoanRecord
    <3> QED BY <3>1, ServicedType
  <2>5. \A l \in Lenders, b \in Folk : loans[l][b].accrued <= tick + 1
    BY <1>0 DEF LoanOK, LoanRecord
  <2>6. loans' \in [Lenders -> [Folk -> LoanRecord]]
    BY <2>3, <2>4 DEF LoanOK
  <2>7. \A l \in Lenders, b \in Folk : loans'[l][b].accrued <= tick'
    BY <2>2, <2>3, <2>4, <2>5
  <2> QED BY <1>0, <2>1, <2>2, <2>6, <2>7 DEF PurseOK, LoanOK
<1> QED BY <1>1, <1>2, <1>3, <1>4, <1>5 DEF LoanNext

LEMMA AccruesType ==
  ASSUME NEW debt \in DebtRecord, NEW t \in Nat, debt.accrued <= t
  PROVE  /\ Accrues(debt, t) \in DebtRecord
         /\ Accrues(debt, t).accrued <= t
         /\ Accrues(debt, t).principal = debt.principal /\ Accrues(debt, t).paid = debt.paid
         /\ Accrues(debt, t).interest >= debt.interest
<1> DEFINE more == debt.interest + debt.principal * debt.rate * (t - debt.accrued)
           mid  == [debt EXCEPT !.interest = more]
<1>1. /\ debt.principal \in Nat /\ debt.rate \in Nat /\ t - debt.accrued \in Nat /\ debt.interest \in Nat
  BY DEF DebtRecord
<1>2. debt.principal * debt.rate \in Nat
  BY <1>1
<1>3. more \in Nat /\ more >= debt.interest
  BY <1>1, <1>2
<1>4. Accrues(debt, t) = IF debt.repaid THEN debt ELSE [mid EXCEPT !.accrued = t]
  BY DEF Accrues
<1> HIDE DEF more
<1>5. /\ mid \in DebtRecord /\ mid.principal = debt.principal /\ mid.paid = debt.paid
      /\ mid.interest >= debt.interest
  BY <1>3 DEF DebtRecord
<1> HIDE DEF mid
<1> QED BY <1>4, <1>5 DEF DebtRecord

LEMMA BankKeeps ==
  ASSUME PurseOK, BankOK, line' = line, BankNext
  PROVE  PurseOK' /\ BankOK' /\ tick <= tick'
<1> USE Parties
<1>0. tick \in Nat /\ Sums \subseteq Nat /\ DebtRates \subseteq Nat
  BY BankAssumption DEF PurseOK
<1>1. ASSUME NEW k \in House, NEW p \in Folk, NEW sum \in Sums, Deposit(k, p, sum)
      PROVE  PurseOK' /\ BankOK' /\ tick <= tick'
  <2>1. deposits[k][p] \in Nat /\ deposits[k][p] + sum \in Nat
    BY <1>0 DEF BankOK
  <2>2. BankOK'
    BY <1>1, <2>1 DEF BankOK, Deposit
  <2> QED BY <1>0, <1>1, <2>2, PaysIs DEF PurseOK, Deposit
<1>2. ASSUME NEW k \in House, NEW p \in Folk, NEW sum \in Sums, Withdraw(k, p, sum)
      PROVE  PurseOK' /\ BankOK' /\ tick <= tick'
  <2>1. deposits[k][p] - sum \in Nat
    BY <1>0, <1>2 DEF BankOK, Withdraw
  <2>2. BankOK'
    BY <1>2, <2>1 DEF BankOK, Withdraw
  <2> QED BY <1>0, <1>2, <2>2, PaysIs DEF PurseOK, Withdraw
<1>3. ASSUME NEW k \in House, NEW p \in Folk, NEW to \in Folk, NEW sum \in Sums, p # to,
             PayInBook(k, p, to, sum)
      PROVE  PurseOK' /\ BankOK' /\ tick <= tick'
  <2> DEFINE mid == [deposits EXCEPT ![k][p] = @ - sum]
  <2>1. deposits[k][p] - sum \in Nat
    BY <1>0, <1>3 DEF BankOK, PayInBook
  <2>2. mid \in [House -> [Folk -> Nat]]
    BY <2>1 DEF BankOK
  <2>3. deposits' = [mid EXCEPT ![k][to] = @ + sum] /\ UNCHANGED <<purse, debts, capital, forgotten>>
    BY <1>3 DEF PayInBook
  <2> HIDE DEF mid
  <2>4. mid[k][to] + sum \in Nat
    BY <2>2, <1>0
  <2>5. deposits' \in [House -> [Folk -> Nat]]
    BY <2>2, <2>3, <2>4
  <2> QED BY <1>0, <2>3, <2>5 DEF PurseOK, BankOK, purse
<1>4. ASSUME NEW k \in House, NEW other \in House, NEW p \in Folk, NEW to \in Folk, NEW sum \in Sums,
             k # other, InterbankPay(k, p, other, to, sum)
      PROVE  PurseOK' /\ BankOK' /\ tick <= tick'
  <2> DEFINE mid == [deposits EXCEPT ![k][p] = @ - sum]
  <2>1. deposits[k][p] - sum \in Nat
    BY <1>0, <1>4 DEF BankOK, InterbankPay
  <2>2. mid \in [House -> [Folk -> Nat]]
    BY <2>1 DEF BankOK
  <2>3. deposits' = [mid EXCEPT ![other][to] = @ + sum]
    BY <1>4 DEF InterbankPay
  <2> HIDE DEF mid
  <2>4. mid[other][to] + sum \in Nat
    BY <2>2, <1>0
  <2>5. deposits' \in [House -> [Folk -> Nat]]
    BY <2>2, <2>3, <2>4
  <2>6. Pays(Payment(k, other, sum)) /\ UNCHANGED <<goods, tick, debts, capital, forgotten>>
    BY <1>4 DEF InterbankPay
  <2>7. cash' \in [Party -> Nat]
    BY <1>0, <1>4, <2>6, PaysIs DEF PurseOK
  <2> QED BY <1>0, <2>5, <2>6, <2>7 DEF PurseOK, BankOK
<1>5. ASSUME NEW k \in House, NEW p \in Folk, NEW sum \in Sums, NEW rate \in DebtRates, Lend(k, p, sum, rate)
      PROVE  PurseOK' /\ BankOK' /\ tick <= tick'
  <2> DEFINE new == [principal |-> sum, rate |-> rate, interest |-> 0,
                     accrued |-> tick, paid |-> 0, repaid |-> FALSE]
             more == forgotten[k] + debts[k][p].principal - debts[k][p].paid
  <2>1. deposits[k][p] + sum \in Nat
    BY <1>0 DEF BankOK
  <2>2. new \in DebtRecord /\ new.accrued = tick /\ new.paid <= new.principal + new.interest
    BY <1>0 DEF DebtRecord
  <2>3. more \in Int
    BY DEF BankOK, DebtRecord
  <2>4. /\ deposits' = [deposits EXCEPT ![k][p] = @ + sum]
        /\ debts' = [debts EXCEPT ![k][p] = new]
        /\ forgotten' = [forgotten EXCEPT ![k] = more]
        /\ UNCHANGED <<cash, goods, tick, capital>>
    BY <1>5 DEF Lend, BankOK, purse
  <2> HIDE DEF new, more
  <2>5. debts' \in [House -> [Folk -> DebtRecord]]
    BY <2>2, <2>4 DEF BankOK
  <2>6. \A j \in House, q \in Folk :
           debts'[j][q].accrued <= tick' /\ debts'[j][q].paid <= debts'[j][q].principal + debts'[j][q].interest
    BY <2>2, <2>4, <1>0 DEF BankOK
  <2>7. deposits' \in [House -> [Folk -> Nat]]
    BY <2>1, <2>4 DEF BankOK
  <2>8. forgotten' \in [House -> Int] /\ capital' \in [House -> Nat]
    BY <2>3, <2>4 DEF BankOK
  <2> QED BY <1>0, <2>4, <2>5, <2>6, <2>7, <2>8 DEF PurseOK, BankOK
<1>6. ASSUME NEW k \in House, NEW p \in Folk, NEW sum \in Sums, RepayDebt(k, p, sum)
      PROVE  PurseOK' /\ BankOK' /\ tick <= tick'
  <2> DEFINE debt    == debts[k][p]
             applied == Lesser(sum, Due(debt))
             mid     == [debt EXCEPT !.paid = @ + applied]
             new     == [mid EXCEPT !.repaid = Due(debt) <= applied]
  <2>1. /\ debt \in DebtRecord /\ debt.accrued <= tick /\ deposits[k][p] \in Nat
        /\ debt.paid <= debt.principal + debt.interest
    BY DEF BankOK
  <2>2. ~debt.repaid /\ deposits[k][p] >= applied
    BY <1>6 DEF RepayDebt
  <2>3. /\ debt.paid + applied \in Nat /\ deposits[k][p] - applied \in Nat
        /\ debt.paid + applied <= debt.principal + debt.interest
    <3>1. /\ Due(debt) = debt.principal + debt.interest - debt.paid
          /\ debt.paid \in Nat /\ debt.principal \in Nat /\ debt.interest \in Nat
      BY <2>1, <2>2 DEF Due, DebtRecord
    <3> QED BY <1>0, <2>1, <2>2, <3>1 DEF Lesser
  <2>4. /\ deposits' = [deposits EXCEPT ![k][p] = @ - applied]
        /\ debts' = [debts EXCEPT ![k][p] = new]
        /\ UNCHANGED <<cash, goods, tick, capital, forgotten>>
    BY <1>6 DEF RepayDebt, BankOK, purse
  <2>5. (Due(debt) <= applied) \in BOOLEAN
    OBVIOUS
  <2> HIDE DEF debt, applied
  <2>6. /\ mid \in DebtRecord /\ mid.accrued = debt.accrued /\ mid.paid = debt.paid + applied
        /\ mid.principal = debt.principal /\ mid.interest = debt.interest
    BY <2>1, <2>3 DEF DebtRecord
  <2> HIDE DEF mid
  <2>7. /\ new \in DebtRecord /\ new.accrued <= tick
        /\ new.paid <= new.principal + new.interest
    BY <2>1, <2>3, <2>5, <2>6 DEF DebtRecord
  <2> HIDE DEF new
  <2>8. deposits' \in [House -> [Folk -> Nat]]
    BY <2>3, <2>4 DEF BankOK
  <2>9. debts' \in [House -> [Folk -> DebtRecord]]
    BY <2>4, <2>7 DEF BankOK
  <2>10. \A j \in House, q \in Folk :
           debts'[j][q].accrued <= tick' /\ debts'[j][q].paid <= debts'[j][q].principal + debts'[j][q].interest
    BY <2>4, <2>7 DEF BankOK
  <2> QED BY <1>0, <2>4, <2>8, <2>9, <2>10 DEF PurseOK, BankOK
<1>7. ASSUME BankTick
      PROVE  PurseOK' /\ BankOK' /\ tick <= tick'
  <2>1. /\ Ticks /\ UNCHANGED <<cash, goods, deposits, capital, forgotten>>
    BY <1>7 DEF BankTick
  <2>a. PICK run \in SUBSET House :
           debts' = [k \in House |-> IF k \in run THEN [p \in Folk |-> Accrues(debts[k][p], tick + 1)]
                                    ELSE debts[k]]
    BY <1>7 DEF BankTick
  <2>2. tick' \in 0..LastTick /\ tick' = tick + 1
    BY <2>1, TicksIs DEF PurseOK
  <2>3. ASSUME NEW k \in House, NEW p \in Folk
        PROVE  LET new == Accrues(debts[k][p], tick + 1)
               IN  /\ new \in DebtRecord /\ new.accrued <= tick + 1
                   /\ new.paid <= new.principal + new.interest
    <3>1. /\ debts[k][p] \in DebtRecord /\ debts[k][p].accrued <= tick + 1 /\ tick + 1 \in Nat
          /\ debts[k][p].paid <= debts[k][p].principal + debts[k][p].interest
      BY <1>0 DEF BankOK, DebtRecord
    <3>2. LET new == Accrues(debts[k][p], tick + 1)
          IN  /\ new \in DebtRecord /\ new.accrued <= tick + 1
              /\ new.principal = debts[k][p].principal /\ new.paid = debts[k][p].paid
              /\ new.interest >= debts[k][p].interest
      BY <3>1, AccruesType
    <3> QED BY <3>1, <3>2 DEF DebtRecord
  <2>4. \A k \in House, p \in Folk : debts[k][p].accrued <= tick + 1
    BY <1>0 DEF BankOK, DebtRecord
  <2>5. debts' \in [House -> [Folk -> DebtRecord]]
    BY <2>a, <2>3 DEF BankOK
  <2>6. \A j \in House, q \in Folk :
           debts'[j][q].accrued <= tick' /\ debts'[j][q].paid <= debts'[j][q].principal + debts'[j][q].interest
    BY <2>a, <2>2, <2>3, <2>4 DEF BankOK
  <2> QED BY <1>0, <2>1, <2>2, <2>5, <2>6 DEF PurseOK, BankOK
<1> QED BY <1>1, <1>2, <1>3, <1>4, <1>5, <1>6, <1>7 DEF BankNext

BondRecord == [issued : Nat, maturity : Nat, settled : Nat, redeemed : BOOLEAN]

LEMMA ElapsedType ==
  ASSUME NEW b \in BondRecord, NEW t \in Nat
  PROVE  Elapsed(b, t) \in Int /\ Elapsed(b, t) <= Periods
<1>1. t - b.issued \in Int /\ Interval \in Nat /\ Interval > 0 /\ Periods \in Nat
  BY BondAssumption DEF BondRecord
<1>2. (t - b.issued) \div Interval \in Int
  BY <1>1
<1> QED BY <1>1, <1>2 DEF Elapsed, Lesser

LEMMA AdvancedType ==
  ASSUME NEW b \in BondRecord, NEW t \in Nat
  PROVE  /\ Advanced(b, t) \in BondRecord /\ Advanced(b, t).issued = b.issued
         /\ Advanced(b, t).maturity = b.maturity
         /\ b.redeemed => Advanced(b, t) = b
         /\ ~b.redeemed => /\ Advanced(b, t).settled = Greater(b.settled, Elapsed(b, t))
                           /\ Advanced(b, t).redeemed = (t >= b.maturity)
<1> DEFINE mid == [b EXCEPT !.settled = Greater(b.settled, Elapsed(b, t))]
<1>1. Greater(b.settled, Elapsed(b, t)) \in Nat
  BY ElapsedType DEF Greater, BondRecord
<1>2. /\ mid \in BondRecord /\ mid.issued = b.issued /\ mid.maturity = b.maturity
      /\ mid.settled = Greater(b.settled, Elapsed(b, t))
  BY <1>1 DEF BondRecord
<1>3. Advanced(b, t) = IF b.redeemed THEN b ELSE [mid EXCEPT !.redeemed = (t >= b.maturity)]
  BY DEF Advanced
<1> HIDE DEF mid
<1>4. (t >= b.maturity) \in BOOLEAN
  BY DEF BondRecord
<1> QED BY <1>2, <1>3, <1>4 DEF BondRecord

LEMMA DueType ==
  ASSUME NEW b \in BondRecord, NEW t \in Nat
  PROVE  CouponDue(b, t) \in Nat /\ FaceDue(b, t) \in Nat
<1>1. /\ Elapsed(b, t) \in Int /\ b.settled \in Nat /\ Coupon \in Nat /\ Face \in Nat
  BY ElapsedType, BondAssumption DEF BondRecord
<1>2. Greater(0, Elapsed(b, t) - b.settled) \in Nat
  BY <1>1 DEF Greater
<1>3. Coupon * Greater(0, Elapsed(b, t) - b.settled) \in Nat
  BY <1>1, <1>2
<1> QED BY <1>1, <1>3 DEF CouponDue, FaceDue

LEMMA PayIs ==
  ASSUME PurseOK, BondOK, line' = line, NEW s \in Symbols, NEW p \in Folk, NEW sum \in Nat, Pay(s, p, sum)
  PROVE  /\ PurseOK' /\ tick' = tick /\ bonds' = bonds /\ units' = units /\ sold' = sold
         /\ spent' \in [Symbols -> Nat]
         /\ \A z \in Symbols : spent[z] <= spent'[z] /\ (z # s => spent'[z] = spent[z])
         /\ spent'[s] <= spent[s] + sum
<1> DEFINE payment == Payment(Issuer, p, sum)
<1>1. /\ cash' = IF Clears(cash, payment) THEN Moved(cash, payment) ELSE cash
      /\ spent' = [spent EXCEPT ![s] = @ + IF Clears(cash, payment) THEN sum ELSE 0]
      /\ UNCHANGED <<goods, tick, bonds, units, sold>>
  BY DEF Pay, Resolved
<1>2. Issuer \in Party /\ p \in Party /\ Issuer # p
  BY Parties, BondAssumption
<1>3. Clears(cash, payment) => Moved(cash, payment) \in [Party -> Nat]
  BY <1>2, MovedIs DEF PurseOK
<1> HIDE DEF payment
<1>4. cash' \in [Party -> Nat]
  BY <1>1, <1>3 DEF PurseOK
<1>5. spent \in [Symbols -> Nat]
  BY DEF BondOK
<1> QED BY <1>1, <1>4, <1>5 DEF PurseOK

LEMMA BondKeeps ==
  ASSUME PurseOK, BondOK, line' = line, BondNext
  PROVE  PurseOK' /\ BondOK' /\ tick <= tick'
<1> USE Parties
<1>0. /\ tick \in Nat /\ Face \in Nat /\ Interval \in Nat /\ Periods \in Nat /\ MaxUnits \in Nat
      /\ Issuer \in House /\ IsFiniteSet(Folk)
  BY BondAssumption, PurseAssumption DEF PurseOK
<1>1. ASSUME NEW s \in Symbols, NEW takes \in [Folk -> 0..MaxUnits], NEW at \in 0..LastTick,
             IssueBond(s, takes, at)
      PROVE  PurseOK' /\ BondOK' /\ tick <= tick'
  <2> DEFINE new == [issued |-> at, maturity |-> at + Periods * Interval,
                     settled |-> 0, redeemed |-> FALSE]
             taken == Total(takes, Folk)
  <2>1. /\ \A p \in Folk : Face * takes[p] <= cash[p]
        /\ cash' = [p \in Party |-> IF p \in Folk THEN cash[p] - Face * takes[p]
                                    ELSE IF p = Issuer THEN cash[p] + Face * taken ELSE cash[p]]
        /\ units' = [units EXCEPT ![s] = [p \in Folk |-> @[p] + takes[p]]]
        /\ bonds' = [bonds EXCEPT ![s] = new]
        /\ sold' = [sold EXCEPT ![s] = taken]
        /\ spent' = [spent EXCEPT ![s] = 0]
        /\ UNCHANGED <<goods, tick, coupons, faces>>
    BY <1>1 DEF IssueBond
  <2>2. taken \in Nat
    BY <1>0, TotalType DEF Counts
  <2>3. Face * taken \in Nat /\ \A p \in Folk : takes[p] \in Nat /\ Face * takes[p] \in Nat
    BY <1>0, <2>2
  <2>4. new \in [issued : Nat, maturity : Nat, settled : Nat, redeemed : BOOLEAN]
    <3>1. Periods * Interval \in Nat /\ at \in Nat
      BY <1>0, PurseAssumption
    <3> QED BY <3>1
  <2> HIDE DEF new, taken
  <2>5. cash' \in [Party -> Nat]
    BY <2>1, <2>3 DEF PurseOK
  <2>6. units[s] \in [Folk -> Nat]
    BY DEF BondOK
  <2>7. [p \in Folk |-> units[s][p] + takes[p]] \in [Folk -> Nat]
    BY <2>3, <2>6
  <2>8. units' \in [Symbols -> [Folk -> Nat]]
    BY <2>1, <2>7 DEF BondOK
  <2>9. bonds' \in [Symbols -> [issued : Nat, maturity : Nat, settled : Nat, redeemed : BOOLEAN]]
    BY <2>1, <2>4 DEF BondOK
  <2>10. {sold', spent'} \subseteq [Symbols -> Nat]
    BY <2>1, <2>2 DEF BondOK
  <2> QED BY <1>0, <2>1, <2>5, <2>8, <2>9, <2>10 DEF PurseOK, BondOK
<1>2. ASSUME NEW s \in Symbols, NEW p \in Folk, NEW to \in Folk, p # to, SellUnit(s, p, to)
      PROVE  PurseOK' /\ BondOK' /\ tick <= tick'
  <2> DEFINE mid == [units EXCEPT ![s][p] = @ - 1]
  <2>1. /\ units[s][p] > 0 /\ Pays(Payment(to, p, 1))
        /\ units' = [mid EXCEPT ![s][to] = @ + 1]
        /\ UNCHANGED <<goods, tick, bonds, sold, coupons, faces, spent>>
    BY <1>2 DEF SellUnit
  <2>2. units \in [Symbols -> [Folk -> Nat]] /\ units[s][p] - 1 \in Nat
    BY <2>1 DEF BondOK
  <2>3. mid \in [Symbols -> [Folk -> Nat]]
    BY <2>2
  <2> HIDE DEF mid
  <2>4. units' \in [Symbols -> [Folk -> Nat]]
    <3>1. mid[s][to] + 1 \in Nat
      BY <2>3
    <3> QED BY <2>1, <2>3, <3>1
  <2>5. cash' \in [Party -> Nat]
    BY <1>2, <2>1, PaysIs DEF PurseOK
  <2> QED BY <1>0, <2>1, <2>4, <2>5 DEF PurseOK, BondOK
<1>3. ASSUME NEW s \in Symbols, RedeemHoldings(s)
      PROVE  PurseOK' /\ BondOK' /\ tick <= tick'
  BY <1>0, <1>3 DEF RedeemHoldings, PurseOK, BondOK, purse
<1>4. ASSUME NEW s \in Symbols, NEW p \in Folk, PayCoupon(s, p)
      PROVE  PurseOK' /\ BondOK' /\ tick <= tick'
  <2>1. coupons \in [Symbols -> [Folk -> Nat]] /\ coupons[s][p] \in Nat
    BY DEF BondOK
  <2>2. Pay(s, p, coupons[s][p]) /\ coupons' = [coupons EXCEPT ![s][p] = 0] /\ UNCHANGED faces
    BY <1>4 DEF PayCoupon
  <2>3. /\ PurseOK' /\ tick' = tick /\ bonds' = bonds /\ units' = units /\ sold' = sold
        /\ spent' \in [Symbols -> Nat]
    BY <2>1, <2>2, PayIs
  <2>4. coupons' \in [Symbols -> [Folk -> Nat]]
    BY <2>1, <2>2
  <2> QED BY <1>0, <2>2, <2>3, <2>4 DEF BondOK
<1>5. ASSUME NEW s \in Symbols, NEW p \in Folk, PayFace(s, p)
      PROVE  PurseOK' /\ BondOK' /\ tick <= tick'
  <2>1. faces \in [Symbols -> [Folk -> Nat]] /\ faces[s][p] \in Nat
    BY DEF BondOK
  <2>2. Pay(s, p, faces[s][p]) /\ faces' = [faces EXCEPT ![s][p] = 0] /\ UNCHANGED coupons
    BY <1>5 DEF PayFace
  <2>3. /\ PurseOK' /\ tick' = tick /\ bonds' = bonds /\ units' = units /\ sold' = sold
        /\ spent' \in [Symbols -> Nat]
    BY <2>1, <2>2, PayIs
  <2>4. faces' \in [Symbols -> [Folk -> Nat]]
    BY <2>1, <2>2
  <2> QED BY <1>0, <2>2, <2>3, <2>4 DEF BondOK
<1>6. ASSUME BondTick
      PROVE  PurseOK' /\ BondOK' /\ tick <= tick'
  <2>1. /\ Ticks /\ UNCHANGED <<cash, goods, units, sold, spent>>
        /\ \/ /\ coupons' = [s \in Symbols |-> [p \in Folk |-> CouponDue(bonds[s], tick + 1) * units[s][p]]]
              /\ faces' = [s \in Symbols |-> [p \in Folk |-> FaceDue(bonds[s], tick + 1) * units[s][p]]]
              /\ bonds' = [s \in Symbols |-> Advanced(bonds[s], tick + 1)]
           \/ UNCHANGED <<coupons, faces, bonds>>
    BY <1>6 DEF BondTick
  <2>2. tick' \in 0..LastTick /\ tick' = tick + 1
    BY <2>1, TicksIs DEF PurseOK
  <2>3. \A s \in Symbols :
           bonds[s] \in BondRecord /\ tick + 1 \in Nat
    BY <1>0 DEF BondOK, BondRecord
  <2>4. \A s \in Symbols : Advanced(bonds[s], tick + 1) \in BondRecord
    BY <2>3, AdvancedType
  <2>5. \A s \in Symbols : CouponDue(bonds[s], tick + 1) \in Nat /\ FaceDue(bonds[s], tick + 1) \in Nat
    BY <2>3, DueType
  <2>6. \A s \in Symbols, p \in Folk : units[s][p] \in Nat
    BY DEF BondOK
  <2>7. \A s \in Symbols, p \in Folk : /\ CouponDue(bonds[s], tick + 1) * units[s][p] \in Nat
                                       /\ FaceDue(bonds[s], tick + 1) * units[s][p] \in Nat
    BY <2>5, <2>6
  <2>8. bonds' \in [Symbols -> BondRecord]
    BY <2>1, <2>3, <2>4 DEF BondOK, BondRecord
  <2>9. {coupons', faces'} \subseteq [Symbols -> [Folk -> Nat]]
    BY <2>1, <2>7 DEF BondOK
  <2> QED BY <1>0, <2>1, <2>2, <2>8, <2>9 DEF PurseOK, BondOK, BondRecord
<1> QED BY <1>1, <1>2, <1>3, <1>4, <1>5, <1>6 DEF BondNext

LEMMA PositionTypes ==
  ASSUME NEW p \in PositionRecord
  PROVE  /\ p.kind \in {"future", "call", "put"} /\ Pool[p.kind] \in House
         /\ p.long \in Folk /\ p.short \in Folk
         /\ p.lot \in Nat /\ p.lot > 0 /\ p.strike \in Nat /\ p.strike > 0
         /\ p.margin \in Nat /\ p.margin > 0
<1>1. /\ p.kind \in Kinds /\ p.long \in Folk /\ p.short \in Folk
      /\ p.lot \in Lots /\ p.strike \in Strikes /\ p.margin \in Margins
  BY DEF PositionRecord
<1>2. Lots \subseteq Nat \ {0} /\ Strikes \subseteq Nat \ {0} /\ Margins \subseteq Nat \ {0}
  BY ExchangeAssumption
<1>3. p.kind \in {"future", "call", "put"} /\ Pool[p.kind] \in House
  BY <1>1, ExchangeAssumption
<1>4. \A n \in Nat \ {0} : n \in Nat /\ n > 0
  OBVIOUS
<1> QED BY <1>1, <1>2, <1>3, <1>4

(* Neither side of an option can claim from its buyer.                     *)
LEMMA ClaimType ==
  ASSUME NEW p \in PositionRecord, NEW at \in Nat
  PROVE  /\ Claim(p, at) \in Int /\ LongMargin(p) \in Nat
         /\ LongCredit(p, at) \in Int /\ ShortCredit(p, at) \in Int
         /\ p.kind # "future" => Claim(p, at) >= 0 /\ LongMargin(p) = 0
         /\ LongCredit(p, at) + ShortCredit(p, at) = p.margin + LongMargin(p)
<1>1. /\ p.kind \in {"future", "call", "put"} /\ p.lot \in Nat /\ p.strike \in Nat /\ p.margin \in Nat
  BY PositionTypes
<1>2. Greater(0, at - p.strike) \in Nat /\ Greater(0, p.strike - at) \in Nat /\ at - p.strike \in Int
  BY <1>1 DEF Greater
<1>3. /\ (at - p.strike) * p.lot \in Int
      /\ Greater(0, at - p.strike) * p.lot \in Nat /\ Greater(0, p.strike - at) * p.lot \in Nat
  BY <1>1, <1>2
<1>4. Claim(p, at) \in Int /\ (p.kind # "future" => Claim(p, at) >= 0)
  <2>1. CASE p.kind = "future"
    BY <1>3, <2>1 DEF Claim
  <2>2. CASE p.kind = "call"
    BY <1>3, <2>2 DEF Claim
  <2>3. CASE p.kind = "put"
    BY <1>3, <2>3 DEF Claim
  <2> QED BY <1>1, <2>1, <2>2, <2>3
<1> QED BY <1>1, <1>4 DEF LongMargin, LongCredit, ShortCredit

(* Rounding to the nearest unit is off by half a unit at most.             *)
LEMMA QuantizedIs ==
  ASSUME NEW m \in Nat, NEW n \in Nat, n > 0
  PROVE  /\ Quantized(m, n) \in Nat
         /\ 2 * Quantized(m, n) * n \in (2 * m - n) .. (2 * m + n)
<1> DEFINE q == m \div n
           r == m % n
<1>1. q \in Nat /\ r \in Nat /\ r < n /\ m = n * q + r
  OBVIOUS
<1>2. \/ Quantized(m, n) = q /\ 2 * r <= n
      \/ Quantized(m, n) = q + 1 /\ 2 * r >= n
  BY <1>1 DEF Quantized
<1> HIDE DEF q, r
<1>3. 2 * q * n = 2 * (n * q) /\ 2 * (q + 1) * n = 2 * (n * q) + 2 * n /\ n * q \in Nat
  BY <1>1
<1>4. 2 * q * n = 2 * m - 2 * r /\ 2 * (q + 1) * n = 2 * m - 2 * r + 2 * n
  BY <1>1, <1>3
<1> QED BY <1>1, <1>2, <1>4

LEMMA MarkedType ==
  ASSUME NEW p \in PositionRecord, NEW t \in Nat, price \in Prices \cup {Dark}
  PROVE  /\ Marked(p, t) \in PositionRecord
         /\ Marked(p, t).long = p.long /\ Marked(p, t).short = p.short
         /\ Marked(p, t).kind = p.kind /\ Marked(p, t).margin = p.margin
         /\ (Marked(p, t).status = "settled") = (p.status = "settled")
<1>1. CASE p.status = "settled" \/ price = Dark
  BY <1>1 DEF Marked
<1>2. CASE ~(p.status = "settled" \/ price = Dark)
  <2> DEFINE thin == \/ 2 * LongCredit(p, price) < LongMargin(p)
                     \/ 2 * ShortCredit(p, price) < p.margin
             st   == IF t >= p.expiry THEN "expired" ELSE IF thin THEN "breached" ELSE "open"
             mid  == [p EXCEPT !.status = st]
  <2>1. price \in Nat
    BY <1>2, ExchangeAssumption
  <2>2. ShortCredit(p, price) \in Int
    BY <2>1, ClaimType
  <2>3. Marked(p, t) = [mid EXCEPT !.credit = ShortCredit(p, price)]
    BY <1>2 DEF Marked
  <2>4. st \in {"open", "breached", "expired"}
    OBVIOUS
  <2> HIDE DEF st
  <2>5. /\ mid \in PositionRecord /\ mid.long = p.long /\ mid.short = p.short /\ mid.status = st
        /\ mid.kind = p.kind /\ mid.margin = p.margin
    BY <2>4 DEF PositionRecord
  <2> HIDE DEF mid
  <2> QED BY <1>2, <2>2, <2>3, <2>4, <2>5 DEF PositionRecord
<1> QED BY <1>1, <1>2

LEMMA OpensType ==
  ASSUME PurseOK, ExchangeOK, NEW p \in PositionRecord, Opens(p),
         cash' \in [Party -> Nat], line' = line
  PROVE  PurseOK' /\ ExchangeOK' /\ tick <= tick'
<1>1. positions' = Append(positions, p) /\ UNCHANGED <<goods, tick, price, documented, seizes>>
  BY DEF Opens
<1>2. positions' \in Seq(PositionRecord)
  BY <1>1 DEF ExchangeOK
<1> QED BY <1>1, <1>2 DEF ExchangeOK, PurseOK

LEMMA PositionType ==
  ASSUME NEW kind \in Kinds, NEW long \in Folk, NEW short \in Folk, NEW lot \in Lots,
         NEW strike \in Strikes, NEW margin \in Margins, NEW expiry \in Nat
  PROVE  LET p == Position(kind, long, short, lot, strike, margin, expiry)
         IN  /\ p \in PositionRecord /\ p.kind = kind /\ p.long = long /\ p.short = short
             /\ p.margin = margin /\ margin \in Nat
<1>1. margin \in Nat
  BY ExchangeAssumption
<1> QED BY <1>1 DEF Position, PositionRecord

(* What a settlement does: pay the solvent their credit, or the winner the *)
(* whole of the margins and goods to make up the rest, at most once.       *)
LEMMA SettleIs ==
  ASSUME PurseOK, ExchangeOK, NEW i \in DOMAIN positions, Settle(i)
  PROVE  LET p     == positions[i]
             pool  == Pool[p.kind]
             long  == LongCredit(p, price)
             short == ShortCredit(p, price)
             owing == IF short < 0 THEN -short ELSE -long
             loser == IF short < 0 THEN p.short ELSE p.long
             winner == IF short < 0 THEN p.long ELSE p.short
             q     == Quantized(owing, price)
         IN  /\ p.status # "settled" /\ price \in Nat
             /\ \/ /\ long >= 0 /\ short >= 0 /\ UNCHANGED goods /\ documented' = documented
                   /\ cash' \in [Party -> Nat]
                   /\ \A x \in Party : cash'[x] = cash[x] + Part(x, p.long, long) + Part(x, p.short, short)
                                                  - Part(x, pool, p.margin + LongMargin(p))
                \/ /\ owing > 0 /\ price > 0 /\ (short >= 0 => p.kind = "future") /\ q \in Nat
                   /\ cash' \in [Party -> Nat] /\ documented' \in [House -> [Folk -> Nat]]
                   /\ goods' \in [Party -> Nat]
                   /\ \A x \in Party : cash'[x] = IF x = winner THEN cash[x] + p.margin + LongMargin(p)
                                                  ELSE IF x = pool THEN cash[x] - p.margin - LongMargin(p)
                                                  ELSE cash[x]
                   /\ IF q > 0 /\ pool \in seizes /\ goods[loser] >= q
                      THEN \A x \in Party : goods'[x] = goods[x] - Part(x, loser, q) + Part(x, winner, q)
                      ELSE goods' = goods
<1> DEFINE p     == positions[i]
           pool  == Pool[p.kind]
           long  == LongCredit(p, price)
           short == ShortCredit(p, price)
           owing == IF short < 0 THEN -short ELSE -long
           loser == IF short < 0 THEN p.short ELSE p.long
           winner == IF short < 0 THEN p.long ELSE p.short
           q     == Quantized(owing, price)
<1>1. p \in PositionRecord
  BY DEF ExchangeOK
<1>2. p.status # "settled" /\ price \in Nat
  BY ExchangeAssumption DEF Settle, ExchangeOK
<1>3. /\ p.kind \in {"future", "call", "put"} /\ pool \in House /\ p.long \in Folk /\ p.short \in Folk
      /\ p.margin \in Nat /\ p.margin > 0
  BY <1>1, PositionTypes
<1>4. /\ LongMargin(p) \in Nat /\ long \in Int /\ short \in Int
      /\ p.kind # "future" => Claim(p, price) >= 0 /\ LongMargin(p) = 0
      /\ long + short = p.margin + LongMargin(p) /\ Claim(p, price) \in Int
      /\ long = LongMargin(p) + Claim(p, price) /\ short = p.margin - Claim(p, price)
  BY <1>1, <1>2, ClaimType DEF LongCredit, ShortCredit
<1>5. /\ pool \in Party /\ p.long \in Party /\ p.short \in Party /\ pool # p.long /\ pool # p.short
  BY <1>3, Parties
<1>6. cash \in [Party -> Nat] /\ goods \in [Party -> Nat]
  BY DEF PurseOK
<1>7. ASSUME SettleSolvent(i)
      PROVE  /\ long >= 0 /\ short >= 0 /\ UNCHANGED goods /\ documented' = documented
             /\ cash' \in [Party -> Nat]
             /\ \A x \in Party : cash'[x] = cash[x] + Part(x, p.long, long) + Part(x, p.short, short)
                                            - Part(x, pool, p.margin + LongMargin(p))
  <2>1. /\ long >= 0 /\ short >= 0 /\ UNCHANGED <<goods, documented>>
        /\ IF p.kind # "future" /\ Claim(p, price) = 0
           THEN Pays(Payment(pool, p.short, p.margin))
           ELSE PaysBoth(Payment(pool, p.long, long), Payment(pool, p.short, short))
    BY <1>7 DEF SettleSolvent
  <2> HIDE DEF p, pool, long, short
  <2>2. CASE p.kind # "future" /\ Claim(p, price) = 0
    <3>1. /\ cash' \in [Party -> Nat]
          /\ \A x \in Party : cash'[x] = IF x = pool THEN cash[x] - p.margin
                                         ELSE IF x = p.short THEN cash[x] + p.margin ELSE cash[x]
      BY <1>3, <1>5, <1>6, <2>1, <2>2, PaysIs
    <3>2. long = 0 /\ short = p.margin /\ LongMargin(p) = 0
      BY <1>3, <1>4, <2>2
    <3>3. \A x \in Party : cash[x] \in Nat
      BY <1>6
    <3> QED BY <1>3, <1>5, <2>1, <3>1, <3>2, <3>3 DEF Part
  <2>3. CASE ~(p.kind # "future" /\ Claim(p, price) = 0)
    <3>1. /\ cash' \in [Party -> Nat]
          /\ \A x \in Party : cash'[x] = cash[x] - Part(x, pool, long) + Part(x, p.long, long)
                                                - Part(x, pool, short) + Part(x, p.short, short)
      BY <1>4, <1>5, <1>6, <2>1, <2>3, PaysBothIs
    <3>2. \A x \in Party : cash[x] \in Nat
      BY <1>6
    <3> QED BY <1>3, <1>4, <1>5, <2>1, <3>1, <3>2 DEF Part
  <2> QED BY <2>2, <2>3
<1>8. ASSUME SettleDeficient(i)
      PROVE  /\ owing > 0 /\ price > 0 /\ (short >= 0 => p.kind = "future") /\ q \in Nat
             /\ cash' \in [Party -> Nat] /\ documented' \in [House -> [Folk -> Nat]]
             /\ goods' \in [Party -> Nat]
             /\ \A x \in Party : cash'[x] = IF x = winner THEN cash[x] + p.margin + LongMargin(p)
                                            ELSE IF x = pool THEN cash[x] - p.margin - LongMargin(p)
                                            ELSE cash[x]
             /\ IF q > 0 /\ pool \in seizes /\ goods[loser] >= q
                THEN \A x \in Party : goods'[x] = goods[x] - Part(x, loser, q) + Part(x, winner, q)
                ELSE goods' = goods
  <2> DEFINE row == IF q > 0 THEN q ELSE documented[pool][loser]
  <2>1. /\ owing > 0 /\ price # 0
        /\ Pays(Payment(pool, winner, p.margin + LongMargin(p)))
        /\ documented' = [documented EXCEPT ![pool][loser] = row]
        /\ IF q > 0 /\ pool \in seizes /\ Sufficient(row, q) /\ goods[loser] >= q
           THEN Takes(loser, winner, q) ELSE UNCHANGED goods
    <3>1. owing = -(IF short < 0 THEN short ELSE long)
      OBVIOUS
    <3> QED BY <1>8, <3>1 DEF SettleDeficient
  <2>2. /\ winner \in Party /\ loser \in Party /\ loser \in Folk /\ pool # winner
        /\ owing \in Nat /\ price > 0
    BY <1>1, <1>2, <1>3, <1>4, <1>5, <2>1
  <2>3. q \in Nat
    BY <1>2, <2>2, QuantizedIs
  <2>4. short >= 0 => p.kind = "future"
    BY <1>3, <1>4, <2>1
  <2> HIDE DEF p, pool, long, short, owing, loser, winner, q
  <2>5. /\ cash' \in [Party -> Nat]
        /\ \A x \in Party : cash'[x] = IF x = pool THEN cash[x] - (p.margin + LongMargin(p))
                                       ELSE IF x = winner THEN cash[x] + (p.margin + LongMargin(p)) ELSE cash[x]
    BY <1>3, <1>4, <1>5, <1>6, <2>1, <2>2, PaysIs
  <2>6. \A x \in Party : cash'[x] = IF x = winner THEN cash[x] + p.margin + LongMargin(p)
                                    ELSE IF x = pool THEN cash[x] - p.margin - LongMargin(p)
                                    ELSE cash[x]
    BY <1>3, <1>4, <1>6, <2>2, <2>5
  <2>7. row \in Nat
    BY <1>3, <2>2, <2>3 DEF ExchangeOK
  <2>8. documented' \in [House -> [Folk -> Nat]]
    BY <2>1, <2>7 DEF ExchangeOK
  <2>9. IF q > 0 /\ pool \in seizes /\ goods[loser] >= q THEN Takes(loser, winner, q) ELSE goods' = goods
    BY <2>1, <2>3 DEF Sufficient
  <2>10. CASE q > 0 /\ pool \in seizes /\ goods[loser] >= q
    <3>1. /\ goods' \in [Party -> Nat]
          /\ \A x \in Party : goods'[x] = goods[x] - Part(x, loser, q) + Part(x, winner, q)
      BY <1>6, <2>2, <2>3, <2>9, <2>10, TakesIs
    <3> QED BY <2>1, <2>2, <2>3, <2>4, <2>5, <2>6, <2>8, <2>10, <3>1
  <2>11. CASE ~(q > 0 /\ pool \in seizes /\ goods[loser] >= q)
    BY <1>6, <2>1, <2>2, <2>3, <2>4, <2>5, <2>6, <2>8, <2>9, <2>11
  <2> QED BY <2>10, <2>11
<1>9. SettleSolvent(i) \/ SettleDeficient(i)
  BY DEF Settle
<1> HIDE DEF p, pool, long, short, owing, loser, winner, q
<1>10. /\ p.status # "settled" /\ price \in Nat
       /\ \/ /\ long >= 0 /\ short >= 0 /\ UNCHANGED goods /\ documented' = documented
             /\ cash' \in [Party -> Nat]
             /\ \A x \in Party : cash'[x] = cash[x] + Part(x, p.long, long) + Part(x, p.short, short)
                                            - Part(x, pool, p.margin + LongMargin(p))
          \/ /\ owing > 0 /\ price > 0 /\ (short >= 0 => p.kind = "future") /\ q \in Nat
             /\ cash' \in [Party -> Nat] /\ documented' \in [House -> [Folk -> Nat]]
             /\ goods' \in [Party -> Nat]
             /\ \A x \in Party : cash'[x] = IF x = winner THEN cash[x] + p.margin + LongMargin(p)
                                            ELSE IF x = pool THEN cash[x] - p.margin - LongMargin(p)
                                            ELSE cash[x]
             /\ IF q > 0 /\ pool \in seizes /\ goods[loser] >= q
                THEN \A x \in Party : goods'[x] = goods[x] - Part(x, loser, q) + Part(x, winner, q)
                ELSE goods' = goods
  BY <1>2, <1>7, <1>8, <1>9
<1> QED BY <1>10 DEF p, pool, long, short, owing, loser, winner, q

LEMMA ExchangeKeeps ==
  ASSUME PurseOK, ExchangeOK, line' = line, ExchangeNext
  PROVE  PurseOK' /\ ExchangeOK' /\ tick <= tick'
<1> USE Parties
<1>0. /\ tick \in Nat /\ Premiums \subseteq Nat /\ cash \in [Party -> Nat]
      /\ \A kind \in Kinds : Pool[kind] \in House
  BY ExchangeAssumption DEF PurseOK
<1>1. ASSUME NEW long \in Folk, NEW short \in Folk, NEW lot \in Lots, NEW strike \in Strikes,
             NEW margin \in Margins, "future" \in Kinds,
             OpenFuture(Position("future", long, short, lot, strike, margin, tick + 1))
      PROVE  PurseOK' /\ ExchangeOK' /\ tick <= tick'
  <2> DEFINE p == Position("future", long, short, lot, strike, margin, tick + 1)
  <2>1. /\ p \in PositionRecord /\ p.kind = "future" /\ p.long = long /\ p.short = short
        /\ p.margin = margin /\ margin \in Nat
    BY <1>0, <1>1, PositionType
  <2>2. Opens(p) /\ PaysBoth(Payment(p.long, Pool[p.kind], p.margin), Payment(p.short, Pool[p.kind], p.margin))
    BY <1>1 DEF OpenFuture
  <2> HIDE DEF p
  <2>3. cash' \in [Party -> Nat]
    BY <1>0, <1>1, <2>1, <2>2, PaysBothIs
  <2> QED BY <1>1, <2>1, <2>2, <2>3, OpensType
<1>2. ASSUME NEW long \in Folk, NEW short \in Folk, NEW lot \in Lots, NEW strike \in Strikes,
             NEW margin \in Margins, NEW kind \in Kinds \ {"future"}, NEW premium \in Premiums,
             OpenOption(Position(kind, long, short, lot, strike, margin, tick + 1), premium)
      PROVE  PurseOK' /\ ExchangeOK' /\ tick <= tick'
  <2> DEFINE p == Position(kind, long, short, lot, strike, margin, tick + 1)
  <2>1. /\ p \in PositionRecord /\ p.kind = kind /\ p.long = long /\ p.short = short
        /\ p.margin = margin /\ margin \in Nat
    BY <1>0, <1>2, PositionType
  <2>2. /\ Opens(p)
        /\ IF premium > 0
           THEN PaysBoth(Payment(p.long, p.short, premium), Payment(p.short, Pool[p.kind], p.margin))
           ELSE Pays(Payment(p.short, Pool[p.kind], p.margin))
    BY <1>2 DEF OpenOption
  <2> HIDE DEF p
  <2>3. cash' \in [Party -> Nat]
    BY <1>0, <1>2, <2>1, <2>2, PaysIs, PaysBothIs
  <2> QED BY <1>2, <2>1, <2>2, <2>3, OpensType
<1>3. ASSUME NEW at \in Prices \cup {Dark}, PostPrice(at)
      PROVE  PurseOK' /\ ExchangeOK' /\ tick <= tick'
  BY <1>0, <1>3 DEF PostPrice, PurseOK, ExchangeOK, purse
<1>4. ASSUME NEW i \in DOMAIN positions, Settle(i)
      PROVE  PurseOK' /\ ExchangeOK' /\ tick <= tick'
  <2>1. /\ positions' = [positions EXCEPT ![i].status = "settled"] /\ UNCHANGED <<tick, price, seizes>>
    BY <1>4 DEF Settle
  <2>2. /\ cash' \in [Party -> Nat] /\ documented' \in [House -> [Folk -> Nat]] /\ goods' \in [Party -> Nat]
    BY <1>4, SettleIs DEF PurseOK, ExchangeOK
  <2> DEFINE new == [positions[i] EXCEPT !.status = "settled"]
  <2>3. positions[i] \in PositionRecord
    BY DEF ExchangeOK
  <2>4. new \in PositionRecord
    BY <2>3 DEF PositionRecord
  <2>5. positions' = [positions EXCEPT ![i] = new]
    BY <2>1
  <2> HIDE DEF new
  <2>6. positions' \in Seq(PositionRecord)
    BY <2>4, <2>5 DEF ExchangeOK
  <2> QED BY <1>0, <2>1, <2>2, <2>6 DEF PurseOK, ExchangeOK
<1>5. ASSUME ExchangeTick
      PROVE  PurseOK' /\ ExchangeOK' /\ tick <= tick'
  <2>1. /\ Ticks /\ UNCHANGED <<cash, goods, price, documented, seizes>>
        /\ \/ positions' = positions
           \/ positions' = [i \in DOMAIN positions |-> Marked(positions[i], tick + 1)]
    BY <1>5 DEF ExchangeTick
  <2>2. tick' \in 0..LastTick /\ tick' = tick + 1
    BY <2>1, TicksIs DEF PurseOK
  <2>3. \A i \in DOMAIN positions : positions[i] \in PositionRecord
    BY DEF ExchangeOK
  <2>4. \A i \in DOMAIN positions : Marked(positions[i], tick + 1) \in PositionRecord
    <3>1. tick + 1 \in Nat /\ price \in Prices \cup {Dark}
      BY <1>0 DEF ExchangeOK
    <3> QED BY <2>3, <3>1, MarkedType
  <2>5. positions' \in Seq(PositionRecord)
    <3>1. positions \in Seq(PositionRecord) /\ Len(positions) \in Nat /\ DOMAIN positions = 1..Len(positions)
      BY DEF ExchangeOK
    <3>2. CASE positions' = [i \in DOMAIN positions |-> Marked(positions[i], tick + 1)]
      <4>1. positions' \in [1..Len(positions) -> PositionRecord]
        BY <2>4, <3>1, <3>2
      <4> QED BY <3>1, <4>1
    <3> QED BY <2>1, <3>1, <3>2
  <2> QED BY <1>0, <2>1, <2>2, <2>5 DEF PurseOK, ExchangeOK
<1> QED BY <1>1, <1>2, <1>3, <1>4, <1>5 DEF ExchangeNext

LEMMA CostType ==
  ASSUME InsuranceOK, NEW S \in SUBSET Folk
  PROVE  /\ Cost(S) \in Nat /\ IsFiniteSet(S) /\ Counts([h \in Folk |-> policies[h].coverage], S)
         /\ \A h \in Folk : policies[h].coverage \in Nat
<1>1. \A h \in Folk : policies[h].coverage \in Nat
  <2> SUFFICES ASSUME NEW h \in Folk PROVE policies[h].coverage \in Nat
    OBVIOUS
  <2>1. CASE policies[h] \in PolicyRecord
    BY <2>1, InsuranceAssumption DEF PolicyRecord
  <2>2. CASE policies[h] = NoPolicy
    BY <2>2 DEF NoPolicy
  <2> QED BY <2>1, <2>2 DEF InsuranceOK
<1>2. IsFiniteSet(S)
  BY PurseAssumption, FS_Subset
<1>3. Counts([h \in Folk |-> policies[h].coverage], S)
  BY <1>1 DEF Counts
<1> QED BY <1>1, <1>2, <1>3, TotalType DEF Cost

LEMMA InsuranceKeeps ==
  ASSUME PurseOK, InsuranceOK, line' = line, InsuranceNext
  PROVE  PurseOK' /\ InsuranceOK' /\ tick <= tick'
<1> USE Parties
<1>0. /\ tick \in Nat /\ LastTick \in Nat /\ Premia \subseteq Nat /\ Coverages \subseteq Nat
      /\ Insurer \in House /\ \A h \in Folk : Heirs[h] \subseteq Folk
  BY PurseAssumption, InsuranceAssumption DEF PurseOK
<1>1. ASSUME NEW h \in Folk, NEW cover \in Coverages, NEW premium \in Premia,
             NEW term \in {tick + 2, Perpetual}, NEW heir \in Heirs[h],
             Underwrite(h, heir, cover, premium, term)
      PROVE  PurseOK' /\ InsuranceOK' /\ tick <= tick'
  <2> DEFINE new == [heir |-> heir, coverage |-> cover, term |-> term, triggered |-> FALSE, paid |-> FALSE]
  <2>1. /\ IF premium > 0 THEN Pays(Payment(h, Insurer, premium)) ELSE UNCHANGED cash
        /\ policies' = [policies EXCEPT ![h] = new]
        /\ coverage' = [coverage EXCEPT ![heir] = cover]
        /\ received' = [received EXCEPT ![h] = 0]
        /\ UNCHANGED <<goods, tick, fallen>>
    BY <1>1 DEF Underwrite
  <2>2. new \in PolicyRecord
    BY <1>0 DEF PolicyRecord, Perpetual
  <2> HIDE DEF new
  <2>3. cash' \in [Party -> Nat]
    BY <1>0, <2>1, PaysIs DEF PurseOK
  <2> QED BY <1>0, <2>1, <2>2, <2>3 DEF PurseOK, InsuranceOK
<1>2. ASSUME InsuranceTick
      PROVE  PurseOK' /\ InsuranceOK' /\ tick <= tick'
  <2>1. Ticks /\ UNCHANGED <<goods, coverage>>
    BY <1>2 DEF InsuranceTick
  <2>2. tick' \in 0..LastTick /\ tick' = tick + 1
    BY <2>1, TicksIs DEF PurseOK
  <2>3. fallen' \in [Folk -> Nat]
    <3>1. (\E h \in Folk : fallen' = [fallen EXCEPT ![h] = tick + 1]) \/ fallen' = fallen
      BY <1>2 DEF InsuranceTick, Fall
    <3>2. fallen \in [Folk -> Nat] /\ tick + 1 \in Nat
      BY <1>0 DEF InsuranceOK
    <3> QED BY <3>1, <3>2
  <2>4. ASSUME NEW queue \in SUBSET Claims, Payable(queue),
               cash' = [p \in Party |-> IF p = Insurer THEN cash[p] - Cost(Honoured(queue))
                                        ELSE cash[p] + Cost({h \in Honoured(queue) : policies[h].heir = p})],
               received' = [h \in Folk |-> received[h] + IF h \in Honoured(queue) THEN policies[h].coverage ELSE 0],
               policies' = [h \in Folk |-> [policies[h] EXCEPT !.triggered = Triggered(h),
                                                               !.paid = @ \/ h \in queue]]
        PROVE  cash' \in [Party -> Nat] /\ received' \in [Folk -> Nat] /\ policies' \in [Folk -> PolicyRecord \cup {NoPolicy}]
    <3> DEFINE paid == Honoured(queue)
    <3>1. queue \subseteq Folk /\ paid \subseteq queue
      BY DEF Claims, Honoured
    <3>2. Cost(queue) <= cash[Insurer]
      BY <2>4 DEF Payable
    <3>3. Cost(paid) <= Cost(queue)
      <4> DEFINE f == [h \in Folk |-> policies[h].coverage]
      <4>1. IsFiniteSet(queue) /\ Counts(f, queue)
        BY <3>1, CostType
      <4>2. \A h \in paid : f[h] \in Nat /\ f[h] <= f[h]
        BY <3>1, <4>1 DEF Counts
      <4> HIDE DEF f
      <4>3. Total(f, paid) <= Total(f, queue)
        BY <3>1, <4>1, <4>2, TotalLess
      <4> QED BY <4>3 DEF Cost, f
    <3>4. Cost(paid) \in Nat /\ Cost(queue) \in Nat /\ \A p \in Party : Cost({h \in paid : policies[h].heir = p}) \in Nat
      BY <3>1, CostType
    <3>5. cash' \in [Party -> Nat]
      <4> DEFINE after(p) == IF p = Insurer THEN cash[p] - Cost(paid)
                             ELSE cash[p] + Cost({h \in paid : policies[h].heir = p})
      <4>1. \A p \in Party : cash[p] \in Nat
        BY DEF PurseOK
      <4>2. \A p \in Party : after(p) \in Nat
        <5> SUFFICES ASSUME NEW p \in Party PROVE after(p) \in Nat
          OBVIOUS
        <5> DEFINE back == Cost({h \in paid : policies[h].heir = p})
        <5>1. back \in Nat /\ cash[p] \in Nat
          BY <3>4, <4>1
        <5> HIDE DEF back, paid
        <5> QED BY <3>2, <3>3, <3>4, <5>1 DEF back
      <4>3. cash' = [p \in Party |-> after(p)]
        BY <2>4
      <4> HIDE DEF after
      <4> QED BY <4>2, <4>3
    <3>6. received' \in [Folk -> Nat]
      <4>1. \A h \in Folk : policies[h].coverage \in Nat /\ received[h] \in Nat
        BY CostType DEF InsuranceOK
      <4>2. \A h \in Folk : received[h] + (IF h \in paid THEN policies[h].coverage ELSE 0) \in Nat
        <5> HIDE DEF paid
        <5> QED BY <4>1
      <4> QED BY <2>4, <4>2
    <3>7. ASSUME NEW h \in Folk
          PROVE  policies'[h] \in PolicyRecord \cup {NoPolicy}
      <4> DEFINE old == policies[h]
                 mid == [old EXCEPT !.triggered = Triggered(h)]
      <4>1. policies'[h] = [mid EXCEPT !.paid = old.paid \/ h \in queue]
        BY <2>4
      <4>2. CASE old = NoPolicy
        <5>1. ~Triggered(h) /\ h \notin queue
          BY <4>2 DEF Triggered, Claims
        <5>2. (Triggered(h)) = FALSE /\ (old.paid \/ h \in queue) = FALSE
          BY <4>2, <5>1 DEF NoPolicy, Triggered
        <5>3. mid = NoPolicy
          <6>1. mid = [NoPolicy EXCEPT !.triggered = FALSE]
            BY <4>2, <5>2
          <6> HIDE DEF mid
          <6> QED BY <6>1 DEF NoPolicy
        <5>4. policies'[h] = NoPolicy
          BY <4>1, <5>2, <5>3 DEF NoPolicy
        <5> QED BY <5>4
      <4>3. CASE old \in PolicyRecord
        <5>1. Triggered(h) \in BOOLEAN /\ (old.paid \/ h \in queue) \in BOOLEAN
          BY DEF Triggered
        <5>2. mid \in PolicyRecord
          BY <4>3, <5>1 DEF PolicyRecord
        <5> HIDE DEF mid, old
        <5> QED BY <4>1, <5>1, <5>2 DEF PolicyRecord
      <4> QED BY <4>2, <4>3 DEF InsuranceOK
    <3>8. policies' \in [Folk -> PolicyRecord \cup {NoPolicy}]
      BY <2>4, <3>7
    <3> QED BY <3>5, <3>6, <3>8
  <2>5. cash' \in [Party -> Nat] /\ received' \in [Folk -> Nat] /\ policies' \in [Folk -> PolicyRecord \cup {NoPolicy}]
    <3>1. CASE UNCHANGED <<cash, received, policies>>
      BY <3>1 DEF PurseOK, InsuranceOK
    <3> QED BY <1>2, <2>4, <3>1 DEF InsuranceTick
  <2> QED BY <1>0, <2>1, <2>2, <2>3, <2>5 DEF PurseOK, InsuranceOK
<1> QED BY <1>1, <1>2 DEF InsuranceNext

(* A pack that is not busy stays as it is, and only the clock moves.       *)
LEMMA LoanStill ==
  ASSUME LoanOK, UNCHANGED loanVars, tick \in Nat, tick' \in Nat, tick <= tick'
  PROVE  LoanOK'
<1>1. \A l \in Lenders, b \in Folk : loans[l][b].accrued \in Nat /\ loans[l][b].accrued <= tick
  BY DEF LoanOK, LoanRecord
<1> QED BY <1>1 DEF LoanOK, loanVars

LEMMA BankStill ==
  ASSUME BankOK, UNCHANGED bankVars, tick \in Nat, tick' \in Nat, tick <= tick'
  PROVE  BankOK'
<1>1. \A k \in House, p \in Folk : debts[k][p].accrued \in Nat /\ debts[k][p].accrued <= tick
  BY DEF BankOK, DebtRecord
<1> QED BY <1>1 DEF BankOK, bankVars

LEMMA BondStill == ASSUME BondOK, UNCHANGED bondVars PROVE BondOK'
  BY DEF BondOK, bondVars

LEMMA ExchangeStill == ASSUME ExchangeOK, UNCHANGED exchangeVars PROVE ExchangeOK'
  BY DEF ExchangeOK, exchangeVars

LEMMA InsuranceStill == ASSUME InsuranceOK, UNCHANGED insuranceVars PROVE InsuranceOK'
  BY DEF InsuranceOK, insuranceVars

LEMMA TypeInit == ASSUME Init PROVE TypeOK
<1>1. PurseOK
  <2>1. line \in Lines /\ cash \in Purses[line] /\ tick = Opened[line]
    BY DEF Init
  <2>2. cash \in [Party -> Nat] /\ tick \in 0..LastTick
    BY <2>1, ContractsAssumption
  <2>3. goods \in [Party -> Nat]
    BY DEF Init
  <2> QED BY <2>1, <2>2, <2>3 DEF PurseOK
<1>2. LoanOK
  <2>1. NoLoan \in LoanRecord /\ NoLoan.accrued = 0 /\ NoRow \in [principal : Nat, issued : Nat, paid : Nat]
    BY DEF NoLoan, NoRow, LoanRecord
  <2> QED BY <1>1, <2>1 DEF Init, LoanInit, LoanOK, PurseOK
<1>3. BankOK
  <2>1. NoDebt \in DebtRecord /\ NoDebt.accrued = 0 /\ NoDebt.paid = 0 /\ NoDebt.principal = 0 /\ NoDebt.interest = 0
    BY DEF NoDebt, DebtRecord
  <2>2. \A k \in House : cash[k] \in Nat
    BY <1>1, Parties DEF PurseOK
  <2>3. tick \in Nat
    BY <1>1 DEF PurseOK
  <2>4. /\ deposits = [k \in House |-> [p \in Folk |-> 0]]
        /\ debts = [k \in House |-> [p \in Folk |-> NoDebt]]
        /\ capital = [k \in House |-> cash[k]]
        /\ forgotten = [k \in House |-> 0]
    BY DEF Init, BankInit
  <2>5. debts \in [House -> [Folk -> DebtRecord]]
    BY <2>1, <2>4
  <2>6. \A k \in House, p \in Folk :
          debts[k][p].accrued <= tick /\ debts[k][p].paid <= debts[k][p].principal + debts[k][p].interest
    BY <2>1, <2>3, <2>4
  <2> QED BY <2>2, <2>4, <2>5, <2>6 DEF BankOK
<1>4. BondOK
  <2>1. NoBond \in [issued : Nat, maturity : Nat, settled : Nat, redeemed : BOOLEAN] /\ NoBond.issued = 0
    BY DEF NoBond
  <2> QED BY <1>1, <2>1 DEF Init, BondInit, BondOK, PurseOK
<1>5. ExchangeOK
  <2>1. positions = <<>> /\ positions \in Seq(PositionRecord)
    BY DEF Init, ExchangeInit
  <2> QED BY <2>1 DEF Init, ExchangeInit, ExchangeOK
<1>6. InsuranceOK
  BY DEF Init, InsuranceInit, InsuranceOK
<1> QED BY <1>1, <1>2, <1>3, <1>4, <1>5, <1>6 DEF TypeOK

LEMMA TypeStep == ASSUME TypeOK, [Next]_vars PROVE TypeOK'
<1> USE DEF TypeOK
<1>0. tick \in Nat /\ (PurseOK' => tick' \in Nat)
  BY DEF PurseOK
<1>1. CASE line = "loan" /\ LoanNext /\ UNCHANGED <<line, bankVars, bondVars, exchangeVars, insuranceVars>>
  BY <1>0, <1>1, LoanKeeps, BankStill, BondStill, ExchangeStill, InsuranceStill
<1>2. CASE line = "bank" /\ BankNext /\ UNCHANGED <<line, loanVars, bondVars, exchangeVars, insuranceVars>>
  BY <1>0, <1>2, BankKeeps, LoanStill, BondStill, ExchangeStill, InsuranceStill
<1>3. CASE line = "bond" /\ BondNext /\ UNCHANGED <<line, loanVars, bankVars, exchangeVars, insuranceVars>>
  BY <1>0, <1>3, BondKeeps, LoanStill, BankStill, ExchangeStill, InsuranceStill
<1>4. CASE line = "exchange" /\ ExchangeNext /\ UNCHANGED <<line, loanVars, bankVars, bondVars, insuranceVars>>
  BY <1>0, <1>4, ExchangeKeeps, LoanStill, BankStill, BondStill, InsuranceStill
<1>5. CASE line = "insurance" /\ InsuranceNext /\ UNCHANGED <<line, loanVars, bankVars, bondVars, exchangeVars>>
  BY <1>0, <1>5, InsuranceKeeps, LoanStill, BankStill, BondStill, ExchangeStill
<1>6. CASE UNCHANGED vars
  <2>1. UNCHANGED <<line, cash, goods, tick, loanVars, bankVars, bondVars, exchangeVars, insuranceVars>>
    BY <1>6 DEF vars, purse
  <2>2. PurseOK'
    BY <2>1 DEF PurseOK
  <2> QED BY <1>0, <2>1, <2>2, LoanStill, BankStill, BondStill, ExchangeStill, InsuranceStill
<1> QED BY <1>1, <1>2, <1>3, <1>4, <1>5, <1>6 DEF Next

(* Money, goods, units and books stay what they are: whole, and not        *)
(* negative, through every operation of every pack, with nothing dated     *)
(* ahead of the clock and no bank debt overpaid.                           *)
THEOREM ContractsTypes == Spec => []TypeOK
<1>1. Init => TypeOK
  BY TypeInit
<1>2. TypeOK /\ [Next]_vars => TypeOK'
  BY TypeStep
<1> QED BY <1>1, <1>2, PTL DEF Spec

----------------------------------------------------------------------------
(* What is taken by force.  The validator judges a levy by a row that is   *)
(* kept for the borrower's account whoever lends, so that the row mirrors  *)
(* the book needs that there be one lender.                                *)
OneLender == \A l, m \in Lenders : l = m

MirrorInv ==
    \A l \in Lenders, b \in Folk : loans[l][b] # NoLoan =>
        loans[l][b].principal > 0 /\ oracle[b] = Mirror(loans[l][b])

LEMMA BooksMirror ==
  ASSUME OneLender, LoanOK, MirrorInv, NEW l \in Lenders, NEW b \in Folk, NEW loan,
         loan.principal > 0, Books(l, b, loan)
  PROVE  MirrorInv'
<1>1. \A m \in Lenders, p \in Folk : loans'[m][p] = IF p = b THEN loan ELSE loans[m][p]
  BY DEF OneLender, Books, LoanOK
<1>2. \A p \in Folk : oracle'[p] = IF p = b THEN Mirror(loan) ELSE oracle[p]
  BY DEF Books, LoanOK
<1> QED BY <1>1, <1>2 DEF MirrorInv

LEMMA MirrorStep ==
  ASSUME OneLender, PurseOK, LoanOK, MirrorInv, LoanNext
  PROVE  MirrorInv'
<1>1. ASSUME NEW l \in Lenders, NEW b \in Folk, NEW principal \in Principals, NEW rate \in LoanRates,
             NEW pledge \in {0, 1}, CreateLoan(l, b, principal, rate, 1, pledge)
      PROVE  MirrorInv'
  <2> DEFINE new == [status |-> "active", principal |-> principal, rate |-> rate, interest |-> 0,
                     issued |-> tick, maturity |-> tick + 1, accrued |-> tick, paid |-> 0,
                     pledge |-> pledge]
  <2>1. Books(l, b, new)
    BY <1>1 DEF CreateLoan
  <2>2. new.principal > 0
    BY LoanAssumption
  <2> HIDE DEF new
  <2> QED BY <2>1, <2>2, BooksMirror
<1>2. ASSUME NEW l \in Lenders, NEW b \in Folk, NEW sum \in Principals, RepayLoan(l, b, sum)
      PROVE  MirrorInv'
  <2> DEFINE loan  == loans[l][b]
             after == Credited(loan, Lesser(sum, Owed(loan)))
             new   == IF Owed(after) <= 0 THEN [after EXCEPT !.status = "settled"] ELSE after
  <2>1. Books(l, b, new) /\ Outstanding(loan)
    BY <1>2 DEF RepayLoan
  <2>2. loan \in LoanRecord /\ loan # NoLoan
    BY <2>1 DEF LoanOK, Outstanding, NoLoan
  <2>3. loan.principal > 0
    BY <2>2 DEF MirrorInv
  <2>4. after.principal = loan.principal /\ [after EXCEPT !.status = "settled"].principal = loan.principal
    BY <2>2 DEF Credited, LoanRecord
  <2> HIDE DEF after, loan
  <2>5. new.principal > 0
    BY <2>3, <2>4
  <2> HIDE DEF new
  <2> QED BY <2>1, <2>5, BooksMirror
<1>3. ASSUME NEW l \in Lenders, NEW b \in Folk, Enforce(l, b)
      PROVE  MirrorInv'
  <2> DEFINE loan   == loans[l][b]
             take   == Lesser(cash[b], Owed(loan))
             levied == IF take > 0 /\ ~Vetoed(b, take) THEN take ELSE 0
             new    == [Credited(loan, levied) EXCEPT !.status = "settled"]
  <2>1. Books(l, b, new) /\ loan # NoLoan
    BY <1>3 DEF Enforce
  <2>2. loan \in LoanRecord /\ loan.principal > 0
    BY <2>1 DEF LoanOK, MirrorInv
  <2> HIDE DEF levied, loan
  <2>3. new.principal > 0
    BY <2>2 DEF Credited, LoanRecord
  <2> HIDE DEF new
  <2> QED BY <2>1, <2>3, BooksMirror
<1>4. ASSUME NEW b \in Folk, NEW to \in Folk, SellPledge(b, to)
      PROVE  MirrorInv'
  BY <1>4 DEF SellPledge, MirrorInv, loanVars
<1>5. ASSUME LoanTick
      PROVE  MirrorInv'
  <2>1. \A l \in Lenders, b \in Folk :
           LET new == Serviced(loans[l][b], tick + 1)
           IN  /\ Mirror(new) = Mirror(loans[l][b]) /\ new.principal = loans[l][b].principal
               /\ loans[l][b] = NoLoan => new = NoLoan
    <3> SUFFICES ASSUME NEW l \in Lenders, NEW b \in Folk
                 PROVE  LET new == Serviced(loans[l][b], tick + 1)
                        IN  /\ Mirror(new) = Mirror(loans[l][b]) /\ new.principal = loans[l][b].principal
                            /\ loans[l][b] = NoLoan => new = NoLoan
      OBVIOUS
    <3>1. loans[l][b] \in LoanRecord /\ loans[l][b].accrued <= tick + 1 /\ tick + 1 \in Nat
      BY DEF LoanOK, LoanRecord, PurseOK
    <3>2. ~Outstanding(NoLoan)
      BY DEF Outstanding, NoLoan
    <3> QED BY <3>1, <3>2, ServicedType
  <2>2. /\ oracle' = oracle
        /\ \/ loans' = loans
           \/ loans' = [l \in Lenders |-> [b \in Folk |-> Serviced(loans[l][b], tick + 1)]]
    BY <1>5 DEF LoanTick
  <2> QED BY <2>1, <2>2 DEF MirrorInv
<1> QED BY <1>1, <1>2, <1>3, <1>4, <1>5 DEF LoanNext

LEMMA ForeclosureLawful ==
  ASSUME PurseOK, LoanOK, MirrorInv
  PROVE  ForeclosureIsLawful
<1> SUFFICES ASSUME NEW l \in Lenders, NEW b \in Folk, Enforce(l, b)
             PROVE  LET loan == loans[l][b]
                    IN  /\ cash[b] - cash'[b] > 0 =>
                               cash[b] - cash'[b] <= Lesser(Owed(loan), LegalMax(loan))
                        /\ goods[b] - goods'[b] > 0 => goods[b] - goods'[b] = loan.pledge /\ Owed(loan) > 0
                        /\ loans'[l][b].status = "settled"
  BY DEF ForeclosureIsLawful
<1> DEFINE loan   == loans[l][b]
           take   == Lesser(cash[b], Owed(loan))
           levied == IF take > 0 /\ ~Vetoed(b, take) THEN take ELSE 0
           wants  == loan.pledge > 0 /\ Owed(loan) > levied
           new    == [Credited(loan, levied) EXCEPT !.status = "settled"]
<1>1. /\ loan # NoLoan
      /\ IF levied > 0 THEN Pays(Payment(b, l, levied)) ELSE UNCHANGED cash
      /\ IF wants /\ goods[b] >= loan.pledge THEN Takes(b, l, loan.pledge) ELSE UNCHANGED goods
      /\ Books(l, b, new)
  BY DEF Enforce
<1>2. b \in Party /\ l \in Party /\ b # l
  BY Parties, LoanAssumption
<1>3. /\ loan \in LoanRecord /\ loan.pledge \in Nat /\ loan.principal \in Nat /\ loan.principal > 0
      /\ loan.issued \in Nat /\ loan.paid \in Nat /\ oracle[b] = Mirror(loan)
  BY <1>1 DEF LoanOK, LoanRecord, MirrorInv
<1>4. Owed(loan) \in Int /\ cash \in [Party -> Nat] /\ goods \in [Party -> Nat] /\ tick \in Nat /\ Cap \in Nat
  BY <1>3, OwedType, LoanAssumption DEF PurseOK
<1>5. take \in Int /\ take <= Owed(loan) /\ levied \in Nat /\ (levied > 0 => levied = take /\ ~Vetoed(b, take))
  BY <1>2, <1>4 DEF Lesser
<1>6. LegalMax(oracle[b]) = LegalMax(loan) /\ oracle[b] # NoRow
  BY <1>3 DEF Mirror, NoRow, LegalMax
<1>7. LegalMax(loan) \in Int
  <2>1. loan.principal * Cap \in Nat /\ tick - loan.issued \in Int
    BY <1>3, <1>4
  <2>2. loan.principal * Cap * (tick - loan.issued) \in Int
    BY <2>1
  <2> QED BY <1>3, <2>2 DEF LegalMax
<1>8. levied > 0 => levied <= Owed(loan) /\ levied <= LegalMax(loan)
  BY <1>5, <1>6, <1>7 DEF Vetoed
<1>9. loans'[l][b].status = "settled"
  <2>1. Credited(loan, levied) \in LoanRecord
    BY <1>3, <1>5, CreditedType
  <2>2. new.status = "settled"
    BY <2>1 DEF LoanRecord
  <2>3. loans'[l][b] = new
    BY <1>1 DEF Books, LoanOK
  <2> QED BY <2>2, <2>3
<1> HIDE DEF loan, take, levied, new
<1>10. cash[b] - cash'[b] > 0 => cash[b] - cash'[b] <= Lesser(Owed(loan), LegalMax(loan))
  <2>1. CASE levied > 0
    <3>1. cash'[b] = cash[b] - levied
      BY <1>1, <1>2, <1>4, <1>5, <2>1, PaysIs
    <3> QED BY <1>2, <1>4, <1>5, <1>7, <1>8, <2>1, <3>1 DEF Lesser
  <2>2. CASE ~(levied > 0)
    BY <1>1, <1>2, <1>4, <2>2
  <2> QED BY <2>1, <2>2
<1>11. goods[b] - goods'[b] > 0 => goods[b] - goods'[b] = loan.pledge /\ Owed(loan) > 0
  <2>1. CASE wants /\ goods[b] >= loan.pledge
    <3>1. goods'[b] = goods[b] - loan.pledge
      BY <1>1, <1>2, <1>3, <1>4, <2>1, TakesIs DEF Part
    <3> QED BY <1>2, <1>3, <1>4, <1>5, <2>1, <3>1
  <2>2. CASE ~(wants /\ goods[b] >= loan.pledge)
    BY <1>1, <1>2, <1>4, <2>2
  <2> QED BY <2>1, <2>2
<1> QED BY <1>9, <1>10, <1>11 DEF loan

LEMMA SettlementFair ==
  ASSUME PurseOK, ExchangeOK
  PROVE  SettlementIsFair
<1> SUFFICES ASSUME NEW i \in DOMAIN positions, Settle(i)
             PROVE  LET p      == positions[i]
                        lost(x) == goods[x] - goods'[x]
                        gain(x) == cash'[x] - cash[x] - price * lost(x)
                        owing  == Greater(-ShortCredit(p, price), -LongCredit(p, price))
                    IN  /\ \A x \in Folk : lost(x) > 0 =>
                               /\ IF ShortCredit(p, price) < 0 THEN x = p.short
                                  ELSE x = p.long /\ p.kind = "future" /\ LongCredit(p, price) < 0
                               /\ 2 * lost(x) * price \in (2 * owing - price) .. (2 * owing + price)
                        /\ LET enough(x) == Pool[p.kind] \in seizes /\ goods[x] >= Quantized(owing, price)
                           IN  p.long # p.short =>
                               /\ LongCredit(p, price) > 0 /\ (owing > 0 => enough(p.short)) =>
                                      2 * (gain(p.long) - LongCredit(p, price)) \in (-price) .. price
                               /\ ShortCredit(p, price) > 0 /\ (owing > 0 => enough(p.long)) =>
                                      2 * (gain(p.short) - ShortCredit(p, price)) \in (-price) .. price
  BY DEF SettlementIsFair
<1> DEFINE p     == positions[i]
           pool  == Pool[p.kind]
           long  == LongCredit(p, price)
           short == ShortCredit(p, price)
           M     == p.margin + LongMargin(p)
           debt  == IF short < 0 THEN -short ELSE -long
           owing == Greater(-short, -long)
           loser == IF short < 0 THEN p.short ELSE p.long
           winner == IF short < 0 THEN p.long ELSE p.short
           q     == Quantized(debt, price)
           lost(x) == goods[x] - goods'[x]
           gain(x) == cash'[x] - cash[x] - price * lost(x)
           enough(x) == pool \in seizes /\ goods[x] >= Quantized(owing, price)
<1>1. p \in PositionRecord /\ price \in Nat
  BY SettleIs DEF ExchangeOK
<1>2. /\ pool \in House /\ p.long \in Folk /\ p.short \in Folk /\ M \in Nat /\ M > 0
      /\ long \in Int /\ short \in Int /\ long + short = M
  BY <1>1, PositionTypes, ClaimType
<1>3. /\ \A x \in Folk : x \in Party /\ x # pool
      /\ \A x \in Party : cash[x] \in Nat /\ goods[x] \in Nat
  BY <1>2, Parties DEF PurseOK
<1>4. \/ /\ long >= 0 /\ short >= 0 /\ UNCHANGED goods
         /\ \A x \in Party : cash'[x] = cash[x] + Part(x, p.long, long) + Part(x, p.short, short)
                                        - Part(x, pool, p.margin + LongMargin(p))
      \/ /\ debt > 0 /\ price > 0 /\ (short >= 0 => p.kind = "future") /\ q \in Nat
         /\ \A x \in Party : cash'[x] = IF x = winner THEN cash[x] + p.margin + LongMargin(p)
                                        ELSE IF x = pool THEN cash[x] - p.margin - LongMargin(p)
                                        ELSE cash[x]
         /\ IF q > 0 /\ pool \in seizes /\ goods[loser] >= q
            THEN \A x \in Party : goods'[x] = goods[x] - Part(x, loser, q) + Part(x, winner, q)
            ELSE goods' = goods
  BY SettleIs
<1>5. p.margin \in Nat /\ LongMargin(p) \in Nat
  BY <1>1, PositionTypes, ClaimType
<1>6. CASE /\ long >= 0 /\ short >= 0 /\ UNCHANGED goods
           /\ \A x \in Party : cash'[x] = cash[x] + Part(x, p.long, long) + Part(x, p.short, short)
                                          - Part(x, pool, p.margin + LongMargin(p))
  <2>1. \A x \in Folk : lost(x) = 0 /\ price * lost(x) = 0
    BY <1>1, <1>3, <1>6
  <2> HIDE DEF p, pool, long, short, M
  <2>2. p.long # p.short => gain(p.long) = long /\ gain(p.short) = short
    BY <1>1, <1>2, <1>3, <1>6, <2>1 DEF Part
  <2> HIDE DEF lost, gain
  <2>3. p.long # p.short =>
           2 * (gain(p.long) - long) \in (-price) .. price /\ 2 * (gain(p.short) - short) \in (-price) .. price
    BY <1>1, <1>2, <2>2
  <2>4. \A x \in Folk : ~(lost(x) > 0)
    BY <2>1
  <2> QED BY <2>3, <2>4 DEF lost, gain, long, short, p
<1>7. CASE /\ debt > 0 /\ price > 0 /\ (short >= 0 => p.kind = "future") /\ q \in Nat
           /\ \A x \in Party : cash'[x] = IF x = winner THEN cash[x] + p.margin + LongMargin(p)
                                          ELSE IF x = pool THEN cash[x] - p.margin - LongMargin(p)
                                          ELSE cash[x]
           /\ IF q > 0 /\ pool \in seizes /\ goods[loser] >= q
              THEN \A x \in Party : goods'[x] = goods[x] - Part(x, loser, q) + Part(x, winner, q)
              ELSE goods' = goods
  <2> HIDE DEF p, pool, long, short
  <2>1. debt \in Nat /\ debt > 0 /\ owing = debt
    BY <1>2, <1>7 DEF Greater
  <2>2. 2 * q * price \in (2 * debt - price) .. (2 * debt + price)
    BY <1>1, <1>7, <2>1, QuantizedIs
  <2>3. /\ winner \in Folk /\ loser \in Folk /\ (winner # loser <=> p.long # p.short)
        /\ IF short < 0 THEN winner = p.long /\ loser = p.short ELSE winner = p.short /\ loser = p.long
    BY <1>1, <1>2
  <2>4. IF short < 0 THEN long = M + debt ELSE short = M + debt /\ long < 0
    BY <1>2, <2>1
  <2> HIDE DEF debt, owing, winner, loser, q
  <2>5. \A x \in Folk : lost(x) > 0 => x = loser /\ lost(x) = q
    BY <1>3, <1>7, <2>3 DEF Part
  <2>6. cash'[winner] - cash[winner] = M
    BY <1>2, <1>3, <1>5, <1>7, <2>3
  <2>7. (winner # loser /\ pool \in seizes /\ goods[loser] >= q) => lost(winner) = -q
    BY <1>3, <1>7, <2>3 DEF Part
  <2>8. (winner # loser /\ pool \in seizes /\ goods[loser] >= q) =>
           2 * (gain(winner) - (M + debt)) \in (-price) .. price
    <3> SUFFICES ASSUME winner # loser /\ pool \in seizes /\ goods[loser] >= q
                 PROVE  2 * (gain(winner) - (M + debt)) \in (-price) .. price
      OBVIOUS
    <3>1. lost(winner) = -q
      BY <2>7
    <3>2. price * lost(winner) = -(q * price) /\ q * price \in Int
      BY <1>1, <1>7, <3>1
    <3>3. gain(winner) = M + q * price
      BY <2>6, <3>2, <1>2
    <3>4. 2 * q * price = 2 * (q * price)
      BY <1>1, <1>7
    <3> HIDE DEF gain, lost, M
    <3> QED BY <1>1, <1>2, <2>1, <2>2, <3>2, <3>3, <3>4
  <2>9. enough(loser) <=> pool \in seizes /\ goods[loser] >= q
    BY <2>1 DEF q
  <2>10. \A x \in Folk : lost(x) > 0 =>
            /\ IF short < 0 THEN x = p.short ELSE x = p.long /\ p.kind = "future" /\ long < 0
            /\ 2 * lost(x) * price \in (2 * owing - price) .. (2 * owing + price)
    <3> SUFFICES ASSUME NEW x \in Folk, lost(x) > 0
                 PROVE  /\ IF short < 0 THEN x = p.short ELSE x = p.long /\ p.kind = "future" /\ long < 0
                        /\ 2 * lost(x) * price \in (2 * owing - price) .. (2 * owing + price)
      OBVIOUS
    <3>1. x = loser /\ lost(x) = q
      BY <2>5
    <3> HIDE DEF lost
    <3> QED BY <1>2, <1>7, <2>1, <2>2, <2>3, <2>4, <3>1
  <2>11. p.long # p.short /\ long > 0 /\ (owing > 0 => enough(p.short)) => 2 * (gain(p.long) - long) \in (-price) .. price
    <3> HIDE DEF gain, enough, M
    <3> QED BY <1>2, <2>1, <2>3, <2>4, <2>8, <2>9
  <2>12. p.long # p.short /\ short > 0 /\ (owing > 0 => enough(p.long)) => 2 * (gain(p.short) - short) \in (-price) .. price
    <3> HIDE DEF gain, enough, M
    <3> QED BY <1>2, <2>1, <2>3, <2>4, <2>8, <2>9
  <2> QED BY <2>10, <2>11, <2>12 DEF owing, long, short, p, pool
<1> QED BY <1>4, <1>6, <1>7

(* Foreclosure and settlement are lawful, whoever the borrowers and the    *)
(* parties are, whatever the terms, the prices and the script's skipped    *)
(* ticks.  One lender is assumed: with two, each keeps a book of its own   *)
(* and the second writes over the row the first is judged by.              *)
THEOREM ForceIsLawfulHolds == ASSUME OneLender PROVE Spec => ForceIsLawful
<1>1. Init => TypeOK /\ MirrorInv
  <2>1. Init => MirrorInv
    BY DEF Init, LoanInit, MirrorInv
  <2> QED BY <2>1, TypeInit
<1>2. TypeOK /\ MirrorInv /\ [Next]_vars => (TypeOK /\ MirrorInv)'
  <2> SUFFICES ASSUME TypeOK, MirrorInv, [Next]_vars PROVE MirrorInv'
    BY TypeStep
  <2>1. CASE UNCHANGED loanVars
    BY <2>1 DEF MirrorInv, loanVars
  <2>2. CASE LoanNext
    BY <2>2, MirrorStep DEF TypeOK
  <2> QED BY <2>1, <2>2 DEF Next, vars
<1>3. TypeOK /\ MirrorInv => ForeclosureIsLawful /\ SettlementIsFair
  BY ForeclosureLawful, SettlementFair DEF TypeOK
<1> QED BY <1>1, <1>2, <1>3, PTL DEF Spec, ForceIsLawful

----------------------------------------------------------------------------
(* The books.  First a bank's: each operation moves as much on one side as *)
(* on the other.                                                           *)
LentOut(k) == Total([p \in Folk |-> debts[k][p].principal], Folk)
Repaid(k) == Total([p \in Folk |-> debts[k][p].paid], Folk)

LEMMA BankTotals ==
  ASSUME BankOK, NEW k \in House
  PROVE  /\ IsFiniteSet(Folk)
         /\ deposits[k] \in [Folk -> Nat] /\ Counts(deposits[k], Folk)
         /\ Counts([p \in Folk |-> debts[k][p].principal], Folk)
         /\ Counts([p \in Folk |-> debts[k][p].paid], Folk)
         /\ TotalDeposits(k) \in Nat /\ LentOut(k) \in Nat /\ Repaid(k) \in Nat
         /\ Lent(k) = LentOut(k) - Repaid(k)
<1>1. IsFiniteSet(Folk)
  BY PurseAssumption
<1>2. deposits[k] \in [Folk -> Nat] /\ Counts(deposits[k], Folk)
  BY DEF BankOK, Counts
<1>3. /\ Counts([p \in Folk |-> debts[k][p].principal], Folk)
      /\ Counts([p \in Folk |-> debts[k][p].paid], Folk)
  BY DEF BankOK, Counts, DebtRecord
<1> QED BY <1>1, <1>2, <1>3, TotalType DEF TotalDeposits, LentOut, Repaid, Lent

\* One deposit of a bank's book changes.
LEMMA DepositsChange ==
  ASSUME BankOK, BankOK', NEW k \in House, NEW p \in Folk,
         \A q \in Folk \ {p} : deposits'[k][q] = deposits[k][q]
  PROVE  TotalDeposits(k)' = TotalDeposits(k) - deposits[k][p] + deposits'[k][p]
<1>1. /\ IsFiniteSet(Folk) /\ Counts(deposits[k], Folk) /\ Counts(deposits'[k], Folk)
  BY PurseAssumption DEF BankOK, Counts
<1>2. Total(deposits'[k], Folk) = Total(deposits[k], Folk) - deposits[k][p] + deposits'[k][p]
  BY <1>1, TotalChange
<1> QED BY <1>2 DEF TotalDeposits

\* One debt of it changes.
LEMMA LentChange ==
  ASSUME BankOK, BankOK', NEW k \in House, NEW p \in Folk,
         \A q \in Folk \ {p} : debts'[k][q] = debts[k][q]
  PROVE  Lent(k)' = Lent(k) - (debts[k][p].principal - debts[k][p].paid)
                            + (debts'[k][p].principal - debts'[k][p].paid)
<1> DEFINE f == [q \in Folk |-> debts[k][q].principal]
           g == [q \in Folk |-> debts'[k][q].principal]
           a == [q \in Folk |-> debts[k][q].paid]
           b == [q \in Folk |-> debts'[k][q].paid]
<1>1. /\ IsFiniteSet(Folk) /\ Counts(f, Folk) /\ Counts(g, Folk) /\ Counts(a, Folk) /\ Counts(b, Folk)
  BY PurseAssumption DEF BankOK, Counts, DebtRecord
<1>2. \A q \in Folk \ {p} : g[q] = f[q] /\ b[q] = a[q]
  OBVIOUS
<1>3. /\ f[p] = debts[k][p].principal /\ g[p] = debts'[k][p].principal
      /\ a[p] = debts[k][p].paid /\ b[p] = debts'[k][p].paid
  OBVIOUS
<1>4. Lent(k) = Total(f, Folk) - Total(a, Folk) /\ Lent(k)' = Total(g, Folk) - Total(b, Folk)
  BY DEF Lent
<1> HIDE DEF f, g, a, b
<1>5. /\ Total(g, Folk) = Total(f, Folk) - f[p] + g[p]
      /\ Total(b, Folk) = Total(a, Folk) - a[p] + b[p]
  BY <1>1, <1>2, TotalChange
<1>6. /\ f[p] \in Nat /\ g[p] \in Nat /\ a[p] \in Nat /\ b[p] \in Nat
      /\ Total(f, Folk) \in Nat /\ Total(a, Folk) \in Nat
  BY <1>1, TotalType DEF Counts
<1> QED BY <1>3, <1>4, <1>5, <1>6

LEMMA BankSame ==
  ASSUME NEW k \in House
  PROVE  /\ deposits'[k] = deposits[k] => TotalDeposits(k)' = TotalDeposits(k)
         /\ (\A p \in Folk : /\ debts'[k][p].principal = debts[k][p].principal
                             /\ debts'[k][p].paid = debts[k][p].paid) => Lent(k)' = Lent(k)
<1>1. ASSUME \A p \in Folk : /\ debts'[k][p].principal = debts[k][p].principal
                             /\ debts'[k][p].paid = debts[k][p].paid
      PROVE  Lent(k)' = Lent(k)
  <2>1. /\ [p \in Folk |-> debts'[k][p].principal] = [p \in Folk |-> debts[k][p].principal]
        /\ [p \in Folk |-> debts'[k][p].paid] = [p \in Folk |-> debts[k][p].paid]
    BY <1>1
  <2> QED BY <2>1 DEF Lent
<1> QED BY <1>1 DEF TotalDeposits

LEMMA BankBalances ==
  ASSUME PurseOK, BankOK, BankOK', BalanceSheet, BankNext
  PROVE  BalanceSheet'
<1> USE Parties
<1> SUFFICES ASSUME NEW j \in House
             PROVE  TotalDeposits(j)' = cash'[j] - capital'[j] + Lent(j)' + forgotten'[j]
  BY DEF BalanceSheet
<1>0. /\ Sums \subseteq Nat /\ cash \in [Party -> Nat] /\ j \in Party /\ cash[j] \in Nat
      /\ TotalDeposits(j) \in Nat /\ Lent(j) \in Int /\ capital[j] \in Nat /\ forgotten[j] \in Int
      /\ TotalDeposits(j) = cash[j] - capital[j] + Lent(j) + forgotten[j]
      /\ deposits \in [House -> [Folk -> Nat]] /\ debts \in [House -> [Folk -> DebtRecord]]
      /\ capital \in [House -> Nat] /\ forgotten \in [House -> Int]
  <2>1. TotalDeposits(j) \in Nat /\ Lent(j) \in Int
    <3>1. /\ TotalDeposits(j) \in Nat /\ LentOut(j) \in Nat /\ Repaid(j) \in Nat
          /\ Lent(j) = LentOut(j) - Repaid(j)
      BY BankTotals
    <3> QED BY <3>1
  <2>2. cash \in [Party -> Nat] /\ j \in Party
    BY DEF PurseOK
  <2> QED BY <2>1, <2>2, BankAssumption DEF BankOK, BalanceSheet
<1>1. ASSUME NEW k \in House, NEW p \in Folk, NEW sum \in Sums, Deposit(k, p, sum)
      PROVE  TotalDeposits(j)' = cash'[j] - capital'[j] + Lent(j)' + forgotten'[j]
  <2>1. /\ Pays(Payment(p, k, sum)) /\ deposits' = [deposits EXCEPT ![k][p] = @ + sum]
        /\ UNCHANGED <<goods, tick, debts, capital, forgotten>>
    BY <1>1 DEF Deposit
  <2>2. cash'[j] = IF j = k THEN cash[j] + sum ELSE cash[j]
    BY <1>0, <2>1, PaysIs
  <2>3. Lent(j)' = Lent(j)
    BY <2>1, BankSame
  <2>4. TotalDeposits(j)' = IF j = k THEN TotalDeposits(j) + sum ELSE TotalDeposits(j)
    <3>1. CASE j = k
      <4>1. /\ deposits'[k][p] = deposits[k][p] + sum /\ deposits[k][p] \in Nat
            /\ \A q \in Folk \ {p} : deposits'[k][q] = deposits[k][q]
        BY <1>0, <2>1
      <4> QED BY <1>0, <3>1, <4>1, DepositsChange
    <3>2. CASE j # k
      BY <1>0, <2>1, <3>2, BankSame
    <3> QED BY <3>1, <3>2
  <2> QED BY <1>0, <2>1, <2>2, <2>3, <2>4
<1>2. ASSUME NEW k \in House, NEW p \in Folk, NEW sum \in Sums, Withdraw(k, p, sum)
      PROVE  TotalDeposits(j)' = cash'[j] - capital'[j] + Lent(j)' + forgotten'[j]
  <2>1. /\ Pays(Payment(k, p, sum)) /\ deposits' = [deposits EXCEPT ![k][p] = @ - sum]
        /\ UNCHANGED <<goods, tick, debts, capital, forgotten>>
    BY <1>2 DEF Withdraw
  <2>2. cash'[j] = IF j = k THEN cash[j] - sum ELSE cash[j]
    <3>1. k \in Party /\ p \in Party /\ k # p /\ p # j /\ sum \in Int
      BY <1>0
    <3> QED BY <1>0, <2>1, <3>1, PaysIs
  <2>3. Lent(j)' = Lent(j)
    BY <2>1, BankSame
  <2>4. TotalDeposits(j)' = IF j = k THEN TotalDeposits(j) - sum ELSE TotalDeposits(j)
    <3>1. CASE j = k
      <4>1. /\ deposits'[k][p] = deposits[k][p] - sum /\ deposits[k][p] \in Nat
            /\ \A q \in Folk \ {p} : deposits'[k][q] = deposits[k][q]
        BY <1>0, <2>1
      <4> QED BY <1>0, <3>1, <4>1, DepositsChange
    <3>2. CASE j # k
      BY <1>0, <2>1, <3>2, BankSame
    <3> QED BY <3>1, <3>2
  <2> QED BY <1>0, <2>1, <2>2, <2>3, <2>4
<1>3. ASSUME NEW k \in House, NEW p \in Folk, NEW to \in Folk, NEW sum \in Sums, p # to,
             PayInBook(k, p, to, sum)
      PROVE  TotalDeposits(j)' = cash'[j] - capital'[j] + Lent(j)' + forgotten'[j]
  <2> DEFINE mid == [deposits EXCEPT ![k][p] = @ - sum]
  <2>1. /\ deposits' = [mid EXCEPT ![k][to] = @ + sum]
        /\ UNCHANGED <<cash, debts, capital, forgotten>>
    BY <1>3 DEF PayInBook, purse
  <2>2. Lent(j)' = Lent(j)
    BY <2>1, BankSame
  <2>3. /\ mid[k][p] = deposits[k][p] - sum
        /\ \A q \in Folk \ {p} : mid[k][q] = deposits[k][q]
        /\ \A m \in House \ {k} : mid[m] = deposits[m]
        /\ DOMAIN mid = House /\ \A m \in House : DOMAIN mid[m] = Folk
    BY <1>0
  <2> HIDE DEF mid
  <2>4. /\ deposits'[k][p] = deposits[k][p] - sum /\ deposits'[k][to] = deposits[k][to] + sum
        /\ \A q \in Folk \ {p, to} : deposits'[k][q] = deposits[k][q]
        /\ \A m \in House \ {k} : deposits'[m] = deposits[m]
        /\ deposits[k][p] \in Nat /\ deposits[k][to] \in Nat
    BY <1>0, <1>3, <2>1, <2>3
  <2>5. TotalDeposits(j)' = TotalDeposits(j)
    <3>1. CASE j = k
      <4>1. IsFiniteSet(Folk) /\ Counts(deposits[k], Folk) /\ Counts(deposits'[k], Folk)
        BY PurseAssumption DEF BankOK, Counts
      <4>2. Total(deposits'[k], Folk) = Total(deposits[k], Folk) - deposits[k][p] - deposits[k][to]
                                          + deposits'[k][p] + deposits'[k][to]
        BY <1>3, <2>4, <4>1, TotalMove
      <4>3. Total(deposits[k], Folk) \in Nat
        BY <4>1, TotalType
      <4> QED BY <1>0, <2>4, <3>1, <4>2, <4>3 DEF TotalDeposits
    <3>2. CASE j # k
      BY <2>4, <3>2, BankSame
    <3> QED BY <3>1, <3>2
  <2> QED BY <1>0, <2>1, <2>2, <2>5
<1>4. ASSUME NEW k \in House, NEW other \in House, NEW p \in Folk, NEW to \in Folk, NEW sum \in Sums,
             k # other, InterbankPay(k, p, other, to, sum)
      PROVE  TotalDeposits(j)' = cash'[j] - capital'[j] + Lent(j)' + forgotten'[j]
  <2> DEFINE mid == [deposits EXCEPT ![k][p] = @ - sum]
  <2>1. /\ deposits' = [mid EXCEPT ![other][to] = @ + sum] /\ Pays(Payment(k, other, sum))
        /\ UNCHANGED <<goods, tick, debts, capital, forgotten>>
    BY <1>4 DEF InterbankPay
  <2>2. Lent(j)' = Lent(j)
    BY <2>1, BankSame
  <2>3. /\ mid[k][p] = deposits[k][p] - sum
        /\ \A q \in Folk \ {p} : mid[k][q] = deposits[k][q]
        /\ \A m \in House \ {k} : mid[m] = deposits[m]
        /\ DOMAIN mid = House /\ \A m \in House : DOMAIN mid[m] = Folk
    BY <1>0
  <2> HIDE DEF mid
  <2>4. /\ deposits'[k][p] = deposits[k][p] - sum /\ deposits'[other][to] = deposits[other][to] + sum
        /\ \A q \in Folk \ {p} : deposits'[k][q] = deposits[k][q]
        /\ \A q \in Folk \ {to} : deposits'[other][q] = deposits[other][q]
        /\ \A m \in House \ {k, other} : deposits'[m] = deposits[m]
        /\ deposits[k][p] \in Nat /\ deposits[other][to] \in Nat
    BY <1>0, <1>4, <2>1, <2>3
  <2>5. cash'[j] = IF j = k THEN cash[j] - sum ELSE IF j = other THEN cash[j] + sum ELSE cash[j]
    BY <1>0, <1>4, <2>1, PaysIs
  <2>6. TotalDeposits(j)' = IF j = k THEN TotalDeposits(j) - sum
                            ELSE IF j = other THEN TotalDeposits(j) + sum ELSE TotalDeposits(j)
    <3>1. CASE j = k
      <4>1. TotalDeposits(k)' = TotalDeposits(k) - deposits[k][p] + deposits'[k][p]
        BY <2>4, DepositsChange
      <4> QED BY <1>0, <2>4, <3>1, <4>1
    <3>2. CASE j = other
      <4>1. TotalDeposits(other)' = TotalDeposits(other) - deposits[other][to] + deposits'[other][to]
        BY <2>4, DepositsChange
      <4> QED BY <1>0, <1>4, <2>4, <3>2, <4>1
    <3>3. CASE j # k /\ j # other
      BY <2>4, <3>3, BankSame
    <3> QED BY <3>1, <3>2, <3>3
  <2> QED BY <1>0, <1>4, <2>1, <2>2, <2>5, <2>6
<1>5. ASSUME NEW k \in House, NEW p \in Folk, NEW sum \in Sums, NEW rate \in DebtRates, Lend(k, p, sum, rate)
      PROVE  TotalDeposits(j)' = cash'[j] - capital'[j] + Lent(j)' + forgotten'[j]
  <2> DEFINE new == [principal |-> sum, rate |-> rate, interest |-> 0,
                     accrued |-> tick, paid |-> 0, repaid |-> FALSE]
             old == debts[k][p]
  <2>1. /\ deposits' = [deposits EXCEPT ![k][p] = @ + sum]
        /\ debts' = [debts EXCEPT ![k][p] = new]
        /\ forgotten' = [forgotten EXCEPT ![k] = @ + old.principal - old.paid]
        /\ UNCHANGED <<cash, capital>>
    BY <1>5 DEF Lend, purse
  <2>2. new.principal = sum /\ new.paid = 0
    OBVIOUS
  <2>3. old.principal \in Nat /\ old.paid \in Nat
    BY <1>0 DEF DebtRecord
  <2> HIDE DEF new
  <2>4. CASE j # k
    <3>1. deposits'[j] = deposits[j] /\ debts'[j] = debts[j] /\ forgotten'[j] = forgotten[j]
      BY <1>0, <2>1, <2>4
    <3> QED BY <1>0, <2>1, <3>1, BankSame
  <2>5. CASE j = k
    <3>1. /\ deposits'[k][p] = deposits[k][p] + sum /\ deposits[k][p] \in Nat
          /\ \A q \in Folk \ {p} : deposits'[k][q] = deposits[k][q]
          /\ debts'[k][p] = new /\ \A q \in Folk \ {p} : debts'[k][q] = debts[k][q]
          /\ forgotten'[k] = forgotten[k] + old.principal - old.paid
      BY <1>0, <2>1
    <3>2. TotalDeposits(k)' = TotalDeposits(k) - deposits[k][p] + deposits'[k][p]
      BY <3>1, DepositsChange
    <3>3. Lent(k)' = Lent(k) - (old.principal - old.paid) + (new.principal - new.paid)
      BY <3>1, LentChange
    <3> HIDE DEF old
    <3> QED BY <1>0, <2>1, <2>2, <2>3, <2>5, <3>1, <3>2, <3>3
  <2> QED BY <2>4, <2>5
<1>6. ASSUME NEW k \in House, NEW p \in Folk, NEW sum \in Sums, RepayDebt(k, p, sum)
      PROVE  TotalDeposits(j)' = cash'[j] - capital'[j] + Lent(j)' + forgotten'[j]
  <2> DEFINE debt    == debts[k][p]
             applied == Lesser(sum, Due(debt))
             mid     == [debt EXCEPT !.paid = @ + applied]
             new     == [mid EXCEPT !.repaid = Due(debt) <= applied]
  <2>1. /\ deposits' = [deposits EXCEPT ![k][p] = @ - applied]
        /\ debts' = [debts EXCEPT ![k][p] = new]
        /\ UNCHANGED <<cash, capital, forgotten>>
    BY <1>6 DEF RepayDebt, purse
  <2>2. debt \in DebtRecord /\ debt.principal \in Nat /\ debt.paid \in Nat /\ debt.interest \in Nat
    BY <1>0 DEF DebtRecord
  <2>3. applied \in Int
    <3>1. Due(debt) \in Int
      BY <2>2 DEF Due
    <3> QED BY <1>0, <3>1 DEF Lesser
  <2> HIDE DEF debt, applied
  <2>4. mid.principal = debt.principal /\ mid.paid = debt.paid + applied
    BY <2>2 DEF DebtRecord
  <2>5. new.principal = mid.principal /\ new.paid = mid.paid
    BY <2>2 DEF DebtRecord
  <2> HIDE DEF mid, new
  <2>6. CASE j # k
    <3>1. deposits'[j] = deposits[j] /\ debts'[j] = debts[j]
      BY <1>0, <2>1, <2>6
    <3> QED BY <1>0, <2>1, <3>1, BankSame
  <2>7. CASE j = k
    <3>1. /\ deposits'[k][p] = deposits[k][p] - applied /\ deposits[k][p] \in Nat
          /\ \A q \in Folk \ {p} : deposits'[k][q] = deposits[k][q]
          /\ debts'[k][p] = new /\ \A q \in Folk \ {p} : debts'[k][q] = debts[k][q]
      BY <1>0, <2>1
    <3>2. TotalDeposits(k)' = TotalDeposits(k) - deposits[k][p] + deposits'[k][p]
      BY <3>1, DepositsChange
    <3>3. Lent(k)' = Lent(k) - (debt.principal - debt.paid) + (new.principal - new.paid)
      BY <3>1, LentChange DEF debt
    <3> QED BY <1>0, <2>1, <2>2, <2>3, <2>4, <2>5, <2>7, <3>1, <3>2, <3>3
  <2> QED BY <2>6, <2>7
<1>7. ASSUME BankTick
      PROVE  TotalDeposits(j)' = cash'[j] - capital'[j] + Lent(j)' + forgotten'[j]
  <2>1. /\ UNCHANGED <<cash, goods, deposits, capital, forgotten>>
    BY <1>7 DEF BankTick
  <2>a. \/ \A p \in Folk : debts'[j][p] = debts[j][p]
        \/ \A p \in Folk : debts'[j][p] = Accrues(debts[j][p], tick + 1)
    BY <1>7 DEF BankTick
  <2>2. \A p \in Folk : /\ Accrues(debts[j][p], tick + 1).principal = debts[j][p].principal
                        /\ Accrues(debts[j][p], tick + 1).paid = debts[j][p].paid
    <3> SUFFICES ASSUME NEW p \in Folk
                 PROVE  /\ Accrues(debts[j][p], tick + 1).principal = debts[j][p].principal
                        /\ Accrues(debts[j][p], tick + 1).paid = debts[j][p].paid
      OBVIOUS
    <3>1. debts[j][p] \in DebtRecord /\ debts[j][p].accrued <= tick + 1 /\ tick + 1 \in Nat
      BY <1>0 DEF BankOK, DebtRecord, PurseOK
    <3> QED BY <3>1, AccruesType
  <2>3. Lent(j)' = Lent(j)
    BY <2>a, <2>2, BankSame
  <2>4. TotalDeposits(j)' = TotalDeposits(j)
    BY <2>1, BankSame
  <2> QED BY <1>0, <2>1, <2>3, <2>4
<1> QED BY <1>1, <1>2, <1>3, <1>4, <1>5, <1>6, <1>7 DEF BankNext

(* An exchange's: what its pool holds is staked on a position not settled. *)
Stakes == [i \in DOMAIN positions |-> positions[i].margin + LongMargin(positions[i])]

LEMMA StakesIs ==
  ASSUME ExchangeOK, NEW k
  PROVE  /\ Unsettled(k) \subseteq DOMAIN positions /\ IsFiniteSet(Unsettled(k))
         /\ \A i \in DOMAIN positions : Stakes[i] \in Nat
         /\ Counts(Stakes, Unsettled(k)) /\ Total(Stakes, Unsettled(k)) \in Nat
<1>1. Unsettled(k) \subseteq DOMAIN positions
  BY DEF Unsettled
<1>2. positions \in Seq(PositionRecord) /\ DOMAIN positions = 1..Len(positions) /\ Len(positions) \in Nat
  BY DEF ExchangeOK
<1>3. IsFiniteSet(DOMAIN positions)
  BY <1>2, FS_Interval
<1>4. IsFiniteSet(Unsettled(k))
  BY <1>1, <1>3, FS_Subset
<1>5. \A i \in DOMAIN positions : Stakes[i] \in Nat
  <2> SUFFICES ASSUME NEW i \in DOMAIN positions PROVE Stakes[i] \in Nat
    OBVIOUS
  <2>1. positions[i] \in PositionRecord
    BY <1>2
  <2>2. positions[i].margin \in Nat /\ LongMargin(positions[i]) \in Nat
    BY <2>1, PositionTypes DEF LongMargin
  <2> QED BY <2>2 DEF Stakes
<1>6. Counts(Stakes, Unsettled(k))
  BY <1>1, <1>5 DEF Counts
<1> QED BY <1>1, <1>4, <1>5, <1>6, TotalType

LEMMA PoolBook ==
  PoolIsTheBook <=> \A kind \in Kinds : cash[Pool[kind]] = Total(Stakes, Unsettled(Pool[kind]))
  BY DEF PoolIsTheBook, Stakes

LEMMA PoolStill == ASSUME PoolIsTheBook, cash' = cash, positions' = positions PROVE PoolIsTheBook'
<1>1. Stakes' = Stakes /\ \A k : Unsettled(k)' = Unsettled(k)
  BY DEF Stakes, Unsettled
<1>2. \A kind \in Kinds : cash[Pool[kind]] = Total(Stakes, Unsettled(Pool[kind]))
  BY PoolBook
<1> QED BY <1>1, <1>2 DEF PoolIsTheBook, Stakes

LEMMA OpensBook ==
  ASSUME PurseOK, ExchangeOK, ExchangeOK', PoolIsTheBook, NEW p \in PositionRecord, p.status = "open",
         Opens(p),
         \A k \in House : cash'[k] = IF k = Pool[p.kind] THEN cash[k] + p.margin + LongMargin(p) ELSE cash[k]
  PROVE  PoolIsTheBook'
<1> SUFFICES ASSUME NEW kind \in Kinds
             PROVE  cash'[Pool[kind]] = Total(Stakes', Unsettled(Pool[kind])')
  BY PoolBook DEF PoolIsTheBook, Stakes
<1> DEFINE k == Pool[kind]
           n == Len(positions) + 1
           U == Unsettled(k)
<1>1. /\ positions \in Seq(PositionRecord) /\ Len(positions) \in Nat /\ DOMAIN positions = 1..Len(positions)
      /\ positions' = Append(positions, p)
  BY DEF ExchangeOK, Opens
<1>2. /\ DOMAIN positions' = 1..n /\ positions'[n] = p
      /\ \A i \in DOMAIN positions : positions'[i] = positions[i] /\ i # n /\ i \in 1..n
      /\ \A i \in 1..n : i = n \/ i \in DOMAIN positions
  BY <1>1
<1>3. /\ cash[k] = Total(Stakes, U) /\ k \in House /\ Total(Stakes, U) \in Nat
      /\ U \subseteq DOMAIN positions /\ IsFiniteSet(U) /\ Counts(Stakes, U)
  BY PoolBook, StakesIs, ExchangeAssumption
<1>4. p.margin + LongMargin(p) \in Nat /\ p.margin \in Nat /\ LongMargin(p) \in Nat
  BY PositionTypes DEF LongMargin
<1>5. Unsettled(k)' = IF Pool[p.kind] = k THEN U \union {n} ELSE U
  <2>1. Unsettled(k)' = {i \in 1..n : positions'[i].status # "settled" /\ Pool[positions'[i].kind] = k}
    BY <1>2 DEF Unsettled
  <2>2. U = {i \in DOMAIN positions : positions'[i].status # "settled" /\ Pool[positions'[i].kind] = k}
    BY <1>2 DEF Unsettled
  <2> HIDE DEF U, n, k
  <2>3. \A i \in 1..n : i \in Unsettled(k)' <=> i \in U \/ (i = n /\ Pool[p.kind] = k)
    BY <1>2, <2>1, <2>2
  <2>4. Unsettled(k)' \subseteq 1..n /\ U \subseteq 1..n /\ n \in 1..n
    BY <1>1, <1>2, <2>1, <2>2 DEF n
  <2> QED BY <2>3, <2>4
<1>6. /\ Stakes'[n] = p.margin + LongMargin(p)
      /\ \A i \in U : Stakes'[i] = Stakes[i]
  BY <1>2, <1>3 DEF Stakes
<1> HIDE DEF U, n, k
<1>7. Total(Stakes', U) = Total(Stakes, U) /\ Counts(Stakes', U)
  BY <1>3, <1>6, TotalSame DEF Counts
<1>8. n \notin U
  BY <1>2, <1>3
<1>9. Total(Stakes', U \union {n}) = Total(Stakes', U) + p.margin + LongMargin(p)
  <2>1. Total(Stakes', U \union {n}) = Total(Stakes', U) + Stakes'[n]
    BY <1>3, <1>4, <1>6, <1>7, <1>8, TotalAdd
  <2> QED BY <1>3, <1>4, <1>6, <1>7, <2>1
<1>10. cash'[k] = Total(Stakes', Unsettled(k)')
  BY <1>3, <1>5, <1>7, <1>9
<1> QED BY <1>10 DEF k

LEMMA SettlesBook ==
  ASSUME PurseOK, ExchangeOK, ExchangeOK', PoolIsTheBook, NEW i \in DOMAIN positions, Settle(i)
  PROVE  PoolIsTheBook'
<1> SUFFICES ASSUME NEW kind \in Kinds
             PROVE  cash'[Pool[kind]] = Total(Stakes', Unsettled(Pool[kind])')
  BY PoolBook DEF PoolIsTheBook, Stakes
<1> DEFINE k == Pool[kind]
           p == positions[i]
           pool == Pool[p.kind]
           U == Unsettled(k)
<1>1. /\ cash[k] = Total(Stakes, U) /\ k \in House /\ Total(Stakes, U) \in Nat
      /\ U \subseteq DOMAIN positions /\ IsFiniteSet(U) /\ Counts(Stakes, U)
      /\ \A j \in DOMAIN positions : Stakes[j] \in Nat
  BY PoolBook, StakesIs, ExchangeAssumption
<1>2. p \in PositionRecord /\ p.status # "settled"
  BY DEF ExchangeOK, Settle
<1>3. p.long \in Folk /\ p.short \in Folk /\ pool \in House /\ p.margin \in Nat /\ LongMargin(p) \in Nat
  BY <1>2, PositionTypes DEF LongMargin
<1>4. k \in Party /\ k # p.long /\ k # p.short /\ cash[k] \in Nat /\ Stakes[i] = p.margin + LongMargin(p)
  BY <1>1, <1>3, Parties DEF PurseOK, Stakes
<1>5. cash'[k] = IF k = pool THEN cash[k] - Stakes[i] ELSE cash[k]
  <2>1. \/ \A x \in Party : cash'[x] = cash[x] + Part(x, p.long, LongCredit(p, price))
                                               + Part(x, p.short, ShortCredit(p, price))
                                               - Part(x, pool, p.margin + LongMargin(p))
        \/ \E winner \in {p.long, p.short} :
              \A x \in Party : cash'[x] = IF x = winner THEN cash[x] + p.margin + LongMargin(p)
                                          ELSE IF x = pool THEN cash[x] - p.margin - LongMargin(p)
                                          ELSE cash[x]
    BY SettleIs
  <2> HIDE DEF k, p, pool
  <2>2. cash'[k] = IF k = pool THEN cash[k] - p.margin - LongMargin(p) ELSE cash[k]
    BY <1>3, <1>4, <2>1 DEF Part
  <2> QED BY <1>3, <1>4, <2>2
<1>6. /\ DOMAIN positions' = DOMAIN positions
      /\ \A j \in DOMAIN positions \ {i} : positions'[j] = positions[j]
      /\ positions'[i].status = "settled" /\ positions'[i].margin = p.margin /\ positions'[i].kind = p.kind
  <2>1. positions' = [positions EXCEPT ![i].status = "settled"]
    BY DEF Settle
  <2> QED BY <1>2, <2>1 DEF PositionRecord
<1>7. Unsettled(k)' = U \ {i}
  BY <1>6 DEF Unsettled
<1>8. \A j \in U \ {i} : Stakes'[j] = Stakes[j]
  BY <1>1, <1>6 DEF Stakes
<1>9. i \in U <=> k = pool
  BY <1>2 DEF Unsettled
<1> HIDE DEF U, k, pool, p
<1>10. Total(Stakes', U \ {i}) = Total(Stakes, U \ {i})
  BY <1>8, TotalSame
<1>11. CASE i \in U
  <2>1. Total(Stakes, U) = Total(Stakes, U \ {i}) + Stakes[i] /\ Total(Stakes, U \ {i}) \in Nat
    BY <1>1, <1>11, TotalSplit
  <2>2. Stakes[i] \in Nat
    BY <1>1
  <2>3. cash'[k] = Total(Stakes', Unsettled(k)')
    BY <1>1, <1>5, <1>7, <1>9, <1>10, <1>11, <2>1, <2>2
  <2> QED BY <2>3 DEF k
<1>12. CASE i \notin U
  <2>1. U \ {i} = U
    BY <1>12
  <2>2. cash'[k] = Total(Stakes', Unsettled(k)')
    BY <1>1, <1>5, <1>7, <1>9, <1>10, <1>12, <2>1
  <2> QED BY <2>2 DEF k
<1> QED BY <1>11, <1>12

LEMMA PoolBalances ==
  ASSUME PurseOK, ExchangeOK, ExchangeOK', PoolIsTheBook, ExchangeNext
  PROVE  PoolIsTheBook'
<1> USE Parties
<1>0. /\ tick \in Nat /\ Premiums \subseteq Nat /\ cash \in [Party -> Nat]
      /\ \A kind \in Kinds : Pool[kind] \in House
      /\ \A k \in House : cash[k] \in Nat
  BY ExchangeAssumption DEF PurseOK
<1>1. ASSUME NEW long \in Folk, NEW short \in Folk, NEW lot \in Lots, NEW strike \in Strikes,
             NEW margin \in Margins, "future" \in Kinds,
             OpenFuture(Position("future", long, short, lot, strike, margin, tick + 1))
      PROVE  PoolIsTheBook'
  <2> DEFINE p == Position("future", long, short, lot, strike, margin, tick + 1)
  <2>1. /\ p \in PositionRecord /\ p.kind = "future" /\ p.long = long /\ p.short = short
        /\ p.margin = margin /\ margin \in Nat
    BY <1>0, <1>1, PositionType
  <2>2. Opens(p) /\ PaysBoth(Payment(p.long, Pool[p.kind], p.margin), Payment(p.short, Pool[p.kind], p.margin))
    BY <1>1 DEF OpenFuture
  <2>3. p.status = "open"
    BY DEF Position
  <2> HIDE DEF p
  <2>4. \A x \in Party :
           cash'[x] = cash[x] - Part(x, long, margin) + Part(x, Pool[p.kind], margin)
                              - Part(x, short, margin) + Part(x, Pool[p.kind], margin)
    BY <1>0, <1>1, <2>1, <2>2, PaysBothIs
  <2>5. LongMargin(p) = margin
    BY <2>1 DEF LongMargin
  <2>6. \A k \in House :
           cash'[k] = IF k = Pool[p.kind] THEN cash[k] + p.margin + LongMargin(p) ELSE cash[k]
    BY <1>0, <2>1, <2>4, <2>5 DEF Part
  <2> QED BY <2>1, <2>2, <2>3, <2>6, OpensBook
<1>2. ASSUME NEW long \in Folk, NEW short \in Folk, NEW lot \in Lots, NEW strike \in Strikes,
             NEW margin \in Margins, NEW kind \in Kinds \ {"future"}, NEW premium \in Premiums,
             OpenOption(Position(kind, long, short, lot, strike, margin, tick + 1), premium)
      PROVE  PoolIsTheBook'
  <2> DEFINE p == Position(kind, long, short, lot, strike, margin, tick + 1)
  <2>1. /\ p \in PositionRecord /\ p.kind = kind /\ p.long = long /\ p.short = short
        /\ p.margin = margin /\ margin \in Nat
    BY <1>0, <1>2, PositionType
  <2>2. /\ Opens(p)
        /\ IF premium > 0
           THEN PaysBoth(Payment(p.long, p.short, premium), Payment(p.short, Pool[p.kind], p.margin))
           ELSE Pays(Payment(p.short, Pool[p.kind], p.margin))
    BY <1>2 DEF OpenOption
  <2>3. p.status = "open"
    BY DEF Position
  <2> HIDE DEF p
  <2>4. LongMargin(p) = 0
    BY <2>1 DEF LongMargin
  <2>5. \A k \in House : cash'[k] = IF k = Pool[p.kind] THEN cash[k] + margin ELSE cash[k]
    <3>1. CASE premium > 0
      <4>1. PaysBoth(Payment(long, short, premium), Payment(short, Pool[p.kind], margin))
        BY <2>1, <2>2, <3>1
      <4>2. /\ long \in Party /\ short \in Party /\ Pool[p.kind] \in House
            /\ Pool[p.kind] \in Party /\ short # Pool[p.kind] /\ premium \in Int /\ margin \in Int
        BY <1>0, <1>2, <2>1
      <4>3. \A x \in Party :
           cash'[x] = cash[x] - Part(x, long, premium) + Part(x, short, premium)
                              - Part(x, short, margin) + Part(x, Pool[p.kind], margin)
        BY <1>0, <4>1, <4>2, PaysBothIs
      <4> QED BY <1>0, <2>1, <4>2, <4>3 DEF Part
    <3>2. CASE ~(premium > 0)
      <4>1. \A x \in Party : cash'[x] = IF x = short THEN cash[x] - margin
                                        ELSE IF x = Pool[p.kind] THEN cash[x] + margin ELSE cash[x]
        BY <1>0, <2>1, <2>2, <3>2, PaysIs
      <4> QED BY <1>0, <2>1, <4>1
    <3> QED BY <3>1, <3>2
  <2>6. \A k \in House :
           cash'[k] = IF k = Pool[p.kind] THEN cash[k] + p.margin + LongMargin(p) ELSE cash[k]
    BY <1>0, <2>1, <2>4, <2>5
  <2> QED BY <2>1, <2>2, <2>3, <2>6, OpensBook
<1>3. ASSUME NEW at \in Prices \cup {Dark}, PostPrice(at)
      PROVE  PoolIsTheBook'
  <2>1. cash' = cash /\ positions' = positions
    BY <1>3 DEF PostPrice, purse
  <2> QED BY <2>1, PoolStill
<1>4. ASSUME NEW i \in DOMAIN positions, Settle(i)
      PROVE  PoolIsTheBook'
  BY <1>4, SettlesBook
<1>5. ASSUME ExchangeTick
      PROVE  PoolIsTheBook'
  <2>1. /\ cash' = cash
        /\ \/ positions' = positions
           \/ positions' = [i \in DOMAIN positions |-> Marked(positions[i], tick + 1)]
    BY <1>5 DEF ExchangeTick
  <2>2. CASE positions' = positions
    BY <2>1, <2>2, PoolStill
  <2>3. CASE positions' = [i \in DOMAIN positions |-> Marked(positions[i], tick + 1)]
    <3>1. \A i \in DOMAIN positions : /\ positions'[i].kind = positions[i].kind
                                      /\ positions'[i].margin = positions[i].margin
                                      /\ (positions'[i].status = "settled") = (positions[i].status = "settled")
      <4> SUFFICES ASSUME NEW i \in DOMAIN positions
                   PROVE  /\ Marked(positions[i], tick + 1).kind = positions[i].kind
                          /\ Marked(positions[i], tick + 1).margin = positions[i].margin
                          /\ (Marked(positions[i], tick + 1).status = "settled") = (positions[i].status = "settled")
        BY <2>3
      <4>1. positions[i] \in PositionRecord /\ tick + 1 \in Nat /\ price \in Prices \cup {Dark}
        BY <1>0 DEF ExchangeOK
      <4> QED BY <4>1, MarkedType
    <3>2. DOMAIN positions' = DOMAIN positions
      BY <2>3
    <3>3. Stakes' = Stakes
      BY <3>1, <3>2 DEF Stakes, LongMargin
    <3>4. \A k : Unsettled(k)' = Unsettled(k)
      BY <3>1, <3>2 DEF Unsettled
    <3>5. \A kind \in Kinds : cash[Pool[kind]] = Total(Stakes, Unsettled(Pool[kind]))
      BY PoolBook
    <3> QED BY <2>1, <3>3, <3>4, <3>5 DEF PoolIsTheBook, Stakes
  <2> QED BY <2>1, <2>2, <2>3
<1> QED BY <1>1, <1>2, <1>3, <1>4, <1>5 DEF ExchangeNext

(* An insurer's: a claim marked paid passes the validator, because the row *)
(* of its beneficiary is still that of its policy.  That needs that no two *)
(* of the insured name one beneficiary.                                    *)
OwnHeirs == \A g, h \in Folk : g # h => Heirs[g] \intersect Heirs[h] = {}

CoverInv ==
    \A h \in Folk : policies[h] # NoPolicy =>
        /\ policies[h].heir \in Heirs[h]
        /\ coverage[policies[h].heir] = policies[h].coverage /\ policies[h].coverage > 0

LEMMA InsuranceBalances ==
  ASSUME OwnHeirs, InsuranceOK, CoverInv, PaidIsPaid, InsuranceNext
  PROVE  CoverInv' /\ PaidIsPaid'
<1>0. /\ Coverages \subseteq Nat \ {0} /\ \A h \in Folk : Heirs[h] \subseteq Folk
      /\ policies \in [Folk -> PolicyRecord \cup {NoPolicy}]
      /\ coverage \in [Folk -> Nat] /\ received \in [Folk -> Nat]
      /\ \A h \in Folk : policies[h].coverage \in Nat
  BY InsuranceAssumption, CostType DEF InsuranceOK
<1>1. ASSUME NEW h \in Folk, NEW cover \in Coverages, NEW premium \in Premia,
             NEW term \in {tick + 2, Perpetual}, NEW heir \in Heirs[h],
             Underwrite(h, heir, cover, premium, term)
      PROVE  CoverInv' /\ PaidIsPaid'
  <2> DEFINE new == [heir |-> heir, coverage |-> cover, term |-> term, triggered |-> FALSE, paid |-> FALSE]
  <2>1. /\ policies' = [policies EXCEPT ![h] = new]
        /\ coverage' = [coverage EXCEPT ![heir] = cover]
        /\ received' = [received EXCEPT ![h] = 0]
    BY <1>1 DEF Underwrite
  <2>2. new.heir = heir /\ new.coverage = cover /\ new.paid = FALSE /\ cover > 0 /\ heir \in Folk
    BY <1>0
  <2> HIDE DEF new
  <2>3. policies'[h] = new /\ coverage'[heir] = cover /\ received'[h] = 0
    BY <1>0, <2>1, <2>2
  <2>4. ASSUME NEW g \in Folk, g # h
        PROVE  policies'[g] = policies[g] /\ received'[g] = received[g]
    BY <1>0, <2>1, <2>4
  <2>5. ASSUME NEW g \in Folk, g # h, policies[g] # NoPolicy
        PROVE  policies[g].heir # heir /\ coverage'[policies[g].heir] = coverage[policies[g].heir]
    <3>1. policies[g].heir \in Heirs[g] /\ policies[g].heir \in Folk
      BY <1>0, <2>5 DEF CoverInv
    <3>2. policies[g].heir # heir
      BY <2>5, <3>1 DEF OwnHeirs
    <3> QED BY <1>0, <2>1, <3>1, <3>2
  <2>6. CoverInv'
    BY <2>2, <2>3, <2>4, <2>5 DEF CoverInv
  <2>7. PaidIsPaid'
    BY <2>2, <2>3, <2>4 DEF PaidIsPaid
  <2> QED BY <2>6, <2>7
<1>2. ASSUME InsuranceTick
      PROVE  CoverInv' /\ PaidIsPaid'
  <2>1. coverage' = coverage
    BY <1>2 DEF InsuranceTick
  <2>2. ASSUME NEW queue \in SUBSET Claims,
               received' = [h \in Folk |-> received[h] + IF h \in Honoured(queue) THEN policies[h].coverage ELSE 0],
               policies' = [h \in Folk |-> [policies[h] EXCEPT !.triggered = Triggered(h),
                                                               !.paid = @ \/ h \in queue]]
        PROVE  CoverInv' /\ PaidIsPaid'
    <3>1. \A h \in queue : h \in Folk /\ policies[h] # NoPolicy /\ ~policies[h].paid
      BY DEF Claims, Triggered
    <3>2. Honoured(queue) = queue
      BY <1>0, <3>1 DEF Honoured, Covered, CoverInv
    <3>3. ASSUME NEW h \in Folk
          PROVE  /\ received'[h] = received[h] + (IF h \in queue THEN policies[h].coverage ELSE 0)
                 /\ policies'[h].heir = policies[h].heir /\ policies'[h].coverage = policies[h].coverage
                 /\ policies'[h].paid = (policies[h].paid \/ h \in queue)
                 /\ policies[h] = NoPolicy => policies'[h] = NoPolicy
      <4> DEFINE old == policies[h]
                 mid == [old EXCEPT !.triggered = Triggered(h)]
      <4>1. policies'[h] = [mid EXCEPT !.paid = old.paid \/ h \in queue]
        BY <2>2
      <4>2. received'[h] = received[h] + (IF h \in queue THEN policies[h].coverage ELSE 0)
        BY <2>2, <3>2
      <4>3. CASE old \in PolicyRecord
        <5>1. mid.heir = old.heir /\ mid.coverage = old.coverage /\ DOMAIN mid = DOMAIN old
          BY <4>3 DEF PolicyRecord
        <5>2. /\ policies'[h].heir = mid.heir /\ policies'[h].coverage = mid.coverage
              /\ policies'[h].paid = (old.paid \/ h \in queue)
          BY <4>1, <4>3 DEF PolicyRecord
        <5>3. old # NoPolicy
          BY <1>0, <4>3 DEF PolicyRecord, NoPolicy
        <5> QED BY <4>2, <5>1, <5>2, <5>3
      <4>4. CASE old = NoPolicy
        <5>1. (Triggered(h)) = FALSE /\ (old.paid \/ h \in queue) = FALSE
          BY <3>1, <4>4 DEF Triggered, NoPolicy
        <5>2. mid = NoPolicy
          <6>1. mid = [NoPolicy EXCEPT !.triggered = FALSE]
            BY <4>4, <5>1
          <6> HIDE DEF mid
          <6> QED BY <6>1 DEF NoPolicy
        <5>3. policies'[h] = NoPolicy
          BY <4>1, <5>1, <5>2 DEF NoPolicy
        <5>4. policies'[h].paid = (old.paid \/ h \in queue)
          <6>1. policies'[h].paid = FALSE
            BY <5>3 DEF NoPolicy
          <6> QED BY <5>1, <6>1
        <5> QED BY <4>2, <4>4, <5>3, <5>4
      <4> QED BY <1>0, <4>3, <4>4
    <3>4. CoverInv'
      BY <2>1, <3>3 DEF CoverInv
    <3>5. PaidIsPaid'
      <4> SUFFICES ASSUME NEW h \in Folk
                   PROVE  received'[h] = IF policies'[h].paid THEN policies'[h].coverage ELSE 0
        BY DEF PaidIsPaid
      <4>1. received[h] = IF policies[h].paid THEN policies[h].coverage ELSE 0
        BY DEF PaidIsPaid
      <4>2. CASE h \in queue
        <5>1. received[h] = 0 /\ policies'[h].paid
          BY <3>1, <3>3, <4>1, <4>2
        <5> QED BY <1>0, <3>3, <4>2, <5>1
      <4>3. CASE h \notin queue
        <5>1. received'[h] = received[h]
          BY <1>0, <3>3, <4>3
        <5>2. policies'[h].coverage = policies[h].coverage /\ (policies'[h].paid <=> policies[h].paid)
          BY <3>3, <4>3
        <5> QED BY <4>1, <5>1, <5>2
      <4> QED BY <4>2, <4>3
    <3> QED BY <3>4, <3>5
  <2>3. CASE UNCHANGED <<cash, received, policies>>
    BY <2>1, <2>3 DEF CoverInv, PaidIsPaid
  <2> QED BY <1>2, <2>2, <2>3 DEF InsuranceTick
<1> QED BY <1>1, <1>2 DEF InsuranceNext

----------------------------------------------------------------------------
(* An issuer's: what an issue has cost and what is queued on it together   *)
(* stay within what its units were promised so far.                        *)
Promised(s) == sold[s] * (Coupon * bonds[s].settled + IF sold[s] > 0 /\ bonds[s].redeemed THEN Face ELSE 0)

IssueInv ==
    \A s \in Symbols :
        /\ Total(units[s], Folk) <= sold[s]
        /\ spent[s] + Total(coupons[s], Folk) + Total(faces[s], Folk) <= Promised(s)

LEMMA BondTotals ==
  ASSUME BondOK, NEW s \in Symbols
  PROVE  /\ IsFiniteSet(Folk)
         /\ units[s] \in [Folk -> Nat] /\ coupons[s] \in [Folk -> Nat] /\ faces[s] \in [Folk -> Nat]
         /\ Counts(units[s], Folk) /\ Counts(coupons[s], Folk) /\ Counts(faces[s], Folk)
         /\ Total(units[s], Folk) \in Nat /\ Total(coupons[s], Folk) \in Nat /\ Total(faces[s], Folk) \in Nat
         /\ sold[s] \in Nat /\ spent[s] \in Nat /\ bonds[s] \in BondRecord /\ bonds[s].settled \in Nat
<1>1. IsFiniteSet(Folk)
  BY PurseAssumption
<1>2. units[s] \in [Folk -> Nat] /\ coupons[s] \in [Folk -> Nat] /\ faces[s] \in [Folk -> Nat]
  BY DEF BondOK
<1>3. Counts(units[s], Folk) /\ Counts(coupons[s], Folk) /\ Counts(faces[s], Folk)
  BY <1>2 DEF Counts
<1>4. /\ Total(units[s], Folk) \in Nat /\ Total(coupons[s], Folk) \in Nat /\ Total(faces[s], Folk) \in Nat
  BY <1>1, <1>3, TotalType
<1>5. sold[s] \in Nat /\ spent[s] \in Nat /\ bonds[s] \in BondRecord
  BY DEF BondOK, BondRecord
<1>6. bonds[s].settled \in Nat
  BY <1>5 DEF BondRecord
<1> QED BY <1>1, <1>2, <1>3, <1>4, <1>5, <1>6

LEMMA PromisedType == ASSUME BondOK, NEW s \in Symbols PROVE Promised(s) \in Nat
<1>1. sold[s] \in Nat /\ bonds[s].settled \in Nat /\ Coupon \in Nat /\ Face \in Nat
  BY BondTotals, BondAssumption
<1>2. Coupon * bonds[s].settled \in Nat
  BY <1>1
<1> DEFINE due == Coupon * bonds[s].settled + IF sold[s] > 0 /\ bonds[s].redeemed THEN Face ELSE 0
<1>3. due \in Nat
  BY <1>1, <1>2
<1> HIDE DEF due
<1>4. sold[s] * due \in Nat
  BY <1>1, <1>3
<1> QED BY <1>4 DEF Promised, due

(* With nothing queued, a tick queues what a unit is due for each unit.    *)
LEMMA DueIsPromised ==
  ASSUME BondOK, NEW s \in Symbols, tick \in Nat,
         Total(units[s], Folk) <= sold[s], spent[s] <= Promised(s)
  PROVE  LET b == bonds[s]
             a == Advanced(b, tick + 1)
         IN  spent[s] + CouponDue(b, tick + 1) * Total(units[s], Folk)
                      + FaceDue(b, tick + 1) * Total(units[s], Folk)
               <= sold[s] * (Coupon * a.settled + IF sold[s] > 0 /\ a.redeemed THEN Face ELSE 0)
<1> DEFINE b == bonds[s]
           a == Advanced(b, tick + 1)
           U == Total(units[s], Folk)
           E == Greater(b.settled, Elapsed(b, tick + 1))
           N == sold[s]
<1>1. /\ b \in BondRecord /\ b.settled \in Nat /\ tick + 1 \in Nat
      /\ U \in Nat /\ U <= N /\ N \in Nat /\ spent[s] \in Nat
  BY BondTotals DEF BondRecord
<1>2. Coupon \in Nat /\ Face \in Nat
  BY BondAssumption
<1>3. CASE b.redeemed
  <2>1. a = b /\ CouponDue(b, tick + 1) = 0 /\ FaceDue(b, tick + 1) = 0
    BY <1>3 DEF Advanced, CouponDue, FaceDue
  <2>2. 0 * U = 0
    BY <1>1
  <2> QED BY <1>1, <1>3, <2>1, <2>2 DEF Promised
<1>4. CASE ~b.redeemed
  <2>1. a.settled = E /\ a.redeemed = (tick + 1 >= b.maturity)
    BY <1>1, <1>4, AdvancedType
  <2>2. Elapsed(b, tick + 1) \in Int
    BY <1>1, ElapsedType
  <2>3. E \in Nat /\ b.settled <= E
    BY <1>1, <2>2 DEF Greater
  <2> DEFINE g == E - b.settled
             F == IF N > 0 /\ a.redeemed THEN Face ELSE 0
  <2>4. g \in Nat /\ CouponDue(b, tick + 1) = Coupon * g
    BY <1>1, <1>4, <2>2, <2>3 DEF CouponDue, Greater
  <2>5. FaceDue(b, tick + 1) * U <= N * F
    <3>1. FaceDue(b, tick + 1) = IF tick + 1 >= b.maturity THEN Face ELSE 0
      BY <1>4 DEF FaceDue
    <3>2. CASE N = 0
      <4>1. U = 0
        BY <1>1, <3>2
      <4>2. FaceDue(b, tick + 1) * U = 0 /\ N * F = 0
        BY <1>2, <3>1, <3>2, <4>1
      <4> QED BY <4>2
    <3>3. CASE N > 0
      <4>1. FaceDue(b, tick + 1) = F /\ F \in Nat
        BY <1>2, <2>1, <3>1, <3>3
      <4> HIDE DEF F, U, N
      <4> QED BY <1>1, <4>1
    <3> QED BY <1>1, <3>2, <3>3
  <2>6. spent[s] <= N * (Coupon * b.settled)
    <3>1. Promised(s) = N * (Coupon * b.settled + 0)
      BY <1>4 DEF Promised
    <3>2. Coupon * b.settled \in Nat
      BY <1>1, <1>2
    <3> QED BY <3>1, <3>2
  <2>7. F \in Nat
    BY <1>2
  <2> HIDE DEF E, N, U, F, g, b, a
  <2>8. Coupon * g \in Nat /\ Coupon * b.settled \in Nat
    BY <1>1, <1>2, <2>4
  <2>9. (Coupon * g) * U <= N * (Coupon * g)
    BY <1>1, <2>8
  <2>10. E = b.settled + g
    BY <1>1, <2>3 DEF g
  <2>11. Coupon * E = Coupon * b.settled + Coupon * g
    BY <1>1, <1>2, <2>4, <2>10
  <2>12. N * (Coupon * E + F) = N * (Coupon * b.settled) + N * (Coupon * g) + N * F
    BY <1>1, <2>7, <2>8, <2>11
  <2>13. /\ N * (Coupon * b.settled) \in Nat /\ N * (Coupon * g) \in Nat /\ N * F \in Nat
         /\ (Coupon * g) * U \in Nat
    BY <1>1, <2>7, <2>8
  <2>14. FaceDue(b, tick + 1) * U \in Nat
    <3>1. FaceDue(b, tick + 1) \in Nat
      BY <1>1, DueType
    <3> QED BY <1>1, <3>1
  <2>15. spent[s] + CouponDue(b, tick + 1) * U + FaceDue(b, tick + 1) * U <= N * (Coupon * E + F)
    BY <1>1, <2>4, <2>5, <2>6, <2>9, <2>12, <2>13, <2>14
  <2> QED BY <2>1, <2>15 DEF b, a, U, N, F, E
<1> QED BY <1>3, <1>4

LEMMA IssueSame ==
  ASSUME BondOK, IssueInv, NEW s \in Symbols,
         bonds'[s] = bonds[s], sold'[s] = sold[s],
         Total(units'[s], Folk) <= sold[s],
         spent'[s] + Total(coupons'[s], Folk) + Total(faces'[s], Folk)
            <= spent[s] + Total(coupons[s], Folk) + Total(faces[s], Folk),
         spent'[s] + Total(coupons'[s], Folk) + Total(faces'[s], Folk) \in Nat
  PROVE  /\ Total(units'[s], Folk) <= sold'[s]
         /\ spent'[s] + Total(coupons'[s], Folk) + Total(faces'[s], Folk) <= Promised(s)'
<1>1. Promised(s)' = Promised(s)
  BY DEF Promised
<1>2. spent[s] + Total(coupons[s], Folk) + Total(faces[s], Folk) <= Promised(s)
  BY DEF IssueInv
<1>3. /\ Promised(s) \in Nat
      /\ spent[s] \in Nat /\ Total(coupons[s], Folk) \in Nat /\ Total(faces[s], Folk) \in Nat
  BY PromisedType, BondTotals
<1> QED BY <1>1, <1>2, <1>3

LEMMA IssueStep ==
  ASSUME Tidy, line' = line, PurseOK, BondOK, PurseOK', BondOK', IssueInv, BondNext
  PROVE  IssueInv'
<1> SUFFICES ASSUME NEW z \in Symbols
             PROVE  /\ Total(units'[z], Folk) <= sold'[z]
                    /\ spent'[z] + Total(coupons'[z], Folk) + Total(faces'[z], Folk) <= Promised(z)'
  BY DEF IssueInv
<1> DEFINE Goal == /\ Total(units'[z], Folk) <= sold'[z]
                   /\ spent'[z] + Total(coupons'[z], Folk) + Total(faces'[z], Folk) <= Promised(z)'
<1>0. /\ tick \in Nat /\ IsFiniteSet(Folk) /\ MaxUnits \in Nat
      /\ bonds \in [Symbols -> BondRecord] /\ units \in [Symbols -> [Folk -> Nat]]
      /\ coupons \in [Symbols -> [Folk -> Nat]] /\ faces \in [Symbols -> [Folk -> Nat]]
      /\ sold \in [Symbols -> Nat] /\ spent \in [Symbols -> Nat]
  BY PurseAssumption, BondAssumption DEF PurseOK, BondOK, BondRecord
<1>a. /\ Total(units[z], Folk) \in Nat /\ Total(coupons[z], Folk) \in Nat /\ Total(faces[z], Folk) \in Nat
      /\ sold[z] \in Nat /\ spent[z] \in Nat /\ bonds[z] \in BondRecord
      /\ Counts(units[z], Folk) /\ Counts(coupons[z], Folk) /\ Counts(faces[z], Folk)
      /\ Total(units[z], Folk) <= sold[z]
  BY BondTotals DEF IssueInv
<1>b. /\ Total(units'[z], Folk) \in Nat /\ Total(coupons'[z], Folk) \in Nat /\ Total(faces'[z], Folk) \in Nat
      /\ sold'[z] \in Nat /\ spent'[z] \in Nat /\ bonds'[z] \in BondRecord
      /\ Counts(units'[z], Folk) /\ Counts(coupons'[z], Folk) /\ Counts(faces'[z], Folk)
      /\ spent'[z] + Total(coupons'[z], Folk) + Total(faces'[z], Folk) \in Nat
  <2>1. /\ units'[z] \in [Folk -> Nat] /\ coupons'[z] \in [Folk -> Nat] /\ faces'[z] \in [Folk -> Nat]
        /\ sold'[z] \in Nat /\ spent'[z] \in Nat /\ bonds'[z] \in BondRecord
    BY DEF BondOK, BondRecord
  <2>2. Counts(units'[z], Folk) /\ Counts(coupons'[z], Folk) /\ Counts(faces'[z], Folk)
    BY <2>1 DEF Counts
  <2>3. Total(units'[z], Folk) \in Nat /\ Total(coupons'[z], Folk) \in Nat /\ Total(faces'[z], Folk) \in Nat
    BY <1>0, <2>2, TotalType
  <2> QED BY <2>1, <2>2, <2>3
<1>c. Quiet => Total(coupons[z], Folk) = 0 /\ Total(faces[z], Folk) = 0
  BY TotalZero DEF Quiet
<1>1. ASSUME NEW s \in Symbols, NEW takes \in [Folk -> 0..MaxUnits], NEW at \in 0..LastTick,
             IssueBond(s, takes, at)
      PROVE  Goal
  <2> DEFINE new == [issued |-> at, maturity |-> at + Periods * Interval,
                     settled |-> 0, redeemed |-> FALSE]
  <2>1. /\ Quiet /\ (Tidy => Holders(s) = {})
        /\ units' = [units EXCEPT ![s] = [p \in Folk |-> @[p] + takes[p]]]
        /\ bonds' = [bonds EXCEPT ![s] = new]
        /\ sold' = [sold EXCEPT ![s] = Total(takes, Folk)]
        /\ spent' = [spent EXCEPT ![s] = 0]
        /\ UNCHANGED <<tick, coupons, faces>>
    BY <1>1 DEF IssueBond
  <2>2. CASE z # s
    <3>1. bonds'[z] = bonds[z] /\ units'[z] = units[z] /\ sold'[z] = sold[z] /\ spent'[z] = spent[z]
      BY <1>0, <2>1, <2>2
    <3>2. coupons' = coupons /\ faces' = faces /\ tick' = tick
      BY <2>1
    <3>3. /\ Total(units'[z], Folk) <= sold[z]
          /\ spent'[z] + Total(coupons'[z], Folk) + Total(faces'[z], Folk)
               <= spent[z] + Total(coupons[z], Folk) + Total(faces[z], Folk)
      BY <1>a, <3>1, <3>2
    <3> HIDE DEF Goal
    <3>4. Goal
      BY <1>b, <3>1, <3>2, <3>3, IssueSame DEF Goal
    <3> QED BY <3>4
  <2>3. CASE z = s
    <3>1. new.settled = 0 /\ new.redeemed = FALSE
      OBVIOUS
    <3> HIDE DEF new
    <3>2. bonds'[s] = new /\ sold'[s] = Total(takes, Folk) /\ spent'[s] = 0
      BY <1>0, <2>1
    <3>3. \A p \in Folk : units'[s][p] = takes[p]
      <4>1. \A p \in Folk : units[s][p] = 0
        BY <1>0, <2>1 DEF Holders
      <4>2. units'[s] = [p \in Folk |-> units[s][p] + takes[p]]
        BY <1>0, <2>1
      <4> QED BY <1>0, <4>1, <4>2
    <3>4. Total(units'[s], Folk) = Total(takes, Folk)
      BY <3>3, TotalSame
    <3>5. Promised(s)' = 0
      <4>1. Promised(s)' = sold'[s] * (Coupon * 0 + 0)
        BY <3>1, <3>2 DEF Promised
      <4> QED BY <1>b, <2>3, <4>1, BondAssumption
    <3>6. Total(coupons'[z], Folk) = 0 /\ Total(faces'[z], Folk) = 0
      BY <1>c, <2>1
    <3>7. Total(units'[z], Folk) <= sold'[z]
      BY <1>b, <2>3, <3>2, <3>4
    <3>8. spent'[z] + Total(coupons'[z], Folk) + Total(faces'[z], Folk) <= Promised(z)'
      BY <2>3, <3>2, <3>5, <3>6
    <3> QED BY <3>7, <3>8
  <2> QED BY <2>2, <2>3
<1>2. ASSUME NEW s \in Symbols, NEW p \in Folk, NEW to \in Folk, p # to, SellUnit(s, p, to)
      PROVE  Goal
  <2> DEFINE mid == [units EXCEPT ![s][p] = @ - 1]
  <2>1. /\ units' = [mid EXCEPT ![s][to] = @ + 1]
        /\ UNCHANGED <<goods, tick, bonds, sold, coupons, faces, spent>>
    BY <1>2 DEF SellUnit
  <2>2. /\ mid[s][p] = units[s][p] - 1
        /\ \A q \in Folk \ {p} : mid[s][q] = units[s][q]
        /\ \A y \in Symbols \ {s} : mid[y] = units[y]
        /\ DOMAIN mid = Symbols /\ \A y \in Symbols : DOMAIN mid[y] = Folk
    BY <1>0
  <2> HIDE DEF mid
  <2>3. Total(units'[z], Folk) = Total(units[z], Folk)
    <3>1. CASE z = s
      <4>1. /\ units'[s][p] = units[s][p] - 1 /\ units'[s][to] = units[s][to] + 1
            /\ \A q \in Folk \ {p, to} : units'[s][q] = units[s][q]
            /\ units[s][p] \in Nat /\ units[s][to] \in Nat
        BY <1>0, <1>2, <2>1, <2>2
      <4>2. Total(units'[s], Folk) = Total(units[s], Folk) - units[s][p] - units[s][to]
                                       + units'[s][p] + units'[s][to]
        <5> DEFINE f == units[s]
                   g == units'[s]
        <5>1. /\ IsFiniteSet(Folk) /\ Counts(f, Folk) /\ Counts(g, Folk) /\ p # to
              /\ \A q \in Folk \ {p, to} : g[q] = f[q]
          BY <1>0, <1>2, <1>a, <1>b, <3>1, <4>1
        <5> HIDE DEF f, g
        <5>2. Total(g, Folk) = Total(f, Folk) - f[p] - f[to] + g[p] + g[to]
          BY <5>1, TotalMove
        <5> QED BY <5>2 DEF f, g
      <4> QED BY <1>a, <3>1, <4>1, <4>2
    <3>2. CASE z # s
      BY <1>0, <2>1, <2>2, <3>2
    <3> QED BY <3>1, <3>2
  <2> QED BY <1>a, <1>b, <2>1, <2>3, IssueSame
<1>3. ASSUME NEW s \in Symbols, RedeemHoldings(s)
      PROVE  Goal
  <2>1. /\ units' = [units EXCEPT ![s] = [p \in Folk |-> 0]]
        /\ UNCHANGED <<tick, bonds, sold, coupons, faces, spent>>
    BY <1>3 DEF RedeemHoldings, purse
  <2>2. Total(units'[z], Folk) <= Total(units[z], Folk)
    <3>1. CASE z = s
      <4>1. \A p \in Folk : units'[z][p] = 0
        BY <1>0, <2>1, <3>1
      <4> QED BY <1>a, <4>1, TotalZero
    <3>2. CASE z # s
      BY <1>0, <1>a, <2>1, <3>2
    <3> QED BY <3>1, <3>2
  <2> QED BY <1>a, <1>b, <2>1, <2>2, IssueSame
<1>4. ASSUME NEW s \in Symbols, NEW p \in Folk, PayCoupon(s, p)
      PROVE  Goal
  <2>1. /\ Pay(s, p, coupons[s][p]) /\ coupons' = [coupons EXCEPT ![s][p] = 0] /\ UNCHANGED faces
    BY <1>4 DEF PayCoupon
  <2>2. coupons[s][p] \in Nat
    BY <1>0
  <2>3. /\ tick' = tick /\ bonds' = bonds /\ units' = units /\ sold' = sold
        /\ (z # s => spent'[z] = spent[z]) /\ spent'[s] <= spent[s] + coupons[s][p]
    BY <2>1, <2>2, PayIs
  <2>4. CASE z # s
    <3>1. coupons'[z] = coupons[z]
      BY <1>0, <2>1, <2>4
    <3> QED BY <1>a, <1>b, <2>1, <2>3, <2>4, <3>1, IssueSame
  <2>5. CASE z = s
    <3>1. coupons'[s][p] = 0 /\ \A q \in Folk \ {p} : coupons'[s][q] = coupons[s][q]
      BY <1>0, <2>1
    <3>2. Total(coupons'[s], Folk) = Total(coupons[s], Folk) - coupons[s][p] + 0
      <4>1. Counts(coupons[s], Folk) /\ Counts(coupons'[s], Folk)
        BY <1>a, <1>b, <2>5
      <4> QED BY <1>0, <3>1, <4>1, TotalChange
    <3> QED BY <1>a, <1>b, <2>1, <2>2, <2>3, <2>5, <3>2, IssueSame
  <2> QED BY <2>4, <2>5
<1>5. ASSUME NEW s \in Symbols, NEW p \in Folk, PayFace(s, p)
      PROVE  Goal
  <2>1. /\ Pay(s, p, faces[s][p]) /\ faces' = [faces EXCEPT ![s][p] = 0] /\ UNCHANGED coupons
    BY <1>5 DEF PayFace
  <2>2. faces[s][p] \in Nat
    BY <1>0
  <2>3. /\ tick' = tick /\ bonds' = bonds /\ units' = units /\ sold' = sold
        /\ (z # s => spent'[z] = spent[z]) /\ spent'[s] <= spent[s] + faces[s][p]
    BY <2>1, <2>2, PayIs
  <2>4. CASE z # s
    <3>1. faces'[z] = faces[z]
      BY <1>0, <2>1, <2>4
    <3> QED BY <1>a, <1>b, <2>1, <2>3, <2>4, <3>1, IssueSame
  <2>5. CASE z = s
    <3>1. faces'[s][p] = 0 /\ \A q \in Folk \ {p} : faces'[s][q] = faces[s][q]
      BY <1>0, <2>1
    <3>2. Total(faces'[s], Folk) = Total(faces[s], Folk) - faces[s][p] + 0
      <4>1. Counts(faces[s], Folk) /\ Counts(faces'[s], Folk)
        BY <1>a, <1>b, <2>5
      <4> QED BY <1>0, <3>1, <4>1, TotalChange
    <3> QED BY <1>a, <1>b, <2>1, <2>2, <2>3, <2>5, <3>2, IssueSame
  <2> QED BY <2>4, <2>5
<1>6. ASSUME BondTick
      PROVE  Goal
  <2>1. /\ Quiet /\ tick' = tick + 1 /\ tick' \in Nat
        /\ UNCHANGED <<cash, goods, units, sold, spent>>
    BY <1>0, <1>6 DEF BondTick, Ticks
  <2>2. /\ Total(coupons[z], Folk) = 0 /\ Total(faces[z], Folk) = 0
        /\ spent[z] <= Promised(z)
    <3>1. Promised(z) \in Nat
      BY PromisedType
    <3> QED BY <1>a, <1>c, <2>1, <3>1 DEF IssueInv
  <2>3. ASSUME coupons' = [s \in Symbols |-> [p \in Folk |-> CouponDue(bonds[s], tick + 1) * units[s][p]]],
               faces' = [s \in Symbols |-> [p \in Folk |-> FaceDue(bonds[s], tick + 1) * units[s][p]]],
               bonds' = [s \in Symbols |-> Advanced(bonds[s], tick + 1)]
        PROVE  Goal
    <3> DEFINE C == CouponDue(bonds[z], tick + 1)
               F == FaceDue(bonds[z], tick + 1)
    <3>1. C \in Nat /\ F \in Nat
      <4>1. tick + 1 \in Nat
        BY <1>0
      <4> QED BY <1>a, <4>1, DueType
    <3>2. /\ \A p \in Folk : coupons'[z][p] = C * units[z][p]
          /\ \A p \in Folk : faces'[z][p] = F * units[z][p]
          /\ bonds'[z] = Advanced(bonds[z], tick + 1)
      BY <2>3
    <3> HIDE DEF C, F
    <3>3. Total(coupons'[z], Folk) <= C * Total(units[z], Folk)
      BY <1>0, <1>a, <3>1, <3>2, TotalScaled
    <3>4. Total(faces'[z], Folk) <= F * Total(units[z], Folk)
      BY <1>0, <1>a, <3>1, <3>2, TotalScaled
    <3>5. spent[z] + C * Total(units[z], Folk) + F * Total(units[z], Folk)
            <= sold[z] * (Coupon * bonds'[z].settled
                          + IF sold[z] > 0 /\ bonds'[z].redeemed THEN Face ELSE 0)
      BY <1>0, <1>a, <2>2, <3>2, DueIsPromised DEF C, F
    <3>6. Promised(z)' = sold[z] * (Coupon * bonds'[z].settled
                                    + IF sold[z] > 0 /\ bonds'[z].redeemed THEN Face ELSE 0)
      BY <2>1 DEF Promised
    <3>7. Promised(z)' \in Nat
      <4>1. bonds'[z].settled \in Nat
        BY <1>b DEF BondRecord
      <4> DEFINE due == Coupon * bonds'[z].settled + IF sold[z] > 0 /\ bonds'[z].redeemed THEN Face ELSE 0
      <4>2. due \in Nat
        BY <4>1, BondAssumption
      <4> HIDE DEF due
      <4>3. sold[z] * due \in Nat
        BY <1>a, <4>2
      <4> QED BY <3>6, <4>3 DEF due
    <3>8. C * Total(units[z], Folk) \in Nat /\ F * Total(units[z], Folk) \in Nat
      BY <1>a, <3>1
    <3>9. units'[z] = units[z] /\ sold'[z] = sold[z] /\ spent'[z] = spent[z]
      BY <2>1
    <3>10. spent'[z] + Total(coupons'[z], Folk) + Total(faces'[z], Folk) <= Promised(z)'
      <4> DEFINE P == Promised(z)'
                 a == C * Total(units[z], Folk)
                 b == F * Total(units[z], Folk)
      <4>1. spent[z] + a + b <= P /\ P \in Nat /\ a \in Nat /\ b \in Nat
        BY <3>5, <3>6, <3>7, <3>8
      <4>2. Total(coupons'[z], Folk) <= a /\ Total(faces'[z], Folk) <= b
        BY <3>3, <3>4
      <4> HIDE DEF a, b, P
      <4>3. spent'[z] + Total(coupons'[z], Folk) + Total(faces'[z], Folk) <= P
        BY <1>a, <1>b, <3>9, <4>1, <4>2
      <4> QED BY <4>3 DEF P
    <3> QED BY <1>a, <3>9, <3>10
  <2>4. CASE UNCHANGED <<coupons, faces, bonds>>
    <3>1. Promised(z)' = Promised(z)
      BY <2>1, <2>4 DEF Promised
    <3> QED BY <1>a, <2>1, <2>2, <2>4, <3>1
  <2> QED BY <1>6, <2>3, <2>4 DEF BondTick
<1> QED BY <1>1, <1>2, <1>3, <1>4, <1>5, <1>6 DEF BondNext

----------------------------------------------------------------------------
BooksInv ==
    /\ line = "bank" => BalanceSheet
    /\ line = "exchange" => PoolIsTheBook
    /\ IssueInv
    /\ CoverInv /\ PaidIsPaid

LEMMA IssueStill == ASSUME IssueInv, UNCHANGED bondVars PROVE IssueInv'
  BY DEF IssueInv, Promised, bondVars

LEMMA CoverStill ==
  ASSUME CoverInv, PaidIsPaid, UNCHANGED insuranceVars
  PROVE  CoverInv' /\ PaidIsPaid'
  BY DEF CoverInv, PaidIsPaid, insuranceVars

LEMMA BooksInit == ASSUME Init, TypeOK PROVE BooksInv
<1> USE DEF TypeOK
<1>0. line \in Lines /\ IsFiniteSet(Folk)
  BY PurseAssumption DEF Init
<1>1. BalanceSheet
  <2> SUFFICES ASSUME NEW k \in House
               PROVE  TotalDeposits(k) = cash[k] - capital[k] + Lent(k) + forgotten[k]
    BY DEF BalanceSheet
  <2>1. /\ deposits = [j \in House |-> [p \in Folk |-> 0]]
        /\ debts = [j \in House |-> [p \in Folk |-> NoDebt]]
        /\ capital = [j \in House |-> cash[j]] /\ forgotten = [j \in House |-> 0]
    BY DEF Init, BankInit
  <2>2. NoDebt.principal = 0 /\ NoDebt.paid = 0
    BY DEF NoDebt
  <2>3. TotalDeposits(k) = 0
    <3>1. \A p \in Folk : deposits[k][p] = 0
      BY <2>1
    <3> QED BY <3>1, TotalZero DEF TotalDeposits
  <2>4. Lent(k) = 0
    <3> DEFINE f == [p \in Folk |-> debts[k][p].principal]
               g == [p \in Folk |-> debts[k][p].paid]
    <3>1. (\A p \in Folk : f[p] = 0) /\ (\A p \in Folk : g[p] = 0)
      BY <2>1, <2>2
    <3>2. Lent(k) = Total(f, Folk) - Total(g, Folk)
      BY DEF Lent
    <3> HIDE DEF f, g
    <3>3. Total(f, Folk) = 0 /\ Total(g, Folk) = 0
      BY <3>1, TotalZero
    <3> QED BY <3>2, <3>3
  <2>5. cash[k] \in Nat /\ capital[k] = cash[k] /\ forgotten[k] = 0
    BY <2>1, Parties DEF PurseOK
  <2> QED BY <2>3, <2>4, <2>5
<1>2. line = "exchange" => PoolIsTheBook
  <2> SUFFICES ASSUME line = "exchange" PROVE PoolIsTheBook
    OBVIOUS
  <2> SUFFICES ASSUME NEW kind \in Kinds
               PROVE  cash[Pool[kind]] = Total(Stakes, Unsettled(Pool[kind]))
    BY PoolBook
  <2>1. cash[Pool[kind]] = 0
    BY <1>0, ContractsAssumption DEF Init
  <2>2. Unsettled(Pool[kind]) = {}
    BY DEF Init, ExchangeInit, Unsettled
  <2> QED BY <2>1, <2>2, TotalEmpty
<1>3. IssueInv
  <2> SUFFICES ASSUME NEW s \in Symbols
               PROVE  /\ Total(units[s], Folk) <= sold[s]
                      /\ spent[s] + Total(coupons[s], Folk) + Total(faces[s], Folk) <= Promised(s)
    BY DEF IssueInv
  <2>1. /\ bonds[s] = NoBond /\ sold[s] = 0 /\ spent[s] = 0
        /\ \A p \in Folk : units[s][p] = 0 /\ coupons[s][p] = 0 /\ faces[s][p] = 0
    BY DEF Init, BondInit
  <2>2. Total(units[s], Folk) = 0 /\ Total(coupons[s], Folk) = 0 /\ Total(faces[s], Folk) = 0
    BY <2>1, TotalZero
  <2>3. Promised(s) \in Nat
    BY PromisedType
  <2> QED BY <2>1, <2>2, <2>3
<1>4. CoverInv /\ PaidIsPaid
  <2>1. NoPolicy.paid = FALSE
    BY DEF NoPolicy
  <2> QED BY <2>1 DEF Init, InsuranceInit, CoverInv, PaidIsPaid
<1> QED BY <1>1, <1>2, <1>3, <1>4 DEF BooksInv

LEMMA BooksStep ==
  ASSUME Tidy, OwnHeirs, TypeOK, TypeOK', BooksInv, [Next]_vars
  PROVE  BooksInv'
<1> USE DEF TypeOK
<1>1. ASSUME line = "loan", LoanNext, UNCHANGED <<line, bankVars, bondVars, exchangeVars, insuranceVars>>
      PROVE  BooksInv'
  <2>1. tick <= tick'
    BY <1>1, LoanKeeps
  <2> QED BY <1>1, <2>1, IssueStill, CoverStill DEF BooksInv
<1>2. ASSUME line = "bank", BankNext, UNCHANGED <<line, loanVars, bondVars, exchangeVars, insuranceVars>>
      PROVE  BooksInv'
  <2>1. tick <= tick'
    BY <1>2, BankKeeps
  <2> QED BY <1>2, <2>1, BankBalances, IssueStill, CoverStill DEF BooksInv
<1>3. ASSUME line = "bond", BondNext, UNCHANGED <<line, loanVars, bankVars, exchangeVars, insuranceVars>>
      PROVE  BooksInv'
  BY <1>3, IssueStep, CoverStill DEF BooksInv
<1>4. ASSUME line = "exchange", ExchangeNext, UNCHANGED <<line, loanVars, bankVars, bondVars, insuranceVars>>
      PROVE  BooksInv'
  <2>1. tick <= tick'
    BY <1>4, ExchangeKeeps
  <2> QED BY <1>4, <2>1, PoolBalances, IssueStill, CoverStill DEF BooksInv
<1>5. ASSUME line = "insurance", InsuranceNext, UNCHANGED <<line, loanVars, bankVars, bondVars, exchangeVars>>
      PROVE  BooksInv'
  <2>1. tick <= tick'
    BY <1>5, InsuranceKeeps
  <2> QED BY <1>5, <2>1, InsuranceBalances, IssueStill DEF BooksInv
<1>6. ASSUME UNCHANGED vars
      PROVE  BooksInv'
  <2>1. UNCHANGED <<line, cash, goods, tick, loanVars, bankVars, bondVars, exchangeVars, insuranceVars>>
    BY <1>6 DEF vars, purse
  <2>2. tick <= tick'
    BY <2>1 DEF PurseOK
  <2>3. (line = "bank" => BalanceSheet)' /\ (line = "exchange" => PoolIsTheBook)'
    <3>1. BalanceSheet => BalanceSheet'
      BY <2>1 DEF BalanceSheet, TotalDeposits, Lent, bankVars
    <3>2. PoolIsTheBook => PoolIsTheBook'
      BY <2>1, PoolStill DEF exchangeVars
    <3> QED BY <2>1, <3>1, <3>2 DEF BooksInv
  <2> QED BY <2>1, <2>2, <2>3, IssueStill, CoverStill DEF BooksInv
<1> QED BY <1>1, <1>2, <1>3, <1>4, <1>5, <1>6 DEF Next

(* What an issue was promised bounds what it has cost.                     *)
LEMMA IssueBooks == ASSUME BondOK, IssueInv PROVE CouponsArePaidOnce
<1> SUFFICES ASSUME NEW s \in Symbols PROVE spent[s] <= Promised(s)
  BY DEF CouponsArePaidOnce, Promised
<1>1. spent[s] + Total(coupons[s], Folk) + Total(faces[s], Folk) <= Promised(s)
  BY DEF IssueInv
<1>2. /\ Promised(s) \in Nat
      /\ spent[s] \in Nat /\ Total(coupons[s], Folk) \in Nat /\ Total(faces[s], Folk) \in Nat
  BY PromisedType, BondTotals
<1> QED BY <1>1, <1>2

(* The books of every pack agree with the money: for any house and people, *)
(* any sums, terms and prices.  Tidy says that the units of an issue are   *)
(* redeemed before its symbol is issued again, OwnHeirs that nobody is the *)
(* beneficiary of two people; without either the books of those packs do   *)
(* come apart.                                                             *)
THEOREM BooksBalanceHolds == ASSUME Tidy, OwnHeirs PROVE Spec => []BooksBalance
<1>1. Init => TypeOK /\ BooksInv
  BY TypeInit, BooksInit
<1>2. TypeOK /\ BooksInv /\ [Next]_vars => (TypeOK /\ BooksInv)'
  BY TypeStep, BooksStep
<1>3. TypeOK /\ BooksInv => BooksBalance
  BY IssueBooks DEF BooksInv, BooksBalance, TypeOK
<1> QED BY <1>1, <1>2, <1>3, PTL DEF Spec
=============================================================================
