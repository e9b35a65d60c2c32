------------------------------ MODULE Insurance ----------------------------
(***************************************************************************)
(* The insurer of src/contracts/insurance.  insurance.py underwrites: the  *)
(* premium goes into the pool, the policy on the book, and the coverage    *)
(* into a row kept for the beneficiary's account.  insurance.lua reads the *)
(* events of the last tick, marks the policies of the fallen and queues    *)
(* their payouts, marking them paid; coverage_cap.lua then judges each     *)
(* transfer by the row.                                                    *)
(***************************************************************************)
EXTENDS Purse

CONSTANTS
    Insurer,     \* the house that insures
    Heirs,       \* whom each may name as beneficiary
    Coverages, Premia    \* bounds: terms of a policy

ASSUME InsuranceAssumption ==
    /\ Insurer \in House /\ Heirs \in [Folk -> SUBSET Folk]
    /\ Coverages \subseteq Nat \ {0} /\ Premia \subseteq Nat

VARIABLES
    policies,    \* state.policies of the script
    coverage,    \* the rows insurance:coverage:<account>
    fallen,      \* the incapacitated, by the tick of it
    received     \* history: what was paid on the present policy of each

insuranceVars == <<policies, coverage, fallen, received>>

Perpetual == LastTick + 1
NoPolicy == [heir |-> "none", coverage |-> 0, term |-> 0, triggered |-> FALSE, paid |-> FALSE]

InsuranceInit ==
    /\ policies = [h \in Folk |-> NoPolicy]
    /\ coverage = [p \in Folk |-> 0]
    /\ fallen = [h \in Folk |-> 0]
    /\ received = [h \in Folk |-> 0]

Underwrite(h, heir, cover, premium, term) ==
    /\ IF premium > 0 THEN Pays(Payment(h, Insurer, premium)) ELSE UNCHANGED cash
    /\ policies' = [policies EXCEPT ![h] = [heir |-> heir, coverage |-> cover, term |-> term,
                                            triggered |-> FALSE, paid |-> FALSE]]
    /\ coverage' = [coverage EXCEPT ![heir] = cover]
    /\ received' = [received EXCEPT ![h] = 0]
    /\ UNCHANGED <<goods, tick, fallen>>

\* coverage_cap.lua: a row of nothing stands for no row.
Covered(heir, sum) == coverage[heir] > 0 /\ sum <= coverage[heir]

\* What the script finds triggered in a tick: an event of the tick before.
Triggered(h) ==
    /\ policies[h] # NoPolicy
    /\ policies[h].triggered \/ (fallen[h] > 0 /\ fallen[h] = tick)

Claims == {h \in Folk : Triggered(h) /\ ~policies[h].paid /\ tick + 1 <= policies[h].term}

Cost(S) == Total([h \in Folk |-> policies[h].coverage], S)

\* The claims a local counter of the pool lets through in one order or
\* another: they fit together and no other fits beside them.
Payable(S) ==
    /\ Cost(S) <= cash[Insurer]
    /\ \A h \in Claims \ S : Cost(S \cup {h}) > cash[Insurer]

\* The queued transfers the validator lets through.
Honoured(S) == {h \in S : Covered(policies[h].heir, policies[h].coverage)}

Fall(h) == fallen' = [fallen EXCEPT ![h] = tick + 1]

\* A tick: somebody may fall in it; the script may be skipped, and the events
\* it would have read are then gone.
InsuranceTick ==
    /\ Ticks
    /\ \/ \E queue \in SUBSET Claims :
              LET paid  == Honoured(queue)
                  to(p) == {h \in paid : policies[h].heir = p}
              IN  /\ Payable(queue)
                  /\ cash' = [p \in Party |-> IF p = Insurer THEN cash[p] - Cost(paid)
                                              ELSE cash[p] + Cost(to(p))]
                  /\ received' = [h \in Folk |-> received[h] + IF h \in paid THEN policies[h].coverage ELSE 0]
                  /\ policies' = [h \in Folk |-> [policies[h] EXCEPT !.triggered = Triggered(h),
                                                                     !.paid = @ \/ h \in queue]]
       \/ UNCHANGED <<cash, received, policies>>
    /\ \/ \E h \in Folk : fallen[h] = 0 /\ Fall(h)
       \/ UNCHANGED fallen
    /\ UNCHANGED <<goods, coverage>>

InsuranceNext ==
    \/ \E h \in Folk, cover \in Coverages, premium \in Premia, term \in {tick + 2, Perpetual} :
           \E heir \in Heirs[h] : Underwrite(h, heir, cover, premium, term)
    \/ InsuranceTick

----------------------------------------------------------------------------
(***************************************************************************)
(* A policy marked paid was paid, in full and once, and one that was not   *)
(* marked paid nothing: the script marks before the transfer is resolved,  *)
(* so this is its claim that the transfer cannot fail.  It holds while no  *)
(* two of the insured may name one beneficiary: the row that admits a      *)
(* payout is kept for the account, and the policy written last, with less  *)
(* cover, vetoes the payout of the one before.                             *)
(***************************************************************************)
PaidIsPaid ==
    \A h \in Folk : received[h] = IF policies[h].paid THEN policies[h].coverage ELSE 0

(***************************************************************************)
(* An insured who fell is found out in the tick after.  It does not hold:  *)
(* events are shown for one tick, and the script may be skipped in it.     *)
(***************************************************************************)
NoDeathIsMissed ==
    \A h \in Folk :
        policies[h] # NoPolicy /\ fallen[h] > 0 /\ fallen[h] < tick /\ fallen[h] + 1 = tick
            => policies[h].triggered
============================================================================
