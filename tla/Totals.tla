------------------------------- MODULE Totals -------------------------------
(***************************************************************************)
(* The total of a function over a set, as the conserved sums of the        *)
(* models take it: a balance, a holding or a weight is a number of units,  *)
(* and the total is the number of all the units there are.  Total(f, S) is *)
(* the sum of f[x] over the x of a finite set S when each f[x] is a        *)
(* natural number.                                                         *)
(***************************************************************************)
EXTENDS Integers, FiniteSets

Units(f, S) == UNION {{x} \X (1..f[x]) : x \in S}

Total(f, S) == Cardinality(Units(f, S))

(* The sum when each f[x] is an integer: what there is less what is owed.  *)
Net(f, S) == Total(f, S) - Total([x \in S |-> -f[x]], S)
=============================================================================
