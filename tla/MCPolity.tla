------------------------------ MODULE MCPolity ------------------------------
(* A polity of three: a share company that sets the policy, and a liquid   *)
(* assembly and a council that amend the constitution.                     *)
EXTENDS Polity

Bills == [tax |-> [tier |-> "ordinary", target |-> "crown", threshold |-> 50, quorum |-> 50,
                   mutations |-> <<<<Script, 1>>, <<Policy, 2>>>>],
          charter |-> [tier |-> "constitutional", target |-> "crown", threshold |-> 50, quorum |-> 0,
                   mutations |-> <<<<Floor, 50>>, <<Bound, 1>>,
                                   <<Holding("guild", "set_fiscal_policy"), 1>>,
                                   <<Holding("crown", "grant_capability"), 0>>, <<Policy, 1>>>>]]

Crown == [t \in Topic |->
    CASE t = Bound -> 2
      [] t = Floor -> 67
      [] t \in {Holding("crown", c) : c \in Power} -> 1
      [] OTHER -> 0]

Chains == {[ann |-> "bob", bob |-> "cyd"], [ann |-> "bob", bob |-> "ann"]}
Chambers == {[ann |-> 1, bob |-> 2], [cyd |-> 1]}
Companies == [tax |-> "share", charter |-> "liquid"]
Councils == [tax |-> "council", charter |-> "weighted"]
Beginnings == {[graph |-> g, roll |-> [ann |-> 1, bob |-> 2], form |-> Companies] : g \in Chains}
              \union {[graph |-> [ann |-> "bob", bob |-> "cyd"], roll |-> r, form |-> Councils] : r \in Chambers}
Deals == {<<"ann", "bob">>}
Edicts == {<<Policy, 2>>}
Reflexes == {<<Holding("guild", "legislate"), 1>>}
=============================================================================
