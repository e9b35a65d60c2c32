------------------------------ MODULE MCEpochs ------------------------------
(* Two ways to win, two players   and rounds of two ticks.                 *)
EXTENDS Epochs, TLC

CONSTANTS ann, bob

Players == Permutations(User)
ConditionsVal == {[code |-> "accumulate", at |-> 1], [code |-> "grow", at |-> 2]}

(* Conditions of the menu.                                                 *)
C == INSTANCE Catalogue
ASSUME OnTheMenu ==
  \A c \in Conditions : C!MayStartEpoch([code |-> c.code, bound |-> c.at], {})
=============================================================================
