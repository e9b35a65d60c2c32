----------------------------- MODULE MCStoneAge -----------------------------
(* Houses denied one thing or two, of birth well or ailing, in either half *)
(* of the year, by a lit fire or a dead one; and the other bodies.         *)
EXTENDS Genesis

Life(w, b, s, l, a) == [who |-> w, bar |-> b, season |-> s, lit |-> l, ails |-> a]

Denials ==
  {{}, {"STUDY"}, {"STUDY", "TRADE"}, {"HOUSES", "FIGHT"},
   {"RIDGE_PASS", "FOREST"}, {"KNAPPING"}, {"TANNING", "TRADE"},
   {"FIRE_HARDENING", "SALT_CURING", "TRADE"}}

MCCase ==
  {Life("house", b, "OPEN", TRUE, {}) : b \in Denials}
    \cup {Life("house", {}, "WINTER", l, {"SQUALOR", "EXPOSURE"}) : l \in BOOLEAN}
    \cup {Life(w, {}, "OPEN", TRUE, {}) : w \in {"keeper", "wolf", "boar"}}
=============================================================================
