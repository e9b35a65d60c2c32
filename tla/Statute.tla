------------------------------ MODULE Statute ------------------------------
(* What lawmaking in econ.me promises, whatever the electorate and however *)
(* enactment is carried out: the law is a value per topic, it changes by   *)
(* the order of one who holds the power for it or by the decision of a     *)
(* bill, and a decision is all or nothing.                                 *)
EXTENDS Naturals

CONSTANTS Bill,        \* the bills that may be put to the vote
          Topic,       \* what a law is about
          Writes,      \* Writes[b]: the pairs <<topic, value>> bill b enacts
          HookWrites,  \* the pairs hooks may write when a bill is enacted
          Licences     \* Licences[t]: topics whose value 1 licenses writing t

VARIABLES law,         \* the law in force
          status       \* of every bill: none, open, enacted, failed

vars == <<law, status>>

Init == /\ law \in [Topic -> Nat]
        /\ status = [b \in Bill |-> "none"]

Open(b) == /\ status[b] = "none"
           /\ status' = [status EXCEPT ![b] = "open"]
           /\ UNCHANGED law

Order(t) == /\ \E k \in Licences[t] : law[k] = 1
            /\ law' \in [Topic -> Nat]
            /\ \A s \in Topic \ {t} : law'[s] = law[s]
            /\ UNCHANGED status

\* What a set of writes assigns to a topic.
Values(writes, t) == {w[2] : w \in {x \in writes : x[1] = t}}
WrittenBy(B, t) == Values(UNION {Writes[b] : b \in B}, t)

\* The bills E of those decided are enacted: every topic they write has a
\* value one of them gave it, unless a hook wrote it after, and no other topic
\* moves but by a hook.
Effect(E, t) ==
    \/ law'[t] \in WrittenBy(E, t)
    \/ WrittenBy(E, t) = {} /\ law'[t] = law[t]
    \/ E # {} /\ law'[t] \in Values(HookWrites, t)

Decide(B, E) ==
    /\ B # {} /\ E \subseteq B
    /\ \A b \in B : status[b] = "open"
    /\ status' = [b \in Bill |-> IF b \in E THEN "enacted"
                                 ELSE IF b \in B THEN "failed" ELSE status[b]]
    /\ law' \in [Topic -> Nat]
    /\ IF E = {} THEN law' = law ELSE \A t \in Topic : Effect(E, t)

\* The bills a step decides and those it enacts can be read off the statuses.
Decided == {b \in Bill : status[b] = "open" /\ status'[b] # "open"}
Enacted == {b \in Decided : status'[b] = "enacted"}

Next == \/ \E b \in Bill : Open(b)
        \/ \E t \in Topic : Order(t)
        \/ Decide(Decided, Enacted)

Spec == Init /\ [][Next]_vars
=============================================================================
