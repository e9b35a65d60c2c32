------------------------------ MODULE MCTravel ------------------------------
(* A short cut over a dear road, a one-way river, and two goods.           *)
EXTENDS Travel

Triangle(m, c, t) ==
  <<[a |-> "camp", b |-> "ford", mode |-> "walk", cost |-> 1, two |-> TRUE],
    [a |-> "camp", b |-> "hill", mode |-> "walk", cost |-> 3, two |-> TRUE],
    [a |-> "ford", b |-> "hill", mode |-> m, cost |-> c, two |-> t]>>
MapsVal == {Triangle("walk", 1, TRUE), Triangle("raft", 1, FALSE)}
RationVal == [walk |-> 0, raft |-> 1]
LegCapVal == [walk |-> 3, raft |-> 2]
PackVal == [food |-> 1, ore |-> 1]

(* Maps the catalogue installs.                                            *)
C == INSTANCE Catalogue
ASSUME Installs ==
  \A roads \in Maps :
    C!Installed({[from |-> r.a, to |-> r.b, mode |-> r.mode, cost |-> r.cost,
                  both |-> r.two] : r \in {roads[i] : i \in DOMAIN roads}},
                LAMBDA had, e : C!MayCreateEdge(Spot, had, e))
=============================================================================
