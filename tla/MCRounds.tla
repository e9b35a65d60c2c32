------------------------------ MODULE MCRounds ------------------------------
(* Small worlds for Rounds: who serves which requests.                     *)
EXTENDS Rounds

Served(timer, others) == [w \in Worker |-> IF w = "timer" THEN timer ELSE others]

(* A request thread beside the deadline scheduler; two of them, and no     *)
(* scheduler; the world clock beside an operator and the escape hatch.     *)
EveryWay == {Served({"poll"}, {"ready", "unready"}),
             Served({"ready", "advance"}, {"ready", "advance"}),
             Served({"clock"}, {"ready", "advance", "raw"})}

(* Two request threads and an operator beside the deadline scheduler.      *)
Operated == {Served({"poll"}, {"ready", "advance"})}
=============================================================================
