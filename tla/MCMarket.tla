------------------------------ MODULE MCMarket ------------------------------
(* Small worlds for Market: a seller, a buyer and one who trades both ways.*)
EXTENDS Market

Roles == [e \in Entity |-> IF e = "ann" THEN {"sell"} ELSE IF e = "bob" THEN {"buy"} ELSE Side]
Goodwill == [e \in Entity |-> IF e = "ann" THEN 2 ELSE IF e = "bob" THEN 1 ELSE 0]
Coins == [e \in Entity |-> IF e = "bob" THEN 2 ELSE 0]
=============================================================================
