---------------------------- MODULE MCProduction ----------------------------
(* Small worlds for Production: a study paid for by the tick, two crafts   *)
(* that share a tool, and a mint a validator may veto.                     *)
EXTENDS Production

(* The study: a lump of FLINT and LABOR, then a FLINT every tick.          *)
StudyDur == [r \in Recipe |-> 3]
StudyLump == [r \in Recipe |-> [g \in Good |->
  IF g = "FLINT" THEN 1 ELSE IF g = "LABOR" THEN 2 ELSE 0]]
StudyPerTick == [r \in Recipe |-> [g \in Good |-> IF g = "FLINT" THEN 1 ELSE 0]]
Nothing == [r \in Recipe |-> [g \in Good |-> 0]]

(* The crafts both require the HAMMER; striking coin also eats ORE by the  *)
(* tick, and forging yields another HAMMER.                                *)
CraftDur == [r \in Recipe |-> IF r = "FORGE" THEN 3 ELSE 2]
CraftLump == [r \in Recipe |-> [g \in Good |->
  IF g = "ORE" THEN 1 ELSE IF g = "LABOR" /\ r = "FORGE" THEN 2 ELSE 0]]
CraftNeed == [r \in Recipe |-> [g \in Good |-> IF g = "HAMMER" THEN 1 ELSE 0]]
CraftPerTick == [r \in Recipe |-> [g \in Good |->
  IF g = "ORE" /\ r = "COIN_STRIKE" THEN 1 ELSE 0]]
CraftYield == [r \in Recipe |-> [g \in Good |->
  IF g = "HAMMER" /\ r = "FORGE" THEN 1 ELSE 0]]
=============================================================================
