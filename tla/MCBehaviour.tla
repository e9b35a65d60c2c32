----------------------------- MODULE MCBehaviour -----------------------------
(* Small worlds for Behaviour.                                             *)
EXTENDS Behaviour
=============================================================================
