------------------------------ MODULE MCEngine ------------------------------
(* Instances of Engine for TLC: the calls the daemon makes.                 *)
EXTENDS MCInputs
=============================================================================
