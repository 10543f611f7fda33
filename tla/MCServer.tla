------------------------------ MODULE MCServer ------------------------------
(* Instances of Server for TLC. No symmetry: the runs check liveness.       *)
EXTENDS Server
=============================================================================
