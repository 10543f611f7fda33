----------------------------- MODULE MCEngineApi -----------------------------
(* Instances of EngineApi for TLC.                                          *)
EXTENDS EngineApi, MCInputs
=============================================================================
