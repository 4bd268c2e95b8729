------------------------------ MODULE MCPortApi ------------------------------
(* Model values and bounds for TLC: see the cfgs.                              *)
EXTENDS PortApi
=============================================================================
