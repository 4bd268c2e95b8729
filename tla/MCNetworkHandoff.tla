--------------------------- MODULE MCNetworkHandoff ---------------------------
(* Model values and bounds for TLC: see the cfgs.                              *)
EXTENDS NetworkHandoff
=============================================================================
