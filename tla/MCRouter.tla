------------------------------- MODULE MCRouter -------------------------------
(* Model values for TLC: see the cfgs.                                         *)
EXTENDS Router
=============================================================================
