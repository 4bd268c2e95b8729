---------------------------- MODULE MCAppLifecycle ----------------------------
(* Model values and bounds for TLC: see the cfgs.                              *)
EXTENDS AppLifecycle
=============================================================================
