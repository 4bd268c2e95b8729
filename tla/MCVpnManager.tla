----------------------------- MODULE MCVpnManager -----------------------------
(* Model values and bounds for TLC: see MCVpnManager.cfg.  Symmetry is not     *)
(* used because the run checks liveness.                                       *)
EXTENDS VpnManagerProofs
=============================================================================
