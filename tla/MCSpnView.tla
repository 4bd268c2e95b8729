----------------------------- MODULE MCSpnView -----------------------------
(* The view is opened by a user of the SPN, on or off; by one who has just     *)
(* installed the app, before the engine is up; and in the middle of the first  *)
(* download.                                                                    *)
EXTENDS SpnView

Off == [running |-> TRUE, tunnel |-> TRUE, geo |-> TRUE, enable |-> FALSE,
        spn |-> "disabled", user |-> "in", registry |-> "ready"]
MCStarts ==
  {Off, [Off EXCEPT !.enable = TRUE, !.spn = "connected"],
   [Off EXCEPT !.tunnel = FALSE, !.geo = FALSE, !.user = None, !.registry = None],
   [Off EXCEPT !.tunnel = FALSE, !.geo = FALSE, !.registry = "downloading"]}
=============================================================================
