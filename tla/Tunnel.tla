-------------------------------- MODULE Tunnel --------------------------------
(***************************************************************************)
(* What the rest of the app may rely on when it uses the tunnel, whatever  *)
(* the vpn-service worker does inside: the tunnel is up or not, and the    *)
(* worker tells the Android service to stay ("keep_alive") or to stop      *)
(* ("shutdown").  It says "shutdown" only while the tunnel is down, the    *)
(* tunnel does not change while it says so, and when the worker is over    *)
(* the tunnel stays down.                                                  *)
(***************************************************************************)

VARIABLES
  up,       \* the tunnel carries packets
  telling,  \* the command being sent to the service, or "nothing"
  over      \* the worker has ended

vars == <<up, telling, over>>

Telling == {"nothing", "keep_alive", "shutdown"}

Init ==
  /\ up = FALSE
  /\ telling = "nothing"
  /\ over = FALSE

\* The tunnel is built; a first connect tells the service in the same breath.
Raise ==
  /\ ~over /\ telling = "nothing"
  /\ up' = TRUE
  /\ telling' \in {"nothing", "keep_alive"}
  /\ UNCHANGED over

Lower ==
  /\ ~over /\ telling = "nothing"
  /\ up' = FALSE
  /\ UNCHANGED <<telling, over>>

\* A failed connect also tells the service to stay.
Tell(command) ==
  /\ ~over /\ telling = "nothing" /\ ~up
  /\ telling' = command
  /\ UNCHANGED <<up, over>>

\* The service has been told; a "shutdown" may be the worker's last word.
Told ==
  /\ telling # "nothing"
  /\ telling' = "nothing"
  /\ \/ UNCHANGED over
     \/ telling = "shutdown" /\ over' = TRUE
  /\ UNCHANGED up

End ==
  /\ ~up /\ telling = "nothing"
  /\ over' = TRUE
  /\ UNCHANGED <<up, telling>>

Next ==
  \/ Raise
  \/ Lower
  \/ \E command \in Telling \ {"nothing"} : Tell(command)
  \/ Told
  \/ End

Spec == Init /\ [][Next]_vars /\ WF_vars(Told)
=============================================================================
