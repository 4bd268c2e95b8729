------------------------------- MODULE FlowTable -------------------------------
(***************************************************************************)
(* What the table of forwarded connections promises, without the slice,    *)
(* the lock and the goroutines: a flow that was opened is listed until its *)
(* sockets are shut, so that shutting every listed flow shuts them all.    *)
(***************************************************************************)
CONSTANT Flows

VARIABLES
  opened,  \* flows ever forwarded
  listed,  \* flows the table lists
  shut     \* flows whose sockets are closed

vars == <<opened, listed, shut>>

Init == opened = {} /\ listed = {} /\ shut = {}

Open(f) ==
  /\ f \notin opened
  /\ opened' = opened \cup {f}
  /\ listed' = listed \cup {f}
  /\ UNCHANGED shut

Shut(f) ==
  /\ f \in opened
  /\ shut' = shut \cup {f}
  /\ UNCHANGED <<opened, listed>>

\* Exactly one flow leaves, and only once it is shut.
Unlist(f) ==
  /\ f \in listed \cap shut
  /\ listed' = listed \ {f}
  /\ UNCHANGED <<opened, shut>>

ShutAll ==
  /\ shut' = shut \cup listed
  /\ listed' = {}
  /\ UNCHANGED opened

Next == ShutAll \/ \E f \in Flows : Open(f) \/ Shut(f) \/ Unlist(f)

Spec == Init /\ [][Next]_vars

\* The point of the table.
NoneForgotten == opened \subseteq listed \cup shut
=============================================================================
