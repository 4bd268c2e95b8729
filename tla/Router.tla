-------------------------------- MODULE Router --------------------------------
(***************************************************************************)
(* Flows of the tunnel: go/engine/tunnel/router.go decides where a new     *)
(* flow goes and dials, default_route.go forwards it with two copier       *)
(* goroutines and keeps it in the slice connections.  Each flow is routed  *)
(* on a goroutine of its own while the vpn-service worker tears the tunnel *)
(* down and rebuilds it, so every step below may fall between any two      *)
(* steps of a teardown.  What a critical section of connMutex does is one  *)
(* step.                                                                   *)
(***************************************************************************)
EXTENDS Naturals, Sequences, FiniteSets

CONSTANTS
  Flows  \* forwarder requests of gVisor, each handled once

VARIABLES
  tunnel,       \* "up", "ended" (EndAllConnections is done), "down"
  spn,          \* isSpnEnabled() /\ captain.ClientReady()
  stage,        \* stage[f]: how far the routing of f has come
  connections,  \* the slice of default_route.go
  attached,     \* flows that arrived on the present stack
  aborted,      \* flows whose endpoint died with its stack
  closed,       \* flows ConnDefaultForward.close was called on
  copying,      \* copying[f]: the copiers of f that have not returned
  errc,         \* errc[f]: number of errors buffered in the channel of f
  waiter        \* waiter[f]: the goroutine that waits for the first error

vars == <<tunnel, spn, stage, attached, aborted, connections, closed, copying, errc, waiter>>
forwardVars == <<connections, closed, copying, errc, waiter>>

Destination == {"excepted", "global", "local"}
Protocol    == {"tcp", "udp"}
Stage       == {"new", "dialing", "dialed", "created", "added", "spn", "failed"}
Direction   == {"out", "in"}
Waiter      == {"none", "waiting", "closing", "removing", "done"}

\* Wrong: errc := make(chan error)
NoErrcBuffer == 0

\* errc := make(chan error, 1)
ErrcCapacity == 1

Listed == {connections[i] : i \in DOMAIN connections}

Init ==
  /\ tunnel = "up"
  /\ spn \in BOOLEAN
  /\ stage = [f \in Flows |-> "new"]
  /\ connections = <<>>
  /\ attached = {}
  /\ aborted = {}
  /\ closed = {}
  /\ copying = [f \in Flows |-> {}]
  /\ errc = [f \in Flows |-> 0]
  /\ waiter = [f \in Flows |-> "none"]

-----------------------------------------------------------------------------
(* Routing. *)

\* DefaultTCPRouting and DefaultUDPRouting.  Only TCP asks captain.IsExcepted;
\* an excepted address is a global one.
ThroughSPN(protocol, destination) ==
  /\ protocol = "tcp" => destination # "excepted"
  /\ destination \in {"excepted", "global"}
  /\ spn

Move(f, to) == stage' = [stage EXCEPT ![f] = to]

\* A forwarder request arrives.  Through the SPN the endpoint is created and
\* handed over at once; the default interface dials first.
Route(f, protocol, destination) ==
  /\ tunnel # "down"
  /\ stage[f] = "new"
  /\ IF ThroughSPN(protocol, destination)
       THEN Move(f, "spn") \/ Move(f, "failed")
       ELSE Move(f, "dialing")
  /\ attached' = attached \cup {f}
  /\ UNCHANGED <<tunnel, spn, aborted, forwardVars>>

\* dialerNotTunneled.Dial returns, however much later.
Dial(f) ==
  /\ stage[f] = "dialing"
  /\ Move(f, "dialed") \/ Move(f, "failed")
  /\ UNCHANGED <<tunnel, spn, attached, aborted, forwardVars>>

\* CreateEndpoint; on an error the remote socket is closed.
CreateEndpoint(f) ==
  /\ stage[f] = "dialed"
  /\ Move(f, "created") \/ Move(f, "failed")
  /\ UNCHANGED <<tunnel, spn, attached, aborted, forwardVars>>

\* captain becomes ready or loses its home hub.
SpnChanges ==
  /\ spn' = ~spn
  /\ UNCHANGED <<tunnel, stage, attached, aborted, forwardVars>>

-----------------------------------------------------------------------------
(* Forwarding. *)

\* addDefaultConnection: list the flow and start its goroutines.
AddDefaultConnection(f) ==
  /\ stage[f] = "created"
  /\ Move(f, "added")
  /\ connections' = Append(connections, f)
  /\ copying' = [copying EXCEPT ![f] = Direction]
  /\ waiter' = [waiter EXCEPT ![f] = "waiting"]
  /\ UNCHANGED <<tunnel, spn, attached, aborted, closed, errc>>

\* Wrong: a copier overruns the buffer of its channel.
CopierOverruns(f, d) ==
  /\ d \in copying[f]
  /\ copying' = [copying EXCEPT ![f] = @ \ {d}]
  /\ errc' = [errc EXCEPT ![f] = @ + 1]
  /\ UNCHANGED <<tunnel, spn, stage, attached, aborted, connections, closed, waiter>>

\* io.Copy returns (a peer hung up, or a socket was closed) and its error is
\* sent, if the buffer has room.
CopierEnds(f, d) ==
  /\ d \in copying[f]
  /\ errc[f] < ErrcCapacity
  /\ copying' = [copying EXCEPT ![f] = @ \ {d}]
  /\ errc' = [errc EXCEPT ![f] = @ + 1]
  /\ UNCHANGED <<tunnel, spn, stage, attached, aborted, connections, closed, waiter>>

\* <-errc
FirstError(f) ==
  /\ waiter[f] = "waiting"
  /\ errc[f] > 0
  /\ errc' = [errc EXCEPT ![f] = @ - 1]
  /\ waiter' = [waiter EXCEPT ![f] = "closing"]
  /\ UNCHANGED <<tunnel, spn, stage, attached, aborted, connections, closed, copying>>

\* onConnectionEnd closes before it takes the lock ...
Close(f) ==
  /\ waiter[f] = "closing"
  /\ closed' = closed \cup {f}
  /\ waiter' = [waiter EXCEPT ![f] = "removing"]
  /\ UNCHANGED <<tunnel, spn, stage, attached, aborted, connections, copying, errc>>

\* Wrong: the last entry is copied over f but not dropped.
CopyLastOver(s, f) ==
  [i \in DOMAIN s |-> IF s[i] = f THEN s[Len(s)] ELSE s[i]]

\* Replaces the first entry equal to f by the last one and drops the last.
SwapRemove(s, f) ==
  LET at == {i \in DOMAIN s : s[i] = f}
  IN  IF at = {}
        THEN s
        ELSE LET i == CHOOSE i \in at : \A j \in at : i <= j
             IN  SubSeq([s EXCEPT ![i] = s[Len(s)]], 1, Len(s) - 1)

\* ... and then removes the flow, if the table still lists it.
Remove(f) ==
  /\ waiter[f] = "removing"
  /\ connections' = SwapRemove(connections, f)
  /\ waiter' = [waiter EXCEPT ![f] = "done"]
  /\ UNCHANGED <<tunnel, spn, stage, attached, aborted, closed, copying, errc>>

-----------------------------------------------------------------------------
(* The teardown, as the vpn-service worker does it. *)

\* Wrong: connections = nil without closing what it lists.
ForgetsToClose ==
  /\ tunnel = "up"
  /\ tunnel' = "ended"
  /\ connections' = <<>>
  /\ UNCHANGED <<spn, stage, attached, aborted, closed, copying, errc, waiter>>

\* EndAllConnections: close every listed flow and empty the table.
EndAllConnections ==
  /\ tunnel = "up"
  /\ tunnel' = "ended"
  /\ closed' = closed \cup Listed
  /\ connections' = <<>>
  /\ UNCHANGED <<spn, stage, attached, aborted, copying, errc, waiter>>

\* netStack.Close aborts the endpoints the stack still has.
CloseStack ==
  /\ tunnel = "ended"
  /\ tunnel' = "down"
  /\ aborted' = aborted \cup {f \in attached : stage[f] \in {"created", "added"}}
  /\ attached' = {}
  /\ UNCHANGED <<spn, stage, forwardVars>>

\* The next setupTunnelInterface.
Setup ==
  /\ tunnel = "down"
  /\ tunnel' = "up"
  /\ UNCHANGED <<spn, stage, attached, aborted, forwardVars>>

Forwarder(f) == FirstError(f) \/ Close(f) \/ Remove(f)

Next ==
  \/ \E f \in Flows :
       \/ \E p \in Protocol, d \in Destination : Route(f, p, d)
       \/ Dial(f)
       \/ CreateEndpoint(f)
       \/ AddDefaultConnection(f)
       \/ \E d \in Direction : CopierEnds(f, d)
       \/ Forwarder(f)
  \/ SpnChanges
  \/ EndAllConnections
  \/ CloseStack
  \/ Setup

\* Goroutines run.  A copier is only bound to end when its sockets are closed
\* or its endpoint is aborted; a healthy flow may last for ever.
Fairness ==
  \A f \in Flows :
    /\ WF_vars(Forwarder(f))
    /\ \A d \in Direction : WF_vars(f \in closed \cup aborted /\ CopierEnds(f, d))

Spec == Init /\ [][Next]_vars
FairSpec == Spec /\ Fairness

-----------------------------------------------------------------------------
(* Properties. *)

TypeOK ==
  /\ tunnel \in {"up", "ended", "down"}
  /\ spn \in BOOLEAN
  /\ stage \in [Flows -> Stage]
  /\ connections \in Seq(Flows)
  /\ attached \subseteq Flows
  /\ aborted \subseteq Flows
  /\ closed \subseteq Flows
  /\ copying \in [Flows -> SUBSET Direction]
  /\ errc \in [Flows -> 0..ErrcCapacity]
  /\ waiter \in [Flows -> Waiter]

\* No flow is listed twice: onConnectionEnd removes one entry per flow, so a
\* second entry would keep a dead flow in the table (default_route.go:73-80).
ListedOnce == \A i, j \in DOMAIN connections : connections[i] = connections[j] => i = j

\* The slice with its swap removal, the lock and the goroutines implement a
\* table from which no open flow is ever dropped by the end of another one, by
\* a teardown or by the two racing for the same flow.
Table ==
  INSTANCE FlowTable WITH
    opened <- {f \in Flows : stage[f] = "added"},
    listed <- Listed,
    shut   <- closed
ImplementsTable == Table!Spec

\* Once a flow is closed or its stack is gone, its three goroutines end and it
\* leaves the table: the buffer of errc spares the second copier from waiting
\* for a receiver that is gone.
FlowEnds(f) == copying[f] = {} /\ waiter[f] = "done" /\ f \notin Listed
ClosedFlowEnds ==
  \A f \in Flows : stage[f] = "added" /\ f \in closed \cup aborted ~> FlowEnds(f)

\* module.go:266 says of EndAllConnections "Close and wait for all connections
\* to end": when the stack has been closed, no flow is still being forwarded.
TeardownWaits == tunnel = "down" => \A f \in Flows : waiter[f] \in {"none", "done"}
=============================================================================
