------------------------------ MODULE VpnManager ------------------------------
(***************************************************************************)
(* The "vpn-service" worker of go/engine/tunnel/module.go: a goroutine     *)
(* that takes commands from the buffered channel eventChannel and raises,  *)
(* lowers and rebuilds the tunnel.  Callers (the Android main thread, the  *)
(* binder thread of onRevoke, the plugin thread of the UI) block in a      *)
(* channel send when the buffer is full.                                   *)
(*                                                                         *)
(* One step of the worker is one call it makes that another thread can     *)
(* observe or that can fail on its own.                                    *)
(***************************************************************************)
EXTENDS Naturals, Sequences, FiniteSets

CONSTANTS
  Callers,      \* threads that call Enable, Disable, Reconnect, SystemShutdown
  Capacity,     \* buffer size of eventChannel
  Descriptors,  \* file descriptor numbers the kernel hands out
  None          \* nil

ASSUME CapacityAssumption == Capacity \in Nat \ {0}
ASSUME NoneAssumption == None \notin Descriptors

VARIABLES
  pending,       \* pending[c]: the command c is sending, None when it has returned
  eventChannel,  \* buffered commands, oldest first
  cancelled,     \* the context of the worker is cancelled (modules.Shutdown)
  job,           \* the command being handled, "done" for ctx.Done, None
  phase,         \* where the worker is in it
  tunnelFD,      \* package variable tunnelFD: the descriptor, or None
  netStack,      \* package variable netStack: the descriptor the stack reads, or None
  openFds,       \* descriptors open in this process
  buildFailed    \* history: some setup failed after it had a descriptor

tunnelVars == <<tunnelFD, netStack, openFds, buildFailed>>
vars == <<pending, eventChannel, cancelled, job, phase,
          tunnelFD, netStack, openFds, buildFailed>>

Command == {"connect", "disconnect", "reconnect", "system-shutdown"}
Job     == Command \cup {"done", None}
Phase   == {"select", "establish", "build", "endConnections", "closeStack",
            "closeDescriptor", "sendCommand", "shutdown", "returned", "exited"}

-----------------------------------------------------------------------------
(* The callers. *)

Init ==
  /\ pending = [c \in Callers |-> None]
  /\ eventChannel = <<>>
  /\ cancelled = FALSE
  /\ job = None
  /\ phase = "select"
  /\ tunnelFD = None
  /\ netStack = None
  /\ openFds = {}
  /\ buildFailed = FALSE

\* IsActive: what any thread reads, without synchronisation.
IsActive == netStack # None

\* Enable, Disable, Reconnect or SystemShutdown is entered.
Call(c, command) ==
  /\ phase # "exited"
  /\ pending[c] = None
  /\ pending' = [pending EXCEPT ![c] = command]
  /\ UNCHANGED <<eventChannel, cancelled, job, phase, tunnelVars>>

\* Wrong: the send drops the check for room in the buffer.
EnqueueUnbounded(c) ==
  /\ phase # "exited"
  /\ pending[c] # None
  /\ eventChannel' = Append(eventChannel, pending[c])
  /\ pending' = [pending EXCEPT ![c] = None]
  /\ UNCHANGED <<cancelled, job, phase, tunnelVars>>

\* The send completes as soon as the buffer has room.
Enqueue(c) ==
  /\ phase # "exited"
  /\ pending[c] # None
  /\ Len(eventChannel) < Capacity
  /\ eventChannel' = Append(eventChannel, pending[c])
  /\ pending' = [pending EXCEPT ![c] = None]
  /\ UNCHANGED <<cancelled, job, phase, tunnelVars>>

\* modules.Shutdown cancels the context of every worker.
Cancel ==
  /\ phase # "exited"
  /\ ~cancelled
  /\ cancelled' = TRUE
  /\ UNCHANGED <<pending, eventChannel, job, phase, tunnelVars>>

-----------------------------------------------------------------------------
(* The worker. *)

\* Wrong: "connect" does not look at IsActive.
ConnectAlwaysSetsUp(command) ==
  IF command = "connect" THEN "establish" ELSE "endConnections"

\* The first call a command makes; "connect" on an active tunnel makes none.
FirstPhase(command) ==
  IF command = "connect"
    THEN IF IsActive THEN "select" ELSE "establish"
    ELSE "endConnections"

Goto(next) ==
  /\ phase' = next
  /\ job' = IF next \in {"select", "returned", "exited"} THEN None ELSE job

\* case command := <-eventChannel
Receive ==
  /\ phase = "select"
  /\ eventChannel # <<>>
  /\ eventChannel' = Tail(eventChannel)
  /\ phase' = FirstPhase(Head(eventChannel))
  /\ job' = IF FirstPhase(Head(eventChannel)) = "select"
              THEN None
              ELSE Head(eventChannel)
  /\ UNCHANGED <<pending, cancelled, tunnelVars>>

\* case <-ctx.Done(): select picks either ready case.
Done ==
  /\ phase = "select"
  /\ cancelled
  /\ job' = "done"
  /\ phase' = "endConnections"
  /\ UNCHANGED <<pending, eventChannel, cancelled, tunnelVars>>

\* setupTunnelInterface is only called for "connect", which then sends
\* keep_alive whatever became of it, and for "reconnect", which sends nothing.
AfterSetup == IF job = "connect" THEN "sendCommand" ELSE "select"

\* VPNInit returns a descriptor; os.NewFile overwrites tunnelFD.
Establish(fd) ==
  /\ phase = "establish"
  /\ fd \notin openFds
  /\ openFds' = openFds \cup {fd}
  /\ tunnelFD' = fd
  /\ Goto("build")
  /\ UNCHANGED <<pending, eventChannel, cancelled, netStack, buildFailed>>

\* VPNInit fails: no service, or Builder.establish returned null.
EstablishFails ==
  /\ phase = "establish"
  /\ Goto(AfterSetup)
  /\ UNCHANGED <<pending, eventChannel, cancelled, tunnelVars>>

\* Everything up to netStack = newStack succeeds.
Build ==
  /\ phase = "build"
  /\ netStack' = tunnelFD
  /\ Goto(AfterSetup)
  /\ UNCHANGED <<pending, eventChannel, cancelled, tunnelFD, openFds, buildFailed>>

\* One of its error returns: neither the descriptor nor the stack is closed.
BuildFails ==
  /\ phase = "build"
  /\ buildFailed' = TRUE
  /\ Goto(AfterSetup)
  /\ UNCHANGED <<pending, eventChannel, cancelled, tunnelFD, netStack, openFds>>

\* Wrong: the stack and the descriptor are left for later.
EndConnectionsOnly ==
  /\ phase = "endConnections"
  /\ Goto(IF job = "reconnect" THEN "establish" ELSE "sendCommand")
  /\ UNCHANGED <<pending, eventChannel, cancelled, tunnelVars>>

\* destroyTunnelInterface calls EndAllConnections.
EndConnections ==
  /\ phase = "endConnections"
  /\ Goto("closeStack")
  /\ UNCHANGED <<pending, eventChannel, cancelled, tunnelVars>>

\* Wrong: without a stack, destroyTunnelInterface returns early.
CloseStackOrReturn ==
  /\ phase = "closeStack"
  /\ netStack' = None
  /\ Goto(CASE netStack # None -> "closeDescriptor"
            [] job = "reconnect" -> "establish"
            [] OTHER -> "sendCommand")
  /\ UNCHANGED <<pending, eventChannel, cancelled, tunnelFD, openFds, buildFailed>>

\* ... closes the stack, waits for it and forgets it ...
CloseStack ==
  /\ phase = "closeStack"
  /\ netStack' = None
  /\ Goto("closeDescriptor")
  /\ UNCHANGED <<pending, eventChannel, cancelled, tunnelFD, openFds, buildFailed>>

\* Wrong: tunnelFD = nil is forgotten.
CloseKeepsName ==
  /\ phase = "closeDescriptor"
  /\ openFds' = openFds \ {tunnelFD}
  /\ Goto(IF job = "reconnect" THEN "establish" ELSE "sendCommand")
  /\ UNCHANGED <<pending, eventChannel, cancelled, tunnelFD, netStack, buildFailed>>

\* Wrong: tunnelFD = nil without tunnelFD.Close().
ForgetWithoutClose ==
  /\ phase = "closeDescriptor"
  /\ tunnelFD' = None
  /\ Goto(IF job = "reconnect" THEN "establish" ELSE "sendCommand")
  /\ UNCHANGED <<pending, eventChannel, cancelled, netStack, openFds, buildFailed>>

\* Wrong: "reconnect" ends with the teardown.
CloseAndStay ==
  /\ phase = "closeDescriptor"
  /\ openFds' = openFds \ {tunnelFD}
  /\ tunnelFD' = None
  /\ Goto(IF job = "reconnect" THEN "select" ELSE "sendCommand")
  /\ UNCHANGED <<pending, eventChannel, cancelled, netStack, buildFailed>>

\* ... and closes the descriptor.
CloseDescriptor ==
  /\ phase = "closeDescriptor"
  /\ openFds' = openFds \ {tunnelFD}
  /\ tunnelFD' = None
  /\ Goto(IF job = "reconnect" THEN "establish" ELSE "sendCommand")
  /\ UNCHANGED <<pending, eventChannel, cancelled, netStack, buildFailed>>

\* The command SendServicesCommand carries when the worker is at that call.
ServiceCommand == IF job = "connect" THEN "keep_alive" ELSE "shutdown"

\* Wrong: the worker sends itself a command, which needs room in its own buffer.
SendToItself ==
  /\ phase = "sendCommand"
  /\ Len(eventChannel) < Capacity
  /\ Goto(CASE job = "system-shutdown" -> "shutdown"
            [] job = "done" -> "returned"
            [] OTHER -> "select")
  /\ UNCHANGED <<pending, eventChannel, cancelled, tunnelVars>>

\* SendServicesCommand returns; its error is ignored.
SendServicesCommand ==
  /\ phase = "sendCommand"
  /\ Goto(CASE job = "system-shutdown" -> "shutdown"
            [] job = "done" -> "returned"
            [] OTHER -> "select")
  /\ UNCHANGED <<pending, eventChannel, cancelled, tunnelVars>>

\* app_interface.Shutdown calls System.exit, which does not return.
Shutdown ==
  /\ phase = "shutdown"
  /\ Goto("exited")
  /\ UNCHANGED <<pending, eventChannel, cancelled, tunnelVars>>

\* engine.OnDestroy, on whichever thread: modules.Shutdown has waited for the
\* worker, and app_interface.Shutdown ends the process.
ProcessExits ==
  /\ phase = "returned"
  /\ Goto("exited")
  /\ UNCHANGED <<pending, eventChannel, cancelled, tunnelVars>>

\* The finalizer of an os.File nothing refers to any more closes its descriptor.
Finalize(fd) ==
  /\ phase # "exited"
  /\ fd \in openFds \ {tunnelFD}
  /\ openFds' = openFds \ {fd}
  /\ UNCHANGED <<pending, eventChannel, cancelled, job, phase,
                 tunnelFD, netStack, buildFailed>>

Worker ==
  \/ Receive
  \/ Done
  \/ \E fd \in Descriptors : Establish(fd)
  \/ EstablishFails
  \/ Build
  \/ BuildFails
  \/ EndConnections
  \/ CloseStack
  \/ CloseDescriptor
  \/ SendServicesCommand
  \/ Shutdown

Next ==
  \/ \E c \in Callers, command \in Command : Call(c, command)
  \/ \E c \in Callers : Enqueue(c)
  \/ Cancel
  \/ Worker
  \/ ProcessExits
  \/ \E fd \in Descriptors : Finalize(fd)

\* The Go scheduler runs the worker whenever it can take a step; so it does
\* a blocked sender, and the runtime wakes senders in FIFO order.  Nothing
\* says that a thread ever calls, that the context is ever cancelled or that
\* the garbage collector runs.
Fairness ==
  /\ WF_vars(Worker)
  /\ \A c \in Callers : SF_vars(Enqueue(c))

Spec == Init /\ [][Next]_vars
FairSpec == Spec /\ Fairness

-----------------------------------------------------------------------------
(* Properties. *)

\* The variables hold what their Go counterparts can hold.
TypeOK ==
  /\ pending \in [Callers -> Command \cup {None}]
  /\ eventChannel \in Seq(Command)
  /\ Len(eventChannel) <= Capacity
  /\ cancelled \in BOOLEAN
  /\ job \in Job
  /\ phase \in Phase
  /\ tunnelFD \in Descriptors \cup {None}
  /\ netStack \in Descriptors \cup {None}
  /\ openFds \subseteq Descriptors
  /\ buildFailed \in BOOLEAN

\* An active stack reads the descriptor tunnelFD names, and that descriptor is
\* open: no sequence of connect, reconnect and failed setups replaces or closes
\* the descriptor under a live stack (module.go: tunnelFD is overwritten by
\* every setup and closed by every destroy).
StackOwnsDescriptor ==
  netStack # None => netStack = tunnelFD /\ tunnelFD \in openFds

\* The service is only told to shut down when no tunnel is left: the stack is
\* gone and the descriptor closed at the moment the command is sent.
ShutdownAfterTeardown ==
  phase = "sendCommand" /\ ServiceCommand = "shutdown"
    => netStack = None /\ tunnelFD = None

\* As long as no setup failed half-way, tunnelFD names every open descriptor:
\* nothing is leaked by any order of commands.
NoLeak == ~buildFailed => openFds \subseteq {tunnelFD}

\* Once the worker has returned (or has called System.exit) nothing it had
\* raised is left up.
StoppedIsTornDown ==
  phase \in {"returned", "shutdown", "exited"} => netStack = None /\ tunnelFD = None

\* A tunnel in service only goes down because it was told to, or to be rebuilt;
\* "connect" never touches an active tunnel.
OnlyTeardownLowers ==
  [][netStack # None /\ netStack' # netStack
       => job \in {"disconnect", "reconnect", "system-shutdown", "done"}]_vars

\* A caller is not blocked for ever while the worker lives, however full the
\* buffer was (the Android main thread is among the callers).
CallReturns ==
  \A c \in Callers :
    pending[c] # None ~> (pending[c] = None \/ phase \in {"returned", "exited"})

\* A disconnect that reached the buffer takes the tunnel down, unless the
\* worker stops first, in which case it is down as well.
InBuffer(command) == \E i \in DOMAIN eventChannel : eventChannel[i] = command
DisconnectTearsDown == InBuffer("disconnect") ~> (netStack = None /\ tunnelFD = None)

\* The worker implements the contract of Tunnel: "up" is what IsActive reads.
Contract ==
  INSTANCE Tunnel WITH
    up      <- IsActive,
    telling <- IF phase = "sendCommand" THEN ServiceCommand ELSE "nothing",
    over    <- phase \in {"returned", "exited"}
ImplementsTunnel == Contract!Spec
=============================================================================
