----------------------------- MODULE AppLifecycle -----------------------------
(***************************************************************************)
(* One process of the app: the worker of VpnManager together with the      *)
(* Android components around it.  PortmasterTunnelService.java and         *)
(* MainActivity.java receive their callbacks one at a time on the main     *)
(* thread, onRevoke runs on a binder thread, the plugin calls of           *)
(* ui/functions.go on a thread of their own, and all of them call into the *)
(* worker and into engine/init.go.                                         *)
(*                                                                         *)
(* The activity manager is external: it queues service callbacks for the   *)
(* main thread and keeps a service alive while it is started, or bound to  *)
(* the interface it established.                                           *)
(***************************************************************************)
EXTENDS Naturals, Sequences

CONSTANTS
  Capacity, Descriptors, None,  \* as in VpnManager
  MaxEvents                     \* bound: what the user and the system do in a behaviour

ASSUME CapacityAssumption == Capacity \in Nat \ {0}
ASSUME NoneAssumption == None \notin Descriptors
ASSUME MaxEventsAssumption == MaxEvents \in Nat

Callers == {"main", "ui", "binder"}

VARIABLES
  pending, eventChannel, cancelled, job, phase,
  tunnelFD, netStack, openFds, buildFailed,  \* as in VpnManager
  permission,        \* the user has consented to this app being the VPN
  started,           \* the activity manager holds the service as started
  bound,             \* the system is bound to the service of the interface
  mainQueue,         \* service callbacks waiting for the main thread
  service,           \* serviceFunctions # nil: between onCreate and onDestroy
  tunnelRequested,   \* fields of PortmasterTunnelService
  gracefulShutdown,
  timers,            \* what is posted to networkHandler
  activity,          \* activityFunctions # nil
  prompt,            \* the command whose consent dialog is open, or None
  at,                \* what a thread is in the middle of
  events,            \* events so far (bounded by MaxEvents)
  killed,            \* history: the system has stopped the service
  orphaned,          \* history: a service was destroyed before its "disconnect" was handled
  failed             \* history: the command whose setup failed last, or None

Manager == INSTANCE VpnManager

\* "No command" is none of the commands.
ASSUME CommandAssumption == None \notin Manager!Command \cup {"done"}

managerVars  == <<pending, eventChannel, cancelled, job, phase,
                  tunnelFD, netStack, openFds, buildFailed>>
systemVars   == <<permission, started, bound, mainQueue>>
serviceVars  == <<service, tunnelRequested, gracefulShutdown, timers>>
activityVars == <<activity, prompt>>
history      == <<killed, orphaned, failed>>
vars == <<managerVars, systemVars, serviceVars, activityVars, at, events, history>>

StartCommand == {"keep_alive", "shutdown"}
Message == StartCommand \cup {"create", "stop"}
Activities == {"idle", "leaving", "revoking", "closing"}

Queued(message) == \E i \in DOMAIN mainQueue : mainQueue[i] = message

-----------------------------------------------------------------------------
(* The activity manager. *)

\* The system has a record of the service.
Record == started \/ bound

\* A service without a record is created anew, after any instance on its way out.
WithInstance(queue) == IF Record THEN queue ELSE Append(queue, "create")

\* startForegroundService
StartService(command) ==
  /\ mainQueue' = Append(WithInstance(mainQueue), command)
  /\ started' = TRUE
  /\ UNCHANGED <<permission, bound>>

\* The service is not started any more, and goes unless it is still bound.
StopStarted(queue) ==
  /\ started' = FALSE
  /\ mainQueue' = IF started /\ ~bound THEN Append(queue, "stop") ELSE queue

\* The process has been started by the user, or by the system to restart a
\* START_STICKY service, which is then given a null intent: onStartCommand
\* treats it like keep_alive.
Init ==
  /\ Manager!Init
  /\ permission \in BOOLEAN
  /\ \/ activity = TRUE /\ started = FALSE /\ mainQueue = <<>>
     \/ activity = FALSE /\ started = TRUE /\ mainQueue = <<"create", "keep_alive">>
  /\ bound = FALSE
  /\ service = FALSE
  /\ tunnelRequested = FALSE
  /\ gracefulShutdown = FALSE
  /\ timers = {}
  /\ prompt = None
  /\ at = [c \in Callers |-> "idle"]
  /\ events = 0
  /\ killed = FALSE
  /\ orphaned = FALSE
  /\ failed = None

Alive == phase # "exited"
Event == Alive /\ events < MaxEvents /\ events' = events + 1
Free(c) == Alive /\ pending[c] = None /\ at[c] = "idle"
Enter(c, what) == at' = [at EXCEPT ![c] = what]

\* engine.OnDestroy: modules.Shutdown cancels the workers and waits for them.
OnDestroy(c) ==
  /\ Enter(c, "closing")
  /\ cancelled' = TRUE
  /\ UNCHANGED <<pending, eventChannel, job, phase, tunnelFD, netStack, openFds, buildFailed>>

\* Some of these commands has been given to the worker and not been handled yet.
Outstanding(commands) ==
  \/ job \in commands
  \/ \E c \in Callers : pending[c] \in commands
  \/ \E i \in DOMAIN eventChannel : eventChannel[i] \in commands

-----------------------------------------------------------------------------
(* The service, on the main thread. *)

Deliver(message) ==
  /\ Free("main")
  /\ mainQueue # <<>>
  /\ Head(mainQueue) = message

OnCreate ==
  /\ Deliver("create")
  /\ mainQueue' = Tail(mainQueue)
  /\ service' = TRUE
  /\ tunnelRequested' = FALSE
  /\ gracefulShutdown' = FALSE
  /\ timers' = {}
  /\ UNCHANGED <<managerVars, permission, started, bound, activityVars, at, events, history>>

\* onStartCommand, any intent but ACTION_SHUTDOWN
OnStartCommand ==
  /\ Deliver("keep_alive")
  /\ mainQueue' = Tail(mainQueue)
  /\ gracefulShutdown' = FALSE
  /\ tunnelRequested' = TRUE
  /\ Manager!Call("main", "connect")
  /\ UNCHANGED <<permission, started, bound, service, timers, activityVars, at, events, history>>

\* stopSelf(startId) does nothing when a later start is on its way, or when the
\* instance is on its way out already.
OnStartShutdown ==
  /\ Deliver("shutdown")
  /\ gracefulShutdown' = TRUE
  /\ tunnelRequested' = FALSE
  /\ timers' = timers \ {"reconnect"}
  /\ LET rest == Tail(mainQueue)
     IN  IF \E i \in DOMAIN rest : rest[i] \in StartCommand \cup {"stop"}
           THEN mainQueue' = rest /\ UNCHANGED started
           ELSE StopStarted(rest)
  /\ UNCHANGED <<managerVars, permission, bound, service, activityVars, at, events, history>>

\* onDestroy: OnServiceStop, or else OnServiceDestroy, which calls SystemShutdown.
\* A stopSelf the instance still posts will not find its record any more.
OnServiceDestroy ==
  /\ Deliver("stop")
  /\ mainQueue' = Tail(mainQueue)
  /\ service' = FALSE
  /\ tunnelRequested' = FALSE
  /\ timers' = {}
  /\ IF gracefulShutdown
       THEN /\ at' = [at EXCEPT !["binder"] = "idle"]
            /\ UNCHANGED managerVars
       ELSE /\ at' = [at EXCEPT !["binder"] = "idle", !["main"] = "leaving"]
            /\ Manager!Call("main", "system-shutdown")
  /\ orphaned' = (orphaned \/ Outstanding({"disconnect"}))
  /\ UNCHANGED <<permission, started, bound, gracefulShutdown, activityVars, events,
                 killed, failed>>

\* SystemShutdown has returned.
OnServiceDestroyEnds ==
  /\ Alive
  /\ at["main"] = "leaving"
  /\ pending["main"] = None
  /\ IF activity
       THEN Enter("main", "idle") /\ UNCHANGED managerVars
       ELSE OnDestroy("main")
  /\ UNCHANGED <<systemVars, serviceVars, activityVars, events, history>>

\* Some physical network came or went: see NetworkHandoff.
ScheduleTunnelReconnect ==
  /\ Event
  /\ service /\ tunnelRequested
  /\ timers' = timers \cup {"reconnect"}
  /\ UNCHANGED <<managerVars, systemVars, service, tunnelRequested, gracefulShutdown,
                 activityVars, at, history>>

\* The runnable reconnectTunnel; without a physical network it does nothing.
ReconnectTunnel ==
  /\ Free("main")
  /\ "reconnect" \in timers
  /\ timers' = timers \ {"reconnect"}
  /\ \/ tunnelRequested /\ ~gracefulShutdown /\ Manager!Call("main", "reconnect")
     \/ UNCHANGED managerVars
  /\ UNCHANGED <<systemVars, service, tunnelRequested, gracefulShutdown,
                 activityVars, at, events, history>>

\* The stopSelf that onRevoke posted for a second later: whatever has been
\* started since, it stops the service.
StopSelf ==
  /\ Free("main")
  /\ "stopSelf" \in timers
  /\ timers' = timers \ {"stopSelf"}
  /\ IF Queued("stop")
       THEN UNCHANGED <<started, mainQueue>>
       ELSE StopStarted(mainQueue)
  /\ UNCHANGED <<managerVars, permission, bound, service, tunnelRequested, gracefulShutdown,
                 activityVars, at, events, history>>

-----------------------------------------------------------------------------
(* The system. *)

\* Wrong: onRevoke only marks the service and leaves the tunnel to its destruction.
OnRevokeWithoutDisable ==
  /\ gracefulShutdown' = TRUE
  /\ tunnelRequested' = FALSE
  /\ timers' = timers \ {"reconnect"}
  /\ Enter("binder", "revoking")
  /\ UNCHANGED managerVars

\* onRevoke, on a binder thread.
OnRevoke ==
  /\ gracefulShutdown' = TRUE
  /\ tunnelRequested' = FALSE
  /\ timers' = timers \ {"reconnect"}
  /\ Enter("binder", "revoking")
  /\ Manager!Call("binder", "disconnect")

\* Another app becomes the VPN: the system unbinds, and calls onRevoke of the
\* service that was bound.  Revocations do not overlap, and the system does not
\* revoke an interface while it is still waiting to be connected to its service.
Revoke ==
  /\ Event
  /\ Free("binder")
  /\ permission
  /\ permission' = FALSE
  /\ bound => service /\ ~Queued("stop")
  /\ IF bound
       THEN OnRevoke
       ELSE UNCHANGED <<managerVars, gracefulShutdown, tunnelRequested, timers, at>>
  /\ bound' = FALSE
  /\ mainQueue' = IF bound /\ ~started THEN Append(mainQueue, "stop") ELSE mainQueue
  /\ UNCHANGED <<started, service, activityVars, history>>

\* onRevoke posts stopSelf when Tunnel.disable has returned.
RevokeEnds ==
  /\ Alive
  /\ at["binder"] = "revoking"
  /\ pending["binder"] = None
  /\ Enter("binder", "idle")
  /\ timers' = timers \cup {"stopSelf"}
  /\ UNCHANGED <<managerVars, systemVars, service, tunnelRequested, gracefulShutdown,
                 activityVars, events, history>>

\* The system unbinds once the interface is gone: every establish replaces it,
\* and it ends with the descriptor that establish returned.
Unbind ==
  /\ Alive
  /\ bound /\ tunnelFD = None
  /\ bound' = FALSE
  /\ mainQueue' = IF started THEN mainQueue ELSE Append(mainQueue, "stop")
  /\ UNCHANGED <<managerVars, permission, started, serviceVars, activityVars, at, events, history>>

\* The system, or the user in the system settings, stops the service.
SystemStopsService ==
  /\ Event
  /\ started
  /\ killed' = TRUE
  /\ StopStarted(mainQueue)
  /\ UNCHANGED <<managerVars, permission, bound, serviceVars, activityVars, at, orphaned, failed>>

-----------------------------------------------------------------------------
(* The activity and the UI. *)

\* The icon or a notification opens the activity (it is singleTask).
LaunchActivity ==
  /\ Event
  /\ Free("main")
  /\ ~activity
  /\ activity' = TRUE
  /\ UNCHANGED <<managerVars, systemVars, serviceVars, prompt, at, history>>

\* MainActivity.onDestroy: OnActivityDestroy
OnActivityDestroy ==
  /\ Event
  /\ Free("main")
  /\ activity
  /\ activity' = FALSE
  /\ prompt' = None
  /\ IF ~service \/ ~Manager!IsActive
       THEN OnDestroy("main")
       ELSE UNCHANGED <<managerVars, at>>
  /\ UNCHANGED <<systemVars, serviceVars, history>>

\* SendServicesCommand: without an activity it fails; without the consent of
\* the user ServiceCommand.send asks for it instead of sending the command.
SendServicesCommand(command) ==
  \/ /\ ~activity
     /\ UNCHANGED <<systemVars, prompt>>
  \/ /\ activity /\ ~permission
     /\ prompt' = command
     /\ UNCHANGED systemVars
  \/ /\ activity /\ permission
     /\ StartService(command)
     /\ UNCHANGED prompt

\* The dialog is answered: onActivityResult sends keep_alive, whatever the
\* command was.
Consent ==
  /\ Free("main")
  /\ prompt # None
  /\ prompt' = None
  /\ permission' = TRUE
  /\ started' = TRUE
  /\ mainQueue' = Append(WithInstance(mainQueue), "keep_alive")
  /\ UNCHANGED <<managerVars, bound, serviceVars, activity, at, events, history>>

Refuse ==
  /\ Free("main")
  /\ prompt # None
  /\ prompt' = None
  /\ UNCHANGED <<managerVars, systemVars, serviceVars, activity, at, events, history>>

\* ui.EnableTunnel, ui.RestartTunnel and ui.Shutdown
EnableTunnel ==
  /\ Event
  /\ activity /\ Free("ui")
  /\ SendServicesCommand("keep_alive")
  /\ UNCHANGED <<managerVars, serviceVars, activity, at, history>>

RestartTunnel ==
  /\ Event
  /\ activity /\ Free("ui")
  /\ Manager!Call("ui", "reconnect")
  /\ UNCHANGED <<systemVars, serviceVars, activityVars, at, history>>

ShutdownApp ==
  /\ Event
  /\ activity /\ Free("ui")
  /\ OnDestroy("ui")
  /\ UNCHANGED <<systemVars, serviceVars, activityVars, history>>

-----------------------------------------------------------------------------
(* The worker. *)

others == <<systemVars, serviceVars, activityVars, at, events, killed, orphaned>>

\* VPNInit succeeds: the system binds the service the interface belongs to.
Establish ==
  /\ service /\ permission
  /\ \E fd \in Descriptors : Manager!Establish(fd)
  /\ bound' = TRUE
  /\ mainQueue' = WithInstance(mainQueue)
  /\ UNCHANGED <<permission, started, serviceVars, activityVars, at, events, history>>

SetupFails ==
  /\ Manager!EstablishFails \/ Manager!BuildFails
  /\ failed' = job
  /\ UNCHANGED others

SetupSucceeds ==
  /\ Manager!Build
  /\ failed' = None
  /\ UNCHANGED others

TellService ==
  /\ Manager!SendServicesCommand
  /\ SendServicesCommand(Manager!ServiceCommand)
  /\ UNCHANGED <<serviceVars, activity, at, events, history>>

WorkerAlone ==
  /\ \/ Manager!Receive
     \/ Manager!EndConnections
     \/ Manager!CloseStack
     \/ Manager!CloseDescriptor
     \/ Manager!Shutdown
  /\ UNCHANGED <<others, failed>>

Done == Manager!Done /\ UNCHANGED <<others, failed>>

Worker == Done \/ Establish \/ SetupFails \/ SetupSucceeds \/ TellService \/ WorkerAlone

Enqueue(c) == Manager!Enqueue(c) /\ UNCHANGED <<others, failed>>

Finalize == \E fd \in Descriptors : Manager!Finalize(fd) /\ UNCHANGED <<others, failed>>

\* engine.OnDestroy goes on when the worker has returned.
ProcessExits ==
  /\ \E c \in Callers : at[c] = "closing"
  /\ Manager!ProcessExits
  /\ UNCHANGED <<others, failed>>

-----------------------------------------------------------------------------

MainThread ==
  \/ OnCreate \/ OnStartCommand \/ OnStartShutdown \/ OnServiceDestroy
  \/ OnServiceDestroyEnds

System == Unbind \/ RevokeEnds

Environment ==
  \/ ScheduleTunnelReconnect \/ Revoke \/ SystemStopsService
  \/ LaunchActivity \/ OnActivityDestroy \/ Consent \/ Refuse
  \/ EnableTunnel \/ RestartTunnel \/ ShutdownApp

Next ==
  \/ MainThread \/ ReconnectTunnel \/ StopSelf
  \/ System
  \/ Environment
  \/ Worker \/ ProcessExits \/ Finalize
  \/ \E c \in Callers : Enqueue(c)

\* The threads of the process run.  Go's select chooses at random among the ready
\* cases, so the worker does not pass over ctx.Done for ever, and a blocked send
\* is not passed over for ever either.  Neither the user nor the system need do
\* anything, and no property needs the main thread to take its next message.
Fairness ==
  /\ WF_vars(Worker) /\ SF_vars(Done) /\ WF_vars(ProcessExits)
  /\ SF_vars(Enqueue("main"))

Spec == Init /\ [][Next]_vars
FairSpec == Spec /\ Fairness

-----------------------------------------------------------------------------
(* Properties. *)

\* The variables hold what the app and the system can hold.
TypeOK ==
  /\ Manager!TypeOK
  /\ permission \in BOOLEAN
  /\ started \in BOOLEAN
  /\ bound \in BOOLEAN
  /\ mainQueue \in Seq(Message)
  /\ service \in BOOLEAN
  /\ tunnelRequested \in BOOLEAN
  /\ gracefulShutdown \in BOOLEAN
  /\ timers \subseteq {"reconnect", "stopSelf"}
  /\ activity \in BOOLEAN
  /\ prompt \in StartCommand \cup {None}
  /\ at \in [Callers -> Activities]
  /\ events \in 0..MaxEvents
  /\ killed \in BOOLEAN
  /\ orphaned \in BOOLEAN
  /\ failed \in Manager!Command \cup {None}

\* A tunnel is only ever without a service while its teardown is on the way:
\* no order of stops, revocations, starts and setups leaves packets with a
\* tunnel that Android does not know to be in the foreground.
TeardownComing == cancelled \/ Outstanding({"disconnect", "system-shutdown"})
NoOrphanTunnel ==
  netStack # None => service \/ Queued("create") \/ TeardownComing

\* When all is quiet and the service wants a tunnel, there is one: unless the last
\* setup failed, or an onRevoke was so slow that its disconnect reached the worker
\* on behalf of a service that had been replaced.
AtRest ==
  /\ phase = "select" /\ ~cancelled
  /\ eventChannel = <<>> /\ mainQueue = <<>> /\ timers = {}
  /\ bound => tunnelFD # None
  /\ \A c \in Callers : pending[c] = None /\ at[c] = "idle"
RequestedIsUp ==
  AtRest /\ tunnelRequested /\ failed = None /\ ~orphaned => Manager!IsActive

\* Once the process is being shut down, or its service was destroyed without
\* having been asked to stop, the process ends: the threads that wait for one
\* another on the way out (main in a channel send, the worker in a call to
\* Java, OnDestroy in modules.Shutdown) never all wait.
EndsInExit == cancelled \/ at["main"] = "leaving" ~> phase = "exited"

\* Whatever was queued when the user gave the VPN to another app, the tunnel is
\* down once all is quiet.
NoTunnelWithoutConsent == AtRest /\ ~permission => ~Manager!IsActive

\* PortmasterTunnelService.java:170-172 says a normal disconnect is not
\* reported to Go as an unexpected system kill: only a service the system
\* stopped is destroyed without gracefulShutdown.
OnlyKillsAreUngraceful ==
  [][service /\ ~service' /\ ~gracefulShutdown => killed]_vars

\* PortmasterTunnelService.java:190-192 says that after a revocation the worker
\* sends the service a shutdown command when there is an activity to send it: a
\* "disconnect" never opens a consent dialog instead.
DisconnectDoesNotPrompt ==
  [][job = "disconnect" /\ prompt # "shutdown" => prompt' # "shutdown"]_vars

\* module.go:49 says keep_alive lets the app run in the background: an activity
\* that goes away while the worker only rebuilds the tunnel for a service that
\* wants it does not shut the app down.
RunsInBackground ==
  [][activity /\ ~activity' /\ bound /\ failed = None /\ tunnelRequested /\ job = "reconnect"
       => ~(cancelled' /\ ~cancelled)]_vars
=============================================================================
