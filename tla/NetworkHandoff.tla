---------------------------- MODULE NetworkHandoff ----------------------------
(***************************************************************************)
(* How one PortmasterTunnelService follows the physical networks under the *)
(* tunnel: it looks up the active network, registers for callbacks, which  *)
(* arrive one by one on the connectivity thread, and posts a runnable to   *)
(* the main thread that asks the worker for a rebuild.  The lock guards    *)
(* currentUnderlyingNetwork only, so a callback is two steps: the update   *)
(* under the lock, and the test of tunnelRequested after it.               *)
(*                                                                         *)
(* The worker is VpnManager seen from here: it takes one command at a time *)
(* and ends the flows of the old network before it sets up again.          *)
(***************************************************************************)
EXTENDS Naturals, Sequences, FiniteSets, SequencesExt

CONSTANTS
  Networks,   \* Network objects: a network that comes back is another one
  None,       \* null
  MaxUpdates, \* bound: capability updates of networks that stay
  MaxBacklog  \* bound: callbacks under way when the networks change

ASSUME NetworksAssumption == IsFiniteSet(Networks) /\ None \notin Networks
ASSUME BoundsAssumption == MaxUpdates \in Nat /\ MaxBacklog \in Nat \ {0}

VARIABLES
  available,    \* physical networks with internet access
  seen,         \* networks that have ever been available
  updates,      \* updates so far (bounded by MaxUpdates)
  registration, \* how far registerEvents is
  callbacks,    \* callbacks under way to the connectivity thread
  current,      \* currentUnderlyingNetwork
  changed,      \* the connectivity thread has left the lock with changed or lostCurrent
  requested,    \* tunnelRequested
  posted,       \* number of reconnectTunnel runnables posted to networkHandler
  commands,     \* commands the worker has not taken
  working,      \* the command it handles, or None
  up,           \* IsActive
  taken,        \* current when the worker ended the old flows
  built,        \* history: current when the flows of the present tunnel began
  failed        \* history: the last setup failed

systemVars == <<available, seen, updates>>
trackVars  == <<registration, callbacks, current, changed>>
workerVars == <<working, up, taken, built, failed>>
vars == <<systemVars, trackVars, requested, posted, commands, workerVars>>

Callback == [kind : {"capabilities", "lost"}, network : Networks]
Notice(kind, network) == [kind |-> kind, network |-> network]

Init ==
  /\ available \in SUBSET Networks
  /\ seen = available
  /\ updates = 0
  /\ registration = "none"
  /\ callbacks = <<>>
  /\ current = None
  /\ changed = FALSE
  /\ requested = FALSE
  /\ posted = 0
  /\ commands = <<>>
  /\ working = None
  /\ up = FALSE
  /\ taken = None
  /\ built = None
  /\ failed = FALSE

-----------------------------------------------------------------------------
(* The networks. *)

\* The system tells the app once it is registered.
Tell(notice) ==
  /\ Len(callbacks) < MaxBacklog
  /\ callbacks' = IF registration = "done" THEN Append(callbacks, notice) ELSE callbacks

NetworkAppears(n) ==
  /\ n \notin seen
  /\ available' = available \cup {n}
  /\ seen' = seen \cup {n}
  /\ Tell(Notice("capabilities", n))
  /\ UNCHANGED <<updates, registration, current, changed, requested, posted, commands, workerVars>>

NetworkDisappears(n) ==
  /\ n \in available
  /\ available' = available \ {n}
  /\ Tell(Notice("lost", n))
  /\ UNCHANGED <<seen, updates, registration, current, changed, requested, posted, commands,
                 workerVars>>

\* Signal strength, bandwidth, metering: nothing that makes it another network.
CapabilitiesChange(n) ==
  /\ updates < MaxUpdates
  /\ updates' = updates + 1
  /\ n \in available
  /\ Tell(Notice("capabilities", n))
  /\ UNCHANGED <<available, seen, registration, current, changed, requested, posted, commands,
                 workerVars>>

-----------------------------------------------------------------------------
(* registerEvents, in onCreate. *)

\* getActiveNetwork: which of several networks is active is up to the system, and a VPN,
\* or none, is not taken for an underlying network.
ReadActiveNetwork ==
  /\ registration = "none"
  /\ registration' = "read"
  /\ UNCHANGED current \/ current' \in available
  /\ UNCHANGED <<systemVars, callbacks, changed, requested, posted, commands, workerVars>>

\* registerNetworkCallback: the system reports every network there is.
RegisterNetworkCallback ==
  /\ registration = "read"
  /\ registration' = "done"
  /\ callbacks' \in
       {[i \in DOMAIN order |-> Notice("capabilities", order[i])] :
          order \in SetToSeqs(available)}
  /\ UNCHANGED <<systemVars, current, changed, requested, posted, commands, workerVars>>

-----------------------------------------------------------------------------
(* The connectivity thread. *)

\* The thread has finished with one callback and takes the next.
Handle(kind) ==
  /\ ~changed
  /\ callbacks # <<>>
  /\ Head(callbacks).kind = kind
  /\ callbacks' = Tail(callbacks)
  /\ UNCHANGED <<systemVars, registration, requested, posted, commands, workerVars>>

\* onUnderlyingNetworkCapabilitiesChanged, under the lock.  The request excludes
\* VPNs, so the network is a physical one.
OnCapabilitiesChanged ==
  /\ Handle("capabilities")
  /\ current' = Head(callbacks).network
  /\ changed' = (current # current')

\* Wrong: the lost network is kept until another one is reported.
OnLostKeeps ==
  /\ Handle("lost")
  /\ changed' = (current = Head(callbacks).network)
  /\ UNCHANGED current

\* onUnderlyingNetworkLost, under the lock.
OnLost ==
  /\ Handle("lost")
  /\ changed' = (current = Head(callbacks).network)
  /\ current' = IF changed' THEN None ELSE current

\* Wrong: postDelayed without removeCallbacks.
PostAnother == posted + 1

\* scheduleTunnelReconnect replaces the runnable that is posted already.
PostOne == 1

\* Wrong: only a loss is worth a rebuild.
ScheduleOnLoss ==
  /\ changed
  /\ changed' = FALSE
  /\ posted' = IF requested /\ current = None THEN PostOne ELSE posted
  /\ UNCHANGED <<systemVars, registration, callbacks, current, requested, commands, workerVars>>

\* The rest of either callback, without the lock.
ScheduleTunnelReconnect ==
  /\ changed
  /\ changed' = FALSE
  /\ posted' = IF requested THEN PostOne ELSE posted
  /\ UNCHANGED <<systemVars, registration, callbacks, current, requested, commands, workerVars>>

-----------------------------------------------------------------------------
(* The main thread. *)

\* onStartCommand with keep_alive; the bound is that one "connect" is handled
\* before the next start.
OnStartCommand ==
  /\ registration = "done"
  /\ working # "connect"
  /\ \A i \in DOMAIN commands : commands[i] # "connect"
  /\ ~up
  /\ requested' = TRUE
  /\ commands' = Append(commands, "connect")
  /\ UNCHANGED <<systemVars, trackVars, posted, workerVars>>

\* Wrong: the runnable leaves a rebuild that is going on alone.
ReconnectUnlessBusy ==
  /\ posted > 0
  /\ posted' = posted - 1
  /\ commands' = IF requested /\ current # None /\ working = None
                   THEN Append(commands, "reconnect")
                   ELSE commands
  /\ UNCHANGED <<systemVars, trackVars, requested, workerVars>>

\* The runnable reconnectTunnel.
ReconnectTunnel ==
  /\ posted > 0
  /\ posted' = posted - 1
  /\ commands' = IF requested /\ current # None
                   THEN Append(commands, "reconnect")
                   ELSE commands
  /\ UNCHANGED <<systemVars, trackVars, requested, workerVars>>

-----------------------------------------------------------------------------
(* The worker. *)

\* A command starts; "connect" on an active tunnel is over at once.
Take ==
  /\ working = None
  /\ commands # <<>>
  /\ commands' = Tail(commands)
  /\ IF Head(commands) = "connect" /\ up
       THEN UNCHANGED workerVars
       ELSE /\ working' = Head(commands)
            /\ up' = FALSE
            /\ taken' = current
            /\ UNCHANGED <<built, failed>>
  /\ UNCHANGED <<systemVars, trackVars, requested, posted>>

\* setupTunnelInterface succeeds or not.
Setup ==
  /\ working # None
  /\ working' = None
  /\ up' \in BOOLEAN
  /\ failed' = ~up'
  /\ built' = IF up' THEN taken ELSE built
  /\ taken' = None
  /\ UNCHANGED <<systemVars, trackVars, requested, posted, commands>>

ConnectivityThread == OnCapabilitiesChanged \/ OnLost \/ ScheduleTunnelReconnect

Next ==
  \/ \E n \in Networks : NetworkAppears(n) \/ NetworkDisappears(n) \/ CapabilitiesChange(n)
  \/ ReadActiveNetwork
  \/ RegisterNetworkCallback
  \/ ConnectivityThread
  \/ OnStartCommand
  \/ ReconnectTunnel
  \/ Take
  \/ Setup

\* Callbacks are delivered, a posted runnable is run and the worker works.
\* Networks need not change, nor need anybody start the service.
Fairness ==
  /\ WF_vars(ConnectivityThread)
  /\ WF_vars(ReconnectTunnel)
  /\ WF_vars(Take) /\ WF_vars(Setup)

Spec == Init /\ [][Next]_vars
FairSpec == Spec /\ Fairness

-----------------------------------------------------------------------------
(* Properties. *)

\* The variables hold what they can hold; one runnable at most is posted.
TypeOK ==
  /\ available \subseteq seen
  /\ seen \subseteq Networks
  /\ updates \in 0..MaxUpdates
  /\ registration \in {"none", "read", "done"}
  /\ callbacks \in Seq(Callback)
  /\ current \in Networks \cup {None}
  /\ changed \in BOOLEAN
  /\ requested \in BOOLEAN
  /\ posted \in 0..1
  /\ commands \in Seq({"connect", "reconnect"})
  /\ working \in {"connect", "reconnect", None}
  /\ up \in BOOLEAN
  /\ taken \in Networks \cup {None}
  /\ built \in Networks \cup {None}
  /\ failed \in BOOLEAN

\* Once the callbacks are handled the service does not take a lost network for
\* the present one, although the network it looked up may be lost before the
\* callback is registered, and then no callback says so.
CurrentIsAvailable ==
  registration = "done" /\ callbacks = <<>> /\ available # {}
    => current \in available \cup {None}

\* When all is quiet the flows of the tunnel began on the network the service
\* last heard of: no change is lost to the coalescing of runnables, to a rebuild
\* that is going on, or to the start of the tunnel.
Settled ==
  /\ registration = "done" /\ callbacks = <<>> /\ ~changed
  /\ posted = 0 /\ commands = <<>> /\ working = None
LastChangeBuilt == Settled /\ up /\ current # None => built = current

\* A network the service knows and keeps is built on in the end, unless a setup fails.
HandoffCompletes ==
  \A n \in Networks :
    requested /\ current = n ~> (up /\ built = n) \/ current # n \/ failed

\* PortmasterTunnelService.java:342-345 says the physical networks are monitored
\* so as not to miss the Wi-Fi <-> cellular handoff: with a network there, a
\* quiet tunnel that was built on a network was built on one that is still there.
HandoffIsNotMissed ==
  Settled /\ up /\ built # None /\ available # {} => built \in available
=============================================================================
