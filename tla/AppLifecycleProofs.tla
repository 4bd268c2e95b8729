-------------------------- MODULE AppLifecycleProofs --------------------------
(***************************************************************************)
(* Proofs about the app for any buffer size, any set of descriptors and    *)
(* any number of events.                                                   *)
(*                                                                         *)
(* AppLifecycle drives the worker only through the actions of VpnManager:  *)
(* what the activity manager, the service, the activity and the UI do      *)
(* looks to the worker like some behaviour of its callers.  So every       *)
(* theorem of VpnManagerProofs holds of the worker inside the app.         *)
(*                                                                         *)
(* The properties of the app itself need more than the states they speak   *)
(* of.  Instances follows the service through the callbacks queued for the *)
(* main thread; Interface ties the descriptor to the system's binding and  *)
(* to the teardowns on their way; Answered ties what the service asked for *)
(* to the last command given to the worker, wherever that is.              *)
(***************************************************************************)
EXTENDS AppLifecycle, SequenceTheorems, TLAPS

Theorems == INSTANCE VpnManagerProofs

\* A step of any thread of the app is a step of the manager, or none.
LEMMA OnDestroyIsCancel ==
  ASSUME NEW c \in Callers, Alive, cancelled \in BOOLEAN, OnDestroy(c)
  PROVE  Manager!Next \/ UNCHANGED Manager!vars
<1>1. CASE cancelled
  BY <1>1 DEF OnDestroy, Manager!vars
<1>2. CASE ~cancelled
  <2>1. Manager!Cancel
    BY <1>2 DEF OnDestroy, Alive, Manager!Cancel, Manager!tunnelVars
  <2> QED
    BY <2>1 DEF Manager!Next
<1> QED
  BY <1>1, <1>2

\* A thread that is free can make a call.
LEMMA CallIsNext ==
  ASSUME NEW c \in Callers, NEW command \in Manager!Command, Manager!Call(c, command)
  PROVE  Manager!Next
BY DEF Manager!Next

\* What the main thread does.
LEMMA MainThreadStep ==
  ASSUME cancelled \in BOOLEAN, MainThread \/ ReconnectTunnel \/ StopSelf
  PROVE  Manager!Next \/ UNCHANGED Manager!vars
<1> USE DEF managerVars, Manager!vars
<1>1. "main" \in Callers /\ {"connect", "reconnect", "system-shutdown"} \subseteq Manager!Command
  BY DEF Callers, Manager!Command
<1>2. CASE OnCreate \/ OnStartShutdown \/ StopSelf
  BY <1>2 DEF OnCreate, OnStartShutdown, StopSelf
<1>3. CASE OnStartCommand
  BY <1>1, <1>3, CallIsNext DEF OnStartCommand
<1>4. CASE OnServiceDestroy
  BY <1>1, <1>4, CallIsNext DEF OnServiceDestroy
<1>5. CASE OnServiceDestroyEnds
  BY <1>1, <1>5, OnDestroyIsCancel DEF OnServiceDestroyEnds
<1>6. CASE ReconnectTunnel
  BY <1>1, <1>6, CallIsNext DEF ReconnectTunnel
<1> QED
  BY <1>2, <1>3, <1>4, <1>5, <1>6 DEF MainThread

\* What the system and the user do.
LEMMA EnvironmentStep ==
  ASSUME cancelled \in BOOLEAN, System \/ Environment
  PROVE  Manager!Next \/ UNCHANGED Manager!vars
<1> USE DEF managerVars, Manager!vars
<1>1. /\ {"main", "ui", "binder"} \subseteq Callers
      /\ {"disconnect", "reconnect"} \subseteq Manager!Command
  BY DEF Callers, Manager!Command
<1>2. CASE System
  BY <1>2 DEF System, Unbind, RevokeEnds
<1>3. CASE ScheduleTunnelReconnect \/ SystemStopsService \/ LaunchActivity
           \/ Consent \/ Refuse \/ EnableTunnel
  BY <1>3 DEF ScheduleTunnelReconnect, SystemStopsService, LaunchActivity, Consent, Refuse,
              EnableTunnel
<1>4. CASE Revoke
  BY <1>1, <1>4, CallIsNext DEF Revoke, OnRevoke
<1>5. CASE OnActivityDestroy
  BY <1>1, <1>5, OnDestroyIsCancel DEF OnActivityDestroy, Event
<1>6. CASE RestartTunnel
  BY <1>1, <1>6, CallIsNext DEF RestartTunnel
<1>7. CASE ShutdownApp
  BY <1>1, <1>7, OnDestroyIsCancel DEF ShutdownApp, Event
<1> QED
  BY <1>2, <1>3, <1>4, <1>5, <1>6, <1>7 DEF Environment

\* What the worker does, and what becomes of its callers.
LEMMA WorkerStep ==
  ASSUME Worker \/ ProcessExits \/ Finalize \/ \E c \in Callers : Enqueue(c)
  PROVE  Manager!Next
<1>1. CASE Worker
  <2>1. Manager!Worker
    BY <1>1 DEF Worker, Done, Establish, SetupFails, SetupSucceeds, TellService, WorkerAlone,
                Manager!Worker
  <2> QED
    BY <2>1 DEF Manager!Next
<1>2. CASE ProcessExits
  BY <1>2 DEF ProcessExits, Manager!Next
<1>3. CASE Finalize
  BY <1>3 DEF Finalize, Manager!Next
<1>4. CASE \E c \in Callers : Enqueue(c)
  BY <1>4 DEF Enqueue, Manager!Next
<1> QED
  BY <1>1, <1>2, <1>3, <1>4

\* Inside the app, the worker and its callers behave as VpnManager says: no
\* component reaches into the state of another behind its back.
THEOREM LifecycleImplementsManager == Spec => Manager!Spec
<1> DEFINE Flag == cancelled \in BOOLEAN
<1>1. Init => Manager!Init /\ Flag
  BY DEF Init, Manager!Init
<1>2. Flag /\ [Next]_vars => [Manager!Next]_(Manager!vars)
  <2>1. CASE UNCHANGED vars
    BY <2>1 DEF vars, managerVars, Manager!vars
  <2> QED
    BY <2>1, MainThreadStep, EnvironmentStep, WorkerStep DEF Next
<1>3. Flag /\ [Manager!Next]_(Manager!vars) => Flag'
  BY DEF Manager!Next, Manager!vars, Manager!Worker, Manager!Call, Manager!Enqueue,
         Manager!Cancel, Manager!Receive, Manager!Done, Manager!Establish,
         Manager!EstablishFails, Manager!Build, Manager!BuildFails, Manager!EndConnections,
         Manager!CloseStack, Manager!CloseDescriptor, Manager!SendServicesCommand,
         Manager!Shutdown, Manager!ProcessExits, Manager!Finalize
<1> HIDE DEF Flag
<1> QED
  BY <1>1, <1>2, <1>3, PTL DEF Spec, Manager!Spec

-----------------------------------------------------------------------------
(* What is proved of the worker alone therefore holds in the app. *)

\* VpnManagerProofs and AppLifecycle speak of one and the same worker.
LEMMA SameInit == Manager!Init => Theorems!Init
BY DEF Manager!Init, Theorems!Init

LEMMA SameStep == [Manager!Next]_(Manager!vars) => [Theorems!Next]_(Theorems!vars)
BY DEF Manager!Next, Manager!vars, Manager!Worker, Manager!Call, Manager!Enqueue,
       Manager!Cancel, Manager!Receive, Manager!Done, Manager!Establish,
       Manager!EstablishFails, Manager!Build, Manager!BuildFails, Manager!EndConnections,
       Manager!CloseStack, Manager!CloseDescriptor, Manager!SendServicesCommand,
       Manager!Shutdown, Manager!ProcessExits, Manager!Finalize, Manager!Goto,
       Manager!AfterSetup, Manager!FirstPhase, Manager!IsActive, Manager!tunnelVars,
       Manager!Command, Theorems!Next, Theorems!vars, Theorems!Worker, Theorems!Call,
       Theorems!Enqueue, Theorems!Cancel, Theorems!Receive, Theorems!Done, Theorems!Establish,
       Theorems!EstablishFails, Theorems!Build, Theorems!BuildFails, Theorems!EndConnections,
       Theorems!CloseStack, Theorems!CloseDescriptor, Theorems!SendServicesCommand,
       Theorems!Shutdown, Theorems!ProcessExits, Theorems!Finalize, Theorems!Goto,
       Theorems!AfterSetup, Theorems!FirstPhase, Theorems!IsActive, Theorems!tunnelVars,
       Theorems!Command

\* Every theorem of VpnManagerProofs rests on this invariant of the worker.
THEOREM WorkerInvariant == Spec => []Theorems!IInv
<1>1. Manager!Init => Theorems!Init
  BY SameInit
<1>2. [Manager!Next]_(Manager!vars) => [Theorems!Next]_(Theorems!vars)
  BY SameStep
<1>3. Theorems!Init => Theorems!IInv
  BY Theorems!InitEstablishes, CapacityAssumption, NoneAssumption
<1>4. Theorems!IInv /\ [Theorems!Next]_(Theorems!vars) => Theorems!IInv'
  BY Theorems!StepPreserves, CapacityAssumption, NoneAssumption
<1> QED
  BY <1>1, <1>2, <1>3, <1>4, LifecycleImplementsManager, PTL DEF Manager!Spec

\* Whatever Android, the user and the worker do and in whatever order, a live
\* stack reads the open descriptor tunnelFD names, the service is only told to
\* shut down when nothing of the tunnel is left, and no descriptor is leaked
\* unless a setup has failed half-way.
THEOREM WorkerSafeInApp ==
  Spec => [](Manager!StackOwnsDescriptor /\ Manager!ShutdownAfterTeardown /\ Manager!NoLeak)
<1>1. Theorems!IInv =>
        Manager!StackOwnsDescriptor /\ Manager!ShutdownAfterTeardown /\ Manager!NoLeak
  BY DEF Theorems!IInv, Theorems!StackOwnsDescriptor, Theorems!ShutdownAfterTeardown,
         Theorems!ServiceCommand, Theorems!NoLeak, Manager!StackOwnsDescriptor,
         Manager!ShutdownAfterTeardown, Manager!ServiceCommand, Manager!NoLeak
<1> QED
  BY <1>1, WorkerInvariant, PTL

\* No thread of the app takes a live tunnel down but by a disconnect, reconnect
\* or system-shutdown handled by the worker, or by the end of the worker.
THEOREM LoweredByTeardownInApp == Spec => Manager!OnlyTeardownLowers
<1>1. Theorems!IInv /\ [Manager!Next]_(Manager!vars) =>
        [netStack # None /\ netStack' # netStack
           => job \in {"disconnect", "reconnect", "system-shutdown", "done"}]_(Manager!vars)
  <2> SUFFICES ASSUME Theorems!IInv, [Manager!Next]_(Manager!vars),
                      netStack # None, netStack' # netStack
               PROVE  job \in {"disconnect", "reconnect", "system-shutdown", "done"}
    OBVIOUS
  <2>1. Theorems!Next
    BY SameStep DEF Theorems!vars
  <2> QED
    BY <2>1, Theorems!LoweredOnlyByTeardown, CapacityAssumption, NoneAssumption
<1> QED
  BY <1>1, WorkerInvariant, LifecycleImplementsManager, PTL
  DEF Manager!Spec, Manager!OnlyTeardownLowers

\* The rest of the app may rely on Tunnel: "shutdown" is only said of a tunnel
\* that is down and stays down while it is said, and an ended worker leaves the
\* tunnel down, across services, activities, revocations and exits.
THEOREM AppImplementsTunnel ==
  Spec => Manager!Contract!Init /\ [][Manager!Contract!Next]_(Manager!Contract!vars)
<1>1. Manager!Init => Manager!Contract!Init
  BY SameInit, Theorems!InitImplements, CapacityAssumption, NoneAssumption
  DEF Theorems!Contract!Init, Manager!Contract!Init, Theorems!IsActive, Manager!IsActive,
      Theorems!ServiceCommand, Manager!ServiceCommand
<1>2. Theorems!IInv /\ [Manager!Next]_(Manager!vars) =>
        [Manager!Contract!Next]_(Manager!Contract!vars)
  <2> SUFFICES ASSUME Theorems!IInv, [Manager!Next]_(Manager!vars)
               PROVE  [Manager!Contract!Next]_(Manager!Contract!vars)
    OBVIOUS
  <2>1. [Theorems!Contract!Next]_(Theorems!Contract!vars)
    BY SameStep, Theorems!StepImplements, CapacityAssumption, NoneAssumption
  <2> QED
    BY <2>1
    DEF Theorems!Contract!Next, Theorems!Contract!vars, Theorems!Contract!Raise,
        Theorems!Contract!Lower, Theorems!Contract!Tell, Theorems!Contract!Told,
        Theorems!Contract!End, Theorems!Contract!Telling,
        Theorems!IsActive, Theorems!ServiceCommand,
        Manager!Contract!Next, Manager!Contract!vars, Manager!Contract!Raise,
        Manager!Contract!Lower, Manager!Contract!Tell, Manager!Contract!Told,
        Manager!Contract!End, Manager!Contract!Telling,
        Manager!IsActive, Manager!ServiceCommand
<1> QED
  BY <1>1, <1>2, WorkerInvariant, LifecycleImplementsManager, PTL DEF Manager!Spec

-----------------------------------------------------------------------------
(* What the app's own invariants need to know of the worker. *)

SetupCommand == {"connect", "reconnect"}

\* What VpnManagerProofs shows of the worker, in the app's terms.
Sound ==
  /\ Manager!TypeOK
  /\ phase \in {"establish", "build"} => job \in SetupCommand /\ netStack = None
  /\ phase \in {"endConnections", "closeStack", "closeDescriptor"}
       => job \in {"disconnect", "reconnect", "system-shutdown", "done"}
  /\ phase = "sendCommand" => job \in {"connect", "disconnect", "system-shutdown", "done"}
  /\ phase = "closeDescriptor" => netStack = None
  /\ phase = "build" => tunnelFD \in Descriptors
  /\ netStack # None => netStack = tunnelFD
  /\ phase = "sendCommand" /\ job # "connect" => tunnelFD = None
  /\ phase \in {"returned", "shutdown", "exited"} => netStack = None /\ tunnelFD = None

LEMMA WorkerIsSound == Theorems!IInv => Sound
BY DEF Sound, SetupCommand, Theorems!IInv, Theorems!TypeOK, Theorems!PhaseInv, Theorems!DescriptorInv,
       Theorems!StackOwnsDescriptor, Theorems!ShutdownAfterTeardown, Theorems!ServiceCommand,
       Theorems!StoppedIsTornDown, Theorems!Command, Theorems!Job, Theorems!Phase,
       Manager!TypeOK, Manager!Command, Manager!Job, Manager!Phase

-----------------------------------------------------------------------------
(* The queue of service callbacks. *)

\* There is an instance of the service before the i-th message of a queue is
\* delivered, if live says whether there is one now.
Running(live, queue, i) ==
  \/ live /\ \A j \in 1..(i - 1) : queue[j] # "stop"
  \/ \E j \in 1..(i - 1) : queue[j] = "create" /\ \A k \in (j + 1)..(i - 1) : queue[k] # "stop"

\* Commands reach an instance, and in the end there is one if there is a record of it.
Consistent(live, queue, record) ==
  /\ \A i \in 1..Len(queue) : queue[i] \in StartCommand => Running(live, queue, i)
  /\ Running(live, queue, Len(queue) + 1) <=> record

LEMMA RunningAppend ==
  ASSUME NEW live \in BOOLEAN, NEW queue \in Seq(Message), NEW m \in Message
  PROVE  LET longer == Append(queue, m)
         IN  /\ longer \in Seq(Message) /\ Len(longer) = Len(queue) + 1
             /\ longer[Len(longer)] = m
             /\ \A i \in 1..Len(queue) : longer[i] = queue[i]
             /\ \A i \in 1..(Len(queue) + 1) :
                  Running(live, longer, i) <=> Running(live, queue, i)
             /\ Running(live, longer, Len(longer) + 1) <=>
                  m = "create" \/ (m # "stop" /\ Running(live, queue, Len(queue) + 1))
<1> DEFINE longer == Append(queue, m)
<1>1. /\ longer \in Seq(Message) /\ Len(longer) = Len(queue) + 1 /\ Len(queue) \in Nat
      /\ longer[Len(longer)] = m
      /\ \A i \in 1..Len(queue) : longer[i] = queue[i]
  OBVIOUS
<1> HIDE DEF longer
<1>2. ASSUME NEW i \in 1..(Len(queue) + 1)
      PROVE  Running(live, longer, i) <=> Running(live, queue, i)
  <2>1. \A j \in 1..(i - 1) : longer[j] = queue[j]
    BY <1>1
  <2> QED
    BY <1>1, <2>1 DEF Running
<1>3. Running(live, longer, Len(longer) + 1) <=>
        m = "create" \/ (m # "stop" /\ Running(live, queue, Len(queue) + 1))
  <2>1. CASE m = "create"
    <3>1. \A k \in (Len(longer) + 1)..(Len(longer) + 1 - 1) : longer[k] # "stop"
      BY <1>1
    <3> QED
      BY <1>1, <2>1, <3>1 DEF Running
  <2>2. CASE m = "stop"
    <3>1. Len(longer) \in 1..(Len(longer) + 1 - 1) /\ longer[Len(longer)] = "stop"
      BY <1>1, <2>2
    <3>2. \A j \in 1..(Len(longer) + 1 - 1) : longer[j] = "create" =>
            Len(longer) \in (j + 1)..(Len(longer) + 1 - 1)
      BY <1>1, <2>2
    <3> QED
      BY <2>2, <3>1, <3>2 DEF Running
  <2>3. CASE m \notin {"create", "stop"}
    <3>1. ASSUME Running(live, queue, Len(queue) + 1)
          PROVE  Running(live, longer, Len(longer) + 1)
      BY <1>1, <2>3, <3>1 DEF Running
    <3>2. ASSUME Running(live, longer, Len(longer) + 1)
          PROVE  Running(live, queue, Len(queue) + 1)
      BY <1>1, <2>3, <3>2 DEF Running
    <3> QED
      BY <2>3, <3>1, <3>2
  <2> QED
    BY <2>1, <2>2, <2>3
<1> QED
  BY <1>1, <1>2, <1>3 DEF longer

LEMMA RunningTail ==
  ASSUME NEW live \in BOOLEAN, NEW queue \in Seq(Message), queue # <<>>, NEW next \in BOOLEAN,
         next <=> (Head(queue) = "create" \/ (Head(queue) # "stop" /\ live)),
         NEW i \in 1..Len(queue)
  PROVE  Running(next, Tail(queue), i) <=> Running(live, queue, i + 1)
<1> DEFINE rest == Tail(queue)
<1>1. /\ Len(queue) \in Nat /\ Len(rest) = Len(queue) - 1 /\ Head(queue) = queue[1]
      /\ \A j \in 1..Len(rest) : rest[j] = queue[j + 1]
  OBVIOUS
<1> HIDE DEF rest
<1>2. \A j \in 1..(i - 1) : rest[j] = queue[j + 1] /\ j + 1 \in 1..i
  BY <1>1
<1>3. \A j \in 2..i : queue[j] = rest[j - 1] /\ j - 1 \in 1..(i - 1)
  BY <1>1
<1>4. ASSUME Running(next, rest, i)
      PROVE  Running(live, queue, i + 1)
  <2>1. CASE next /\ \A j \in 1..(i - 1) : rest[j] # "stop"
    <3>1. \A j \in 2..i : queue[j] # "stop"
      BY <1>3, <2>1
    <3>2. CASE Head(queue) = "create"
      BY <1>1, <3>1, <3>2 DEF Running
    <3>3. CASE Head(queue) # "stop" /\ live
      BY <1>1, <3>1, <3>3 DEF Running
    <3> QED
      BY <2>1, <3>2, <3>3
  <2>2. ASSUME NEW j \in 1..(i - 1), rest[j] = "create",
               \A k \in (j + 1)..(i - 1) : rest[k] # "stop"
        PROVE  Running(live, queue, i + 1)
    <3>1. \A k \in (j + 2)..i : queue[k] # "stop"
      BY <1>3, <2>2
    <3>2. j + 1 \in 1..(i + 1 - 1) /\ queue[j + 1] = "create"
      BY <1>2, <2>2
    <3>3. \A k \in (j + 1 + 1)..(i + 1 - 1) : queue[k] # "stop"
      BY <3>1
    <3> QED
      BY <3>2, <3>3 DEF Running
  <2> QED
    BY <1>4, <2>1, <2>2 DEF Running
<1>5. ASSUME Running(live, queue, i + 1)
      PROVE  Running(next, rest, i)
  <2>1. CASE live /\ \A j \in 1..(i + 1 - 1) : queue[j] # "stop"
    <3>1. next
      BY <1>1, <2>1
    <3>2. \A j \in 1..(i - 1) : rest[j] # "stop"
      BY <1>2, <2>1
    <3> QED
      BY <3>1, <3>2 DEF Running
  <2>2. ASSUME NEW j \in 1..(i + 1 - 1), queue[j] = "create",
               \A k \in (j + 1)..(i + 1 - 1) : queue[k] # "stop"
        PROVE  Running(next, rest, i)
    <3>1. CASE j = 1
      <4>1. next
        BY <1>1, <2>2, <3>1
      <4>2. \A k \in 1..(i - 1) : rest[k] # "stop"
        BY <1>2, <2>2, <3>1
      <4> QED
        BY <4>1, <4>2 DEF Running
    <3>2. CASE j # 1
      <4>1. j - 1 \in 1..(i - 1) /\ rest[j - 1] = "create"
        BY <1>3, <2>2, <3>2
      <4>2. \A k \in (j - 1 + 1)..(i - 1) : rest[k] # "stop"
        BY <1>2, <2>2, <3>2
      <4> QED
        BY <4>1, <4>2 DEF Running
    <3> QED
      BY <3>1, <3>2
  <2> QED
    BY <1>5, <2>1, <2>2 DEF Running
<1> QED
  BY <1>4, <1>5 DEF rest

-----------------------------------------------------------------------------
(* What the activity manager and the main thread do to the queue. *)

LEMMA SendCreate ==
  ASSUME NEW live \in BOOLEAN, NEW queue \in Seq(Message), NEW record \in BOOLEAN,
         Consistent(live, queue, record)
  PROVE  Append(queue, "create") \in Seq(Message) /\ Consistent(live, Append(queue, "create"), TRUE)
<1>1. "create" \in Message /\ "create" \notin StartCommand
  BY DEF Message, StartCommand
<1>2. Len(queue) \in Nat
  OBVIOUS
<1> QED
  BY <1>1, <1>2, RunningAppend DEF Consistent

LEMMA SendStop ==
  ASSUME NEW live \in BOOLEAN, NEW queue \in Seq(Message), NEW record \in BOOLEAN,
         Consistent(live, queue, record)
  PROVE  Append(queue, "stop") \in Seq(Message) /\ Consistent(live, Append(queue, "stop"), FALSE)
<1>1. "stop" \in Message /\ "stop" \notin StartCommand
  BY DEF Message, StartCommand
<1>2. Len(queue) \in Nat
  OBVIOUS
<1> QED
  BY <1>1, <1>2, RunningAppend DEF Consistent

LEMMA SendCommand ==
  ASSUME NEW live \in BOOLEAN, NEW queue \in Seq(Message), NEW command \in StartCommand,
         Consistent(live, queue, TRUE)
  PROVE  Append(queue, command) \in Seq(Message) /\ Consistent(live, Append(queue, command), TRUE)
<1>1. command \in Message /\ command \notin {"create", "stop"}
  BY DEF Message, StartCommand
<1>2. Len(queue) \in Nat
  OBVIOUS
<1> QED
  BY <1>1, <1>2, RunningAppend DEF Consistent

LEMMA TakeHead ==
  ASSUME NEW live \in BOOLEAN, NEW queue \in Seq(Message), queue # <<>>, NEW record \in BOOLEAN,
         Consistent(live, queue, record), NEW next \in BOOLEAN,
         next <=> (Head(queue) = "create" \/ (Head(queue) # "stop" /\ live))
  PROVE  /\ Tail(queue) \in Seq(Message)
         /\ Consistent(next, Tail(queue), record)
         /\ Head(queue) \in StartCommand => live
<1> DEFINE rest == Tail(queue)
<1>1. /\ Len(queue) \in Nat \ {0} /\ Len(rest) = Len(queue) - 1 /\ Head(queue) = queue[1]
      /\ rest \in Seq(Message)
      /\ \A j \in 1..Len(rest) : rest[j] = queue[j + 1] /\ j + 1 \in 1..Len(queue)
  OBVIOUS
<1>2. \A i \in 1..Len(queue) : Running(next, rest, i) <=> Running(live, queue, i + 1)
  BY RunningTail
<1> HIDE DEF rest
<1>3. ASSUME NEW i \in 1..Len(rest), rest[i] \in StartCommand
      PROVE  Running(next, rest, i)
  <2>1. i + 1 \in 1..Len(queue) /\ queue[i + 1] \in StartCommand
    BY <1>1, <1>3
  <2>2. Running(live, queue, i + 1)
    BY <2>1 DEF Consistent
  <2>3. i \in 1..Len(queue)
    BY <1>1
  <2> QED
    BY <1>2, <2>2, <2>3
<1>4. Running(next, rest, Len(rest) + 1) <=> record
  BY <1>1, <1>2 DEF Consistent
<1>5. Head(queue) \in StartCommand => live
  BY <1>1 DEF Consistent, Running
<1> QED
  BY <1>1, <1>3, <1>4, <1>5 DEF Consistent, rest

LEMMA StopStartedKeeps ==
  ASSUME NEW live \in BOOLEAN, NEW queue \in Seq(Message), started \in BOOLEAN, bound \in BOOLEAN,
         Consistent(live, queue, Record), StopStarted(queue), UNCHANGED bound
  PROVE  mainQueue' \in Seq(Message) /\ Consistent(live, mainQueue', Record')
<1>1. Record \in BOOLEAN
  BY DEF Record
<1>2. CASE started /\ ~bound
  <2>1. mainQueue' = Append(queue, "stop") /\ Record' = FALSE
    BY <1>2 DEF StopStarted, Record
  <2> QED
    BY <1>1, <2>1, SendStop
<1>3. CASE ~(started /\ ~bound)
  <2>1. mainQueue' = queue /\ Record' = Record
    BY <1>3 DEF StopStarted, Record
  <2> QED
    BY <2>1
<1> QED
  BY <1>2, <1>3

LEMMA WithInstanceKeeps ==
  ASSUME service \in BOOLEAN, mainQueue \in Seq(Message), started \in BOOLEAN, bound \in BOOLEAN,
         Consistent(service, mainQueue, Record)
  PROVE  /\ WithInstance(mainQueue) \in Seq(Message)
         /\ Consistent(service, WithInstance(mainQueue), TRUE)
<1>1. CASE Record
  <2>1. Record = TRUE /\ WithInstance(mainQueue) = mainQueue
    BY <1>1 DEF WithInstance, Record
  <2> QED
    BY <2>1
<1>2. CASE ~Record
  <2>1. Record \in BOOLEAN /\ WithInstance(mainQueue) = Append(mainQueue, "create")
    BY <1>2 DEF WithInstance, Record
  <2> QED
    BY <2>1, SendCreate
<1> QED
  BY <1>1, <1>2

\* A command to the service is queued behind the creation of one to receive it.
LEMMA StartKeeps ==
  ASSUME service \in BOOLEAN, mainQueue \in Seq(Message), started \in BOOLEAN, bound \in BOOLEAN,
         Consistent(service, mainQueue, Record), NEW command \in StartCommand,
         mainQueue' = Append(WithInstance(mainQueue), command), started' = TRUE, UNCHANGED service
  PROVE  mainQueue' \in Seq(Message) /\ Consistent(service', mainQueue', Record')
<1>1. /\ WithInstance(mainQueue) \in Seq(Message)
      /\ Consistent(service, WithInstance(mainQueue), TRUE)
  BY WithInstanceKeeps
<1>2. Record' = TRUE
  BY DEF Record
<1> QED
  BY <1>1, <1>2, SendCommand

\* The service that wants a tunnel exists, and so will the service every
\* command in the queue is for.
Instances ==
  /\ Consistent(service, mainQueue, Record)
  /\ tunnelRequested => service

LEMMA DeliveryKeepsInstances ==
  ASSUME TypeOK, Instances, OnCreate \/ OnStartCommand \/ OnStartShutdown \/ OnServiceDestroy
  PROVE  mainQueue' \in Seq(Message) /\ Instances'
<1>1. /\ mainQueue \in Seq(Message) /\ mainQueue # <<>>
      /\ service \in BOOLEAN /\ started \in BOOLEAN /\ bound \in BOOLEAN
      /\ Record \in BOOLEAN /\ Consistent(service, mainQueue, Record)
  BY DEF TypeOK, Instances, Record, OnCreate, OnStartCommand, OnStartShutdown, OnServiceDestroy,
         Deliver
<1>2. CASE OnCreate
  <2>1. Head(mainQueue) = "create" /\ mainQueue' = Tail(mainQueue) /\ service' = TRUE
        /\ Record' = Record
    BY <1>2 DEF OnCreate, Deliver, Record
  <2>2. TRUE <=> (Head(mainQueue) = "create" \/ (Head(mainQueue) # "stop" /\ service))
    BY <2>1
  <2>3. Tail(mainQueue) \in Seq(Message) /\ Consistent(TRUE, Tail(mainQueue), Record)
    BY <1>1, <2>2, TakeHead
  <2> QED
    BY <2>1, <2>3 DEF Instances
<1>3. CASE OnStartCommand \/ OnStartShutdown
  <2>1. Head(mainQueue) \in StartCommand /\ Head(mainQueue) \notin {"create", "stop"}
        /\ service' = service
    BY <1>3 DEF OnStartCommand, OnStartShutdown, Deliver, StartCommand
  <2>2. service <=> (Head(mainQueue) = "create" \/ (Head(mainQueue) # "stop" /\ service))
    BY <2>1
  <2>3. Tail(mainQueue) \in Seq(Message) /\ Consistent(service, Tail(mainQueue), Record)
        /\ service
    BY <1>1, <2>1, <2>2, TakeHead
  <2>4. CASE OnStartCommand
    <3>1. mainQueue' = Tail(mainQueue) /\ Record' = Record
      BY <2>4 DEF OnStartCommand, Record
    <3> QED
      BY <2>1, <2>3, <3>1 DEF Instances
  <2>5. CASE OnStartShutdown
    <3>1. ~tunnelRequested' /\ UNCHANGED bound
      BY <2>5 DEF OnStartShutdown
    <3>2. \/ mainQueue' = Tail(mainQueue) /\ UNCHANGED started
          \/ StopStarted(Tail(mainQueue))
      BY <2>5 DEF OnStartShutdown
    <3>3. CASE mainQueue' = Tail(mainQueue) /\ UNCHANGED started
      <4>1. Record' = Record
        BY <3>1, <3>3 DEF Record
      <4> QED
        BY <2>1, <2>3, <3>1, <3>3, <4>1 DEF Instances
    <3>4. CASE StopStarted(Tail(mainQueue))
      <4>1. mainQueue' \in Seq(Message) /\ Consistent(service, mainQueue', Record')
        BY <1>1, <2>3, <3>1, <3>4, StopStartedKeeps
      <4> QED
        BY <2>1, <3>1, <4>1 DEF Instances
    <3> QED
      BY <3>2, <3>3, <3>4
  <2> QED
    BY <1>3, <2>4, <2>5
<1>4. CASE OnServiceDestroy
  <2>1. Head(mainQueue) = "stop" /\ mainQueue' = Tail(mainQueue) /\ service' = FALSE
        /\ tunnelRequested' = FALSE /\ Record' = Record
    BY <1>4 DEF OnServiceDestroy, Deliver, Record
  <2>2. FALSE <=> (Head(mainQueue) = "create" \/ (Head(mainQueue) # "stop" /\ service))
    BY <2>1
  <2>3. Tail(mainQueue) \in Seq(Message) /\ Consistent(FALSE, Tail(mainQueue), Record)
    BY <1>1, <2>2, TakeHead
  <2> QED
    BY <2>1, <2>3 DEF Instances
<1> QED
  BY <1>2, <1>3, <1>4

\* What the activity manager does to the queue, for whatever reason.
Posts ==
  /\ service' = service
  /\ tunnelRequested' => tunnelRequested
  /\ \/ \E command \in StartCommand :
          mainQueue' = Append(WithInstance(mainQueue), command) /\ started' = TRUE
     \/ mainQueue' = WithInstance(mainQueue) /\ bound' = TRUE
     \/ StopStarted(mainQueue) /\ bound' = bound
     \/ /\ bound /\ bound' = FALSE /\ started' = started
        /\ mainQueue' = IF started THEN mainQueue ELSE Append(mainQueue, "stop")
     \/ mainQueue' = mainQueue /\ started' = started /\ bound' = bound

LEMMA PostsKeepInstances ==
  ASSUME TypeOK, Instances, Posts
  PROVE  mainQueue' \in Seq(Message) /\ Instances'
<1>1. /\ mainQueue \in Seq(Message)
      /\ service \in BOOLEAN /\ started \in BOOLEAN /\ bound \in BOOLEAN
      /\ Record \in BOOLEAN /\ Consistent(service, mainQueue, Record)
      /\ tunnelRequested => service
  BY DEF TypeOK, Instances, Record
<1>0. service' = service
  BY DEF Posts
<1>2. SUFFICES mainQueue' \in Seq(Message) /\ Consistent(service', mainQueue', Record')
  BY <1>1 DEF Instances, Posts
<1>3. CASE \E command \in StartCommand :
             mainQueue' = Append(WithInstance(mainQueue), command) /\ started' = TRUE
  BY <1>0, <1>1, <1>3, StartKeeps
<1>4. CASE mainQueue' = WithInstance(mainQueue) /\ bound' = TRUE
  <2>1. Record' = TRUE
    BY <1>4 DEF Record
  <2> QED
    BY <1>0, <1>1, <1>4, <2>1, WithInstanceKeeps
<1>5. CASE StopStarted(mainQueue) /\ bound' = bound
  <2>1. mainQueue' \in Seq(Message) /\ Consistent(service, mainQueue', Record')
    BY <1>0, <1>1, <1>5, StopStartedKeeps
  <2> QED
    BY <1>0, <2>1
<1>6. CASE /\ bound /\ bound' = FALSE /\ started' = started
           /\ mainQueue' = IF started THEN mainQueue ELSE Append(mainQueue, "stop")
  <2>1. CASE started
    <3>1. mainQueue' = mainQueue /\ Record' = Record
      BY <1>6, <2>1 DEF Record
    <3> QED
      BY <1>0, <1>1, <3>1
  <2>2. CASE ~started
    <3>1. mainQueue' = Append(mainQueue, "stop") /\ Record' = FALSE
      BY <1>0, <1>1, <1>6, <2>2 DEF Record
    <3> QED
      BY <1>0, <1>1, <3>1, SendStop
  <2> QED
    BY <2>1, <2>2
<1>7. CASE mainQueue' = mainQueue /\ started' = started /\ bound' = bound
  <2>1. Record' = Record
    BY <1>7 DEF Record
  <2> QED
    BY <1>0, <1>1, <1>7, <2>1
<1> QED
  BY <1>3, <1>4, <1>5, <1>6, <1>7 DEF Posts

LEMMA InstancesStep ==
  ASSUME TypeOK, Instances, [Next]_vars
  PROVE  mainQueue' \in Seq(Message) /\ Instances'
<1> USE DEF systemVars, serviceVars, others, Posts
<1>1. CASE OnCreate \/ OnStartCommand \/ OnStartShutdown \/ OnServiceDestroy
  BY <1>1, DeliveryKeepsInstances
<1>2. CASE OnServiceDestroyEnds \/ ReconnectTunnel \/ StopSelf
  <2>1. Posts
    BY <1>2 DEF OnServiceDestroyEnds, ReconnectTunnel, StopSelf
  <2> QED
    BY <2>1, PostsKeepInstances
<1>3. CASE System
  <2>1. Posts
    BY <1>3 DEF System, Unbind, RevokeEnds
  <2> QED
    BY <2>1, PostsKeepInstances
<1>4. CASE Revoke
  <2>1. bound \in BOOLEAN /\ tunnelRequested \in BOOLEAN
    BY DEF TypeOK
  <2>2. Posts
    BY <1>4, <2>1 DEF Revoke, OnRevoke
  <2> QED
    BY <2>2, PostsKeepInstances
<1>5. CASE Environment /\ ~Revoke
  <2>1. {"keep_alive", "shutdown"} \subseteq StartCommand
    BY DEF StartCommand
  <2>2. Posts
    BY <1>5, <2>1
       DEF Environment, ScheduleTunnelReconnect, SystemStopsService, LaunchActivity,
           OnActivityDestroy, Consent, Refuse, EnableTunnel, RestartTunnel, ShutdownApp,
           SendServicesCommand, StartService
  <2> QED
    BY <2>2, PostsKeepInstances
<1>6. CASE Worker \/ ProcessExits \/ Finalize \/ \E c \in Callers : Enqueue(c)
  <2>1. Manager!ServiceCommand \in StartCommand
    BY DEF Manager!ServiceCommand, StartCommand
  <2>2. Posts
    BY <1>6, <2>1
       DEF Worker, Establish, TellService, SendServicesCommand, StartService, Done, SetupFails,
           SetupSucceeds, WorkerAlone, ProcessExits, Finalize, Enqueue
  <2> QED
    BY <2>2, PostsKeepInstances
<1>7. CASE UNCHANGED vars
  <2>1. Posts
    BY <1>7 DEF vars
  <2> QED
    BY <2>1, PostsKeepInstances
<1> QED
  BY <1>1, <1>2, <1>3, <1>4, <1>5, <1>6, <1>7 DEF Next, MainThread

-----------------------------------------------------------------------------
(* Types. *)

LEMMA TypesHoldAtFirst == Init /\ Sound => TypeOK
<1> SUFFICES ASSUME Init, Sound PROVE TypeOK
  OBVIOUS
<1>1. mainQueue \in Seq(Message)
  <2>1. {"create", "keep_alive"} \subseteq Message
    BY DEF Message, StartCommand
  <2>2. <<>> \in Seq(Message) /\ <<"create", "keep_alive">> \in Seq(Message)
    BY <2>1
  <2> QED
    BY <2>2 DEF Init
<1>2. at \in [Callers -> Activities] /\ events \in 0..MaxEvents
  BY MaxEventsAssumption DEF Init, Activities
<1> QED
  BY <1>1, <1>2 DEF Init, Sound, TypeOK

\* The worker and the queue have their types by the lemmas above.
LEMMA TypesStep ==
  ASSUME TypeOK, Sound, Sound', mainQueue' \in Seq(Message), [Next]_vars
  PROVE  TypeOK'
<1> USE DEF systemVars, serviceVars, activityVars, history, others, Event, StopStarted, OnDestroy,
            Enter
<1>1. /\ Manager!TypeOK' /\ at \in [Callers -> Activities] /\ events \in 0..MaxEvents
      /\ MaxEvents \in Nat
      /\ permission \in BOOLEAN /\ started \in BOOLEAN /\ bound \in BOOLEAN
      /\ service \in BOOLEAN /\ tunnelRequested \in BOOLEAN /\ gracefulShutdown \in BOOLEAN
      /\ timers \subseteq {"reconnect", "stopSelf"} /\ activity \in BOOLEAN
      /\ prompt \in StartCommand \cup {None} /\ killed \in BOOLEAN /\ orphaned \in BOOLEAN
      /\ failed \in Manager!Command \cup {None}
  BY MaxEventsAssumption DEF Sound, TypeOK
<1>2. /\ {"main", "ui", "binder"} \subseteq Callers
      /\ {"idle", "leaving", "revoking", "closing"} \subseteq Activities
      /\ {"keep_alive", "shutdown"} \subseteq StartCommand
      /\ Manager!ServiceCommand \in StartCommand
  BY DEF Callers, Activities, StartCommand, Manager!ServiceCommand
<1> USE DEF Next, MainThread, OnCreate, OnStartCommand, OnStartShutdown, OnServiceDestroy,
            OnServiceDestroyEnds, ReconnectTunnel, StopSelf, System, Unbind, RevokeEnds,
            Environment, ScheduleTunnelReconnect, Revoke, OnRevoke, SystemStopsService,
            LaunchActivity, OnActivityDestroy, Consent, Refuse, EnableTunnel, RestartTunnel,
            ShutdownApp, SendServicesCommand, StartService, Worker, Done, Establish, SetupFails,
            SetupSucceeds, TellService, WorkerAlone, ProcessExits, Finalize, Enqueue, vars
<1>3. at' \in [Callers -> Activities]
  BY <1>1, <1>2
<1>4. prompt' \in StartCommand \cup {None}
  BY <1>1, <1>2
<1>5. timers' \subseteq {"reconnect", "stopSelf"}
  BY <1>1
<1>6. permission' \in BOOLEAN /\ started' \in BOOLEAN /\ bound' \in BOOLEAN
      /\ activity' \in BOOLEAN /\ killed' \in BOOLEAN
  BY <1>1
<1>7. service' \in BOOLEAN /\ tunnelRequested' \in BOOLEAN /\ gracefulShutdown' \in BOOLEAN
  BY <1>1
<1>8. orphaned' \in BOOLEAN
  <2>1. (orphaned \/ Outstanding({"disconnect"})) \in BOOLEAN
    OBVIOUS
  <2> QED
    BY <1>1, <2>1
<1>9. failed' \in Manager!Command \cup {None}
  <2>1. SetupFails => job \in Manager!Command
    BY DEF Manager!EstablishFails, Manager!BuildFails, Sound, SetupCommand,
           Manager!Command
  <2>2. SetupFails \/ SetupSucceeds \/ UNCHANGED failed
    OBVIOUS
  <2> QED
    BY <1>1, <2>1, <2>2
<1>10. events' \in 0..MaxEvents
  <2>1. events' = events \/ (events < MaxEvents /\ events' = events + 1)
    OBVIOUS
  <2> QED
    BY <1>1, <2>1
<1> HIDE DEF Next, vars
<1> QED
  BY <1>1, <1>3, <1>4, <1>5, <1>6, <1>7, <1>8, <1>9, <1>10 DEF TypeOK

-----------------------------------------------------------------------------
(* The interface, and the commands on their way to the worker. *)

\* Between two commands the worker holds none, and it only runs the case of
\* ctx.Done when the context is cancelled.
JobInv ==
  /\ phase = "select" => job = None
  /\ job = "done" => cancelled

ManagerStep == [Manager!Next]_(Manager!vars)

LEMMA AppStepIsManagerStep ==
  ASSUME Sound, [Next]_vars
  PROVE  ManagerStep
<1>1. cancelled \in BOOLEAN
  BY DEF Sound, Manager!TypeOK
<1>2. CASE UNCHANGED vars
  BY <1>2 DEF vars, managerVars, Manager!vars, ManagerStep
<1> QED
  BY <1>1, <1>2, MainThreadStep, EnvironmentStep, WorkerStep DEF Next, ManagerStep

LEMMA JobStep ==
  ASSUME Sound, JobInv, ManagerStep
  PROVE  JobInv'
<1>1. eventChannel # <<>> => Head(eventChannel) \in Manager!Command
  BY DEF Sound, Manager!TypeOK
<1> QED
  BY <1>1, CommandAssumption
     DEF Sound, JobInv, ManagerStep, SetupCommand, Manager!Next, Manager!vars, Manager!Worker,
         Manager!Call, Manager!Enqueue, Manager!Cancel, Manager!Receive, Manager!Done,
         Manager!Establish, Manager!EstablishFails, Manager!Build, Manager!BuildFails,
         Manager!EndConnections, Manager!CloseStack, Manager!CloseDescriptor,
         Manager!SendServicesCommand, Manager!Shutdown, Manager!ProcessExits, Manager!Finalize,
         Manager!Goto, Manager!AfterSetup, Manager!FirstPhase, Manager!Command

\* A command in the buffer stays there, or is the one the worker takes.
LEMMA BufferStep ==
  ASSUME Sound, JobInv, ManagerStep, NEW i \in DOMAIN eventChannel
  PROVE  \/ \E j \in DOMAIN eventChannel' : eventChannel'[j] = eventChannel[i]
         \/ job' = eventChannel[i]
         \/ eventChannel[i] = "connect"
<1>1. eventChannel \in Seq(Manager!Command) /\ DOMAIN eventChannel = 1..Len(eventChannel)
      /\ Len(eventChannel) \in Nat /\ pending \in [Callers -> Manager!Command \cup {None}]
  BY DEF Sound, Manager!TypeOK
<1>2. CASE UNCHANGED eventChannel
  BY <1>2
<1>3. ASSUME NEW c \in Callers, Manager!Enqueue(c)
      PROVE  \E j \in DOMAIN eventChannel' : eventChannel'[j] = eventChannel[i]
  <2>1. eventChannel' = Append(eventChannel, pending[c]) /\ pending[c] \in Manager!Command
    BY <1>1, <1>3 DEF Manager!Enqueue
  <2>2. i \in DOMAIN eventChannel' /\ eventChannel'[i] = eventChannel[i]
    BY <1>1, <2>1
  <2> QED
    BY <2>2
<1>4. CASE Manager!Receive
  <2>1. eventChannel # <<>> /\ eventChannel' = Tail(eventChannel)
        /\ (Head(eventChannel) # "connect" => job' = Head(eventChannel))
    BY <1>4 DEF Manager!Receive, Manager!FirstPhase
  <2>2. CASE i = 1
    BY <1>1, <2>1, <2>2
  <2>3. CASE i # 1
    <3>1. i - 1 \in DOMAIN Tail(eventChannel) /\ Tail(eventChannel)[i - 1] = eventChannel[i]
      BY <1>1, <2>1, <2>3
    <3> QED
      BY <2>1, <3>1
  <2> QED
    BY <2>2, <2>3
<1> QED
  BY <1>2, <1>3, <1>4
     DEF ManagerStep, Manager!Next, Manager!vars, Manager!Worker, Manager!Call, Manager!Cancel,
         Manager!Done, Manager!Establish, Manager!EstablishFails, Manager!Build,
         Manager!BuildFails, Manager!EndConnections, Manager!CloseStack, Manager!CloseDescriptor,
         Manager!SendServicesCommand, Manager!Shutdown, Manager!ProcessExits, Manager!Finalize

\* So does a command in the hands of a caller, until it is in the buffer.
LEMMA PendingStep ==
  ASSUME Sound, ManagerStep, NEW c \in Callers, pending[c] # None
  PROVE  \/ pending'[c] = pending[c]
         \/ \E j \in DOMAIN eventChannel' : eventChannel'[j] = pending[c]
<1>1. eventChannel \in Seq(Manager!Command) /\ Len(eventChannel) \in Nat
      /\ pending \in [Callers -> Manager!Command \cup {None}]
  BY DEF Sound, Manager!TypeOK
<1>2. CASE UNCHANGED pending
  BY <1>2
<1>3. ASSUME NEW d \in Callers, Manager!Enqueue(d)
      PROVE  \/ pending'[c] = pending[c]
             \/ \E j \in DOMAIN eventChannel' : eventChannel'[j] = pending[c]
  <2>1. CASE c = d
    <3>1. eventChannel' = Append(eventChannel, pending[c]) /\ pending[c] \in Manager!Command
      BY <1>1, <1>3, <2>1 DEF Manager!Enqueue
    <3>2. Len(eventChannel) + 1 \in DOMAIN eventChannel'
          /\ eventChannel'[Len(eventChannel) + 1] = pending[c]
      BY <1>1, <3>1
    <3> QED
      BY <3>2
  <2>2. CASE c # d
    BY <1>1, <1>3, <2>2 DEF Manager!Enqueue
  <2> QED
    BY <2>1, <2>2
<1>4. ASSUME NEW d \in Callers, NEW command \in Manager!Command, Manager!Call(d, command)
      PROVE  pending'[c] = pending[c]
  BY <1>1, <1>4 DEF Manager!Call
<1> QED
  BY <1>2, <1>3, <1>4
     DEF ManagerStep, Manager!Next, Manager!vars, Manager!Worker, Manager!Cancel, Manager!Receive,
         Manager!Done, Manager!Establish, Manager!EstablishFails, Manager!Build,
         Manager!BuildFails, Manager!EndConnections, Manager!CloseStack, Manager!CloseDescriptor,
         Manager!SendServicesCommand, Manager!Shutdown, Manager!ProcessExits, Manager!Finalize

\* The command the worker handles stays until it is at its end.
LEMMA HandledStep ==
  ASSUME Sound, JobInv, ManagerStep, job \in {"disconnect", "system-shutdown"}
  PROVE  job' = job \/ tunnelFD = None \/ cancelled
BY CommandAssumption
   DEF Sound, JobInv, ManagerStep, SetupCommand, Manager!Next, Manager!vars, Manager!Worker,
       Manager!Call, Manager!Enqueue, Manager!Cancel, Manager!Receive, Manager!Done,
       Manager!Establish, Manager!EstablishFails, Manager!Build, Manager!BuildFails,
       Manager!EndConnections, Manager!CloseStack, Manager!CloseDescriptor,
       Manager!SendServicesCommand, Manager!Shutdown, Manager!ProcessExits, Manager!Finalize,
       Manager!Goto, Manager!AfterSetup, Manager!Command

\* A teardown that is on the way to the worker stays so as long as there is a
\* descriptor left to close.
LEMMA TeardownStays ==
  ASSUME Sound, JobInv, ManagerStep, TeardownComing
  PROVE  TeardownComing' \/ tunnelFD = None
<1> DEFINE Teardown == {"disconnect", "system-shutdown"}
<1>0. None \notin Teardown /\ "connect" \notin Teardown
  BY CommandAssumption DEF Manager!Command
<1>1. CASE cancelled
  <2>1. cancelled'
    BY <1>1 DEF ManagerStep, Manager!Next, Manager!vars, Manager!Worker,
       Manager!Call, Manager!Enqueue, Manager!Cancel, Manager!Receive, Manager!Done,
       Manager!Establish, Manager!EstablishFails, Manager!Build, Manager!BuildFails,
       Manager!EndConnections, Manager!CloseStack, Manager!CloseDescriptor,
       Manager!SendServicesCommand, Manager!Shutdown, Manager!ProcessExits, Manager!Finalize
  <2> QED
    BY <2>1 DEF TeardownComing
<1>2. CASE ~cancelled /\ job \in Teardown
  BY <1>2, HandledStep DEF TeardownComing, Outstanding
<1>3. ASSUME NEW c \in Callers, pending[c] \in Teardown
      PROVE  TeardownComing'
  BY <1>0, <1>3, PendingStep DEF TeardownComing, Outstanding
<1>4. ASSUME NEW i \in DOMAIN eventChannel, eventChannel[i] \in Teardown
      PROVE  TeardownComing'
  BY <1>0, <1>4, BufferStep DEF TeardownComing, Outstanding
<1> QED
  BY <1>1, <1>2, <1>3, <1>4 DEF TeardownComing, Outstanding

\* The system is only bound with the user's consent, and an interface without
\* the system's binding is about to go.
Interface ==
  /\ bound => permission
  /\ tunnelFD # None => bound \/ TeardownComing

LEMMA InterfaceStep ==
  ASSUME TypeOK, Sound, JobInv, Interface, [Next]_vars
  PROVE  Interface'
<1> USE DEF systemVars, serviceVars, activityVars, history, others
<1>0. ManagerStep
  BY AppStepIsManagerStep
<1>1. bound' => permission'
  BY DEF Interface, Next, MainThread, OnCreate, OnStartCommand, OnStartShutdown, OnServiceDestroy,
         OnServiceDestroyEnds, ReconnectTunnel, StopSelf, System, Unbind, RevokeEnds, Environment,
         ScheduleTunnelReconnect, Revoke, SystemStopsService, LaunchActivity, OnActivityDestroy,
         Consent, Refuse, EnableTunnel, RestartTunnel, ShutdownApp, SendServicesCommand,
         StartService, Worker, Done, Establish, SetupFails, SetupSucceeds, TellService,
         WorkerAlone, ProcessExits, Finalize, Enqueue, vars
<1>2. CASE Revoke /\ bound
  <2>1. "binder" \in Callers /\ pending'["binder"] = "disconnect"
    BY <1>2 DEF Revoke, OnRevoke, Manager!Call, Sound, Manager!TypeOK, Callers
  <2> QED
    BY <1>1, <2>1 DEF Interface, TeardownComing, Outstanding
<1>3. CASE Unbind
  BY <1>1, <1>3 DEF Interface, Unbind, managerVars
<1>4. CASE Establish
  BY <1>1, <1>4 DEF Interface, Establish
<1>5. CASE ~(Revoke /\ bound) /\ ~Unbind /\ ~Establish
  <2>1. bound' = bound
    BY <1>5
       DEF Next, MainThread, OnCreate, OnStartCommand, OnStartShutdown, OnServiceDestroy,
           OnServiceDestroyEnds, ReconnectTunnel, StopSelf, System, RevokeEnds, Environment,
           ScheduleTunnelReconnect, Revoke, SystemStopsService, LaunchActivity,
           OnActivityDestroy, Consent, Refuse, EnableTunnel, RestartTunnel, ShutdownApp,
           SendServicesCommand, StartService, Worker, Done, SetupFails, SetupSucceeds,
           TellService, WorkerAlone, ProcessExits, Finalize, Enqueue, vars, TypeOK
  <2>2. tunnelFD' \in {tunnelFD, None}
    BY <1>5
       DEF Next, MainThread, OnCreate, OnStartCommand, OnStartShutdown, OnServiceDestroy,
           OnServiceDestroyEnds, ReconnectTunnel, StopSelf, System, RevokeEnds, Environment,
           ScheduleTunnelReconnect, Revoke, OnRevoke, SystemStopsService, LaunchActivity,
           OnActivityDestroy, OnDestroy, Consent, Refuse, EnableTunnel, RestartTunnel,
           ShutdownApp, Worker, Done, SetupFails, SetupSucceeds, TellService, WorkerAlone,
           ProcessExits, Finalize, Enqueue, vars, managerVars, Manager!tunnelVars,
           Manager!Call, Manager!Enqueue, Manager!Receive, Manager!Done, Manager!EstablishFails,
           Manager!Build, Manager!BuildFails, Manager!EndConnections, Manager!CloseStack,
           Manager!CloseDescriptor, Manager!SendServicesCommand, Manager!Shutdown,
           Manager!ProcessExits, Manager!Finalize
  <2> QED
    BY <1>0, <1>1, <2>1, <2>2, TeardownStays DEF Interface
<1> QED
  BY <1>2, <1>3, <1>4, <1>5

-----------------------------------------------------------------------------
(* What the worker will have done when all is quiet. *)

\* A descriptor without a stack is one being set up or closed, or what a failed
\* setup has left.
DescriptorUsed ==
  tunnelFD # None /\ netStack = None => failed # None \/ phase \in {"build", "closeDescriptor"}

LEMMA DescriptorUsedStep ==
  ASSUME Sound, DescriptorUsed, [Next]_vars
  PROVE  DescriptorUsed'
<1> USE CommandAssumption DEF DescriptorUsed
<1>1. CASE SetupFails
  BY <1>1 DEF SetupFails, Manager!EstablishFails, Manager!BuildFails, Sound, SetupCommand,
              Manager!Command
<1>2. CASE SetupSucceeds
  BY <1>2, NoneAssumption DEF SetupSucceeds, Manager!Build, Manager!Goto, Sound
<1>3. CASE Establish
  BY <1>3 DEF Establish, Manager!Establish, Manager!Goto
<1>4. CASE WorkerAlone \/ Done \/ TellService \/ ProcessExits \/ Finalize
           \/ \E c \in Callers : Enqueue(c)
  BY <1>4
     DEF WorkerAlone, Done, TellService, history, ProcessExits, Finalize, Enqueue,
         Manager!tunnelVars, Manager!Receive, Manager!FirstPhase, Manager!Done,
         Manager!EndConnections, Manager!CloseStack, Manager!CloseDescriptor,
         Manager!SendServicesCommand, Manager!Shutdown, Manager!ProcessExits, Manager!Finalize,
         Manager!Enqueue, Manager!Goto
<1>5. CASE MainThread \/ ReconnectTunnel \/ StopSelf \/ System \/ Environment \/ UNCHANGED vars
  <2>1. UNCHANGED <<tunnelFD, netStack, failed, phase>>
    BY <1>5
       DEF MainThread, OnCreate, OnStartCommand, OnStartShutdown, OnServiceDestroy,
           OnServiceDestroyEnds, ReconnectTunnel, StopSelf, System, Unbind, RevokeEnds,
           Environment, ScheduleTunnelReconnect, Revoke, OnRevoke, SystemStopsService,
           LaunchActivity, OnActivityDestroy, OnDestroy, Consent, Refuse, EnableTunnel,
           RestartTunnel, ShutdownApp, vars, managerVars, history, Manager!tunnelVars,
           Manager!Call
  <2> QED
    BY <2>1
<1> QED
  BY <1>1, <1>2, <1>3, <1>4, <1>5 DEF Next, Worker

\* A "disconnect" is only ever on its way from an onRevoke that still waits for
\* it, or whose service has been destroyed meanwhile.
OnlyRevoked ==
  \A c \in Callers : pending[c] = "disconnect" =>
     c = "binder" /\ (at["binder"] = "revoking" \/ orphaned)

LEMMA OnlyRevokedStep ==
  ASSUME TypeOK, Sound, OnlyRevoked, [Next]_vars
  PROVE  OnlyRevoked'
<1> USE CommandAssumption DEF OnlyRevoked
<1>1. /\ pending \in [Callers -> Manager!Command \cup {None}] /\ at \in [Callers -> Activities]
      /\ {"main", "ui", "binder"} \subseteq Callers /\ "disconnect" \in Manager!Command
  BY DEF Sound, Manager!TypeOK, TypeOK, Callers, Manager!Command
<1>2. CASE OnServiceDestroy
  <2>1. ASSUME NEW c \in Callers, pending'[c] = "disconnect"
        PROVE  pending[c] = "disconnect"
    BY <1>1, <1>2, <2>1 DEF OnServiceDestroy, managerVars, Manager!Call
  <2>2. (\E c \in Callers : pending[c] = "disconnect") => orphaned'
    BY <1>2 DEF OnServiceDestroy, Outstanding
  <2> QED
    BY <2>1, <2>2
<1>3. CASE Revoke
  BY <1>1, <1>3 DEF Revoke, OnRevoke, Enter, Free, history, managerVars, Manager!Call
<1>4. CASE RevokeEnds
  BY <1>1, <1>4 DEF RevokeEnds, managerVars, history
<1>5. CASE OnServiceDestroyEnds \/ OnActivityDestroy \/ ShutdownApp
  BY <1>1, <1>5 DEF OnServiceDestroyEnds, OnActivityDestroy, ShutdownApp, OnDestroy, Enter,
                    history, managerVars
<1>6. CASE OnStartCommand \/ ReconnectTunnel \/ RestartTunnel
  <2>1. UNCHANGED <<at, orphaned>>
    BY <1>6 DEF OnStartCommand, ReconnectTunnel, RestartTunnel, history
  <2>2. ASSUME NEW c \in Callers, pending'[c] = "disconnect"
        PROVE  pending[c] = "disconnect"
    BY <1>1, <1>6, <2>2 DEF OnStartCommand, ReconnectTunnel, RestartTunnel, managerVars,
                            Manager!Call
  <2> QED
    BY <2>1, <2>2
<1>7. ASSUME NEW c \in Callers, Enqueue(c)
      PROVE  OnlyRevoked'
  BY <1>1, <1>7 DEF Enqueue, others, Manager!Enqueue
<1>8. CASE OnCreate \/ OnStartShutdown \/ StopSelf \/ Unbind \/ Worker \/ ProcessExits \/ Finalize
           \/ (Environment /\ ~Revoke /\ ~OnActivityDestroy /\ ~ShutdownApp /\ ~RestartTunnel)
           \/ UNCHANGED vars
  <2>1. UNCHANGED <<pending, at, orphaned>>
    BY <1>8
       DEF OnCreate, OnStartShutdown, StopSelf, Unbind, Environment, ScheduleTunnelReconnect,
           SystemStopsService, LaunchActivity, Consent, Refuse, EnableTunnel, Worker, Done,
           Establish, SetupFails, SetupSucceeds, TellService, WorkerAlone, ProcessExits, Finalize,
           vars, managerVars, history, others, Manager!Receive, Manager!Done, Manager!Establish,
           Manager!EstablishFails, Manager!Build, Manager!BuildFails, Manager!EndConnections,
           Manager!CloseStack, Manager!CloseDescriptor, Manager!SendServicesCommand,
           Manager!Shutdown, Manager!ProcessExits, Manager!Finalize
  <2> QED
    BY <2>1
<1> QED
  BY <1>2, <1>3, <1>4, <1>5, <1>6, <1>7, <1>8 DEF Next, MainThread, System, Environment

\* The last of the commands given to the worker ends with a tunnel or in the end
\* of the process: it is on its way, or the worker handles it, or has handled it.
Rises == SetupCommand \cup {"system-shutdown"}
Raised ==
  \/ netStack # None \/ failed # None \/ job = "system-shutdown"
  \/ job \in SetupCommand /\ phase # "sendCommand"
InTheEnd ==
  \/ phase = "exited"
  \/ \E c \in Callers : pending[c] \in Rises
  \/ \E i \in 1..Len(eventChannel) :
       /\ eventChannel[i] \in Rises
       /\ \A j \in (i + 1)..Len(eventChannel) : eventChannel[j] # "disconnect"
  \/ /\ job # "disconnect" /\ Raised
     /\ \A i \in 1..Len(eventChannel) : eventChannel[i] # "disconnect"

\* A revocation or a stop is not over yet.
Stopping == at["binder"] = "revoking" \/ "stopSelf" \in timers \/ ~started \/ mainQueue # <<>>

\* A service that wants a tunnel will have one, or is being stopped.
Answered == tunnelRequested /\ ~orphaned /\ ~cancelled => InTheEnd \/ Stopping

\* Taking a command from the buffer.
LEMMA ReceiveKeeps ==
  ASSUME Sound, JobInv, InTheEnd, Manager!Receive, UNCHANGED failed
  PROVE  InTheEnd'
<1>1. /\ eventChannel \in Seq(Manager!Command) /\ Len(eventChannel) \in Nat \ {0}
      /\ eventChannel' = Tail(eventChannel) /\ Head(eventChannel) = eventChannel[1]
      /\ Len(eventChannel') = Len(eventChannel) - 1
      /\ \A i \in 1..Len(eventChannel') :
           eventChannel'[i] = eventChannel[i + 1] /\ i + 1 \in 2..Len(eventChannel)
      /\ UNCHANGED <<pending, netStack, failed>>
      /\ job = None /\ phase = "select"
  BY DEF Sound, Manager!TypeOK, Manager!Receive, Manager!tunnelVars, JobInv
<1>2. ASSUME eventChannel[1] # "disconnect", eventChannel[1] \in Rises \/ Raised,
             \A i \in 2..Len(eventChannel) : eventChannel[i] # "disconnect"
      PROVE  InTheEnd'
  <2>1. \A i \in 1..Len(eventChannel') : eventChannel'[i] # "disconnect"
    BY <1>1, <1>2
  <2>2. eventChannel[1] \in Manager!Command
    BY <1>1
  <2>3. job' # "disconnect" /\ Raised'
    BY <1>1, <1>2, <2>2, CommandAssumption
       DEF Manager!Receive, Manager!FirstPhase, Manager!IsActive, Raised, Rises, SetupCommand,
           Manager!Command
  <2> QED
    BY <2>1, <2>3 DEF InTheEnd
<1>3. ASSUME NEW i \in 1..Len(eventChannel), eventChannel[i] \in Rises,
             \A j \in (i + 1)..Len(eventChannel) : eventChannel[j] # "disconnect"
      PROVE  InTheEnd'
  <2>1. CASE i = 1
    <3>1. eventChannel[1] # "disconnect"
      BY <1>3, <2>1 DEF Rises, SetupCommand
    <3> QED
      BY <1>2, <1>3, <2>1, <3>1
  <2>2. CASE i # 1
    <3>1. i - 1 \in 1..Len(eventChannel') /\ eventChannel'[i - 1] \in Rises
      BY <1>1, <1>3, <2>2
    <3>2. \A j \in (i - 1 + 1)..Len(eventChannel') : eventChannel'[j] # "disconnect"
      BY <1>1, <1>3, <2>2
    <3> QED
      BY <3>1, <3>2 DEF InTheEnd, Rises
  <2> QED
    BY <2>1, <2>2
<1>4. CASE \E c \in Callers : pending[c] \in Rises
  BY <1>1, <1>4 DEF InTheEnd, Rises
<1>5. CASE Raised /\ \A i \in 1..Len(eventChannel) : eventChannel[i] # "disconnect"
  BY <1>1, <1>2, <1>5
<1> QED
  BY <1>1, <1>3, <1>4, <1>5 DEF InTheEnd

\* The other steps of the worker.
LEMMA WorkerKeeps ==
  ASSUME Sound, JobInv, InTheEnd, ~cancelled, Worker \/ ProcessExits \/ Finalize
  PROVE  InTheEnd'
<1> USE CommandAssumption DEF InTheEnd, Raised, Manager!Goto
<1>1. CASE Manager!Receive /\ UNCHANGED failed
  BY <1>1, ReceiveKeeps
<1>2. CASE Done
  BY <1>2 DEF Done, Manager!Done
<1>3. CASE Establish
  BY <1>3 DEF Establish, history, Manager!Establish, Sound
<1>4. CASE SetupFails
  <2>1. job \in SetupCommand /\ failed' # None /\ job' \in {job, None}
        /\ UNCHANGED <<pending, eventChannel, netStack>>
    BY <1>4 DEF SetupFails, Manager!EstablishFails, Manager!BuildFails, Sound, SetupCommand,
                Manager!Command, Manager!tunnelVars
  <2> QED
    BY <1>4, <2>1 DEF SetupFails, SetupCommand, Manager!Command, Manager!EstablishFails,
                      Manager!BuildFails
<1>5. CASE SetupSucceeds
  <2>1. job \in SetupCommand /\ netStack' # None /\ job' \in {job, None}
        /\ UNCHANGED <<pending, eventChannel>> /\ phase = "build"
    BY <1>5, NoneAssumption DEF SetupSucceeds, Manager!Build, Sound
  <2> QED
    BY <2>1 DEF SetupCommand, Manager!Command
<1>6. CASE TellService
  BY <1>6 DEF TellService, history, Manager!SendServicesCommand, Sound, SetupCommand,
              Manager!tunnelVars, JobInv, Manager!Command
<1>7. CASE (Manager!EndConnections \/ Manager!CloseStack \/ Manager!CloseDescriptor)
           /\ UNCHANGED failed
  BY <1>7 DEF Manager!EndConnections, Manager!CloseStack, Manager!CloseDescriptor, Sound,
              SetupCommand, JobInv, Manager!tunnelVars
<1>8. CASE Manager!Shutdown \/ ProcessExits
  BY <1>8 DEF Manager!Shutdown, ProcessExits, Manager!ProcessExits
<1>9. CASE Finalize
  BY <1>9 DEF Finalize, Manager!Finalize
<1> QED
  BY <1>1, <1>2, <1>3, <1>4, <1>5, <1>6, <1>7, <1>8, <1>9 DEF Worker, WorkerAlone

\* A command reaches the buffer: a tunnel that is not wanted any more by then is
\* that of a service in the middle of onRevoke.
LEMMA EnqueueKeeps ==
  ASSUME Sound, OnlyRevoked, ~orphaned, NEW c \in Callers, Enqueue(c)
  PROVE  InTheEnd' \/ at'["binder"] = "revoking"
<1>1. /\ eventChannel \in Seq(Manager!Command) /\ Len(eventChannel) \in Nat
      /\ pending[c] \in Manager!Command /\ eventChannel' = Append(eventChannel, pending[c])
      /\ at' = at
  BY DEF Sound, Manager!TypeOK, Enqueue, Manager!Enqueue, others
<1>2. CASE pending[c] = "disconnect"
  BY <1>1, <1>2 DEF OnlyRevoked
<1>3. CASE pending[c] # "disconnect"
  <2>1. pending[c] \in Rises
    BY <1>1, <1>3 DEF Rises, SetupCommand, Manager!Command
  <2>2. /\ Len(eventChannel') \in 1..Len(eventChannel') /\ eventChannel'[Len(eventChannel')] \in Rises
        /\ \A j \in (Len(eventChannel') + 1)..Len(eventChannel') : eventChannel'[j] # "disconnect"
    BY <1>1, <2>1
  <2> QED
    BY <2>2 DEF InTheEnd, Rises
<1> QED
  BY <1>2, <1>3

\* A call of the main thread or of the UI.
LEMMA CallKeeps ==
  ASSUME Sound, NEW c \in Callers, NEW command \in Rises, Manager!Call(c, command)
  PROVE  InTheEnd'
BY DEF Sound, Manager!TypeOK, Manager!Call, InTheEnd, Rises

LEMMA AnsweredStep ==
  ASSUME TypeOK, Sound, JobInv, OnlyRevoked, Answered, [Next]_vars
  PROVE  Answered'
<1> SUFFICES ASSUME tunnelRequested', ~orphaned', ~cancelled'
             PROVE  InTheEnd' \/ Stopping'
  BY DEF Answered
<1> USE DEF systemVars, serviceVars, activityVars, history, others
<1>1. {"main", "ui"} \subseteq Callers /\ {"connect", "reconnect"} \subseteq Rises
  BY DEF Callers, Rises, SetupCommand
<1>2. CASE OnStartCommand
  BY <1>1, <1>2, CallKeeps DEF OnStartCommand
<1>3. ASSUME ~OnStartCommand
      PROVE  tunnelRequested /\ ~orphaned /\ ~cancelled /\ (InTheEnd \/ Stopping)
  <2>0. tunnelRequested \in BOOLEAN /\ orphaned \in BOOLEAN
    BY DEF TypeOK
  <2>1. tunnelRequested /\ ~orphaned
    BY <1>3, <2>0
       DEF Next, MainThread, OnCreate, OnStartShutdown, OnServiceDestroy, OnServiceDestroyEnds,
           ReconnectTunnel, StopSelf, System, Unbind, RevokeEnds, Environment,
           ScheduleTunnelReconnect, Revoke, OnRevoke, SystemStopsService, LaunchActivity,
           OnActivityDestroy, Consent, Refuse, EnableTunnel, RestartTunnel, ShutdownApp, Worker,
           Done, Establish, SetupFails, SetupSucceeds, TellService, WorkerAlone, ProcessExits,
           Finalize, Enqueue, vars
  <2>2. ~cancelled
    <3>1. ManagerStep
      BY AppStepIsManagerStep
    <3> QED
      BY <3>1
         DEF ManagerStep, Manager!Next, Manager!vars, Manager!Worker, Manager!Call,
             Manager!Enqueue, Manager!Cancel, Manager!Receive, Manager!Done, Manager!Establish,
             Manager!EstablishFails, Manager!Build, Manager!BuildFails, Manager!EndConnections,
             Manager!CloseStack, Manager!CloseDescriptor, Manager!SendServicesCommand,
             Manager!Shutdown, Manager!ProcessExits, Manager!Finalize
  <2> QED
    BY <2>1, <2>2 DEF Answered
<1>4. CASE (ReconnectTunnel /\ ~UNCHANGED managerVars) \/ RestartTunnel
  BY <1>1, <1>4, CallKeeps DEF ReconnectTunnel, RestartTunnel
<1>5. ASSUME ~OnStartCommand, Stopping
      PROVE  InTheEnd' \/ Stopping'
  <2>1. CASE \/ OnCreate \/ OnStartShutdown \/ OnServiceDestroy
    BY <2>1 DEF OnCreate, OnStartShutdown, OnServiceDestroy
  <2>2. CASE StopSelf
    <3>1. Queued("stop") => mainQueue # <<>>
      BY DEF Queued
    <3> QED
      BY <2>2, <3>1 DEF StopSelf, StopStarted, Stopping
  <2>3. CASE RevokeEnds
    BY <2>3 DEF RevokeEnds, Stopping
  <2>4. ASSUME ~OnCreate, ~OnStartShutdown, ~OnServiceDestroy, ~StopSelf, ~RevokeEnds
        PROVE  Stopping'
    <3>1. /\ mainQueue \in Seq(Message) /\ at \in [Callers -> Activities] /\ "binder" \in Callers
          /\ started \in BOOLEAN
      BY DEF TypeOK, Callers
    <3>2. /\ \A m \in Message : Append(mainQueue, m) # <<>>
          /\ WithInstance(mainQueue) \in {mainQueue, Append(mainQueue, "create")}
          /\ \A m \in Message : Append(WithInstance(mainQueue), m) # <<>>
          /\ {"create", "stop", "keep_alive", "shutdown"} \subseteq Message
          /\ Manager!ServiceCommand \in Message
      BY <3>1 DEF WithInstance, Message, StartCommand, Manager!ServiceCommand
    <3>3. mainQueue' # <<>> \/ (mainQueue' = mainQueue /\ (started' => started))
      BY <1>5, <2>4, <3>1, <3>2
         DEF Next, MainThread, OnServiceDestroyEnds, ReconnectTunnel, System, Unbind,
             Environment, ScheduleTunnelReconnect, Revoke, SystemStopsService, LaunchActivity,
             OnActivityDestroy, Consent, Refuse, EnableTunnel, RestartTunnel, ShutdownApp, Worker,
             Done, Establish, SetupFails, SetupSucceeds, TellService, WorkerAlone, ProcessExits,
             Finalize, Enqueue, vars, SendServicesCommand, StartService, StopStarted
    <3>4. "stopSelf" \in timers => "stopSelf" \in timers'
      BY <1>5, <2>4
         DEF Next, MainThread, OnServiceDestroyEnds, ReconnectTunnel, System, Unbind,
             Environment, ScheduleTunnelReconnect, Revoke, OnRevoke, SystemStopsService,
             LaunchActivity, OnActivityDestroy, Consent, Refuse, EnableTunnel, RestartTunnel,
             ShutdownApp, Worker, Done, Establish, SetupFails, SetupSucceeds, TellService,
             WorkerAlone, ProcessExits, Finalize, Enqueue, vars
    <3>5. at["binder"] = "revoking" => at'["binder"] = "revoking"
      BY <1>5, <2>4, <3>1
         DEF Next, MainThread, OnServiceDestroyEnds, ReconnectTunnel, System, Unbind,
             Environment, ScheduleTunnelReconnect, Revoke, OnRevoke, Enter, SystemStopsService,
             LaunchActivity, OnActivityDestroy, OnDestroy, Consent, Refuse, EnableTunnel,
             RestartTunnel, ShutdownApp, Worker, Done, Establish, SetupFails, SetupSucceeds,
             TellService, WorkerAlone, ProcessExits, Finalize, Enqueue, vars
    <3> QED
      BY <1>5, <3>3, <3>4, <3>5 DEF Stopping
  <2> QED
    BY <2>1, <2>2, <2>3, <2>4
<1>6. ASSUME ~OnStartCommand, InTheEnd
      PROVE  InTheEnd' \/ Stopping'
  <2>1. CASE Worker \/ ProcessExits \/ Finalize
    BY <1>3, <1>6, <2>1, WorkerKeeps
  <2>2. ASSUME NEW c \in Callers, Enqueue(c)
        PROVE  InTheEnd' \/ Stopping'
    BY <1>3, <1>6, <2>2, EnqueueKeeps DEF Stopping
  <2>3. CASE (ReconnectTunnel /\ ~UNCHANGED managerVars) \/ RestartTunnel
    BY <1>4, <2>3
  <2>4. CASE OnServiceDestroy \/ (Revoke /\ bound) \/ OnServiceDestroyEnds \/ OnActivityDestroy
             \/ ShutdownApp
    <3>1. UNCHANGED managerVars
      BY <2>4 DEF OnServiceDestroy, Revoke, OnRevoke, OnServiceDestroyEnds, OnActivityDestroy,
                  ShutdownApp, OnDestroy
    <3>2. UNCHANGED failed
      BY <2>4 DEF OnServiceDestroy, Revoke, OnServiceDestroyEnds, OnActivityDestroy, ShutdownApp
    <3> QED
      BY <1>6, <3>1, <3>2 DEF InTheEnd, Raised, managerVars
  <2>5. ASSUME UNCHANGED <<managerVars, failed>>
        PROVE  InTheEnd'
    BY <1>6, <2>5 DEF InTheEnd, Raised, managerVars
  <2>6. ASSUME MainThread \/ ReconnectTunnel \/ StopSelf \/ System \/ Environment
                 \/ UNCHANGED vars,
               ~OnServiceDestroy, ~(Revoke /\ bound), ~OnServiceDestroyEnds, ~OnActivityDestroy,
               ~ShutdownApp, ~RestartTunnel, ~(ReconnectTunnel /\ ~UNCHANGED managerVars)
        PROVE  UNCHANGED <<managerVars, failed>>
    BY <1>6, <2>6
       DEF MainThread, OnCreate, OnStartShutdown, ReconnectTunnel, StopSelf, System, Unbind,
           RevokeEnds, Environment, ScheduleTunnelReconnect, Revoke, SystemStopsService,
           LaunchActivity, Consent, Refuse, EnableTunnel, vars
  <2> QED
    BY <2>1, <2>2, <2>3, <2>4, <2>5, <2>6 DEF Next
<1> QED
  BY <1>2, <1>3, <1>5, <1>6

-----------------------------------------------------------------------------
(* The theorems. *)

AppInv ==
  /\ TypeOK
  /\ JobInv
  /\ Instances
  /\ Interface
  /\ DescriptorUsed
  /\ OnlyRevoked
  /\ Answered

LEMMA AppInvHoldsAtFirst == Init /\ Sound => AppInv
<1> SUFFICES ASSUME Init, Sound PROVE AppInv
  OBVIOUS
<1>1. TypeOK
  BY TypesHoldAtFirst
<1>2. JobInv /\ Interface /\ DescriptorUsed
  BY CommandAssumption DEF Init, Manager!Init, JobInv, Interface, DescriptorUsed
<1>3. Instances
  <2>1. CASE started = FALSE /\ mainQueue = <<>>
    BY <2>1 DEF Init, Instances, Consistent, Running, Record
  <2>2. CASE started = TRUE /\ mainQueue = <<"create", "keep_alive">>
    <3>1. Len(mainQueue) = 2 /\ mainQueue[1] = "create" /\ mainQueue[2] = "keep_alive"
      BY <2>2
    <3>2. Running(service, mainQueue, 2)
      <4>1. 1 \in 1..(2 - 1) /\ \A k \in (1 + 1)..(2 - 1) : mainQueue[k] # "stop"
        OBVIOUS
      <4> QED
        BY <3>1, <4>1 DEF Running
    <3>3. Running(service, mainQueue, 3)
      <4>1. 1 \in 1..(3 - 1) /\ \A k \in (1 + 1)..(3 - 1) : mainQueue[k] # "stop"
        BY <3>1
      <4> QED
        BY <3>1, <4>1 DEF Running
    <3>4. Consistent(service, mainQueue, Record)
      BY <2>2, <3>1, <3>2, <3>3 DEF Consistent, Record, StartCommand
    <3> QED
      BY <3>4 DEF Init, Instances
  <2> QED
    BY <2>1, <2>2 DEF Init
<1>4. OnlyRevoked /\ Answered
  BY CommandAssumption DEF Init, Manager!Init, OnlyRevoked, Answered, Manager!Command
<1> QED
  BY <1>1, <1>2, <1>3, <1>4 DEF AppInv

LEMMA AppInvStep ==
  ASSUME AppInv, Sound, Sound', [Next]_vars
  PROVE  AppInv'
<1>1. TypeOK /\ JobInv /\ Instances /\ Interface /\ DescriptorUsed /\ OnlyRevoked /\ Answered
  BY DEF AppInv
<1>2. ManagerStep
  BY AppStepIsManagerStep
<1>3. mainQueue' \in Seq(Message) /\ Instances'
  BY <1>1, InstancesStep
<1>4. TypeOK'
  BY <1>1, <1>3, TypesStep
<1>5. JobInv'
  BY <1>1, <1>2, JobStep
<1>6. Interface'
  BY <1>1, InterfaceStep
<1>7. DescriptorUsed'
  BY <1>1, DescriptorUsedStep
<1>8. OnlyRevoked'
  BY <1>1, OnlyRevokedStep
<1>9. Answered'
  BY <1>1, AnsweredStep
<1> QED
  BY <1>3, <1>4, <1>5, <1>6, <1>7, <1>8, <1>9 DEF AppInv

\* The invariant of the app holds whatever the user, the system and the threads
\* of the process do: no bound on the events, the buffer or the descriptors.
THEOREM AppInvariant == Spec => [](AppInv /\ Sound)
<1>1. Init /\ Sound => AppInv
  BY AppInvHoldsAtFirst
<1>2. AppInv /\ Sound /\ Sound' /\ [Next]_vars => AppInv'
  BY AppInvStep
<1>3. Theorems!IInv => Sound
  BY WorkerIsSound
<1> QED
  BY <1>1, <1>2, <1>3, WorkerInvariant, PTL DEF Spec

\* Every field of the service, every flag of the activity manager and every
\* message on its way to the main thread keeps its type.
THEOREM AppTypes == Spec => []TypeOK
<1>1. AppInv => TypeOK
  BY DEF AppInv
<1> QED
  BY <1>1, AppInvariant, PTL

\* No order of stops, revocations, starts and setups leaves a stack running
\* without a service in the foreground, unless its teardown is on the way.
THEOREM NoTunnelOrphaned == Spec => []NoOrphanTunnel
<1>1. ASSUME AppInv, Sound
      PROVE  NoOrphanTunnel
  <2> SUFFICES ASSUME netStack # None, ~TeardownComing
               PROVE  service \/ Queued("create")
    BY DEF NoOrphanTunnel
  <2>1. TypeOK /\ Instances /\ Interface
    BY <1>1 DEF AppInv
  <2>2. bound
    BY <1>1, <2>1 DEF Sound, Interface
  <2>3. Running(service, mainQueue, Len(mainQueue) + 1)
    BY <2>1, <2>2 DEF Instances, Consistent, Record
  <2>4. mainQueue \in Seq(Message) /\ Len(mainQueue) \in Nat
        /\ DOMAIN mainQueue = 1..Len(mainQueue)
    BY <2>1 DEF TypeOK
  <2> QED
    BY <2>3, <2>4 DEF Running, Queued
<1> QED
  BY <1>1, AppInvariant, PTL

\* When all is quiet and the service wants a tunnel, there is one, unless the
\* last setup failed or a revocation outlived the service it was for.
THEOREM RequestedTunnelIsUp == Spec => []RequestedIsUp
<1>1. ASSUME AppInv, Sound
      PROVE  RequestedIsUp
  <2> SUFFICES ASSUME AtRest, tunnelRequested, failed = None, ~orphaned
               PROVE  netStack # None
    BY DEF RequestedIsUp, Manager!IsActive
  <2>1. TypeOK /\ JobInv /\ Instances /\ DescriptorUsed /\ Answered
    BY <1>1 DEF AppInv
  <2>2. /\ phase = "select" /\ job = None /\ ~cancelled
        /\ eventChannel = <<>> /\ mainQueue = <<>> /\ timers = {}
        /\ bound => tunnelFD # None
        /\ \A c \in Callers : pending[c] = None /\ at[c] = "idle"
    BY <2>1 DEF AtRest, JobInv
  <2>3. None \notin Rises /\ None \notin SetupCommand /\ "binder" \in Callers
    BY CommandAssumption DEF Rises, SetupCommand, Manager!Command, Callers
  <2>4. InTheEnd \/ ~started
    BY <2>1, <2>2, <2>3 DEF Answered, Stopping
  <2>5. CASE InTheEnd
    BY <2>2, <2>3, <2>5 DEF InTheEnd, Raised, Rises
  <2>6. CASE ~started
    <3>1. service
      BY <2>1 DEF Instances
    <3>2. Running(service, mainQueue, Len(mainQueue) + 1)
      BY <2>2, <3>1 DEF Running
    <3>3. Record
      BY <2>1, <3>2 DEF Instances, Consistent
    <3>4. tunnelFD # None
      BY <2>2, <2>6, <3>3 DEF Record
    <3> QED
      BY <2>1, <2>2, <3>4 DEF DescriptorUsed
  <2> QED
    BY <2>4, <2>5, <2>6
<1> QED
  BY <1>1, AppInvariant, PTL

\* Whatever was queued when the user gave the VPN to another app, the tunnel is
\* down once all is quiet.
THEOREM NoTunnelUnconsented == Spec => []NoTunnelWithoutConsent
<1>1. ASSUME AppInv, Sound
      PROVE  NoTunnelWithoutConsent
  <2> SUFFICES ASSUME AtRest, ~permission, netStack # None
               PROVE  FALSE
    BY DEF NoTunnelWithoutConsent, Manager!IsActive
  <2>1. JobInv /\ Interface
    BY <1>1 DEF AppInv
  <2>2. tunnelFD # None /\ ~bound
    BY <1>1, <2>1 DEF Sound, Interface
  <2>3. TeardownComing
    BY <2>1, <2>2 DEF Interface
  <2> QED
    BY <2>1, <2>3, CommandAssumption
       DEF TeardownComing, Outstanding, AtRest, JobInv, Manager!Command
<1> QED
  BY <1>1, AppInvariant, PTL

-----------------------------------------------------------------------------
(* The way out. *)

\* The process is on its way out: the worker's context has been cancelled, the worker has
\* a system-shutdown to handle, or the process has ended.
ExitComing == cancelled \/ Outstanding({"system-shutdown"}) \/ ~Alive

\* A main thread that left a killed service has set the exit going.  A cancelled worker is
\* waited for by a thread that is itself not blocked in a send to the worker; and it has
\* returned only if it was cancelled, so that then, too, a thread is there to end the process.
WayOut ==
  /\ at["main"] = "leaving" => ExitComing
  /\ cancelled /\ Alive => \E c \in {"main", "ui"} : at[c] = "closing" /\ pending[c] = None
  /\ phase = "returned" => cancelled

\* A system-shutdown is handled up to the end of the process.
LEMMA ShutdownHandled ==
  ASSUME Sound, JobInv, ManagerStep, job = "system-shutdown"
  PROVE  job' = job \/ ~Alive'
BY CommandAssumption
   DEF Sound, JobInv, Alive, ManagerStep, SetupCommand, Manager!Next, Manager!vars,
       Manager!Worker, Manager!Call, Manager!Enqueue, Manager!Cancel, Manager!Receive,
       Manager!Done, Manager!Establish, Manager!EstablishFails, Manager!Build,
       Manager!BuildFails, Manager!EndConnections, Manager!CloseStack, Manager!CloseDescriptor,
       Manager!SendServicesCommand, Manager!Shutdown, Manager!ProcessExits, Manager!Finalize,
       Manager!Goto, Manager!AfterSetup, Manager!Command

\* Nobody takes back a cancellation, the end of the process does not either, and the
\* worker returns only for want of its context.
LEMMA CancelledStays ==
  ASSUME Sound, JobInv, ManagerStep
  PROVE  /\ cancelled => cancelled'
         /\ ~Alive => ~Alive'
         /\ phase' = "returned" => phase = "returned" \/ cancelled
BY CommandAssumption
   DEF Sound, JobInv, Alive, ManagerStep, Manager!Next, Manager!vars,
       Manager!Worker, Manager!Call, Manager!Enqueue, Manager!Cancel, Manager!Receive,
       Manager!Done, Manager!Establish, Manager!EstablishFails, Manager!Build,
       Manager!BuildFails, Manager!EndConnections, Manager!CloseStack, Manager!CloseDescriptor,
       Manager!SendServicesCommand, Manager!Shutdown, Manager!ProcessExits, Manager!Finalize,
       Manager!Goto, Manager!AfterSetup, Manager!FirstPhase

\* An exit that is coming stays so: no command of the other threads comes before it in a
\* way that undoes it, however full the buffer is.
LEMMA ExitStaysComing ==
  ASSUME Sound, JobInv, ManagerStep, ExitComing
  PROVE  ExitComing'
<1>0. None # "system-shutdown"
  BY CommandAssumption DEF Manager!Command
<1>1. CASE cancelled \/ ~Alive
  BY <1>1, CancelledStays DEF ExitComing
<1>2. CASE job = "system-shutdown"
  BY <1>2, ShutdownHandled DEF ExitComing, Outstanding
<1>3. ASSUME NEW c \in Callers, pending[c] = "system-shutdown"
      PROVE  ExitComing'
  BY <1>0, <1>3, PendingStep DEF ExitComing, Outstanding
<1>4. ASSUME NEW i \in DOMAIN eventChannel, eventChannel[i] = "system-shutdown"
      PROVE  ExitComing'
  BY <1>4, BufferStep DEF ExitComing, Outstanding
<1> QED
  BY <1>1, <1>2, <1>3, <1>4 DEF ExitComing, Outstanding

\* The main thread leaves a service that was not asked to stop with a system-shutdown in
\* its hands.
LEMMA LeavesWithShutdown ==
  ASSUME TypeOK, [Next]_vars, at'["main"] = "leaving", at["main"] # "leaving"
  PROVE  ExitComing'
<1>0. /\ at \in [Callers -> Activities] /\ "main" \in Callers
      /\ pending \in [Callers -> Manager!Command \cup {None}]
  BY DEF TypeOK, Manager!TypeOK, Callers
<1>1. CASE OnServiceDestroy
  <2>1. CASE UNCHANGED managerVars /\ at' = [at EXCEPT !["binder"] = "idle"]
    BY <1>0, <2>1
  <2>2. CASE Manager!Call("main", "system-shutdown")
    <3>1. pending'["main"] = "system-shutdown"
      BY <1>0, <2>2 DEF Manager!Call
    <3> QED
      BY <1>0, <3>1 DEF ExitComing, Outstanding
  <2> QED
    BY <1>1, <2>1, <2>2 DEF OnServiceDestroy
<1>2. CASE ~OnServiceDestroy
  <2>1. at'["main"] = at["main"] \/ at'["main"] # "leaving"
    BY <1>0, <1>2
       DEF vars, Callers, Next, MainThread, System, Environment, OnCreate, OnStartCommand,
           OnStartShutdown, OnServiceDestroyEnds, ScheduleTunnelReconnect, ReconnectTunnel,
           StopSelf, Revoke, OnRevoke, RevokeEnds, Unbind, SystemStopsService, LaunchActivity,
           OnActivityDestroy, Consent, Refuse, EnableTunnel, RestartTunnel, ShutdownApp,
           OnDestroy, Enter, Worker, Done, Establish, SetupFails, SetupSucceeds, TellService,
           WorkerAlone, others, Enqueue, Finalize, ProcessExits
  <2> QED
    BY <2>1
<1> QED
  BY <1>1, <1>2

\* A thread that closes the app is in modules.Shutdown until the process ends, and a
\* worker is cancelled only by such a thread.
LEMMA ClosingStays ==
  ASSUME TypeOK, [Next]_vars, cancelled',
         cancelled => \E c \in {"main", "ui"} : at[c] = "closing" /\ pending[c] = None
  PROVE  \E c \in {"main", "ui"} : at'[c] = "closing" /\ pending'[c] = None
<1>0. /\ at \in [Callers -> Activities] /\ {"main", "ui", "binder"} = Callers
      /\ pending \in [Callers -> Manager!Command \cup {None}]
  BY DEF TypeOK, Manager!TypeOK, Callers
<1>1. ASSUME NEW c \in {"main", "ui"}, OnDestroy(c), pending[c] = None
      PROVE  at'[c] = "closing" /\ pending'[c] = None
  BY <1>0, <1>1 DEF OnDestroy, Enter
<1>2. CASE OnServiceDestroyEnds \/ OnActivityDestroy \/ ShutdownApp
  <2>1. \/ \E c \in {"main", "ui"} : OnDestroy(c) /\ pending[c] = None
        \/ /\ UNCHANGED managerVars /\ at["main"] # "closing"
           /\ at' = at \/ at' = [at EXCEPT !["main"] = "idle"]
        \/ UNCHANGED managerVars /\ at' = at
    BY <1>2 DEF OnServiceDestroyEnds, OnActivityDestroy, ShutdownApp, Free, Enter
  <2>2. CASE UNCHANGED managerVars
    BY <1>0, <2>1, <2>2, <1>1 DEF managerVars
  <2> QED
    BY <1>1, <2>1, <2>2
<1>3. CASE ~(OnServiceDestroyEnds \/ OnActivityDestroy \/ ShutdownApp)
  <2>1. cancelled' = cancelled
    BY <1>3
       DEF vars, managerVars, Next, MainThread, System, Environment, OnCreate, OnStartCommand,
           OnStartShutdown, OnServiceDestroy, ScheduleTunnelReconnect, ReconnectTunnel,
           StopSelf, Revoke, OnRevoke, RevokeEnds, Unbind, SystemStopsService, LaunchActivity,
           Consent, Refuse, EnableTunnel, RestartTunnel, Manager!Call,
           Worker, Done, Establish, SetupFails, SetupSucceeds, TellService,
           WorkerAlone, Enqueue, Finalize, ProcessExits, Manager!Enqueue, Manager!Receive,
           Manager!Done, Manager!Establish, Manager!EstablishFails, Manager!Build,
           Manager!BuildFails, Manager!EndConnections, Manager!CloseStack,
           Manager!CloseDescriptor, Manager!SendServicesCommand, Manager!Shutdown,
           Manager!ProcessExits, Manager!Finalize
  <2>2. PICK c \in {"main", "ui"} : at[c] = "closing" /\ pending[c] = None
    BY <2>1
  <2>3. at'[c] = at[c]
    BY <1>0, <1>3, <2>2
       DEF vars, Next, MainThread, System, Environment, OnCreate, OnStartCommand,
           OnStartShutdown, OnServiceDestroy, ScheduleTunnelReconnect, ReconnectTunnel,
           StopSelf, Revoke, OnRevoke, RevokeEnds, Unbind, SystemStopsService, LaunchActivity,
           Consent, Refuse, EnableTunnel, RestartTunnel, Deliver, Free,
           Enter, Worker, Done, Establish, SetupFails, SetupSucceeds, TellService,
           WorkerAlone, others, Enqueue, Finalize, ProcessExits
  <2>4. pending'[c] = pending[c]
    BY <1>0, <1>3, <2>2
       DEF vars, managerVars, Next, MainThread, System, Environment, OnCreate, OnStartCommand,
           OnStartShutdown, OnServiceDestroy, ScheduleTunnelReconnect, ReconnectTunnel,
           StopSelf, Revoke, OnRevoke, RevokeEnds, Unbind, SystemStopsService, LaunchActivity,
           Consent, Refuse, EnableTunnel, RestartTunnel, Deliver, Free, Manager!Call,
           Worker, Done, Establish, SetupFails, SetupSucceeds, TellService,
           WorkerAlone, Enqueue, Finalize, ProcessExits, Manager!Enqueue, Manager!Receive,
           Manager!Done, Manager!Establish, Manager!EstablishFails, Manager!Build,
           Manager!BuildFails, Manager!EndConnections, Manager!CloseStack,
           Manager!CloseDescriptor, Manager!SendServicesCommand, Manager!Shutdown,
           Manager!ProcessExits, Manager!Finalize
  <2> QED
    BY <2>2, <2>3, <2>4
<1> QED
  BY <1>2, <1>3

\* The threads that wait for one another on the way out (main in a channel send, the
\* worker in a call to Java, OnDestroy in modules.Shutdown) leave each other a way: an exit
\* that has been set going is not undone, and whoever waits for the worker is still there
\* when it returns.  EndsInExit adds that the threads take their steps.
THEOREM ExitIsNotBlocked ==
  Spec => []WayOut /\ [][ExitComing => ExitComing']_vars
<1>1. Init => WayOut
  BY CommandAssumption DEF Init, Manager!Init, WayOut, Callers
<1>2. ASSUME AppInv, Sound, [Next]_vars
      PROVE  [ExitComing => ExitComing']_vars
  <2>1. JobInv /\ ManagerStep
    BY <1>2, AppStepIsManagerStep DEF AppInv
  <2> QED
    BY <1>2, <2>1, ExitStaysComing
<1>3. ASSUME AppInv, Sound, WayOut, [Next]_vars
      PROVE  WayOut'
  <2>1. TypeOK /\ JobInv /\ ManagerStep
    BY <1>3, AppStepIsManagerStep DEF AppInv
  <2>2. at'["main"] = "leaving" => ExitComing'
    BY <1>3, <2>1, ExitStaysComing, LeavesWithShutdown DEF WayOut
  <2>3. /\ cancelled => cancelled' /\ (~Alive => ~Alive')
        /\ phase' = "returned" => phase = "returned" \/ cancelled
    BY <1>3, <2>1, CancelledStays
  <2>4. cancelled' /\ Alive' =>
          \E c \in {"main", "ui"} : at'[c] = "closing" /\ pending'[c] = None
    BY <1>3, <2>1, <2>3, ClosingStays DEF WayOut
  <2>5. phase' = "returned" => cancelled'
    BY <1>3, <2>3 DEF WayOut
  <2> QED
    BY <2>2, <2>4, <2>5 DEF WayOut
<1> QED
  BY <1>1, <1>2, <1>3, AppInvariant, PTL DEF Spec
=============================================================================
