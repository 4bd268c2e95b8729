--------------------------- MODULE VpnManagerProofs ---------------------------
(***************************************************************************)
(* Proofs about VpnManager for every set of callers, every buffer size and *)
(* every set of descriptors.                                               *)
(*                                                                         *)
(* The safety properties are not inductive: what makes StackOwnsDescriptor *)
(* survive a setup is that the worker only reaches "establish" and "build" *)
(* with no stack, which in turn rests on which command can be at which     *)
(* call.  PhaseInv and DescriptorInv record that.                          *)
(***************************************************************************)
EXTENDS VpnManager, TLAPS

\* Which command can be at which call of the worker.
PhaseInv ==
  /\ phase \in {"establish", "build"} => job \in {"connect", "reconnect"}
  /\ phase \in {"endConnections", "closeStack", "closeDescriptor"}
       => job \in {"disconnect", "reconnect", "system-shutdown", "done"}
  /\ phase = "sendCommand" => job \in {"connect", "disconnect", "system-shutdown", "done"}

\* What the worker knows of the stack and the descriptor at each call.
DescriptorInv ==
  /\ phase \in {"establish", "build", "closeDescriptor"} => netStack = None
  /\ phase = "build" => tunnelFD \in openFds
  /\ ~buildFailed /\ netStack = None /\ phase \notin {"build", "closeDescriptor"}
       => tunnelFD = None

IInv ==
  /\ TypeOK
  /\ PhaseInv
  /\ DescriptorInv
  /\ StackOwnsDescriptor
  /\ ShutdownAfterTeardown
  /\ NoLeak
  /\ StoppedIsTornDown

-----------------------------------------------------------------------------

LEMMA InitEstablishes == Init => IInv
<1> SUFFICES ASSUME Init PROVE IInv
  OBVIOUS
<1>1. TypeOK
  <2>1. eventChannel = <<>> /\ eventChannel \in Seq(Command) /\ Len(eventChannel) <= Capacity
    BY CapacityAssumption DEF Init
  <2>2. pending \in [Callers -> Command \cup {None}]
    BY DEF Init
  <2>3. job \in Job /\ phase \in Phase
    BY DEF Init, Job, Phase
  <2> QED
    BY <2>1, <2>2, <2>3 DEF Init, TypeOK
<1>2. PhaseInv /\ DescriptorInv /\ StackOwnsDescriptor
      /\ ShutdownAfterTeardown /\ NoLeak /\ StoppedIsTornDown
  BY DEF Init, PhaseInv, DescriptorInv, StackOwnsDescriptor, ShutdownAfterTeardown,
         NoLeak, StoppedIsTornDown
<1> QED
  BY <1>1, <1>2 DEF IInv

\* The parts of the invariant that only speak of the worker.
WorkerInv ==
  /\ PhaseInv
  /\ DescriptorInv
  /\ StackOwnsDescriptor
  /\ ShutdownAfterTeardown
  /\ NoLeak
  /\ StoppedIsTornDown

\* A step of a caller leaves everything the worker's invariant speaks of alone.
LEMMA WorkerInvStable ==
  ASSUME WorkerInv, UNCHANGED <<job, phase, tunnelVars>>
  PROVE  WorkerInv'
BY DEF WorkerInv, PhaseInv, DescriptorInv, StackOwnsDescriptor, ShutdownAfterTeardown,
       NoLeak, StoppedIsTornDown, ServiceCommand, tunnelVars

LEMMA TypeStep ==
  ASSUME TypeOK, [Next]_vars
  PROVE  TypeOK'
<1> USE CapacityAssumption DEF TypeOK, tunnelVars
<1>1. ASSUME NEW c \in Callers, NEW command \in Command, Call(c, command)
      PROVE  TypeOK'
  BY <1>1 DEF Call
<1>2. ASSUME NEW c \in Callers, Enqueue(c)
      PROVE  TypeOK'
  <2>1. pending[c] \in Command
    BY <1>2 DEF Enqueue
  <2>2. eventChannel' \in Seq(Command) /\ Len(eventChannel') <= Capacity
    BY <1>2, <2>1 DEF Enqueue
  <2>3. pending' \in [Callers -> Command \cup {None}]
    BY <1>2 DEF Enqueue
  <2> QED
    BY <1>2, <2>2, <2>3 DEF Enqueue
<1>3. ASSUME Cancel
      PROVE  TypeOK'
  BY <1>3 DEF Cancel
<1>4. ASSUME Worker
      PROVE  TypeOK'
  <2>1. CASE Receive
    <3>1. Head(eventChannel) \in Command /\ Tail(eventChannel) \in Seq(Command)
          /\ Len(Tail(eventChannel)) <= Capacity
      BY <2>1 DEF Receive
    <3>2. job' \in Job /\ phase' \in Phase
      BY <2>1, <3>1 DEF Receive, FirstPhase, Job, Phase, Command
    <3> QED
      BY <2>1, <3>1, <3>2 DEF Receive
  <2>2. CASE Done
    BY <2>2 DEF Done, Job, Phase
  <2>3. ASSUME NEW fd \in Descriptors, Establish(fd)
        PROVE  TypeOK'
    BY <2>3 DEF Establish, Goto, Job, Phase
  <2>4. CASE EstablishFails \/ Build \/ BuildFails
    BY <2>4 DEF EstablishFails, Build, BuildFails, Goto, AfterSetup, Job, Phase
  <2>5. CASE EndConnections \/ CloseStack \/ CloseDescriptor
    BY <2>5 DEF EndConnections, CloseStack, CloseDescriptor, Goto, Job, Phase
  <2>6. CASE SendServicesCommand \/ Shutdown
    BY <2>6 DEF SendServicesCommand, Shutdown, Goto, Job, Phase
  <2> QED
    BY <1>4, <2>1, <2>2, <2>3, <2>4, <2>5, <2>6 DEF Worker
<1>5. ASSUME NEW fd \in Descriptors, Finalize(fd)
      PROVE  TypeOK'
  BY <1>5 DEF Finalize
<1>6. CASE ProcessExits
  BY <1>6 DEF ProcessExits, Goto, Job, Phase
<1>7. CASE UNCHANGED vars
  BY <1>7 DEF vars
<1> QED
  BY <1>1, <1>2, <1>3, <1>4, <1>5, <1>6, <1>7 DEF Next

-----------------------------------------------------------------------------

\* Each call of the worker preserves the worker's part of the invariant.
LEMMA WorkerStep ==
  ASSUME TypeOK, WorkerInv, Worker
  PROVE  WorkerInv'
<1> USE NoneAssumption
    DEF TypeOK, WorkerInv, PhaseInv, DescriptorInv, StackOwnsDescriptor,
        ShutdownAfterTeardown, NoLeak, StoppedIsTornDown, ServiceCommand, tunnelVars
<1>1. CASE Receive
  <2>1. Head(eventChannel) \in Command
    BY <1>1 DEF Receive
  <2> QED
    BY <1>1, <2>1 DEF Receive, FirstPhase, IsActive, Command
<1>2. CASE Done
  BY <1>2 DEF Done
<1>3. ASSUME NEW fd \in Descriptors, Establish(fd)
      PROVE  WorkerInv'
  BY <1>3 DEF Establish, Goto
<1>4. CASE EstablishFails
  BY <1>4 DEF EstablishFails, Goto, AfterSetup
<1>5. CASE Build
  BY <1>5 DEF Build, Goto, AfterSetup
<1>6. CASE BuildFails
  BY <1>6 DEF BuildFails, Goto, AfterSetup
<1>7. CASE EndConnections
  BY <1>7 DEF EndConnections, Goto
<1>8. CASE CloseStack
  BY <1>8 DEF CloseStack, Goto
<1>9. CASE CloseDescriptor
  BY <1>9 DEF CloseDescriptor, Goto
<1>10. CASE SendServicesCommand
  BY <1>10 DEF SendServicesCommand, Goto
<1>11. CASE Shutdown
  BY <1>11 DEF Shutdown, Goto
<1> QED
  BY <1>1, <1>2, <1>3, <1>4, <1>5, <1>6, <1>7, <1>8, <1>9, <1>10, <1>11 DEF Worker

LEMMA StepPreserves ==
  ASSUME IInv, [Next]_vars
  PROVE  IInv'
<1>1. TypeOK'
  BY TypeStep DEF IInv
<1>2. TypeOK /\ WorkerInv
  BY DEF IInv, WorkerInv
<1>3. WorkerInv'
  <2>1. ASSUME NEW c \in Callers, NEW command \in Command, Call(c, command)
        PROVE  WorkerInv'
    BY <1>2, <2>1, WorkerInvStable DEF Call
  <2>2. ASSUME NEW c \in Callers, Enqueue(c)
        PROVE  WorkerInv'
    BY <1>2, <2>2, WorkerInvStable DEF Enqueue
  <2>3. CASE Cancel
    BY <1>2, <2>3, WorkerInvStable DEF Cancel
  <2>4. CASE Worker
    BY <1>2, <2>4, WorkerStep
  <2>5. ASSUME NEW fd \in Descriptors, Finalize(fd)
        PROVE  WorkerInv'
    BY <1>2, <2>5 DEF Finalize, TypeOK, WorkerInv, PhaseInv, DescriptorInv,
       StackOwnsDescriptor, ShutdownAfterTeardown, NoLeak, StoppedIsTornDown, ServiceCommand
  <2>6. CASE ProcessExits
    BY <1>2, <2>6 DEF ProcessExits, Goto, WorkerInv, PhaseInv, DescriptorInv, tunnelVars,
       StackOwnsDescriptor, ShutdownAfterTeardown, NoLeak, StoppedIsTornDown
  <2>7. CASE UNCHANGED vars
    BY <1>2, <2>7, WorkerInvStable DEF vars, tunnelVars
  <2> QED
    BY <2>1, <2>2, <2>3, <2>4, <2>5, <2>6, <2>7 DEF Next
<1> QED
  BY <1>1, <1>3 DEF IInv, WorkerInv

\* The inductive invariant holds in every reachable state.
THEOREM Invariance == Spec => []IInv
<1>1. Init => IInv
  BY InitEstablishes
<1>2. IInv /\ [Next]_vars => IInv'
  BY StepPreserves
<1> QED
  BY <1>1, <1>2, PTL DEF Spec

-----------------------------------------------------------------------------

\* Every variable of module.go keeps its type, and the buffer its capacity.
THEOREM TypeCorrect == Spec => []TypeOK
<1>1. IInv => TypeOK
  BY DEF IInv
<1> QED
  BY <1>1, Invariance, PTL

\* A live stack always reads the open descriptor that tunnelFD names.
THEOREM StackOwnership == Spec => []StackOwnsDescriptor
<1>1. IInv => StackOwnsDescriptor
  BY DEF IInv
<1> QED
  BY <1>1, Invariance, PTL

\* "shutdown" is only sent, and the worker only ends, with the tunnel torn down.
THEOREM TeardownFirst == Spec => [](ShutdownAfterTeardown /\ StoppedIsTornDown)
<1>1. IInv => ShutdownAfterTeardown /\ StoppedIsTornDown
  BY DEF IInv
<1> QED
  BY <1>1, Invariance, PTL

\* No order of commands leaks a descriptor unless a setup failed half-way.
THEOREM LeakFreedom == Spec => []NoLeak
<1>1. IInv => NoLeak
  BY DEF IInv
<1> QED
  BY <1>1, Invariance, PTL

\* A live stack is only given up while a teardown is being handled.
LEMMA LoweredOnlyByTeardown ==
  ASSUME IInv, Next, netStack # None, netStack' # netStack
  PROVE  job \in {"disconnect", "reconnect", "system-shutdown", "done"}
<1>1. PhaseInv /\ DescriptorInv
  BY DEF IInv
<1>2. phase \in {"build", "closeStack"}
  BY DEF Next, Worker, Call, Enqueue, Cancel, ProcessExits, Finalize, Receive, Done, Establish,
         EstablishFails, Build, BuildFails, EndConnections, CloseStack, CloseDescriptor,
         SendServicesCommand, Shutdown, tunnelVars
<1> QED
  BY <1>1, <1>2 DEF PhaseInv, DescriptorInv

\* A live stack is only given up by a teardown the worker was asked for.
THEOREM LoweredByTeardown == Spec => OnlyTeardownLowers
<1>1. IInv /\ [Next]_vars =>
        [netStack # None /\ netStack' # netStack
           => job \in {"disconnect", "reconnect", "system-shutdown", "done"}]_vars
  BY LoweredOnlyByTeardown
<1> QED
  BY <1>1, Invariance, PTL DEF Spec, OnlyTeardownLowers

-----------------------------------------------------------------------------
(* Refinement: every step of the worker is a step of the contract, or none. *)

LEMMA WorkerImplements ==
  ASSUME IInv, Worker
  PROVE  Contract!Next \/ UNCHANGED Contract!vars
<1> USE NoneAssumption DEF Contract!Next, Contract!vars, Contract!Raise, Contract!Lower,
        Contract!Tell, Contract!Told, Contract!End, Contract!Telling,
        IsActive, ServiceCommand, Goto, AfterSetup, tunnelVars
<1>0. TypeOK /\ PhaseInv /\ DescriptorInv /\ ShutdownAfterTeardown /\ StoppedIsTornDown
  BY DEF IInv
<1>1. CASE Receive
  BY <1>1 DEF Receive, FirstPhase
<1>2. CASE Done
  BY <1>2 DEF Done
<1>3. ASSUME NEW fd \in Descriptors, Establish(fd)
      PROVE  Contract!Next \/ UNCHANGED Contract!vars
  BY <1>3 DEF Establish
<1>4. CASE EstablishFails
  BY <1>0, <1>4 DEF EstablishFails, PhaseInv, DescriptorInv
<1>5. CASE Build
  <2>1. tunnelFD \in Descriptors
    BY <1>0, <1>5 DEF Build, TypeOK, DescriptorInv
  <2> QED
    BY <1>0, <1>5, <2>1 DEF Build, PhaseInv, DescriptorInv
<1>6. CASE BuildFails
  BY <1>0, <1>6 DEF BuildFails, PhaseInv, DescriptorInv
<1>7. CASE EndConnections
  BY <1>7 DEF EndConnections
<1>8. CASE CloseStack
  BY <1>8 DEF CloseStack
<1>9. CASE CloseDescriptor
  BY <1>0, <1>9 DEF CloseDescriptor, PhaseInv, DescriptorInv
<1>10. CASE SendServicesCommand
  <2>1. phase = "sendCommand" /\ phase' \in {"shutdown", "returned", "select"}
    BY <1>10 DEF SendServicesCommand
  <2>2. phase' = "returned" => ServiceCommand = "shutdown"
    BY <1>0, <1>10 DEF SendServicesCommand, PhaseInv
  <2>3. UNCHANGED IsActive
    BY <1>10 DEF SendServicesCommand
  <2>4. Contract!Told
    BY <2>1, <2>2, <2>3
  <2> QED
    BY <2>4
<1>11. CASE Shutdown
  BY <1>0, <1>11 DEF Shutdown, StoppedIsTornDown
<1> QED
  BY <1>1, <1>2, <1>3, <1>4, <1>5, <1>6, <1>7, <1>8, <1>9, <1>10, <1>11 DEF Worker

\* The worker starts as its contract does.
LEMMA InitImplements == Init => Contract!Init
BY DEF Init, Contract!Init, IsActive

\* Every step of the worker is one of its contract, or a stutter.
LEMMA StepImplements ==
  ASSUME IInv, [Next]_vars
  PROVE  [Contract!Next]_(Contract!vars)
<1> SUFFICES ASSUME ~Worker
             PROVE  UNCHANGED Contract!vars
  BY WorkerImplements
<1> QED
  BY DEF Next, Call, Enqueue, Cancel, ProcessExits, Finalize, vars, tunnelVars, Goto,
         Contract!vars, IsActive, ServiceCommand

\* The worker implements the contract of Tunnel (its fairness is left to TLC).
THEOREM Refinement == Spec => Contract!Init /\ [][Contract!Next]_(Contract!vars)
<1>1. Init => Contract!Init
  BY InitImplements
<1>2. IInv /\ [Next]_vars => [Contract!Next]_(Contract!vars)
  BY StepImplements
<1> QED
  BY <1>1, <1>2, Invariance, PTL DEF Spec
=============================================================================
