----------------------------- MODULE RouterProofs -----------------------------
(***************************************************************************)
(* Proofs about Router, for any set of flows.  That the slice implements   *)
(* the table of FlowTable rests on three facts: no flow is listed twice,   *)
(* so that removing one entry removes the flow; only forwarded flows are   *)
(* listed or waited for; and a flow is closed before it is removed.        *)
(***************************************************************************)
EXTENDS Router, SequenceTheorems, TLAPS

\* What is listed, or has a waiter, is forwarded.
OnlyAdded ==
  /\ \A i \in 1..Len(connections) : stage[connections[i]] = "added"
  /\ \A f \in Flows : waiter[f] # "none" => stage[f] = "added"

\* onConnectionEnd closes before it removes.
ClosedFirst == \A f \in Flows : waiter[f] \in {"removing", "done"} => f \in closed

IInv == TypeOK /\ ListedOnce /\ OnlyAdded /\ ClosedFirst

-----------------------------------------------------------------------------
(* The slice. *)

Distinct(s) == \A i, j \in 1..Len(s) : s[i] = s[j] => i = j

\* t lists what s lists, except f.
Drops(s, t, f) ==
  /\ \A i \in 1..Len(t) : t[i] # f /\ \E j \in 1..Len(s) : t[i] = s[j]
  /\ \A j \in 1..Len(s) : s[j] # f => \E i \in 1..Len(t) : t[i] = s[j]

\* Without repetitions, SwapRemove drops the one entry of f and no other, and
\* repeats none.
LEMMA SwapRemoveDrops ==
  ASSUME NEW s \in Seq(Flows), NEW f \in Flows, NEW t, t = SwapRemove(s, f),
         Distinct(s)
  PROVE  t \in Seq(Flows) /\ Distinct(t) /\ Drops(s, t, f)
<1> USE DEF Distinct, Drops
<1> DEFINE at == {i \in 1..Len(s) : s[i] = f}
<1>0. Len(s) \in Nat /\ DOMAIN s = 1..Len(s) /\ \A i \in 1..Len(s) : s[i] \in Flows
  OBVIOUS
<1>1. CASE at = {}
  <2>1. t = s
    BY <1>0, <1>1 DEF SwapRemove
  <2> QED
    BY <1>1, <2>1
<1>2. CASE at # {}
  <2>1. PICK k \in 1..Len(s) : s[k] = f
    BY <1>2
  <2>2. at = {k}
    BY <2>1
  <2>3. (CHOOSE i \in at : \A j \in at : i <= j) = k
    BY <2>1, <2>2
  <2> DEFINE swapped == [s EXCEPT ![k] = s[Len(s)]]
  <2>4. t = SubSeq(swapped, 1, Len(s) - 1)
    BY <1>0, <1>2, <2>3 DEF SwapRemove
  <2>5. swapped \in Seq(Flows) /\ Len(swapped) = Len(s)
    BY <1>0, <2>1
  <2>6. Len(s) - 1 \in Nat /\ Len(s) - 1 <= Len(swapped)
    BY <1>0, <2>1, <2>5
  <2>7. /\ t \in Seq(Flows)
        /\ Len(t) = Len(s) - 1
        /\ \A i \in 1..Len(t) : t[i] = swapped[i]
    <3> HIDE DEF swapped
    <3> QED
      BY <2>4, <2>5, <2>6, SubSeqProperties
  <2>8. \A i \in 1..Len(t) : t[i] = IF i = k THEN s[Len(s)] ELSE s[i]
    BY <1>0, <2>1, <2>7
  <2>9. \A i, j \in 1..Len(t) : t[i] = t[j] => i = j
    BY <1>0, <2>1, <2>7, <2>8
  <2>10. ASSUME NEW i \in 1..Len(t)
         PROVE  t[i] # f /\ \E j \in 1..Len(s) : t[i] = s[j]
    BY <1>0, <2>1, <2>7, <2>8
  <2>11. ASSUME NEW j \in 1..Len(s), s[j] # f
         PROVE  \E i \in 1..Len(t) : t[i] = s[j]
    <3>1. CASE j = Len(s)
      BY <1>0, <2>1, <2>7, <2>8, <2>11, <3>1
    <3>2. CASE j # Len(s)
      BY <1>0, <2>1, <2>7, <2>8, <2>11, <3>2
    <3> QED
      BY <3>1, <3>2
  <2> QED
    BY <2>7, <2>9, <2>10, <2>11
<1> QED
  BY <1>1, <1>2

-----------------------------------------------------------------------------
(* The inductive invariant. *)

LEMMA InitInv == Init => IInv
BY DEF Init, IInv, TypeOK, ListedOnce, OnlyAdded, ClosedFirst, Stage, Waiter, ErrcCapacity

\* Routing moves only flows that are not forwarded, and to no other stage than that.
LEMMA RoutingStep ==
  ASSUME IInv, NEW f \in Flows,
         \/ \E p \in Protocol, d \in Destination : Route(f, p, d)
         \/ Dial(f)
         \/ CreateEndpoint(f)
  PROVE  IInv'
<1> USE DEF IInv
<1>1. /\ stage[f] \in {"new", "dialing", "dialed"}
      /\ \E to \in Stage \ {"added"} : stage' = [stage EXCEPT ![f] = to]
      /\ attached' \subseteq Flows
      /\ UNCHANGED <<tunnel, spn, aborted, forwardVars>>
  BY DEF Route, Dial, CreateEndpoint, Move, TypeOK, Stage
<1>2. TypeOK'
  BY <1>1 DEF TypeOK, forwardVars
<1>3. ListedOnce'
  BY <1>1 DEF ListedOnce, forwardVars
<1>4. OnlyAdded'
  BY <1>1 DEF OnlyAdded, TypeOK, forwardVars
<1>5. ClosedFirst'
  BY <1>1 DEF ClosedFirst, forwardVars
<1> QED
  BY <1>2, <1>3, <1>4, <1>5

\* A flow is listed when it becomes a forwarded one.
LEMMA AddStep ==
  ASSUME IInv, NEW f \in Flows, AddDefaultConnection(f)
  PROVE  IInv'
<1> USE DEF IInv, AddDefaultConnection, Move
<1>1. /\ connections \in Seq(Flows)
      /\ Len(connections') = Len(connections) + 1
      /\ \A i \in 1..Len(connections') :
           connections'[i] = IF i = Len(connections) + 1 THEN f ELSE connections[i]
      /\ \A i \in 1..Len(connections) : connections[i] # f
  BY DEF TypeOK, OnlyAdded
<1>2. TypeOK'
  BY DEF TypeOK, Stage, Waiter
<1>3. ListedOnce'
  BY <1>1, <1>2 DEF ListedOnce, TypeOK
<1>4. OnlyAdded'
  BY <1>1 DEF OnlyAdded, TypeOK
<1>5. ClosedFirst'
  BY DEF ClosedFirst, TypeOK
<1> QED
  BY <1>2, <1>3, <1>4, <1>5

\* The goroutines of a flow, but for the removal, leave table and stages alone.
LEMMA ForwardingStep ==
  ASSUME IInv, NEW f \in Flows,
         (\E d \in Direction : CopierEnds(f, d)) \/ FirstError(f) \/ Close(f)
  PROVE  IInv'
<1> USE DEF IInv, CopierEnds, FirstError, Close
<1>1. TypeOK'
  BY DEF TypeOK, ErrcCapacity, Waiter
<1>2. ListedOnce'
  BY DEF ListedOnce
<1>3. OnlyAdded'
  BY DEF OnlyAdded, TypeOK
<1>4. ClosedFirst'
  BY DEF ClosedFirst, TypeOK
<1> QED
  BY <1>1, <1>2, <1>3, <1>4

LEMMA RemoveDrops ==
  ASSUME IInv, NEW f \in Flows, Remove(f)
  PROVE  /\ connections \in Seq(Flows) /\ connections' \in Seq(Flows)
         /\ Distinct(connections')
         /\ Drops(connections, connections', f)
<1>1. connections \in Seq(Flows)
  BY DEF IInv, TypeOK
<1>2. Distinct(connections)
  BY <1>1 DEF IInv, ListedOnce, Distinct
<1>3. connections' = SwapRemove(connections, f)
  BY DEF Remove
<1> QED
  BY <1>1, <1>2, <1>3, SwapRemoveDrops

LEMMA RemoveStep ==
  ASSUME IInv, NEW f \in Flows, Remove(f)
  PROVE  IInv'
<1>1. connections \in Seq(Flows) /\ connections' \in Seq(Flows)
  BY RemoveDrops
<1>2. Distinct(connections') /\ Drops(connections, connections', f)
  BY RemoveDrops
<1> USE DEF IInv, Remove
<1>3. TypeOK'
  <2>1. waiter' \in [Flows -> Waiter]
    BY DEF TypeOK, Waiter
  <2> QED
    BY <1>1, <2>1 DEF TypeOK
<1>4. ListedOnce'
  BY <1>1, <1>2 DEF ListedOnce, Distinct
<1>5. OnlyAdded'
  <2>1. \A i \in 1..Len(connections') : stage[connections'[i]] = "added"
    BY <1>2 DEF OnlyAdded, Drops
  <2> QED
    BY <2>1 DEF OnlyAdded, TypeOK
<1>6. ClosedFirst'
  BY DEF ClosedFirst, TypeOK
<1> QED
  BY <1>3, <1>4, <1>5, <1>6

\* The worker's steps empty the table or leave it alone.
LEMMA TeardownStep ==
  ASSUME IInv, EndAllConnections \/ CloseStack \/ Setup \/ SpnChanges
  PROVE  IInv'
<1> USE DEF IInv, EndAllConnections, CloseStack, Setup, SpnChanges, forwardVars
<1>1. TypeOK'
  <2>1. Listed \subseteq Flows
    BY DEF Listed, TypeOK
  <2>2. CASE SpnChanges
    <3>1. spn' \in BOOLEAN
      BY <2>2
    <3> QED
      BY <2>2, <3>1 DEF TypeOK
  <2>3. CASE EndAllConnections
    BY <2>1, <2>3 DEF TypeOK
  <2>4. CASE CloseStack
    BY <2>4 DEF TypeOK
  <2>5. CASE Setup
    BY <2>5 DEF TypeOK
  <2> QED
    BY <2>2, <2>3, <2>4, <2>5
<1>2. ListedOnce'
  BY DEF ListedOnce
<1>3. OnlyAdded'
  BY DEF OnlyAdded
<1>4. ClosedFirst'
  BY DEF ClosedFirst
<1> QED
  BY <1>1, <1>2, <1>3, <1>4

\* The table and what surrounds it is consistent in every state.
THEOREM RouterInvariant == Spec => []IInv
<1>1. IInv /\ UNCHANGED vars => IInv'
  BY DEF IInv, TypeOK, ListedOnce, OnlyAdded, ClosedFirst, vars
<1>2. IInv /\ [Next]_vars => IInv'
  BY <1>1, RoutingStep, AddStep, ForwardingStep, RemoveStep, TeardownStep DEF Next, Forwarder
<1> QED
  BY InitInv, <1>2, PTL DEF Spec

\* No order of routing, forwarding and teardowns lists a flow twice, so that
\* onConnectionEnd leaves no dead flow in the table.
THEOREM NoFlowListedTwice == Spec => []ListedOnce
<1>1. IInv => ListedOnce
  BY DEF IInv
<1> QED
  BY <1>1, RouterInvariant, PTL

-----------------------------------------------------------------------------
(* The refinement of FlowTable. *)

LEMMA InitMaps == Init => Table!Init
BY DEF Init, Table!Init, Listed

LEMMA StepMaps ==
  ASSUME IInv, [Next]_vars
  PROVE  [Table!Next]_(Table!vars)
<1> DEFINE added == {f \in Flows : stage[f] = "added"}
<1> USE DEF IInv, Table!vars
<1>1. Listed = {connections[i] : i \in 1..Len(connections)} /\ Listed \subseteq added
  BY DEF Listed, TypeOK, OnlyAdded
<1>2. ASSUME UNCHANGED <<connections, closed>>, added' = added
      PROVE  UNCHANGED Table!vars
  BY <1>2 DEF Listed
<1>3. CASE UNCHANGED vars
  BY <1>3, <1>2 DEF vars
<1>4. ASSUME NEW f \in Flows,
             \/ \E p \in Protocol, d \in Destination : Route(f, p, d)
             \/ Dial(f)
             \/ CreateEndpoint(f)
      PROVE  UNCHANGED Table!vars
  <2>1. /\ stage[f] # "added"
        /\ \E to \in Stage \ {"added"} : stage' = [stage EXCEPT ![f] = to]
        /\ UNCHANGED forwardVars
    BY <1>4 DEF Route, Dial, CreateEndpoint, Move, Stage
  <2> QED
    BY <1>2, <2>1 DEF forwardVars, TypeOK
<1>5. ASSUME NEW f \in Flows, AddDefaultConnection(f)
      PROVE  Table!Open(f)
  <2>1. f \notin added /\ added' = added \cup {f} /\ UNCHANGED closed
    BY <1>5 DEF AddDefaultConnection, Move, TypeOK
  <2>2. Listed' = Listed \cup {f}
    <3>1. /\ connections \in Seq(Flows)
          /\ connections' = Append(connections, f)
      BY <1>5 DEF AddDefaultConnection, TypeOK
    <3>2. /\ Len(connections') = Len(connections) + 1
          /\ DOMAIN connections' = 1..(Len(connections) + 1)
          /\ \A i \in 1..Len(connections') :
               connections'[i] = IF i = Len(connections) + 1 THEN f ELSE connections[i]
      BY <3>1
    <3>3. \A i \in 1..Len(connections) : i \in 1..Len(connections') /\ connections'[i] = connections[i]
      BY <3>1, <3>2
    <3> QED
      BY <1>1, <3>1, <3>2, <3>3 DEF Listed
  <2> QED
    BY <2>1, <2>2 DEF Table!Open
<1>6. ASSUME NEW f \in Flows, (\E d \in Direction : CopierEnds(f, d)) \/ FirstError(f)
      PROVE  UNCHANGED Table!vars
  BY <1>2, <1>6 DEF CopierEnds, FirstError
<1>7. ASSUME NEW f \in Flows, Close(f)
      PROVE  Table!Shut(f)
  BY <1>7 DEF Close, OnlyAdded, Table!Shut, Listed
<1>8. ASSUME NEW f \in Flows, Remove(f)
      PROVE  Table!Unlist(f) \/ UNCHANGED Table!vars
  <2>1. f \in closed /\ UNCHANGED <<stage, closed>>
    BY <1>8 DEF Remove, ClosedFirst
  <2>2. Listed' = Listed \ {f}
    <3>1. /\ connections \in Seq(Flows) /\ connections' \in Seq(Flows)
          /\ Drops(connections, connections', f)
      BY <1>8, RemoveDrops
    <3>3. Listed' = {connections'[i] : i \in 1..Len(connections')}
      BY <3>1 DEF Listed
    <3> QED
      BY <1>1, <3>1, <3>3 DEF Drops, Listed
  <2> QED
    BY <2>1, <2>2 DEF Table!Unlist
<1>9. ASSUME EndAllConnections
      PROVE  Table!ShutAll
  BY <1>9 DEF EndAllConnections, Table!ShutAll, Listed
<1>10. ASSUME CloseStack \/ Setup \/ SpnChanges
       PROVE  UNCHANGED Table!vars
  BY <1>2, <1>10 DEF CloseStack, Setup, SpnChanges, forwardVars
<1> QED
  BY <1>3, <1>4, <1>5, <1>6, <1>7, <1>8, <1>9, <1>10 DEF Next, Forwarder, Table!Next

\* The slice with its swap removal, its goroutines and the teardowns between
\* them is a table that a flow leaves only when its sockets are shut.
THEOREM RouterImplementsTable == Spec => ImplementsTable
<1>1. IInv /\ [Next]_vars => [Table!Next]_(Table!vars)
  BY StepMaps
<1> QED
  BY InitMaps, <1>1, RouterInvariant, PTL DEF Spec, ImplementsTable, Table!Spec

\* What the table promises therefore holds of the slice: EndAllConnections
\* finds every forwarded flow that is still open.
THEOREM NoFlowForgotten == Spec => []Table!NoneForgotten
<1>1. Table!Init => Table!NoneForgotten
  BY DEF Table!Init, Table!NoneForgotten
<1>2. Table!NoneForgotten /\ [Table!Next]_(Table!vars) => Table!NoneForgotten'
  BY DEF Table!NoneForgotten, Table!Next, Table!vars, Table!Open, Table!Shut, Table!Unlist,
         Table!ShutAll
<1> QED
  BY <1>1, <1>2, RouterImplementsTable, PTL DEF ImplementsTable, Table!Spec

-----------------------------------------------------------------------------
(* The goroutines of a flow. *)

\* Of the two errors of a flow one is received and one stays in the buffer: a
\* flow that waits for the first has sent at most one, and the second copier
\* is blocked until it is received.
Accounted(f) ==
  \/ stage[f] # "added" /\ waiter[f] = "none" /\ copying[f] = {} /\ errc[f] = 0
  \/ /\ stage[f] = "added"
     /\ waiter[f] = "waiting"
     /\ \/ copying[f] = Direction /\ errc[f] = 0
        \/ errc[f] = 1 /\ \E d \in Direction : copying[f] = {d}
  \/ /\ stage[f] = "added"
     /\ waiter[f] \in {"closing", "removing", "done"}
     /\ \/ errc[f] = 0 /\ \E d \in Direction : copying[f] = {d}
        \/ errc[f] = 1 /\ copying[f] = {}

AllAccounted == \A f \in Flows : Accounted(f)

\* A step that leaves the goroutines of a flow alone keeps its account.
LEMMA OthersAccounted ==
  ASSUME AllAccounted, NEW f \in Flows,
         (stage'[f] = "added") <=> (stage[f] = "added"),
         waiter'[f] = waiter[f], copying'[f] = copying[f], errc'[f] = errc[f]
  PROVE  Accounted(f)'
BY DEF AllAccounted, Accounted

\* Steps that hand a flow its first packets start none of its goroutines.
LEMMA RoutingAccounted ==
  ASSUME TypeOK, AllAccounted, NEW f \in Flows,
         \/ \E p \in Protocol, d \in Destination : Route(f, p, d)
         \/ Dial(f)
         \/ CreateEndpoint(f)
  PROVE  AllAccounted'
<1>1. /\ stage[f] # "added"
      /\ \E to \in Stage \ {"added"} : stage' = [stage EXCEPT ![f] = to]
      /\ UNCHANGED forwardVars
  BY DEF Route, Dial, CreateEndpoint, Move, Stage
<1>2. ASSUME NEW g \in Flows
      PROVE  (stage'[g] = "added") <=> (stage[g] = "added")
  BY <1>1 DEF TypeOK
<1> QED
  BY <1>1, <1>2, OthersAccounted DEF AllAccounted, forwardVars

\* The goroutines of a new flow are started with it.
LEMMA AddAccounted ==
  ASSUME TypeOK, AllAccounted, NEW f \in Flows, AddDefaultConnection(f)
  PROVE  AllAccounted'
<1> USE DEF AddDefaultConnection, Move
<1>1. Accounted(f)'
  <2>1. errc[f] = 0
    BY DEF AllAccounted, Accounted
  <2> QED
    BY <2>1 DEF Accounted, TypeOK
<1>2. ASSUME NEW g \in Flows, g # f
      PROVE  Accounted(g)'
  BY <1>2, OthersAccounted DEF TypeOK
<1> QED
  BY <1>1, <1>2 DEF AllAccounted

\* A copier sends into the empty buffer: it is the first to end, or the first
\* error has been received.
LEMMA CopierAccounted ==
  ASSUME TypeOK, AllAccounted, NEW f \in Flows, NEW d \in Direction, CopierEnds(f, d)
  PROVE  AllAccounted'
<1> USE DEF CopierEnds
<1>1. Accounted(f)'
  <2>1. /\ copying'[f] = copying[f] \ {d} /\ errc'[f] = errc[f] + 1
        /\ UNCHANGED <<stage, waiter>>
        /\ d \in copying[f] /\ errc[f] = 0
    BY DEF TypeOK, ErrcCapacity
  <2>2. errc'[f] = 1
    BY <2>1
  <2>3. CASE copying[f] = Direction
    <3>1. \E e \in Direction : copying'[f] = {e}
      BY <2>1, <2>3 DEF Direction
    <3> QED
      BY <2>1, <2>2, <2>3, <3>1 DEF AllAccounted, Accounted, Direction
  <2>4. CASE \E e \in Direction : copying[f] = {e}
    <3>1. copying'[f] = {}
      BY <2>1, <2>4
    <3>2. copying[f] # Direction
      BY <2>4 DEF Direction
    <3> QED
      BY <2>1, <2>2, <3>1, <3>2 DEF AllAccounted, Accounted
  <2> QED
    BY <2>1, <2>3, <2>4 DEF AllAccounted, Accounted
<1>2. ASSUME NEW g \in Flows, g # f
      PROVE  Accounted(g)'
  BY <1>2, OthersAccounted DEF TypeOK
<1> QED
  BY <1>1, <1>2 DEF AllAccounted

\* The waiter of a flow takes an error, or is the last to go.
LEMMA WaiterAccounted ==
  ASSUME TypeOK, AllAccounted, NEW f \in Flows, Forwarder(f)
  PROVE  AllAccounted'
<1> USE DEF Forwarder, FirstError, Close, Remove
<1>1. Accounted(f)'
  <2>1. CASE FirstError(f)
    <3>1. /\ waiter[f] = "waiting" /\ waiter'[f] = "closing"
          /\ errc[f] > 0 /\ errc'[f] = errc[f] - 1
          /\ UNCHANGED <<stage, copying>>
      BY <2>1 DEF TypeOK
    <3>2. errc[f] = 1 /\ errc'[f] = 0
      BY <3>1 DEF TypeOK, ErrcCapacity
    <3> QED
      BY <3>1, <3>2 DEF AllAccounted, Accounted
  <2>2. CASE Close(f) \/ Remove(f)
    <3>1. /\ waiter[f] \in {"closing", "removing"} /\ waiter'[f] \in {"removing", "done"}
          /\ UNCHANGED <<stage, copying, errc>>
      BY <2>2 DEF TypeOK
    <3> QED
      BY <3>1 DEF AllAccounted, Accounted
  <2> QED
    BY <2>1, <2>2
<1>2. ASSUME NEW g \in Flows, g # f
      PROVE  Accounted(g)'
  BY <1>2, OthersAccounted DEF TypeOK
<1> QED
  BY <1>1, <1>2 DEF AllAccounted

\* Each flow's errors are accounted for, at any point of a teardown.
THEOREM EveryErrorAccounted == Spec => []AllAccounted
<1>1. Init => AllAccounted
  BY DEF Init, AllAccounted, Accounted
<1>2. TypeOK /\ AllAccounted /\ [Next]_vars => AllAccounted'
  <2> SUFFICES ASSUME TypeOK, AllAccounted, [Next]_vars
               PROVE  AllAccounted'
    OBVIOUS
  <2>1. CASE EndAllConnections \/ CloseStack \/ Setup \/ SpnChanges \/ UNCHANGED vars
    <3>1. UNCHANGED <<stage, waiter, copying, errc>>
      BY <2>1 DEF EndAllConnections, CloseStack, Setup, SpnChanges, vars, forwardVars
    <3> QED
      BY <3>1, OthersAccounted DEF AllAccounted
  <2> QED
    BY <2>1, RoutingAccounted, AddAccounted, CopierAccounted, WaiterAccounted DEF Next
<1>3. IInv => TypeOK
  BY DEF IInv
<1> QED
  BY <1>1, <1>2, <1>3, RouterInvariant, PTL DEF Spec

\* A copier that finds the buffer full is waited for, and the waiter has an
\* error to receive or two copiers that may still send one.
NoneStranded ==
  \A f \in Flows :
    /\ copying[f] # {} /\ errc[f] = ErrcCapacity => waiter[f] = "waiting"
    /\ waiter[f] = "waiting" => errc[f] > 0 \/ copying[f] = Direction

\* No goroutine of a flow is ever left waiting for one that has gone: with the
\* buffer of one error (default_route.go:35) neither the second copier nor the
\* waiter can be blocked for good.
THEOREM NoGoroutineStranded == Spec => []NoneStranded
<1>1. AllAccounted => NoneStranded
  BY DEF AllAccounted, Accounted, NoneStranded, ErrcCapacity, Direction
<1> QED
  BY <1>1, EveryErrorAccounted, PTL
=============================================================================
