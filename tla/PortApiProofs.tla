---------------------------- MODULE PortApiProofs ----------------------------
(***************************************************************************)
(* Proofs about PortApi, for all bounds.                                   *)
(*                                                                         *)
(* What holds of the bridge, for any number of threads and of connections, *)
(* holds under the page, which uses it only by its operations.             *)
(*                                                                         *)
(* That no operation is orphaned rests on the order of the calls (Asked: a *)
(* request whose stream has ended is followed by its cancel) and on where  *)
(* the server works for a page: on the connection the page's own thread is *)
(* about to write to (Served), so that a cancel which does not reach it    *)
(* was lost together with the operation.                                   *)
(*                                                                         *)
(* That a reply finds its own request rests on where an id can be: an open *)
(* stream, a request that waits, an operation or a reply that bears it are *)
(* all of one request of one page (IdsUnique, Once).                       *)
(*                                                                         *)
(* That no request is forgotten while no connection is lost rests on what  *)
(* each call of the queues is followed by: the subscription comes before   *)
(* every message of the page (Subscribed), and a cancel names a stream     *)
(* that has ended (Cancelled).                                             *)
(*                                                                         *)
(* What the messages themselves carry is proved for texts of any length.   *)
(***************************************************************************)
EXTENDS PortApi, SequenceTheorems, FiniteSetTheorems, TLAPS

(* The bridge, for any number of pages and so of threads. *)

\* The properties support one another: a connection that is dialed is the only one
\* open because conn was nil before, and it is new because all others are numbered.
BridgeInv == Bridge!TypeOK /\ Bridge!ConnIsRead /\ Bridge!GivenUpIsClosed

LEMMA BridgeInit == Bridge!Init => BridgeInv
  BY NoneAssumption
     DEF Bridge!Init, BridgeInv, Bridge!TypeOK, Bridge!ConnIsRead, Bridge!GivenUpIsClosed,
         Bridge!Step

\* Where a thread stands is of its type after every step of the thread.
LEMMA GotoType ==
  ASSUME NEW t \in Pages, NEW next \in Bridge!Step, step \in [Pages -> Bridge!Step],
         Bridge!Goto(t, next)
  PROVE  step' \in [Pages -> Bridge!Step]
  BY DEF Bridge!Goto

LEMMA ReturnType ==
  ASSUME NEW t \in Pages, Bridge!TypeOK, Bridge!Return(t)
  PROVE  /\ step' \in [Pages -> Bridge!Step]
         /\ using' \in [Pages -> 1..dialed \cup {None}]
  BY DEF Bridge!Return, Bridge!Goto, Bridge!Step, Bridge!TypeOK

\* What a step on connection c does to the invariant: conn is left, or given up
\* together with its opening.
LEMMA InvalidateKeeps ==
  ASSUME Bridge!TypeOK, Bridge!GivenUpIsClosed, NEW c, Bridge!Invalidate(c)
  PROVE  /\ conn' \in 1..dialed \cup {None}
         /\ conn' # None => conn' = conn /\ conn # c
         /\ open' \subseteq 1..dialed
         /\ open' \subseteq {conn'}
  BY DEF Bridge!Invalidate, Bridge!TypeOK, Bridge!GivenUpIsClosed

LEMMA BridgeNext == BridgeInv /\ [Bridge!Next]_(Bridge!vars) => BridgeInv'
<1> SUFFICES ASSUME BridgeInv, [Bridge!Next]_(Bridge!vars) PROVE BridgeInv'
  OBVIOUS
<1> USE DEF BridgeInv
<1>1. ASSUME NEW t \in Pages, Bridge!Reuse(t) PROVE BridgeInv'
  <2>1. step' \in [Pages -> Bridge!Step]
    BY <1>1, GotoType DEF Bridge!Reuse, Bridge!TypeOK, Bridge!Step
  <2>2. QED
    BY <1>1, <2>1
       DEF Bridge!Reuse, Bridge!TypeOK, Bridge!ConnIsRead, Bridge!GivenUpIsClosed
<1>2. ASSUME NEW t \in Pages, Bridge!Dial(t) PROVE BridgeInv'
  <2>1. step' \in [Pages -> Bridge!Step]
    BY <1>2, GotoType DEF Bridge!Dial, Bridge!TypeOK, Bridge!Step
  <2>2. dialed' \in Nat /\ dialed' \in 1..dialed' /\ 1..dialed \subseteq 1..dialed'
    BY <1>2 DEF Bridge!Dial, Bridge!TypeOK
  <2>3. Bridge!TypeOK'
    BY <1>2, <2>1, <2>2 DEF Bridge!Dial, Bridge!TypeOK
  <2>4. Bridge!ConnIsRead'
    BY <1>2 DEF Bridge!Dial, Bridge!ConnIsRead
  <2>5. open = {}
    BY <1>2, NoneAssumption DEF Bridge!Dial, Bridge!TypeOK, Bridge!GivenUpIsClosed
  <2>6. Bridge!GivenUpIsClosed'
    BY <1>2, <2>5 DEF Bridge!Dial, Bridge!GivenUpIsClosed
  <2>7. QED
    BY <2>3, <2>4, <2>6
<1>3. ASSUME NEW t \in Pages, Bridge!SetDatabaseCall(t) PROVE BridgeInv'
  BY <1>3, ReturnType
     DEF Bridge!SetDatabaseCall, Bridge!TypeOK, Bridge!ConnIsRead, Bridge!GivenUpIsClosed
<1>4. ASSUME NEW t \in Pages, Bridge!ReadConn(t) PROVE BridgeInv'
  <2>1. step' \in [Pages -> Bridge!Step]
    BY <1>4, GotoType DEF Bridge!ReadConn, Bridge!TypeOK, Bridge!Step
  <2>2. QED
    BY <1>4, <2>1
       DEF Bridge!ReadConn, Bridge!TypeOK, Bridge!ConnIsRead, Bridge!GivenUpIsClosed
<1>5. ASSUME NEW t \in Pages,
             Bridge!NotConnected(t) \/ Bridge!WriteMessage(t) \/ Bridge!WriteIsLost(t)
      PROVE  BridgeInv'
  BY <1>5, ReturnType
     DEF Bridge!NotConnected, Bridge!WriteMessage, Bridge!WriteIsLost, Bridge!TypeOK,
         Bridge!ConnIsRead, Bridge!GivenUpIsClosed
<1>6. ASSUME NEW t \in Pages, Bridge!WriteFails(t) PROVE BridgeInv'
  <2>1. /\ step' \in [Pages -> Bridge!Step]
        /\ using' \in [Pages -> 1..dialed \cup {None}]
    BY <1>6, ReturnType DEF Bridge!WriteFails
  <2>2. QED
    BY <1>6, <2>1, InvalidateKeeps
       DEF Bridge!WriteFails, Bridge!TypeOK, Bridge!ConnIsRead, Bridge!GivenUpIsClosed
<1>7. ASSUME NEW c \in 1..dialed, Bridge!ReadFails(c) PROVE BridgeInv'
  <2>1. /\ conn' \in 1..dialed \cup {None}
        /\ conn' # None => conn' = conn /\ conn # c
        /\ open' \subseteq 1..dialed
        /\ open' \subseteq {conn'}
    BY <1>7, InvalidateKeeps DEF Bridge!ReadFails
  <2>2. QED
    BY <1>7, <2>1
       DEF Bridge!ReadFails, Bridge!TypeOK, Bridge!ConnIsRead, Bridge!GivenUpIsClosed
<1>8. ASSUME NEW c \in 1..dialed, Bridge!Break(c) PROVE BridgeInv'
  BY <1>8 DEF Bridge!Break, Bridge!TypeOK, Bridge!ConnIsRead, Bridge!GivenUpIsClosed
<1>9. CASE UNCHANGED Bridge!vars
  BY <1>9 DEF Bridge!vars, Bridge!TypeOK, Bridge!ConnIsRead, Bridge!GivenUpIsClosed
<1>10. ASSUME NEW t \in Pages, Bridge!DialFails(t) PROVE BridgeInv'
  BY <1>9, <1>10 DEF Bridge!DialFails
<1>11. QED
  BY <1>1, <1>2, <1>3, <1>4, <1>5, <1>6, <1>7, <1>8, <1>9, <1>10 DEF Bridge!Next

\* Whatever the threads and connections do, the connection that is used is read and
\* is the only one that is open (database_bridge.go:35-119).
THEOREM BridgeInvariant == Bridge!Spec => []BridgeInv
<1>1. Bridge!Init => BridgeInv
  BY BridgeInit
<1>2. BridgeInv /\ [Bridge!Next]_(Bridge!vars) => BridgeInv'
  BY BridgeNext
<1>3. QED
  BY <1>1, <1>2, PTL DEF Bridge!Spec

-----------------------------------------------------------------------------
(* The page over the bridge. *)

LEMMA PageTakesBridgeSteps ==
  ASSUME BridgeInv, [Next]_vars
  PROVE  [Bridge!Next]_bridgeVars
<1>1. reading \cup open \subseteq 1..dialed
  BY DEF BridgeInv, Bridge!TypeOK
<1>2. ASSUME NewRequest \/ Retry \/ Unsubscribe \/ OnMessage \/ LoadPage \/ EngineStarts
      PROVE  UNCHANGED bridgeVars
  BY <1>2 DEF NewRequest, Retry, Unsubscribe, OnMessage, LoadPage, EngineStarts
<1>3. ASSUME NEW p \in Pages, PluginThread(p) \/ WriteFails(p)
      PROVE  Bridge!Next
  BY <1>3 DEF PluginThread, Ensure, EnsureFails, SubscribeToDatabase, DatabaseMessage,
              DatabaseMessageFails, WriteMessage, WriteIsLost, WriteFails, Bridge!Next
<1>4. ASSUME NEW op \in ops, Serve(op) \/ Finish(op)
      PROVE  UNCHANGED bridgeVars
  BY <1>4 DEF Serve, Finish, Answer
<1>5. ASSUME NEW c \in Connections, ReadMessage(c)
      PROVE  UNCHANGED bridgeVars
  BY <1>5 DEF ReadMessage
<1>6. ASSUME NEW c \in Connections, ReadFails(c) \/ Break(c)
      PROVE  Bridge!Next
  <2>1. c \in 1..dialed
    BY <1>1, <1>6 DEF ReadFails, Break, Bridge!ReadFails, Bridge!Break
  <2>2. QED
    BY <1>6, <2>1 DEF ReadFails, Break, Bridge!Next
<1>7. CASE UNCHANGED vars
  BY <1>7 DEF vars
<1>8. QED
  BY <1>2, <1>3, <1>4, <1>5, <1>6, <1>7 DEF Next

\* The invariant of the bridge holds in every state of the page over it.
THEOREM PageBridgeInvariant == Spec => []BridgeInv
<1>1. Init => BridgeInv
  BY BridgeInit DEF Init
<1>2. BridgeInv /\ [Next]_vars => BridgeInv'
  BY PageTakesBridgeSteps, BridgeNext DEF bridgeVars, Bridge!vars
<1>3. QED
  BY <1>1, <1>2, PTL DEF Spec

\* A page over the bridge is one of the behaviours of the bridge: each step of the
\* page, of its plugin threads and of the server is a step of the bridge or leaves it
\* alone.
THEOREM PageImplementsBridge == Spec => Bridge!Spec
<1>1. Init => Bridge!Init
  BY DEF Init
<1>2. BridgeInv /\ [Next]_vars => [Bridge!Next]_(Bridge!vars)
  BY PageTakesBridgeSteps DEF bridgeVars, Bridge!vars
<1>3. QED
  BY <1>1, <1>2, PageBridgeInvariant, PTL DEF Spec, Bridge!Spec

\* The connection that the page's messages are written to is being read, and one the
\* bridge has given up is closed, whatever the pages do (database_bridge.go:53-58, 93-119).
THEOREM PageBridgeKept == Spec => []BridgeKept
<1>1. BridgeInv => BridgeKept
  BY DEF BridgeInv, BridgeKept, Bridge!ConnIsRead, Bridge!GivenUpIsClosed
<1>2. QED
  BY <1>1, PageBridgeInvariant, PTL

-----------------------------------------------------------------------------
(* The calls of a page to its plugin thread. *)

Call == {Subscribe} \cup {Send(s) : s \in Stream} \cup {Cancel(s) : s \in Stream}

\* The page still listens to s, or one of its calls says that it does not.
Heard(queue, listening, s) ==
  s \in listening \/ \E i \in 1..Len(queue) : queue[i] = Cancel(s)

\* Every request that waits in the queue is one the page listens to, or is
\* cancelled further back.
Asked(queue, listening) ==
  \A i \in 1..Len(queue), s \in Stream : queue[i] = Send(s) /\ Cancellable(s.method) =>
    s \in listening \/ \E j \in (i + 1)..Len(queue) : queue[j] = Cancel(s)

LEMMA CallKinds ==
  /\ Subscribe \in Call
  /\ \A s \in Stream : Send(s) \in Call /\ Cancel(s) \in Call
  /\ \A s, t \in Stream : Send(s) # Subscribe /\ Cancel(s) # Subscribe /\ Send(s) # Cancel(t)
  /\ \A s, t \in Stream : Send(s) = Send(t) => s = t
  /\ \A m \in Call : m.type = "request" => \E s \in Stream : m = Send(s)
  /\ \A m \in Call : m.type \in {"subscribe", "request", "cancel"}
<1>1. \A s, t \in Stream : Send(s) = Send(t) => s = t
  BY DEF Send, Stream
<1>2. \A s \in Stream : Send(s).type = "request" /\ Cancel(s).type = "cancel"
  BY DEF Send, Cancel
<1>3. Subscribe.type = "subscribe"
  BY DEF Subscribe
<1> QED
  BY <1>1, <1>2, <1>3 DEF Call

\* The page makes a call: a request of a stream it listens to, or another one.
LEMMA AppendAsked ==
  ASSUME NEW queue \in Seq(Call), NEW listening, NEW more, NEW m \in Call,
         Asked(queue, listening), listening \subseteq more,
         \A s \in Stream : m = Send(s) => s \in more
  PROVE  /\ Append(queue, m) \in Seq(Call)
         /\ Asked(Append(queue, m), more)
<1> DEFINE longer == Append(queue, m)
<1>1. /\ longer \in Seq(Call) /\ Len(longer) = Len(queue) + 1 /\ Len(queue) \in Nat
      /\ longer[Len(longer)] = m
      /\ \A i \in 1..Len(queue) : longer[i] = queue[i]
  OBVIOUS
<1> HIDE DEF longer
<1>2. ASSUME NEW i \in 1..Len(longer), NEW s \in Stream, longer[i] = Send(s),
             Cancellable(s.method)
      PROVE  s \in more \/ \E j \in (i + 1)..Len(longer) : longer[j] = Cancel(s)
  <2>1. CASE i = Len(longer)
    BY <1>1, <1>2, <2>1
  <2>2. CASE i # Len(longer)
    <3>1. i \in 1..Len(queue) /\ queue[i] = Send(s)
      BY <1>1, <1>2, <2>2
    <3>2. s \in listening \/ \E j \in (i + 1)..Len(queue) : queue[j] = Cancel(s)
      BY <1>2, <3>1 DEF Asked
    <3> QED
      BY <1>1, <3>2
  <2> QED
    BY <2>1, <2>2
<1> QED
  BY <1>1, <1>2 DEF Asked, longer

\* A stream ends, and the server is told so if it could go on.
LEMMA TeardownAsked ==
  ASSUME NEW queue \in Seq(Call), NEW listening, NEW t \in Stream, Asked(queue, listening),
         NEW next, next = IF Cancellable(t.method) THEN Append(queue, Cancel(t)) ELSE queue
  PROVE  /\ next \in Seq(Call)
         /\ Asked(next, listening \ {t})
<1>1. CASE Cancellable(t.method)
  <2>1. Cancel(t) \in Call
    BY CallKinds
  <2>2. /\ next \in Seq(Call) /\ Len(next) = Len(queue) + 1 /\ Len(queue) \in Nat
        /\ next[Len(next)] = Cancel(t)
        /\ \A i \in 1..Len(queue) : next[i] = queue[i]
    BY <1>1, <2>1
  <2>3. ASSUME NEW i \in 1..Len(next), NEW s \in Stream, next[i] = Send(s), Cancellable(s.method)
        PROVE  s \in listening \ {t} \/ \E j \in (i + 1)..Len(next) : next[j] = Cancel(s)
    <3>1. i \in 1..Len(queue) /\ queue[i] = Send(s)
      BY <2>2, <2>3, CallKinds
    <3>2. s \in listening \/ \E j \in (i + 1)..Len(queue) : queue[j] = Cancel(s)
      BY <2>3, <3>1 DEF Asked
    <3>3. CASE s = t
      <4>1. Len(next) \in (i + 1)..Len(next)
        BY <2>2, <3>1
      <4> QED
        BY <2>2, <3>3, <4>1
    <3>4. CASE s # t
      BY <2>2, <3>2, <3>4
    <3> QED
      BY <3>3, <3>4
  <2> QED
    BY <2>2, <2>3 DEF Asked
<1>2. CASE ~Cancellable(t.method)
  BY <1>2 DEF Asked
<1> QED
  BY <1>1, <1>2

\* A call is made: what waits behind it stays.
LEMMA TailAsked ==
  ASSUME NEW queue \in Seq(Call), NEW listening, queue # <<>>, Asked(queue, listening)
  PROVE  /\ Tail(queue) \in Seq(Call)
         /\ Asked(Tail(queue), listening)
         /\ \A s \in Stream : Heard(queue, listening, s) /\ Head(queue) # Cancel(s)
              => Heard(Tail(queue), listening, s)
         /\ \A s \in Stream : Head(queue) = Send(s) /\ Cancellable(s.method)
              => Heard(Tail(queue), listening, s)
<1> DEFINE rest == Tail(queue)
<1>1. /\ rest \in Seq(Call) /\ Len(rest) = Len(queue) - 1 /\ Len(queue) \in Nat \ {0}
      /\ Head(queue) = queue[1]
      /\ \A i \in 1..Len(rest) : rest[i] = queue[i + 1]
  OBVIOUS
<1> HIDE DEF rest
<1>0. \A i \in 2..Len(queue) : i - 1 \in 1..Len(rest) /\ rest[i - 1] = queue[i]
  BY <1>1
<1>2. ASSUME NEW i \in 1..Len(rest), NEW s \in Stream, rest[i] = Send(s), Cancellable(s.method)
      PROVE  s \in listening \/ \E j \in (i + 1)..Len(rest) : rest[j] = Cancel(s)
  <2>1. i + 1 \in 1..Len(queue) /\ queue[i + 1] = Send(s)
    BY <1>1, <1>2
  <2>2. s \in listening \/ \E j \in (i + 2)..Len(queue) : queue[j] = Cancel(s)
    BY <1>2, <2>1 DEF Asked
  <2>3. ASSUME NEW j \in (i + 2)..Len(queue), queue[j] = Cancel(s)
        PROVE  j - 1 \in (i + 1)..Len(rest) /\ rest[j - 1] = Cancel(s)
    BY <1>0, <1>1, <2>3
  <2> QED
    BY <2>2, <2>3
<1>3. ASSUME NEW s \in Stream, Heard(queue, listening, s), Head(queue) # Cancel(s)
      PROVE  Heard(rest, listening, s)
  <2>1. CASE s \in listening
    BY <2>1 DEF Heard
  <2>2. ASSUME NEW i \in 1..Len(queue), queue[i] = Cancel(s)
        PROVE  Heard(rest, listening, s)
    <3>1. i \in 2..Len(queue)
      BY <1>1, <1>3, <2>2
    <3> QED
      BY <1>0, <2>2, <3>1 DEF Heard
  <2> QED
    BY <1>3, <2>1, <2>2 DEF Heard
<1>4. ASSUME NEW s \in Stream, Head(queue) = Send(s), Cancellable(s.method)
      PROVE  Heard(rest, listening, s)
  <2>1. 1 \in 1..Len(queue) /\ queue[1] = Send(s)
    BY <1>1, <1>4
  <2>2. s \in listening \/ \E j \in 2..Len(queue) : queue[j] = Cancel(s)
    BY <1>4, <2>1 DEF Asked
  <2> QED
    BY <1>0, <2>2 DEF Heard
<1> QED
  BY <1>1, <1>2, <1>3, <1>4 DEF Asked, rest

\* What is heard of a stream is not lost by a call, nor by the end of a stream.
LEMMA AppendHeard ==
  ASSUME NEW queue \in Seq(Call), NEW listening, NEW more, NEW m \in Call, NEW s \in Stream,
         Heard(queue, listening, s), listening \subseteq more
  PROVE  Heard(Append(queue, m), more, s)
<1>1. /\ Len(Append(queue, m)) = Len(queue) + 1 /\ Len(queue) \in Nat
      /\ \A i \in 1..Len(queue) : Append(queue, m)[i] = queue[i]
  OBVIOUS
<1> QED
  BY <1>1 DEF Heard

LEMMA TeardownHeard ==
  ASSUME NEW queue \in Seq(Call), NEW listening, NEW t \in Stream, NEW s \in Stream,
         Heard(queue, listening, s), Cancellable(s.method),
         NEW next, next = IF Cancellable(t.method) THEN Append(queue, Cancel(t)) ELSE queue
  PROVE  Heard(next, listening \ {t}, s)
<1>1. Cancel(t) \in Call
  BY CallKinds
<1>2. CASE Cancellable(t.method)
  <2>1. /\ Len(next) = Len(queue) + 1 /\ Len(queue) \in Nat /\ next[Len(next)] = Cancel(t)
        /\ \A i \in 1..Len(queue) : next[i] = queue[i]
    BY <1>1, <1>2
  <2>2. s = t => Heard(next, listening \ {t}, s)
    BY <2>1 DEF Heard
  <2> QED
    BY <2>1, <2>2 DEF Heard
<1>3. CASE ~Cancellable(t.method)
  BY <1>3 DEF Heard
<1> QED
  BY <1>2, <1>3

-----------------------------------------------------------------------------
(* The invariant of the page, its plugin threads and the server. *)

\* A thread that is in the middle of a call has one.
Queues ==
  /\ calls \in [Pages -> Seq(Call)]
  /\ \A p \in Pages : step[p] # "idle" => calls[p] # <<>>

\* The streams of the page and the subscriptions it will make again are all
\* requests that have been made.
Counted ==
  /\ retries > 0 => "qsub" \in Methods
  /\ IsFiniteSet(streams)
  /\ Cardinality(streams) + retries <= made

\* The last connection there can be stays.
Dials ==
  /\ dialed <= MaxConnections
  /\ dialed = MaxConnections => conn = dialed /\ dialed \in open

\* The server works for open connections; what it does for a page whose thread
\* is about to write, it does on the connection the thread writes to.
Served ==
  /\ \A op \in ops : op.conn \in open /\ op.page <= page
  /\ \A p \in Pages : step[p] = "write" => \A op \in ops : op.page = p => op.conn = using[p]

\* An operation of the page, as the stream it was started for.
StreamOf(op) == [id |-> op.id, method |-> op.method]

Hears ==
  /\ Asked(calls[page], streams)
  /\ \A op \in ops : op.page = page /\ Cancellable(op.method)
       => Heard(calls[page], streams, StreamOf(op))

PageInv == TypeOK /\ Queues /\ Counted /\ Dials /\ Served /\ Hears

\* What a step is to the bridge.
LEMMA BridgeParts ==
  ASSUME BridgeInv
  PROVE  /\ Bridge!TypeOK
         /\ open \subseteq {conn}
BY DEF BridgeInv, Bridge!TypeOK, Bridge!GivenUpIsClosed, Bridge!Step

\* A call of the thread of page p returns.
LEMMA ReturnedKeeps ==
  ASSUME TypeOK, Queues, NEW p \in Pages, calls[p] # <<>>, Returned(p)
  PROVE  /\ calls' \in [Pages -> Seq(Call)]
         /\ calls'[p] = Tail(calls[p])
         /\ \A q \in Pages : q # p => calls'[q] = calls[q]
<1>1. Tail(calls[p]) \in Seq(Call)
  BY DEF Queues
<1> QED
  BY <1>1 DEF Returned, Queues

LEMMA DialsStep ==
  ASSUME TypeOK, Dials, BridgeInv, [Next]_vars
  PROVE  Dials'
<1> USE BoundsAssumption, NoneAssumption DEF Dials
<1>1. /\ dialed \in Nat /\ conn \in 1..dialed \cup {None} /\ MaxConnections \in Nat
      /\ open \subseteq {conn} /\ \A p \in Pages : using[p] \in 1..dialed \cup {None}
  BY BridgeParts DEF Bridge!TypeOK
<1>2. CASE UNCHANGED <<dialed, conn, open>>
  BY <1>2
<1>3. ASSUME NEW p \in Pages, Bridge!Dial(p)
      PROVE  Dials'
  BY <1>1, <1>3 DEF Bridge!Dial
<1>4. ASSUME NEW p \in Pages, WriteFails(p)
      PROVE  Dials'
  BY <1>1, <1>4 DEF WriteFails, Bridge!WriteFails
<1>5. ASSUME NEW c \in Connections, ReadFails(c)
      PROVE  Dials'
  BY <1>1, <1>5 DEF ReadFails, Bridge!ReadFails, Bridge!Invalidate
<1>6. ASSUME NEW c \in Connections, Break(c)
      PROVE  Dials'
  BY <1>1, <1>6 DEF Break, Bridge!Break
<1> QED
  BY <1>2, <1>3, <1>4, <1>5, <1>6
     DEF Next, NewRequest, Retry, Unsubscribe, OnMessage, LoadPage, PluginThread, Ensure,
         EnsureFails, SubscribeToDatabase, DatabaseMessage, DatabaseMessageFails, WriteMessage,
         WriteIsLost, EngineStarts, Serve, Finish, Answer, ReadMessage, vars, bridgeVars,
         Bridge!Reuse, Bridge!DialFails, Bridge!SetDatabaseCall, Bridge!ReadConn,
         Bridge!NotConnected, Bridge!WriteMessage, Bridge!WriteIsLost, Bridge!vars

LEMMA CountedStep ==
  ASSUME TypeOK, Counted, [Next]_vars
  PROVE  Counted'
<1> USE DEF Counted
<1>1. /\ Cardinality(streams) \in Nat /\ retries \in Nat /\ made \in Nat
  BY FS_CardinalityType, BoundsAssumption DEF TypeOK
<1>2. ASSUME NEW method, Request(method)
      PROVE  IsFiniteSet(streams') /\ Cardinality(streams') <= Cardinality(streams) + 1
             /\ Cardinality(streams') \in Nat /\ made' = made + 1
  <2> DEFINE s == [id |-> nextId + 1, method |-> method]
  <2>1. streams' = streams \cup {s} /\ made' = made + 1
    BY <1>2 DEF Request
  <2>2. /\ IsFiniteSet(streams \cup {s})
        /\ Cardinality(streams \cup {s}) \in {Cardinality(streams), Cardinality(streams) + 1}
    BY FS_AddElement
  <2> QED
    BY <1>1, <2>1, <2>2
<1>3. ASSUME NEW s \in streams, Teardown(s)
      PROVE  IsFiniteSet(streams') /\ Cardinality(streams') = Cardinality(streams) - 1
  BY <1>1, <1>3, FS_RemoveElement DEF Teardown
<1>4. CASE NewRequest
  BY <1>1, <1>2, <1>4 DEF NewRequest
<1>5. CASE Retry
  BY <1>1, <1>2, <1>5 DEF Retry
<1>6. CASE Unsubscribe
  BY <1>1, <1>3, <1>6 DEF Unsubscribe
<1>7. CASE OnMessage
  <2>1. CASE UNCHANGED <<streams, calls, retries>>
    BY <1>7, <2>1 DEF OnMessage
  <2>2. ASSUME NEW s \in streams, Teardown(s),
               retries' = IF s.method = "qsub" THEN retries + 1 ELSE retries
        PROVE  Counted'
    <3>1. s.method \in Methods
      BY DEF TypeOK, Stream
    <3> QED
      BY <1>1, <1>3, <1>7, <2>2, <3>1 DEF OnMessage
  <2> QED
    BY <1>7, <2>1, <2>2 DEF OnMessage
<1>8. CASE LoadPage
  BY <1>1, <1>8, FS_EmptySet DEF LoadPage
<1>9. CASE UNCHANGED <<streams, retries, made>>
  BY <1>9
<1> QED
  BY <1>4, <1>5, <1>6, <1>7, <1>8, <1>9
     DEF Next, PluginThread, Ensure, EnsureFails, SubscribeToDatabase, DatabaseMessage,
         DatabaseMessageFails, WriteMessage, WriteIsLost, WriteFails, EngineStarts, Serve, Finish,
         Answer, ReadMessage, ReadFails, Break, vars, pageVars

\* A request of the page is one of its streams, and its call goes to the end.
LEMMA RequestMade ==
  ASSUME TypeOK, Queues, NEW method \in Methods, Request(method)
  PROVE  LET s == [id |-> nextId + 1, method |-> method]
         IN  /\ s \in Stream /\ Send(s) \in Call
             /\ streams' = streams \cup {s} /\ made' \in 0..MaxRequests /\ nextId' \in 0..made'
             /\ calls' \in [Pages -> Seq(Call)]
             /\ calls'[page] = Append(calls[page], Send(s))
             /\ \A q \in Pages : q # page => calls'[q] = calls[q]
             /\ \A q \in Pages : calls[q] # <<>> => calls'[q] # <<>>
<1> DEFINE s == [id |-> nextId + 1, method |-> method]
<1>1. /\ page \in Pages /\ nextId \in 0..made /\ made \in 0..MaxRequests /\ made < MaxRequests
      /\ MaxRequests \in Nat /\ made' = made + 1 /\ nextId' = nextId + 1
      /\ calls \in [Pages -> Seq(Call)]
      /\ streams' = streams \cup {s}
      /\ calls' = [calls EXCEPT ![page] = Append(@, Send(s))]
  BY BoundsAssumption DEF TypeOK, Queues, Request
<1>2. s \in Stream /\ made' \in 0..MaxRequests /\ nextId' \in 0..made'
  BY <1>1 DEF Stream
<1>3. Send(s) \in Call
  BY <1>2, CallKinds
<1>4. Append(calls[page], Send(s)) \in Seq(Call) /\ Append(calls[page], Send(s)) # <<>>
  BY <1>1, <1>3
<1> QED
  BY <1>1, <1>2, <1>3, <1>4

\* The end of a stream adds at most a call.
LEMMA TeardownMade ==
  ASSUME TypeOK, Queues, NEW s \in streams, Teardown(s)
  PROVE  /\ s \in Stream /\ streams' = streams \ {s}
         /\ calls' \in [Pages -> Seq(Call)]
         /\ calls'[page] = IF Cancellable(s.method)
                             THEN Append(calls[page], Cancel(s))
                             ELSE calls[page]
         /\ \A q \in Pages : q # page => calls'[q] = calls[q]
         /\ \A q \in Pages : calls[q] # <<>> => calls'[q] # <<>>
<1>1. /\ page \in Pages /\ s \in Stream /\ calls \in [Pages -> Seq(Call)]
      /\ streams' = streams \ {s}
      /\ calls' = IF Cancellable(s.method)
                    THEN [calls EXCEPT ![page] = Append(@, Cancel(s))]
                    ELSE calls
  BY DEF TypeOK, Queues, Teardown
<1>2. Append(calls[page], Cancel(s)) \in Seq(Call) /\ Append(calls[page], Cancel(s)) # <<>>
  BY <1>1, CallKinds
<1> QED
  BY <1>1, <1>2

\* What the page does, in terms of its streams and its calls.
PageStep ==
  \/ \E method \in Methods : Request(method)
  \/ \E s \in streams : Teardown(s) /\ UNCHANGED <<made, nextId>>
  \/ UNCHANGED <<streams, calls, made, nextId>>

LEMMA PageSteps ==
  ASSUME Counted, NewRequest \/ Retry \/ Unsubscribe \/ OnMessage
  PROVE  PageStep
BY DEF NewRequest, Retry, Unsubscribe, OnMessage, PageStep, Counted

\* What the thread of page p does: its call goes on, or returns.
LEMMA ThreadStep ==
  ASSUME TypeOK, Queues, NEW p \in Pages, PluginThread(p) \/ WriteFails(p)
  PROVE  /\ calls[p] # <<>>
         /\ \/ calls' = calls
            \/ Returned(p) /\ step'[p] = "idle"
         /\ step' \in [Pages -> {"idle", "ensured", "write"}]
         /\ \A q \in Pages : q # p => step'[q] = step[q]
         /\ UNCHANGED <<page, nextId, made, streams, retries>>
<1>1. step \in [Pages -> {"idle", "ensured", "write"}]
  BY DEF TypeOK, Bridge!TypeOK, Bridge!Step
<1>2. CASE Ensure(p) \/ EnsureFails(p)
  BY <1>1, <1>2
     DEF Ensure, EnsureFails, Bridge!Reuse, Bridge!Dial, Bridge!DialFails, Bridge!Goto,
         Bridge!vars, pageVars
<1>3. CASE SubscribeToDatabase(p) \/ DatabaseMessage(p) \/ DatabaseMessageFails(p)
  BY <1>1, <1>3
     DEF SubscribeToDatabase, DatabaseMessage, DatabaseMessageFails, Calling,
         Bridge!SetDatabaseCall, Bridge!ReadConn, Bridge!NotConnected, Bridge!Goto,
         Bridge!Return, pageVars
<1>4. CASE WriteMessage(p) \/ WriteIsLost(p) \/ WriteFails(p)
  BY <1>1, <1>4
     DEF WriteMessage, WriteIsLost, WriteFails, Bridge!WriteMessage, Bridge!WriteIsLost,
         Bridge!WriteFails, Bridge!Goto, Bridge!Return, pageVars, Queues
<1> QED
  BY <1>2, <1>3, <1>4 DEF PluginThread

LEMMA QueuesStep ==
  ASSUME TypeOK, Queues, Counted, [Next]_vars
  PROVE  Queues'
<1>1. ASSUME NewRequest \/ Retry \/ Unsubscribe \/ OnMessage
      PROVE  Queues'
  <2>1. UNCHANGED step
    BY <1>1 DEF NewRequest, Retry, Unsubscribe, OnMessage, bridgeVars
  <2>2. calls' \in [Pages -> Seq(Call)] /\ \A q \in Pages : calls[q] # <<>> => calls'[q] # <<>>
    <3>1. PageStep
      BY <1>1, PageSteps
    <3>2. CASE UNCHANGED <<streams, calls, made, nextId>>
      BY <3>2 DEF Queues
    <3> QED
      BY <3>1, <3>2, RequestMade, TeardownMade DEF PageStep
  <2> QED
    BY <2>1, <2>2 DEF Queues
<1>2. CASE LoadPage
  <2> DEFINE first == <<Subscribe>>
  <2>1. first \in Seq(Call) /\ first # <<>>
    BY CallKinds
  <2>2. calls' = [calls EXCEPT ![page + 1] = first] /\ UNCHANGED step
    BY <1>2 DEF LoadPage, bridgeVars
  <2> HIDE DEF first
  <2> QED
    BY <2>1, <2>2 DEF Queues
<1>3. ASSUME NEW p \in Pages, PluginThread(p) \/ WriteFails(p)
      PROVE  Queues'
  <2>1. /\ calls[p] # <<>>
        /\ \/ calls' = calls
           \/ Returned(p) /\ step'[p] = "idle"
        /\ \A q \in Pages : q # p => step'[q] = step[q]
    BY <1>3, ThreadStep
  <2> QED
    BY <2>1, ReturnedKeeps DEF Queues
<1>4. CASE UNCHANGED <<calls, step>>
  BY <1>4 DEF Queues
<1> QED
  BY <1>1, <1>2, <1>3, <1>4
     DEF Next, EngineStarts, Serve, Finish, Answer, ReadMessage, ReadFails, Break, vars,
         bridgeVars, Bridge!ReadFails, Bridge!Break

\* The operation the server starts for a request of page p.
Started(p, s) == [conn |-> using[p], page |-> p, id |-> s.id, method |-> s.method]

LEMMA WriteStarts ==
  ASSUME TypeOK, Queues, Dials, NEW p \in Pages, calls[p] # <<>>, WriteMessage(p)
  PROVE  /\ using[p] \in open
         /\ \/ \E s \in Stream :
                 /\ Head(calls[p]) = Send(s) /\ ops' = ops \cup {Started(p, s)}
                 /\ Started(p, s) \in Operation /\ StreamOf(Started(p, s)) = s
            \/ /\ \A s \in Stream : Head(calls[p]) # Send(s)
               /\ ops' = ops \ {op \in ops : /\ op.conn = using[p] /\ op.id = Head(calls[p]).id
                                             /\ \A other \in ops :
                                                  other.conn = using[p] /\ other.id = Head(calls[p]).id
                                                    => other.page <= op.page}
<1>1. using[p] \in open /\ using[p] \in Connections
  <2>1. /\ using[p] \in open /\ open \subseteq 1..dialed /\ dialed \in Nat /\ dialed <= MaxConnections
        /\ MaxConnections \in Nat
    BY BoundsAssumption DEF WriteMessage, Bridge!WriteMessage, TypeOK, Bridge!TypeOK, Dials
  <2>2. using[p] \in 1..dialed
    BY <2>1
  <2> QED
    BY <2>1, <2>2 DEF Connections
<1>2. Head(calls[p]) \in Call
  BY DEF Queues
<1>3. CASE Head(calls[p]).type = "request"
  <2>1. PICK s \in Stream : Head(calls[p]) = Send(s)
    BY <1>2, <1>3, CallKinds
  <2>2. Head(calls[p]).id = s.id /\ Head(calls[p]).method = s.method
    BY <2>1 DEF Send
  <2>3. ops' = ops \cup {Started(p, s)}
    BY <1>3, <2>2 DEF WriteMessage, Started
  <2>4. Started(p, s) \in Operation
    BY <1>1 DEF Started, Operation, Stream
  <2>5. StreamOf(Started(p, s)) = s
    BY DEF StreamOf, Started, Stream
  <2> QED
    BY <1>1, <2>1, <2>3, <2>4, <2>5
<1>4. CASE Head(calls[p]).type # "request"
  <2>1. \A s \in Stream : Head(calls[p]) # Send(s)
    BY <1>4 DEF Send
  <2> QED
    BY <1>1, <1>4, <2>1 DEF WriteMessage
<1> QED
  BY <1>3, <1>4

LEMMA PageTypesStep ==
  ASSUME TypeOK, Queues, Counted, Dials, Bridge!TypeOK', Counted', [Next]_vars
  PROVE  TypeOK'
<1>1. /\ up' \in BOOLEAN /\ trouble' \in BOOLEAN
  BY DEF TypeOK, Next, NewRequest, Retry, Unsubscribe, OnMessage, LoadPage, PluginThread, Ensure,
         EnsureFails, SubscribeToDatabase, DatabaseMessage, DatabaseMessageFails, WriteMessage,
         WriteIsLost, WriteFails, EngineStarts, Serve, Finish, Answer, ReadMessage, ReadFails,
         Break, Forget, vars, serverVars
<1> DEFINE PageTyped ==
             /\ streams' \subseteq Stream /\ made' \in 0..MaxRequests /\ nextId' \in 0..made'
             /\ page' \in Pages /\ retries' \in Nat
             /\ \A p \in Pages : calls'[p] # <<>> => p <= page'
<1>2. PageTyped
  <2> USE DEF TypeOK
  <2>0. \A p \in Pages : p \in Nat
    BY BoundsAssumption DEF Pages
  <2>1. ASSUME NewRequest \/ Retry \/ Unsubscribe \/ OnMessage
        PROVE  /\ streams' \subseteq Stream /\ made' \in 0..MaxRequests /\ nextId' \in 0..made'
               /\ \A q \in Pages : q # page => calls'[q] = calls[q]
    <3>1. PageStep
      BY <2>1, PageSteps
    <3>2. CASE UNCHANGED <<streams, calls, made, nextId>>
      BY <3>2
    <3>3. ASSUME NEW method \in Methods, Request(method)
          PROVE  /\ streams' \subseteq Stream /\ made' \in 0..MaxRequests /\ nextId' \in 0..made'
                 /\ \A q \in Pages : q # page => calls'[q] = calls[q]
      BY <3>3, RequestMade
    <3>4. ASSUME NEW s \in streams, Teardown(s)
          PROVE  streams' \subseteq Stream /\ \A q \in Pages : q # page => calls'[q] = calls[q]
      BY <3>4, TeardownMade
    <3> QED
      BY <3>1, <3>2, <3>3, <3>4 DEF PageStep
  <2>2. CASE NewRequest \/ Retry \/ Unsubscribe \/ OnMessage
    <3>1. page' = page /\ retries' \in Nat
      BY <2>2 DEF NewRequest, Retry, Unsubscribe, OnMessage
    <3> QED
      BY <2>0, <2>1, <2>2, <3>1
  <2>3. CASE LoadPage
    <3>1. page' \in Pages /\ page' = page + 1 /\ nextId' = 0 /\ streams' = {} /\ retries' = 0
          /\ made' = made
      BY <2>3, BoundsAssumption DEF LoadPage, Pages
    <3>2. \A q \in Pages : q # page' => calls'[q] = calls[q]
      BY <2>3, <3>1 DEF LoadPage, Queues
    <3> QED
      BY <2>0, <3>1, <3>2
  <2>4. ASSUME NEW p \in Pages, PluginThread(p) \/ WriteFails(p)
        PROVE  PageTyped
    <3>1. UNCHANGED <<page, nextId, made, streams, retries>>
      BY <2>4, ThreadStep
    <3>2. calls[p] # <<>> /\ \A q \in Pages : q # p => calls'[q] = calls[q]
      BY <2>4, ThreadStep, ReturnedKeeps
    <3>3. retries \in Nat
      BY BoundsAssumption
    <3> QED
      BY <3>1, <3>2, <3>3
  <2>5. CASE UNCHANGED <<page, nextId, made, streams, retries, calls>>
    BY <2>5, BoundsAssumption
  <2> HIDE DEF PageTyped, TypeOK
  <2> QED
    BY <2>2, <2>3, <2>4, <2>5
       DEF Next, EngineStarts, Serve, Finish, Answer, ReadMessage, ReadFails, Break, vars, pageVars
<1>3. retries' \in 0..MaxRequests
  BY <1>2, FS_CardinalityType, BoundsAssumption DEF Counted
<1>4. ops' \subseteq Operation
  <2>1. ASSUME NEW p \in Pages, WriteMessage(p)
        PROVE  ops' \subseteq Operation
    <3>1. calls[p] # <<>>
      BY <2>1, ThreadStep DEF PluginThread
    <3> QED
      BY <2>1, <3>1, WriteStarts DEF TypeOK
  <2>2. ASSUME ~\E p \in Pages : WriteMessage(p)
        PROVE  ops' \subseteq ops
    BY <2>2
       DEF Next, NewRequest, Retry, Unsubscribe, OnMessage, LoadPage, PluginThread, Ensure,
         EnsureFails, SubscribeToDatabase, DatabaseMessage, DatabaseMessageFails,
         WriteIsLost, WriteFails, EngineStarts, Serve, Finish, Answer, ReadMessage, ReadFails,
         Break, Forget, vars, serverVars
  <2> QED
    BY <2>1, <2>2 DEF TypeOK
<1>5. replies' \in [Connections -> Seq(Reply)] /\ events' \in Seq(Reply)
  <2> USE DEF TypeOK
  <2>1. ASSUME NEW op \in ops, NEW type \in Answers(op.method), Answer(op, type)
        PROVE  replies' \in [Connections -> Seq(Reply)] /\ events' \in Seq(Reply)
    <3>1. [op |-> op, type |-> type] \in Reply /\ op.conn \in Connections
      BY <2>1 DEF Reply, ReplyType, Answers, Operation
    <3>2. Append(replies[op.conn], [op |-> op, type |-> type]) \in Seq(Reply)
      BY <3>1
    <3> QED
      BY <2>1, <3>2 DEF Answer
  <2>2. ASSUME NEW c \in Connections, ReadMessage(c)
        PROVE  replies' \in [Connections -> Seq(Reply)] /\ events' \in Seq(Reply)
    <3>1. Head(replies[c]) \in Reply /\ Tail(replies[c]) \in Seq(Reply)
      BY <2>2 DEF ReadMessage
    <3>2. Append(events, Head(replies[c])) \in Seq(Reply)
      BY <3>1
    <3> QED
      BY <2>2, <3>1, <3>2 DEF ReadMessage
  <2>3. ASSUME NEW c, Forget(c), UNCHANGED events
        PROVE  replies' \in [Connections -> Seq(Reply)] /\ events' \in Seq(Reply)
    <3>1. <<>> \in Seq(Reply)
      OBVIOUS
    <3> QED
      BY <2>3, <3>1 DEF Forget
  <2>4. CASE OnMessage
    BY <2>4 DEF OnMessage, serverVars
  <2>5. CASE LoadPage
    BY <2>5 DEF LoadPage, serverVars
  <2>6. CASE UNCHANGED <<replies, events>>
    BY <2>6
  <2> QED
    BY <2>1, <2>2, <2>3, <2>4, <2>5, <2>6
       DEF Next, NewRequest, Retry, Unsubscribe, PluginThread, Ensure, EnsureFails,
           SubscribeToDatabase, DatabaseMessage, DatabaseMessageFails, WriteMessage, WriteIsLost,
           WriteFails, EngineStarts, Serve, Finish, ReadFails, Break, vars, serverVars
<1> QED
  BY <1>1, <1>2, <1>3, <1>4, <1>5 DEF TypeOK

\* An operation is only started by the call of a plugin thread.
LEMMA OpsStep ==
  ASSUME [Next]_vars, ~\E p \in Pages : WriteMessage(p)
  PROVE  ops' \subseteq ops
BY DEF Next, NewRequest, Retry, Unsubscribe, OnMessage, LoadPage, PluginThread, Ensure, EnsureFails,
       SubscribeToDatabase, DatabaseMessage, DatabaseMessageFails, WriteIsLost, WriteFails,
       EngineStarts, Serve, Finish, Answer, ReadMessage, ReadFails, Break, Forget, vars, serverVars

LEMMA ServedStep ==
  ASSUME TypeOK, Queues, Dials, Served, BridgeInv, TypeOK', [Next]_vars
  PROVE  Served'
<1>1. /\ open \subseteq {conn} /\ open \subseteq 1..dialed
      /\ page \in Nat /\ page' \in Nat /\ page <= page' /\ \A p \in Pages : p \in Nat
      /\ step \in [Pages -> Bridge!Step] /\ using \in [Pages -> 1..dialed \cup {None}]
      /\ \A op \in ops' : op.page \in Nat
  <2>1. page \in Pages /\ page' \in {page, page + 1}
    BY DEF TypeOK, Next, NewRequest, Retry, Unsubscribe, OnMessage, LoadPage, PluginThread, Ensure,
           EnsureFails, SubscribeToDatabase, DatabaseMessage, DatabaseMessageFails, WriteMessage,
           WriteIsLost, WriteFails, EngineStarts, Serve, Finish, Answer, ReadMessage, ReadFails,
           Break, vars, pageVars
  <2>2. \A p \in Pages : p \in Nat
    BY BoundsAssumption DEF Pages
  <2>3. \A op \in ops' : op.page \in Pages
    BY DEF TypeOK, Operation
  <2> QED
    BY <2>1, <2>2, <2>3, BridgeParts DEF Bridge!TypeOK
<1>2. ASSUME NEW p \in Pages, WriteMessage(p)
      PROVE  Served'
  <2>1. calls[p] # <<>>
    BY <1>2, ThreadStep DEF PluginThread
  <2>2. p <= page /\ page' = page /\ open' = open /\ step'[p] = "idle"
        /\ \A q \in Pages : q # p => step'[q] = step[q] /\ using'[q] = using[q]
    BY <1>1, <1>2, <2>1
       DEF WriteMessage, TypeOK, pageVars, Bridge!WriteMessage, Bridge!Return, Bridge!Goto
  <2>3. ASSUME NEW op \in ops', op \notin ops
        PROVE  op.conn \in open /\ op.page = p
    <3>1. using[p] \in open
      BY <1>2, <2>1, WriteStarts
    <3>2. PICK s \in Stream : op = Started(p, s)
      BY <1>2, <2>1, <2>3, WriteStarts
    <3> QED
      BY <3>1, <3>2 DEF Started
  <2>4. ASSUME NEW op \in ops
        PROVE  op.conn \in open' /\ op.page <= page'
    BY <2>2, <2>4 DEF Served
  <2>5. ASSUME NEW op \in ops'
        PROVE  op.conn \in open' /\ op.page <= page'
    BY <2>2, <2>3, <2>4, <2>5
  <2>6. ASSUME NEW q \in Pages, step'[q] = "write", NEW op \in ops', op.page = q
        PROVE  op.conn = using'[q]
    <3>1. q # p /\ step[q] = "write" /\ using'[q] = using[q]
      BY <2>2, <2>6
    <3>2. op \in ops
      BY <2>3, <2>6, <3>1
    <3> QED
      BY <2>6, <3>1, <3>2 DEF Served
  <2> QED
    BY <2>5, <2>6 DEF Served
<1>3. ASSUME ~\E p \in Pages : WriteMessage(p)
      PROVE  \A op \in ops' : op.conn \in open' /\ op.page <= page'
  <2>1. ops' \subseteq ops
    BY <1>3, OpsStep
  <2>2. \A op \in ops' : op.page <= page'
    BY <1>1, <2>1 DEF Served
  <2>3. ASSUME NEW c, Forget(c), open' = open \ {c}
        PROVE  \A op \in ops' : op.conn \in open'
    <3>1. ops' = {op \in ops : op.conn # c}
      BY <2>3 DEF Forget
    <3>2. \A op \in ops : op.conn \in open
      BY DEF Served
    <3> QED
      BY <2>3, <3>1, <3>2
  <2>4. CASE open \subseteq open'
    BY <2>1, <2>2, <2>4 DEF Served
  <2>5. ASSUME NEW p \in Pages, WriteFails(p)
        PROVE  \A op \in ops' : op.conn \in open'
    BY <2>3, <2>5 DEF WriteFails, Bridge!WriteFails, Bridge!Invalidate
  <2>6. ASSUME NEW c \in Connections, ReadFails(c)
        PROVE  open' = open
    BY <2>6 DEF ReadFails, Bridge!ReadFails, Bridge!Invalidate
  <2>7. ASSUME NEW c \in Connections, Break(c)
        PROVE  \A op \in ops' : op.conn \in open'
    BY <2>3, <2>7 DEF Break, Bridge!Break
  <2>8. \/ open \subseteq open'
        \/ \E p \in Pages : WriteFails(p)
        \/ \E c \in Connections : ReadFails(c) \/ Break(c)
    BY <1>3
       DEF Next, NewRequest, Retry, Unsubscribe, OnMessage, LoadPage, PluginThread, Ensure,
           EnsureFails, SubscribeToDatabase, DatabaseMessage, DatabaseMessageFails, WriteIsLost,
           EngineStarts, Serve, Finish, Answer, ReadMessage, vars, bridgeVars, Bridge!Reuse,
           Bridge!Dial, Bridge!DialFails, Bridge!SetDatabaseCall, Bridge!ReadConn,
           Bridge!NotConnected, Bridge!WriteIsLost, Bridge!vars
  <2> QED
    BY <2>2, <2>4, <2>5, <2>6, <2>7, <2>8
<1>4. ASSUME ~\E p \in Pages : WriteMessage(p), NEW p \in Pages, step'[p] = "write",
             NEW op \in ops', op.page = p
      PROVE  op.conn = using'[p]
  <2>1. op \in ops /\ op.conn = conn
    BY <1>1, <1>4, OpsStep DEF Served
  <2>2. CASE step[p] = "write" /\ using'[p] = using[p]
    BY <1>4, <2>1, <2>2 DEF Served
  <2>3. CASE using'[p] = conn
    BY <2>1, <2>3
  <2>4. (step[p] = "write" /\ using'[p] = using[p]) \/ using'[p] = conn
    <3>1. ASSUME NEW q \in Pages, PluginThread(q) \/ WriteFails(q)
          PROVE  (step[p] = "write" /\ using'[p] = using[p]) \/ using'[p] = conn
      BY <1>1, <1>4, <3>1
         DEF PluginThread, Ensure, EnsureFails, SubscribeToDatabase, DatabaseMessage,
             DatabaseMessageFails, WriteMessage, WriteIsLost, WriteFails, Bridge!Reuse,
             Bridge!Dial, Bridge!DialFails, Bridge!SetDatabaseCall, Bridge!ReadConn,
             Bridge!NotConnected, Bridge!WriteIsLost, Bridge!WriteFails, Bridge!vars, Bridge!Goto,
             Bridge!Return
    <3>2. CASE UNCHANGED <<step, using>>
      BY <1>4, <3>2
    <3> QED
      BY <3>1, <3>2
         DEF Next, NewRequest, Retry, Unsubscribe, OnMessage, LoadPage, EngineStarts, Serve,
             Finish, Answer, ReadMessage, ReadFails, Break, vars, bridgeVars, Bridge!ReadFails,
             Bridge!Break
  <2> QED
    BY <2>2, <2>3, <2>4
<1> QED
  BY <1>2, <1>3, <1>4 DEF Served

\* A call that cancels an operation of the page does so, unless the server
\* forgets the operation together with its connection.
LEMMA CancelStops ==
  ASSUME TypeOK, Queues, Dials, Served, BridgeInv, calls[page] # <<>>, Returned(page),
         PluginThread(page) \/ WriteFails(page), NEW op \in ops', op \in ops, op.page = page,
         Head(calls[page]) = Cancel(StreamOf(op))
  PROVE  FALSE
<1>1. /\ open \subseteq {conn} /\ op.conn \in open /\ open \subseteq Nat /\ page \in Pages
      /\ StreamOf(op) \in Stream /\ page \in Nat
  <2>1. open \subseteq {conn} /\ open \subseteq 1..dialed /\ page \in Pages /\ op \in Operation
    BY BridgeParts DEF Bridge!TypeOK, TypeOK
  <2>2. StreamOf(op) \in Stream
    BY <2>1 DEF StreamOf, Operation, Stream
  <2> QED
    BY <2>1, <2>2, BoundsAssumption DEF Served, Pages
<1>2. Head(calls[page]).type = "cancel" /\ Head(calls[page]).id = op.id
  BY DEF Cancel, StreamOf
<1>3. calls' # calls
  <2>1. calls'[page] = Tail(calls[page])
    BY <1>1, ReturnedKeeps
  <2>2. Len(Tail(calls[page])) # Len(calls[page])
    BY <1>1 DEF Queues
  <2> QED
    BY <2>1, <2>2
<1>4. CASE EnsureFails(page) \/ DatabaseMessageFails(page) \/ WriteIsLost(page)
  BY <1>1, <1>4, NoneAssumption
     DEF EnsureFails, DatabaseMessageFails, WriteIsLost, Bridge!DialFails, Bridge!NotConnected,
         Bridge!WriteIsLost
<1>5. CASE SubscribeToDatabase(page)
  BY <1>2, <1>5 DEF SubscribeToDatabase, Calling
<1>6. CASE WriteFails(page)
  <2>1. op.conn = using[page]
    BY <1>1, <1>6 DEF WriteFails, Bridge!WriteFails, Served
  <2> QED
    BY <1>6, <2>1 DEF WriteFails, Forget
<1>7. CASE WriteMessage(page)
  <2>1. op.conn = using[page]
    BY <1>1, <1>7 DEF WriteMessage, Bridge!WriteMessage, Served
  <2>2. \A s \in Stream : Head(calls[page]) # Send(s)
    BY <1>1, CallKinds
  <2>3. \A other \in ops : other.page <= op.page
    BY DEF Served
  <2> QED
    BY <1>1, <1>2, <1>7, <2>1, <2>2, <2>3, WriteStarts
<1> QED
  BY <1>3, <1>4, <1>5, <1>6, <1>7 DEF PluginThread, Ensure, DatabaseMessage

LEMMA HearsStep ==
  ASSUME TypeOK, Queues, Counted, Dials, Served, Hears, BridgeInv, [Next]_vars
  PROVE  Hears'
<1>1. /\ page \in Pages /\ calls[page] \in Seq(Call)
      /\ Asked(calls[page], streams)
      /\ \A op \in ops : op.page = page /\ Cancellable(op.method)
           => StreamOf(op) \in Stream /\ Cancellable(StreamOf(op).method)
              /\ Heard(calls[page], streams, StreamOf(op))
  <2>1. \A op \in ops : StreamOf(op) \in Stream /\ StreamOf(op).method = op.method
    BY DEF TypeOK, Operation, StreamOf, Stream
  <2> QED
    BY <2>1 DEF TypeOK, Queues, Hears
<1>2. CASE NewRequest \/ Retry \/ Unsubscribe \/ OnMessage
  <2>1. UNCHANGED <<page, ops>>
    BY <1>2 DEF NewRequest, Retry, Unsubscribe, OnMessage, serverVars
  <2>2. CASE UNCHANGED <<streams, calls, made, nextId>>
    BY <1>1, <2>1, <2>2 DEF Hears
  <2>3. ASSUME NEW method \in Methods, Request(method)
        PROVE  Hears'
    <3> DEFINE s == [id |-> nextId + 1, method |-> method]
    <3>1. /\ s \in Stream /\ Send(s) \in Call /\ streams' = streams \cup {s}
          /\ calls'[page] = Append(calls[page], Send(s))
      BY <2>3, RequestMade
    <3> HIDE DEF s
    <3>2. streams \subseteq streams' /\ \A t \in Stream : Send(s) = Send(t) => t \in streams'
      BY <3>1, CallKinds
    <3>3. Asked(calls'[page], streams')
      BY <1>1, <3>1, <3>2, AppendAsked
    <3>4. ASSUME NEW t \in Stream, Heard(calls[page], streams, t)
          PROVE  Heard(calls'[page], streams', t)
      BY <1>1, <3>1, <3>2, <3>4, AppendHeard
    <3> QED
      BY <1>1, <2>1, <3>3, <3>4 DEF Hears
  <2>4. ASSUME NEW s \in streams, Teardown(s)
        PROVE  Hears'
    <3>1. /\ s \in Stream /\ streams' = streams \ {s}
          /\ calls'[page] = IF Cancellable(s.method)
                              THEN Append(calls[page], Cancel(s))
                              ELSE calls[page]
      BY <2>4, TeardownMade
    <3>2. Asked(calls'[page], streams')
      BY <1>1, <3>1, TeardownAsked
    <3>3. ASSUME NEW t \in Stream, Cancellable(t.method), Heard(calls[page], streams, t)
          PROVE  Heard(calls'[page], streams', t)
      BY <1>1, <3>1, <3>3, TeardownHeard
    <3> QED
      BY <1>1, <2>1, <3>2, <3>3 DEF Hears
  <2> QED
    BY <1>2, <2>2, <2>3, <2>4, PageSteps DEF PageStep
<1>3. CASE LoadPage
  <2>1. page' = page + 1 /\ page' \in Pages /\ streams' = {} /\ ops' = ops
        /\ calls'[page'] = <<Subscribe>>
    BY <1>1, <1>3, BoundsAssumption DEF LoadPage, Pages, Queues, serverVars
  <2>2. \A op \in ops : op.page # page'
    <3>1. \A op \in ops : op.page \in Nat /\ op.page <= page
      BY DEF TypeOK, Operation, Pages, Served
    <3> QED
      BY <1>1, <2>1, <3>1 DEF Pages
  <2>3. Asked(calls'[page'], streams')
    <3>1. /\ Len(calls'[page']) = 1 /\ calls'[page'][1] = Subscribe
          /\ \A s \in Stream : Send(s) # Subscribe
      BY <2>1, CallKinds
    <3> QED
      BY <3>1 DEF Asked
  <2> QED
    BY <2>1, <2>2, <2>3 DEF Hears
<1>4. ASSUME NEW p \in Pages, PluginThread(p) \/ WriteFails(p)
      PROVE  Hears'
  <2>1. /\ calls[p] # <<>> /\ UNCHANGED <<page, streams>>
        /\ \/ calls' = calls
           \/ Returned(p)
    BY <1>4, ThreadStep
  <2>2. ASSUME NEW op \in ops', op \notin ops
        PROVE  WriteMessage(p) /\ \E s \in Stream :
                 Head(calls[p]) = Send(s) /\ op = Started(p, s) /\ StreamOf(op) = s
    <3>1. WriteMessage(p)
      BY <1>4, <2>2
         DEF PluginThread, Ensure, EnsureFails, SubscribeToDatabase, DatabaseMessage,
             DatabaseMessageFails, WriteIsLost, WriteFails, Forget, serverVars
    <3> QED
      BY <2>1, <2>2, <3>1, WriteStarts
  <2>3. CASE p # page
    <3>1. calls'[page] = calls[page]
      BY <1>1, <2>1, <2>3, ReturnedKeeps
    <3>2. ASSUME NEW op \in ops', op.page = page
          PROVE  op \in ops
      BY <2>2, <2>3, <3>2 DEF Started
    <3> QED
      BY <1>1, <2>1, <3>1, <3>2 DEF Hears
  <2>4. CASE p = page /\ ~Returned(p)
    <3>1. calls' = calls
      BY <2>1, <2>4
    <3>2. ops' \subseteq ops
      BY <2>2, <2>4 DEF WriteMessage
    <3> QED
      BY <1>1, <2>1, <3>1, <3>2 DEF Hears
  <2>5. CASE p = page /\ Returned(p)
    <3>1. calls'[page] = Tail(calls[page])
      BY <2>1, <2>5, ReturnedKeeps
    <3>2. Asked(calls'[page], streams')
      BY <1>1, <2>1, <2>5, <3>1, TailAsked
    <3>3. ASSUME NEW op \in ops', op.page = page, Cancellable(op.method)
          PROVE  Heard(calls'[page], streams', StreamOf(op))
      <4>1. CASE op \in ops
        <5>1. Head(calls[page]) # Cancel(StreamOf(op))
          BY <1>4, <2>1, <2>5, <3>3, <4>1, CancelStops
        <5> QED
          BY <1>1, <2>1, <2>5, <3>1, <3>3, <4>1, <5>1, TailAsked
      <4>2. CASE op \notin ops
        <5>1. PICK s \in Stream : Head(calls[page]) = Send(s) /\ op = Started(p, s)
                                  /\ StreamOf(op) = s
          BY <2>2, <2>5, <4>2
        <5>2. Cancellable(s.method)
          BY <3>3, <5>1 DEF Started
        <5> QED
          BY <1>1, <2>1, <2>5, <3>1, <5>1, <5>2, TailAsked
      <4> QED
        BY <4>1, <4>2
    <3> QED
      BY <2>1, <3>2, <3>3 DEF Hears
  <2> QED
    BY <2>3, <2>4, <2>5
<1>5. ASSUME UNCHANGED <<page, streams, calls>>, ops' \subseteq ops
      PROVE  Hears'
  BY <1>1, <1>5 DEF Hears
<1> QED
  BY <1>2, <1>3, <1>4, <1>5
     DEF Next, EngineStarts, Serve, Finish, Answer, ReadMessage, ReadFails, Break, Forget, vars,
         pageVars, serverVars

-----------------------------------------------------------------------------
(* The theorems about the page. *)

LEMMA PageInvHoldsAtFirst == ASSUME Init, Bridge!TypeOK PROVE PageInv
<1>1. 1 \in Pages /\ 0 \in 0..MaxRequests /\ 0 \in 0..0 /\ Connections \subseteq Nat
  BY BoundsAssumption DEF Pages, Connections
<1>2. /\ calls \in [Pages -> Seq(Call)] /\ calls[1] = <<Subscribe>>
      /\ \A p \in Pages : calls[p] # <<>> => p = 1
  <2> DEFINE first == <<Subscribe>>
  <2>1. first \in Seq(Call) /\ <<>> \in Seq(Call)
    BY CallKinds
  <2>2. calls = [p \in Pages |-> IF p = 1 THEN first ELSE <<>>]
    BY DEF Init
  <2> HIDE DEF first
  <2>3. calls \in [Pages -> Seq(Call)] /\ calls[1] = first
    BY <1>1, <2>1, <2>2
  <2>4. \A p \in Pages : calls[p] # <<>> => p = 1
    BY <2>2
  <2> QED
    BY <2>3, <2>4 DEF first
<1>3. TypeOK
  <2>1. <<>> \in Seq(Reply)
    OBVIOUS
  <2>2. replies \in [Connections -> Seq(Reply)] /\ events \in Seq(Reply)
    BY <2>1 DEF Init
  <2>3. page \in Pages /\ \A p \in Pages : calls[p] # <<>> => p <= page
    BY <1>1, <1>2 DEF Init
  <2>4. nextId \in 0..made /\ made \in 0..MaxRequests /\ retries \in 0..MaxRequests
    BY <1>1 DEF Init
  <2> QED
    BY <2>2, <2>3, <2>4 DEF Init, TypeOK
<1>4. Queues
  BY <1>2 DEF Init, Queues, Bridge!Init
<1>5. Counted
  BY FS_EmptySet DEF Init, Counted
<1>6. Dials
  BY BoundsAssumption DEF Init, Dials, Bridge!Init
<1>7. Served
  BY DEF Init, Served
<1>8. Hears
  <2>1. Len(calls[1]) = 1 /\ calls[1][1] = Subscribe /\ \A s \in Stream : Send(s) # Subscribe
    BY <1>2, CallKinds
  <2> QED
    BY <2>1 DEF Init, Hears, Asked
<1> QED
  BY <1>3, <1>4, <1>5, <1>6, <1>7, <1>8 DEF PageInv

LEMMA PageInvStep ==
  ASSUME PageInv, BridgeInv, Bridge!TypeOK', [Next]_vars
  PROVE  PageInv'
<1>1. TypeOK /\ Queues /\ Counted /\ Dials /\ Served /\ Hears
  BY DEF PageInv
<1>2. Counted'
  BY <1>1, CountedStep
<1>3. TypeOK'
  BY <1>1, <1>2, PageTypesStep
<1>4. Queues'
  BY <1>1, QueuesStep
<1>5. Dials'
  BY <1>1, DialsStep
<1>6. Served'
  BY <1>1, <1>3, ServedStep
<1>7. Hears'
  BY <1>1, HearsStep
<1> QED
  BY <1>2, <1>3, <1>4, <1>5, <1>6, <1>7 DEF PageInv

\* The invariant of the page, its plugin threads and the server holds for any
\* number of pages, connections and requests.
THEOREM PageInvariant == Spec => []PageInv
<1>1. BridgeInv => Bridge!TypeOK
  BY BridgeParts
<1>2. Init /\ Bridge!TypeOK => PageInv
  BY PageInvHoldsAtFirst
<1>3. PageInv /\ BridgeInv /\ Bridge!TypeOK' /\ [Next]_vars => PageInv'
  BY PageInvStep
<1> QED
  BY <1>1, <1>2, <1>3, PageBridgeInvariant, PTL DEF Spec

\* Ids, streams, operations and replies are of their types: in particular a page
\* never waits to retry more subscriptions than requests have been made.
THEOREM PageTypes == Spec => []TypeOK
<1>1. PageInv => TypeOK
  BY DEF PageInv
<1> QED
  BY <1>1, PageInvariant, PTL

\* Whatever fails or breaks, and however many pages have shared the connection, an
\* operation the server could stream to the loaded page for ever is one the page
\* listens to, or whose cancel is under way.
THEOREM NothingOrphaned == Spec => []NoOrphanOperation
<1>1. ASSUME PageInv
      PROVE  NoOrphanOperation
  <2> SUFFICES ASSUME NEW op \in ops, op.page = page, op.method \in {"query", "qsub"}
               PROVE  \/ [id |-> op.id, method |-> op.method] \in streams
                      \/ \E i \in DOMAIN calls[page] : calls[page][i] = Cancel(op)
    BY DEF NoOrphanOperation
  <2>1. Heard(calls[page], streams, StreamOf(op))
    BY <1>1 DEF PageInv, Hears, Cancellable
  <2>2. Cancel(StreamOf(op)) = Cancel(op)
    BY DEF Cancel, StreamOf
  <2>3. DOMAIN calls[page] = 1..Len(calls[page])
    BY <1>1 DEF PageInv, TypeOK, Queues
  <2> QED
    BY <2>1, <2>2, <2>3 DEF Heard, StreamOf
<1> QED
  BY <1>1, PageInvariant, PTL

-----------------------------------------------------------------------------
(* Whose reply is whose. *)

InQueue(queue, m) == \E i \in 1..Len(queue) : queue[i] = m

\* No request waits twice.
OnlyOnce(queue) ==
  \A i, j \in 1..Len(queue), s \in Stream : queue[i] = Send(s) /\ queue[j] = Send(s) => i = j

\* An operation that the server started for stream s of page p.
Of(op, p, s) == op.page = p /\ StreamOf(op) = s

\* The request of stream s of page p has reached the server: it is being served,
\* or a reply is on its way.
Trail(p, s) ==
  \/ \E op \in ops : Of(op, p, s)
  \/ \E c \in Connections : \E i \in 1..Len(replies[c]) : Of(replies[c][i].op, p, s)
  \/ \E i \in 1..Len(events) : Of(events[i].op, p, s)

\* Stream s of page p is open, or its request waits or has reached the server.
Bears(p, s) ==
  \/ p = page /\ s \in streams
  \/ InQueue(calls[p], Send(s))
  \/ Trail(p, s)

\* An id stands for one request of its page, from the page to the last reply; no
\* page has used an id beyond its counter, and one that is to come has used none.
IdsUnique ==
  /\ \A p \in Pages, s, t \in Stream : Bears(p, s) /\ Bears(p, t) /\ s.id = t.id => s = t
  /\ \A s \in Stream : Bears(page, s) => s.id <= nextId
  /\ \A p \in Pages, s \in Stream : Bears(p, s) => p <= page

\* A request waits once, and only until the server starts its one operation.
Once ==
  /\ \A p \in Pages : OnlyOnce(calls[p])
  /\ \A p \in Pages, s \in Stream : InQueue(calls[p], Send(s)) => ~Trail(p, s)
  /\ \A op, other \in ops : op.page = other.page /\ op.id = other.id => op = other

\* A call added at the end of a queue, if it is no request that waits there.
LEMMA AppendOnce ==
  ASSUME NEW queue \in Seq(Call), NEW m \in Call, OnlyOnce(queue),
         \A s \in Stream : m = Send(s) => ~InQueue(queue, m)
  PROVE  /\ OnlyOnce(Append(queue, m))
         /\ \A x : InQueue(Append(queue, m), x) => InQueue(queue, x) \/ x = m
<1> DEFINE longer == Append(queue, m)
<1>1. /\ Len(longer) = Len(queue) + 1 /\ Len(queue) \in Nat
      /\ \A i \in 1..Len(longer) : i = Len(longer) \/ i \in 1..Len(queue)
      /\ longer[Len(longer)] = m
      /\ \A i \in 1..Len(queue) : longer[i] = queue[i]
  OBVIOUS
<1> HIDE DEF longer
<1> QED
  BY <1>1 DEF OnlyOnce, InQueue, longer

\* The first call taken from a queue: its request waits no longer.
LEMMA TailOnce ==
  ASSUME NEW queue \in Seq(Call), queue # <<>>, OnlyOnce(queue)
  PROVE  /\ OnlyOnce(Tail(queue))
         /\ \A x : InQueue(Tail(queue), x) => InQueue(queue, x)
         /\ InQueue(queue, Head(queue))
         /\ \A s \in Stream : Head(queue) = Send(s) => ~InQueue(Tail(queue), Send(s))
<1> DEFINE rest == Tail(queue)
<1>1. /\ Len(rest) = Len(queue) - 1 /\ Len(queue) \in Nat \ {0} /\ Head(queue) = queue[1]
      /\ \A i \in 1..Len(rest) : i + 1 \in 1..Len(queue) /\ i + 1 # 1 /\ rest[i] = queue[i + 1]
      /\ 1 \in 1..Len(queue)
  OBVIOUS
<1> HIDE DEF rest
<1>2. ASSUME NEW i \in 1..Len(rest), NEW j \in 1..Len(rest), NEW s \in Stream,
             rest[i] = Send(s), rest[j] = Send(s)
      PROVE  i = j
  <2>1. i + 1 = j + 1
    BY <1>1, <1>2 DEF OnlyOnce
  <2> QED
    BY <1>1, <2>1
<1> QED
  BY <1>1, <1>2 DEF OnlyOnce, InQueue, rest

\* A step that only moves a request from its queue to the server, or ends what is there.
LEMMA MovesKeep ==
  ASSUME TypeOK, IdsUnique, Once, UNCHANGED <<page, nextId>>, streams' \subseteq streams,
         \A p \in Pages : OnlyOnce(calls'[p]),
         \A p \in Pages, s \in Stream :
           InQueue(calls'[p], Send(s)) => InQueue(calls[p], Send(s)),
         \A p \in Pages, s \in Stream : Trail(p, s)' =>
           Trail(p, s) \/ (InQueue(calls[p], Send(s)) /\ ~InQueue(calls'[p], Send(s))),
         ops' \subseteq ops
  PROVE  IdsUnique' /\ Once'
<1>1. \A p \in Pages, s \in Stream : Bears(p, s)' => Bears(p, s)
  BY DEF Bears
<1>2. IdsUnique'
  <2>1. page \in Pages
    BY DEF TypeOK
  <2> QED
    BY <1>1, <2>1 DEF IdsUnique
<1> QED
  BY <1>2 DEF Once

\* Replies that are added for an operation, moved on or dropped leave no new trace.
LEMMA TrailShrinks ==
  ASSUME TypeOK, ops' \subseteq ops, NEW p, NEW s, Trail(p, s)',
         \A c \in Connections :
           \/ replies'[c] = replies[c]
           \/ replies'[c] = <<>>
           \/ replies[c] # <<>> /\ replies'[c] = Tail(replies[c])
           \/ \E op \in ops, type \in ReplyType :
                replies'[c] = Append(replies[c], [op |-> op, type |-> type]),
         \/ events' = events
         \/ events' = <<>>
         \/ events # <<>> /\ events' = Tail(events)
         \/ \E c \in Connections : replies[c] # <<>> /\ events' = Append(events, Head(replies[c]))
  PROVE  Trail(p, s)
<1>0. events \in Seq(Reply) /\ \A c \in Connections : replies[c] \in Seq(Reply)
  BY DEF TypeOK
<1>1. CASE \E op \in ops' : Of(op, p, s)
  BY <1>1 DEF Trail
<1>2. ASSUME NEW c \in Connections, NEW i \in 1..Len(replies'[c]), Of(replies'[c][i].op, p, s)
      PROVE  Trail(p, s)
  <2>1. CASE replies'[c] = replies[c]
    BY <1>2, <2>1 DEF Trail
  <2>2. CASE replies'[c] = <<>>
    BY <1>2, <2>2
  <2>3. CASE replies[c] # <<>> /\ replies'[c] = Tail(replies[c])
    <3>1. i + 1 \in 1..Len(replies[c]) /\ replies'[c][i] = replies[c][i + 1]
      BY <1>0, <1>2, <2>3
    <3> QED
      BY <1>2, <3>1 DEF Trail
  <2>4. ASSUME NEW op \in ops, NEW type \in ReplyType,
               replies'[c] = Append(replies[c], [op |-> op, type |-> type])
        PROVE  Trail(p, s)
    <3> DEFINE r == [op |-> op, type |-> type]
    <3>1. r \in Reply /\ r.op = op
      BY <2>4 DEF Reply, TypeOK
    <3>2. replies'[c] = Append(replies[c], r)
      BY <2>4
    <3> HIDE DEF r
    <3>3. (i \in 1..Len(replies[c]) /\ replies'[c][i] = replies[c][i]) \/ replies'[c][i] = r
      BY <1>0, <1>2, <3>1, <3>2
    <3> QED
      BY <1>2, <3>1, <3>3 DEF Trail
  <2> QED
    BY <2>1, <2>2, <2>3, <2>4
<1>3. ASSUME NEW i \in 1..Len(events'), Of(events'[i].op, p, s)
      PROVE  Trail(p, s)
  <2>1. CASE events' = events
    BY <1>3, <2>1 DEF Trail
  <2>2. CASE events' = <<>>
    BY <1>3, <2>2
  <2>3. CASE events # <<>> /\ events' = Tail(events)
    <3>1. i + 1 \in 1..Len(events) /\ events'[i] = events[i + 1]
      BY <1>0, <1>3, <2>3
    <3> QED
      BY <1>3, <3>1 DEF Trail
  <2>4. ASSUME NEW c \in Connections, replies[c] # <<>>,
               events' = Append(events, Head(replies[c]))
        PROVE  Trail(p, s)
    <3> DEFINE r == Head(replies[c])
    <3>1. r \in Reply /\ 1 \in 1..Len(replies[c]) /\ replies[c][1] = r
      BY <1>0, <2>4
    <3>2. events' = Append(events, r)
      BY <2>4
    <3> HIDE DEF r
    <3>3. (i \in 1..Len(events) /\ events'[i] = events[i]) \/ events'[i] = r
      BY <1>0, <1>3, <3>1, <3>2
    <3> QED
      BY <1>3, <3>1, <3>3 DEF Trail
  <2> QED
    BY <2>1, <2>2, <2>3, <2>4
<1> QED
  BY <1>1, <1>2, <1>3 DEF Trail

\* A new request has an id no other one of its page has.
LEMMA RequestIds ==
  ASSUME TypeOK, Queues, IdsUnique, Once, NEW method \in Methods, Request(method),
         UNCHANGED <<page, ops, replies, events>>
  PROVE  IdsUnique' /\ Once'
<1> DEFINE new == [id |-> nextId + 1, method |-> method]
<1>1. /\ new \in Stream /\ Send(new) \in Call
      /\ streams' = streams \cup {new} /\ nextId' = nextId + 1 /\ nextId \in Nat
      /\ calls'[page] = Append(calls[page], Send(new))
      /\ \A q \in Pages : q # page => calls'[q] = calls[q]
      /\ page \in Pages /\ page \in Nat /\ new.id = nextId + 1
  <2>1. page \in Nat /\ nextId \in Nat
    BY BoundsAssumption DEF TypeOK, Pages
  <2> QED
    BY <2>1, RequestMade DEF Request, TypeOK
<1> HIDE DEF new
<1>2. ~Bears(page, new)
  BY <1>1 DEF IdsUnique
<1>3. \A s \in Stream : Send(new) = Send(s) => s = new
  BY <1>1, CallKinds
<1>4. /\ OnlyOnce(calls'[page])
      /\ \A x : InQueue(calls'[page], x) => InQueue(calls[page], x) \/ x = Send(new)
  <2>1. calls[page] \in Seq(Call) /\ OnlyOnce(calls[page])
    BY <1>1 DEF Queues, Once
  <2>2. ~InQueue(calls[page], Send(new))
    BY <1>2 DEF Bears
  <2> QED
    BY <1>1, <2>1, <2>2, AppendOnce
<1>5. \A p \in Pages, s \in Stream : Trail(p, s)' => Trail(p, s)
  BY DEF Trail
<1>6. ASSUME NEW p \in Pages, NEW s \in Stream, Bears(p, s)'
      PROVE  Bears(p, s) \/ (p = page /\ s = new)
  <2>1. InQueue(calls'[p], Send(s)) => InQueue(calls[p], Send(s)) \/ (p = page /\ s = new)
    BY <1>1, <1>3, <1>4
  <2> QED
    BY <1>1, <1>5, <1>6, <2>1 DEF Bears
<1>7. IdsUnique'
  <2>1. ASSUME NEW p \in Pages, NEW s \in Stream, NEW t \in Stream,
               Bears(p, s)', Bears(p, t)', s.id = t.id
        PROVE  s = t
    <3>1. \A u \in Stream : Bears(page, u) => u.id <= nextId /\ u.id \in Nat
      BY DEF IdsUnique, Stream
    <3>2. Bears(p, s) \/ (p = page /\ s = new)
      BY <1>6, <2>1
    <3>3. Bears(p, t) \/ (p = page /\ t = new)
      BY <1>6, <2>1
    <3>4. ~(\E u \in Stream : Bears(page, u) /\ u.id = new.id)
      BY <1>1, <3>1
    <3> QED
      BY <2>1, <3>2, <3>3, <3>4 DEF IdsUnique
  <2>2. ASSUME NEW s \in Stream, Bears(page, s)'
        PROVE  s.id <= nextId'
    <3>1. s.id \in Nat
      BY DEF Stream
    <3> QED
      BY <1>1, <1>6, <2>2, <3>1 DEF IdsUnique
  <2>3. ASSUME NEW p \in Pages, NEW s \in Stream, Bears(p, s)'
        PROVE  p <= page
    BY <1>1, <1>6, <2>3 DEF IdsUnique
  <2> QED
    BY <2>1, <2>2, <2>3 DEF IdsUnique
<1>8. Once'
  <2>1. \A p \in Pages : OnlyOnce(calls'[p])
    BY <1>1, <1>4 DEF Once
  <2>2. ASSUME NEW p \in Pages, NEW s \in Stream, InQueue(calls'[p], Send(s))
        PROVE  ~Trail(p, s)'
    <3>1. InQueue(calls[p], Send(s)) \/ (p = page /\ s = new)
      BY <1>1, <1>3, <1>4, <2>2
    <3>2. ~Trail(p, s)
      BY <1>2, <3>1 DEF Once, Bears
    <3> QED
      BY <1>5, <3>2
  <2> QED
    BY <2>1, <2>2 DEF Once
<1> QED
  BY <1>7, <1>8

\* A cancel is no request.
LEMMA CancelIds ==
  ASSUME TypeOK, Queues, Once, NEW t \in streams, Teardown(t)
  PROVE  /\ streams' \subseteq streams
         /\ \A p \in Pages : OnlyOnce(calls'[p])
         /\ \A p \in Pages, s \in Stream :
              InQueue(calls'[p], Send(s)) => InQueue(calls[p], Send(s))
<1>1. /\ t \in Stream /\ streams' = streams \ {t} /\ page \in Pages
      /\ calls'[page] = IF Cancellable(t.method)
                          THEN Append(calls[page], Cancel(t))
                          ELSE calls[page]
      /\ \A q \in Pages : q # page => calls'[q] = calls[q]
      /\ calls[page] \in Seq(Call) /\ OnlyOnce(calls[page])
  BY TeardownMade DEF TypeOK, Queues, Once
<1>2. Cancel(t) \in Call /\ \A s \in Stream : Send(s) # Cancel(t)
  BY <1>1, CallKinds
<1>3. /\ OnlyOnce(calls'[page])
      /\ \A s \in Stream : InQueue(calls'[page], Send(s)) => InQueue(calls[page], Send(s))
  <2>1. /\ OnlyOnce(Append(calls[page], Cancel(t)))
        /\ \A x : InQueue(Append(calls[page], Cancel(t)), x)
                    => InQueue(calls[page], x) \/ x = Cancel(t)
    BY <1>1, <1>2, AppendOnce
  <2> QED
    BY <1>1, <1>2, <2>1
<1> QED
  BY <1>1, <1>3 DEF Once

\* Another page has used no id.
LEMMA LoadPageIds ==
  ASSUME TypeOK, Queues, IdsUnique, Once, LoadPage
  PROVE  IdsUnique' /\ Once'
<1>1. /\ page \in Pages /\ page \in Nat /\ page' = page + 1 /\ page' \in Pages
      /\ streams' = {} /\ events' = <<>> /\ UNCHANGED <<ops, replies>>
      /\ \A q \in Pages : q # page' => calls'[q] = calls[q]
      /\ nextId' = 0
  BY BoundsAssumption DEF TypeOK, LoadPage, Pages, Queues, serverVars
<1>2. calls'[page'] = <<Subscribe>>
  BY <1>1 DEF LoadPage, Queues
<1>3. OnlyOnce(calls'[page']) /\ \A s \in Stream : ~InQueue(calls'[page'], Send(s))
  <2>1. Len(calls'[page']) = 1 /\ calls'[page'][1] = Subscribe
    BY <1>2
  <2> QED
    BY <2>1, CallKinds DEF OnlyOnce, InQueue
<1>4. \A p \in Pages, s \in Stream : Trail(p, s)' => Trail(p, s)
  BY <1>1 DEF Trail
<1>5. ASSUME NEW p \in Pages, NEW s \in Stream, Bears(p, s)'
      PROVE  Bears(p, s) /\ p # page' /\ p <= page'
  <2>1. Bears(p, s)
    BY <1>1, <1>3, <1>4, <1>5 DEF Bears
  <2>2. p \in Nat /\ p <= page
    BY <2>1, BoundsAssumption DEF IdsUnique, Pages
  <2> QED
    BY <1>1, <2>1, <2>2
<1>6. IdsUnique'
  BY <1>1, <1>5 DEF IdsUnique
<1>7. Once'
  BY <1>1, <1>3, <1>4 DEF Once
<1> QED
  BY <1>6, <1>7

\* What a returned call leaves of the requests that wait.
LEMMA ReturnIds ==
  ASSUME TypeOK, Queues, Once, NEW p \in Pages, calls[p] # <<>>,
         calls' = calls \/ Returned(p)
  PROVE  /\ \A q \in Pages : OnlyOnce(calls'[q])
         /\ \A q \in Pages, s \in Stream :
              InQueue(calls'[q], Send(s)) => InQueue(calls[q], Send(s))
         /\ InQueue(calls[p], Head(calls[p]))
         /\ \A s \in Stream : Returned(p) /\ Head(calls[p]) = Send(s)
              => ~InQueue(calls'[p], Send(s))
<1>1. /\ OnlyOnce(Tail(calls[p]))
      /\ \A x : InQueue(Tail(calls[p]), x) => InQueue(calls[p], x)
      /\ InQueue(calls[p], Head(calls[p]))
      /\ \A s \in Stream : Head(calls[p]) = Send(s) => ~InQueue(Tail(calls[p]), Send(s))
  <2>1. calls[p] \in Seq(Call) /\ OnlyOnce(calls[p])
    BY DEF Queues, Once
  <2> QED
    BY <2>1, TailOnce
<1>2. CASE calls' = calls
  BY <1>1, <1>2, ReturnedKeeps DEF Once
<1>3. CASE Returned(p)
  <2>1. calls'[p] = Tail(calls[p]) /\ \A q \in Pages : q # p => calls'[q] = calls[q]
    BY <1>3, ReturnedKeeps
  <2> QED
    BY <1>1, <2>1 DEF Once
<1> QED
  BY <1>2, <1>3

\* The server starts one operation for a request it has not seen.
LEMMA WriteIds ==
  ASSUME TypeOK, Queues, Dials, IdsUnique, Once, NEW p \in Pages, WriteMessage(p)
  PROVE  IdsUnique' /\ Once'
<1>1. /\ calls[p] # <<>> /\ Returned(p)
      /\ UNCHANGED <<page, nextId, streams, replies, events>>
  BY ThreadStep DEF WriteMessage, PluginThread, pageVars
<1>2. /\ \A q \in Pages : OnlyOnce(calls'[q])
      /\ \A q \in Pages, s \in Stream :
           InQueue(calls'[q], Send(s)) => InQueue(calls[q], Send(s))
      /\ InQueue(calls[p], Head(calls[p]))
      /\ \A s \in Stream : Head(calls[p]) = Send(s) => ~InQueue(calls'[p], Send(s))
  BY <1>1, ReturnIds
<1>3. ASSUME ops' \subseteq ops
      PROVE  IdsUnique' /\ Once'
  <2>1. \A q \in Pages, s \in Stream : Trail(q, s)' => Trail(q, s)
    BY <1>1, <1>3 DEF Trail
  <2> QED
    BY <1>1, <1>2, <1>3, <2>1, MovesKeep
<1>4. ASSUME NEW t \in Stream, Head(calls[p]) = Send(t), ops' = ops \cup {Started(p, t)}
      PROVE  IdsUnique' /\ Once'
  <2> DEFINE new == Started(p, t)
  <2>1. Of(new, p, t) /\ new.page = p /\ new.id = t.id
        /\ \A q \in Pages, s \in Stream : Of(new, q, s) => q = p /\ s = t
    <3>1. StreamOf(new) = t
      BY DEF StreamOf, Started, Stream
    <3> QED
      BY <3>1 DEF Of, Started
  <2> HIDE DEF new
  <2>2. InQueue(calls[p], Send(t)) /\ ~InQueue(calls'[p], Send(t)) /\ ~Trail(p, t)
    BY <1>2, <1>4 DEF Once
  <2>3. ASSUME NEW q \in Pages, NEW s \in Stream, Trail(q, s)'
        PROVE  Trail(q, s) \/ (q = p /\ s = t)
    BY <1>1, <1>4, <2>1, <2>3 DEF Trail, new
  <2>4. ASSUME NEW q \in Pages, NEW s \in Stream, Bears(q, s)'
        PROVE  Bears(q, s)
    BY <1>1, <1>2, <2>2, <2>3, <2>4 DEF Bears
  <2>5. IdsUnique'
    <3>1. page \in Pages
      BY DEF TypeOK
    <3> QED
      BY <1>1, <2>4, <3>1 DEF IdsUnique
  <2>6. ASSUME NEW op \in ops, op.page = p, op.id = t.id
        PROVE  FALSE
    <3>1. StreamOf(op) \in Stream /\ StreamOf(op).id = t.id /\ Of(op, p, StreamOf(op))
      BY <2>6 DEF TypeOK, Operation, StreamOf, Stream, Of
    <3>2. Bears(p, StreamOf(op)) /\ Bears(p, t)
      BY <2>2, <2>6, <3>1 DEF Bears, Trail
    <3>3. StreamOf(op) = t
      BY <3>1, <3>2 DEF IdsUnique
    <3> QED
      BY <2>2, <2>6, <3>1, <3>3 DEF Trail
  <2>7. \A op, other \in ops' : op.page = other.page /\ op.id = other.id => op = other
    BY <1>4, <2>1, <2>6 DEF Once, new
  <2>8. \A q \in Pages, s \in Stream : InQueue(calls'[q], Send(s)) => ~Trail(q, s)'
    BY <1>2, <2>2, <2>3 DEF Once
  <2> QED
    BY <1>2, <2>5, <2>7, <2>8 DEF Once
<1> QED
  <2>1. (\E s \in Stream : Head(calls[p]) = Send(s) /\ ops' = ops \cup {Started(p, s)})
          \/ ops' \subseteq ops
    BY <1>1, WriteStarts
  <2> QED
    BY <1>3, <1>4, <2>1

\* Every other step leaves the requests where they are, drops some, or moves replies on.
LEMMA IdsStep ==
  ASSUME TypeOK, Queues, Counted, Dials, IdsUnique, Once, [Next]_vars
  PROVE  IdsUnique' /\ Once'
<1>1. CASE NewRequest \/ Retry
  <2>1. UNCHANGED <<page, ops, replies, events>> /\ \E method \in Methods : Request(method)
    BY <1>1 DEF NewRequest, Retry, serverVars, Counted
  <2> QED
    BY <2>1, RequestIds
<1>2. CASE LoadPage
  BY <1>2, LoadPageIds
<1>3. ASSUME NEW p \in Pages, WriteMessage(p)
      PROVE  IdsUnique' /\ Once'
  BY <1>3, WriteIds
<1>4. ASSUME Unsubscribe \/ OnMessage
      PROVE  IdsUnique' /\ Once'
  <2>1. UNCHANGED <<page, nextId, ops, replies>>
    BY <1>4 DEF Unsubscribe, OnMessage, serverVars
  <2>2. events' = events \/ (events # <<>> /\ events' = Tail(events))
    BY <1>4 DEF Unsubscribe, OnMessage
  <2>3. (\E t \in streams : Teardown(t)) \/ UNCHANGED <<streams, calls>>
    BY <1>4 DEF Unsubscribe, OnMessage
  <2>4. /\ streams' \subseteq streams
        /\ \A p \in Pages : OnlyOnce(calls'[p])
        /\ \A p \in Pages, s \in Stream :
             InQueue(calls'[p], Send(s)) => InQueue(calls[p], Send(s))
    BY <2>3, CancelIds DEF Once
  <2>5. \A p \in Pages, s \in Stream : Trail(p, s)' => Trail(p, s)
    BY <2>1, <2>2, TrailShrinks
  <2> QED
    BY <2>1, <2>4, <2>5, MovesKeep
<1>5. ASSUME NEW p \in Pages, PluginThread(p) \/ WriteFails(p), ~WriteMessage(p)
      PROVE  IdsUnique' /\ Once'
  <2>1. /\ calls[p] # <<>> /\ UNCHANGED <<page, nextId, streams>>
        /\ calls' = calls \/ Returned(p)
    BY <1>5, ThreadStep
  <2>2. UNCHANGED events /\ ops' \subseteq ops
        /\ \A c \in Connections : replies'[c] = replies[c] \/ replies'[c] = <<>>
    BY <1>5 DEF PluginThread, Ensure, EnsureFails, SubscribeToDatabase, DatabaseMessage,
                DatabaseMessageFails, WriteIsLost, WriteFails, Forget, serverVars, TypeOK
  <2>3. \A q \in Pages, s \in Stream : Trail(q, s)' => Trail(q, s)
    BY <2>2, TrailShrinks
  <2>4. /\ \A q \in Pages : OnlyOnce(calls'[q])
        /\ \A q \in Pages, s \in Stream :
             InQueue(calls'[q], Send(s)) => InQueue(calls[q], Send(s))
    BY <2>1, ReturnIds
  <2> QED
    BY <2>1, <2>2, <2>3, <2>4, MovesKeep
<1>6. ASSUME UNCHANGED <<page, nextId, streams, calls>>, ops' \subseteq ops,
             \A p \in Pages, s \in Stream : Trail(p, s)' => Trail(p, s)
      PROVE  IdsUnique' /\ Once'
  BY <1>6, MovesKeep DEF Once
<1>7. ASSUME NEW op \in ops, Serve(op) \/ Finish(op)
      PROVE  IdsUnique' /\ Once'
  <2>1. PICK type \in ReplyType : Answer(op, type)
    BY <1>7 DEF Serve, Finish, Answers, ReplyType, Answer
  <2>2. /\ UNCHANGED <<page, nextId, streams, calls, events>> /\ ops' \subseteq ops
        /\ \A c \in Connections :
             \/ replies'[c] = replies[c]
             \/ replies'[c] = Append(replies[c], [op |-> op, type |-> type])
    BY <2>1 DEF Answer, pageVars, TypeOK
  <2>3. \A p \in Pages, s \in Stream : Trail(p, s)' => Trail(p, s)
    BY <2>2, TrailShrinks
  <2> QED
    BY <1>6, <2>2, <2>3
<1>8. ASSUME NEW c \in Connections, ReadMessage(c)
      PROVE  IdsUnique' /\ Once'
  <2>1. /\ UNCHANGED <<page, nextId, streams, calls, ops>>
        /\ \A d \in Connections :
             \/ replies'[d] = replies[d]
             \/ replies[d] # <<>> /\ replies'[d] = Tail(replies[d])
        /\ \/ events' = events
           \/ replies[c] # <<>> /\ events' = Append(events, Head(replies[c]))
    BY <1>8 DEF ReadMessage, pageVars, TypeOK
  <2>2. \A p \in Pages, s \in Stream : Trail(p, s)' => Trail(p, s)
    BY <2>1, TrailShrinks
  <2> QED
    BY <1>6, <2>1, <2>2
<1>9. ASSUME EngineStarts \/ UNCHANGED vars \/ \E c \in Connections : ReadFails(c) \/ Break(c)
      PROVE  IdsUnique' /\ Once'
  <2>1. /\ UNCHANGED <<page, nextId, streams, calls, events>> /\ ops' \subseteq ops
        /\ \A d \in Connections : replies'[d] = replies[d] \/ replies'[d] = <<>>
    BY <1>9 DEF EngineStarts, ReadFails, Break, Forget, vars, pageVars, serverVars, TypeOK
  <2>2. \A p \in Pages, s \in Stream : Trail(p, s)' => Trail(p, s)
    BY <2>1, TrailShrinks
  <2> QED
    BY <1>6, <2>1, <2>2
<1> QED
  BY <1>1, <1>2, <1>3, <1>4, <1>5, <1>7, <1>8, <1>9 DEF Next

\* At first no id is used.
LEMMA IdsHoldAtFirst == Init => IdsUnique /\ Once
<1> SUFFICES ASSUME Init PROVE IdsUnique /\ Once
  OBVIOUS
<1>1. /\ streams = {} /\ ops = {} /\ \A c \in Connections : replies[c] = <<>>
      /\ Len(events) = 0
  BY DEF Init
<1>2. \A p \in Pages : calls[p] = <<Subscribe>> \/ calls[p] = <<>>
  BY DEF Init
<1>3. \A p \in Pages, s \in Stream : ~Trail(p, s)
  BY <1>1 DEF Trail
<1>4. ASSUME NEW p \in Pages
      PROVE  OnlyOnce(calls[p]) /\ \A s \in Stream : ~InQueue(calls[p], Send(s))
  <2>1. \A i \in 1..Len(calls[p]) : calls[p][i] = Subscribe
    BY <1>2
  <2> QED
    BY <2>1, CallKinds DEF OnlyOnce, InQueue
<1>5. page \in Pages
  BY BoundsAssumption DEF Init, Pages
<1> QED
  BY <1>1, <1>3, <1>4, <1>5 DEF IdsUnique, Once, Bears

\* IdsUnique are unambiguous within a page, from its streams to the last reply, and no
\* request waits or is served twice.
THEOREM IdsInvariant == Spec => [](IdsUnique /\ Once)
<1>1. PageInv /\ IdsUnique /\ Once /\ [Next]_vars => IdsUnique' /\ Once'
  BY IdsStep DEF PageInv
<1> QED
  BY <1>1, IdsHoldAtFirst, PageInvariant, PTL DEF Spec

\* A reply that finds a stream of its own page finds the one it was made for, and
\* is none of a page still to come.
RepliesFit ==
  \A i \in DOMAIN events :
    /\ events[i].op.page <= page
    /\ \A s \in streams :
         events[i].op.page = page /\ events[i].op.id = s.id => events[i].op.method = s.method

\* What portapi.types.ts:86-87 says of ids is true of one page, however often the
\* bridge reconnects and whichever requests were retried or cancelled; as long as
\* the first page is loaded every reply that finds a stream is one to its request.
THEOREM RepliesFindTheirStream == Spec => [](RepliesFit /\ (page = 1 => OwnReplies))
<1>1. ASSUME TypeOK, IdsUnique
      PROVE  RepliesFit /\ (page = 1 => OwnReplies)
  <2>1. /\ events \in Seq(Reply) /\ DOMAIN events = 1..Len(events) /\ page \in Pages
        /\ streams \subseteq Stream
    BY <1>1 DEF TypeOK
  <2>2. ASSUME NEW i \in 1..Len(events)
        PROVE  /\ events[i].op.page \in Pages /\ events[i].op.page <= page
               /\ StreamOf(events[i].op) \in Stream
               /\ Bears(events[i].op.page, StreamOf(events[i].op))
    <3>1. events[i] \in Reply
      BY <2>1
    <3>4. events[i].op \in Operation
      BY <3>1 DEF Reply
    <3>2. StreamOf(events[i].op) \in Stream /\ events[i].op.page \in Pages
      BY <3>4 DEF Operation, StreamOf, Stream
    <3>3. Bears(events[i].op.page, StreamOf(events[i].op))
      BY DEF Bears, Trail, Of
    <3> QED
      BY <1>1, <3>2, <3>3 DEF IdsUnique
  <2>3. ASSUME NEW i \in 1..Len(events), NEW s \in streams,
               events[i].op.page = page, events[i].op.id = s.id
        PROVE  events[i].op.method = s.method
    <3>1. StreamOf(events[i].op).id = s.id /\ StreamOf(events[i].op).method = events[i].op.method
      BY <2>3 DEF StreamOf
    <3>2. Bears(page, s)
      BY DEF Bears
    <3> QED
      BY <1>1, <2>1, <2>2, <2>3, <3>1, <3>2 DEF IdsUnique
  <2>4. ASSUME page = 1, NEW i \in 1..Len(events)
        PROVE  events[i].op.page = page
    BY <2>2, <2>4, BoundsAssumption DEF Pages
  <2> QED
    BY <2>1, <2>2, <2>3, <2>4 DEF RepliesFit, OwnReplies
<1>2. PageInv => TypeOK
  BY DEF PageInv
<1> QED
  BY <1>1, <1>2, PageInvariant, IdsInvariant, PTL

\* The server works for a request once: an operation is started for a request that
\* waited, waits no longer and had left no trace, and a request comes to wait only
\* under the id after all ids of its page.
ServedOnce ==
  /\ \A op \in ops' \ ops :
       /\ InQueue(calls[op.page], Send(StreamOf(op)))
       /\ ~InQueue(calls'[op.page], Send(StreamOf(op)))
       /\ ~Trail(op.page, StreamOf(op))
  /\ \A p \in Pages, s \in Stream :
       InQueue(calls'[p], Send(s)) /\ ~InQueue(calls[p], Send(s)) =>
         p = page /\ nextId < s.id /\ s.id = nextId'

\* A new request waits under the next id.
LEMMA RequestServedOnce ==
  ASSUME TypeOK, Queues, NEW method \in Methods, Request(method),
         UNCHANGED <<page, ops, replies, events>>
  PROVE  ServedOnce
<1> DEFINE new == [id |-> nextId + 1, method |-> method]
<1>1. /\ new \in Stream /\ Send(new) \in Call /\ nextId' = nextId + 1 /\ nextId \in Nat
      /\ calls'[page] = Append(calls[page], Send(new))
      /\ \A q \in Pages : q # page => calls'[q] = calls[q]
      /\ page \in Pages /\ new.id = nextId + 1
  <2>1. nextId \in Nat /\ page \in Pages
    BY BoundsAssumption DEF TypeOK
  <2> QED
    BY <2>1, RequestMade DEF Request, TypeOK
<1> HIDE DEF new
<1>2. \A s \in Stream : Send(new) = Send(s) => s = new
  BY <1>1, CallKinds
<1>3. \A x : InQueue(calls'[page], x) => InQueue(calls[page], x) \/ x = Send(new)
  <2> DEFINE longer == Append(calls[page], Send(new))
  <2>1. calls[page] \in Seq(Call)
    BY <1>1 DEF Queues
  <2>2. \A i \in 1..Len(longer) :
          (i \in 1..Len(calls[page]) /\ longer[i] = calls[page][i]) \/ longer[i] = Send(new)
    BY <1>1, <2>1
  <2> HIDE DEF longer
  <2> QED
    BY <1>1, <2>2 DEF InQueue, longer
<1>4. ASSUME NEW p \in Pages, NEW s \in Stream,
             InQueue(calls'[p], Send(s)), ~InQueue(calls[p], Send(s))
      PROVE  p = page /\ s = new
  BY <1>1, <1>2, <1>3, <1>4
<1> QED
  BY <1>1, <1>4 DEF ServedOnce

\* What the server starts is the request at the head of the queue, which it leaves.
LEMMA WriteServedOnce ==
  ASSUME TypeOK, Queues, Dials, Once, NEW p \in Pages, WriteMessage(p)
  PROVE  ServedOnce
<1>1. calls[p] # <<>> /\ Returned(p)
  BY ThreadStep DEF WriteMessage, PluginThread
<1>2. /\ \A q \in Pages, s \in Stream :
           InQueue(calls'[q], Send(s)) => InQueue(calls[q], Send(s))
      /\ InQueue(calls[p], Head(calls[p]))
      /\ \A s \in Stream : Head(calls[p]) = Send(s) => ~InQueue(calls'[p], Send(s))
  BY <1>1, ReturnIds
<1>3. ASSUME NEW op \in ops' \ ops
      PROVE  /\ InQueue(calls[op.page], Send(StreamOf(op)))
             /\ ~InQueue(calls'[op.page], Send(StreamOf(op)))
             /\ ~Trail(op.page, StreamOf(op))
  <2>1. PICK t \in Stream : Head(calls[p]) = Send(t) /\ ops' = ops \cup {Started(p, t)}
    BY <1>1, <1>3, WriteStarts
  <2>2. op.page = p /\ StreamOf(op) = t
    BY <1>3, <2>1 DEF Started, StreamOf, Stream
  <2> QED
    BY <1>2, <2>1, <2>2 DEF Once
<1> QED
  BY <1>2, <1>3 DEF ServedOnce

\* However the bridge reconnects and whatever the page retries, the server starts at
\* most one operation for a request.
THEOREM RequestsServedOnce == Spec => [][ServedOnce]_vars
<1>1. ASSUME PageInv, Once, [Next]_vars
      PROVE  [ServedOnce]_vars
  <2>0. TypeOK /\ Queues /\ Counted /\ Dials
    BY <1>1 DEF PageInv
  <2>1. ASSUME ops' \subseteq ops,
               \A p \in Pages, s \in Stream :
                 InQueue(calls'[p], Send(s)) => InQueue(calls[p], Send(s))
        PROVE  ServedOnce
    BY <2>1 DEF ServedOnce
  <2>2. CASE NewRequest \/ Retry
    <3>1. UNCHANGED <<page, ops, replies, events>> /\ \E method \in Methods : Request(method)
      BY <2>0, <2>2 DEF NewRequest, Retry, serverVars, Counted
    <3> QED
      BY <2>0, <3>1, RequestServedOnce
  <2>3. CASE LoadPage
    <3>1. /\ page \in Pages /\ page' = page + 1 /\ page' \in Pages /\ UNCHANGED ops
          /\ \A q \in Pages : q # page' => calls'[q] = calls[q]
      BY <2>0, <2>3, BoundsAssumption DEF TypeOK, LoadPage, Pages, Queues, serverVars
    <3>2. Len(calls'[page']) = 1 /\ calls'[page'][1] = Subscribe
      BY <2>0, <2>3, <3>1 DEF LoadPage, Queues
    <3>3. \A s \in Stream : ~InQueue(calls'[page'], Send(s))
      BY <3>2, CallKinds DEF InQueue
    <3> QED
      BY <2>1, <3>1, <3>3
  <2>4. ASSUME NEW p \in Pages, WriteMessage(p) PROVE ServedOnce
    BY <1>1, <2>0, <2>4, WriteServedOnce
  <2>5. CASE Unsubscribe \/ OnMessage
    <3>1. UNCHANGED ops /\ ((\E t \in streams : Teardown(t)) \/ UNCHANGED calls)
      BY <2>5 DEF Unsubscribe, OnMessage, serverVars
    <3> QED
      BY <1>1, <2>0, <2>1, <3>1, CancelIds
  <2>6. ASSUME NEW p \in Pages, PluginThread(p) \/ WriteFails(p), ~WriteMessage(p)
        PROVE  ServedOnce
    <3>1. calls[p] # <<>> /\ (calls' = calls \/ Returned(p))
      BY <2>0, <2>6, ThreadStep
    <3>2. ops' \subseteq ops
      BY <2>6 DEF PluginThread, Ensure, EnsureFails, SubscribeToDatabase, DatabaseMessage,
                  DatabaseMessageFails, WriteIsLost, WriteFails, Forget, serverVars
    <3> QED
      BY <1>1, <2>0, <2>1, <3>1, <3>2, ReturnIds
  <2>7. CASE \/ EngineStarts \/ UNCHANGED vars
             \/ \E op \in ops : Serve(op) \/ Finish(op)
             \/ \E c \in Connections : ReadMessage(c) \/ ReadFails(c) \/ Break(c)
    <3>1. UNCHANGED calls /\ ops' \subseteq ops
      BY <2>7 DEF EngineStarts, ReadMessage, ReadFails, Break, Forget, Serve, Finish, Answer,
                  vars, serverVars
    <3> QED
      BY <2>1, <3>1
  <2> QED
    BY <1>1, <2>2, <2>3, <2>4, <2>5, <2>6, <2>7 DEF Next
<1> QED
  BY <1>1, PageInvariant, IdsInvariant, PTL DEF Spec

-----------------------------------------------------------------------------
(* No request is forgotten. *)

\* The last reply to the request of s.
LastReply(reply, s) == Of(reply.op, page, s) /\ Final(s.method, reply.type)

\* The request of stream s waits, is being served, or its last reply is on its way.
UnderWay(s) ==
  \/ InQueue(calls[page], Send(s))
  \/ \E op \in ops : Of(op, page, s)
  \/ \E c \in open : \E i \in 1..Len(replies[c]) : LastReply(replies[c][i], s)
  \/ \E i \in 1..Len(events) : LastReply(events[i], s)

NoneForgotten == ~trouble => \A s \in streams : UnderWay(s)

\* Without trouble there is one page; the connections that were dialed are open and read.
Untroubled ==
  ~trouble =>
    /\ page = 1
    /\ reading = open
    /\ \A p \in Pages : step[p] = "write" => using[p] \in open

\* A message is only written for a call that has one.
WritesMessages ==
  \A p \in Pages : step[p] = "write" => Head(calls[p]).type \in {"request", "cancel"}

\* The page is subscribed before the server knows any of its requests.
Subscribed ==
  ~trouble =>
    \/ dbCall = page
    \/ /\ calls[page] # <<>> /\ Head(calls[page]) = Subscribe
       /\ ops = {} /\ \A c \in Connections : replies[c] = <<>>

\* A cancel is of a request that has been made, and whose stream has ended.
Cancelled ==
  \A i \in 1..Len(calls[page]), t \in Stream : calls[page][i] = Cancel(t) =>
    t.id <= nextId /\ \A s \in streams : s.id # t.id

KeptInv == Untroubled /\ WritesMessages /\ Subscribed /\ Cancelled /\ NoneForgotten

\* What goes into a queue, and what stays.
LEMMA AppendIn ==
  ASSUME NEW S, NEW queue \in Seq(S), NEW m \in S
  PROVE  /\ InQueue(Append(queue, m), m)
         /\ \A x : InQueue(queue, x) => InQueue(Append(queue, m), x)
         /\ \A x : InQueue(Append(queue, m), x) => InQueue(queue, x) \/ x = m
         /\ queue # <<>> => Head(Append(queue, m)) = Head(queue)
<1> DEFINE longer == Append(queue, m)
<1>1. /\ Len(longer) = Len(queue) + 1 /\ Len(queue) \in Nat
      /\ \A i \in 1..Len(longer) : i = Len(longer) \/ i \in 1..Len(queue)
      /\ longer[Len(longer)] = m
      /\ \A i \in 1..Len(queue) : longer[i] = queue[i] /\ i \in 1..Len(longer)
      /\ Len(longer) \in 1..Len(longer)
      /\ queue # <<>> => Head(longer) = Head(queue)
  OBVIOUS
<1> HIDE DEF longer
<1> QED
  BY <1>1 DEF InQueue, longer

\* What is taken from a queue, and what stays.
LEMMA TailIn ==
  ASSUME NEW S, NEW queue \in Seq(S), queue # <<>>
  PROVE  /\ \A x : InQueue(queue, x) => x = Head(queue) \/ InQueue(Tail(queue), x)
         /\ \A x : InQueue(Tail(queue), x) => InQueue(queue, x)
         /\ InQueue(queue, Head(queue)) /\ Head(queue) \in S
<1> DEFINE rest == Tail(queue)
<1>1. /\ Len(rest) = Len(queue) - 1 /\ Len(queue) \in Nat \ {0} /\ Head(queue) = queue[1]
      /\ \A i \in 1..Len(rest) : i + 1 \in 1..Len(queue) /\ rest[i] = queue[i + 1]
      /\ \A i \in 1..Len(queue) : i # 1 => i - 1 \in 1..Len(rest) /\ rest[i - 1] = queue[i]
      /\ 1 \in 1..Len(queue) /\ queue[1] \in S
  OBVIOUS
<1> HIDE DEF rest
<1> QED
  BY <1>1 DEF InQueue, rest

\* Without trouble no connection was lost and no page left.
LEMMA UntroubledStep ==
  ASSUME TypeOK, BridgeInv, Untroubled, [Next]_vars
  PROVE  /\ Untroubled'
         /\ ~trouble' => ~trouble /\ page' = page /\ open \subseteq open'
         /\ ~trouble' => ~\E c \in Connections : ReadFails(c)
         /\ ~trouble' => ~\E p \in Pages : WriteIsLost(p)
<1>0. /\ conn # None => conn \in reading /\ conn \in 1..dialed
      /\ step \in [Pages -> Bridge!Step] /\ using \in [Pages -> 1..dialed \cup {None}]
      /\ trouble \in BOOLEAN
  BY DEF BridgeInv, Bridge!TypeOK, Bridge!ConnIsRead, TypeOK
<1> USE DEF Untroubled
<1>1. CASE trouble'
  BY <1>1
<1>2. ASSUME ~trouble', trouble
      PROVE  FALSE
  BY <1>2
     DEF Next, NewRequest, Retry, Unsubscribe, OnMessage, LoadPage, PluginThread, Ensure,
         EnsureFails, SubscribeToDatabase, DatabaseMessage, DatabaseMessageFails, WriteMessage,
         WriteIsLost, WriteFails, EngineStarts, Serve, Finish, Answer, ReadMessage, ReadFails,
         Break, Forget, vars
<1>3. ASSUME ~trouble', ~trouble, UNCHANGED <<page, reading, open, step, using>>
      PROVE  Untroubled' /\ page' = page /\ open \subseteq open'
  BY <1>3
<1>4. ASSUME ~trouble', ~trouble, NEW p \in Pages, Ensure(p)
      PROVE  Untroubled' /\ page' = page /\ open \subseteq open'
  BY <1>0, <1>4
     DEF Ensure, Bridge!Reuse, Bridge!Dial, Bridge!Goto, pageVars, Bridge!Step
<1>5. ASSUME ~trouble', ~trouble, NEW p \in Pages,
             SubscribeToDatabase(p) \/ DatabaseMessage(p) \/ WriteMessage(p)
      PROVE  Untroubled' /\ page' = page /\ open \subseteq open'
  BY <1>0, <1>5
     DEF SubscribeToDatabase, DatabaseMessage, WriteMessage, Bridge!SetDatabaseCall,
         Bridge!ReadConn, Bridge!WriteMessage, Bridge!Return, Bridge!Goto, pageVars, Bridge!Step
<1>6. ASSUME ~trouble', ~trouble, NEW p \in Pages, WriteIsLost(p)
      PROVE  FALSE
  BY <1>6 DEF WriteIsLost, Bridge!WriteIsLost
<1>7. ASSUME ~trouble', ~trouble, NEW c \in Connections, ReadFails(c)
      PROVE  FALSE
  BY <1>7 DEF ReadFails, Bridge!ReadFails
<1>8. ASSUME ~trouble', ~trouble
      PROVE  \/ UNCHANGED <<page, reading, open, step, using>>
             \/ \E p \in Pages :
                  \/ Ensure(p) \/ SubscribeToDatabase(p) \/ DatabaseMessage(p) \/ WriteMessage(p)
                  \/ WriteIsLost(p)
             \/ \E c \in Connections : ReadFails(c)
  BY <1>8
     DEF Next, NewRequest, Retry, Unsubscribe, OnMessage, LoadPage, PluginThread,
         EnsureFails, DatabaseMessageFails, WriteFails, EngineStarts, Serve, Finish, Answer,
         ReadMessage, Break, Forget, vars, bridgeVars, pageVars
<1>9. ASSUME ~trouble', ~trouble
      PROVE  Untroubled' /\ page' = page /\ open \subseteq open'
  BY <1>3, <1>4, <1>5, <1>6, <1>7, <1>8, <1>9
<1>10. trouble' \in BOOLEAN
  BY <1>0
     DEF Next, NewRequest, Retry, Unsubscribe, OnMessage, LoadPage, PluginThread, Ensure,
         EnsureFails, SubscribeToDatabase, DatabaseMessage, DatabaseMessageFails, WriteMessage,
         WriteIsLost, WriteFails, EngineStarts, Serve, Finish, Answer, ReadMessage, ReadFails,
         Break, Forget, vars
<1> QED
  BY <1>0, <1>1, <1>2, <1>6, <1>7, <1>9, <1>10

\* A thread that is about to write has a message of the page to write: its call stays
\* at the head of the queue until the thread returns.
LEMMA WritesStep ==
  ASSUME TypeOK, Queues, Counted, WritesMessages, [Next]_vars
  PROVE  WritesMessages'
<1>0. /\ calls \in [Pages -> Seq(Call)] /\ step \in [Pages -> Bridge!Step]
      /\ page \in Pages /\ \A p \in Pages : p \in Nat
  BY BoundsAssumption DEF Queues, TypeOK, Bridge!TypeOK, Pages
<1> DEFINE Same(p) == step'[p] = "write" =>
                        /\ step[p] = "write"
                        /\ calls'[p] # <<>> /\ Head(calls'[p]) = Head(calls[p])
<1>1. ASSUME NEW p \in Pages, Same(p)
      PROVE  step'[p] = "write" => Head(calls'[p]).type \in {"request", "cancel"}
  BY <1>1 DEF WritesMessages
<1>2. ASSUME NEW p \in Pages, UNCHANGED <<step>>, calls'[p] = calls[p]
      PROVE  Same(p)
  BY <1>2 DEF Queues
<1>3. ASSUME NEW p \in Pages, UNCHANGED <<step>>, NEW m \in Call,
             calls'[p] = Append(calls[p], m)
      PROVE  Same(p)
  <2>1. CASE calls[p] = <<>>
    BY <1>3, <2>1 DEF Queues
  <2>2. CASE calls[p] # <<>>
    <3>1. calls[p] \in Seq(Call)
      BY <1>0
    <3>2. Append(calls[p], m) # <<>> /\ Head(Append(calls[p], m)) = Head(calls[p])
      BY <2>2, <3>1
    <3> QED
      BY <1>3, <3>2
  <2> QED
    BY <2>1, <2>2
<1>4. ASSUME NewRequest \/ Retry \/ Unsubscribe \/ OnMessage, NEW p \in Pages
      PROVE  Same(p)
  <2>1. UNCHANGED step
    BY <1>4 DEF NewRequest, Retry, Unsubscribe, OnMessage, bridgeVars
  <2>2. PageStep
    BY <1>4, PageSteps
  <2>3. calls'[p] = calls[p] \/ \E m \in Call : calls'[p] = Append(calls[p], m)
    BY <2>2, RequestMade, TeardownMade, CallKinds DEF PageStep
  <2> QED
    BY <1>2, <1>3, <2>1, <2>3
<1>5. ASSUME LoadPage, NEW p \in Pages
      PROVE  Same(p)
  <2>1. UNCHANGED step /\ calls' = [calls EXCEPT ![page + 1] = <<Subscribe>>]
    BY <1>5 DEF LoadPage, bridgeVars
  <2>2. CASE p = page + 1
    <3>1. calls[p] = <<>>
      BY <1>0, <2>2 DEF TypeOK
    <3> QED
      BY <2>1, <3>1 DEF Queues
  <2>3. CASE p # page + 1
    BY <1>0, <1>2, <2>1, <2>3
  <2> QED
    BY <2>2, <2>3
<1>6. ASSUME NEW q \in Pages, PluginThread(q) \/ WriteFails(q), NEW p \in Pages
      PROVE  step'[p] = "write" => Head(calls'[p]).type \in {"request", "cancel"}
  <2>1. /\ calls[q] # <<>>
        /\ calls' = calls \/ (Returned(q) /\ step'[q] = "idle")
        /\ \A r \in Pages : r # q => step'[r] = step[r]
    BY <1>6, ThreadStep
  <2>2. CASE p # q
    <3>1. calls'[p] = calls[p] /\ step'[p] = step[p]
      BY <2>1, <2>2, ReturnedKeeps
    <3> QED
      BY <3>1 DEF WritesMessages
  <2>3. CASE p = q /\ calls' = calls /\ step'[p] = "write"
    <3>1. step[p] = "write" \/ DatabaseMessage(p)
      BY <1>0, <1>6, <2>3
         DEF PluginThread, Ensure, EnsureFails, SubscribeToDatabase, DatabaseMessageFails,
             WriteMessage, WriteIsLost, WriteFails, Bridge!Reuse, Bridge!Dial,
             Bridge!DialFails, Bridge!SetDatabaseCall, Bridge!NotConnected, Bridge!WriteMessage,
             Bridge!WriteIsLost, Bridge!WriteFails, Bridge!vars, Bridge!Goto, Bridge!Return
    <3> QED
      BY <2>3, <3>1 DEF WritesMessages, DatabaseMessage, Calling
  <2> QED
    BY <2>1, <2>2, <2>3
<1>7. CASE UNCHANGED <<step, calls>>
  BY <1>7 DEF WritesMessages
<1>8. UNCHANGED <<step, calls>> \/ (\E q \in Pages : PluginThread(q) \/ WriteFails(q))
        \/ NewRequest \/ Retry \/ Unsubscribe \/ OnMessage \/ LoadPage
  BY DEF Next, EngineStarts, Serve, Finish, Answer, ReadMessage, ReadFails, Break, vars,
         bridgeVars, Bridge!ReadFails, Bridge!Break
<1> HIDE DEF Same
<1> QED
  BY <1>1, <1>4, <1>5, <1>6, <1>7, <1>8 DEF WritesMessages

\* Subscribe is the first call of a page, and nothing of the page is written before it
\* has run.
LEMMA SubscribedStep ==
  ASSUME TypeOK, Queues, Counted, Untroubled, WritesMessages, Subscribed, ~trouble, ~trouble',
         page' = page, ~(\E p \in Pages : WriteIsLost(p)), [Next]_vars
  PROVE  Subscribed'
<1>0. /\ calls \in [Pages -> Seq(Call)] /\ page \in Pages /\ page = 1
      /\ \A p \in Pages : p \in Nat /\ (calls[p] # <<>> => p = page)
  <2>1. \A p \in Pages : p \in Nat /\ p >= 1 /\ (calls[p] # <<>> => p <= page)
    BY BoundsAssumption DEF TypeOK, Pages
  <2> QED
    BY <2>1 DEF Queues, TypeOK, Untroubled
<1> DEFINE Before == /\ calls[page] # <<>> /\ Head(calls[page]) = Subscribe
                     /\ ops = {} /\ \A c \in Connections : replies[c] = <<>>
<1>1. CASE dbCall' = page
  BY <1>1 DEF Subscribed
<1>2. dbCall' = dbCall \/ dbCall' = page
  <2>1. ASSUME NEW p \in Pages, SubscribeToDatabase(p)
        PROVE  dbCall' = page
    BY <1>0, <2>1 DEF SubscribeToDatabase, Calling, Bridge!SetDatabaseCall
  <2> QED
    BY <2>1
       DEF Next, NewRequest, Retry, Unsubscribe, OnMessage, LoadPage, PluginThread, Ensure,
           EnsureFails, DatabaseMessage, DatabaseMessageFails, WriteMessage, WriteIsLost,
           WriteFails, EngineStarts, Serve, Finish, Answer, ReadMessage, ReadFails, Break, vars,
           bridgeVars, Bridge!Reuse, Bridge!Dial, Bridge!DialFails, Bridge!ReadConn,
           Bridge!NotConnected, Bridge!WriteMessage, Bridge!WriteIsLost, Bridge!WriteFails,
           Bridge!ReadFails, Bridge!Break, Bridge!vars
<1>3. ASSUME dbCall' # page
      PROVE  Before
  BY <1>2, <1>3 DEF Subscribed
<1>4. ASSUME Before, NewRequest \/ Retry \/ Unsubscribe \/ OnMessage
      PROVE  Before'
  <2>1. UNCHANGED <<ops, replies>>
    BY <1>4 DEF NewRequest, Retry, Unsubscribe, OnMessage, serverVars
  <2>2. PageStep
    BY <1>4, PageSteps
  <2>3. calls'[page] = calls[page] \/ \E m \in Call : calls'[page] = Append(calls[page], m)
    BY <1>0, <2>2, RequestMade, TeardownMade, CallKinds DEF PageStep
  <2>4. ASSUME NEW m \in Call
        PROVE  Append(calls[page], m) # <<>> /\ Head(Append(calls[page], m)) = Subscribe
    <3>1. calls[page] \in Seq(Call) /\ calls[page] # <<>> /\ Head(calls[page]) = Subscribe
      BY <1>0, <1>4
    <3> QED
      BY <3>1
  <2> QED
    BY <1>4, <2>1, <2>3, <2>4
<1>5. ASSUME Before, dbCall' # page, NEW p \in Pages, PluginThread(p) \/ WriteFails(p)
      PROVE  Before'
  <2>1. p = page
    BY <1>0, <1>5, ThreadStep
  <2>2. Head(calls[page]).type \notin {"request", "cancel"}
    BY <1>5 DEF Subscribe
  <2>3. Ensure(p)
    BY <1>0, <1>5, <2>1, <2>2
       DEF PluginThread, EnsureFails, SubscribeToDatabase, DatabaseMessage, DatabaseMessageFails,
           WriteMessage, Bridge!SetDatabaseCall, Bridge!WriteMessage, WriteFails, Forget,
           Calling, WritesMessages
  <2> QED
    BY <1>5, <2>3 DEF Ensure, serverVars
<1>6. ASSUME Before, \/ EngineStarts \/ UNCHANGED vars
                     \/ \E op \in ops : Serve(op) \/ Finish(op)
                     \/ \E c \in Connections : ReadMessage(c) \/ ReadFails(c)
      PROVE  Before'
  BY <1>6 DEF EngineStarts, ReadMessage, ReadFails, vars, serverVars
<1>7. ~LoadPage /\ ~\E c \in Connections : Break(c)
  BY DEF LoadPage, Break, Forget
<1> HIDE DEF Before
<1>8. dbCall' = page \/ Before'
  BY <1>3, <1>4, <1>5, <1>6, <1>7 DEF Next
<1> QED
  BY <1>8 DEF Subscribed, Before

\* A stream is closed for good: its id is not used again.
LEMMA CancelledStep ==
  ASSUME TypeOK, Queues, Counted, IdsUnique, Cancelled, [Next]_vars
  PROVE  Cancelled'
<1> DEFINE Over(t) == t.id <= nextId /\ \A s \in streams : s.id # t.id
           Past(t) == t.id <= nextId' /\ \A s \in streams' : s.id # t.id
<1>0. /\ calls \in [Pages -> Seq(Call)] /\ page \in Pages /\ nextId \in Nat
      /\ streams \subseteq Stream /\ \A t \in Stream : t.id \in Nat
  BY BoundsAssumption DEF TypeOK, Queues, Stream
<1>1. \A t \in Stream : InQueue(calls[page], Cancel(t)) => Over(t)
  BY DEF Cancelled, InQueue
<1>2. ASSUME \A t \in Stream : InQueue(calls'[page'], Cancel(t)) => Past(t)
      PROVE  Cancelled'
  BY <1>2 DEF Cancelled, InQueue
<1>3. ASSUME UNCHANGED <<page, nextId>>, streams' \subseteq streams,
             \A t \in Stream : InQueue(calls'[page], Cancel(t)) => InQueue(calls[page], Cancel(t))
      PROVE  Cancelled'
  BY <1>1, <1>2, <1>3
<1>4. ASSUME NEW method \in Methods, Request(method), page' = page
      PROVE  Cancelled'
  <2> DEFINE new == [id |-> nextId + 1, method |-> method]
  <2>1. /\ new \in Stream /\ Send(new) \in Call /\ nextId' = nextId + 1
        /\ streams' = streams \cup {new} /\ new.id = nextId + 1
        /\ calls'[page] = Append(calls[page], Send(new)) /\ calls[page] \in Seq(Call)
    BY <1>0, <1>4, RequestMade DEF Request
  <2> HIDE DEF new
  <2>2. ASSUME NEW t \in Stream, InQueue(calls'[page], Cancel(t))
        PROVE  Past(t)
    <3>1. InQueue(calls[page], Cancel(t))
      BY <2>1, <2>2, AppendIn, CallKinds
    <3>2. Over(t) /\ t.id \in Nat
      BY <1>0, <1>1, <3>1
    <3> QED
      BY <1>0, <2>1, <3>2
  <2> QED
    BY <1>2, <1>4, <2>2
<1>5. ASSUME NEW s \in streams, Teardown(s), UNCHANGED <<page, nextId>>
      PROVE  Cancelled'
  <2>1. /\ s \in Stream /\ streams' = streams \ {s} /\ calls[page] \in Seq(Call)
        /\ calls'[page] = calls[page] \/ calls'[page] = Append(calls[page], Cancel(s))
        /\ Cancel(s) \in Call
    BY <1>0, <1>5, TeardownMade, CallKinds
  <2>2. s.id <= nextId /\ \A r \in streams : r.id = s.id => r = s
    BY <1>0, <2>1 DEF IdsUnique, Bears
  <2>3. ASSUME NEW t \in Stream, InQueue(calls'[page], Cancel(t))
        PROVE  InQueue(calls[page], Cancel(t)) \/ Cancel(t) = Cancel(s)
    <3>1. \A x : InQueue(Append(calls[page], Cancel(s)), x)
                   => InQueue(calls[page], x) \/ x = Cancel(s)
      BY <2>1, AppendIn
    <3> QED
      BY <2>1, <2>3, <3>1
  <2>4. \A t \in Stream : Cancel(t) = Cancel(s) => t.id = s.id
    BY DEF Cancel
  <2> QED
    BY <1>1, <1>2, <1>5, <2>1, <2>2, <2>3, <2>4
<1>6. CASE NewRequest \/ Retry \/ Unsubscribe \/ OnMessage
  <2>1. page' = page
    BY <1>6 DEF NewRequest, Retry, Unsubscribe, OnMessage
  <2>2. PageStep
    BY <1>6, PageSteps
  <2> QED
    BY <1>3, <1>4, <1>5, <2>1, <2>2 DEF PageStep
<1>7. CASE LoadPage
  <2>1. page' = page + 1 /\ page' \in Pages /\ calls' = [calls EXCEPT ![page'] = <<Subscribe>>]
    BY <1>0, <1>7, BoundsAssumption DEF LoadPage, Pages
  <2>2. calls'[page'] = <<Subscribe>>
    BY <1>0, <2>1
  <2>3. Len(calls'[page']) = 1 /\ calls'[page'][1] = Subscribe
    BY <2>2
  <2>4. \A t \in Stream : ~InQueue(calls'[page'], Cancel(t))
    BY <2>3, CallKinds DEF InQueue
  <2> QED
    BY <1>2, <2>4
<1>8. ASSUME NEW p \in Pages, PluginThread(p) \/ WriteFails(p)
      PROVE  Cancelled'
  <2>1. calls[p] # <<>> /\ UNCHANGED <<page, nextId, streams>> /\ (calls' = calls \/ Returned(p))
    BY <1>8, ThreadStep
  <2>2. calls'[page] = calls[page] \/ (calls[page] # <<>> /\ calls'[page] = Tail(calls[page]))
    BY <1>0, <2>1, ReturnedKeeps
  <2>3. calls[page] \in Seq(Call)
    BY <1>0
  <2>4. \A x : InQueue(calls'[page], x) => InQueue(calls[page], x)
    BY <2>2, <2>3, TailIn
  <2> QED
    BY <1>3, <2>1, <2>4
<1>9. CASE UNCHANGED <<page, nextId, streams, calls>>
  BY <1>3, <1>9
<1> HIDE DEF Over, Past
<1> QED
  BY <1>6, <1>7, <1>8, <1>9
     DEF Next, EngineStarts, Serve, Finish, Answer, ReadMessage, ReadFails, Break, vars, pageVars

\* A reply goes from the server to its connection, and from there to the page.
OnItsWay(s) ==
  \/ \E c \in open : \E i \in 1..Len(replies[c]) : LastReply(replies[c][i], s)
  \/ \E i \in 1..Len(events) : LastReply(events[i], s)

\* As long as the page subscribed, replies are not dropped.
LEMMA ReadOnItsWay ==
  ASSUME TypeOK, open \subseteq Connections, Subscribed, ~trouble,
         NEW c \in Connections, ReadMessage(c), NEW s, OnItsWay(s)
  PROVE  OnItsWay(s)'
<1>1. /\ replies' = [replies EXCEPT ![c] = Tail(@)] /\ replies[c] # <<>>
      /\ UNCHANGED <<open, page>> /\ c \in open
      /\ replies \in [Connections -> Seq(Reply)] /\ events \in Seq(Reply)
  BY DEF ReadMessage, bridgeVars, pageVars, TypeOK
<1>2. dbCall = page /\ events' = Append(events, Head(replies[c]))
  BY <1>1 DEF Subscribed, ReadMessage
<1>3. \A x : InQueue(events, x) \/ x = Head(replies[c]) => InQueue(events', x)
  <2>1. Head(replies[c]) \in Reply
    BY <1>1, TailIn
  <2> QED
    BY <1>1, <1>2, <2>1, AppendIn
<1>4. \A x : InQueue(replies[c], x) => x = Head(replies[c]) \/ InQueue(replies'[c], x)
  <2>1. replies[c] \in Seq(Reply) /\ replies'[c] = Tail(replies[c])
    BY <1>1
  <2> QED
    BY <1>1, <2>1, TailIn
<1>5. \A x : LastReply(x, s) <=> LastReply(x, s)'
  BY <1>1 DEF LastReply, Of
<1>6. CASE \E i \in 1..Len(events) : LastReply(events[i], s)
  <2>1. PICK x : InQueue(events, x) /\ LastReply(x, s)
    BY <1>6 DEF InQueue
  <2>2. InQueue(events', x) /\ LastReply(x, s)'
    BY <1>3, <1>5, <2>1
  <2> QED
    BY <2>2 DEF OnItsWay, InQueue
<1>7. ASSUME NEW d \in open, NEW i \in 1..Len(replies[d]), LastReply(replies[d][i], s)
      PROVE  OnItsWay(s)'
  <2>1. CASE d # c
    <3>1. replies'[d] = replies[d] /\ d \in open'
      BY <1>1, <1>7, <2>1
    <3> QED
      BY <1>5, <1>7, <3>1 DEF OnItsWay
  <2>2. CASE d = c
    <3>1. PICK x : InQueue(replies[c], x) /\ LastReply(x, s)
      BY <1>7, <2>2 DEF InQueue
    <3>2. (InQueue(replies'[c], x) \/ InQueue(events', x)) /\ LastReply(x, s)'
      BY <1>3, <1>4, <1>5, <3>1
    <3>3. c \in open'
      BY <1>1
    <3> QED
      BY <3>2, <3>3 DEF OnItsWay, InQueue
  <2> QED
    BY <2>1, <2>2
<1> QED
  BY <1>6, <1>7 DEF OnItsWay

\* The last reply of an operation goes on its way when the operation ends.
LEMMA AnswerOnItsWay ==
  ASSUME TypeOK, open \subseteq Connections, Served, NEW op \in ops,
         NEW type \in ReplyType, Answer(op, type)
  PROVE  /\ \A s : OnItsWay(s) => OnItsWay(s)'
         /\ \A s : Of(op, page, s) /\ Final(op.method, type) => OnItsWay(s)'
<1> DEFINE r == [op |-> op, type |-> type]
<1>1. /\ replies' = [replies EXCEPT ![op.conn] = Append(@, r)]
      /\ UNCHANGED <<open, page, events>> /\ op.conn \in open
      /\ replies \in [Connections -> Seq(Reply)]
      /\ r.op = op /\ r.type = type /\ r \in Reply
  BY DEF Answer, bridgeVars, pageVars, TypeOK, Served, Reply
<1> HIDE DEF r
<1>2. \A x, s : LastReply(x, s) <=> LastReply(x, s)'
  BY <1>1 DEF LastReply, Of
<1>3. \A x : InQueue(replies[op.conn], x) \/ x = r => InQueue(replies'[op.conn], x)
  <2>1. replies[op.conn] \in Seq(Reply) /\ replies'[op.conn] = Append(replies[op.conn], r)
    BY <1>1
  <2> QED
    BY <1>1, <2>1, AppendIn
<1>4. \A d \in open : d # op.conn => replies'[d] = replies[d]
  BY <1>1
<1>5. ASSUME NEW s, OnItsWay(s)
      PROVE  OnItsWay(s)'
  <2>1. CASE \E i \in 1..Len(events) : LastReply(events[i], s)
    BY <1>1, <1>2, <2>1 DEF OnItsWay
  <2>2. ASSUME NEW d \in open, NEW i \in 1..Len(replies[d]), LastReply(replies[d][i], s)
        PROVE  OnItsWay(s)'
    <3>1. PICK x : InQueue(replies[d], x) /\ LastReply(x, s)
      BY <2>2 DEF InQueue
    <3>2. InQueue(replies'[d], x) /\ LastReply(x, s)' /\ d \in open'
      BY <1>1, <1>2, <1>3, <1>4, <3>1
    <3> QED
      BY <3>2 DEF OnItsWay, InQueue
  <2> QED
    BY <1>5, <2>1, <2>2 DEF OnItsWay
<1>6. ASSUME NEW s, Of(op, page, s), Final(op.method, type)
      PROVE  OnItsWay(s)'
  <2>1. s.method = op.method
    BY <1>6 DEF Of, StreamOf
  <2>2. LastReply(r, s)' /\ InQueue(replies'[op.conn], r) /\ op.conn \in open'
    BY <1>1, <1>2, <1>3, <1>6, <2>1 DEF LastReply
  <2> QED
    BY <2>2 DEF OnItsWay, InQueue
<1> QED
  BY <1>5, <1>6

\* A step that leaves replies and operations alone, and takes no request from the queue.
LEMMA StaysUnderWay ==
  ASSUME UNCHANGED <<page, ops, replies, events>>, open \subseteq open', NEW s,
         InQueue(calls[page], Send(s)) => InQueue(calls'[page], Send(s)), UnderWay(s)
  PROVE  UnderWay(s)'
BY DEF UnderWay, LastReply, Of

\* The event loop drops a reply only if its stream goes on, or ends with it.
LEMMA MessageForgetsNone ==
  ASSUME TypeOK, Queues, IdsUnique, open \subseteq Connections, \A s \in streams : UnderWay(s),
         OnMessage
  PROVE  \A s \in streams' : UnderWay(s)'
<1> DEFINE r == Head(events)
           to == {s \in streams : s.id = r.op.id}
<1>1. /\ events # <<>> /\ events' = Tail(events) /\ events \in Seq(Reply)
      /\ UNCHANGED <<page, ops, replies, open>>
      /\ calls \in [Pages -> Seq(Call)] /\ page \in Pages /\ streams \subseteq Stream
  BY DEF OnMessage, TypeOK, Queues, serverVars, bridgeVars
<1>2. \/ /\ \A s \in to : ~Final(s.method, r.type)
         /\ UNCHANGED <<streams, calls>>
      \/ \E s \in to : Teardown(s)
  BY DEF OnMessage
<1>3. r \in Reply /\ \A x : InQueue(events, x) => x = r \/ InQueue(events', x)
  BY <1>1, TailIn
<1> HIDE DEF r
<1>4. streams' \subseteq streams
      /\ \A s \in Stream : InQueue(calls[page], Send(s)) => InQueue(calls'[page], Send(s))
  <2>1. ASSUME NEW t \in streams, Teardown(t)
        PROVE  streams' \subseteq streams
               /\ \A s \in Stream : InQueue(calls[page], Send(s)) => InQueue(calls'[page], Send(s))
    <3>1. /\ streams' = streams \ {t} /\ Cancel(t) \in Call /\ calls[page] \in Seq(Call)
          /\ calls'[page] = calls[page] \/ calls'[page] = Append(calls[page], Cancel(t))
      BY <1>1, <2>1, TeardownMade, CallKinds
    <3>2. \A x : InQueue(calls[page], x) => InQueue(Append(calls[page], Cancel(t)), x)
      BY <3>1, AppendIn
    <3> QED
      BY <3>1, <3>2
  <2> QED
    BY <1>2, <2>1
<1>5. ASSUME NEW s \in streams', LastReply(r, s)
      PROVE  FALSE
  <2>1. s \in streams /\ s \in Stream /\ s.id = r.op.id /\ Final(s.method, r.type)
    BY <1>1, <1>4, <1>5 DEF LastReply, Of, StreamOf
  <2>2. s \in to
    BY <2>1
  <2>3. ASSUME NEW t \in to, Teardown(t)
        PROVE  FALSE
    <3>1. t \in streams /\ t \in Stream /\ t.id = s.id
      BY <1>1, <2>1
    <3>2. t = s
      BY <1>1, <2>1, <3>1 DEF IdsUnique, Bears
    <3>3. streams' = streams \ {t}
      BY <2>3 DEF Teardown
    <3> QED
      BY <3>2, <3>3
  <2> QED
    BY <1>2, <2>1, <2>2, <2>3
<1>6. ASSUME NEW s \in streams'
      PROVE  UnderWay(s)'
  <2>1. UnderWay(s) /\ s \in Stream
    BY <1>1, <1>4
  <2>2. CASE \E i \in 1..Len(events) : LastReply(events[i], s)
    <3>1. PICK x : InQueue(events, x) /\ LastReply(x, s)
      BY <2>2 DEF InQueue
    <3>2. InQueue(events', x) /\ LastReply(x, s)'
      BY <1>1, <1>3, <1>5, <3>1 DEF LastReply, Of
    <3> QED
      BY <3>2 DEF UnderWay, InQueue
  <2>3. CASE \/ \E op \in ops : Of(op, page, s)
             \/ \E c \in open : \E i \in 1..Len(replies[c]) : LastReply(replies[c][i], s)
    BY <1>1, <2>3 DEF UnderWay, LastReply, Of
  <2>4. CASE InQueue(calls[page], Send(s))
    BY <1>1, <1>4, <2>1, <2>4 DEF UnderWay
  <2> QED
    BY <2>1, <2>2, <2>3, <2>4 DEF UnderWay
<1> QED
  BY <1>6

\* A request becomes an operation, and a cancel stops none that is listened to.
LEMMA WriteForgetsNone ==
  ASSUME TypeOK, Queues, Dials, WritesMessages, Cancelled, streams \subseteq Stream,
         \A s \in streams : UnderWay(s), WriteMessage(page)
  PROVE  \A s \in streams' : UnderWay(s)'
<1>1. /\ calls[page] # <<>> /\ Returned(page) /\ calls[page] \in Seq(Call) /\ page \in Pages
      /\ UNCHANGED <<page, streams, replies, events, open>> /\ step[page] = "write"
  <2>1. page \in Pages
    BY DEF TypeOK
  <2> QED
    BY <2>1, ThreadStep DEF WriteMessage, PluginThread, pageVars, Bridge!WriteMessage, Queues
<1>2. calls'[page] = Tail(calls[page])
  BY <1>1, ReturnedKeeps
<1>3. /\ \A x : InQueue(calls[page], x) => x = Head(calls[page]) \/ InQueue(calls'[page], x)
      /\ InQueue(calls[page], Head(calls[page])) /\ Head(calls[page]) \in Call
  BY <1>1, <1>2, TailIn
<1>4. ASSUME NEW s \in streams,
             InQueue(calls'[page], Send(s)) \/ \E op \in ops' : Of(op, page, s)
      PROVE  UnderWay(s)'
  BY <1>1, <1>4 DEF UnderWay, Of
<1>5. ASSUME NEW s \in streams,
             \/ \E c \in open : \E i \in 1..Len(replies[c]) : LastReply(replies[c][i], s)
             \/ \E i \in 1..Len(events) : LastReply(events[i], s)
      PROVE  UnderWay(s)'
  BY <1>1, <1>5 DEF UnderWay, LastReply, Of
<1>6. ASSUME NEW t \in Stream, Head(calls[page]) = Send(t), ops' = ops \cup {Started(page, t)},
             StreamOf(Started(page, t)) = t, NEW s \in streams
      PROVE  UnderWay(s)'
  <2>1. s \in Stream /\ UnderWay(s)
    OBVIOUS
  <2>2. CASE InQueue(calls[page], Send(s))
    <3>1. s = t \/ InQueue(calls'[page], Send(s))
      BY <1>3, <1>6, <2>1, <2>2, CallKinds
    <3>2. Of(Started(page, t), page, t)
      BY <1>6 DEF Of, Started
    <3> QED
      BY <1>4, <1>6, <3>1, <3>2
  <2>3. CASE \E op \in ops : Of(op, page, s)
    BY <1>4, <1>6, <2>3
  <2> QED
    BY <1>5, <2>1, <2>2, <2>3 DEF UnderWay
<1>7. ASSUME \A t \in Stream : Head(calls[page]) # Send(t), NEW s \in streams,
             ops' = ops \ {op \in ops : /\ op.conn = using[page] /\ op.id = Head(calls[page]).id
                                        /\ \A other \in ops :
                                             other.conn = using[page]
                                               /\ other.id = Head(calls[page]).id
                                               => other.page <= op.page}
      PROVE  UnderWay(s)'
  <2>1. s \in Stream /\ UnderWay(s)
    OBVIOUS
  <2>2. PICK t \in Stream : Head(calls[page]) = Cancel(t)
    <3>1. Head(calls[page]).type \in {"request", "cancel"}
      BY <1>1 DEF WritesMessages
    <3> QED
      BY <1>3, <1>7, <3>1 DEF Call, Subscribe
  <2>3. s.id # Head(calls[page]).id
    <3>1. Cancel(t).id = t.id
      BY DEF Cancel
    <3> QED
      BY <1>3, <2>2, <3>1 DEF Cancelled, InQueue
  <2>4. ASSUME NEW op \in ops, Of(op, page, s)
        PROVE  op \in ops'
    <3>1. op.id = s.id
      BY <2>4 DEF Of, StreamOf
    <3> QED
      BY <1>7, <2>3, <3>1
  <2>5. InQueue(calls[page], Send(s)) => InQueue(calls'[page], Send(s))
    BY <1>3, <1>7, <2>1
  <2> QED
    BY <1>4, <1>5, <2>1, <2>4, <2>5 DEF UnderWay
<1>8. \/ \E t \in Stream : /\ Head(calls[page]) = Send(t) /\ ops' = ops \cup {Started(page, t)}
                           /\ StreamOf(Started(page, t)) = t
      \/ /\ \A t \in Stream : Head(calls[page]) # Send(t)
         /\ ops' = ops \ {op \in ops : /\ op.conn = using[page] /\ op.id = Head(calls[page]).id
                                       /\ \A other \in ops :
                                            other.conn = using[page]
                                              /\ other.id = Head(calls[page]).id
                                              => other.page <= op.page}
  BY <1>1, WriteStarts
<1> QED
  BY <1>1, <1>6, <1>7, <1>8

\* Whatever happens, short of trouble, a request under way stays so until its last
\* reply has ended the stream.
LEMMA ForgottenStep ==
  ASSUME PageInv, BridgeInv, IdsUnique, KeptInv, [Next]_vars
  PROVE  NoneForgotten'
<1> SUFFICES ASSUME ~trouble' PROVE \A s \in streams' : UnderWay(s)'
  BY DEF NoneForgotten
<1>1. /\ TypeOK /\ Queues /\ Counted /\ Dials /\ Served
      /\ Untroubled /\ WritesMessages /\ Subscribed /\ Cancelled /\ NoneForgotten
  BY DEF PageInv, KeptInv
<1>2. /\ ~trouble /\ page' = page /\ open \subseteq open' /\ page = 1
      /\ ~\E c \in Connections : ReadFails(c)
      /\ ~\E p \in Pages : WriteIsLost(p)
  BY <1>1, UntroubledStep DEF Untroubled
<1>3. /\ \A s \in streams : UnderWay(s)
      /\ streams \subseteq Stream /\ page \in Pages /\ calls \in [Pages -> Seq(Call)]
      /\ open \subseteq Connections
  <2>1. open \subseteq 1..dialed /\ dialed \in Nat /\ dialed <= MaxConnections
    BY <1>1 DEF TypeOK, Bridge!TypeOK, Dials
  <2>2. open \subseteq Connections
    BY <2>1, BoundsAssumption DEF Connections
  <2> QED
    BY <1>1, <1>2, <2>2 DEF TypeOK, NoneForgotten, Queues
<1>4. CASE NewRequest \/ Retry \/ Unsubscribe
  <2>1. UNCHANGED <<page, ops, replies, events>>
    BY <1>4 DEF NewRequest, Retry, Unsubscribe, serverVars
  <2>2. PageStep
    BY <1>1, <1>4, PageSteps
  <2>3. CASE UNCHANGED <<streams, calls, made, nextId>>
    BY <1>2, <1>3, <2>1, <2>3, StaysUnderWay
  <2>4. ASSUME NEW m \in Call, calls'[page] = Append(calls[page], m)
        PROVE  \A s \in streams : UnderWay(s)' /\ InQueue(calls'[page], m)
    <3>1. InQueue(calls'[page], m) /\ \A x : InQueue(calls[page], x) => InQueue(calls'[page], x)
      BY <1>3, <2>4, AppendIn
    <3> QED
      BY <1>2, <1>3, <2>1, <3>1, StaysUnderWay
  <2>5. ASSUME NEW method \in Methods, Request(method)
        PROVE  \A s \in streams' : UnderWay(s)'
    <3> DEFINE new == [id |-> nextId + 1, method |-> method]
    <3>1. Send(new) \in Call /\ streams' = streams \cup {new}
          /\ calls'[page] = Append(calls[page], Send(new))
      BY <1>1, <2>5, RequestMade
    <3> HIDE DEF new
    <3>2. InQueue(calls'[page], Send(new))
      BY <1>3, <3>1, AppendIn
    <3>3. \A s : InQueue(calls'[page], Send(s)) => UnderWay(s)'
      BY <1>2 DEF UnderWay
    <3> QED
      BY <2>4, <3>1, <3>2, <3>3
  <2>6. ASSUME NEW t \in streams, Teardown(t)
        PROVE  \A s \in streams' : UnderWay(s)'
    <3>1. /\ streams' = streams \ {t} /\ Cancel(t) \in Call
          /\ calls'[page] = calls[page] \/ calls'[page] = Append(calls[page], Cancel(t))
      BY <1>1, <1>3, <2>6, TeardownMade, CallKinds
    <3>2. CASE calls'[page] = calls[page]
      BY <1>2, <1>3, <2>1, <3>1, <3>2, StaysUnderWay
    <3> QED
      BY <2>4, <3>1, <3>2
  <2> QED
    BY <2>2, <2>3, <2>5, <2>6 DEF PageStep
<1>5. CASE OnMessage
  BY <1>1, <1>3, <1>5, MessageForgetsNone
<1>6. ASSUME NEW p \in Pages, PluginThread(p) \/ WriteFails(p)
      PROVE  \A s \in streams' : UnderWay(s)'
  <2>1. calls[p] # <<>> /\ UNCHANGED <<page, streams>> /\ (calls' = calls \/ Returned(p))
    BY <1>1, <1>6, ThreadStep
  <2>2. p = page
    <3>1. p <= page /\ p \in Nat /\ p >= 1
      BY <1>1, <2>1, BoundsAssumption DEF TypeOK, Pages
    <3> QED
      BY <1>2, <3>1
  <2>3. CASE WriteMessage(p)
    BY <1>1, <1>3, <2>2, <2>3, WriteForgetsNone
  <2>4. CASE Ensure(p) \/ DatabaseMessage(p)
    <3>1. UNCHANGED <<calls, ops, replies, events>>
      BY <2>4 DEF Ensure, DatabaseMessage, serverVars
    <3> QED
      BY <1>2, <1>3, <2>1, <3>1, StaysUnderWay
  <2>5. CASE SubscribeToDatabase(p)
    <3>1. /\ UNCHANGED <<ops, replies, events>> /\ Returned(page)
          /\ Head(calls[page]).type = "subscribe" /\ calls[page] # <<>>
      BY <2>2, <2>5 DEF SubscribeToDatabase, Calling, serverVars
    <3>2. calls'[page] = Tail(calls[page]) /\ calls[page] \in Seq(Call)
      BY <1>1, <1>3, <3>1, ReturnedKeeps
    <3>3. \A x : InQueue(calls[page], x) => x = Head(calls[page]) \/ InQueue(calls'[page], x)
      BY <3>1, <3>2, TailIn
    <3>4. \A s \in Stream : Head(calls[page]) # Send(s)
      BY <3>1 DEF Send
    <3> QED
      BY <1>2, <1>3, <2>1, <3>1, <3>3, <3>4, StaysUnderWay
  <2>6. ~EnsureFails(p) /\ ~DatabaseMessageFails(p) /\ ~WriteFails(p) /\ ~WriteIsLost(p)
    BY <1>2 DEF EnsureFails, DatabaseMessageFails, WriteFails, Forget
  <2> QED
    BY <1>6, <2>3, <2>4, <2>5, <2>6 DEF PluginThread
<1>7. CASE EngineStarts \/ UNCHANGED vars
  <2>1. UNCHANGED <<page, ops, replies, events, streams, calls>>
    BY <1>7 DEF EngineStarts, vars, pageVars, serverVars
  <2> QED
    BY <1>2, <1>3, <2>1, StaysUnderWay
<1>8. ASSUME NEW op \in ops, Serve(op) \/ Finish(op)
      PROVE  \A s \in streams' : UnderWay(s)'
  <2>1. PICK type \in ReplyType : Answer(op, type)
    BY <1>8 DEF Serve, Finish, Answers, ReplyType, Answer
  <2>2. /\ \A s : OnItsWay(s) => OnItsWay(s)'
        /\ \A s : Of(op, page, s) /\ Final(op.method, type) => OnItsWay(s)'
    BY <1>1, <1>3, <2>1, AnswerOnItsWay
  <2>3. /\ UNCHANGED <<streams, calls>>
        /\ ops' = IF Final(op.method, type) THEN ops \ {op} ELSE ops
    BY <2>1 DEF Answer, pageVars
  <2>4. ASSUME NEW s \in streams, NEW other \in ops, Of(other, page, s)
        PROVE  (\E o \in ops' : Of(o, page, s)) \/ OnItsWay(s)'
    BY <2>2, <2>3, <2>4
  <2> QED
    BY <1>2, <1>3, <2>2, <2>3, <2>4 DEF UnderWay, OnItsWay
<1>9. ASSUME NEW c \in Connections, ReadMessage(c)
      PROVE  \A s \in streams' : UnderWay(s)'
  <2>1. UNCHANGED <<streams, calls, ops>>
    BY <1>9 DEF ReadMessage, pageVars
  <2>2. \A s : OnItsWay(s) => OnItsWay(s)'
    BY <1>1, <1>2, <1>3, <1>9, ReadOnItsWay
  <2> QED
    BY <1>2, <1>3, <2>1, <2>2 DEF UnderWay, OnItsWay
<1>10. ~LoadPage /\ ~\E c \in Connections : ReadFails(c) \/ Break(c)
  BY <1>2 DEF LoadPage, Break, Forget
<1> QED
  BY <1>4, <1>5, <1>6, <1>7, <1>8, <1>9, <1>10 DEF Next

\* The parts of the invariant hold one another up.
LEMMA KeptStep ==
  ASSUME PageInv, BridgeInv, IdsUnique, KeptInv, [Next]_vars
  PROVE  KeptInv'
<1>1. TypeOK /\ Queues /\ Counted /\ Untroubled /\ WritesMessages /\ Subscribed /\ Cancelled
  BY DEF PageInv, KeptInv
<1>2. /\ Untroubled'
      /\ ~trouble' => ~trouble /\ page' = page /\ ~\E p \in Pages : WriteIsLost(p)
  BY <1>1, UntroubledStep
<1>3. Subscribed'
  BY <1>1, <1>2, SubscribedStep DEF Subscribed
<1>4. WritesMessages'
  BY <1>1, WritesStep
<1>5. Cancelled'
  BY <1>1, CancelledStep
<1> QED
  BY <1>2, <1>3, <1>4, <1>5, ForgottenStep DEF KeptInv

\* At first there is no stream, and the page's only call is the subscription.
LEMMA KeptAtFirst == Init => KeptInv
<1> SUFFICES ASSUME Init PROVE KeptInv
  OBVIOUS
<1>1. /\ page = 1 /\ page \in Pages /\ reading = {} /\ open = {} /\ streams = {} /\ ops = {}
      /\ \A p \in Pages : step[p] = "idle"
      /\ \A c \in Connections : replies[c] = <<>>
  BY BoundsAssumption DEF Init, Bridge!Init, Pages
<1>2. calls[page] = <<Subscribe>>
  BY <1>1 DEF Init
<1>3. /\ calls[page] # <<>> /\ Head(calls[page]) = Subscribe
      /\ \A i \in 1..Len(calls[page]) : calls[page][i] = Subscribe
  BY <1>2
<1> QED
  BY <1>1, <1>3, CallKinds
     DEF KeptInv, Untroubled, WritesMessages, Subscribed, Cancelled, NoneForgotten

\* As long as no connection or page is lost and the engine is there, no request is
\* forgotten: the request of every stream waits, is being served, or its last reply
\* is on its way to the page.
THEOREM NoRequestForgotten == Spec => []NoneForgotten
<1>1. PageInv /\ BridgeInv /\ IdsUnique /\ Once /\ KeptInv /\ [Next]_vars => KeptInv'
  BY KeptStep
<1>2. KeptInv => NoneForgotten
  BY DEF KeptInv
<1> QED
  BY <1>1, <1>2, KeptAtFirst, PageInvariant, PageBridgeInvariant, IdsInvariant, PTL DEF Spec

-----------------------------------------------------------------------------
(* The messages of the page, over texts of any length. *)

\* The wire format, of which TLC checks every message of short texts.
Wire == INSTANCE WireFormat

\* A text, as the pieces between its separators.
Piece(Pieces) == [text : Pieces]
Text(Pieces)  == {t \in Seq(Piece(Pieces)) : t # <<>>}

\* What a message is split into behind its id and type: pieces, marked or not.
Part(Pieces) == Piece(Pieces) \cup [json : Piece(Pieces)] \cup [query : Piece(Pieces)]

\* What is left of a text that is read up to its first separator.
Cut(text) == <<text[1]>>

\* What arrives: what follows the first separator of a key is taken for the data.
Received(msg) ==
  CASE msg.type \in Wire!BareTypes  -> msg
    [] msg.type \in Wire!ErrorTypes -> [msg EXCEPT !.message = Cut(@)]
    [] msg.type \in Wire!KeyTypes   -> [msg EXCEPT !.key = Cut(@)]
    [] msg.type \in Wire!QueryTypes -> [msg EXCEPT !.query = Cut(@)]
    [] msg.type \in Wire!DataTypes  ->
         [msg EXCEPT !.key = Cut(@),
                     !.data = IF Len(msg.key) = 1
                                THEN msg.data
                                ELSE Tail(msg.key) \o Wire!JSON(msg.data)]

\* The type of a message tells which members it has.
LEMMA MessageKinds ==
  ASSUME NEW Ids, NEW Texts, NEW msg \in Wire!Messages(Ids, Texts)
  PROVE  \/ msg.type \in Wire!BareTypes /\ msg \in [id : Ids, type : Wire!BareTypes]
         \/ msg.type \in Wire!ErrorTypes
              /\ msg \in [id : Ids, type : Wire!ErrorTypes, message : Texts]
         \/ msg.type \in Wire!DataTypes
              /\ msg \in [id : Ids, type : Wire!DataTypes, key : Texts, data : Texts]
         \/ msg.type \in Wire!KeyTypes /\ msg \in [id : Ids, type : Wire!KeyTypes, key : Texts]
         \/ msg.type \in Wire!QueryTypes
              /\ msg \in [id : Ids, type : Wire!QueryTypes, query : Texts]
BY DEF Wire!Messages

\* The two parts every message begins with, followed by the parts of its texts.
LEMMA Prefixed ==
  ASSUME NEW S, NEW id \in S, NEW type \in S, NEW body \in Seq(S),
         NEW parts, parts = <<id, type>> \o body
  PROVE  /\ parts[1] = id /\ parts[2] = type
         /\ parts \in Seq(S) /\ Len(parts) = Len(body) + 2
         /\ \A i \in 1..Len(body) : parts[i + 2] = body[i]
<1> DEFINE head == <<id, type>>
<1>1. head \in Seq(S) /\ Len(head) = 2 /\ head[1] = id /\ head[2] = type
  OBVIOUS
<1>2. parts = head \o body
  OBVIOUS
<1> HIDE DEF head
<1> QED
  BY <1>1, <1>2, ConcatProperties

\* The same, if one part follows.
LEMMA OnePrefixed ==
  ASSUME NEW S, NEW m \in S, NEW rest \in Seq(S), NEW parts, parts = <<m>> \o rest
  PROVE  /\ parts[1] = m
         /\ parts \in Seq(S) /\ Len(parts) = Len(rest) + 1
         /\ \A i \in 1..Len(rest) : parts[i + 1] = rest[i]
<1> DEFINE head == <<m>>
<1>1. head \in Seq(S) /\ Len(head) = 1 /\ head[1] = m
  OBVIOUS
<1>2. parts = head \o rest
  OBVIOUS
<1> HIDE DEF head
<1> QED
  BY <1>1, <1>2, ConcatProperties

\* A text has a first piece; one without separators is that piece.
LEMMA TextPieces ==
  ASSUME NEW Pieces, NEW t \in Text(Pieces)
  PROVE  /\ t \in Seq(Piece(Pieces)) /\ Len(t) \in Nat \ {0} /\ t[1] \in Piece(Pieces)
         /\ Cut(t) \in Seq(Piece(Pieces)) /\ Len(Cut(t)) = 1
         /\ Len(t) = 1 => Cut(t) = t
<1>1. t \in Seq(Piece(Pieces)) /\ Len(t) \in Nat \ {0} /\ t[1] \in Piece(Pieces)
  BY DEF Text
<1> DEFINE p == t[1]
<1>2. p \in Piece(Pieces)
  BY <1>1
<1>3. Cut(t) = <<p>>
  BY DEF Cut
<1> HIDE DEF p
<1>4. <<p>> \in Seq(Piece(Pieces)) /\ Len(<<p>>) = 1 /\ <<p>>[1] = p
  BY <1>2
<1>5. ASSUME Len(t) = 1
      PROVE  <<p>> = t
  BY <1>1, <1>4, <1>5 DEF p
<1> QED
  BY <1>1, <1>3, <1>4, <1>5

\* Marks: what is marked is found again, and an unmarked piece is left alone.
LEMMA Marks ==
  ASSUME NEW Pieces, NEW p \in Piece(Pieces)
  PROVE  /\ Wire!Unmark([json |-> p], "json") = p
         /\ Wire!Unmark([query |-> p], "query") = p
         /\ Wire!Unmark(p, "json") = p
<1>1. "json" \in DOMAIN [json |-> p] /\ [json |-> p]["json"] = p
  OBVIOUS
<1>2. "query" \in DOMAIN [query |-> p] /\ [query |-> p]["query"] = p
  OBVIOUS
<1>3. "json" \notin DOMAIN p
  BY DEF Piece
<1> QED
  BY <1>1, <1>2, <1>3 DEF Wire!Unmark

\* The first piece of a text is marked, and the others follow as they are.
LEMMA Marked ==
  ASSUME NEW Pieces, NEW t \in Text(Pieces)
  PROVE  /\ Wire!JSON(t) \in Seq(Part(Pieces)) /\ Len(Wire!JSON(t)) = Len(t)
         /\ Wire!JSON(t)[1] = [json |-> t[1]]
         /\ \A i \in 2..Len(t) : Wire!JSON(t)[i] = t[i]
         /\ Wire!Query(t) \in Seq(Part(Pieces)) /\ Len(Wire!Query(t)) = Len(t)
         /\ Wire!Query(t)[1] = [query |-> t[1]]
<1> DEFINE rest == Tail(t)
<1>1. /\ t \in Seq(Part(Pieces)) /\ Len(t) \in Nat \ {0} /\ t[1] \in Piece(Pieces)
      /\ [json |-> t[1]] \in Part(Pieces) /\ [query |-> t[1]] \in Part(Pieces)
  BY TextPieces DEF Part
<1>2. /\ rest \in Seq(Part(Pieces)) /\ Len(rest) = Len(t) - 1
      /\ \A i \in 1..Len(rest) : rest[i] = t[i + 1]
  BY <1>1
<1> HIDE DEF rest
<1>3. ASSUME NEW m \in Part(Pieces)
      PROVE  /\ <<m>> \o rest \in Seq(Part(Pieces)) /\ Len(<<m>> \o rest) = Len(t)
             /\ (<<m>> \o rest)[1] = m
             /\ \A i \in 2..Len(t) : (<<m>> \o rest)[i] = t[i]
  <2> DEFINE marked == <<m>> \o rest
  <2>1. /\ marked[1] = m
        /\ marked \in Seq(Part(Pieces)) /\ Len(marked) = Len(rest) + 1
        /\ \A i \in 1..Len(rest) : marked[i + 1] = rest[i]
    BY <1>2, OnePrefixed
  <2> HIDE DEF marked
  <2>2. ASSUME NEW i \in 2..Len(t)
        PROVE  i - 1 \in 1..Len(rest) /\ i = (i - 1) + 1 /\ rest[i - 1] = t[i]
    BY <1>1, <1>2
  <2>3. \A i \in 2..Len(t) : marked[i] = t[i]
    BY <2>1, <2>2
  <2>4. Len(marked) = Len(t)
    BY <1>1, <1>2, <2>1
  <2> QED
    BY <2>1, <2>3, <2>4 DEF marked
<1> QED
  BY <1>1, <1>3 DEF Wire!JSON, Wire!Query, rest

\* What the parts from the fourth on are put together to.
LEMMA Rejoined ==
  ASSUME NEW S, NEW parts \in Seq(S), Len(parts) > 3, NEW first \in S,
         NEW whole \in Seq(S), Len(whole) + 3 = Len(parts), whole[1] = first,
         \A i \in 2..Len(whole) : whole[i] = parts[i + 3]
  PROVE  <<first>> \o SubSeq(parts, 5, Len(parts)) = whole
<1> DEFINE rest == SubSeq(parts, 5, Len(parts))
           joined == <<first>> \o rest
<1>0. Len(parts) \in Nat /\ Len(whole) \in Nat /\ Len(whole) > 0
  OBVIOUS
<1>1. /\ rest \in Seq(S) /\ Len(rest) = Len(whole) - 1
      /\ \A i \in 1..Len(rest) : rest[i] = parts[i + 4]
  <2>1. /\ 5 \in 1..(Len(parts) + 1) /\ Len(parts) \in (5 - 1)..Len(parts)
        /\ Len(parts) - 5 + 1 = Len(whole) - 1
    BY <1>0
  <2>2. /\ rest \in Seq(S) /\ Len(rest) = Len(parts) - 5 + 1
        /\ \A i \in 1..(Len(parts) - 5 + 1) : rest[i] = parts[5 + i - 1]
    BY <2>1, SubSeqProperties
  <2>3. \A i \in 1..Len(rest) : 5 + i - 1 = i + 4
    OBVIOUS
  <2> QED
    BY <2>1, <2>2, <2>3
<1> HIDE DEF rest
<1>2. /\ joined[1] = first
      /\ joined \in Seq(S) /\ Len(joined) = Len(rest) + 1
      /\ \A i \in 1..Len(rest) : joined[i + 1] = rest[i]
  BY <1>1, OnePrefixed
<1> HIDE DEF joined
<1>3. ASSUME NEW i \in 2..Len(whole)
      PROVE  joined[i] = whole[i]
  <2>1. i - 1 \in 1..Len(rest) /\ (i - 1) + 1 = i /\ (i - 1) + 4 = i + 3
    BY <1>0, <1>1
  <2>2. joined[(i - 1) + 1] = rest[i - 1] /\ rest[i - 1] = parts[(i - 1) + 4]
    BY <1>1, <1>2, <2>1
  <2> QED
    BY <2>1, <2>2
<1>4. Len(joined) = Len(whole) /\ \A i \in 1..Len(whole) : joined[i] = whole[i]
  BY <1>0, <1>1, <1>2, <1>3
<1>5. joined = whole
  BY <1>2, <1>4, SeqEqual
<1> QED
  BY <1>5 DEF joined, rest

\* Dropping the first piece of a key before or after the data are appended.
SplitOff(key, data, whole, remaining, S) ==
  /\ whole \in Seq(S) /\ Len(whole) = Len(key) + Len(data)
  /\ \A i \in 1..Len(key) : whole[i] = key[i]
  /\ \A i \in 1..Len(data) : whole[i + Len(key)] = data[i]
  /\ remaining \in Seq(S) /\ Len(remaining) = Len(key) + Len(data) - 1
  /\ \A i \in 1..(Len(key) + Len(data) - 1) : remaining[i] = whole[i + 1]

\* The parts of a text followed by those of the data.
LEMMA Appended ==
  ASSUME NEW S, NEW key \in Seq(S), key # <<>>, NEW data \in Seq(S)
  PROVE  SplitOff(key, data, key \o data, Tail(key) \o data, S)
<1> DEFINE rest == Tail(key)
<1>1. /\ rest \in Seq(S) /\ Len(rest) = Len(key) - 1 /\ Len(key) \in Nat \ {0}
      /\ Len(data) \in Nat
      /\ \A i \in 1..Len(rest) : rest[i] = key[i + 1]
  OBVIOUS
<1> HIDE DEF rest
<1>2. /\ key \o data \in Seq(S) /\ Len(key \o data) = Len(key) + Len(data)
      /\ \A i \in 1..(Len(key) + Len(data)) :
           (key \o data)[i] = IF i <= Len(key) THEN key[i] ELSE data[i - Len(key)]
  BY ConcatProperties
<1>3. /\ rest \o data \in Seq(S) /\ Len(rest \o data) = Len(rest) + Len(data)
      /\ \A i \in 1..(Len(rest) + Len(data)) :
           (rest \o data)[i] = IF i <= Len(rest) THEN rest[i] ELSE data[i - Len(rest)]
  BY <1>1, ConcatProperties
<1>4. \A i \in 1..Len(key) : (key \o data)[i] = key[i]
  BY <1>1, <1>2
<1>5. ASSUME NEW i \in 1..Len(data)
      PROVE  (key \o data)[i + Len(key)] = data[i]
  <2>1. i + Len(key) \in 1..(Len(key) + Len(data)) /\ ~(i + Len(key) <= Len(key))
        /\ i + Len(key) - Len(key) = i
    BY <1>1
  <2> QED
    BY <1>2, <2>1
<1>6. ASSUME NEW i \in 1..(Len(key) + Len(data) - 1)
      PROVE  (rest \o data)[i] = (key \o data)[i + 1]
  <2>1. /\ i \in 1..(Len(rest) + Len(data)) /\ i + 1 \in 1..(Len(key) + Len(data))
        /\ i <= Len(rest) <=> i + 1 <= Len(key)
        /\ i <= Len(rest) => i \in 1..Len(rest)
        /\ i - Len(rest) = i + 1 - Len(key)
    BY <1>1
  <2> QED
    BY <1>1, <1>2, <1>3, <2>1
<1> QED
  BY <1>1, <1>2, <1>3, <1>4, <1>5, <1>6 DEF rest, SplitOff

\* A message on the wire: id and type, and what its texts become.
Body(msg) ==
  CASE msg.type \in Wire!BareTypes  -> <<>>
    [] msg.type \in Wire!ErrorTypes -> msg.message
    [] msg.type \in Wire!DataTypes  -> msg.key \o Wire!JSON(msg.data)
    [] msg.type \in Wire!KeyTypes   -> msg.key
    [] msg.type \in Wire!QueryTypes -> Wire!Query(msg.query)

Framed(parts, msg, body, S) ==
  /\ parts[1].text = msg.id /\ parts[2].text = msg.type
  /\ parts \in Seq(S \cup {[text |-> msg.id], [text |-> msg.type]})
  /\ Len(parts) = Len(body) + 2
  /\ \A i \in 1..Len(body) : parts[i + 2] = body[i]

\* The id and the type of a message survive, and so do the parts behind them.
LEMMA Transmitted ==
  ASSUME NEW msg, NEW S, NEW body \in Seq(S), body = Body(msg)
  PROVE  Framed(Wire!serializeMessage(msg), msg, body, S)
<1> DEFINE parts == Wire!serializeMessage(msg)
           id == [text |-> msg.id]
           type == [text |-> msg.type]
           All == S \cup {id, type}
<1>1. parts = <<id, type>> \o body
  BY DEF Wire!serializeMessage, Body
<1>2. id \in All /\ type \in All /\ body \in Seq(All)
  OBVIOUS
<1>3. id.text = msg.id /\ type.text = msg.type
  OBVIOUS
<1> HIDE DEF parts, id, type, All
<1>4. /\ parts[1] = id /\ parts[2] = type
      /\ parts \in Seq(All)
      /\ Len(parts) = Len(body) + 2
      /\ \A i \in 1..Len(body) : parts[i + 2] = body[i]
  BY <1>1, <1>2, Prefixed
<1> QED
  BY <1>3, <1>4 DEF Framed, parts, All, id, type

\* A message of the UI arrives with its id, its type and its members, whatever
\* separators its texts contain: keys, messages and queries up to their first
\* one, data whole (portapi.types.ts:315-450).
THEOREM MessagesReceived ==
  ASSUME NEW Ids, NEW Pieces, NEW msg \in Wire!Messages(Ids, Text(Pieces))
  PROVE  Wire!deserializeMessage(Wire!serializeMessage(msg)) = Received(msg)
<1> DEFINE parts == Wire!serializeMessage(msg)
           All == Part(Pieces)
<1> USE DEF Wire!BareTypes, Wire!ErrorTypes, Wire!DataTypes, Wire!KeyTypes, Wire!QueryTypes
<1>0. \A t \in Text(Pieces) : t \in Seq(All)
  BY TextPieces DEF Part
<1>1. CASE msg \in [id : Ids, type : Wire!BareTypes]
  <2>1. Body(msg) = <<>> /\ Body(msg) \in Seq(All)
    BY <1>1 DEF Body
  <2>2. parts[1].text = msg.id /\ parts[2].text = msg.type
    <3>1. Framed(parts, msg, Body(msg), All)
      BY <2>1, Transmitted
    <3> QED
      BY <3>1 DEF Framed
  <2>3. Wire!deserializeMessage(parts) = [id |-> msg.id, type |-> msg.type]
    <3> HIDE DEF parts
    <3> QED
      BY <1>1, <2>2 DEF Wire!deserializeMessage
  <2>4. msg = [id |-> msg.id, type |-> msg.type]
    BY <1>1
  <2>5. Received(msg) = msg
    BY <1>1 DEF Received
  <2> QED
    BY <2>3, <2>4, <2>5
<1>2. CASE msg \in [id : Ids, type : Wire!ErrorTypes, message : Text(Pieces)]
  <2>1. Body(msg) = msg.message /\ msg.message \in Seq(All)
    BY <1>0, <1>2 DEF Body
  <2>2. 1 \in 1..Len(msg.message)
    BY <1>2, TextPieces
  <2>3. parts[1].text = msg.id /\ parts[2].text = msg.type /\ parts[3] = msg.message[1]
    <3>1. Framed(parts, msg, msg.message, All)
      BY <2>1, Transmitted
    <3> HIDE DEF parts, All
    <3> QED
      BY <2>2, <3>1 DEF Framed
  <2>4. Wire!deserializeMessage(parts)
          = [id |-> msg.id, type |-> msg.type, message |-> <<msg.message[1]>>]
    <3> HIDE DEF parts
    <3> QED
      BY <1>2, <2>3 DEF Wire!deserializeMessage
  <2>5. Received(msg) = [id |-> msg.id, type |-> msg.type, message |-> <<msg.message[1]>>]
    <3>1. Received(msg) = [msg EXCEPT !.message = Cut(@)]
      BY <1>2 DEF Received
    <3> QED
      BY <1>2, <3>1 DEF Cut
  <2> QED
    BY <2>4, <2>5
<1>3. CASE msg \in [id : Ids, type : Wire!KeyTypes, key : Text(Pieces)]
  <2>1. Body(msg) = msg.key /\ msg.key \in Seq(All)
    BY <1>0, <1>3 DEF Body
  <2>2. 1 \in 1..Len(msg.key)
    BY <1>3, TextPieces
  <2>3. parts[1].text = msg.id /\ parts[2].text = msg.type /\ parts[3] = msg.key[1]
    <3>1. Framed(parts, msg, msg.key, All)
      BY <2>1, Transmitted
    <3> HIDE DEF parts, All
    <3> QED
      BY <2>2, <3>1 DEF Framed
  <2>4. Wire!deserializeMessage(parts)
          = [id |-> msg.id, type |-> msg.type, key |-> <<msg.key[1]>>]
    <3> HIDE DEF parts
    <3> QED
      BY <1>3, <2>3 DEF Wire!deserializeMessage
  <2>5. Received(msg) = [id |-> msg.id, type |-> msg.type, key |-> <<msg.key[1]>>]
    <3>1. Received(msg) = [msg EXCEPT !.key = Cut(@)]
      BY <1>3 DEF Received
    <3> QED
      BY <1>3, <3>1 DEF Cut
  <2> QED
    BY <2>4, <2>5
<1>4. CASE msg \in [id : Ids, type : Wire!QueryTypes, query : Text(Pieces)]
  <2>0. msg.query \in Text(Pieces)
    BY <1>4
  <2>1. /\ Wire!Query(msg.query) \in Seq(All)
        /\ Len(Wire!Query(msg.query)) = Len(msg.query)
        /\ Wire!Query(msg.query)[1] = [query |-> msg.query[1]]
    BY <2>0, Marked
  <2>2. Body(msg) = Wire!Query(msg.query)
    BY <1>4 DEF Body
  <2>3. 1 \in 1..Len(msg.query) /\ msg.query[1] \in Piece(Pieces)
    BY <1>4, TextPieces
  <2>4. /\ parts[1].text = msg.id /\ parts[2].text = msg.type
        /\ parts[3] = [query |-> msg.query[1]]
    <3> DEFINE query == Wire!Query(msg.query)
    <3>1. query \in Seq(All) /\ query = Body(msg)
      BY <2>1, <2>2
    <3>2. Len(query) = Len(msg.query) /\ query[1] = [query |-> msg.query[1]]
      BY <2>1
    <3> HIDE DEF parts, query, All
    <3>3. Framed(parts, msg, query, All)
      BY <3>1, Transmitted DEF parts
    <3> QED
      BY <2>3, <3>2, <3>3 DEF Framed
  <2>5. Wire!Unmark(parts[3], "query") = msg.query[1]
    BY <2>3, <2>4, Marks
  <2>6. Wire!deserializeMessage(parts)
          = [id |-> msg.id, type |-> msg.type, query |-> <<msg.query[1]>>]
    <3> HIDE DEF parts
    <3> QED
      BY <1>4, <2>4, <2>5 DEF Wire!deserializeMessage
  <2>7. Received(msg) = [id |-> msg.id, type |-> msg.type, query |-> <<msg.query[1]>>]
    <3>1. Received(msg) = [msg EXCEPT !.query = Cut(@)]
      BY <1>4 DEF Received
    <3> QED
      BY <1>4, <3>1 DEF Cut
  <2> QED
    BY <2>6, <2>7
<1>5. CASE msg \in [id : Ids, type : Wire!DataTypes, key : Text(Pieces), data : Text(Pieces)]
  <2> DEFINE key  == msg.key
             data == Wire!JSON(msg.data)
             wire == All \cup {[text |-> msg.id], [text |-> msg.type]}
             whole == key \o data
             remaining == Tail(key) \o data
             first == Wire!Unmark(parts[4], "json")
             rest == <<first>> \o SubSeq(parts, 5, Len(parts))
             arrived == IF Len(key) = 1 THEN msg.data ELSE remaining
  <2>0. key \in Text(Pieces) /\ msg.data \in Text(Pieces)
    BY <1>5
  <2>1. /\ key \in Seq(All) /\ Len(key) \in Nat \ {0} /\ key # <<>>
        /\ \A i \in 1..Len(key) : key[i] \in Piece(Pieces)
        /\ msg.data \in Seq(All) /\ Len(msg.data) \in Nat \ {0}
        /\ msg.data[1] \in Piece(Pieces)
    BY <1>0, <2>0, TextPieces
  <2>2. /\ data \in Seq(All) /\ Len(data) = Len(msg.data) /\ data[1] = [json |-> msg.data[1]]
        /\ \A i \in 2..Len(msg.data) : data[i] = msg.data[i]
    BY <2>0, Marked
  <2>3. Body(msg) = whole
    BY <1>5 DEF Body
  <2>4. SplitOff(key, data, whole, remaining, All)
    <3> HIDE DEF data, key, All
    <3> QED
      BY <2>1, <2>2, Appended
  <2>a. Framed(parts, msg, whole, All)
    <3>1. whole \in Seq(All)
      BY <2>4 DEF SplitOff
    <3> HIDE DEF whole, All
    <3> QED
      BY <2>3, <3>1, Transmitted
  <2>b. /\ parts \in Seq(wire) /\ Len(parts) = Len(whole) + 2
        /\ parts[1].text = msg.id /\ parts[2].text = msg.type
        /\ \A i \in 1..Len(whole) : parts[i + 2] = whole[i]
    BY <2>a DEF Framed
  <2> HIDE DEF data, key, whole, remaining, parts, All
  <2>c. parts[3] = key[1]
    <3>1. 1 \in 1..Len(key) /\ 1 \in 1..Len(whole) /\ 1 + 2 = 3
      BY <2>1, <2>2, <2>4 DEF SplitOff
    <3> QED
      BY <2>4, <2>b, <3>1 DEF SplitOff
  <2>d. rest = arrived
    <3>0. /\ Len(parts) = Len(key) + Len(data) + 2 /\ Len(parts) > 3 /\ All \subseteq wire
          /\ Len(data) \in Nat \ {0} /\ Piece(Pieces) \subseteq wire
      BY <2>1, <2>2, <2>4, <2>b DEF SplitOff, All, Part
    <3>1. CASE Len(key) = 1
      <4>1. parts[4] = data[1]
        <5>1. 1 \in 1..Len(data) /\ 2 \in 1..Len(whole) /\ 1 + Len(key) = 2 /\ 2 + 2 = 4
          BY <2>1, <2>4, <3>0, <3>1 DEF SplitOff
        <5>2. parts[2 + 2] = whole[2] /\ whole[1 + Len(key)] = data[1]
          BY <2>4, <2>b, <5>1 DEF SplitOff
        <5> QED
          BY <5>1, <5>2
      <4>2. first = msg.data[1] /\ first \in wire
        <5>1. first = Wire!Unmark([json |-> msg.data[1]], "json")
          BY <2>2, <4>1
        <5> QED
          BY <2>1, <3>0, <5>1, Marks
      <4>3. ASSUME NEW i \in 2..Len(msg.data)
            PROVE  msg.data[i] = parts[i + 3]
        <5>1. /\ i \in 1..Len(data) /\ i + Len(key) = i + 1
              /\ i + 1 \in 1..Len(whole) /\ (i + 1) + 2 = i + 3
          BY <2>1, <2>2, <2>4, <3>1 DEF SplitOff
        <5>2. parts[(i + 1) + 2] = whole[i + 1] /\ whole[i + Len(key)] = data[i]
          BY <2>4, <2>b, <5>1 DEF SplitOff
        <5> QED
          BY <2>2, <5>1, <5>2
      <4>4. msg.data \in Seq(wire) /\ Len(msg.data) + 3 = Len(parts)
        BY <2>1, <2>2, <3>0, <3>1
      <4> DEFINE text == msg.data
      <4>5. text \in Seq(wire) /\ Len(text) + 3 = Len(parts) /\ text[1] = first
            /\ \A i \in 2..Len(text) : text[i] = parts[i + 3]
        BY <4>2, <4>3, <4>4
      <4>6. first \in wire /\ parts \in Seq(wire) /\ Len(parts) > 3
        BY <2>b, <3>0, <4>2
      <4> HIDE DEF first, wire, text
      <4>7. <<first>> \o SubSeq(parts, 5, Len(parts)) = text
        BY <4>5, <4>6, Rejoined
      <4> QED
        BY <3>1, <4>7 DEF first, text
    <3>2. CASE Len(key) # 1
      <4>0. 2 \in 1..Len(key) /\ 2 \in 1..Len(whole) /\ 1 \in 1..(Len(key) + Len(data) - 1)
            /\ 2 + 2 = 4 /\ 1 + 1 = 2
        <5>1. Len(key) \in Nat /\ Len(key) > 1
          <6>1. Len(key) \in Nat \ {0}
            BY <2>1
          <6>2. \A n \in Nat \ {0} : n # 1 => n \in Nat /\ n > 1
            OBVIOUS
          <6> HIDE DEF wire, first, rest, arrived
          <6> QED
            BY <3>2, <6>1, <6>2, Zenon
        <5>2. Len(data) \in Nat /\ Len(data) > 0
          BY <3>0
        <5>3. Len(whole) = Len(key) + Len(data)
          BY <2>4 DEF SplitOff
        <5> QED
          BY <5>1, <5>2, <5>3
      <4>1. parts[4] = key[2] /\ remaining[1] = key[2] /\ key[2] \in Piece(Pieces)
        <5>1. parts[2 + 2] = whole[2] /\ whole[2] = key[2] /\ remaining[1] = whole[1 + 1]
          BY <2>4, <2>b, <4>0 DEF SplitOff
        <5> QED
          BY <2>1, <4>0, <5>1
      <4>2. first = key[2] /\ first \in wire
        BY <3>0, <4>1, Marks
      <4>3. remaining \in Seq(wire) /\ Len(remaining) + 3 = Len(parts) /\ remaining[1] = first
        <5>1. remaining \in Seq(All) /\ Len(remaining) = Len(key) + Len(data) - 1
          BY <2>4 DEF SplitOff
        <5> QED
          BY <2>1, <3>0, <4>1, <4>2, <5>1
      <4>4. ASSUME NEW i \in 2..Len(remaining)
            PROVE  remaining[i] = parts[i + 3]
        <5>1. /\ i \in 1..(Len(key) + Len(data) - 1)
              /\ i + 1 \in 1..Len(whole) /\ (i + 1) + 2 = i + 3
          BY <2>1, <2>2, <2>4 DEF SplitOff
        <5>2. parts[(i + 1) + 2] = whole[i + 1] /\ remaining[i] = whole[i + 1]
          BY <2>4, <2>b, <5>1 DEF SplitOff
        <5> QED
          BY <5>1, <5>2
      <4>5. first \in wire /\ parts \in Seq(wire) /\ Len(parts) > 3
        BY <2>b, <3>0, <4>2
      <4> HIDE DEF first, wire
      <4>6. <<first>> \o SubSeq(parts, 5, Len(parts)) = remaining
        BY <4>3, <4>4, <4>5, Rejoined
      <4> QED
        BY <3>2, <4>6 DEF first
    <3> QED
      BY <3>1, <3>2
  <2>5. Wire!deserializeMessage(parts)
          = [id |-> msg.id, type |-> msg.type, key |-> <<key[1]>>, data |-> rest]
    <3> HIDE DEF parts
    <3> QED
      BY <1>5, <2>b, <2>c DEF Wire!deserializeMessage
  <2>6. Received(msg) = [id |-> msg.id, type |-> msg.type, key |-> <<key[1]>>, data |-> arrived]
    <3> HIDE DEF arrived
    <3>1. Received(msg) = [msg EXCEPT !.key = Cut(@), !.data = arrived]
      BY <1>5 DEF Received, arrived, key, data, remaining
    <3> QED
      BY <1>5, <3>1 DEF Cut, key
  <2> QED
    BY <2>d, <2>5, <2>6 DEF parts
<1> QED
  BY <1>1, <1>2, <1>3, <1>4, <1>5, MessageKinds

\* A message whose key, message or query contains no separator arrives as it was
\* sent, whatever its data contain.
THEOREM MessagesRoundTrip ==
  ASSUME NEW Ids, NEW Pieces, NEW msg \in Wire!Messages(Ids, Text(Pieces)),
         \A field \in {"message", "key", "query"} \cap DOMAIN msg : Len(msg[field]) = 1
  PROVE  Wire!deserializeMessage(Wire!serializeMessage(msg)) = msg
<1> USE DEF Wire!BareTypes, Wire!ErrorTypes, Wire!DataTypes, Wire!KeyTypes, Wire!QueryTypes
<1>1. CASE msg \in [id : Ids, type : Wire!BareTypes]
  BY <1>1, MessagesReceived DEF Received
<1>2. CASE msg \in [id : Ids, type : Wire!ErrorTypes, message : Text(Pieces)]
  <2>1. Len(msg.message) = 1 /\ msg.message \in Text(Pieces)
    BY <1>2
  <2>2. Cut(msg.message) = msg.message
    BY <2>1, TextPieces
  <2>3. Received(msg) = [msg EXCEPT !.message = msg.message]
    BY <1>2, <2>2 DEF Received
  <2> QED
    BY <1>2, <2>3, MessagesReceived
<1>3. CASE msg \in [id : Ids, type : Wire!KeyTypes, key : Text(Pieces)]
  <2>1. Len(msg.key) = 1 /\ msg.key \in Text(Pieces)
    BY <1>3
  <2>2. Cut(msg.key) = msg.key
    BY <2>1, TextPieces
  <2>3. Received(msg) = [msg EXCEPT !.key = msg.key]
    BY <1>3, <2>2 DEF Received
  <2> QED
    BY <1>3, <2>3, MessagesReceived
<1>4. CASE msg \in [id : Ids, type : Wire!QueryTypes, query : Text(Pieces)]
  <2>1. Len(msg.query) = 1 /\ msg.query \in Text(Pieces)
    BY <1>4
  <2>2. Cut(msg.query) = msg.query
    BY <2>1, TextPieces
  <2>3. Received(msg) = [msg EXCEPT !.query = msg.query]
    BY <1>4, <2>2 DEF Received
  <2> QED
    BY <1>4, <2>3, MessagesReceived
<1>5. CASE msg \in [id : Ids, type : Wire!DataTypes, key : Text(Pieces), data : Text(Pieces)]
  <2>1. Len(msg.key) = 1 /\ msg.key \in Text(Pieces)
    BY <1>5
  <2>2. Cut(msg.key) = msg.key
    BY <2>1, TextPieces
  <2>3. Received(msg) = [msg EXCEPT !.key = msg.key, !.data = msg.data]
    BY <1>5, <2>1, <2>2 DEF Received
  <2> QED
    BY <1>5, <2>3, MessagesReceived
<1> QED
  BY <1>1, <1>2, <1>3, <1>4, <1>5, MessageKinds
=============================================================================
