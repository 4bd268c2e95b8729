------------------------------- MODULE PortApi -------------------------------
(***************************************************************************)
(* The PortAPI client of the UI (src/app/lib/portapi.service.ts over       *)
(* src/app/services/websocket.service.ts) on top of DatabaseBridge: a page *)
(* sends requests and cancels through its plugin thread, the bridge writes *)
(* them to its websocket, and replies come back as db_event.  An activity  *)
(* that is opened again loads a new page, while the process, the bridge    *)
(* and its connection live on.                                             *)
(*                                                                         *)
(* The database API behind the websocket is external.                      *)
(***************************************************************************)
EXTENDS Naturals, Sequences

CONSTANTS
  None,            \* as in DatabaseBridge
  Methods,         \* the methods of the requests
  MaxConnections,  \* bound: connections dialed
  MaxPages,        \* bound: pages loaded by one process
  MaxRequests,     \* bound: requests of all pages together
  MaxInFlight      \* bound: replies on a connection and events of the page

ASSUME NoneAssumption == None \notin Nat
ASSUME MethodsAssumption == Methods \subseteq {"get", "update", "query", "qsub"}
ASSUME BoundsAssumption ==
  /\ MaxConnections \in Nat \ {0} /\ MaxPages \in Nat \ {0}
  /\ MaxRequests \in Nat /\ MaxInFlight \in Nat \ {0}

Pages == 1..MaxPages
Connections == 1..MaxConnections

VARIABLES
  dialed, conn, open, reading, dbCall, step, using,  \* as in DatabaseBridge
  up,       \* the engine serves its API
  page,     \* the page that is loaded
  nextId,   \* uniqueRequestId of the page
  made,     \* counter: requests made by all pages, for the bound
  streams,  \* _streams$ of the page: id and method of each
  retries,  \* subscriptions of the page that wait for their retryDelay
  calls,    \* calls[p]: plugin calls of page p that have not returned, oldest first
  ops,      \* operations the server is working on
  replies,  \* replies[c]: replies on connection c the bridge has not read
  events,   \* db_events the page has not handled
  trouble   \* history: something was lost, or another page was loaded

Bridge == INSTANCE DatabaseBridge WITH Threads <- Pages

bridgeVars == <<dialed, conn, open, reading, dbCall, step, using>>
pageVars   == <<page, nextId, made, streams, retries>>
serverVars == <<up, ops, replies>>
vars == <<bridgeVars, pageVars, calls, serverVars, events, trouble>>

ReplyType == {"data", "success", "done", "error"}
Stream == [id : 1..MaxRequests, method : Methods]
Operation == [conn : Connections, page : Pages, id : 1..MaxRequests, method : Methods]
Reply == [op : Operation, type : ReplyType]

\* Wrong: the server is not told to stop a query.
CancellableSubscription(method) == method = "qsub"

\* "update" stands for create, insert and delete too, "qsub" for sub, and "data"
\* for ok, upd, new and del; a warning changes nothing.
Cancellable(method) == method \in {"query", "qsub"}

\* The reply is the last one of a request with this method.
Final(method, type) ==
  \/ type = "error"
  \/ method = "get" /\ type = "data"
  \/ method = "update" /\ type = "success"
  \/ method = "query" /\ type = "done"

Subscribe == [type |-> "subscribe"]
Send(s)   == [type |-> "request", id |-> s.id, method |-> s.method]
Cancel(s) == [type |-> "cancel", id |-> s.id]

Init ==
  /\ Bridge!Init
  /\ up \in BOOLEAN
  /\ page = 1
  /\ nextId = 0
  /\ made = 0
  /\ streams = {}
  /\ retries = 0
  /\ calls = [p \in Pages |-> IF p = 1 THEN <<Subscribe>> ELSE <<>>]
  /\ ops = {}
  /\ replies = [c \in Connections |-> <<>>]
  /\ events = <<>>
  /\ trouble = FALSE

-----------------------------------------------------------------------------
(* The page. *)

\* request and multiplex: the stream is set before the request is sent.
Request(method) ==
  /\ made < MaxRequests
  /\ made' = made + 1
  /\ nextId' = nextId + 1
  /\ LET s == [id |-> nextId + 1, method |-> method]
     IN  /\ streams' = streams \cup {s}
         /\ calls' = [calls EXCEPT ![page] = Append(@, Send(s))]

NewRequest ==
  /\ \E method \in Methods : Request(method)
  /\ UNCHANGED <<bridgeVars, page, retries, serverVars, events, trouble>>

\* Wrong: subscriptions are made again that have not failed.
RetryAlways ==
  /\ retries' = retries - 1
  /\ Request("qsub")
  /\ UNCHANGED <<bridgeVars, page, serverVars, events, trouble>>

\* retryPipeline subscribes again, with a new id.
Retry ==
  /\ retries > 0
  /\ retries' = retries - 1
  /\ Request("qsub")
  /\ UNCHANGED <<bridgeVars, page, serverVars, events, trouble>>

\* The teardown of multiplex, for whatever reason the stream ends.
Teardown(s) ==
  /\ streams' = streams \ {s}
  /\ calls' = IF Cancellable(s.method)
                THEN [calls EXCEPT ![page] = Append(@, Cancel(s))]
                ELSE calls

\* A component loses interest, while its request lives or waits to be retried.
Unsubscribe ==
  /\ \/ /\ \E s \in streams : Teardown(s)
        /\ UNCHANGED retries
     \/ /\ retries > 0
        /\ retries' = retries - 1
        /\ UNCHANGED <<streams, calls>>
  /\ UNCHANGED <<bridgeVars, page, nextId, made, serverVars, events, trouble>>

\* A db_event: a message for an unknown id is ignored, others go to the stream.
OnMessage ==
  /\ events # <<>>
  /\ events' = Tail(events)
  /\ LET reply == Head(events)
         to == {s \in streams : s.id = reply.op.id}
     IN  \/ /\ \A s \in to : ~Final(s.method, reply.type)
            /\ UNCHANGED <<streams, calls, retries>>
         \/ \E s \in to :
              /\ Final(s.method, reply.type)
              /\ Teardown(s)
              /\ retries' = IF s.method = "qsub" THEN retries + 1 ELSE retries
  /\ UNCHANGED <<bridgeVars, page, nextId, made, serverVars, trouble>>

\* The activity is destroyed and opened again.  Its plugin thread still makes the
\* calls it was given.
LoadPage ==
  /\ page < MaxPages
  /\ page' = page + 1
  /\ nextId' = 0
  /\ streams' = {}
  /\ retries' = 0
  /\ calls' = [calls EXCEPT ![page + 1] = <<Subscribe>>]
  /\ events' = <<>>
  /\ trouble' = TRUE
  /\ UNCHANGED <<bridgeVars, made, serverVars>>

-----------------------------------------------------------------------------
(* The plugin thread of page p. *)

Calling(p, types) == calls[p] # <<>> /\ Head(calls[p]).type \in types
Returned(p) == calls' = [calls EXCEPT ![p] = Tail(@)]

\* What the server forgets with a connection.
Forget(c) ==
  /\ ops' = {op \in ops : op.conn # c}
  /\ replies' = [replies EXCEPT ![c] = <<>>]
  /\ trouble' = TRUE

Ensure(p) ==
  /\ calls[p] # <<>>
  /\ \/ Bridge!Reuse(p)
     \/ up /\ Bridge!Dial(p)
  /\ UNCHANGED <<pageVars, calls, serverVars, events, trouble>>

\* The engine has not started within the two seconds of twenty dials.
EnsureFails(p) ==
  /\ calls[p] # <<>>
  /\ ~up
  /\ Bridge!DialFails(p)
  /\ Returned(p)
  /\ trouble' = TRUE
  /\ UNCHANGED <<pageVars, serverVars, events>>

SubscribeToDatabase(p) ==
  /\ Calling(p, {"subscribe"})
  /\ Bridge!SetDatabaseCall(p)
  /\ Returned(p)
  /\ UNCHANGED <<pageVars, serverVars, events, trouble>>

DatabaseMessage(p) ==
  /\ Calling(p, {"request", "cancel"})
  /\ Bridge!ReadConn(p)
  /\ UNCHANGED <<pageVars, calls, serverVars, events, trouble>>

DatabaseMessageFails(p) ==
  /\ Calling(p, {"request", "cancel"})
  /\ Bridge!NotConnected(p)
  /\ Returned(p)
  /\ trouble' = TRUE
  /\ UNCHANGED <<pageVars, serverVars, events>>

\* The message reaches the server, which starts an operation or stops the one that
\* was started last under this id on the connection.
WriteMessage(p) ==
  /\ Bridge!WriteMessage(p)
  /\ Returned(p)
  /\ LET call == Head(calls[p])
         c == using[p]
         same == {op \in ops : op.conn = c /\ op.id = call.id}
     IN  ops' = IF call.type = "request"
                  THEN ops \cup {[conn |-> c, page |-> p, id |-> call.id, method |-> call.method]}
                  ELSE ops \ {op \in same : \A other \in same : other.page <= op.page}
  /\ UNCHANGED <<pageVars, up, replies, events, trouble>>

WriteIsLost(p) ==
  /\ Bridge!WriteIsLost(p)
  /\ Returned(p)
  /\ UNCHANGED <<pageVars, serverVars, events, trouble>>

\* The bound is that a connection is left to dial.
WriteFails(p) ==
  /\ dialed < MaxConnections
  /\ Bridge!WriteFails(p)
  /\ Returned(p)
  /\ Forget(using[p])
  /\ UNCHANGED <<pageVars, up, events>>

PluginThread(p) ==
  \/ Ensure(p) \/ EnsureFails(p) \/ SubscribeToDatabase(p)
  \/ DatabaseMessage(p) \/ DatabaseMessageFails(p)
  \/ WriteMessage(p) \/ WriteIsLost(p)

-----------------------------------------------------------------------------
(* The server and the read loop. *)

EngineStarts ==
  /\ ~up
  /\ up' = TRUE
  /\ UNCHANGED <<bridgeVars, pageVars, calls, ops, replies, events, trouble>>

\* What the database API answers to a method.
Answers(method) ==
  CASE method = "get"    -> {"data", "error"}
    [] method = "update" -> {"success", "error"}
    [] OTHER             -> {"data", "done", "error"}

Answer(op, type) ==
  /\ op \in ops
  /\ type \in Answers(op.method)
  /\ replies' = [replies EXCEPT ![op.conn] = Append(@, [op |-> op, type |-> type])]
  /\ ops' = IF Final(op.method, type) THEN ops \ {op} ELSE ops
  /\ UNCHANGED <<bridgeVars, pageVars, calls, up, events, trouble>>

Serve(op) ==
  \E type \in Answers(op.method) :
    /\ ~Final(op.method, type)
    /\ Len(replies[op.conn]) < MaxInFlight
    /\ Answer(op, type)

Finish(op) == \E type \in Answers(op.method) : Final(op.method, type) /\ Answer(op, type)

\* databaseReadLoop takes a message and notifies the page that subscribed last,
\* which is gone if another page has been loaded.
ReadMessage(c) ==
  /\ c \in reading \cap open
  /\ replies[c] # <<>>
  /\ Len(events) < MaxInFlight
  /\ replies' = [replies EXCEPT ![c] = Tail(@)]
  /\ events' = IF dbCall = page THEN Append(events, Head(replies[c])) ELSE events
  /\ UNCHANGED <<bridgeVars, pageVars, calls, up, ops, trouble>>

ReadFails(c) ==
  /\ Bridge!ReadFails(c)
  /\ UNCHANGED <<pageVars, calls, serverVars, events, trouble>>

Break(c) ==
  /\ dialed < MaxConnections
  /\ Bridge!Break(c)
  /\ Forget(c)
  /\ UNCHANGED <<pageVars, calls, up, events>>

Next ==
  \/ NewRequest \/ Retry \/ Unsubscribe \/ OnMessage \/ LoadPage
  \/ \E p \in Pages : PluginThread(p) \/ WriteFails(p)
  \/ EngineStarts
  \/ \E op \in ops : Serve(op) \/ Finish(op)
  \/ \E c \in Connections : ReadMessage(c) \/ ReadFails(c) \/ Break(c)

\* Plugin threads, read loops, the event loop of the page and its timers run.  The
\* server answers what can be answered once for all; a subscription it may serve for
\* ever.  Nobody has to send a request or to lose interest in one.
Fairness ==
  /\ \A p \in Pages : WF_vars(PluginThread(p))
  /\ \A c \in Connections : WF_vars(ReadMessage(c) \/ ReadFails(c))
  /\ WF_vars(OnMessage) /\ WF_vars(Retry)
  /\ \A i \in 1..MaxRequests :
       WF_vars(\E op \in ops : op.id = i /\ op.method # "qsub" /\ Finish(op))

Spec == Init /\ [][Next]_vars
FairSpec == Spec /\ Fairness

-----------------------------------------------------------------------------
(* Properties. *)

TypeOK ==
  /\ Bridge!TypeOK
  /\ up \in BOOLEAN
  /\ page \in Pages
  /\ nextId \in 0..made /\ made \in 0..MaxRequests
  /\ streams \subseteq Stream
  /\ retries \in 0..MaxRequests
  /\ \A p \in Pages : calls[p] # <<>> => p <= page
  /\ ops \subseteq Operation
  /\ replies \in [Connections -> Seq(Reply)]
  /\ events \in Seq(Reply)
  /\ trouble \in BOOLEAN

\* What the bridge promises by itself holds under the page as well: it writes where it
\* reads, and closes what it has given up.
BridgeKept == Bridge!ConnIsRead /\ Bridge!GivenUpIsClosed

\* The server streams only to those who listen: an operation of the loaded page that
\* could go on for ever has a stream, or its cancel is under way.
NoOrphanOperation ==
  \A op \in ops : op.page = page /\ op.method \in {"query", "qsub"} =>
    \/ [id |-> op.id, method |-> op.method] \in streams
    \/ \E i \in DOMAIN calls[page] : calls[page][i] = Cancel(op)

\* A request that can be answered once for all ends on the page, as long as no
\* connection or page is lost on the way and the engine is there.
Waiting(i) == \E s \in streams : s.id = i /\ s.method # "qsub"
Answered ==
  \A i \in 1..MaxRequests :
    ~trouble /\ Waiting(i) ~> trouble \/ ~Waiting(i)

\* portapi.types.ts:86-87 says the id correlates requests and responses across a
\* single websocket connection: a reply that finds a stream is one to its request.
OwnReplies ==
  \A i \in DOMAIN events, s \in streams :
    events[i].op.id = s.id => events[i].op.page = page

\* portapi.service.ts:273-276 says that a watch is retried if the websocket
\* connection is lost: a subscription the server served and does not know any more
\* ends on the page, which is what retryPipeline waits for.
Known(p, s) == page = p /\ s \in streams /\ \E op \in ops : op.page = p /\ op.id = s.id
Lost(p, s) == page = p /\ s \in streams /\ ~Known(p, s)
WatchRetries ==
  \A p \in Pages, i \in 1..MaxRequests :
    LET s == [id |-> i, method |-> "qsub"]
    IN  [](Known(p, s) => [](Lost(p, s) => <>~Lost(p, s)))
=============================================================================
