---------------------------- MODULE DatabaseBridge ----------------------------
(***************************************************************************)
(* go/engine/ui/database_bridge.go: one websocket to the database API of   *)
(* the engine, opened on demand, shared by the plugin threads that write   *)
(* to it and by the goroutine databaseReadLoop that reads it.  Every       *)
(* activity has a plugin thread of its own, which executes its calls in    *)
(* order; the thread of an activity that is gone finishes its queue beside *)
(* the new one.                                                            *)
(*                                                                         *)
(* What a critical section of databaseBridgeMu does is one step, the       *)
(* twenty dials of ensureDatabaseBridge included.  What is written and     *)
(* read is in PortApi.                                                     *)
(***************************************************************************)
EXTENDS Naturals

CONSTANTS
  Threads,  \* plugin threads
  None      \* nil

VARIABLES
  dialed,   \* connections dialed so far, which are numbered from 1
  conn,     \* databaseBridgeConn
  open,     \* connections neither side has closed
  reading,  \* connections with a live databaseReadLoop
  dbCall,   \* the thread of the plugin call that is notified, or None
  step,     \* step[t]: how far t is in its call
  using     \* using[t]: the local variable conn of databaseSendMessage

vars == <<dialed, conn, open, reading, dbCall, step, using>>

Step == {"idle", "ensured", "write"}

Init ==
  /\ dialed = 0
  /\ conn = None
  /\ open = {}
  /\ reading = {}
  /\ dbCall = None
  /\ step = [t \in Threads |-> "idle"]
  /\ using = [t \in Threads |-> None]

Goto(t, next) == step' = [step EXCEPT ![t] = next]
Return(t) == Goto(t, "idle") /\ using' = [using EXCEPT ![t] = None]

-----------------------------------------------------------------------------
(* ensureDatabaseBridge *)

\* There is a connection already.
Reuse(t) ==
  /\ step[t] = "idle"
  /\ conn # None
  /\ Goto(t, "ensured")
  /\ UNCHANGED <<dialed, conn, open, reading, dbCall, using>>

\* Wrong: the read loop is not started.
DialWithoutReader(t) ==
  /\ step[t] = "idle"
  /\ conn = None
  /\ dialed' = dialed + 1
  /\ conn' = dialed'
  /\ open' = open \cup {dialed'}
  /\ Goto(t, "ensured")
  /\ UNCHANGED <<reading, dbCall, using>>

\* One of the dials succeeds.
Dial(t) ==
  /\ step[t] = "idle"
  /\ conn = None
  /\ dialed' = dialed + 1
  /\ conn' = dialed'
  /\ open' = open \cup {dialed'}
  /\ reading' = reading \cup {dialed'}
  /\ Goto(t, "ensured")
  /\ UNCHANGED <<dbCall, using>>

\* All fail: the call returns with an error.
DialFails(t) ==
  /\ step[t] = "idle"
  /\ conn = None
  /\ UNCHANGED vars

-----------------------------------------------------------------------------
(* The rest of SubscribeToDatabase and of databaseSendMessage. *)

SetDatabaseCall(t) ==
  /\ step[t] = "ensured"
  /\ dbCall' = t
  /\ Return(t)
  /\ UNCHANGED <<dialed, conn, open, reading>>

ReadConn(t) ==
  /\ step[t] = "ensured"
  /\ conn # None
  /\ Goto(t, "write")
  /\ using' = [using EXCEPT ![t] = conn]
  /\ UNCHANGED <<dialed, conn, open, reading, dbCall>>

\* The connection was invalidated in between.
NotConnected(t) ==
  /\ step[t] = "ensured"
  /\ conn = None
  /\ Return(t)
  /\ UNCHANGED <<dialed, conn, open, reading, dbCall>>

WriteMessage(t) ==
  /\ step[t] = "write"
  /\ using[t] \in open
  /\ Return(t)
  /\ UNCHANGED <<dialed, conn, open, reading, dbCall>>

\* The other side is gone, which the write does not notice.
WriteIsLost(t) ==
  /\ step[t] = "write"
  /\ using[t] = conn
  /\ conn \notin open
  /\ Return(t)
  /\ UNCHANGED <<dialed, conn, open, reading, dbCall>>

\* Wrong: the bridge forgets whatever connection it has.
InvalidateAny(c) ==
  /\ conn' = None
  /\ open' = open \ {c}

\* invalidateDatabaseBridge.  The Close after the lock is released belongs to the
\* step: until it is made the connection is only read from.
Invalidate(c) ==
  /\ conn' = IF conn = c THEN None ELSE conn
  /\ open' = open \ {c}

\* On a connection that is closed, or that breaks now.
WriteFails(t) ==
  /\ step[t] = "write"
  /\ Invalidate(using[t])
  /\ Return(t)
  /\ UNCHANGED <<dialed, reading, dbCall>>

-----------------------------------------------------------------------------
(* databaseReadLoop *)

\* Wrong: the loop returns and leaves the connection in place.
ReadFailsQuietly(c) ==
  /\ c \in reading \ open
  /\ reading' = reading \ {c}
  /\ UNCHANGED <<dialed, conn, open, dbCall, step, using>>

ReadFails(c) ==
  /\ c \in reading \ open
  /\ reading' = reading \ {c}
  /\ Invalidate(c)
  /\ UNCHANGED <<dialed, dbCall, step, using>>

\* The server closes the connection, or it breaks.
Break(c) ==
  /\ c \in open
  /\ open' = open \ {c}
  /\ UNCHANGED <<dialed, conn, reading, dbCall, step, using>>

Next ==
  \/ \E t \in Threads :
       \/ Reuse(t)
       \/ Dial(t)
       \/ DialFails(t)
       \/ SetDatabaseCall(t)
       \/ ReadConn(t)
       \/ NotConnected(t)
       \/ WriteMessage(t)
       \/ WriteIsLost(t)
       \/ WriteFails(t)
  \/ \E c \in 1..dialed : ReadFails(c) \/ Break(c)

Spec == Init /\ [][Next]_vars

-----------------------------------------------------------------------------
(* Properties. *)

TypeOK ==
  /\ dialed \in Nat
  /\ conn \in 1..dialed \cup {None}
  /\ open \subseteq 1..dialed
  /\ reading \subseteq 1..dialed
  /\ dbCall \in Threads \cup {None}
  /\ step \in [Threads -> Step]
  /\ using \in [Threads -> 1..dialed \cup {None}]

\* The connection that messages are written to is being read: no write error
\* and no end of a read loop leaves the bridge with a connection whose replies
\* nobody takes (database_bridge.go:53-58, 93-119).
ConnIsRead == conn # None => conn \in reading

\* A connection the bridge has given up is closed, so that its read loop ends:
\* connections do not pile up behind write errors.
GivenUpIsClosed == open \subseteq {conn}
=============================================================================
