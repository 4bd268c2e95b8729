------------------------------ MODULE WatchAll ------------------------------
(***************************************************************************)
(* A watchAll of the PortAPI client (src/app/lib/portapi.service.ts): the  *)
(* array of all records of a query, kept up to date by the replies to a    *)
(* qsub.  The server is external: it subscribes before it reads, so that a *)
(* change meets the reader or the feed, or both.                           *)
(***************************************************************************)
EXTENDS Naturals, Sequences, SequencesExt

CONSTANTS
  None,         \* no record: not one of Records
  Keys,         \* the database keys of the query
  Records,      \* the records a key may hold
  MaxFailures   \* bound: error replies

VARIABLES
  data,      \* the database: data[k] is the record of k, or None
  feed,      \* changes since the server has subscribed, oldest first
  unread,    \* keys the query of the server has yet to read
  phase,     \* "waiting" for the retryDelay, "reading" up to done, "live" after it
  keys,      \* keys and values are the arrays of the subscription
  values,
  emitted,   \* the values the observer has seen last
  failures   \* counter: error replies

vars == <<data, feed, unread, phase, keys, values, emitted, failures>>
clientVars == <<unread, phase, keys, values, emitted, failures>>

Change == [type : {"new", "upd"}, key : Keys, data : Records] \cup [type : {"del"}, key : Keys]

Init ==
  /\ data \in [Keys -> Records \cup {None}]
  /\ feed = <<>>
  /\ unread = {}
  /\ phase = "waiting"
  /\ keys = <<>>
  /\ values = <<>>
  /\ emitted = <<>>
  /\ failures = 0

-----------------------------------------------------------------------------
(* The server. *)

\* An update within the second of the creation is announced as new as well.
Announced(k, record) ==
  IF record = None THEN {[type |-> "del", key |-> k]}
  ELSE {[type |-> t, key |-> k, data |-> record] :
          t \in IF data[k] = None THEN {"new"} ELSE {"new", "upd"}}

\* The record of k is created, updated or, with None, deleted.
Write(k, record) ==
  /\ record # data[k]
  /\ data' = [data EXCEPT ![k] = record]
  /\ IF phase = "waiting" THEN UNCHANGED feed
     ELSE \E change \in Announced(k, record) : feed' = Append(feed, change)
  /\ UNCHANGED clientVars

-----------------------------------------------------------------------------
(* The subscription. *)

\* The function given to the Observable, run for every subscription, and the qsub it sends.
Subscribe ==
  /\ phase = "waiting"
  /\ phase' = "reading"
  /\ keys' = <<>>
  /\ values' = <<>>
  /\ unread' = Keys
  /\ feed' = <<>>
  /\ UNCHANGED <<data, emitted, failures>>

\* A reply before done is pushed.
Read(k) ==
  /\ phase = "reading"
  /\ k \in unread
  /\ unread' = unread \ {k}
  /\ IF data[k] = None THEN UNCHANGED <<keys, values>>
     ELSE /\ keys' = Append(keys, k)
          /\ values' = Append(values, data[k])
  /\ UNCHANGED <<data, feed, phase, emitted, failures>>

Done ==
  /\ phase = "reading"
  /\ unread = {}
  /\ phase' = "live"
  /\ emitted' = values
  /\ UNCHANGED <<data, feed, unread, keys, values, failures>>

\* Wrong: a record that is announced as new is taken to be new.
PushNew(view, change) ==
  LET here == {i \in DOMAIN view.keys : view.keys[i] = change.key}
  IN  CASE change.type = "new" ->
             [keys |-> Append(view.keys, change.key), values |-> Append(view.values, change.data)]
        [] change.type = "upd" /\ here # {} ->
             [view EXCEPT !.values = [i \in DOMAIN @ |-> IF i \in here THEN change.data ELSE @[i]]]
        [] change.type = "del" /\ here # {} ->
             LET i == CHOOSE i \in here : TRUE
             IN  [keys |-> RemoveAt(view.keys, i), values |-> RemoveAt(view.values, i)]
        [] OTHER -> view

\* Wrong: a deleted record loses its key and keeps its value.
ForgetKey(view, change) ==
  IF change.type = "del"
    THEN [view EXCEPT !.keys = SelectSeq(@, LAMBDA k : k # change.key)]
    ELSE IF change.type = "new"
           THEN [keys |-> Append(view.keys, change.key), values |-> Append(view.values, change.data)]
           ELSE view

\* The two arrays after a reply that follows done.
Apply(view, change) ==
  IF \E i \in DOMAIN view.keys : view.keys[i] = change.key
    THEN LET idx == CHOOSE i \in DOMAIN view.keys : view.keys[i] = change.key
         IN  IF change.type = "del"
               THEN [keys |-> RemoveAt(view.keys, idx), values |-> RemoveAt(view.values, idx)]
               ELSE [view EXCEPT !.values[idx] = change.data]
    ELSE IF change.type = "new"
           THEN [keys |-> Append(view.keys, change.key), values |-> Append(view.values, change.data)]
           ELSE view

View == [keys |-> keys, values |-> values]

Deliver ==
  /\ phase = "live"
  /\ feed # <<>>
  /\ feed' = Tail(feed)
  /\ LET view == Apply(View, Head(feed))
     IN  /\ keys' = view.keys
         /\ values' = view.values
         /\ emitted' = view.values
  /\ UNCHANGED <<data, unread, phase, failures>>

\* An error reply: retryPipeline subscribes again, until then the observer keeps what it has.
Fail ==
  /\ phase # "waiting"
  /\ failures < MaxFailures
  /\ failures' = failures + 1
  /\ phase' = "waiting"
  /\ feed' = <<>>
  /\ unread' = {}
  /\ keys' = <<>>
  /\ values' = <<>>
  /\ UNCHANGED <<data, emitted>>

Receive == Subscribe \/ (\E k \in Keys : Read(k)) \/ Done \/ Deliver

-----------------------------------------------------------------------------
(* Properties. *)

TypeOK ==
  /\ data \in [Keys -> Records \cup {None}]
  /\ feed \in Seq(Change)
  /\ unread \subseteq Keys
  /\ phase \in {"waiting", "reading", "live"}
  /\ keys \in Seq(Keys)
  /\ values \in Seq(Records) /\ emitted \in Seq(Records)
  /\ Len(keys) = Len(values)
  /\ failures \in 0..MaxFailures

\* What a view shows: each key once, with its record.
Shows(view, d) ==
  /\ IsInjective(view.keys)
  /\ {<<view.keys[i], view.values[i]>> : i \in DOMAIN view.keys}
       = {<<k, d[k]>> : k \in {key \in Keys : d[key] # None}}

\* The view after n of the changes that are still to be delivered.
Views[n \in 0..Len(feed)] == IF n = 0 THEN View ELSE Apply(Views[n - 1], feed[n])

\* The array is behind the database by what is still to be delivered and by nothing
\* else, however changes fall around the reads of the query.
FeedLeadsToData ==
  phase = "live" => Shows(Views[Len(feed)], data)
=============================================================================
