---------------------------- MODULE Notifications ----------------------------
(***************************************************************************)
(* Notifications in the UI: services/notifications.service.ts on top of    *)
(* WatchAll, and the component that shows them and offers their actions.   *)
(* The engine raises, answers and removes notifications; it is external.   *)
(***************************************************************************)
EXTENDS Naturals, Sequences

CONSTANTS
  None,          \* as in WatchAll, and no action
  Events,        \* the EventIDs
  Actions,       \* the actions notifications offer
  MaxRaised,     \* bound: notifications raised
  MaxFailures,   \* bound: error replies to the subscription
  MaxOpened      \* bound: alerts opened

ActionTypes == {"", "open-url", "open-profile", "open-setting", "open-page", "ui",
                "netquery", "call-webhook", "unknown"}

\* An action with its ID or none, and whether the page of its payload is in PageIDs.
Action == [ID : BOOLEAN, Type : ActionTypes, known : BOOLEAN]

ASSUME ActionsAssumption == Actions \subseteq Action /\ None \notin Actions
ASSUME BoundsAssumption == MaxRaised \in Nat /\ MaxFailures \in Nat /\ MaxOpened \in Nat

VARIABLES
  data, feed, unread, phase, keys, values, emitted, failures,  \* as in WatchAll
  raised,    \* counter: notifications raised, and the GUID of the last one
  alerts,    \* alerts that are open, each with the notification it was opened for
  tasks,     \* runs of execute
  opened,    \* counter: alerts opened
  performed  \* history: the answers whose handler, if the type calls for one, has run to
             \* its end: event and GUID of the notification, and the action

watchVars == <<data, feed, unread, phase, keys, values, emitted, failures>>
uiVars == <<alerts, tasks, opened, performed>>
vars == <<watchVars, raised, uiVars>>

\* State "" is that of a record without the field.
NotificationState == {"active", "responded", "executed", ""}
Notification ==
  [EventID : Events, GUID : 0..MaxRaised, State : NotificationState,
   SelectedActionID : Actions \cup {None}]

ASSUME NoneIsNoRecord == None \notin Notification

Watch == INSTANCE WatchAll WITH Keys <- Events, Records <- Notification

Alert == [notification : Notification, nr : 1..MaxOpened]
Task == [notification : Notification, nr : 1..MaxOpened, action : Actions,
         step : {"perform", "update"}]

Init ==
  /\ Watch!Init
  /\ data = [e \in Events |-> None]
  /\ raised = 0
  /\ alerts = {}
  /\ tasks = {}
  /\ opened = 0
  /\ performed = {}

\* new$, which the component shows: what is active, or has no state.
Shown == {emitted[i] : i \in {j \in DOMAIN emitted : emitted[j].State \in {"active", ""}}}

-----------------------------------------------------------------------------
(* The engine. *)

IsActive(e) == data[e] # None /\ data[e].State = "active"

Raise(e) ==
  /\ raised < MaxRaised
  /\ data[e] = None
  /\ raised' = raised + 1
  /\ Watch!Write(e, [EventID |-> e, GUID |-> raised + 1, State |-> "active",
                     SelectedActionID |-> None])
  /\ UNCHANGED uiVars

\* A notification expires, is withdrawn, or its action has been executed.
Withdraw(e) ==
  /\ data[e] # None
  /\ Watch!Write(e, None)
  /\ UNCHANGED <<raised, uiVars>>

Executed(e) ==
  /\ data[e] # None /\ data[e].State = "responded"
  /\ Watch!Write(e, [data[e] EXCEPT !.State = "executed"])
  /\ UNCHANGED <<raised, uiVars>>

-----------------------------------------------------------------------------
(* The component. *)

\* open: an alert with a button per action, if there are any.  A second tap may open
\* a second one before the first is there.
Open(n) ==
  /\ opened < MaxOpened
  /\ n \in Shown
  /\ n.State # ""
  /\ opened' = opened + 1
  /\ alerts' = alerts \cup {[notification |-> n, nr |-> opened + 1]}
  /\ UNCHANGED <<watchVars, raised, tasks, performed>>

\* A button of the alert: execute begins.
Choose(alert, action) ==
  /\ alert \in alerts
  /\ alerts' = alerts \ {alert}
  /\ tasks' = tasks \cup {[notification |-> alert.notification, nr |-> alert.nr,
                           action |-> action, step |-> "perform"]}
  /\ UNCHANGED <<watchVars, raised, opened, performed>>

Dismiss(alert) ==
  /\ alert \in alerts
  /\ alerts' = alerts \ {alert}
  /\ UNCHANGED <<watchVars, raised, tasks, opened, performed>>

-----------------------------------------------------------------------------
(* The service. *)

\* actionHandler: whether the promise of the handler rejects.  A page of the router is
\* found, /monitor is none; an action that came as JSON has no Run.
Rejects(action) ==
  \/ action.Type \in {"open-profile", "call-webhook", "ui", "netquery"}
  \/ action.Type = "open-page" /\ ~action.known

\* A type for which actionHandler has no entry.  The empty type needs none.
Unhandled(action) == action.Type = "unknown"

Answer(task) == <<task.notification.EventID, task.notification.GUID, task.action>>
Perform(task) ==
  performed' = IF Rejects(task.action) \/ Unhandled(task.action) THEN performed
               ELSE performed \cup {Answer(task)}

\* Wrong: an error of the handler does not end execute.
PerformAnyway(task) ==
  /\ task \in tasks /\ task.step = "perform"
  /\ tasks' = (tasks \ {task}) \cup
                (IF task.action.ID THEN {[task EXCEPT !.step = "update"]} ELSE {})
  /\ Perform(task)
  /\ UNCHANGED <<watchVars, raised, alerts, opened>>

\* performAction, and the end of execute for a handler that rejects, whose error is
\* caught, and for an action without an ID.  For an unhandled type nothing is run, but
\* performAction resolves: execute goes on as if it had been.
PerformAction(task) ==
  /\ task \in tasks /\ task.step = "perform"
  /\ tasks' = (tasks \ {task}) \cup
                (IF task.action.ID /\ ~Rejects(task.action)
                   THEN {[task EXCEPT !.step = "update"]} ELSE {})
  /\ Perform(task)
  /\ UNCHANGED <<watchVars, raised, alerts, opened>>

\* Wrong: the update is made for the state and not for the selected action.
UpdateNothing(task) ==
  /\ task \in tasks /\ task.step = "update"
  /\ tasks' = tasks \ {task}
  /\ UNCHANGED <<watchVars, raised, alerts, opened, performed>>

\* The update with EventID and SelectedActionID, answered by the engine: it takes the
\* first selection for an active notification and refuses another.  For an event it does
\* not know it stores the record as it is, or refuses it.  Either way execute ends.
Update(task) ==
  /\ task \in tasks /\ task.step = "update"
  /\ tasks' = tasks \ {task}
  /\ LET e == task.notification.EventID
         n == data[e]
     IN  \/ /\ IsActive(e)
            /\ Watch!Write(e, [n EXCEPT !.State = "responded", !.SelectedActionID = task.action])
         \/ /\ n = None
            /\ Watch!Write(e, [EventID |-> e, GUID |-> 0, State |-> "",
                               SelectedActionID |-> task.action])
         \/ ~IsActive(e) /\ UNCHANGED watchVars
  /\ UNCHANGED <<raised, alerts, opened, performed>>

Execute(task) == PerformAction(task) \/ Update(task)

Subscription ==
  /\ Watch!Receive
  /\ UNCHANGED <<raised, uiVars>>

SubscriptionFails ==
  /\ Watch!Fail
  /\ UNCHANGED <<raised, uiVars>>

Next ==
  \/ \E e \in Events : Raise(e) \/ Withdraw(e) \/ Executed(e)
  \/ \E n \in Shown : Open(n)
  \/ \E alert \in alerts : Dismiss(alert) \/ \E action \in Actions : Choose(alert, action)
  \/ \E task \in tasks : Execute(task)
  \/ Subscription \/ SubscriptionFails

\* Promises, timers and the server go on; nobody has to open, choose or raise anything.
Fairness ==
  /\ WF_vars(Subscription)
  /\ \A i \in 1..MaxOpened : WF_vars(\E task \in tasks : task.nr = i /\ Execute(task))

Spec == Init /\ [][Next]_vars
FairSpec == Spec /\ Fairness

-----------------------------------------------------------------------------
(* Properties. *)

TypeOK ==
  /\ Watch!TypeOK
  /\ raised \in 0..MaxRaised
  /\ alerts \subseteq Alert
  /\ tasks \subseteq Task
  /\ opened \in 0..MaxOpened
  /\ performed \subseteq Events \X (0..MaxRaised) \X Actions

\* The array behind new$ is the engine's notifications, but for what is under way,
\* in whatever order reads, changes and announcements meet.
FeedLeadsToData == Watch!FeedLeadsToData

\* A notification whose selected action has a handler was answered with it, or has taken
\* the place of one that was, and the handler has run to its end: what the UI refuses to do
\* leaves every notification as it is, and no answer marks one that is older than the one
\* it was given to.  An update that finds no notification leaves a record without a GUID.
SelectedWasPerformed ==
  \A e \in Events :
    LET n == data[e]
    IN  n # None /\ n.SelectedActionID # None =>
          \/ Unhandled(n.SelectedActionID)
          \/ \E i \in 0..MaxRaised :
               <<e, i, n.SelectedActionID>> \in performed /\ (n.GUID = 0 \/ i <= n.GUID)

\* A notification that was answered with an action, and not one the UI refuses, does not
\* stay on the screen as one that waits for an answer.
Answering(e, i) ==
  \E task \in tasks :
    /\ task.notification.EventID = e /\ task.notification.GUID = i
    /\ task.action.ID /\ ~Rejects(task.action)
Answered(e, i) ==
  \A n \in Shown : ~(n.EventID = e /\ n.GUID = i /\ n.State = "active")
ActionAnswers ==
  \A e \in Events, i \in 1..MaxRaised : Answering(e, i) ~> Answered(e, i)

\* What SelectedWasPerformed would be without its exceptions: execute performs an action and
\* "finally ... [marks] the notification as resolved" (notifications.service.ts:174).  The
\* code violates it: a type without a handler is only logged, and an alert answered late
\* marks the notification that has replaced its own.
MarkedWasPerformed ==
  \A e \in Events :
    data[e] # None /\ data[e].SelectedActionID # None =>
      <<e, data[e].GUID, data[e].SelectedActionID>> \in performed
=============================================================================
