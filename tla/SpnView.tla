------------------------------- MODULE SpnView -------------------------------
(***************************************************************************)
(* The main view: SpnViewComponent with its button and the download card,  *)
(* fed by three watches of PortapiService (UpdaterService, SPNService) and *)
(* by answers of the plugin bridge, which runs one call after the other.   *)
(* The user resumes the app, answers popups and clicks the button.         *)
(*                                                                         *)
(* The engine is external: the status of the SPN follows the setting       *)
(* spn/enable, the registry downloads, the tunnel comes and goes.          *)
(***************************************************************************)
EXTENDS Naturals, Sequences, FiniteSets, SequencesExt

CONSTANTS
  None,         \* null, undefined, and no record
  Starts,       \* what the engine may have when the view is opened
  MaxResumes,   \* bound: times the app is resumed
  MaxClicks,    \* bound: clicks on the button
  MaxChanges    \* bound: changes of the engine nobody asked for

ASSUME StartsAssumption == \A e \in Starts : e.running
ASSUME BoundsAssumption == MaxResumes \in Nat /\ MaxClicks \in Nat /\ MaxChanges \in Nat

VARIABLES
  engine,    \* what the engine has: see Engine
  served,    \* watches whose query has been answered
  saves,     \* updates of spn/enable that are under way
  feed,      \* replies to the watches, in the order in which they arrive
  watches,   \* watches that have not ended
  sent,      \* hasSent of the watches
  calls,     \* plugin calls that have not run
  popups,    \* counter: popups on the screen that say the VPN service is disabled
  view,      \* what is shown: see View
  trouble,   \* history: a save failed, or a click did not wait for the one before
  resumes, clicks, changes   \* counters for the bounds

viewVars == <<watches, sent, popups, view>>
bounds == <<resumes, clicks, changes>>
vars == <<engine, served, saves, feed, viewVars, calls, trouble, bounds>>

Statuses == {"disabled", "connecting", "connected", "failed"}
States == {"ready", "checking", "downloading"}
Users == {"out", "in"}        \* state is empty, or there is a username
Watched == {"spn", "user", "registry"}

Engine == [running : BOOLEAN, tunnel : BOOLEAN, geo : BOOLEAN, enable : BOOLEAN,
           spn : Statuses, user : Users \cup {None}, registry : States \cup {None}]
View == [spn : Statuses \cup {None}, guess : BOOLEAN, user : {"in", None},
         geo : BOOLEAN, registry : States \cup {None}]

-----------------------------------------------------------------------------
(* The view. *)

\* IsTunnelActive and IsGeoIPDataAvailable, on ngOnInit and when the app is resumed.
Checks == <<"IsTunnelActive", "IsGeoIPDataAvailable">>

Init ==
  /\ engine \in Starts
  /\ served = {} /\ saves = <<>> /\ feed = <<>>
  /\ watches = Watched /\ sent = {}
  /\ calls = Checks
  /\ popups = 0
  /\ view = [spn |-> None, guess |-> FALSE, user |-> None, geo |-> FALSE, registry |-> None]
  /\ trouble = FALSE
  /\ resumes = 0 /\ clicks = 0 /\ changes = 0

Resume ==
  /\ resumes < MaxResumes /\ resumes' = resumes + 1
  /\ calls' = calls \o Checks
  /\ UNCHANGED <<engine, served, saves, feed, viewVars, trouble, clicks, changes>>

\* The result of IsTunnelActive: there may be a popup already.
EnableTunnelPopup(active) ==
  /\ popups' = IF active THEN popups ELSE popups + 1
  /\ UNCHANGED view

\* The call fails while the registry does not know the data, and then leaves the view as
\* it is.  Such data are not available, and do not disappear once they are: the view has
\* not shown them, so that the failure is the answer FALSE.
CheckGeoIPData(available) ==
  /\ view' = [view EXCEPT !.geo = available]
  /\ UNCHANGED popups

\* The popup is closed by Ok, or in any other way, which shuts the engine down.
ClosePopup ==
  /\ popups > 0 /\ popups' = popups - 1
  /\ \E call \in {"EnableTunnel", "Shutdown"} : calls' = Append(calls, call)
  /\ UNCHANGED <<engine, served, saves, feed, watches, sent, view, trouble, bounds>>

\* promptShutdown, and the user confirms.
Shutdown ==
  /\ ~Contains(calls, "Shutdown")
  /\ calls' = Append(calls, "Shutdown")
  /\ UNCHANGED <<engine, served, saves, feed, viewVars, trouble, bounds>>

\* Wrong: the view takes every status for a wish of the user.
ClickEnables ==
  /\ clicks < MaxClicks /\ clicks' = clicks + 1
  /\ view.user # None /\ view.geo /\ view.spn # None
  /\ saves' = Append(saves, TRUE)
  /\ view' = [view EXCEPT !.spn = "connecting", !.guess = TRUE]
  /\ trouble' = (trouble \/ saves # <<>> \/ view.guess)
  /\ UNCHANGED <<engine, served, feed, watches, sent, popups, calls, resumes, changes>>

\* onClick of the button and setSPNEnabled: "disabled" is replaced by a guess, in the
\* object that the watch delivered.  Without user, data or status nothing is saved.
OnClick ==
  /\ clicks < MaxClicks /\ clicks' = clicks + 1
  /\ view.user # None /\ view.geo /\ view.spn # None
  /\ saves' = Append(saves, view.spn = "disabled")
  /\ view' = IF view.spn = "disabled" THEN [view EXCEPT !.spn = "connecting", !.guess = TRUE]
             ELSE view
  /\ trouble' = (trouble \/ saves # <<>> \/ view.guess)
  /\ UNCHANGED <<engine, served, feed, watches, sent, popups, calls, resumes, changes>>

\* GetButtonText and GetButtonColor, for a user with data.
Button(status) ==
  [text  |-> CASE status = None -> ""
               [] status = "disabled" -> "connect"
               [] status = "connecting" -> "connecting"
               [] OTHER -> "disable",
   color |-> IF status = None THEN "" ELSE IF status = "disabled" THEN "primary" ELSE "danger"]

-----------------------------------------------------------------------------
(* Deliveries. *)

\* The filters of watch, watchState and watchProfile: an end of the query reaches the
\* handler, as null, if it is the first reply, and not that of the status at all.
Forwarded(m) == m.src \in watches /\ (m.type = "done" => m.src # "spn" /\ m.src \notin sent)

OnStatus(m) ==
  /\ view' = [view EXCEPT !.spn = m.data, !.guess = FALSE]
  /\ UNCHANGED <<watches, calls>>

OnProfile(m) ==
  /\ view' = [view EXCEPT !.user = IF m.type = "done" \/ m.data = "out" THEN None ELSE "in"]
  /\ UNCHANGED <<watches, calls>>

\* Wrong: only the first download is noticed.
OnRegistryOnce(m) ==
  IF m.type = "done" THEN watches' = watches \ {"registry"} /\ UNCHANGED <<view, calls>>
  ELSE /\ calls' = IF view.registry = None /\ m.data = "ready"
                     THEN Append(calls, "IsGeoIPDataAvailable") ELSE calls
       /\ view' = [view EXCEPT !.registry = m.data]
       /\ UNCHANGED watches

\* The download card.  A registry that is null throws, which ends the subscription; the
\* end of a download checks the data again.
OnRegistry(m) ==
  IF m.type = "done" THEN watches' = watches \ {"registry"} /\ UNCHANGED <<view, calls>>
  ELSE /\ calls' = IF view.registry = "downloading" /\ m.data = "ready"
                     THEN Append(calls, "IsGeoIPDataAvailable") ELSE calls
       /\ view' = [view EXCEPT !.registry = m.data]
       /\ UNCHANGED watches

Deliver ==
  /\ feed # <<>> /\ feed' = Tail(feed)
  /\ LET m == Head(feed)
     IN  IF ~Forwarded(m) THEN UNCHANGED <<watches, sent, calls, view>>
         ELSE IF m.type = "del" THEN watches' = watches \ {m.src} /\ UNCHANGED <<sent, calls, view>>
         ELSE /\ sent' = sent \cup {m.src}
              /\ \/ m.src = "spn" /\ OnStatus(m)
                 \/ m.src = "user" /\ OnProfile(m)
                 \/ m.src = "registry" /\ OnRegistry(m)
  /\ UNCHANGED <<engine, served, saves, popups, trouble, bounds>>

-----------------------------------------------------------------------------
(* The plugin thread and the engine. *)

\* The result of a call reaches the page before the next call runs.
RunCall ==
  /\ calls # <<>> /\ calls' = Tail(calls)
  /\ \/ Head(calls) = "IsTunnelActive" /\ EnableTunnelPopup(engine.tunnel) /\ UNCHANGED engine
     \/ Head(calls) = "IsGeoIPDataAvailable" /\ CheckGeoIPData(engine.geo) /\ UNCHANGED engine
     \/ /\ Head(calls) = "EnableTunnel"
        /\ \E up \in {TRUE, engine.tunnel} : engine' = [engine EXCEPT !.tunnel = up]
        /\ UNCHANGED <<popups, view>>
     \/ /\ Head(calls) = "Shutdown"
        /\ engine' = [engine EXCEPT !.running = FALSE, !.tunnel = FALSE]
        /\ UNCHANGED <<popups, view>>
  /\ UNCHANGED <<served, saves, feed, watches, sent, trouble, bounds>>

\* A query is answered with the record, if there is one; later changes are notified.
Serve(src) ==
  /\ src \notin served /\ served' = served \cup {src}
  /\ feed' = feed \o (IF engine[src] = None THEN <<>>
                      ELSE <<[src |-> src, type |-> "ok", data |-> engine[src]]>>)
                  \o <<[src |-> src, type |-> "done", data |-> None]>>
  /\ UNCHANGED <<engine, saves, viewVars, calls, trouble, bounds>>

Changed(src, new) ==
  /\ engine' = [new EXCEPT ![src] = new[src]]
  /\ feed' = IF src \notin served THEN feed
             ELSE Append(feed, [src  |-> src, data |-> new[src],
                                type |-> CASE engine[src] = None -> "new"
                                           [] new[src] = None -> "del"
                                           [] OTHER -> "upd"])
  /\ UNCHANGED <<served, viewVars, calls>>

\* Updates are handled concurrently.
HandleSave ==
  \E i \in DOMAIN saves :
    /\ saves' = RemoveAt(saves, i)
    /\ \/ engine' = [engine EXCEPT !.enable = saves[i]] /\ UNCHANGED trouble
       \/ trouble' = TRUE /\ UNCHANGED engine
    /\ UNCHANGED <<served, feed, viewVars, calls, bounds>>

\* The client of the SPN notices, some time later, that the setting has changed.
FollowSetting ==
  /\ engine.enable # (engine.spn # "disabled")
  /\ Changed("spn", [engine EXCEPT !.spn = IF engine.enable THEN "connecting" ELSE "disabled"])
  /\ UNCHANGED <<saves, trouble, bounds>>

Change ==
  /\ changes < MaxChanges /\ changes' = changes + 1
  /\ \/ /\ engine.enable /\ engine.spn # "disabled"
        /\ \E status \in Statuses \ {"disabled", engine.spn} :
             Changed("spn", [engine EXCEPT !.spn = status])
     \/ \E user \in (Users \cup {None}) \ {engine.user} :
          Changed("user", [engine EXCEPT !.user = user])
     \/ /\ engine.registry \in {None, "checking"}
        /\ Changed("registry", [engine EXCEPT !.registry = "ready"])
     \/ /\ engine.registry = "ready"
        /\ \E state \in {"checking", "downloading"} :
             Changed("registry", [engine EXCEPT !.registry = state])
     \/ /\ engine.registry = "downloading"
        /\ \E geo \in {TRUE, engine.geo} :
             Changed("registry", [engine EXCEPT !.registry = "ready", !.geo = geo])
     \/ /\ engine' = [engine EXCEPT !.tunnel = ~engine.tunnel]
        /\ UNCHANGED <<feed, served, viewVars, calls>>
  /\ UNCHANGED <<saves, trouble, resumes, clicks>>

User == Resume \/ ClosePopup \/ Shutdown \/ OnClick

Next ==
  /\ engine.running
  /\ \/ User \/ Deliver \/ RunCall
     \/ \E src \in Watched : Serve(src)
     \/ HandleSave \/ FollowSetting \/ Change

Spec == Init /\ [][Next]_vars

\* The page and its plugin thread run, and the engine does what it is told.
Running(A) == engine.running /\ A
FairSpec ==
  /\ Spec
  /\ WF_vars(Running(Deliver)) /\ WF_vars(Running(RunCall))
  /\ \A src \in Watched : WF_vars(Running(Serve(src)))
  /\ WF_vars(Running(HandleSave)) /\ WF_vars(Running(FollowSetting))

-----------------------------------------------------------------------------
(* Properties. *)

\* Whatever order clicks, saves and notifications come in, the button ends up with the
\* text and the color of the status the engine has, unless a save failed or the user
\* did not wait for the answer to a click: then "connecting" may stay for ever.
ButtonSettles == []<>(engine.running => trouble \/ Button(view.spn) = Button(engine.spn))

\* The end of a download the card has seen is not missed: data that have come with it
\* are shown as available, without the app being resumed.
DownloadSeen ==
  (engine.running /\ view.registry = "downloading" /\ engine.geo) ~> (engine.running => view.geo)
=============================================================================
