# Portmaster for Android: a verification project

Portmaster for Android routes all traffic of the device through a VPN interface of
its own. A Go engine (`go/`) owns the tunnel and its flows, a Java service and an
activity (`android/`) own the Android side, and an Ionic/Angular UI (`src/app/`)
drives both through a plugin bridge. This directory holds TLA+ models of the parts
where these threads and processes meet, the TLC configurations that check them, and
theorems checked by TLAPS.

Paths below are relative to the repository. `PROJECT.json` lists components, runs,
mutants, the source lines behind every definition, findings, hazards and theorems.

## Inventory

| Component | State | Operations | Interacts with | Hard behaviour | What makes it correct |
|---|---|---|---|---|---|
| **vpn-service worker** `go/engine/tunnel/module.go` | `eventChannel`, `netStack`, `tunnelFD` | `Enable`, `Disable`, `Reconnect`, `SystemShutdown`, setup, teardown | called by service, UI, engine; calls Java for the descriptor and to tell the service | callers block on a full buffer; setup fails half-way; shutdown while commands wait | the stack owns an open descriptor; nothing leaks; the service stops after the teardown; callers return |
| **Flow router** `router.go`, `default_route.go` | `connections` under `connMutex`, goroutines and sockets per flow | route, dial, forward, `onConnectionEnd`, `EndAllConnections` | goroutines of gVisor, torn down by the worker | a late dial, an ending flow and a teardown meet | no open flow leaves the table; every goroutine of a closed flow ends |
| **Engine lifecycle** `go/engine/init.go`, `go/app_interface` | `engineInitialized`, function references of activity and service | `OnCreate`, `OnDestroy`, `OnActivityDestroy`, `OnServiceStop`, `OnServiceDestroy` | called on the main thread; waits for the worker | waits in both directions on the way out | the process ends when it has to, and only then |
| **VPN service** `PortmasterTunnelService.java` | `tunnelRequested`, `gracefulShutdown`, posted runnables, `currentUnderlyingNetwork` | `onCreate`, `onStartCommand`, `onDestroy`, `onRevoke`, network callbacks, `reconnectTunnel` | activity manager, binder thread, connectivity thread, worker | delayed runnables, revocation against start, callbacks against registration | the tunnel is there when wanted and not without consent; a handoff rebuilds it |
| **Activity** `MainActivity.java`, `ServiceCommand.java` | the consent dialog | `onCreate`, `onDestroy`, `send`, `onActivityResult` | worker, UI, activity manager | a command without consent becomes a dialog | commands reach the service |
| **Plugin calls** `go/engine/ui/functions.go` | none | tunnel, logs, requests, subscriptions, settings | UI thread of the bridge | calls during shutdown | - |
| **Database bridge** `go/engine/ui/database_bridge.go` | websocket, its mutex | `DatabaseMessage`, `ensure`, `readLoop`, `invalidate` | local API server, UI events | reconnect against an old read loop, writes on a dead connection | what is written to is read; what is given up is closed |
| **PortAPI client** `src/app/lib/portapi.*.ts` | streams by request id | `get`, `query`, `sub`, `qsub`, `watch`, `create`, `update`, `delete` | database bridge | multiplexed replies, retries, lost bridge | each observable sees its own replies and ends |
| **Logs** `go/engine/logs/module.go`, `logs.component.ts` | ring of lines, next id; lines shown, interval | `logFunc`, `GetAllLogsAfterID`; open, poll, close | every goroutine writes, the view polls | ids at the edges of the ring, an empty ring, polls slower than their interval, a view closed early | lines are shown in order, none is left out that is still there, the view catches up |
| **Notifications of the UI** `portapi.service.ts` (`watchAll`), `notifications.service.ts`, `notifications.component.ts` | keys and values of a watched query; open alerts, actions that run | `watchAll`, `execute`, `performAction` | PortAPI client, engine | a change beside the read of the query, an answer to a notification that has gone | the list is the engine's; what was performed is answered, what was not is not |
| **Settings of the UI** `settings/` | list of settings, current values, the modal's array | edit, save, load, reset | PortAPI client | the same array shown, edited and sent; a save that meets a newer list | no setting gets lost; the page ends up with what the engine has |
| **Main view** `spn-view/`, `updater.service.ts`, `spn.types.ts` | status of the SPN, user, registry, popup | button, popup, resume, watches | PortAPI client, plugin calls | clicks, saves and notifications cross | the button tells the status; the end of a download is seen |
| **Bug report** `bug-report.component.ts`, `functions.go`, `report.go` | the form, the running reports | write, tap, select, create, leave | plugin calls, two servers | two taps, failing uploads, lost answers | what was written is kept somewhere; no debug info against the user's wish |
| **Profiles, queries, messages** `app-profile.types.ts`, `netquery.service.ts`, `portapi.types.ts`, `config-settings.ts` | none | flatten, get and set a setting; statistics, chart; (de)serialize; group | the services above | separators in data, missing maps, rows of three moments | see `Conversions` |
| **Engine events** `go/engine/module.go`, `events.go` | active notifications, metered waiters | `notificationListener`, `OnNetworkConnected`, ... | portbase database, Java callbacks | query before subscribe; replaced channels | not modelled yet (see Plan) |
| HTTP backend, SPN account, OS information, welcome, help, menu and application list views, binding generator | - | single requests, reads and navigation; code generation | - | nothing waits for anything | not modelled |

Three kinds of thread meet in the core: Android's main thread (service and activity
callbacks, posted runnables), threads of the system (binder, connectivity) and
goroutines (worker, flows, plugin calls). They share `eventChannel`, the function
references, `netStack` (read unsynchronised through `IsActive`) and the fields of the
service. In the UI there is one thread per page, and the hazards are between what a handler has
read and what has arrived when its promise is fulfilled. `PROJECT.json` lists each hazard at
its line.

## Modules

| Module | Models | Role |
|---|---|---|
| `Tunnel` | - | abstract contract of the worker: the service is told `shutdown` only while the tunnel is down, and it stays down at the end |
| `VpnManager` | `module.go`, the calls it makes | the worker and its callers |
| `VpnManagerProofs` | | inductive invariant, theorems, refinement of `Tunnel` |
| `FlowTable` | - | abstract table: a flow is listed until its sockets are shut |
| `Router` | `router.go`, `default_route.go` | routing, forwarding, teardown, rebuild |
| `RouterProofs` | | inductive invariants of the slice and of a flow's goroutines, refinement of `FlowTable` |
| `AppLifecycle` | `PortmasterTunnelService.java`, `init.go`, `MainActivity.java`, `ServiceCommand.java`, tunnel calls of `functions.go` | composition: `Manager == INSTANCE VpnManager` with everything around it in one process |
| `AppLifecycleProofs` | | the composition implements `VpnManager`; inductive invariant of service, interface and commands |
| `NetworkHandoff` | network tracking of `PortmasterTunnelService.java`, `NetworkCallbacks.java` | one service instance, its networks and the worker seen from outside |
| `NetworkHandoffProofs` | | inductive invariant of the tracking and of the rebuilds |
| `DatabaseBridge` | `database_bridge.go` | the websocket under the threads that write to it and its read loops |
| `PortApi` | `portapi.service.ts`, `websocket.service.ts`, `retryPipeline`, bridge calls of `functions.go` | composition: `Bridge == INSTANCE DatabaseBridge` with the page above it and the server below |
| `PortApiProofs` | | inductive invariants of the bridge and of the page over it, of ids and of requests; the composition implements `DatabaseBridge`; messages of any length |
| `WatchAll` | `watchAll` of `portapi.service.ts` | an array kept equal to a query by its replies |
| `Notifications` | `notifications.service.ts`, `notifications.component.ts` | composition: `Watch == INSTANCE WatchAll` with alerts and actions |
| `NotificationsProofs` | | inductive invariant of the watched array and of the answers |
| `Settings` | `settings.component.ts`, `generic-setting.ts`, `edit.component.ts`, `config.service.ts` | edits, saves and loads over shared objects |
| `SpnView` | `spn-view`, button, download card, their watches | the main view, one page and its engine |
| `LogView` | `logs/module.go`, `logs.component.ts` | the ring and the views that poll it |
| `LogViewProofs` | | inductive invariant of ring and views |
| `BugReport` | `bug-report.component.ts`, `report.go`, their plugin calls | the form and its flows |
| `BugReportProofs` | | inductive invariant of the form and of the calls under way |
| `WireFormat`, `ProfileConfig`, `SettingsGroups`, `SecurityLock`, `Netquery` | `portapi.types.ts`, `app-profile.types.ts`, `config-settings.ts`, `security-lock.component.ts`, `netquery.service.ts` | pure functions |
| `Conversions` | - | chooses an input for one of them and computes the result |
| `MC*` | | instances for TLC |

### VpnManager

`pending[c]` is a thread inside `Enable`, `Disable`, `Reconnect` or `SystemShutdown`
(`Call`), `Enqueue` its send, possible only with room in the buffer. The worker's
`phase` names the call it makes next; an action is one call that another thread can
observe or that can fail by itself: `Establish` (VPNInit and `os.NewFile`), `Build` up
to the assignment of `netStack`, `BuildFails` for each of its error returns,
`EndConnections`, `CloseStack`, `CloseDescriptor`, `SendServicesCommand`, `Shutdown`.
`Done` is the `ctx.Done` branch; `select` may take either ready branch. `openFds` are
the descriptors open in the kernel; `Finalize` closes one whose `os.File` has been
overwritten. The gVisor calls inside `Build` only decide between success and failure.
`netStack.Close` and `Wait` are one step, and are taken to return.

### Router

A flow moves from `new` through `dialing`, `dialed`, `created` to `added` (or `spn`, or
`failed`). `Listed`, `connections` and `SwapRemove` are the slice, including its
removal by swapping. `copying`, `errc` and `waiter` are the three goroutines of a flow
and their channel. `EndAllConnections`, `CloseStack` and `Setup` are the worker's steps
that matter here, and may fall anywhere. A critical section of `connMutex` is one step.

### AppLifecycle

The variables of `VpnManager` with the real threads as callers: `main`, `ui` (plugin
calls), `binder` (`onRevoke`). `mainQueue` holds the service callbacks the activity
manager has sent, `started` and `bound` why it keeps the service, `timers` the posted
runnables, `at` what a thread is in the middle of while it is blocked in a send or
in `modules.Shutdown`. External, modelled from how the code uses it:

- a service exists while it is started or bound; the system binds to it for as long as
  its interface exists, which ends with the last descriptor `establish` returned;
- `stopSelf(id)` does nothing if a newer start is on its way; `stopSelf()` always stops;
- a revocation unbinds the service and calls `onRevoke` if it was bound. Revocations do
  not overlap, and an interface is not revoked before it is connected to its service;
- `modules.Shutdown` cancels the worker's context and waits for it, for every caller;
- `START_STICKY` restarts the process with a null intent, handled like `keep_alive`;
- posted runnables fire at any time after they are posted.

### NetworkHandoff

`registration` steps through `registerEvents`; callbacks arrive in order on one thread;
each is two steps, the update under `networkLock` and the test of `tunnelRequested`
after it (`changed` is the local variable in between). `ReadActiveNetwork` takes one of the
networks, or none when there is none or the active one is a VPN. A network that returns is a new
`Network` object, so each appears once. The worker takes one command at a time, and the
network a tunnel is built on is the one current when the old flows were ended.

### DatabaseBridge and PortApi

A page is one load of the web view. Go keeps running when its activity goes, and so do the
websocket, the operations on it and what the old page's plugin thread still has to do, so
`calls` is a queue per page and each page's thread is a thread of the bridge. `step[p]` is
where that thread stands between the locks of a call: `Ensure` takes or dials a connection,
`DatabaseMessage` copies `databaseBridgeConn` after the lock has been given back,
`WriteMessage`, `WriteIsLost` and `WriteFails` use the copy. A critical section is one step, the
twenty dials of `ensureDatabaseBridge` included; connections are numbered.

`streams` are the observers in `_streams$`; `Teardown` is the return of `multiplex`, run when a
consumer goes or a `Final` reply ends the request, and queues a `cancel` for what is
cancellable. `retries` are subscriptions waiting for `retryDelay`. The pending calls of the
service are not modelled: the connection object of `websocket.service.ts` says it is open
before the first request and never says anything else. External: the database API answers
each method with the types in `Answers`, in order, stops an operation on `cancel` (the
youngest of its id on that connection) and forgets those of a closed connection; it does
not answer before `EngineStarts`.

### WatchAll and Notifications

`keys` and `values` are the two arrays of a `watchAll`, `emitted` what its observer has got
last. The server is external: it subscribes first (`feed`), then reads key by key (`unread`),
so that a change may be read, announced, or both. `Notifications` is `WatchAll` over
notifications; each alert keeps the notification it was opened for, whatever has become of
it since, and `tasks` are the runs of `execute`, with their two awaits. `Rejects` says for which
actions the handler's promise rejects, `Unhandled` for which there is no handler: `performAction`
then logs the type and resolves, so that `execute` goes on to the update. `performed` is a history of what
handlers have been run for: the event, the notification the alert was opened for and the action.

### Settings

JavaScript's object references matter, so that values are in a `heap` and `current`, `modal.ref` and
a save's `ref` are addresses in it. The modal changes the array of the component in place,
a save carries a copy of the entry and is written back to the index it was found at, and a load
replaces all entries. The engine answers requests concurrently and lists the settings in
any order. `trouble` records what the page cannot repair by itself: a refused edit, an
edit in a modal whose setting was loaded again beneath it, a load overtaken by a later one.

### SpnView

One page from its opening on, with three watches (status, user, registry) whose replies
arrive in order (`feed`), and plugin calls that run one after the other (`calls`). The engine is
external: the status follows `spn/enable` after a while, the registry downloads, the tunnel comes
and goes. `guess` marks the status `connecting` that a click writes into the view.
`trouble` is a failed save, or a click before the answer to the one before.
Popups that ask for a tunnel pile up as they do in the code, and each one that is not answered
with Ok queues a `Shutdown`; no property is about them. `IsGeoIPDataAvailable` fails for data the
registry does not know. Such data are not available, and available data do not go away, so that
a failure, which leaves the view as it is, has the effect of the answer `FALSE` and is not a step of its own.

### LogView

A line is its id. `Nil` is Go's nil slice and what it becomes in the page, null: it is what
`GetAllLogsAfterID` returns for an empty buffer, and `lines[v]` before the first answer. `ShowFirst` stores
the answer as it is; `ShowMore` skips one that is null, and does nothing if `Logs` is null, because
`concat` throws. `Shown` is what the template makes of `Logs`. `calls[v]` are the `GetLogs` calls of a view that wait for the plugin thread,
which runs them in order; the interval fires as often as it likes, and `overlapped` holds the
views that polled while a poll was waiting. A view may be closed before its first answer.

### BugReport

A tap starts a flow: alert, choice, spinner, plugin call, end. The request is put together before
the spinner for a ticket and after it for an issue, as in the code. Taps are bounded, and the
moments between two overlays are too short for the user to do anything but to tap again before
the first alert is there. One visit of the page is modelled. A server may take a request,
refuse it, be out of reach, or take it with its answer lost.

### Conversions and the pure functions

`WireFormat` has a text as the sequence of its pieces between separators, which is all that
splitting and joining tell apart. `ProfileConfig` has trees of maps, `Netquery` the rows that
its queries return while connections come and go between them, `SettingsGroups` and `SecurityLock`
what their components compute. `Conversions` takes one input in `Init` and has one
step, so that a property compares a result with its input.

## Runs

| Run | Shows | Instance |
|---|---|---|
| `vpn_manager` | `StackOwnsDescriptor`, `ShutdownAfterTeardown`, `NoLeak`, `CallReturns`, `DisconnectTearsDown`, and that the worker implements `Tunnel` | 2 callers, buffer of 1, 2 descriptors; 51 250 states |
| `router` | `ListedOnce`, refinement of `FlowTable`, `ClosedFlowEnds` | 2 flows; 28 328 states |
| `lifecycle` | `NoOrphanTunnel`, `RequestedIsUp`, `NoTunnelWithoutConsent`, `EndsInExit` | buffer of 2, 2 descriptors, 3 events; 396 802 states |
| `handoff` | `CurrentIsAvailable`, `LastChangeBuilt`, `HandoffCompletes` | 3 networks, 1 update, backlog of 2; 613 420 states |
| `port_api` | types, `BridgeKept`, `NoOrphanOperation`, `Answered` | 2 pages, 2 requests, 2 connections; 490 595 states |
| `notifications` | `FeedLeadsToData`, `SelectedWasPerformed`, `ActionAnswers` | 2 events, 4 actions, 2 notifications, 1 failure, 1 alert; 103 922 states |
| `settings` | `Repaired`, `SettlesInSync` | a list and a plain setting, a good and a bad rule, 2 edits; 20 756 states |
| `main_view` | `ButtonSettles`, `DownloadSeen` | 4 states of the engine to start from, 1 resume, 2 clicks, 1 change; 356 046 states |
| `log_view` | `LinesInOrder`, `NoLineSkipped`, `CatchesUp` | buffer of 3, 8 lines, 1 view, 2 waiting polls; 25 011 states |
| `bug_report` | `ClearedIsKept`, `InfoWanted`, `SpinnerGoes` | 2 reports, 2 taps; 39 444 states |
| `conversions` | `RepliesParsed`, `ProfileAgrees`, `SettingsShown`, `LockNeverCalmer`, `StatsAddUp`, `ChartFilled` | all inputs of bounded size; 47 492 states |
| `handoff_missed` | violated: `HandoffIsNotMissed` | as `handoff`, without fairness |

Of the modules that have a `TypeOK` no configuration names, all but `Settings` have it proved as a part
of their inductive invariant; it holds if it is named.

Deadlock is not checked: an idle app, a page without requests, a process that has exited and a network that does
not change any more may all stop.

### Bounds

- A buffer of one or two instead of eight: what matters is a full buffer and a blocked
  caller, and both happen with one command more than the capacity.
- Two descriptors: one in use and one leaked; a third only leaks again. The kernel
  hands out every free number, so numbers are reused in the model as well.
- Two flows: the table's hazard is one flow's end moving another's entry.
- `MaxEvents` counts what the user and the system do (open or close the activity, press a
  button, revoke, stop the service, change the network), not what the app does in
  answer. Three is enough for a revocation, a new consent and a destroyed activity; the
  safety invariants were also checked with four (3.8 million states).
- `MaxUpdates` bounds capability updates that change nothing, `MaxBacklog` the callbacks
  on their way when a network changes.

- Two pages, two requests between them and two connections: an old thread beside a new one,
  an id used twice, a cancel behind a request, a retry, a reconnection. `MaxInFlight` bounds
  the replies on their way. `update` ends like `get` and is left out of `Methods`. Only what
  breaks a connection is held back by `MaxConnections`, so that dialing again is always
  possible.
- Four actions of notifications are one of each outcome: performed and answered,
  performed without an ID, rejected, answered without a handler. Two notifications let one replace another while the
  alert for the first is open.
- Two edits let a save meet the load after another, and a modal lose its setting. A bad rule is
  one the engine refuses.
- The four starting states of `MCSpnView` differ in what the view waits for: a disabled SPN
  with a user, data on the way, no registry yet, no tunnel.
- A buffer of three lines is overrun by eight while two polls wait, whenever the view was opened, on an
  empty buffer too; one view suffices, as views do not share
  anything but the buffer and the plugin thread delays each of them at will. With two views and five
  lines the inductive invariant was checked as well (789 786 states).
- Texts of up to two pieces have a separator or none; a second separator is treated like the
  first. Trees are two maps deep, paths up to three long, so that they end at, above and
  below a leaf.

### Fairness

The Go scheduler runs a goroutine that can step and Go's `select` picks at random among
ready cases: weak fairness of the worker and of `ProcessExits`, strong fairness of `Done` in
`AppLifecycle`, and of a blocked send (the runtime wakes senders in order). A copier
ends if its sockets are closed or its endpoint is aborted, and need not otherwise. The
connectivity thread and the main looper deliver what was posted (`NetworkHandoff`). In `PortApi`
plugin threads, read loops, the page's event loop and its timers run, and the server ends
what is not a subscription. `Notifications` takes it that replies are handled and that each
`execute` goes on; `Settings`, that each save and each load is answered and handled; `SpnView`,
the same of replies, plugin calls and saves, and that the SPN follows its setting, as long as
the engine runs; `LogView`, that intervals fire and polls are answered. In `BugReport` the
app has weak fairness as a whole, which includes that a server answers or the connection to it
fails: the HTTP clients of `report.go` have no timeout, and a server that did neither would hold the
plugin thread. No fairness is assumed of users, of the system, of the
garbage collector or of cancellation.

## Findings

The run `handoff_missed` shows that a network lost while another one is already there leaves the
tunnel on dead connections: the service forgets the network it had and finds none when
`reconnectTunnel` runs. The code means to follow such handoffs
(`PortmasterTunnelService.java:342-345`).

Eight more statements of comments are refuted by the models. They are defined beside the
properties of their module, and naming one in its configuration shows the counterexample:

| Statement | Said at | What happens |
|---|---|---|
| `Router!TeardownWaits` (invariant) | `module.go:266` | closing all connections does not wait for them; one still being dialed even survives the teardown |
| `AppLifecycle!OnlyKillsAreUngraceful` | `PortmasterTunnelService.java:170-172` | the delayed `stopSelf()` of `onRevoke` stops a service that was started again; Go takes it for killed, and ends with the notification that the system has stopped Portmaster |
| `AppLifecycle!DisconnectDoesNotPrompt` | `PortmasterTunnelService.java:190-192`, `ServiceCommand.java:29` | after a revocation the worker's `shutdown` command opens the consent dialog |
| `AppLifecycle!RunsInBackground` | `module.go:49`, `init.go:210` | an activity destroyed during a rebuild shuts the app down, because `IsActive` is false between teardown and setup |
| `PortApi!OwnReplies` (invariant) | `portapi.types.ts:86-87` | a page loaded later counts its ids from 1 on the same websocket, and receives replies to the requests of the page before it as its own |
| `PortApi!WatchRetries` | `portapi.service.ts:273-276` | a watch whose connection is lost gets no error, is not retried and not made again on the next connection: the bridge tells the page nothing |
| `LogView!UpdatesShown` | `logs.component.ts:28, 52` | a view opened before the first line was logged gets null for the empty buffer (`logs/module.go:131-133`) and stores it; every later poll that has lines throws at `this.Logs.concat`, and the view stays empty |
| `Notifications!MarkedWasPerformed` (invariant) | `notifications.service.ts:174` | an action whose type has no handler is logged, and the notification marked as resolved all the same; an alert answered late marks the notification that has replaced its own |

The properties except states that no comment speaks of and the models have:

- a `shutdown` command sent before a newer `keep_alive` leaves a tunnel on a service that is only
  bound; a slow `onRevoke` lowers the tunnel of the service that replaced the revoked one
  (`RequestedIsUp` excepts it through `orphaned`); a rebuild that fails is not tried again
  (`failed`);
- a view of the log that is closed before its first answer sets its interval all the same and
  polls for ever (`phase = "left"`); one that polls while a poll waits shows lines twice
  (`overlapped`); one that got null stays empty (`OpenedOnNothing` in `CatchesUp`);
- a notification may name an action that has no handler, or one that was performed as an answer to the
  notification it has replaced; an update that finds no notification leaves a record without a GUID
  (`SelectedWasPerformed`);
- a refused edit of a setting stays on the screen, an edit in a modal whose setting was loaded again is
  lost, and a load that is overtaken shows older values (`trouble` in `Settings`); reordering
  swaps two rules rather than moving one;
- a click on the button of the SPN that is followed by another one, or by a failed save, may
  leave it at "connecting" (`trouble` in `SpnView`);
- `CreateTicket` does not look at the status, so that a refused ticket is taken for a created one
  and the form is cleared (`refused`); debug info that could not be read makes every
  report that includes it fail; two taps leave the page twice;
- a level the autopilot suggests lowers the lock from an error to a warning level while the text
  stays "Insecure"; the chart puts a zero beside the last point where the two meet.

Outside the models: `logout` in `spn.service.ts` drops the result of `params.set`, so that its purge
is never sent; `retryPipeline` makes one retry more than `maxRetries`, and 0 means without end (no
caller sets it).

## Proofs

`VpnManagerProofs` proves, for any set of callers, any capacity of at least one and any
descriptors:

- `TypeCorrect`, `StackOwnership`, `TeardownFirst`, `LeakFreedom`: the safety invariants of
  the `vpn_manager` run;
- `LoweredByTeardown`: only the commands that tear down change a live stack;
- `Refinement`: initial states and steps of the worker are those of `Tunnel`.

`StackOwnsDescriptor` is not inductive by itself: that `CloseDescriptor` and `Establish`
keep it needs that the stack is gone in those phases. `PhaseInv` states what each phase
knows about `job`, `netStack` and `tunnelFD`, `DescriptorInv` relates the descriptor to the
open ones, and `IInv` is their conjunction with the types. One lemma per group of
actions shows that `IInv` is preserved; the invariants follow from `Invariance` and `PTL`.

`RouterProofs` proves, for any set of flows, that no flow is listed twice (`NoFlowListedTwice`) and
that the slice implements the table of `FlowTable` (`RouterImplementsTable`), whose invariant therefore
holds of the code's variables (`NoFlowForgotten`). `ListedOnce` is not inductive alone: adding a flow
keeps it because what is listed has been added already (`OnlyAdded`), and the refinement needs that a flow
is closed before it is removed (`ClosedFirst`). `SwapRemoveDrops` is the lemma about sequences: in a slice
without repetitions the removal by swapping drops one entry and loses no other.

The goroutines of a flow are proved to account for their errors (`EveryErrorAccounted`): two copiers send one
error each into a buffer of one, and the waiter receives one of the two. `Accounted` lists where the
errors can be in each phase. It follows that a copier that finds the buffer full is waited for, and that a
waiter has an error to receive or both copiers still copying (`NoGoroutineStranded`). With a buffer of one this is just enough, which
is why it is the safety core of the liveness property `ClosedFlowEnds`: nobody waits for a goroutine that has gone.

`AppLifecycleProofs` shows that every step of the app is a step of the worker's
specification or leaves its variables alone (`LifecycleImplementsManager`), so that the
theorems of `VpnManagerProofs` hold in the app: the invariants (`WorkerInvariant`, `WorkerSafeInApp`), the action
property (`LoweredByTeardownInApp`) and the steps of `Tunnel` (`AppImplementsTunnel`). On top of that it
proves the three invariants of the `lifecycle` run for any buffer, descriptors and number of events.
`AppInv` has three parts besides the types:

- `Instances` follows the service through the callbacks that are queued for the main thread: whichever
  command is delivered, an instance is there to get it, and the service that is left at the end of the
  queue is the one the activity manager has on record (`Consistent`). The queue only grows and loses its
  head, for which `RunningAppend` and `RunningTail` suffice.
- `Interface`: the system binds only with consent, and an interface without its binding has a
  teardown under way. With `Instances`, this is `NoTunnelOrphaned`; with `DescriptorUsed`, which says
  what a descriptor without a stack is, `NoTunnelUnconsented`.
- `Answered`: a tunnel that is wanted is up or failed, or a command that raises it waits with no
  `disconnect` behind it, or a revocation or a stop is still going on. `OnlyRevoked` says where a
  `disconnect` can come from. This gives `RequestedTunnelIsUp`.

`ExitIsNotBlocked` is the safety core of `EndsInExit`. An exit is coming when the worker's context is cancelled, a `system-shutdown` is
on its way to the worker or with it, or the process has ended; no step takes that back. `WayOut` says who waits for whom
then: a main thread that left a killed service has an exit coming, and while the context is cancelled, also when the worker has returned,
a thread that is not blocked in a send waits in `modules.Shutdown` to end the process.

The assumptions are those on the constants: `Capacity` is positive, `None` is no descriptor and no
command (`CommandAssumption`), and `MaxEvents` is a number.

`PortApiProofs` begins with the bridge, for any number of threads and of connections,
if `None` is no number. Types, `ConnIsRead` and `GivenUpIsClosed` are inductive only
together (`BridgeInvariant`): a dial adds a connection to `open`, and that it is alone there follows from
`conn` having been nil, from `GivenUpIsClosed` and from the types. A step
of the page, of a plugin thread or of the server is a step of the bridge or a stutter
(`PageImplementsBridge`; that a breaking connection is one that was dialed comes from the
invariant), and so both hold for every bound (`PageBridgeKept`, of `BridgeKept`).
`NothingOrphaned` proves `NoOrphanOperation` from two facts. `Asked` is about the queue of the page's thread: a
request in it has a stream, or its cancel further back. `Served` is about the other end: while a thread is
about to write, what the server does for its page is on the connection it will write to, so
that a cancel either reaches the operation or is lost together with the connection the operation was on.
`PageTypes` needs, in addition, that streams and retries together are no more than the requests made
(`Counted`) and that the last connection of the bound does not break (`Dials`).

Three more groups of results are about the requests of the page.

- Whose reply is whose. An open stream, a request in a queue, an operation and a reply bear an id of a
  page. `IdsUnique` says that all that bear the same id of the same page are of one request, and `Once` that a request
  is in one place only: it waits once, until its one operation is started (`IdsInvariant`). So replies of the loaded
  page find the stream they were made for, and `OwnReplies`, which the source claims of ids, is true as long as the first page
  is loaded (`RepliesFindTheirStream`); a reload makes the ids start again and can break it. And the server starts
  no request twice, though a retry and a reconnection write again (`RequestsServedOnce`).
- No request is forgotten. While no connection or page is lost and the engine is there (`~trouble`), the request
  of every open stream waits, is being served, or its last reply is on its way (`NoRequestForgotten`). `Untroubled` says
  that the connections are then open and read, `Subscribed` that the page's subscription runs before its first message, so
  that no reply is thrown away, and `Cancelled` that a cancel is of a stream that has ended, so that it forgets no other. This
  is the safety core of `Answered`; that the parts do move on is its fairness, which TLC checks.
- What messages carry, for texts of any length. `MessagesReceived` says what arrives of every message: keys, messages and queries up to
  their first separator, the rest of a key in front of the data. Hence `MessagesRoundTrip`: without a separator there, a message arrives as it was
  sent. TLC checks the same of texts of one and two pieces (`RepliesParsed`). Texts are concatenated and cut, which needs no induction.

`NotificationsProofs` proves `FeedLeadsToData` (`ArrayFollowsDatabase`) and `SelectedWasPerformed`
(`OnlyPerformedIsSelected`) for any events, actions and alerts. `FeedLeadsToData` applies all changes under way to the
arrays, one after the other. `Ends(view, changes, last)` says that such a sequence of applications leads from one pair of
arrays to another; the lemmas `EndsAppend` and `EndsTail` are about a change that is announced and one that is delivered,
`ApplyEffect` about what one application does to each key. While the query is still being read, the
invariant speaks of all arrays that the reads to come may leave: whatever they are, the feed leads from them to
arrays in which a record that exists is not lost, one that was read as it is now stays so, and what has been read
already is as the database has it (`Leads`). When the last key has been read, that is all of it.

`OnlyPerformedIsSelected` says of an action that a notification names and that has a handler: it was performed as an
answer to this notification or to an older one of the same event. That an update comes after the handler is in
`Performed`, which holds of each task that is about to update. That the answer was to no younger notification needs to know
where alerts come from: `Dated` says that everything the page holds or is about to get, the array, the list
on the screen, the feed, alerts and tasks, is of notifications no younger than `Newest`, the one the
event has now, or, where it has none or a record without a GUID, the last one that was raised. `NewestGrows` shows that no
write makes this smaller, and `StaysOlder` that what was old therefore stays so.

`BugReportProofs` proves `ClearedIsKept` (`NoReportLost`) and `InfoWanted` (`NoInfoUnwanted`) for any reports and any number
of overlapping flows. The form is cleared by the flow that ends first, when another may be under way, so the
invariant says what the form can be while a request is: the text that was sent, or nothing
(`Unchanged`), and the user's wish, until the page is left (`Honest`, `Wanted`). `InfoFirst` is what makes `None`
stay in a cleared form: the plugin thread runs its calls in order, so that the debug info the page
asked for when it opened has been answered before any report is.
The only assumption is that `Info` is neither null nor undefined. `NoFlowStranded` adds that the request of each
waiting flow is in the queue of the plugin calls: a call that runs ends the wait of its own flow and of no other, and
a page that is left takes no call with it. That is what `SpinnerGoes` needs besides fairness.

`NetworkHandoffProofs` proves `CurrentIsAvailable` and `LastChangeBuilt` for any finite set of networks, any
number of updates and any backlog. Two arguments go side by side. `Tracked` says what the callbacks still
to be handled say of the networks: a report of a network that has gone is followed by that of
its loss (`LossFollows`), and if the current one is gone there is a loss or a report under way
(`NewsUnderWay`). `Followed` says that a tunnel built on another network than the
current one has a rebuild ahead: in the callback, posted, or in the worker's channel
(`RebuildPending`), the same for a build that is under way.

`LogViewProofs` proves `LinesInOrder` and `NoLineSkipped` for any buffer, any number of views
and any number of lines, if `Nil` is no list (`NilIsNoList`). All of it is about `Shown`: a view that holds null shows nothing,
and keeps showing nothing. `Window` is the buffer: the last lines, without a gap. Per view,
`Pending` says that a call asks for lines after one it has shown, and, unless polls overlapped, after
the last; `Fresh` what a view is before its first answer; `Logged`, `NoGap` and `Ordered` are
about the lines on the screen. The lemma `Extended` is about sequences alone: appending an answer
to ordered lines without avoidable gaps keeps them so.

Only model-checked:

- every liveness property, `Tunnel!Spec` with its fairness included (its safety part is `Refinement`), since fairness
  and `ENABLED` are out of the prover's reach. Of `ClosedFlowEnds`, `EndsInExit`, `Answered` and `SpinnerGoes` the part that is a
  safety property is proved, as said above. All that the runs name of `Settings` and `SpnView` is liveness;
- the overlays of the report page, on which no theorem depends: the spinner is taken out by `SelectSeq`, which is
  recursive;
- the six invariants of `Conversions`, as they stand: the module reaches `ProfileConfig`, which has recursive operators, and what folds
  and recursion compute for every input (`ProfileAgrees`, `SettingsShown`, `StatsAddUp`, `ChartFilled`) needs an induction over
  data, which the provers do not do. `LockNeverCalmer` has finitely many inputs, and TLC takes all of them.
  `RepliesParsed` follows for texts of every length from the two theorems about messages.

`WatchAll!Views` is the one recursive function proofs reach. Its value is determined step by step, and `ViewsRun` needs no
more than that: it shows that the arrays `Views` goes through are the ones `Ends` speaks of.

## Not modelled

- Engine events: the notification listener and the waiters for a network that is not metered
  (`events.go`) are planned. `UISubscribe...` is called by nothing.
- `OnCreate` with its failures, which comes before everything `AppLifecycle` has.
- Flows through the SPN after they are handed over: they are in no table of this code.
- The HTTP backend and the SPN account, the OS information, the welcome, help, menu and application list views:
  single requests and reads on which nothing else depends.
- The binding generator, formats of logs and reports, generated and vendored code.

## Plan

1. `EngineEvents`: `notificationListener`, which queries before it subscribes, against its
   database; metered waiters whose channels are replaced; `EngineInit` for `OnCreate`.
2. `ProfileConfig` without recursive operators, so that theorems can name the invariants of `Conversions`.
3. The inductive invariant of `Settings` (what `heap`, `current` and the modal share) and what `SpnView` knows of
   its guess, towards the safety parts of `SettlesInSync` and `ButtonSettles`.
