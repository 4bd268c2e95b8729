------------------------------- MODULE LogView -------------------------------
(***************************************************************************)
(* The log: logs.LogBuffer keeps the last lines of the engine, numbered;   *)
(* LogsComponent asks for all of them when it is opened, and then, once a  *)
(* second, for those after the last one it shows.  A line is its ID.       *)
(*                                                                         *)
(* The plugin thread runs the calls of a view in their order; it may be    *)
(* busy for longer than a second, so that a view polls again meanwhile.    *)
(***************************************************************************)
EXTENDS Naturals, Sequences

CONSTANTS
  Nil,          \* no slice in Go, and null or undefined in the page: not the empty list
  BufferSize,   \* lines the buffer holds
  Views,        \* views that are opened, one instance of the component each
  MaxLines,     \* bound: lines that are logged
  MaxCalls      \* bound: calls of a view that wait

ASSUME NilIsNoList == Nil \notin Seq(Nat)
ASSUME BufferAssumption == BufferSize \in Nat \ {0}
ASSUME BoundsAssumption == MaxLines \in Nat /\ MaxCalls \in Nat \ {0}

VARIABLES
  LogBuffer,    \* the lines that are kept
  logCounter,   \* the ID of the last line
  phase,        \* phase[v]: "new"; "opening" until the first lines are there, then "open";
                \* "left" if it is closed before that, else "closed"
  lines,        \* lines[v]: Logs of the view, undefined until the first answer
  timer,        \* views whose interval is set
  calls,        \* calls[v]: IDs of the GetLogs calls that have not run, in order
  overlapped    \* history: views that have polled while they were waiting

viewVars == <<phase, lines, timer, calls, overlapped>>
vars == <<LogBuffer, logCounter, viewVars>>

Init ==
  /\ LogBuffer = <<>>
  /\ logCounter = 0
  /\ phase = [v \in Views |-> "new"]
  /\ lines = [v \in Views |-> Nil]
  /\ timer = {}
  /\ calls = [v \in Views |-> <<>>]
  /\ overlapped = {}

\* logFunc: the line is appended, and the oldest one dropped when there are too many.
logFunc ==
  /\ logCounter < MaxLines
  /\ logCounter' = logCounter + 1
  /\ LogBuffer' = LET all == Append(LogBuffer, logCounter + 1)
                  IN  IF Len(all) > BufferSize THEN Tail(all) ELSE all
  /\ UNCHANGED viewVars

\* Wrong: a line that is not there any more is looked for all the same.
SliceOrNothing(id) ==
  IF LogBuffer = <<>> THEN Nil
  ELSE IF id + 1 < LogBuffer[1] THEN <<>>
  ELSE SubSeq(LogBuffer, id + 1 - LogBuffer[1] + 1, Len(LogBuffer))

\* Wrong: the first line after the one that was asked for is left out.
SliceTooLate(id) ==
  IF LogBuffer = <<>> THEN Nil
  ELSE IF id + 1 <= LogBuffer[1] THEN LogBuffer
  ELSE SubSeq(LogBuffer, id + 1 - LogBuffer[1] + 2, Len(LogBuffer))

\* GetAllLogsAfterID; Go counts from 0.  A nil slice is null when it reaches the page, an
\* empty one is a list.
GetAllLogsAfterID(id) ==
  IF LogBuffer = <<>> THEN Nil
  ELSE IF id + 1 <= LogBuffer[1] THEN LogBuffer
  ELSE SubSeq(LogBuffer, id + 1 - LogBuffer[1] + 1, Len(LogBuffer))

-----------------------------------------------------------------------------
(* The view. *)

\* What the template makes of Logs.
Shown(v) == IF lines[v] = Nil THEN <<>> ELSE lines[v]
LastShown(v) == IF Shown(v) = <<>> THEN 0 ELSE Shown(v)[Len(Shown(v))]

\* ngOnInit
Open(v) ==
  /\ phase[v] = "new" /\ phase' = [phase EXCEPT ![v] = "opening"]
  /\ calls' = [calls EXCEPT ![v] = Append(@, 0)]
  /\ UNCHANGED <<LogBuffer, logCounter, lines, timer, overlapped>>

\* The first answer is what is shown, null included, and the interval is set, be the view
\* there or not.
ShowFirst(v) ==
  /\ phase[v] \in {"opening", "left"}
  /\ phase' = [phase EXCEPT ![v] = IF @ = "opening" THEN "open" ELSE "closed"]
  /\ timer' = timer \cup {v}
  /\ calls' = [calls EXCEPT ![v] = Tail(@)]
  /\ lines' = [lines EXCEPT ![v] = GetAllLogsAfterID(Head(calls[v]))]
  /\ UNCHANGED <<LogBuffer, logCounter, overlapped>>

\* Wrong: the view asks for the line it shows last once more.
PollLast(v) ==
  /\ v \in timer /\ Len(calls[v]) < MaxCalls
  /\ calls' = [calls EXCEPT ![v] =
       Append(@, IF LastShown(v) = 0 THEN 0 ELSE LastShown(v) - 1)]
  /\ overlapped' = IF calls[v] = <<>> THEN overlapped ELSE overlapped \cup {v}
  /\ UNCHANGED <<LogBuffer, logCounter, phase, lines, timer>>

\* The interval has passed.  Nothing waits for the calls that have not been answered.
Poll(v) ==
  /\ v \in timer /\ Len(calls[v]) < MaxCalls
  /\ calls' = [calls EXCEPT ![v] = Append(@, LastShown(v))]
  /\ overlapped' = IF calls[v] = <<>> THEN overlapped ELSE overlapped \cup {v}
  /\ UNCHANGED <<LogBuffer, logCounter, phase, lines, timer>>

\* The lines of a poll are appended to what is shown.  An answer that is null is skipped,
\* and with Logs null the concat throws: either way what is shown stays as it is.
ShowMore(v) ==
  /\ phase[v] \in {"open", "closed"} /\ calls[v] # <<>>
  /\ calls' = [calls EXCEPT ![v] = Tail(@)]
  /\ LET logs == GetAllLogsAfterID(Head(calls[v]))
     IN  lines' = IF logs = Nil \/ lines[v] = Nil THEN lines
                  ELSE [lines EXCEPT ![v] = @ \o logs]
  /\ UNCHANGED <<LogBuffer, logCounter, phase, timer, overlapped>>

\* ngOnDestroy clears the interval, which is not set before the first lines are there.
Close(v) ==
  /\ phase[v] \in {"opening", "open"}
  /\ phase' = [phase EXCEPT ![v] = IF @ = "opening" THEN "left" ELSE "closed"]
  /\ timer' = timer \ {v}
  /\ UNCHANGED <<LogBuffer, logCounter, lines, calls, overlapped>>

Next ==
  \/ logFunc
  \/ \E v \in Views : Open(v) \/ ShowFirst(v) \/ Poll(v) \/ ShowMore(v) \/ Close(v)

Spec == Init /\ [][Next]_vars

\* Intervals fire and calls run; nobody has to log, to open or to close anything.
FairSpec ==
  Spec /\ \A v \in Views : WF_vars(Poll(v)) /\ WF_vars(ShowFirst(v) \/ ShowMore(v))

-----------------------------------------------------------------------------
(* Properties. *)

TypeOK ==
  /\ LogBuffer \in Seq(Nat)
  /\ logCounter \in Nat
  /\ phase \in [Views -> {"new", "opening", "open", "left", "closed"}]
  /\ lines \in [Views -> Seq(Nat) \cup {Nil}]
  /\ timer \subseteq Views
  /\ calls \in [Views -> Seq(Nat)]
  /\ overlapped \subseteq Views

\* A view shows the lines in their order, and each of them once, unless it has polled
\* while an earlier poll was waiting: then a line may be there twice.
LinesInOrder ==
  \A v \in Views \ overlapped :
    \A i, j \in DOMAIN Shown(v) : i < j => Shown(v)[i] < Shown(v)[j]

\* No view leaves out a line between two others that could still be had: what is
\* missing has been dropped from the buffer.
NoLineSkipped ==
  \A v \in Views : \A i \in 1..(Len(Shown(v)) - 1) :
    Shown(v)[i] + 1 < Shown(v)[i + 1] => Shown(v)[i + 1] <= LogBuffer[1]

\* A view that was opened before the first line was logged has got null.
OpenedOnNothing(v) == phase[v] = "open" /\ lines[v] = Nil

\* A view that is open comes to show the last line there is, however far behind it has
\* fallen and whatever was dropped meanwhile, unless it was opened on an empty buffer.
CatchesUp ==
  \A v \in Views : phase[v] \in {"opening", "open"} ~>
    \/ phase[v] \notin {"opening", "open"}
    \/ LastShown(v) = logCounter
    \/ OpenedOnNothing(v)

\* What CatchesUp would be without that exception: the view requests "the full log buffer"
\* and then "updates of the log buffer" (logs.component.ts:28, 52).  The code violates it:
\* a view that has got null throws away every update.
UpdatesShown ==
  \A v \in Views : phase[v] \in {"opening", "open"} ~>
    (phase[v] \notin {"opening", "open"} \/ LastShown(v) = logCounter)
=============================================================================
