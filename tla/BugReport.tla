------------------------------ MODULE BugReport ------------------------------
(***************************************************************************)
(* BugReportComponent: the form of a report, and the flows that two        *)
(* buttons start: an alert asks how to send it, a spinner is shown while   *)
(* the engine uploads the debug info and posts the report, and the form is *)
(* cleared.  A button may be tapped again before its alert is there.       *)
(*                                                                         *)
(* The servers are external: they take a request, refuse it, cannot be     *)
(* reached, or take it and their answer is lost.                           *)
(***************************************************************************)
EXTENDS Naturals, Sequences, FiniteSets, SequencesExt

CONSTANTS
  None,        \* null
  Undefined,   \* undefined: an argument that a plugin call leaves out
  Info,        \* the debug info
  Reports,     \* what the user may write
  MaxTaps      \* bound: taps on the buttons

ASSUME MaxTapsAssumption == MaxTaps \in Nat
ASSUME InfoAssumption == Info \notin {None, Undefined}

VARIABLES
  form,       \* the fields of the form
  open,       \* the page is open
  flows,      \* the flows, by tap
  overlays,   \* alerts and spinners on the screen, the last one on top
  calls,      \* plugin calls that have not run
  tracker,    \* what was posted, or opened in the browser as a link
  refused,    \* history: reports that the server refused as tickets
  cleared,    \* history: reports that were in the form when it was cleared
  wish,       \* history: the user wants the debug info to be included
  uploads     \* history: wish, when debug info was uploaded

vars == <<form, open, flows, overlays, calls, tracker, refused, cleared, wish, uploads>>

Taps == 1..MaxTaps
Alert(tap)   == [tap |-> tap, spins |-> FALSE]
Spinner(tap) == [tap |-> tap, spins |-> TRUE]

Init ==
  /\ form = [text |-> None, include |-> TRUE, debug |-> Undefined]
  /\ open = TRUE
  /\ flows = <<>>
  /\ overlays = <<>>
  /\ calls = <<[call |-> "GetDebugInfo"]>>
  /\ tracker = {} /\ refused = {} /\ cleared = {}
  /\ wish = TRUE /\ uploads = {}

-----------------------------------------------------------------------------
(* The user.  The moments between two overlays are too short to do anything. *)

Free == open /\ overlays = <<>> /\ \A tap \in DOMAIN flows : flows[tap].pc \in {"opening", "ended"}

Write ==
  /\ Free
  /\ \/ \E text \in Reports : form' = [form EXCEPT !.text = text] /\ UNCHANGED wish
     \/ form' = [form EXCEPT !.include = ~@] /\ wish' = form'.include
     \/ form.include /\ form' = [form EXCEPT !.debug = Info] /\ UNCHANGED wish
  /\ UNCHANGED <<open, flows, overlays, calls, tracker, refused, cleared, uploads>>

\* githubSelectAlert and privateTicketReport, up to where the alert has been created.
Tap ==
  /\ Free /\ Len(flows) < MaxTaps
  /\ \E call \in {"CreateIssue", "CreateTicket"} :
       flows' = Append(flows, [pc |-> "opening", call |-> call, genUrl |-> FALSE, request |-> None])
  /\ UNCHANGED <<form, open, overlays, calls, tracker, refused, cleared, wish, uploads>>

To(tap, pc) == [flows EXCEPT ![tap].pc = pc]

Present(tap) ==
  /\ flows[tap].pc = "opening"
  /\ flows' = To(tap, "asking")
  /\ overlays' = Append(overlays, Alert(tap))
  /\ UNCHANGED <<form, open, calls, tracker, refused, cleared, wish, uploads>>

\* What is sent: title, sections, and the debug info if it is to be included.
Request(tap) ==
  [call |-> flows[tap].call, tap |-> tap, text |-> form.text,
   debug |-> IF form.include THEN form.debug ELSE None]

\* An issue is created for every role but one, with the user's account for one of them.
\* A ticket is put together at once; without the alert's data that throws.
Select(tap) ==
  /\ overlays # <<>> /\ Last(overlays) = Alert(tap) /\ flows[tap].pc = "asking"
  /\ overlays' = Front(overlays)
  /\ \E role \in {"with-account", "no-account", "cancel", "backdrop"} :
       flows' = IF \/ role = "cancel"
                   \/ role = "backdrop" /\ flows[tap].call = "CreateTicket"
                  THEN To(tap, "ended")
                ELSE [flows EXCEPT ![tap] = [pc |-> "loading", call |-> @.call,
                        genUrl |-> role = "with-account" /\ @.call = "CreateIssue",
                        request |-> Request(tap)]]
  /\ UNCHANGED <<form, open, calls, tracker, refused, cleared, wish, uploads>>

\* The spinner has been created.  An issue is put together now (githubReport).
Submit(tap) ==
  /\ flows[tap].pc = "loading"
  /\ flows' = [flows EXCEPT ![tap].pc = "waiting",
                            ![tap].request = IF flows[tap].call = "CreateIssue" THEN Request(tap)
                                             ELSE @]
  /\ overlays' = Append(overlays, Spinner(tap))
  /\ calls' = Append(calls, flows'[tap].request)
  /\ UNCHANGED <<form, open, tracker, refused, cleared, wish, uploads>>

-----------------------------------------------------------------------------
(* The engine: plugin calls run one after the other. *)

GetDebugInfo ==
  /\ \/ form' = [form EXCEPT !.debug = Info]
     \/ UNCHANGED form
  /\ UNCHANGED <<flows, tracker, refused, uploads>>

\* An argument that is left out, and an upload that fails, are errors; null is no info.
Reject(tap) == flows' = To(tap, "failed") /\ UNCHANGED <<tracker, refused>>

\* CreateIssue.  To generate a link creates nothing.
CreateIssue(request) ==
  LET post == [kind |-> "issue", text |-> request.text] IN
  \/ flows' = To(request.tap, "done")                    \* taken
     /\ tracker' = (IF flows[request.tap].genUrl THEN tracker ELSE tracker \cup {post})
     /\ UNCHANGED refused
  \/ flows' = To(request.tap, "failed")                  \* taken, and the answer is lost
     /\ tracker' = (IF flows[request.tap].genUrl THEN tracker ELSE tracker \cup {post})
     /\ UNCHANGED refused
  \/ Reject(request.tap)                                 \* refused, or not reached

\* CreateTicket does not look at the status of the answer.
CreateTicket(request) ==
  LET post == [kind |-> "ticket", text |-> request.text] IN
  \/ \E pc \in {"done", "failed"} :                      \* taken; the answer may be lost
       /\ flows' = To(request.tap, pc)
       /\ tracker' = tracker \cup {post} /\ UNCHANGED refused
  \/ /\ flows' = To(request.tap, "done")                 \* refused
     /\ refused' = refused \cup {request.text} /\ UNCHANGED tracker
  \/ Reject(request.tap)                                 \* not reached

Create(request) ==
  /\ \/ request.debug = Undefined /\ Reject(request.tap) /\ UNCHANGED uploads
     \/ request.debug = Info /\ Reject(request.tap) /\ UNCHANGED uploads
     \/ /\ request.debug # Undefined
        /\ uploads' = IF request.debug = Info THEN uploads \cup {wish} ELSE uploads
        /\ IF request.call = "CreateIssue" THEN CreateIssue(request) ELSE CreateTicket(request)
  /\ UNCHANGED form

Perform ==
  /\ calls # <<>> /\ calls' = Tail(calls)
  /\ IF Head(calls).call = "GetDebugInfo" THEN GetDebugInfo ELSE Create(Head(calls))
  /\ UNCHANGED <<open, overlays, cleared, wish>>

-----------------------------------------------------------------------------
(* The ends of a flow. *)

\* Wrong: the debug info stays.
ClearText ==
  /\ form' = [form EXCEPT !.text = None, !.include = TRUE]
  /\ cleared' = cleared \cup ({form.text} \ {None})
  /\ open' = FALSE

\* resetForm, and back.
Leave ==
  /\ form' = [text |-> None, include |-> TRUE, debug |-> None]
  /\ cleared' = cleared \cup ({form.text} \ {None})
  /\ open' = FALSE

\* The overlays without the spinner of a flow.
Rest(tap) == SelectSeq(overlays, LAMBDA o : o # Spinner(tap))

Stay == UNCHANGED <<form, cleared, open>>

\* Wrong: the form is cleared in any case.
FailAndLeave(tap) ==
  /\ flows[tap].pc = "failed"
  /\ flows' = To(tap, "ended") /\ overlays' = Rest(tap)
  /\ Leave
  /\ UNCHANGED <<calls, tracker, refused, wish, uploads>>

\* Wrong: the spinner stays after an error.
FailAndSpin(tap) ==
  /\ flows[tap].pc = "failed"
  /\ flows' = To(tap, "ended")
  /\ Stay
  /\ UNCHANGED <<overlays, calls, tracker, refused, wish, uploads>>

\* The error is shown, and the form stays as it is.
Fail(tap) ==
  /\ flows[tap].pc = "failed"
  /\ flows' = To(tap, "ended") /\ overlays' = Rest(tap)
  /\ Stay
  /\ UNCHANGED <<calls, tracker, refused, wish, uploads>>

TicketCreated(tap) ==
  /\ flows[tap].pc = "done" /\ flows[tap].call = "CreateTicket"
  /\ flows' = To(tap, "ended") /\ overlays' = Rest(tap)
  /\ Leave
  /\ UNCHANGED <<calls, tracker, refused, wish, uploads>>

\* The browser is started with the link, or it fails as in Fail.
OpenLink(tap) ==
  /\ flows[tap].pc = "done" /\ flows[tap].genUrl
  /\ flows' = To(tap, "ended") /\ overlays' = Rest(tap)
  /\ \/ Leave /\ tracker' = tracker \cup {[kind |-> "link", text |-> flows[tap].request.text]}
     \/ Stay /\ UNCHANGED tracker
  /\ UNCHANGED <<calls, refused, wish, uploads>>

\* The user is told of an issue that was created without an account, with its link.
ShowLink(tap) ==
  /\ flows[tap].pc = "done" /\ flows[tap].call = "CreateIssue" /\ ~flows[tap].genUrl
  /\ flows' = To(tap, "telling") /\ overlays' = Append(Rest(tap), Alert(tap))
  /\ Stay
  /\ UNCHANGED <<calls, tracker, refused, wish, uploads>>

\* The user closes the alert with the link.
Told(tap) ==
  /\ flows[tap].pc = "telling" /\ Last(overlays) = Alert(tap)
  /\ flows' = To(tap, "ended") /\ overlays' = Front(overlays)
  /\ Leave
  /\ UNCHANGED <<calls, tracker, refused, wish, uploads>>

-----------------------------------------------------------------------------
Flow(tap) ==
  \/ Present(tap) \/ Submit(tap)
  \/ Fail(tap) \/ TicketCreated(tap) \/ OpenLink(tap) \/ ShowLink(tap)

System == Perform \/ \E tap \in DOMAIN flows : Flow(tap)
Next == Write \/ Tap \/ System \/ \E tap \in DOMAIN flows : Select(tap) \/ Told(tap)

Spec == Init /\ [][Next]_vars

\* The UI goes on as long as it has something to do, and the servers answer or the
\* connection to them fails.
FairSpec == Spec /\ WF_vars(System)

-----------------------------------------------------------------------------
(* Properties. *)

\* What the user wrote is only cleared when an issue or a ticket holds it, or the browser
\* has it in a link; or, for want of a look at the status, when a server refused it.
ClearedIsKept == cleared \subseteq {post.text : post \in tracker} \cup refused

\* No debug info is uploaded that the user did not want to be included, by whichever of
\* two flows, though the first one sets the form back to including it.
InfoWanted == uploads \subseteq {TRUE}

\* A spinner, which the user cannot close, goes away, also when something fails.
SpinnerGoes ==
  \A tap \in Taps : Contains(overlays, Spinner(tap)) ~> ~Contains(overlays, Spinner(tap))
=============================================================================
