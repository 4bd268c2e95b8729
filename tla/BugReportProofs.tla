--------------------------- MODULE BugReportProofs ---------------------------
(***************************************************************************)
(* Proofs about BugReport, for any number of taps on the buttons and any   *)
(* reports.  Two flows may be under way at once, each with a request that  *)
(* was put together at an earlier moment, so what the form is cleared of,  *)
(* and what is uploaded, depend on what the form could become meanwhile.   *)
(***************************************************************************)
EXTENDS BugReport, SequenceTheorems, TLAPS

Texts == Reports \cup {None}
Debug == {None, Undefined, Info}
Kinds == {"CreateIssue", "CreateTicket"}
Requests == [call : Kinds, tap : Taps, text : Texts, debug : Debug]
Calls == Requests \cup {[call |-> "GetDebugInfo"]}
Pcs == {"opening", "asking", "loading", "waiting", "done", "failed", "telling", "ended"}
FlowRecords == [pc : Pcs, call : Kinds, genUrl : BOOLEAN, request : Requests \cup {None}]

\* The type invariant.  The overlays say when the user may act, and nothing else.
Types ==
  /\ form \in [text : Texts, include : BOOLEAN, debug : Debug]
  /\ open \in BOOLEAN
  /\ flows \in Seq(FlowRecords) /\ Len(flows) <= MaxTaps
  /\ calls \in Seq(Calls)
  /\ wish \in BOOLEAN

\* The request of a flow; the flows that have put one together, and those whose call
\* has been taken.
Built(tap) == flows[tap].request
Asked(tap) == flows[tap].pc \in {"loading", "waiting", "done", "failed", "telling"}
Taken(tap) == flows[tap].pc \in {"done", "telling"}

\* A flow that has asked has the request that its call is made with.
Requested ==
  \A tap \in DOMAIN flows :
    /\ Asked(tap) => Built(tap) \in Requests /\ Built(tap).tap = tap
                     /\ Built(tap).call = flows[tap].call
    /\ flows[tap].genUrl => flows[tap].call = "CreateIssue"
    /\ flows[tap].pc = "telling" => ~flows[tap].genUrl

\* The calls that have not run are those of the flows that wait, one for each.
Queue ==
  /\ \A i \in 1..Len(calls) : calls[i].call # "GetDebugInfo" =>
       /\ calls[i].tap \in DOMAIN flows
       /\ flows[calls[i].tap].pc = "waiting"
       /\ calls[i] = Built(calls[i].tap)
  /\ \A i, j \in 1..Len(calls) :
       calls[i].call # "GetDebugInfo" /\ calls[j].call # "GetDebugInfo"
         /\ calls[i].tap = calls[j].tap => i = j

\* The debug info is asked for when the page opens, before any request is sent: it is
\* there, or has failed to come, before a report is taken and the page is left.
InfoFirst ==
  \A i \in 1..Len(calls) : calls[i].call = "GetDebugInfo" =>
    /\ i = 1
    /\ open
    /\ \A tap \in DOMAIN flows : ~Taken(tap)

\* As long as the page is open the form says what the user wants; a form that was
\* cleared holds nothing.
Honest == IF open THEN form.include = wish ELSE form.text = None /\ form.debug = None

\* A request holds debug info only if the user wants that.
Wanted ==
  \A tap \in DOMAIN flows :
    flows[tap].pc \in {"loading", "waiting"} /\ Built(tap).debug = Info => wish

\* While a request is under way the form holds what was sent, or has been cleared.
Unchanged ==
  \A tap \in DOMAIN flows : Asked(tap) => form.text \in {None, Built(tap).text}

\* What a server has taken is in the tracker, or refused, or will be opened as a link.
Kept == {post.text : post \in tracker} \cup refused
Delivered ==
  \A tap \in DOMAIN flows : Taken(tap) /\ ~flows[tap].genUrl => Built(tap).text \in Kept

IInv ==
  /\ Types /\ Requested /\ Queue /\ InfoFirst
  /\ Honest /\ Wanted /\ InfoWanted
  /\ Unchanged /\ Delivered /\ ClearedIsKept

-----------------------------------------------------------------------------
(* A flow that goes on. *)

\* A step of a flow changes where it is, and nothing of another flow.
LEMMA FlowGoesOn ==
  ASSUME Types, NEW tap \in DOMAIN flows, NEW pc \in Pcs
  PROVE  /\ To(tap, pc) \in Seq(FlowRecords)
         /\ Len(To(tap, pc)) = Len(flows)
         /\ DOMAIN To(tap, pc) = DOMAIN flows
         /\ To(tap, pc)[tap].pc = pc
         /\ \A t \in DOMAIN flows :
              /\ t # tap => To(tap, pc)[t] = flows[t]
              /\ To(tap, pc)[t].request = flows[t].request
              /\ To(tap, pc)[t].call = flows[t].call
              /\ To(tap, pc)[t].genUrl = flows[t].genUrl
<1>1. flows \in Seq(FlowRecords) /\ tap \in 1..Len(flows) /\ DOMAIN flows = 1..Len(flows)
  BY DEF Types
<1> DEFINE flow == [flows[tap] EXCEPT !.pc = pc]
<1>2. flows[tap] \in FlowRecords
  BY <1>1
<1>3. /\ flow \in FlowRecords /\ flow.pc = pc /\ flow.request = flows[tap].request
      /\ flow.call = flows[tap].call /\ flow.genUrl = flows[tap].genUrl
  BY <1>2 DEF FlowRecords
<1>4. To(tap, pc) = [flows EXCEPT ![tap] = flow]
  BY <1>1, <1>2 DEF To
<1> HIDE DEF flow
<1>5. To(tap, pc) \in Seq(FlowRecords) /\ Len(To(tap, pc)) = Len(flows)
  BY <1>1, <1>3, <1>4, ExceptSeq
<1>6. QED
  BY <1>1, <1>3, <1>4, <1>5

\* The request that is put together holds what the form holds.
LEMMA RequestBuilt ==
  ASSUME Types, NEW tap \in DOMAIN flows
  PROVE  /\ Request(tap) \in Requests
         /\ Request(tap).tap = tap
         /\ Request(tap).call = flows[tap].call
         /\ Request(tap).text = form.text
<1>1. tap \in Taps /\ flows[tap] \in FlowRecords
  BY MaxTapsAssumption DEF Types, Taps
<1>2. flows[tap].call \in Kinds
  BY <1>1 DEF FlowRecords
<1>3. form.text \in Texts /\ (IF form.include THEN form.debug ELSE None) \in Debug
  BY DEF Types, Debug
<1>4. QED
  BY <1>1, <1>2, <1>3 DEF Request, Requests

\* Debug info gets into a request only if the user wants it there: a form that was
\* cleared includes it again, but has none.
LEMMA RequestWanted ==
  ASSUME Types, Honest, NEW tap \in DOMAIN flows, Request(tap).debug = Info
  PROVE  wish
  BY InfoAssumption DEF Types, Honest, Request, Debug

-----------------------------------------------------------------------------
(* The user. *)

LEMMA InitInv == Init => IInv
<1> SUFFICES ASSUME Init PROVE IInv
  OBVIOUS
<1> USE DEF Init
<1>1. Types
  BY MaxTapsAssumption DEF Types, Texts, Debug, Calls
<1>2. Requested /\ Wanted /\ Unchanged /\ Delivered
  BY DEF Requested, Wanted, Unchanged, Delivered
<1>3. Queue /\ InfoFirst
  BY DEF Queue, InfoFirst
<1>4. Honest /\ InfoWanted /\ ClearedIsKept
  BY DEF Honest, InfoWanted, ClearedIsKept
<1>5. QED
  BY <1>1, <1>2, <1>3, <1>4 DEF IInv

\* The form changes only while no flow has a request under way.
LEMMA WriteInv == IInv /\ Write => IInv'
<1> SUFFICES ASSUME IInv, Write PROVE IInv'
  OBVIOUS
<1> USE DEF IInv, Write
<1>1. open /\ \A tap \in DOMAIN flows : ~Asked(tap)
  BY DEF Free, Asked
<1>2. /\ form' \in [text : Texts, include : BOOLEAN, debug : Debug]
      /\ form'.include = wish' /\ wish' \in BOOLEAN
  BY <1>1 DEF Types, Honest, Texts, Debug
<1>3. Types'
  BY <1>2 DEF Types
<1>4. Requested' /\ Queue' /\ InfoFirst' /\ Delivered'
  BY DEF Requested, Queue, InfoFirst, Delivered, Built, Asked, Taken, Kept
<1>5. Honest'
  BY <1>1, <1>2 DEF Honest
<1>6. Wanted' /\ Unchanged'
  BY <1>1 DEF Wanted, Unchanged, Built, Asked
<1>7. InfoWanted' /\ ClearedIsKept'
  BY DEF InfoWanted, ClearedIsKept
<1>8. QED
  BY <1>3, <1>4, <1>5, <1>6, <1>7

LEMMA TapInv == IInv /\ Tap => IInv'
<1> SUFFICES ASSUME IInv, Tap PROVE IInv'
  OBVIOUS
<1> USE DEF IInv, Tap
<1>1. PICK call \in Kinds :
        flows' = Append(flows, [pc |-> "opening", call |-> call, genUrl |-> FALSE,
                                request |-> None])
  BY DEF Kinds
<1> DEFINE flow == [pc |-> "opening", call |-> call, genUrl |-> FALSE, request |-> None]
<1>2. flow \in FlowRecords /\ flow.pc = "opening" /\ flow.genUrl = FALSE
  BY DEF FlowRecords, Pcs
<1> HIDE DEF flow
<1>3. /\ flows' \in Seq(FlowRecords) /\ Len(flows') = Len(flows) + 1
      /\ \A tap \in DOMAIN flows : tap \in DOMAIN flows' /\ flows'[tap] = flows[tap]
      /\ \A tap \in DOMAIN flows' : tap \in DOMAIN flows \/ flows'[tap] = flow
  <2>1. flows' = Append(flows, flow) /\ flows \in Seq(FlowRecords)
    BY <1>1 DEF Types, flow
  <2>2. QED
    BY <1>2, <2>1, AppendProperties
<1>4. Types'
  BY <1>3, MaxTapsAssumption DEF Types
<1>5. Requested' /\ Wanted' /\ Unchanged' /\ Delivered'
  BY <1>2, <1>3 DEF Requested, Wanted, Unchanged, Delivered, Built, Asked, Taken, Kept
<1>6. Queue'
  BY <1>3 DEF Queue, Built
<1>7. InfoFirst'
  BY <1>2, <1>3 DEF InfoFirst, Taken
<1>8. Honest' /\ InfoWanted' /\ ClearedIsKept'
  BY DEF Honest, InfoWanted, ClearedIsKept
<1>9. QED
  BY <1>4, <1>5, <1>6, <1>7, <1>8

LEMMA PresentInv ==
  ASSUME IInv, NEW tap \in DOMAIN flows, Present(tap)
  PROVE  IInv'
<1> USE DEF IInv, Present
<1>1. "asking" \in Pcs /\ flows' = To(tap, "asking")
  BY DEF Pcs
<1>2. /\ flows' \in Seq(FlowRecords) /\ Len(flows') = Len(flows)
      /\ DOMAIN flows' = DOMAIN flows /\ flows'[tap].pc = "asking"
      /\ flows'[tap].genUrl = flows[tap].genUrl /\ flows'[tap].call = flows[tap].call
      /\ \A t \in DOMAIN flows : t # tap => flows'[t] = flows[t]
  BY <1>1, FlowGoesOn
<1>3. Types'
  BY <1>2 DEF Types
<1>4. Requested' /\ Wanted' /\ Unchanged' /\ Delivered'
  <2>1. Requested'
    BY <1>2 DEF Requested, Built, Asked
  <2>2. Wanted' /\ Unchanged'
    BY <1>2 DEF Wanted, Unchanged, Built, Asked
  <2>3. Delivered'
    BY <1>2 DEF Delivered, Built, Taken, Kept
  <2>4. QED
    BY <2>1, <2>2, <2>3
<1>5. Queue'
  <2>1. calls' = calls /\ \A t \in DOMAIN flows : flows[t].pc = "waiting" => t # tap
    BY DEF Present
  <2>2. ASSUME NEW i \in 1..Len(calls), calls[i].call # "GetDebugInfo"
        PROVE  /\ calls[i].tap \in DOMAIN flows'
               /\ flows'[calls[i].tap].pc = "waiting"
               /\ calls[i] = flows'[calls[i].tap].request
    <3>1. /\ calls[i].tap \in DOMAIN flows /\ flows[calls[i].tap].pc = "waiting"
          /\ calls[i] = flows[calls[i].tap].request
      BY <2>2 DEF Queue, Built
    <3>2. flows'[calls[i].tap] = flows[calls[i].tap]
      BY <1>2, <2>1, <3>1
    <3>3. QED
      BY <1>2, <3>1, <3>2
  <2>3. QED
    BY <2>1, <2>2 DEF Queue, Built
<1>6. InfoFirst'
  BY <1>2 DEF InfoFirst, Taken
<1>7. Honest' /\ InfoWanted' /\ ClearedIsKept'
  BY DEF Honest, InfoWanted, ClearedIsKept
<1>8. QED
  BY <1>3, <1>4, <1>5, <1>6, <1>7

\* The alert is closed.  A request that is put together now holds the form as it is.
LEMMA SelectInv ==
  ASSUME IInv, NEW tap \in DOMAIN flows, Select(tap)
  PROVE  IInv'
<1> USE DEF IInv
<1>0. /\ flows[tap].pc = "asking"
      /\ UNCHANGED <<form, open, calls, tracker, refused, cleared, wish, uploads>>
  BY DEF Select
<1>1. CASE flows' = To(tap, "ended")
  <2>1. "ended" \in Pcs
    BY DEF Pcs
  <2>2. /\ flows' \in Seq(FlowRecords) /\ Len(flows') = Len(flows)
        /\ DOMAIN flows' = DOMAIN flows /\ flows'[tap].pc = "ended"
        /\ flows'[tap].genUrl = flows[tap].genUrl /\ flows'[tap].call = flows[tap].call
        /\ \A t \in DOMAIN flows : t # tap => flows'[t] = flows[t]
    BY <1>1, <2>1, FlowGoesOn
  <2>3. Types'
    BY <1>0, <2>2 DEF Types
  <2>4. Requested' /\ Wanted' /\ Unchanged' /\ Delivered'
    BY <1>0, <2>2 DEF Requested, Wanted, Unchanged, Delivered, Built, Asked, Taken, Kept
  <2>5. Queue'
    BY <1>0, <2>2 DEF Queue, Built
  <2>6. InfoFirst'
    BY <1>0, <2>2 DEF InfoFirst, Taken
  <2>7. Honest' /\ InfoWanted' /\ ClearedIsKept'
    BY <1>0 DEF Honest, InfoWanted, ClearedIsKept
  <2>8. QED
    BY <2>3, <2>4, <2>5, <2>6, <2>7
<1>2. CASE \E genUrl \in BOOLEAN :
             /\ genUrl => flows[tap].call = "CreateIssue"
             /\ flows' = [flows EXCEPT ![tap] = [pc |-> "loading", call |-> flows[tap].call,
                            genUrl |-> genUrl, request |-> Request(tap)]]
  <2>1. PICK genUrl \in BOOLEAN :
          /\ genUrl => flows[tap].call = "CreateIssue"
          /\ flows' = [flows EXCEPT ![tap] = [pc |-> "loading", call |-> flows[tap].call,
                         genUrl |-> genUrl, request |-> Request(tap)]]
    BY <1>2
  <2> DEFINE request == Request(tap)
             flow == [pc |-> "loading", call |-> flows[tap].call,
                      genUrl |-> genUrl, request |-> request]
  <2>2. /\ request \in Requests /\ request.tap = tap
        /\ request.call = flows[tap].call /\ request.text = form.text
    BY RequestBuilt
  <2>3. request.debug = Info => wish
    BY RequestWanted
  <2>4. flows' = [flows EXCEPT ![tap] = flow]
    BY <2>1
  <2> HIDE DEF request
  <2>5. flows \in Seq(FlowRecords) /\ tap \in 1..Len(flows) /\ DOMAIN flows = 1..Len(flows)
    BY DEF Types
  <2>6. flows[tap] \in FlowRecords /\ flows[tap].call \in Kinds
    <3>1. flows[tap] \in FlowRecords
      BY <2>5
    <3>2. QED
      BY <3>1 DEF FlowRecords
  <2>7. /\ flow \in FlowRecords /\ flow.pc = "loading" /\ flow.genUrl = genUrl
        /\ flow.call = flows[tap].call /\ flow.request = request
    BY <2>2, <2>6 DEF FlowRecords, Pcs
  <2> HIDE DEF flow
  <2>8. /\ flows' \in Seq(FlowRecords) /\ Len(flows') = Len(flows)
        /\ DOMAIN flows' = DOMAIN flows /\ flows'[tap] = flow
        /\ \A t \in DOMAIN flows : t # tap => flows'[t] = flows[t]
    BY <2>4, <2>5, <2>7, ExceptSeq
  <2>9. Types'
    BY <1>0, <2>8 DEF Types
  <2>10. Requested'
    BY <1>0, <2>1, <2>2, <2>7, <2>8 DEF Requested, Built, Asked
  <2>11. Wanted' /\ Unchanged'
    BY <1>0, <2>2, <2>3, <2>7, <2>8 DEF Wanted, Unchanged, Built, Asked
  <2>12. Delivered'
    BY <1>0, <2>7, <2>8 DEF Delivered, Built, Taken, Kept
  <2>13. Queue'
    BY <1>0, <2>8 DEF Queue, Built
  <2>14. InfoFirst'
    BY <1>0, <2>7, <2>8 DEF InfoFirst, Taken
  <2>15. Honest' /\ InfoWanted' /\ ClearedIsKept'
    BY <1>0 DEF Honest, InfoWanted, ClearedIsKept
  <2>16. QED
    BY <2>9, <2>10, <2>11, <2>12, <2>13, <2>14, <2>15
<1>3. QED
  <2>1. PICK role \in {"with-account", "no-account", "cancel", "backdrop"} :
          flows' = IF \/ role = "cancel"
                      \/ role = "backdrop" /\ flows[tap].call = "CreateTicket"
                     THEN To(tap, "ended")
                   ELSE [flows EXCEPT ![tap] = [pc |-> "loading", call |-> @.call,
                           genUrl |-> role = "with-account" /\ @.call = "CreateIssue",
                           request |-> Request(tap)]]
    BY DEF Select
  <2> DEFINE genUrl == role = "with-account" /\ flows[tap].call = "CreateIssue"
  <2>2. genUrl \in BOOLEAN /\ (genUrl => flows[tap].call = "CreateIssue")
    OBVIOUS
  <2>3. \/ flows' = To(tap, "ended")
        \/ flows' = [flows EXCEPT ![tap] = [pc |-> "loading", call |-> flows[tap].call,
                       genUrl |-> genUrl, request |-> Request(tap)]]
    BY <2>1
  <2> HIDE DEF genUrl
  <2>4. QED
    BY <1>1, <1>2, <2>2, <2>3

\* The call is made.  An issue is put together anew, from the form as it is by now.
LEMMA SubmitInv ==
  ASSUME IInv, NEW tap \in DOMAIN flows, Submit(tap)
  PROVE  IInv'
<1> USE DEF IInv
<1> DEFINE request == IF flows[tap].call = "CreateIssue" THEN Request(tap) ELSE Built(tap)
           flow == [flows[tap] EXCEPT !.pc = "waiting", !.request = request]
<1>0. /\ flows[tap].pc = "loading" /\ Asked(tap)
      /\ UNCHANGED <<form, open, tracker, refused, cleared, wish, uploads>>
  BY DEF Submit, Asked
<1>1. flows \in Seq(FlowRecords) /\ tap \in 1..Len(flows) /\ DOMAIN flows = 1..Len(flows)
  BY DEF Types
<1>2. flows[tap] \in FlowRecords
  BY <1>1
<1>3. /\ request \in Requests /\ request.tap = tap /\ request.call = flows[tap].call
      /\ form.text \in {None, request.text}
  BY <1>0, RequestBuilt DEF Requested, Unchanged
<1>4. request.debug = Info => wish
  BY <1>0, RequestWanted DEF Wanted
<1>5. flows' = [flows EXCEPT ![tap] = flow]
  BY <1>1, <1>2 DEF Submit, Built, FlowRecords
<1>6. calls' = Append(calls, flows'[tap].request)
  BY DEF Submit
<1> HIDE DEF request
<1>7. /\ flow \in FlowRecords /\ flow.pc = "waiting" /\ flow.request = request
      /\ flow.call = flows[tap].call /\ flow.genUrl = flows[tap].genUrl
  BY <1>2, <1>3 DEF FlowRecords, Pcs
<1> HIDE DEF flow
<1>8. /\ flows' \in Seq(FlowRecords) /\ Len(flows') = Len(flows)
      /\ DOMAIN flows' = DOMAIN flows /\ flows'[tap] = flow
      /\ \A t \in DOMAIN flows : t # tap => flows'[t] = flows[t]
  BY <1>1, <1>5, <1>7, ExceptSeq
<1>9. request \in Calls /\ request.call # "GetDebugInfo" /\ calls \in Seq(Calls)
  BY <1>3 DEF Types, Calls, Requests, Kinds
<1>10. /\ calls' \in Seq(Calls) /\ Len(calls') = Len(calls) + 1
       /\ calls'[Len(calls) + 1] = request
       /\ \A i \in 1..Len(calls) : calls'[i] = calls[i]
  BY <1>6, <1>7, <1>8, <1>9, AppendProperties
<1>11. Types'
  BY <1>0, <1>8, <1>10 DEF Types
<1>12. Requested'
  BY <1>0, <1>3, <1>7, <1>8 DEF Requested, Built, Asked
<1>13. Wanted' /\ Unchanged'
  BY <1>0, <1>3, <1>4, <1>7, <1>8 DEF Wanted, Unchanged, Built, Asked
<1>14. Delivered'
  BY <1>0, <1>7, <1>8 DEF Delivered, Built, Taken, Kept
<1>15. \A i \in 1..Len(calls') :
         i \in 1..Len(calls) \/ (i = Len(calls) + 1 /\ calls'[i] = request)
  BY <1>9, <1>10
<1>16. Queue'
  <2>1. \A i \in 1..Len(calls) : calls[i].call # "GetDebugInfo" => calls[i].tap # tap
    BY <1>0 DEF Queue
  <2>2. ASSUME NEW i \in 1..Len(calls'), calls'[i].call # "GetDebugInfo"
        PROVE  /\ calls'[i].tap \in DOMAIN flows'
               /\ flows'[calls'[i].tap].pc = "waiting"
               /\ calls'[i] = flows'[calls'[i].tap].request
    BY <1>3, <1>7, <1>8, <1>10, <1>15, <2>1, <2>2 DEF Queue, Built
  <2>3. ASSUME NEW i \in 1..Len(calls'), NEW j \in 1..Len(calls'),
               calls'[i].call # "GetDebugInfo", calls'[j].call # "GetDebugInfo",
               calls'[i].tap = calls'[j].tap
        PROVE  i = j
    BY <1>3, <1>10, <1>15, <2>1, <2>3 DEF Queue
  <2>4. QED
    BY <2>2, <2>3 DEF Queue, Built
<1>17. InfoFirst'
  BY <1>0, <1>7, <1>8, <1>9, <1>10, <1>15 DEF InfoFirst, Taken
<1>18. Honest' /\ InfoWanted' /\ ClearedIsKept'
  BY <1>0 DEF Honest, InfoWanted, ClearedIsKept
<1>19. QED
  BY <1>11, <1>12, <1>13, <1>14, <1>16, <1>17, <1>18

-----------------------------------------------------------------------------
(* The engine. *)

\* A call that has run is gone; those behind it stay in their order.
LEMMA CallsGoOn ==
  ASSUME Types, calls # <<>>, calls' = Tail(calls)
  PROVE  /\ Head(calls) = calls[1] /\ calls[1] \in Calls
         /\ calls' \in Seq(Calls)
         /\ Len(calls) >= 1 /\ Len(calls') = Len(calls) - 1
         /\ \A i \in 1..Len(calls') : i + 1 \in 1..Len(calls) /\ calls'[i] = calls[i + 1]
<1>1. calls \in Seq(Calls)
  BY DEF Types
<1>2. QED
  BY <1>1, HeadTailProperties

LEMMA GetDebugInfoInv ==
  ASSUME IInv, Perform, Head(calls).call = "GetDebugInfo"
  PROVE  IInv'
<1> USE DEF IInv
<1>0. /\ calls # <<>> /\ calls' = Tail(calls)
      /\ UNCHANGED <<flows, tracker, refused, uploads, open, overlays, cleared, wish>>
      /\ form' = [form EXCEPT !.debug = Info] \/ form' = form
  BY DEF Perform, GetDebugInfo
<1>1. /\ Head(calls) = calls[1] /\ calls' \in Seq(Calls) /\ Len(calls) >= 1
      /\ Len(calls') = Len(calls) - 1
      /\ \A i \in 1..Len(calls') : i + 1 \in 1..Len(calls) /\ calls'[i] = calls[i + 1]
  BY <1>0, CallsGoOn
<1>2. Len(calls) \in Nat /\ 1 \in 1..Len(calls) /\ calls[1].call = "GetDebugInfo"
  BY <1>1 DEF Types
<1>3. open
  BY <1>2 DEF InfoFirst
<1>4. /\ form' \in [text : Texts, include : BOOLEAN, debug : Debug]
      /\ form'.text = form.text /\ form'.include = form.include
  BY <1>0 DEF Types, Debug
<1>5. Types'
  BY <1>0, <1>1, <1>4 DEF Types
<1>6. Requested' /\ Wanted' /\ Unchanged' /\ Delivered'
  BY <1>0, <1>4 DEF Requested, Wanted, Unchanged, Delivered, Built, Asked, Taken, Kept
<1>7. Queue'
  <2>1. ASSUME NEW i \in 1..Len(calls'), NEW j \in 1..Len(calls'), i + 1 = j + 1
        PROVE  i = j
    BY <1>1, <2>1
  <2>2. QED
    BY <1>0, <1>1, <2>1 DEF Queue, Built
<1>8. InfoFirst'
  <2>1. \A i \in 1..Len(calls') : i + 1 # 1
    BY <1>1
  <2>2. QED
    BY <1>1, <2>1 DEF InfoFirst
<1>9. Honest' /\ InfoWanted' /\ ClearedIsKept'
  BY <1>0, <1>3, <1>4 DEF Honest, InfoWanted, ClearedIsKept
<1>10. QED
  BY <1>5, <1>6, <1>7, <1>8, <1>9

\* A call ends well only if a server has taken the report, or refused it as a ticket, or
\* has only generated a link; what was uploaded was wanted.
LEMMA CreateAnswers ==
  ASSUME NEW request, Create(request), InfoWanted, wish \in BOOLEAN,
         request.debug = Info => wish
  PROVE  /\ form' = form
         /\ InfoWanted'
         /\ tracker \subseteq tracker' /\ refused \subseteq refused'
         /\ \E pc \in {"done", "failed"} :
              /\ flows' = To(request.tap, pc)
              /\ pc = "done" => flows[request.tap].genUrl \/ request.text \in Kept'
<1> DEFINE post(kind) == [kind |-> kind, text |-> request.text]
           Ends ==
             /\ tracker \subseteq tracker' /\ refused \subseteq refused'
             /\ \E pc \in {"done", "failed"} :
                  /\ flows' = To(request.tap, pc)
                  /\ pc = "done" => flows[request.tap].genUrl \/ request.text \in Kept'
<1>1. form' = form
  BY DEF Create
<1>2. InfoWanted'
  BY DEF Create, InfoWanted
<1> SUFFICES Ends
  BY <1>1, <1>2
<1>3. ASSUME NEW kind, post(kind) \in tracker'
      PROVE  request.text \in Kept'
  <2>1. post(kind).text = request.text
    OBVIOUS
  <2>2. QED
    BY <1>3, <2>1 DEF Kept
<1>4. CASE Reject(request.tap)
  BY <1>4 DEF Reject
<1>5. CASE CreateIssue(request)
  BY <1>3, <1>5 DEF CreateIssue, Reject
<1>6. CASE CreateTicket(request)
  <2>1. CASE Reject(request.tap)
    BY <2>1 DEF Reject
  <2>2. CASE \E pc \in {"done", "failed"} :
               /\ flows' = To(request.tap, pc)
               /\ tracker' = tracker \cup {post("ticket")} /\ UNCHANGED refused
    BY <1>3, <2>2
  <2>3. CASE /\ flows' = To(request.tap, "done")
             /\ refused' = refused \cup {request.text} /\ UNCHANGED tracker
    BY <2>3 DEF Kept
  <2>4. QED
    BY <1>6, <2>1, <2>2, <2>3 DEF CreateTicket
<1>7. QED
  <2>1. Reject(request.tap) \/ CreateIssue(request) \/ CreateTicket(request)
    BY DEF Create
  <2>2. QED
    BY <1>4, <1>5, <1>6, <2>1

LEMMA CreateInv ==
  ASSUME IInv, Perform, Head(calls).call # "GetDebugInfo"
  PROVE  IInv'
<1> USE DEF IInv
<1> DEFINE request == Head(calls)
           tap == request.tap
<1>0. /\ calls # <<>> /\ calls' = Tail(calls) /\ Create(request)
      /\ UNCHANGED <<open, overlays, cleared, wish>>
  BY DEF Perform
<1>1. /\ request = calls[1] /\ calls[1] \in Calls /\ calls' \in Seq(Calls)
      /\ Len(calls) >= 1 /\ Len(calls') = Len(calls) - 1
      /\ \A i \in 1..Len(calls') : i + 1 \in 1..Len(calls) /\ calls'[i] = calls[i + 1]
  BY <1>0, CallsGoOn
<1>2. Len(calls) \in Nat /\ 1 \in 1..Len(calls) /\ calls[1].call # "GetDebugInfo"
  BY <1>1 DEF Types
<1>3. tap \in DOMAIN flows /\ flows[tap].pc = "waiting" /\ request = Built(tap)
  BY <1>1, <1>2 DEF Queue
<1>4. request.call \in Kinds /\ request.call = flows[tap].call /\ (request.debug = Info => wish)
  BY <1>1, <1>2, <1>3 DEF Calls, Requests, Wanted, Asked, Requested
<1>5. /\ form' = form /\ InfoWanted'
      /\ tracker \subseteq tracker' /\ refused \subseteq refused'
      /\ \E pc \in {"done", "failed"} :
           /\ flows' = To(tap, pc)
           /\ pc = "done" => flows[tap].genUrl \/ request.text \in Kept'
  <2>1. wish \in BOOLEAN
    BY DEF Types
  <2>2. QED
    BY <1>0, <1>4, <2>1, CreateAnswers
<1> HIDE DEF tap, request
<1>6. PICK pc \in {"done", "failed"} :
        /\ flows' = To(tap, pc)
        /\ pc = "done" => flows[tap].genUrl \/ request.text \in Kept'
  BY <1>5
<1>7. pc \in Pcs
  BY <1>6 DEF Pcs
<1>8. /\ flows' \in Seq(FlowRecords) /\ Len(flows') = Len(flows)
      /\ DOMAIN flows' = DOMAIN flows /\ flows'[tap].pc = pc
      /\ \A t \in DOMAIN flows :
           /\ t # tap => flows'[t] = flows[t]
           /\ flows'[t].request = flows[t].request
           /\ flows'[t].call = flows[t].call
           /\ flows'[t].genUrl = flows[t].genUrl
  BY <1>3, <1>6, <1>7, FlowGoesOn
<1>9. Kept \subseteq Kept'
  BY <1>5 DEF Kept
<1>10. Types'
  BY <1>0, <1>1, <1>5, <1>8 DEF Types
<1>11. Requested'
  BY <1>3, <1>6, <1>8 DEF Requested, Built, Asked
<1>12. Wanted'
  BY <1>0, <1>6, <1>8 DEF Wanted, Built
<1>13. Unchanged'
  BY <1>3, <1>5, <1>8 DEF Unchanged, Built, Asked
<1>14. Delivered'
  BY <1>3, <1>6, <1>8, <1>9 DEF Delivered, Built, Taken
<1>15. \A i \in 1..Len(calls') : calls'[i].call # "GetDebugInfo"
  <2>1. \A i \in 1..Len(calls') :
          i + 1 \in 1..Len(calls) /\ i + 1 # 1 /\ calls'[i] = calls[i + 1]
    BY <1>1
  <2>2. QED
    BY <2>1 DEF InfoFirst
<1>16. Queue'
  <2>1. \A i \in 1..Len(calls') :
          i + 1 \in 1..Len(calls) /\ i + 1 # 1 /\ calls'[i] = calls[i + 1]
    BY <1>1
  <2>2. ASSUME NEW i \in 1..Len(calls'), NEW j \in 1..Len(calls'),
               calls'[i].tap = calls'[j].tap
        PROVE  i = j
    <3>1. calls[i + 1].tap = calls[j + 1].tap
      BY <2>1, <2>2
    <3>2. i + 1 = j + 1
      BY <1>15, <2>1, <3>1 DEF Queue
    <3>3. QED
      BY <1>1, <3>2
  <2>3. ASSUME NEW i \in 1..Len(calls')
        PROVE  /\ calls'[i].tap \in DOMAIN flows'
               /\ flows'[calls'[i].tap].pc = "waiting"
               /\ calls'[i] = flows'[calls'[i].tap].request
    <3>1. calls[i + 1].tap # tap
      BY <1>1, <1>2, <1>15, <2>1 DEF Queue, tap, request
    <3>2. QED
      BY <1>8, <1>15, <2>1, <3>1 DEF Queue, Built
  <2>4. QED
    BY <2>2, <2>3 DEF Queue, Built
<1>17. InfoFirst'
  BY <1>15 DEF InfoFirst
<1>18. Honest'
  BY <1>0, <1>5 DEF Honest
<1>19. ClearedIsKept'
  BY <1>0, <1>9 DEF ClearedIsKept, Kept
<1>20. QED
  BY <1>5, <1>10, <1>11, <1>12, <1>13, <1>14, <1>16, <1>17, <1>18, <1>19

-----------------------------------------------------------------------------
(* The ends of a flow. *)

\* A flow ends and the form stays, or the user is told first.
LEMMA StayInv ==
  ASSUME IInv, NEW tap \in DOMAIN flows, NEW pc \in {"ended", "telling"},
         flows' = To(tap, pc), pc = "telling" => flows[tap].pc = "done" /\ ~flows[tap].genUrl,
         flows[tap].pc \in {"done", "failed"}, Stay,
         UNCHANGED <<calls, tracker, refused, wish, uploads>>
  PROVE  IInv'
<1> USE DEF IInv, Stay
<1>1. pc \in Pcs
  BY DEF Pcs
<1>2. /\ flows' \in Seq(FlowRecords) /\ Len(flows') = Len(flows)
      /\ DOMAIN flows' = DOMAIN flows /\ flows'[tap].pc = pc
      /\ \A t \in DOMAIN flows :
           /\ t # tap => flows'[t] = flows[t]
           /\ flows'[t].request = flows[t].request
           /\ flows'[t].call = flows[t].call
           /\ flows'[t].genUrl = flows[t].genUrl
  BY <1>1, FlowGoesOn
<1>3. Types'
  BY <1>2 DEF Types
<1>4. Requested' /\ Wanted' /\ Unchanged'
  BY <1>2 DEF Requested, Wanted, Unchanged, Built, Asked
<1>5. Delivered'
  BY <1>2 DEF Delivered, Built, Taken, Kept
<1>6. Queue'
  BY <1>2 DEF Queue, Built
<1>7. InfoFirst'
  BY <1>2 DEF InfoFirst, Taken
<1>8. Honest' /\ InfoWanted' /\ ClearedIsKept'
  BY DEF Honest, InfoWanted, ClearedIsKept
<1>9. QED
  BY <1>3, <1>4, <1>5, <1>6, <1>7, <1>8

\* The page is left only by a flow whose report is kept, and the form holds that report,
\* or nothing any more.
LEMMA LeaveInv ==
  ASSUME IInv, NEW tap \in DOMAIN flows, flows' = To(tap, "ended"), Taken(tap), Leave,
         UNCHANGED <<calls, refused, wish, uploads>>, tracker \subseteq tracker',
         Built(tap).text \in Kept'
  PROVE  IInv'
<1> USE DEF IInv
<1>1. "ended" \in Pcs
  BY DEF Pcs
<1>2. /\ flows' \in Seq(FlowRecords) /\ Len(flows') = Len(flows)
      /\ DOMAIN flows' = DOMAIN flows /\ flows'[tap].pc = "ended"
      /\ \A t \in DOMAIN flows :
           /\ t # tap => flows'[t] = flows[t]
           /\ flows'[t].request = flows[t].request
           /\ flows'[t].call = flows[t].call
           /\ flows'[t].genUrl = flows[t].genUrl
  BY <1>1, FlowGoesOn
<1>3. /\ form' \in [text : Texts, include : BOOLEAN, debug : Debug]
      /\ form'.text = None /\ form'.debug = None /\ open' = FALSE
      /\ cleared' = cleared \cup ({form.text} \ {None})
  BY DEF Leave, Texts, Debug
<1>4. Kept \subseteq Kept'
  BY DEF Kept
<1>5. Types'
  BY <1>2, <1>3 DEF Types
<1>6. Requested' /\ Wanted' /\ Unchanged'
  BY <1>2, <1>3 DEF Requested, Wanted, Unchanged, Built, Asked
<1>7. Delivered'
  BY <1>2, <1>4 DEF Delivered, Built, Taken
<1>8. Queue'
  BY <1>2 DEF Queue, Built, Taken
<1>9. InfoFirst'
  <2>1. calls' = calls /\ \A i \in 1..Len(calls) : calls[i].call # "GetDebugInfo"
    BY DEF InfoFirst
  <2>2. QED
    BY <2>1 DEF InfoFirst
<1>10. Honest' /\ InfoWanted'
  BY <1>3 DEF Honest, InfoWanted
<1>11. ClearedIsKept'
  <2>1. form.text = None \/ form.text \in Kept'
    BY DEF Unchanged, Asked, Taken
  <2>2. cleared \subseteq Kept'
    BY <1>4 DEF ClearedIsKept, Kept
  <2>3. cleared' \subseteq Kept'
    BY <1>3, <2>1, <2>2
  <2>4. QED
    BY <2>3 DEF ClearedIsKept, Kept
<1>12. QED
  BY <1>5, <1>6, <1>7, <1>8, <1>9, <1>10, <1>11

LEMMA FlowInv ==
  ASSUME IInv, NEW tap \in DOMAIN flows, Flow(tap)
  PROVE  IInv'
<1>1. CASE Present(tap)
  BY <1>1, PresentInv
<1>2. CASE Submit(tap)
  BY <1>2, SubmitInv
<1>3. CASE Fail(tap)
  BY <1>3, StayInv DEF Fail
<1>4. CASE TicketCreated(tap)
  <2>1. Taken(tap) /\ ~flows[tap].genUrl /\ tracker' = tracker /\ refused' = refused
    BY <1>4 DEF TicketCreated, Taken, IInv, Requested
  <2>2. Built(tap).text \in Kept'
    BY <2>1 DEF IInv, Delivered, Kept
  <2>3. QED
    BY <1>4, <2>1, <2>2, LeaveInv DEF TicketCreated
<1>5. CASE OpenLink(tap)
  <2> DEFINE link == [kind |-> "link", text |-> flows[tap].request.text]
  <2>1. CASE Leave /\ tracker' = tracker \cup {link}
    <3>1. link.text = Built(tap).text /\ link \in tracker' /\ tracker \subseteq tracker'
      BY <2>1 DEF Built
    <3> HIDE DEF link
    <3>2. Built(tap).text \in Kept' /\ Taken(tap)
      BY <1>5, <3>1 DEF Kept, OpenLink, Taken
    <3>3. QED
      BY <1>5, <2>1, <3>1, <3>2, LeaveInv DEF OpenLink
  <2>2. CASE Stay /\ UNCHANGED tracker
    BY <1>5, <2>2, StayInv DEF OpenLink
  <2>3. QED
    BY <1>5, <2>1, <2>2 DEF OpenLink
<1>6. CASE ShowLink(tap)
  BY <1>6, StayInv DEF ShowLink
<1>7. QED
  BY <1>1, <1>2, <1>3, <1>4, <1>5, <1>6 DEF Flow

LEMMA ToldInv ==
  ASSUME IInv, NEW tap \in DOMAIN flows, Told(tap)
  PROVE  IInv'
<1>1. Taken(tap) /\ ~flows[tap].genUrl /\ tracker' = tracker /\ refused' = refused
  BY DEF Told, Taken, IInv, Requested
<1>2. Built(tap).text \in Kept'
  BY <1>1 DEF IInv, Delivered, Kept
<1>3. QED
  BY <1>1, <1>2, LeaveInv DEF Told

-----------------------------------------------------------------------------
LEMMA StepInv == IInv /\ [Next]_vars => IInv'
<1> SUFFICES ASSUME IInv, [Next]_vars PROVE IInv'
  OBVIOUS
<1>1. CASE Write
  BY <1>1, WriteInv
<1>2. CASE Tap
  BY <1>2, TapInv
<1>3. CASE Perform
  BY <1>3, GetDebugInfoInv, CreateInv
<1>4. ASSUME NEW tap \in DOMAIN flows, Flow(tap) PROVE IInv'
  BY <1>4, FlowInv
<1>5. ASSUME NEW tap \in DOMAIN flows, Select(tap) PROVE IInv'
  BY <1>5, SelectInv
<1>6. ASSUME NEW tap \in DOMAIN flows, Told(tap) PROVE IInv'
  BY <1>6, ToldInv
<1>7. CASE UNCHANGED vars
  <2> USE <1>7 DEF vars, IInv
  <2>1. Types' /\ Requested' /\ Queue' /\ InfoFirst'
    BY DEF Types, Requested, Queue, InfoFirst, Built, Asked, Taken
  <2>2. Honest' /\ Wanted' /\ InfoWanted'
    BY DEF Honest, Wanted, InfoWanted, Built
  <2>3. Unchanged' /\ Delivered' /\ ClearedIsKept'
    BY DEF Unchanged, Delivered, ClearedIsKept, Built, Asked, Taken, Kept
  <2>4. QED
    BY <2>1, <2>2, <2>3
<1>8. QED
  BY <1>1, <1>2, <1>3, <1>4, <1>5, <1>6, <1>7 DEF Next, System

\* The report page, with the flows that its buttons have started, keeps the invariant:
\* requests, queued calls, form and what was taken agree in every reachable state.
THEOREM ReportInvariant == Spec => []IInv
<1>1. QED
  BY InitInv, StepInv, PTL DEF Spec

\* resetForm never clears a report that neither the tracker, nor the browser, nor a
\* server that refused it, has got, whatever two flows and the user do in between.
THEOREM NoReportLost == Spec => []ClearedIsKept
<1>1. IInv => ClearedIsKept
  BY DEF IInv
<1>2. QED
  BY <1>1, ReportInvariant, PTL

\* CreateIssue and CreateTicket upload debug info only while the user wants it to be
\* included: the form that a first report has cleared has none for a second one.
THEOREM NoInfoUnwanted == Spec => []InfoWanted
<1>1. IInv => InfoWanted
  BY DEF IInv
<1>2. QED
  BY <1>1, ReportInvariant, PTL

-----------------------------------------------------------------------------
(* No flow waits for a call that nobody makes. *)

\* The call of every flow that waits is in the queue.  A call is found by its request:
\* two flows may wait with requests that are alike but for their taps.
CallsAreMade ==
  \A tap \in DOMAIN flows :
    flows[tap].pc = "waiting" => \E i \in 1..Len(calls) : calls[i] = Built(tap)

\* A flow that starts to wait adds its request to the calls.
LEMMA SubmitMakesCall ==
  ASSUME IInv, CallsAreMade, NEW tap \in DOMAIN flows, Submit(tap)
  PROVE  CallsAreMade'
<1> DEFINE request == flows'[tap].request
<1>1. /\ calls' = Append(calls, request) /\ DOMAIN flows' = DOMAIN flows
      /\ \A t \in DOMAIN flows : t # tap => flows'[t] = flows[t]
  BY DEF Submit
<1> HIDE DEF request
<1>2. calls \in Seq(Calls)
  BY DEF IInv, Types
<1>3. /\ Len(calls') = Len(calls) + 1 /\ Len(calls) \in Nat /\ calls'[Len(calls')] = request
      /\ \A i \in 1..Len(calls) : calls'[i] = calls[i]
  BY <1>1, <1>2
<1>4. /\ Len(calls') \in 1..Len(calls')
      /\ \A i \in 1..Len(calls) : i \in 1..Len(calls')
  BY <1>3
<1>5. ASSUME NEW t \in DOMAIN flows, t # tap, flows'[t].pc = "waiting"
      PROVE  \E i \in 1..Len(calls') : calls'[i] = flows'[t].request
  BY <1>1, <1>3, <1>4, <1>5 DEF CallsAreMade, Built
<1>6. \E i \in 1..Len(calls') : calls'[i] = flows'[tap].request
  BY <1>3, <1>4 DEF request
<1>7. QED
  BY <1>1, <1>5, <1>6 DEF CallsAreMade, Built

\* A call that has run answers its own flow, whether it went well or not.
LEMMA PerformAnswers ==
  ASSUME IInv, CallsAreMade, Perform
  PROVE  CallsAreMade'
<1>0. calls # <<>> /\ calls' = Tail(calls) /\ Types /\ Queue /\ InfoWanted /\ wish \in BOOLEAN
  BY DEF Perform, IInv, Types
<1>1. /\ Head(calls) = calls[1] /\ calls[1] \in Calls
      /\ Len(calls) >= 1 /\ Len(calls') = Len(calls) - 1
      /\ \A i \in 1..Len(calls') : i + 1 \in 1..Len(calls) /\ calls'[i] = calls[i + 1]
  BY <1>0, CallsGoOn
<1>2. Len(calls) \in Nat /\ 1 \in 1..Len(calls)
  BY <1>0, <1>1 DEF Types
<1>3. \A i \in 1..Len(calls) : i = 1 \/ \E j \in 1..Len(calls') : calls'[j] = calls[i]
  <2>1. ASSUME NEW i \in 1..Len(calls), i # 1
        PROVE  i - 1 \in 1..Len(calls') /\ (i - 1) + 1 = i
    BY <1>1, <1>2, <2>1
  <2>2. QED
    BY <1>1, <2>1
<1>4. CASE Head(calls).call = "GetDebugInfo"
  <2>1. flows' = flows
    BY <1>4 DEF Perform, GetDebugInfo
  <2>2. ASSUME NEW t \in DOMAIN flows, flows[t].pc = "waiting"
        PROVE  \E j \in 1..Len(calls') : calls'[j] = flows[t].request
    <3>1. PICK i \in 1..Len(calls) : calls[i] = flows[t].request
      BY <2>2 DEF CallsAreMade, Built
    <3>2. flows[t].request \in Requests
      BY <2>2 DEF IInv, Requested, Asked, Built
    <3>3. i # 1
      BY <1>1, <1>4, <3>1, <3>2 DEF Requests, Kinds
    <3>4. QED
      BY <1>3, <3>1, <3>3
  <2>3. QED
    BY <2>1, <2>2 DEF CallsAreMade, Built
<1>5. CASE Head(calls).call # "GetDebugInfo"
  <2> DEFINE request == Head(calls)
             tap == request.tap
  <2>1. tap \in DOMAIN flows /\ request = Built(tap) /\ Create(request)
    BY <1>0, <1>1, <1>2, <1>5 DEF Queue, Perform
  <2>2. request.debug = Info => wish
    BY <1>1, <1>2, <1>5, <2>1 DEF IInv, Wanted, Queue
  <2>3. \E pc \in {"done", "failed"} : flows' = To(tap, pc)
    BY <1>0, <2>1, <2>2, CreateAnswers
  <2> HIDE DEF request, tap
  <2>4. PICK pc \in {"done", "failed"} : flows' = To(tap, pc)
    BY <2>3
  <2>5. pc \in Pcs /\ pc # "waiting"
    BY <2>4 DEF Pcs
  <2>6. /\ DOMAIN flows' = DOMAIN flows /\ flows'[tap].pc = pc
        /\ \A t \in DOMAIN flows : t # tap => flows'[t] = flows[t]
    BY <1>0, <2>1, <2>4, <2>5, FlowGoesOn
  <2>7. ASSUME NEW t \in DOMAIN flows, flows'[t].pc = "waiting"
        PROVE  \E j \in 1..Len(calls') : calls'[j] = flows'[t].request
    <3>1. t # tap /\ flows'[t] = flows[t]
      BY <2>5, <2>6, <2>7
    <3>2. PICK i \in 1..Len(calls) : calls[i] = flows[t].request
      BY <2>7, <3>1 DEF CallsAreMade, Built
    <3>3. flows[t].request.tap = t
      BY <2>7, <3>1 DEF IInv, Requested, Asked, Built
    <3>4. i # 1
      BY <1>1, <3>1, <3>2, <3>3 DEF request, tap
    <3>5. QED
      BY <1>3, <3>1, <3>2, <3>4
  <2>8. QED
    BY <2>6, <2>7 DEF CallsAreMade, Built
<1>6. QED
  BY <1>4, <1>5

\* No other step has a flow begin to wait, or takes a call.
LEMMA OthersWait ==
  ASSUME IInv, CallsAreMade, calls' = calls,
         \/ flows' = flows
         \/ Tap
         \/ \E tap \in DOMAIN flows, pc \in Pcs \ {"waiting"} : flows' = To(tap, pc)
         \/ \E tap \in DOMAIN flows : Select(tap)
  PROVE  CallsAreMade'
<1>0. Types
  BY DEF IInv
<1> DEFINE Others ==
             \A t \in DOMAIN flows' :
               flows'[t].pc = "waiting" => t \in DOMAIN flows /\ flows'[t] = flows[t]
<1>1. ASSUME flows' = flows
      PROVE  Others
  BY <1>1
<1>2. ASSUME NEW tap \in DOMAIN flows, NEW pc \in Pcs \ {"waiting"}, flows' = To(tap, pc)
      PROVE  Others
  BY <1>0, <1>2, FlowGoesOn
<1>3. ASSUME Tap
      PROVE  Others
  <2>1. PICK flow : flows' = Append(flows, flow) /\ flow.pc = "opening"
    BY <1>3 DEF Tap
  <2>2. flows \in Seq(FlowRecords)
    BY <1>0 DEF Types
  <2>3. \A t \in DOMAIN flows' :
          \/ t \in DOMAIN flows /\ flows'[t] = flows[t]
          \/ flows'[t] = flow
    BY <2>1, <2>2
  <2>4. QED
    BY <2>1, <2>3
<1>4. ASSUME NEW tap \in DOMAIN flows, Select(tap)
      PROVE  Others
  <2>1. CASE flows' = To(tap, "ended")
    BY <1>2, <2>1 DEF Pcs
  <2>2. CASE \E genUrl : flows' = [flows EXCEPT ![tap] =
               [pc |-> "loading", call |-> @.call, genUrl |-> genUrl, request |-> Request(tap)]]
    BY <2>2
  <2>3. QED
    BY <1>4, <2>1, <2>2 DEF Select
<1> HIDE DEF Others
<1>5. Others
  BY <1>1, <1>2, <1>3, <1>4
<1> USE DEF Others
<1>6. QED
  BY <1>5 DEF CallsAreMade, Built

\* Every step leaves a call for each flow that waits.
LEMMA CallsStep ==
  ASSUME IInv, CallsAreMade, [Next]_vars
  PROVE  CallsAreMade'
<1>1. CASE Perform
  BY <1>1, PerformAnswers
<1>2. ASSUME NEW tap \in DOMAIN flows, Flow(tap)
      PROVE  CallsAreMade'
  <2>1. CASE Submit(tap)
    BY <2>1, SubmitMakesCall
  <2>2. CASE ~Submit(tap)
    <3>1. calls' = calls /\ \E pc \in {"asking", "telling", "ended"} : flows' = To(tap, pc)
      BY <1>2, <2>2 DEF Flow, Present, Fail, TicketCreated, OpenLink, ShowLink
    <3>2. {"asking", "telling", "ended"} \subseteq Pcs \ {"waiting"}
      BY DEF Pcs
    <3>3. QED
      BY <3>1, <3>2, OthersWait
  <2>3. QED
    BY <2>1, <2>2
<1>3. ASSUME NEW tap \in DOMAIN flows, Told(tap)
      PROVE  CallsAreMade'
  <2>1. "ended" \in Pcs \ {"waiting"} /\ calls' = calls /\ flows' = To(tap, "ended")
    BY <1>3 DEF Told, Pcs
  <2>2. QED
    BY <2>1, OthersWait
<1>4. ASSUME NEW tap \in DOMAIN flows, Select(tap)
      PROVE  CallsAreMade'
  <2>1. calls' = calls
    BY <1>4 DEF Select
  <2>2. QED
    BY <1>4, <2>1, OthersWait
<1>5. CASE Write \/ Tap \/ UNCHANGED vars
  <2>1. calls' = calls /\ (flows' = flows \/ Tap)
    BY <1>5 DEF Write, Tap, vars
  <2>2. QED
    BY <2>1, OthersWait
<1>6. QED
  BY <1>1, <1>2, <1>3, <1>4, <1>5 DEF Next, System

\* No flow waits for ever for want of a call: the request of each one that waits is in
\* the queue of the plugin calls, of which the first one answers its own flow and leaves
\* the others where they are, whatever becomes of the page.  SpinnerGoes adds that the
\* queue is worked off.
THEOREM NoFlowStranded == Spec => []CallsAreMade
<1>1. Init => CallsAreMade
  BY DEF Init, CallsAreMade
<1>2. IInv /\ CallsAreMade /\ [Next]_vars => CallsAreMade'
  BY CallsStep
<1>3. QED
  BY <1>1, <1>2, ReportInvariant, PTL DEF Spec
=============================================================================
