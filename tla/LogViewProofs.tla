---------------------------- MODULE LogViewProofs ----------------------------
(***************************************************************************)
(* Proofs about LogView, for buffers and bounds of any size and any number *)
(* of views.  What a view shows depends on the shape of the buffer (Window)*)
(* and on what the calls that are under way have asked for (Pending).      *)
(***************************************************************************)
EXTENDS LogView, SequenceTheorems, TLAPS

\* The buffer holds the last lines that were logged, and always one after the first.
Window ==
  /\ logCounter # 0 => LogBuffer # <<>>
  /\ Len(LogBuffer) <= logCounter
  /\ \A i \in 1..Len(LogBuffer) : LogBuffer[i] = logCounter - Len(LogBuffer) + i

\* The shape of an answer to a call for the lines after id.
Answer(id, got) ==
  /\ got \in Seq(Nat)
  /\ Len(got) <= logCounter
  /\ \A i \in 1..Len(got) : got[i] = logCounter - Len(got) + i
  /\ \A i \in 1..Len(got) : got[i] > id
  /\ got # <<>> => got[1] = id + 1 \/ got[1] = LogBuffer[1]

\* A call asks for the lines after one that the view has shown; without an overlap it
\* is the only one, and asks for those after the last.
Pending(v) ==
  /\ \A k \in 1..Len(calls[v]) : calls[v][k] <= LastShown(v)
  /\ v \notin overlapped =>
       /\ Len(calls[v]) <= 1
       /\ Len(calls[v]) = 1 => calls[v][1] = LastShown(v)

\* A view that has shown nothing has made one call, and its interval is not set.
Fresh(v) ==
  phase[v] \in {"new", "opening", "left"} =>
    /\ lines[v] = Nil
    /\ v \notin timer
    /\ calls[v] = (IF phase[v] = "new" THEN <<>> ELSE <<0>>)

Logged(v)  == \A i \in 1..Len(Shown(v)) : Shown(v)[i] <= logCounter
Ordered(v) == \A i, j \in 1..Len(Shown(v)) : i < j => Shown(v)[i] < Shown(v)[j]
NoGap(v) ==
  \A i \in 1..(Len(Shown(v)) - 1) :
    Shown(v)[i] + 1 < Shown(v)[i + 1] => Shown(v)[i + 1] <= LogBuffer[1]

ViewInv(v) ==
  Pending(v) /\ Fresh(v) /\ Logged(v) /\ NoGap(v) /\ (v \notin overlapped => Ordered(v))

IInv == TypeOK /\ Window /\ \A v \in Views : ViewInv(v)

-----------------------------------------------------------------------------
(* GetAllLogsAfterID. *)

\* The lines after a line that has been logged, or all there are, if there is any.
LEMMA AnswerShape ==
  ASSUME TypeOK, Window, NEW id \in Nat, id <= logCounter
  PROVE  /\ LogBuffer = <<>> => GetAllLogsAfterID(id) = Nil
         /\ LogBuffer # <<>> => Answer(id, GetAllLogsAfterID(id))
<1> DEFINE got == GetAllLogsAfterID(id)
           first == LogBuffer[1]
<1>0. LogBuffer \in Seq(Nat) /\ logCounter \in Nat /\ Len(LogBuffer) \in Nat
  BY DEF TypeOK
<1>1. CASE LogBuffer = <<>>
  BY <1>1 DEF GetAllLogsAfterID
<1>2. CASE LogBuffer # <<>> /\ id + 1 <= first
  <2>1. got = LogBuffer
    BY <1>2 DEF GetAllLogsAfterID
  <2>2. Len(LogBuffer) >= 1 /\ first = logCounter - Len(LogBuffer) + 1
    BY <1>0, <1>2 DEF Window
  <2>3. QED
    BY <1>0, <1>2, <2>1, <2>2 DEF Answer, Window
<1>3. CASE LogBuffer # <<>> /\ ~(id + 1 <= first)
  <2> DEFINE m == id + 1 - first + 1
             n == Len(LogBuffer)
  <2>1. n >= 1 /\ first = logCounter - n + 1 /\ first \in Nat
    BY <1>0, <1>3 DEF Window
  <2>2. m \in Nat /\ m >= 2 /\ m <= n + 1 /\ got = SubSeq(LogBuffer, m, n)
    BY <1>0, <1>3, <2>1 DEF GetAllLogsAfterID
  <2>3. \A i \in m..n : LogBuffer[i] \in Nat
    <3>1. m \in Nat /\ m >= 2 /\ LogBuffer \in Seq(Nat)
      BY <1>0, <2>2
    <3> HIDE DEF m
    <3>2. QED
      BY <3>1
  <2> HIDE DEF m, n, got
  <2>4. /\ got \in Seq(Nat)
        /\ Len(got) = IF m <= n THEN n - m + 1 ELSE 0
        /\ \A i \in 1..(n - m + 1) : got[i] = LogBuffer[m + i - 1]
    BY <1>0, <2>1, <2>2, <2>3, SubSeqProperties DEF n
  <2>5. Len(got) = n - m + 1
    BY <1>0, <2>1, <2>2, <2>4 DEF n
  <2>6. \A i \in 1..Len(got) : got[i] = id + i
    <3> SUFFICES ASSUME NEW i \in 1..Len(got) PROVE got[i] = id + i
      OBVIOUS
    <3>1. m + i - 1 \in 1..n /\ got[i] = LogBuffer[m + i - 1]
      BY <1>0, <2>1, <2>2, <2>4, <2>5 DEF n
    <3>2. got[i] = logCounter - n + (m + i - 1)
      BY <3>1 DEF Window, n
    <3>3. QED
      BY <1>0, <2>1, <3>2 DEF m, n
  <2>7. Len(got) = logCounter - id
    BY <1>0, <2>1, <2>5 DEF m, n
  <2>8. got # <<>> => Len(got) >= 1
    BY <2>4
  <2>9. /\ Len(got) <= logCounter
        /\ \A i \in 1..Len(got) : got[i] = logCounter - Len(got) + i /\ got[i] > id
        /\ got # <<>> => got[1] = id + 1
    BY <1>0, <2>6, <2>7, <2>8
  <2>10. Answer(id, got)
    BY <2>4, <2>9 DEF Answer
  <2>11. QED
    BY <1>3, <2>10 DEF got
<1>4. QED
  BY <1>1, <1>2, <1>3

-----------------------------------------------------------------------------
(* The views. *)

LEMMA ShownType ==
  ASSUME TypeOK, NEW v \in Views
  PROVE  Shown(v) \in Seq(Nat)
  BY DEF TypeOK, Shown

LEMMA LastLogged ==
  ASSUME TypeOK, NEW v \in Views, Logged(v)
  PROVE  LastShown(v) \in Nat /\ LastShown(v) <= logCounter
<1>1. Shown(v) \in Seq(Nat) /\ logCounter \in Nat
  BY ShownType DEF TypeOK
<1>2. QED
  BY <1>1 DEF Logged, LastShown

\* A view that does nothing keeps what holds of it: the log grows, and the oldest line
\* that is kept becomes no older.
LEMMA ViewStable ==
  ASSUME TypeOK, TypeOK', Window, NEW v \in Views, ViewInv(v),
         lines'[v] = lines[v], calls'[v] = calls[v], phase'[v] = phase[v],
         v \in timer' <=> v \in timer, v \in overlapped' <=> v \in overlapped,
         logCounter <= logCounter',
         LogBuffer # <<>> => LogBuffer' # <<>> /\ LogBuffer[1] <= LogBuffer'[1]
  PROVE  ViewInv(v)'
<1>0. Shown(v) \in Seq(Nat) /\ logCounter \in Nat /\ logCounter' \in Nat
  BY ShownType DEF TypeOK
<1> DEFINE shown == Shown(v)'
<1>7. shown = Shown(v)
  BY DEF Shown
<1>1. Pending(v)'
  BY <1>7 DEF ViewInv, Pending, LastShown
<1>2. Fresh(v)'
  BY DEF ViewInv, Fresh
<1>3. Logged(v)'
  BY <1>0, <1>7 DEF ViewInv, Logged
<1>4. NoGap(v)'
  <2> SUFFICES ASSUME NEW i \in 1..(Len(Shown(v)) - 1), Shown(v)[i] + 1 < Shown(v)[i + 1]
               PROVE  Shown(v)[i + 1] <= LogBuffer'[1]
    BY <1>7 DEF NoGap
  <2>1. Shown(v)[i] \in Nat /\ Shown(v)[i + 1] \in Nat /\ Shown(v)[i + 1] <= logCounter
    <3>1. i \in 1..Len(Shown(v)) /\ i + 1 \in 1..Len(Shown(v))
      BY <1>0
    <3>2. Shown(v)[i] \in Nat /\ Shown(v)[i + 1] \in Nat
      BY <1>0, <3>1
    <3>3. Shown(v)[i + 1] <= logCounter
      BY <3>1 DEF ViewInv, Logged
    <3>4. QED
      BY <3>2, <3>3
  <2>2. LogBuffer # <<>> /\ Shown(v)[i + 1] <= LogBuffer[1]
    <3>1. logCounter # 0
      BY <1>0, <2>1
    <3>2. QED
      BY <3>1 DEF ViewInv, NoGap, Window
  <2>3. LogBuffer[1] \in Nat
    BY <2>2 DEF TypeOK
  <2>4. LogBuffer' # <<>> /\ LogBuffer'[1] \in Nat
    <3>1. LogBuffer' \in Seq(Nat) /\ LogBuffer' # <<>>
      BY <2>2 DEF TypeOK
    <3>2. Len(LogBuffer') >= 1
      BY <3>1
    <3>3. QED
      BY <3>1, <3>2
  <2>5. QED
    BY <2>1, <2>2, <2>3, <2>4
<1>5. v \notin overlapped' => Ordered(v)'
  BY <1>7 DEF ViewInv, Ordered
<1>8. QED
  BY <1>1, <1>2, <1>3, <1>4, <1>5 DEF ViewInv

\* An answer for the lines after id is appended to what a view shows, which is old and
\* ends with last; count lines have been logged, and first is the oldest one kept.
Appends(old, got, all, count, first, id, last) ==
  /\ all = old \o got
  /\ old = <<>> => last = 0
  /\ old # <<>> => last = old[Len(old)]
  /\ id <= last /\ last <= count
  /\ \A i \in 1..Len(old) : old[i] <= count
  /\ \A i \in 1..(Len(old) - 1) : old[i] + 1 < old[i + 1] => old[i + 1] <= first
  /\ Len(got) <= count
  /\ \A i \in 1..Len(got) : got[i] = count - Len(got) + i
  /\ \A i \in 1..Len(got) : got[i] > id
  /\ got # <<>> => got[1] = id + 1 \/ got[1] = first

\* What is shown then: it is in order if the call asked for the lines after the last
\* one, and has no gap the buffer could fill.
Appended(old, all, count, first, id, last) ==
  /\ all \in Seq(Nat)
  /\ \A i \in 1..Len(all) : all[i] <= count
  /\ \A i \in 1..(Len(all) - 1) : all[i] + 1 < all[i + 1] => all[i + 1] <= first
  /\ all = <<>> => last = 0
  /\ all # <<>> => all[Len(all)] >= last
  /\ (\A i, j \in 1..Len(old) : i < j => old[i] < old[j]) /\ id = last =>
       \A i, j \in 1..Len(all) : i < j => all[i] < all[j]

LEMMA Extended ==
  ASSUME NEW old \in Seq(Nat), NEW got \in Seq(Nat), NEW all, NEW count \in Nat, NEW first,
         NEW id \in Nat, NEW last \in Nat, Appends(old, got, all, count, first, id, last)
  PROVE  Appended(old, all, count, first, id, last)
<1> USE DEF Appends
<1>1. PICK m \in Nat, n \in Nat : m = Len(old) /\ n = Len(got)
  OBVIOUS
<1>2. /\ all \in Seq(Nat)
      /\ Len(all) = m + n
      /\ \A i \in 1..m : all[i] = old[i]
      /\ \A i \in (m + 1)..(m + n) : all[i] = got[i - m]
  BY <1>1, ConcatProperties
<1>3. \A i \in 1..(m + n) : all[i] \in Nat
  BY <1>1, <1>2
<1>4. \A i \in (m + 1)..(m + n) : all[i] = count - n + (i - m) /\ all[i] > id
  <2> SUFFICES ASSUME NEW i \in (m + 1)..(m + n)
               PROVE  all[i] = count - n + (i - m) /\ all[i] > id
    OBVIOUS
  <2>1. i - m \in 1..n /\ all[i] = got[i - m]
    BY <1>1, <1>2
  <2>2. QED
    BY <1>1, <2>1
<1>5. m >= 1 => last = all[m]
  BY <1>1, <1>2
<1>6. m = 0 => last = 0
  BY <1>1, EmptySeq
<1>7. n <= count
  BY <1>1
<1>8. ASSUME NEW i \in 1..(m + n) PROVE all[i] <= count
  <2>1. CASE i <= m
    <3>1. i \in 1..m
      BY <1>1, <2>1
    <3>2. QED
      BY <1>1, <1>2, <3>1
  <2>2. CASE i > m
    <3>1. i \in (m + 1)..(m + n)
      BY <1>1, <2>2
    <3>2. all[i] = count - n + (i - m)
      BY <1>1, <1>4, <3>1
    <3>3. QED
      BY <1>1, <1>7, <3>1, <3>2
  <2>3. QED
    BY <1>1, <2>1, <2>2
<1>9. ASSUME NEW i \in 1..(m + n - 1), all[i] + 1 < all[i + 1]
      PROVE  all[i + 1] <= first
  <2>1. CASE i + 1 <= m
    <3>1. i \in 1..(m - 1) /\ i \in 1..m /\ i + 1 \in 1..m
      BY <1>1, <2>1
    <3>2. all[i] = old[i] /\ all[i + 1] = old[i + 1]
      BY <1>2, <3>1
    <3>3. QED
      BY <1>1, <1>9, <3>1, <3>2
  <2>2. CASE i = m
    <3>1. m >= 1 /\ n >= 1 /\ m + 1 \in (m + 1)..(m + n) /\ m + 1 - m = 1
      BY <1>1, <2>2
    <3>2. got # <<>> /\ all[m + 1] = got[1] /\ got[1] \in Nat
      BY <1>1, <1>2, <3>1
    <3>3. all[m] = last
      BY <1>5, <3>1
    <3>4. last + 1 < got[1]
      BY <1>9, <2>2, <3>2, <3>3
    <3>5. got[1] # id + 1
      BY <3>2, <3>4
    <3>6. got[1] = first
      BY <3>2, <3>5
    <3>7. QED
      BY <2>2, <3>2, <3>6
  <2>3. CASE i > m
    <3>1. i \in (m + 1)..(m + n) /\ i + 1 \in (m + 1)..(m + n)
      BY <1>1, <2>3
    <3>2. all[i] = count - n + (i - m)
      BY <1>1, <1>4, <3>1
    <3>3. all[i + 1] = count - n + ((i + 1) - m)
      BY <1>1, <1>4, <3>1
    <3>4. QED
      BY <1>1, <1>9, <3>1, <3>2, <3>3
  <2>4. QED
    BY <1>1, <2>1, <2>2, <2>3
<1>10. all = <<>> => last = 0
  BY <1>1, <1>2, <1>6
<1>11. all # <<>> => all[Len(all)] >= last
  <2>1. CASE n = 0
    BY <1>1, <1>2, <1>5, <2>1
  <2>2. CASE n # 0
    <3>1. m + n \in (m + 1)..(m + n)
      BY <1>1, <2>2
    <3>2. all[m + n] = count - n + (m + n - m)
      BY <1>1, <1>4, <3>1
    <3>3. QED
      BY <1>1, <1>2, <1>7, <3>2
  <2>3. QED
    BY <2>1, <2>2
<1> HIDE DEF Appends
<1>12. ASSUME \A i, j \in 1..Len(old) : i < j => old[i] < old[j], id = last,
              NEW i \in 1..(m + n), NEW j \in 1..(m + n), i < j
       PROVE  all[i] < all[j]
  <2>1. CASE j <= m
    <3>1. i \in 1..m /\ j \in 1..m
      BY <1>1, <1>12, <2>1
    <3>2. QED
      BY <1>1, <1>2, <1>12, <3>1
  <2>2. CASE i <= m /\ j > m
    <3>1. i \in 1..m /\ m \in 1..m /\ j \in (m + 1)..(m + n)
      BY <1>1, <2>2
    <3>2. all[i] \in Nat /\ all[m] \in Nat /\ all[i] <= all[m]
      <4>1. all[i] = old[i] /\ all[m] = old[m]
        BY <1>2, <3>1
      <4>2. all[i] \in Nat /\ all[m] \in Nat
        BY <1>3, <3>1
      <4>3. i < m => old[i] < old[m]
        BY <1>1, <1>12, <3>1
      <4>4. i < m \/ i = m
        BY <3>1
      <4>5. QED
        BY <4>1, <4>2, <4>3, <4>4
    <3>3. all[j] \in Nat /\ all[j] > last /\ last = all[m]
      BY <1>3, <1>4, <1>5, <1>12, <3>1
    <3>4. QED
      BY <3>2, <3>3
  <2>3. CASE i > m
    <3>1. i \in (m + 1)..(m + n) /\ j \in (m + 1)..(m + n)
      BY <1>1, <1>12, <2>3
    <3>2. all[i] = count - n + (i - m) /\ all[j] = count - n + (j - m)
      BY <1>1, <1>4, <3>1
    <3>3. QED
      BY <1>1, <1>12, <3>1, <3>2
  <2>4. i \in Int /\ j \in Int /\ m \in Int /\ i < j
    BY <1>1, <1>12
  <2>5. QED
    BY <2>1, <2>2, <2>3, <2>4
<1>13. QED
  <2>1. Len(all) = m + n
    BY <1>2
  <2>2. (\A i, j \in 1..Len(old) : i < j => old[i] < old[j]) /\ id = last =>
          \A i, j \in 1..Len(all) : i < j => all[i] < all[j]
    BY <1>2, <1>12
  <2>3. QED
    BY <1>2, <1>8, <1>9, <1>10, <1>11, <2>1, <2>2 DEF Appended

\* The next call of a view is answered: it shows more of the log, or goes on showing what
\* it has.
Answered(v) ==
  /\ calls[v] # <<>>
  /\ calls'[v] = Tail(calls[v])
  /\ \E got : Answer(Head(calls[v]), got) /\ Shown(v)' = Shown(v) \o got
  /\ phase'[v] \notin {"new", "opening", "left"}

LEMMA ViewExtended ==
  ASSUME TypeOK, Window, NEW v \in Views, ViewInv(v), Answered(v),
         UNCHANGED <<LogBuffer, logCounter, overlapped>>
  PROVE  ViewInv(v)'
<1> DEFINE id == Head(calls[v])
           last == LastShown(v)
<1>1. /\ Shown(v) \in Seq(Nat) /\ calls[v] \in Seq(Nat) /\ logCounter \in Nat
      /\ Len(calls[v]) \in Nat /\ Len(calls[v]) >= 1 /\ id = calls[v][1] /\ id \in Nat
  BY ShownType DEF TypeOK, Answered
<1>2. last \in Nat /\ last <= logCounter
  BY LastLogged DEF ViewInv
<1>3. id <= last
  BY <1>1 DEF ViewInv, Pending
<1>4. PICK got : Answer(id, got) /\ Shown(v)' = Shown(v) \o got
  BY DEF Answered
<1>5. /\ Shown(v) = <<>> => last = 0
      /\ Shown(v) # <<>> => last = Shown(v)[Len(Shown(v))]
  BY DEF LastShown
<1>6. /\ \A i \in 1..Len(Shown(v)) : Shown(v)[i] <= logCounter
      /\ \A i \in 1..(Len(Shown(v)) - 1) :
           Shown(v)[i] + 1 < Shown(v)[i + 1] => Shown(v)[i + 1] <= LogBuffer[1]
      /\ v \notin overlapped => \A i, j \in 1..Len(Shown(v)) : i < j => Shown(v)[i] < Shown(v)[j]
  BY DEF ViewInv, Logged, NoGap, Ordered
<1>7. /\ got \in Seq(Nat) /\ Len(got) <= logCounter
      /\ \A i \in 1..Len(got) : got[i] = logCounter - Len(got) + i
      /\ \A i \in 1..Len(got) : got[i] > id
      /\ got # <<>> => got[1] = id + 1 \/ got[1] = LogBuffer[1]
  BY <1>4 DEF Answer
<1> HIDE DEF id, last
<1>8. PICK waiting : waiting = Len(calls[v]) /\ waiting \in Nat /\ waiting >= 1
  BY <1>1
<1>9. waiting \in Nat /\ waiting >= 1
  BY <1>8
<1>10. PICK all : all = Shown(v)'
  OBVIOUS
<1>11. all = Shown(v) \o got
  BY <1>4, <1>10
<1>12. Appended(Shown(v), all, logCounter, LogBuffer[1], id, last)
  <2>1. Appends(Shown(v), got, all, logCounter, LogBuffer[1], id, last)
    BY <1>2, <1>3, <1>5, <1>6, <1>7, <1>11 DEF Appends
  <2>2. QED
    BY <1>1, <1>2, <1>7, <2>1, Extended
<1>13. Logged(v)' /\ NoGap(v)'
  BY <1>10, <1>12 DEF Logged, NoGap, Appended
<1>14. v \notin overlapped' => Ordered(v)'
  <2> SUFFICES ASSUME v \notin overlapped
               PROVE  \A i, j \in 1..Len(all) : i < j => all[i] < all[j]
    BY <1>10 DEF Ordered
  <2>1. id = last
    <3>1. waiting <= 1 /\ (waiting = 1 => calls[v][1] = last)
      BY <1>8 DEF ViewInv, Pending, last
    <3>2. waiting = 1
      BY <1>9, <3>1
    <3>3. QED
      BY <1>1, <3>1, <3>2
  <2>2. QED
    BY <1>6, <1>12, <2>1 DEF Appended
<1>15. LastShown(v)' >= last /\ LastShown(v)' \in Nat
  <2>1. LastShown(v)' = IF all = <<>> THEN 0 ELSE all[Len(all)]
    BY <1>10 DEF LastShown
  <2>2. CASE all = <<>>
    BY <1>12, <2>1, <2>2 DEF Appended
  <2>3. CASE all # <<>>
    <3>1. all[Len(all)] \in Nat
      BY <1>12, <2>3 DEF Appended
    <3>2. QED
      BY <1>12, <2>1, <2>3, <3>1 DEF Appended
  <2>4. QED
    BY <2>2, <2>3
<1>16. Pending(v)'
  <2>1. /\ Len(calls'[v]) = Len(calls[v]) - 1
        /\ \A k \in 1..Len(calls'[v]) : calls'[v][k] = calls[v][k + 1]
    BY <1>1 DEF Answered
  <2>2. ASSUME NEW k \in 1..Len(calls'[v]) PROVE calls'[v][k] <= LastShown(v)'
    <3>1. k + 1 \in 1..Len(calls[v]) /\ calls'[v][k] = calls[v][k + 1]
      BY <1>8, <2>1, <2>2
    <3>2. calls[v][k + 1] <= last /\ calls[v][k + 1] \in Nat
      BY <1>1, <3>1 DEF ViewInv, Pending, last
    <3>3. QED
      BY <1>2, <1>15, <3>1, <3>2
  <2>3. v \notin overlapped => Len(calls'[v]) = 0
    <3>1. v \notin overlapped => waiting <= 1
      BY <1>8 DEF ViewInv, Pending
    <3>2. Len(calls'[v]) = waiting - 1
      BY <1>8, <2>1
    <3>3. QED
      BY <1>9, <3>1, <3>2
  <2>4. v \notin overlapped' => Len(calls'[v]) <= 1 /\ Len(calls'[v]) # 1
    <3>1. v \notin overlapped' => v \notin overlapped
      OBVIOUS
    <3>2. QED
      BY <2>3, <3>1
  <2>5. QED
    BY <2>2, <2>4 DEF Pending
<1>17. Fresh(v)'
  BY DEF Fresh, Answered
<1>18. QED
  BY <1>10, <1>12, <1>13, <1>14, <1>16, <1>17 DEF ViewInv, Appended

-----------------------------------------------------------------------------
(* The steps. *)

LEMMA LogStep ==
  ASSUME IInv, logFunc
  PROVE  IInv'
<1>1. /\ TypeOK /\ Window
      /\ LogBuffer \in Seq(Nat) /\ logCounter \in Nat /\ BufferSize \in Nat /\ BufferSize >= 1
  BY BufferAssumption DEF IInv, TypeOK
<1>2. PICK all : all = Append(LogBuffer, logCounter + 1)
  OBVIOUS
<1>3. PICK n \in Nat : n = Len(LogBuffer)
  BY <1>1
<1>4. /\ all \in Seq(Nat) /\ Len(all) = n + 1
      /\ \A i \in 1..(n + 1) : all[i] = logCounter - n + i
  <2>1. /\ all \in Seq(Nat) /\ Len(all) = n + 1 /\ all[n + 1] = logCounter + 1
        /\ \A i \in 1..n : all[i] = LogBuffer[i]
    BY <1>1, <1>2, <1>3
  <2>2. ASSUME NEW i \in 1..(n + 1) PROVE all[i] = logCounter - n + i
    <3>1. CASE i = n + 1
      BY <1>1, <1>3, <2>1, <3>1
    <3>2. CASE i # n + 1
      <4>1. i \in 1..n
        BY <1>3, <2>2, <3>2
      <4>2. all[i] = LogBuffer[i] /\ LogBuffer[i] = logCounter - n + i
        BY <1>1, <1>3, <2>1, <4>1 DEF Window
      <4>3. QED
        BY <4>2
    <3>3. QED
      BY <3>1, <3>2
  <2>3. QED
    BY <2>1, <2>2
<1>5. logCounter' = logCounter + 1 /\ LogBuffer' = IF n + 1 > BufferSize THEN Tail(all) ELSE all
  BY <1>2, <1>4 DEF logFunc
<1>6. /\ LogBuffer' \in Seq(Nat) /\ Len(LogBuffer') <= logCounter' /\ Len(LogBuffer') >= 1
      /\ \A i \in 1..Len(LogBuffer') : LogBuffer'[i] = logCounter' - Len(LogBuffer') + i
      /\ LogBuffer'[1] >= logCounter - n + 1
  <2>0. n <= logCounter
    BY <1>1, <1>3 DEF Window
  <2>1. CASE n + 1 > BufferSize
    <3>1. LogBuffer' = Tail(all) /\ n >= 1
      BY <1>1, <1>3, <1>5, <2>1
    <3>2. /\ LogBuffer' \in Seq(Nat) /\ Len(LogBuffer') = n
          /\ \A i \in 1..n : LogBuffer'[i] = all[i + 1]
      BY <1>3, <1>4, <3>1
    <3>3. ASSUME NEW i \in 1..n PROVE LogBuffer'[i] = logCounter' - n + i
      <4>1. i + 1 \in 1..(n + 1)
        BY <1>3, <3>3
      <4>2. all[i + 1] = logCounter - n + (i + 1)
        BY <1>1, <1>3, <1>4, <4>1
      <4>3. QED
        BY <1>1, <1>3, <1>5, <3>2, <4>2
    <3>4. 1 \in 1..n
      BY <1>3, <3>1
    <3>5. LogBuffer'[1] = logCounter' - n + 1
      BY <3>3, <3>4
    <3>6. /\ Len(LogBuffer') <= logCounter' /\ Len(LogBuffer') >= 1
          /\ LogBuffer'[1] >= logCounter - n + 1
      BY <1>1, <1>3, <1>5, <2>0, <3>1, <3>2, <3>5
    <3>7. \A i \in 1..Len(LogBuffer') : LogBuffer'[i] = logCounter' - Len(LogBuffer') + i
      BY <3>2, <3>3
    <3>8. QED
      BY <3>2, <3>6, <3>7
  <2>2. CASE ~(n + 1 > BufferSize)
    <3>1. LogBuffer' = all
      BY <1>5, <2>2
    <3>2. ASSUME NEW i \in 1..(n + 1) PROVE all[i] = logCounter' - (n + 1) + i
      BY <1>1, <1>3, <1>4, <1>5, <3>2
    <3>3. all[1] = logCounter - n + 1
      BY <1>1, <1>3, <1>4
    <3>4. /\ Len(LogBuffer') <= logCounter' /\ Len(LogBuffer') >= 1
          /\ LogBuffer'[1] >= logCounter - n + 1
      BY <1>1, <1>3, <1>4, <1>5, <2>0, <3>1, <3>3
    <3>5. \A i \in 1..Len(LogBuffer') : LogBuffer'[i] = logCounter' - Len(LogBuffer') + i
      BY <1>4, <3>1, <3>2
    <3>6. QED
      BY <1>4, <3>1, <3>4, <3>5
  <2>3. QED
    BY <2>1, <2>2
<1>7. Window'
  BY <1>6 DEF Window
<1>8. TypeOK'
  BY <1>1, <1>5, <1>6 DEF TypeOK, logFunc, viewVars
<1>9. LogBuffer # <<>> => LogBuffer' # <<>> /\ LogBuffer[1] <= LogBuffer'[1]
  <2> SUFFICES ASSUME LogBuffer # <<>>
               PROVE  LogBuffer' # <<>> /\ LogBuffer[1] <= LogBuffer'[1]
    OBVIOUS
  <2>1. n >= 1
    BY <1>1, <1>3
  <2>2. LogBuffer[1] = logCounter - n + 1
    BY <1>1, <1>3, <2>1 DEF Window
  <2>3. LogBuffer' # <<>> /\ LogBuffer'[1] \in Nat
    BY <1>6
  <2>4. QED
    BY <1>1, <1>6, <2>2, <2>3
<1>10. ASSUME NEW v \in Views PROVE ViewInv(v)'
  <2>1. ViewInv(v)
    BY DEF IInv
  <2>2. UNCHANGED viewVars
    BY DEF logFunc
  <2>3. logCounter <= logCounter'
    BY <1>1, <1>5
  <2>4. QED
    BY <1>1, <1>8, <1>9, <2>1, <2>2, <2>3, ViewStable DEF viewVars
<1>11. QED
  BY <1>7, <1>8, <1>10 DEF IInv

\* A step of one view leaves the others as they are.
LEMMA OthersStable ==
  ASSUME IInv, TypeOK', UNCHANGED <<LogBuffer, logCounter>>, NEW v \in Views,
         \A w \in Views \ {v} :
           /\ lines'[w] = lines[w] /\ calls'[w] = calls[w] /\ phase'[w] = phase[w]
           /\ w \in timer' <=> w \in timer
           /\ w \in overlapped' <=> w \in overlapped,
         ViewInv(v)'
  PROVE  IInv'
<1>1. Window'
  BY DEF IInv, Window
<1>2. ASSUME NEW w \in Views, w # v PROVE ViewInv(w)'
  <2>1. LogBuffer # <<>> => LogBuffer' # <<>> /\ LogBuffer[1] <= LogBuffer'[1]
    BY DEF IInv, TypeOK
  <2>2. logCounter <= logCounter'
    BY DEF IInv, TypeOK
  <2>3. /\ lines'[w] = lines[w] /\ calls'[w] = calls[w] /\ phase'[w] = phase[w]
        /\ w \in timer' <=> w \in timer
        /\ w \in overlapped' <=> w \in overlapped
    BY <1>2
  <2>4. TypeOK /\ Window /\ ViewInv(w)
    BY DEF IInv
  <2>5. QED
    BY <2>1, <2>2, <2>3, <2>4, ViewStable
<1>3. QED
  BY <1>1, <1>2 DEF IInv

LEMMA OpenStep ==
  ASSUME IInv, NEW v \in Views, Open(v)
  PROVE  IInv'
<1>1. TypeOK /\ ViewInv(v)
  BY DEF IInv
<1>2. TypeOK'
  BY <1>1 DEF TypeOK, Open
<1>3. /\ lines[v] = Nil /\ v \notin timer /\ calls[v] = <<>>
      /\ lines' = lines /\ timer' = timer /\ overlapped' = overlapped
      /\ logCounter' = logCounter /\ LogBuffer' = LogBuffer
      /\ phase'[v] = "opening"
  BY <1>1 DEF ViewInv, Fresh, Open, TypeOK
<1>4. calls'[v] = <<0>>
  <2>1. calls'[v] = Append(calls[v], 0)
    BY <1>1 DEF Open, TypeOK
  <2>2. QED
    BY <1>3, <2>1
<1>5. Fresh(v)'
  BY <1>3, <1>4 DEF Fresh
<1> DEFINE shown == Shown(v)'
<1>6. shown = <<>> /\ LastShown(v)' = 0
  BY <1>3 DEF Shown, LastShown
<1>7. Pending(v)'
  BY <1>3, <1>4, <1>6 DEF Pending
<1>8. Logged(v)' /\ NoGap(v)' /\ Ordered(v)'
  BY <1>6 DEF Logged, NoGap, Ordered
<1>9. ViewInv(v)'
  BY <1>5, <1>7, <1>8 DEF ViewInv
<1>10. QED
  BY <1>1, <1>2, <1>9, OthersStable DEF Open, TypeOK

LEMMA ShowStep ==
  ASSUME IInv, NEW v \in Views, ShowFirst(v) \/ ShowMore(v)
  PROVE  IInv'
<1>1. TypeOK /\ Window /\ ViewInv(v)
  BY DEF IInv
<1>2. UNCHANGED <<LogBuffer, logCounter, overlapped>>
  BY DEF ShowFirst, ShowMore
<1>3. LogBuffer \in Seq(Nat)
  BY <1>1 DEF TypeOK
<1>4. PICK id \in Nat : calls[v] # <<>> /\ id = Head(calls[v]) /\ id <= logCounter
  <2>1. calls[v] # <<>>
    <3>1. CASE ShowFirst(v)
      <4>1. calls[v] = <<0>>
        BY <1>1, <3>1 DEF ViewInv, Fresh, ShowFirst
      <4>2. QED
        BY <4>1
    <3>2. CASE ShowMore(v)
      BY <3>2 DEF ShowMore
    <3>3. QED
      BY <3>1, <3>2
  <2>2. calls[v] \in Seq(Nat) /\ Len(calls[v]) >= 1 /\ Head(calls[v]) = calls[v][1]
    BY <1>1, <2>1 DEF TypeOK
  <2>3. calls[v][1] \in Nat /\ calls[v][1] <= LastShown(v)
    BY <1>1, <2>2 DEF ViewInv, Pending
  <2>4. LastShown(v) \in Nat /\ LastShown(v) <= logCounter
    BY <1>1, LastLogged DEF ViewInv
  <2>5. QED
    BY <1>1, <2>1, <2>2, <2>3, <2>4 DEF TypeOK
<1>5. PICK logs : logs = GetAllLogsAfterID(id)
  OBVIOUS
<1>6. logs = Nil \/ (Answer(id, logs) /\ logs \in Seq(Nat) /\ logs # Nil)
  BY <1>1, <1>4, <1>5, AnswerShape, NilIsNoList DEF Answer
<1>7. /\ calls'[v] = Tail(calls[v]) /\ calls'[v] \in Seq(Nat)
      /\ phase'[v] \in {"open", "closed"}
  <2>1. calls[v] \in Seq(Nat) /\ calls[v] # <<>>
    BY <1>1, <1>4 DEF TypeOK
  <2>2. calls'[v] = Tail(calls[v]) /\ phase'[v] \in {"open", "closed"}
    BY <1>1 DEF ShowFirst, ShowMore, TypeOK
  <2>3. QED
    BY <2>1, <2>2
<1>8. /\ lines'[v] \in Seq(Nat) \cup {Nil}
      /\ \E got : Answer(id, got) /\ Shown(v)' = Shown(v) \o got
  <2>1. Shown(v) \in Seq(Nat) /\ lines[v] \in Seq(Nat) \cup {Nil}
    BY <1>1, ShownType DEF TypeOK
  <2>2. Answer(id, <<>>) /\ Shown(v) \o <<>> = Shown(v)
    BY <1>1, <2>1, ConcatEmptySeq DEF Answer, TypeOK
  <2>3. CASE ShowFirst(v)
    <3>1. lines[v] = Nil /\ lines'[v] = logs
      BY <1>1, <1>4, <1>5, <2>3 DEF ViewInv, Fresh, ShowFirst, TypeOK
    <3>2. Shown(v) = <<>> /\ Shown(v)' = IF logs = Nil THEN <<>> ELSE logs
      BY <3>1 DEF Shown
    <3>3. CASE logs = Nil
      BY <2>2, <3>1, <3>2, <3>3
    <3>4. CASE logs # Nil
      <4>1. <<>> \o logs = logs
        BY <1>6, <3>4, ConcatEmptySeq
      <4>2. QED
        BY <1>6, <3>1, <3>2, <3>4, <4>1
    <3>5. QED
      BY <3>3, <3>4
  <2>4. CASE ShowMore(v) /\ (logs = Nil \/ lines[v] = Nil)
    <3>1. lines'[v] = lines[v]
      BY <1>4, <1>5, <2>4 DEF ShowMore
    <3>2. Shown(v)' = Shown(v)
      BY <3>1 DEF Shown
    <3>3. QED
      BY <2>1, <2>2, <3>1, <3>2
  <2>5. CASE ShowMore(v) /\ logs # Nil /\ lines[v] # Nil
    <3>1. lines'[v] = lines[v] \o logs
      BY <1>1, <1>4, <1>5, <2>5 DEF ShowMore, TypeOK
    <3>2. lines'[v] \in Seq(Nat) /\ lines'[v] # Nil
      <4>1. lines[v] \in Seq(Nat) /\ logs \in Seq(Nat)
        BY <1>6, <2>1, <2>5
      <4>2. lines[v] \o logs \in Seq(Nat)
        BY <4>1, ConcatProperties
      <4>3. QED
        BY <3>1, <4>2, NilIsNoList
    <3>3. Shown(v)' = Shown(v) \o logs
      BY <2>5, <3>1, <3>2 DEF Shown
    <3>4. QED
      BY <1>6, <2>5, <3>2, <3>3
  <2>6. QED
    BY <2>3, <2>4, <2>5
<1>9. ViewInv(v)'
  <2>1. Answered(v)
    BY <1>4, <1>7, <1>8 DEF Answered
  <2>2. QED
    BY <1>1, <1>2, <2>1, ViewExtended
<1>10. TypeOK'
  <2>1. lines' \in [Views -> Seq(Nat) \cup {Nil}]
    <3>1. lines' = [lines EXCEPT ![v] = lines'[v]]
      BY <1>1 DEF ShowFirst, ShowMore, TypeOK
    <3>2. QED
      BY <1>1, <1>8, <3>1 DEF TypeOK
  <2>2. calls' \in [Views -> Seq(Nat)]
    <3>1. calls' = [calls EXCEPT ![v] = calls'[v]]
      BY <1>1 DEF ShowFirst, ShowMore, TypeOK
    <3>2. QED
      BY <1>1, <1>7, <3>1 DEF TypeOK
  <2>3. /\ phase' \in [Views -> {"new", "opening", "open", "left", "closed"}]
        /\ timer' \subseteq Views
    BY <1>1 DEF ShowFirst, ShowMore, TypeOK
  <2>4. QED
    BY <1>1, <1>2, <2>1, <2>2, <2>3 DEF TypeOK
<1>11. \A w \in Views \ {v} :
        /\ lines'[w] = lines[w] /\ calls'[w] = calls[w] /\ phase'[w] = phase[w]
        /\ w \in timer' <=> w \in timer
        /\ w \in overlapped' <=> w \in overlapped
  BY <1>1 DEF ShowFirst, ShowMore, TypeOK
<1>12. QED
  BY <1>2, <1>9, <1>10, <1>11, OthersStable

LEMMA PollStep ==
  ASSUME IInv, NEW v \in Views, Poll(v)
  PROVE  IInv'
<1>1. TypeOK /\ ViewInv(v)
  BY DEF IInv
<1>2. LastShown(v) \in Nat
  BY <1>1, LastLogged DEF ViewInv
<1>3. calls[v] \in Seq(Nat) /\ Len(calls[v]) \in Nat
  BY <1>1 DEF TypeOK
<1>4. calls'[v] = Append(calls[v], LastShown(v))
  BY <1>1 DEF Poll, TypeOK
<1>5. /\ calls'[v] \in Seq(Nat)
      /\ Len(calls'[v]) = Len(calls[v]) + 1
      /\ \A k \in 1..Len(calls[v]) : calls'[v][k] = calls[v][k]
      /\ calls'[v][Len(calls[v]) + 1] = LastShown(v)
  BY <1>2, <1>3, <1>4
<1>6. TypeOK'
  <2>1. calls' \in [Views -> Seq(Nat)]
    <3>1. calls' = [calls EXCEPT ![v] = calls'[v]]
      BY <1>1 DEF Poll, TypeOK
    <3>2. QED
      BY <1>1, <1>5, <3>1 DEF TypeOK
  <2>2. QED
    BY <1>1, <2>1 DEF TypeOK, Poll
<1>7. /\ lines' = lines /\ phase' = phase /\ timer' = timer
      /\ LogBuffer' = LogBuffer /\ logCounter' = logCounter
      /\ Shown(v)' = Shown(v) /\ LastShown(v)' = LastShown(v)
  BY DEF Poll, Shown, LastShown
<1>8. Fresh(v)'
  <2>1. phase[v] \notin {"new", "opening", "left"}
    BY <1>1 DEF ViewInv, Fresh, Poll
  <2>2. QED
    BY <1>7, <2>1 DEF Fresh
<1>9. Pending(v)'
  <2>1. ASSUME NEW k \in 1..Len(calls'[v]) PROVE calls'[v][k] <= LastShown(v)'
    <3>1. CASE k = Len(calls[v]) + 1
      BY <1>2, <1>5, <1>7, <3>1
    <3>2. CASE k # Len(calls[v]) + 1
      <4>1. k \in 1..Len(calls[v])
        BY <1>3, <1>5, <2>1, <3>2
      <4>2. calls[v][k] <= LastShown(v)
        BY <1>1, <4>1 DEF ViewInv, Pending
      <4>3. QED
        BY <1>5, <1>7, <4>1, <4>2
    <3>3. QED
      BY <3>1, <3>2
  <2>2. ASSUME v \notin overlapped' PROVE calls'[v] = <<LastShown(v)>>
    <3>1. calls[v] = <<>>
      BY <1>1, <2>2 DEF Poll, TypeOK
    <3>2. QED
      BY <1>2, <1>4, <3>1
  <2>3. v \notin overlapped' => Len(calls'[v]) = 1 /\ calls'[v][1] = LastShown(v)'
    BY <1>7, <2>2
  <2>4. QED
    BY <2>1, <2>3 DEF Pending
<1>10. Logged(v)' /\ NoGap(v)'
  BY <1>1, <1>7 DEF ViewInv, Logged, NoGap
<1>11. v \notin overlapped' => Ordered(v)'
  BY <1>1, <1>7 DEF ViewInv, Ordered, Poll
<1>12. ViewInv(v)'
  BY <1>8, <1>9, <1>10, <1>11 DEF ViewInv
<1>13. \A w \in Views \ {v} :
         /\ lines'[w] = lines[w] /\ calls'[w] = calls[w] /\ phase'[w] = phase[w]
         /\ w \in timer' <=> w \in timer
         /\ w \in overlapped' <=> w \in overlapped
  BY <1>1 DEF Poll, TypeOK
<1>14. QED
  BY <1>6, <1>7, <1>12, <1>13, OthersStable

LEMMA CloseStep ==
  ASSUME IInv, NEW v \in Views, Close(v)
  PROVE  IInv'
<1>1. TypeOK /\ ViewInv(v)
  BY DEF IInv
<1>2. TypeOK'
  BY <1>1 DEF TypeOK, Close
<1>3. /\ lines' = lines /\ calls' = calls /\ overlapped' = overlapped
      /\ LogBuffer' = LogBuffer /\ logCounter' = logCounter
      /\ Shown(v)' = Shown(v) /\ LastShown(v)' = LastShown(v)
  BY DEF Close, Shown, LastShown
<1>4. Pending(v)' /\ Logged(v)' /\ NoGap(v)' /\ (v \notin overlapped' => Ordered(v)')
  BY <1>1, <1>3 DEF ViewInv, Pending, Logged, NoGap, Ordered
<1>5. Fresh(v)'
  <2>1. CASE phase[v] = "opening"
    BY <1>1, <1>3, <2>1 DEF ViewInv, Fresh, Close, TypeOK
  <2>2. CASE phase[v] = "open"
    BY <1>1, <2>2 DEF Fresh, Close, TypeOK
  <2>3. QED
    BY <2>1, <2>2 DEF Close
<1>6. ViewInv(v)'
  BY <1>4, <1>5 DEF ViewInv
<1>7. \A w \in Views \ {v} :
        /\ lines'[w] = lines[w] /\ calls'[w] = calls[w] /\ phase'[w] = phase[w]
        /\ w \in timer' <=> w \in timer
        /\ w \in overlapped' <=> w \in overlapped
  BY <1>1 DEF Close, TypeOK
<1>8. QED
  BY <1>2, <1>3, <1>6, <1>7, OthersStable

-----------------------------------------------------------------------------
(* The specification. *)

LEMMA InitInv == Init => IInv
<1> SUFFICES ASSUME Init PROVE IInv
  OBVIOUS
<1>1. TypeOK
  BY DEF Init, TypeOK
<1>2. Window
  BY DEF Init, Window
<1>3. ASSUME NEW v \in Views PROVE ViewInv(v)
  BY DEF Init, ViewInv, Pending, Fresh, Logged, NoGap, Ordered,
          LastShown, Shown
<1>4. QED
  BY <1>1, <1>2, <1>3 DEF IInv

\* The strengthening is inductive.
THEOREM LogViewInvariant == Spec => []IInv
<1>1. IInv /\ [Next]_vars => IInv'
  <2> SUFFICES ASSUME IInv, [Next]_vars PROVE IInv'
    OBVIOUS
  <2>1. CASE logFunc
    BY <2>1, LogStep
  <2>2. ASSUME NEW v \in Views, Open(v) PROVE IInv'
    BY <2>2, OpenStep
  <2>3. ASSUME NEW v \in Views, ShowFirst(v) \/ ShowMore(v) PROVE IInv'
    BY <2>3, ShowStep
  <2>4. ASSUME NEW v \in Views, Poll(v) PROVE IInv'
    BY <2>4, PollStep
  <2>5. ASSUME NEW v \in Views, Close(v) PROVE IInv'
    BY <2>5, CloseStep
  <2>6. CASE UNCHANGED vars
    BY <2>6 DEF IInv, TypeOK, Window, ViewInv, Pending, Fresh, Logged, NoGap, Ordered,
                Shown, LastShown, vars, viewVars
  <2>7. QED
    BY <2>1, <2>2, <2>3, <2>4, <2>5, <2>6 DEF Next
<1>2. QED
  BY <1>1, InitInv, PTL DEF Spec

\* The log and what the views hold stay lists of line numbers, and a view is in one of
\* its phases.
THEOREM LogViewTypes == Spec => []TypeOK
<1>1. IInv => TypeOK
  BY DEF IInv
<1>2. QED
  BY <1>1, LogViewInvariant, PTL

\* A view that never polls while it waits shows every line once and in order, however
\* the log runs on and drops its lines between its calls (logs.component.ts).
THEOREM LinesStayInOrder == Spec => []LinesInOrder
<1>1. IInv => LinesInOrder
  <2> SUFFICES ASSUME IInv, NEW v \in Views \ overlapped,
                      NEW i \in DOMAIN Shown(v), NEW j \in DOMAIN Shown(v), i < j
               PROVE  Shown(v)[i] < Shown(v)[j]
    BY DEF LinesInOrder
  <2>1. Ordered(v)
    BY DEF IInv, ViewInv
  <2>2. DOMAIN Shown(v) = 1..Len(Shown(v))
    BY ShownType DEF IInv
  <2>3. QED
    BY <2>1, <2>2 DEF Ordered
<1>2. QED
  BY <1>1, LogViewInvariant, PTL

\* Whether or not polls overlap, a view skips a line only when the buffer has dropped it:
\* GetAllLogsAfterID leaves none out.
THEOREM SkippedAreDropped == Spec => []NoLineSkipped
<1>1. IInv => NoLineSkipped
  BY DEF IInv, ViewInv, NoGap, NoLineSkipped
<1>2. QED
  BY <1>1, LogViewInvariant, PTL
=============================================================================
