------------------------- MODULE NotificationsProofs -------------------------
(***************************************************************************)
(* Proofs about Notifications and the WatchAll beneath it, for any events  *)
(* and actions.  What the arrays of a watch become when the changes under  *)
(* way have been delivered is followed along the feed (Ends), from the     *)
(* arrays as they are and, while the query is still being read, from any   *)
(* arrays that the reads to come may leave.                                *)
(***************************************************************************)
EXTENDS Notifications, SequenceTheorems, TLAPS

Arrays == [keys : Seq(Events), values : Seq(Notification)]

\* The arrays are parallel and hold each key once.
Good(view) ==
  /\ view \in Arrays
  /\ Len(view.keys) = Len(view.values)
  /\ \A i, j \in 1..Len(view.keys) : view.keys[i] = view.keys[j] => i = j

Holds(view, k, n) == \E i \in 1..Len(view.keys) : view.keys[i] = k /\ view.values[i] = n
Has(view, k) == \E n \in Notification : Holds(view, k, n)

\* The arrays have of k what the database has.
Agrees(view, k) == \A n \in Notification : Holds(view, k, n) <=> n = data[k]

-----------------------------------------------------------------------------
(* Apply. *)

LEMMA RemoveAtProperties ==
  ASSUME NEW S, NEW s \in Seq(S), NEW i \in 1..Len(s)
  PROVE  /\ Watch!RemoveAt(s, i) \in Seq(S)
         /\ Len(Watch!RemoveAt(s, i)) = Len(s) - 1
         /\ \A j \in 1..(Len(s) - 1) :
              Watch!RemoveAt(s, i)[j] = IF j < i THEN s[j] ELSE s[j + 1]
<1> DEFINE before == SubSeq(s, 1, i - 1)
           after == SubSeq(s, i + 1, Len(s))
<1>0. Len(s) \in Nat /\ i \in Nat /\ i >= 1 /\ i <= Len(s)
  OBVIOUS
<1>1. /\ before \in Seq(S) /\ Len(before) = i - 1
      /\ \A j \in 1..(i - 1) : before[j] = s[j]
  <2>1. /\ before \in Seq(S) /\ Len(before) = IF 1 <= i - 1 THEN i - 1 - 1 + 1 ELSE 0
        /\ \A j \in 1..(i - 1 - 1 + 1) : before[j] = s[1 + j - 1]
    <3>1. \A j \in 1..(i - 1) : s[j] \in S
      BY <1>0
    <3>2. QED
      BY <1>0, <3>1, SubSeqProperties
  <2> HIDE DEF before
  <2>2. QED
    BY <1>0, <2>1
<1>2. /\ after \in Seq(S) /\ Len(after) = Len(s) - i
      /\ \A j \in 1..(Len(s) - i) : after[j] = s[i + j]
  <2>1. /\ after \in Seq(S)
        /\ Len(after) = IF i + 1 <= Len(s) THEN Len(s) - (i + 1) + 1 ELSE 0
        /\ \A j \in 1..(Len(s) - (i + 1) + 1) : after[j] = s[(i + 1) + j - 1]
    <3>1. \A j \in (i + 1)..Len(s) : s[j] \in S
      BY <1>0
    <3>2. QED
      BY <1>0, <3>1, SubSeqProperties
  <2> HIDE DEF after
  <2>2. QED
    BY <1>0, <2>1
<1> DEFINE both == before \o after
<1>3. Watch!RemoveAt(s, i) = both
  BY DEF Watch!RemoveAt
<1> HIDE DEF before, after
<1>4. /\ both \in Seq(S)
      /\ Len(both) = Len(before) + Len(after)
      /\ \A j \in 1..Len(before) + Len(after) :
           both[j] = IF j <= Len(before) THEN before[j] ELSE after[j - Len(before)]
  BY <1>1, <1>2, ConcatProperties
<1> HIDE DEF both
<1>5. Len(both) = Len(s) - 1
  BY <1>0, <1>1, <1>2, <1>4
<1>6. ASSUME NEW j \in 1..(Len(s) - 1)
      PROVE  both[j] = IF j < i THEN s[j] ELSE s[j + 1]
  <2>1. j \in 1..Len(before) + Len(after)
    BY <1>0, <1>1, <1>2
  <2>2. CASE j < i
    BY <1>0, <1>1, <1>4, <2>1, <2>2
  <2>3. CASE ~(j < i)
    <3>1. j - (i - 1) \in 1..(Len(s) - i) /\ i + (j - (i - 1)) = j + 1 /\ ~(j <= i - 1)
      BY <1>0, <2>3
    <3>2. both[j] = after[j - (i - 1)]
      BY <1>1, <1>4, <2>1, <3>1
    <3>3. QED
      BY <1>2, <2>3, <3>1, <3>2
  <2>4. QED
    BY <2>2, <2>3
<1>7. QED
  BY <1>3, <1>4, <1>5, <1>6

\* A change concerns its key alone: a deleted record goes, a new one is there, and an
\* update reaches one that is there.
Applied(view, change, new) ==
  /\ Good(new)
  /\ \A k \in Events : k # change.key =>
       \A n \in Notification : Holds(new, k, n) <=> Holds(view, k, n)
  /\ change.type = "del" => ~Has(new, change.key)
  /\ change.type = "new" \/ (change.type = "upd" /\ Has(view, change.key)) =>
       \A n \in Notification : Holds(new, change.key, n) <=> n = change.data

LEMMA ApplyEffect ==
  ASSUME NEW view, Good(view), NEW change \in Watch!Change
  PROVE  Applied(view, change, Watch!Apply(view, change))
<1> DEFINE K == view.keys
           V == view.values
           key == change.key
           new == Watch!Apply(view, change)
           here == \E i \in DOMAIN K : K[i] = key
           idx == CHOOSE i \in DOMAIN K : K[i] = key
<1>1. /\ K \in Seq(Events) /\ V \in Seq(Notification) /\ Len(K) = Len(V) /\ Len(K) \in Nat
      /\ view = [keys |-> K, values |-> V]
      /\ \A i, j \in 1..Len(K) : K[i] = K[j] => i = j
      /\ DOMAIN K = 1..Len(K) /\ DOMAIN V = 1..Len(K)
  BY DEF Good, Arrays
<1>2. /\ change.type \in {"new", "upd", "del"} /\ key \in Events
      /\ change.type # "del" => change.data \in Notification
  BY DEF Watch!Change
<1>3. ASSUME here PROVE idx \in 1..Len(K) /\ K[idx] = key
  BY <1>1, <1>3
<1>4. CASE here /\ change.type = "del"
  <2> DEFINE newK == Watch!RemoveAt(K, idx)
             newV == Watch!RemoveAt(V, idx)
  <2>1. new = [keys |-> newK, values |-> newV]
    BY <1>4 DEF Watch!Apply
  <2>2. idx \in 1..Len(K) /\ K[idx] = key
    BY <1>3, <1>4
  <2> HIDE DEF idx, new, K, V, key, here
  <2>3. /\ newK \in Seq(Events) /\ Len(newK) = Len(K) - 1
        /\ \A j \in 1..(Len(K) - 1) : newK[j] = IF j < idx THEN K[j] ELSE K[j + 1]
    BY <1>1, <2>2, RemoveAtProperties
  <2>4. /\ newV \in Seq(Notification) /\ Len(newV) = Len(K) - 1
        /\ \A j \in 1..(Len(K) - 1) : newV[j] = IF j < idx THEN V[j] ELSE V[j + 1]
    <3>1. idx \in 1..Len(V) /\ Len(V) = Len(K)
      BY <1>1, <2>2
    <3>2. V \in Seq(Notification)
      BY <1>1
    <3>3. QED
      BY <3>1, <3>2, RemoveAtProperties
  <2> HIDE DEF newK, newV
  <2>5. Good(new)
    <3> DEFINE pos(j) == IF j < idx THEN j ELSE j + 1
    <3>1. \A j \in 1..(Len(K) - 1) : pos(j) \in 1..Len(K) /\ newK[j] = K[pos(j)]
      BY <1>1, <2>2, <2>3
    <3>2. ASSUME NEW i \in 1..(Len(K) - 1), NEW j \in 1..(Len(K) - 1), newK[i] = newK[j]
          PROVE  i = j
      <4>1. pos(i) \in 1..Len(K) /\ pos(j) \in 1..Len(K) /\ K[pos(i)] = K[pos(j)]
        BY <3>1, <3>2
      <4> HIDE DEF pos
      <4>2. pos(i) = pos(j)
        BY <1>1, <4>1
      <4>3. i \in Int /\ j \in Int /\ idx \in Int
        BY <1>1, <2>2
      <4>4. QED
        BY <4>2, <4>3 DEF pos
    <3> HIDE DEF pos
    <3>3. new.keys = newK /\ new.values = newV /\ new \in Arrays
      BY <2>1, <2>3, <2>4 DEF Arrays
    <3>4. Len(newK) = Len(newV) /\ 1..Len(newK) = 1..(Len(K) - 1)
      BY <2>3, <2>4
    <3>5. QED
      BY <3>2, <3>3, <3>4 DEF Good
  <2>6. ASSUME NEW k \in Events, k # key, NEW n \in Notification
        PROVE  Holds(new, k, n) <=> Holds(view, k, n)
    <3>1. ASSUME NEW j \in 1..(Len(K) - 1), newK[j] = k, newV[j] = n
          PROVE  \E i \in 1..Len(K) : K[i] = k /\ V[i] = n
      <4>1. CASE j < idx
        BY <1>1, <2>3, <2>4, <3>1, <4>1
      <4>2. CASE ~(j < idx)
        <5>1. j + 1 \in 1..Len(K) /\ K[j + 1] = k /\ V[j + 1] = n
          BY <1>1, <2>2, <2>3, <2>4, <3>1, <4>2
        <5>2. QED
          BY <5>1
      <4>3. QED
        BY <4>1, <4>2
    <3>2. ASSUME NEW i \in 1..Len(K), K[i] = k, V[i] = n
          PROVE  \E j \in 1..(Len(K) - 1) : newK[j] = k /\ newV[j] = n
      <4>1. i # idx
        BY <2>2, <2>6, <3>2
      <4>2. CASE i < idx
        <5>1. i \in 1..(Len(K) - 1) /\ newK[i] = k /\ newV[i] = n
          BY <1>1, <2>2, <2>3, <2>4, <3>2, <4>2
        <5>2. QED
          BY <5>1
      <4>3. CASE i > idx
        <5>1. i - 1 \in 1..(Len(K) - 1) /\ ~(i - 1 < idx) /\ (i - 1) + 1 = i
          BY <1>1, <2>2, <3>2, <4>3
        <5>2. newK[i - 1] = k /\ newV[i - 1] = n
          BY <2>3, <2>4, <3>2, <5>1
        <5>3. QED
          BY <5>1, <5>2
      <4>4. QED
        BY <1>1, <2>2, <4>1, <4>2, <4>3
    <3>3. Holds(view, k, n) <=> \E i \in 1..Len(K) : K[i] = k /\ V[i] = n
      BY DEF Holds, K, V
    <3>4. Holds(new, k, n) <=> \E j \in 1..(Len(K) - 1) : newK[j] = k /\ newV[j] = n
      BY <2>1, <2>3 DEF Holds
    <3>5. QED
      BY <3>1, <3>2, <3>3, <3>4
  <2>7. ~Has(new, key)
    <3>1. \A j \in 1..(Len(K) - 1) : newK[j] # key
      BY <1>1, <2>2, <2>3
    <3>2. QED
      BY <2>1, <2>3, <3>1 DEF Has, Holds
  <2>8. QED
    BY <1>4, <2>5, <2>6, <2>7 DEF Applied, key, new
<1>5. CASE here /\ change.type # "del"
  <2> DEFINE newV == [V EXCEPT ![idx] = change.data]
  <2>1. new = [keys |-> K, values |-> newV]
    BY <1>1, <1>5 DEF Watch!Apply
  <2>2. idx \in 1..Len(K) /\ K[idx] = key
    BY <1>3, <1>5
  <2> HIDE DEF idx, new, K, V, key, here
  <2>3. /\ newV \in Seq(Notification) /\ Len(newV) = Len(K)
        /\ \A j \in 1..Len(K) : newV[j] = IF j = idx THEN change.data ELSE V[j]
    BY <1>1, <1>2, <1>5, <2>2, ExceptSeq
  <2> HIDE DEF newV
  <2>4. Good(new)
    BY <1>1, <2>1, <2>3 DEF Good, Arrays
  <2>5. ASSUME NEW k \in Events, k # key, NEW n \in Notification
        PROVE  Holds(new, k, n) <=> Holds(view, k, n)
    <3>1. Holds(view, k, n) <=> \E i \in 1..Len(K) : K[i] = k /\ V[i] = n
      BY DEF Holds, K, V
    <3>2. Holds(new, k, n) <=> \E i \in 1..Len(K) : K[i] = k /\ newV[i] = n
      BY <2>1 DEF Holds
    <3>3. \A i \in 1..Len(K) : K[i] = k => newV[i] = V[i]
      BY <2>2, <2>3, <2>5
    <3>4. QED
      BY <3>1, <3>2, <3>3
  <2>6. \A n \in Notification : Holds(new, key, n) <=> n = change.data
    BY <1>1, <2>1, <2>2, <2>3 DEF Holds
  <2>7. QED
    BY <1>5, <2>4, <2>5, <2>6 DEF Applied, key, new
<1>6. CASE ~here /\ change.type = "new"
  <2> DEFINE newK == Append(K, key)
             newV == Append(V, change.data)
  <2>1. new = [keys |-> newK, values |-> newV]
    BY <1>6 DEF Watch!Apply
  <2>2. \A i \in 1..Len(K) : K[i] # key
    BY <1>1, <1>6
  <2> HIDE DEF idx, new, K, V, key, here
  <2>3. /\ newK \in Seq(Events) /\ Len(newK) = Len(K) + 1 /\ newK[Len(K) + 1] = key
        /\ \A i \in 1..Len(K) : newK[i] = K[i]
    BY <1>1, <1>2, AppendProperties
  <2>4. /\ newV \in Seq(Notification) /\ Len(newV) = Len(K) + 1
        /\ newV[Len(K) + 1] = change.data
        /\ \A i \in 1..Len(K) : newV[i] = V[i]
    BY <1>1, <1>2, <1>6, AppendProperties
  <2> HIDE DEF newK, newV
  <2>5. \A i \in 1..Len(newK) : i \in 1..Len(K) \/ i = Len(K) + 1
    BY <1>1, <2>3
  <2>6. Good(new)
    BY <1>1, <2>1, <2>2, <2>3, <2>4, <2>5 DEF Good, Arrays
  <2>7. ASSUME NEW k \in Events, NEW n \in Notification
        PROVE  Holds(new, k, n) <=> Holds(view, k, n) \/ (k = key /\ n = change.data)
    <3>1. Holds(view, k, n) <=> \E i \in 1..Len(K) : K[i] = k /\ V[i] = n
      BY DEF Holds, K, V
    <3>2. Holds(new, k, n) <=> \E i \in 1..Len(newK) : newK[i] = k /\ newV[i] = n
      BY <2>1 DEF Holds
    <3>3. 1..Len(K) \subseteq 1..Len(newK) /\ Len(K) + 1 \in 1..Len(newK)
      BY <1>1, <2>3
    <3>4. QED
      BY <2>3, <2>4, <2>5, <3>1, <3>2, <3>3
  <2>8. \A n \in Notification : ~Holds(view, key, n)
    BY <2>2 DEF Holds, K
  <2>9. QED
    BY <1>2, <1>6, <2>6, <2>7, <2>8 DEF Applied, key, new
<1>7. CASE ~here /\ change.type # "new"
  <2>1. new = view
    BY <1>7 DEF Watch!Apply
  <2>2. ~Has(view, key)
    BY <1>1, <1>7 DEF Has, Holds
  <2>3. QED
    BY <1>7, <2>1, <2>2 DEF Applied
<1>8. QED
  BY <1>4, <1>5, <1>6, <1>7

-----------------------------------------------------------------------------
(* The arrays along a sequence of changes. *)

\* h has the arrays after each of the changes, beginning with view.
Run(h, view, changes) ==
  /\ DOMAIN h = 0..Len(changes)
  /\ h[0] = view
  /\ \A n \in 1..Len(changes) : h[n] = Watch!Apply(h[n - 1], changes[n])

\* The changes turn view into last.
Ends(view, changes, last) == \E h : Run(h, view, changes) /\ h[Len(changes)] = last

LEMMA EndsEmpty ==
  ASSUME NEW view, NEW last
  PROVE  Ends(view, <<>>, last) <=> last = view
<1>1. ASSUME Ends(view, <<>>, last) PROVE last = view
  BY <1>1 DEF Ends, Run
<1>2. Ends(view, <<>>, view)
  <2> DEFINE h == [n \in 0..0 |-> view]
  <2>1. Run(h, view, <<>>) /\ h[Len(<<>>)] = view
    BY DEF Run
  <2> HIDE DEF h
  <2>2. QED
    BY <2>1 DEF Ends
<1>3. QED
  BY <1>1, <1>2

\* A change that is added is applied last.
LEMMA EndsAppend ==
  ASSUME NEW S, NEW changes \in Seq(S), NEW change \in S, NEW view, NEW last
  PROVE  Ends(view, Append(changes, change), last) <=>
           \E l : Ends(view, changes, l) /\ last = Watch!Apply(l, change)
<1> DEFINE more == Append(changes, change)
           N == Len(changes)
<1>1. /\ N \in Nat /\ Len(more) = N + 1 /\ more[N + 1] = change
      /\ \A n \in 1..N : more[n] = changes[n]
  BY AppendProperties
<1> HIDE DEF more
<1>2. ASSUME Ends(view, more, last)
      PROVE  \E l : Ends(view, changes, l) /\ last = Watch!Apply(l, change)
  <2>1. PICK h : Run(h, view, more) /\ h[N + 1] = last
    BY <1>1, <1>2 DEF Ends
  <2> DEFINE g == [n \in 0..N |-> h[n]]
  <2>2. \A n \in 1..N : n \in 1..(N + 1) /\ n - 1 \in 0..N /\ n \in 0..N
    BY <1>1
  <2>3. \A n \in 1..N : g[n] = Watch!Apply(g[n - 1], changes[n])
    BY <1>1, <2>1, <2>2 DEF Run
  <2>4. DOMAIN g = 0..N /\ g[0] = view /\ g[N] = h[N]
    BY <1>1, <2>1 DEF Run
  <2>5. last = Watch!Apply(h[N], change)
    <3>1. N + 1 \in 1..(N + 1) /\ (N + 1) - 1 = N
      BY <1>1
    <3>2. QED
      BY <1>1, <2>1, <3>1 DEF Run
  <2> HIDE DEF g
  <2>6. Ends(view, changes, h[N])
    BY <2>3, <2>4 DEF Ends, Run
  <2>7. QED
    BY <2>5, <2>6
<1>3. ASSUME NEW l, Ends(view, changes, l), last = Watch!Apply(l, change)
      PROVE  Ends(view, more, last)
  <2>1. PICK g : Run(g, view, changes) /\ g[N] = l
    BY <1>3 DEF Ends
  <2> DEFINE h == [n \in 0..(N + 1) |-> IF n = N + 1 THEN last ELSE g[n]]
  <2>2. \A n \in 1..(N + 1) : n - 1 \in 0..N /\ (n = N + 1 \/ n \in 1..N) /\ n \in 0..(N + 1)
    BY <1>1
  <2>3. \A n \in 0..N : h[n] = g[n]
    BY <1>1
  <2>4. h[N + 1] = last /\ DOMAIN h = 0..(N + 1) /\ h[0] = view
    BY <1>1, <2>1 DEF Run
  <2> HIDE DEF h
  <2>5. ASSUME NEW n \in 1..(N + 1) PROVE h[n] = Watch!Apply(h[n - 1], more[n])
    <3>1. CASE n = N + 1
      <4>1. h[n - 1] = l /\ more[n] = change
        BY <1>1, <2>1, <2>2, <2>3, <3>1
      <4>2. QED
        BY <1>3, <2>4, <3>1, <4>1
    <3>2. CASE n \in 1..N
      BY <1>1, <2>1, <2>2, <2>3, <3>2 DEF Run
    <3>3. QED
      BY <2>2, <3>1, <3>2
  <2>6. QED
    BY <1>1, <2>4, <2>5 DEF Ends, Run
<1>4. QED
  BY <1>2, <1>3 DEF more

\* A change that is delivered has been applied first.
LEMMA EndsTail ==
  ASSUME NEW S, NEW changes \in Seq(S), changes # <<>>, NEW view, NEW last
  PROVE  Ends(Watch!Apply(view, Head(changes)), Tail(changes), last) <=> Ends(view, changes, last)
<1> DEFINE rest == Tail(changes)
           next == Watch!Apply(view, Head(changes))
           N == Len(rest)
<1>1. /\ N \in Nat /\ Len(changes) = N + 1 /\ Head(changes) = changes[1]
      /\ \A n \in 1..N : rest[n] = changes[n + 1]
  BY HeadTailProperties
<1> HIDE DEF rest
<1>2. ASSUME Ends(next, rest, last) PROVE Ends(view, changes, last)
  <2>1. PICK g : Run(g, next, rest) /\ g[N] = last
    BY <1>2 DEF Ends
  <2> DEFINE h == [n \in 0..(N + 1) |-> IF n = 0 THEN view ELSE g[n - 1]]
  <2>2. \A n \in 1..(N + 1) : h[n] = g[n - 1] /\ n \in 0..(N + 1)
    BY <1>1
  <2>3. DOMAIN h = 0..(N + 1) /\ h[0] = view /\ h[N + 1] = last
    BY <1>1, <2>1
  <2> HIDE DEF h
  <2>4. ASSUME NEW n \in 1..(N + 1) PROVE h[n] = Watch!Apply(h[n - 1], changes[n])
    <3>1. CASE n = 1
      <4>1. h[n] = next /\ h[n - 1] = view
        BY <2>1, <2>2, <2>3, <3>1 DEF Run
      <4>2. QED
        BY <1>1, <3>1, <4>1
    <3>2. CASE n # 1
      <4>1. n - 1 \in 1..N /\ n - 1 \in 1..(N + 1) /\ (n - 1) + 1 = n
        BY <1>1, <3>2
      <4>2. g[n - 1] = Watch!Apply(g[(n - 1) - 1], rest[n - 1])
        BY <2>1, <4>1 DEF Run
      <4>3. QED
        BY <1>1, <2>2, <4>1, <4>2
    <3>3. QED
      BY <3>1, <3>2
  <2>5. QED
    BY <1>1, <2>3, <2>4 DEF Ends, Run
<1>3. ASSUME Ends(view, changes, last) PROVE Ends(next, rest, last)
  <2>1. PICK h : Run(h, view, changes) /\ h[N + 1] = last
    BY <1>1, <1>3 DEF Ends
  <2> DEFINE g == [n \in 0..N |-> h[n + 1]]
  <2>2. \A n \in 1..N : /\ n + 1 \in 1..(N + 1) /\ (n + 1) - 1 = n
                        /\ n - 1 \in 0..N /\ (n - 1) + 1 = n /\ n \in 0..N
    BY <1>1
  <2>3. \A n \in 0..N : g[n] = h[n + 1]
    OBVIOUS
  <2>4. DOMAIN g = 0..N /\ g[N] = last
    BY <1>1, <2>1
  <2> HIDE DEF g
  <2>5. g[0] = next
    <3>1. 1 \in 1..(N + 1) /\ 0 \in 0..N /\ 1 - 1 = 0 /\ 0 + 1 = 1
      BY <1>1
    <3>2. h[1] = next
      BY <1>1, <2>1, <3>1 DEF Run
    <3>3. QED
      BY <2>3, <3>1, <3>2
  <2>6. \A n \in 1..N : g[n] = Watch!Apply(g[n - 1], rest[n])
    BY <1>1, <2>1, <2>2, <2>3 DEF Run
  <2>7. QED
    BY <2>4, <2>5, <2>6 DEF Ends, Run
<1>4. QED
  BY <1>2, <1>3 DEF rest

\* Views is what the definition says, if there is such a function at all.
LEMMA ViewsRun ==
  ASSUME NEW last, Ends(Watch!View, feed, last), Len(feed) \in Nat
  PROVE  Ends(Watch!View, feed, Watch!Views[Len(feed)])
<1> DEFINE N == Len(feed)
           After(h) == h = [n \in 0..N |-> IF n = 0 THEN Watch!View
                                           ELSE Watch!Apply(h[n - 1], feed[n])]
<1>1. PICK h : Run(h, Watch!View, feed)
  BY DEF Ends
<1>2. After([n \in 0..N |-> h[n]])
  <2> DEFINE g == [n \in 0..N |-> h[n]]
  <2>1. ASSUME NEW n \in 0..N
        PROVE  g[n] = IF n = 0 THEN Watch!View ELSE Watch!Apply(g[n - 1], feed[n])
    <3>1. CASE n = 0
      BY <1>1, <3>1 DEF Run
    <3>2. CASE n # 0
      <4>1. n \in 1..N /\ n - 1 \in 0..N
        BY <3>2
      <4>2. QED
        BY <1>1, <3>2, <4>1 DEF Run
    <3>3. QED
      BY <3>1, <3>2
  <2>2. g = [n \in 0..N |-> g[n]]
    OBVIOUS
  <2> HIDE DEF g
  <2>3. After(g)
    BY <2>1, <2>2
  <2>4. QED
    BY <2>3 DEF g
<1>3. Watch!Views = CHOOSE g : After(g)
  BY Zenon DEF Watch!Views
<1> HIDE DEF After
<1>4. After(Watch!Views)
  BY <1>2, <1>3, Zenon
<1> DEFINE views == Watch!Views
<1>5. views = [n \in 0..N |-> IF n = 0 THEN Watch!View ELSE Watch!Apply(views[n - 1], feed[n])]
  BY <1>4 DEF After
<1> HIDE DEF views
<1>6. Run(views, Watch!View, feed)
  <2>1. DOMAIN views = 0..N /\ 0 \in 0..N
    BY <1>5
  <2>2. views[0] = Watch!View
    BY <1>5, <2>1
  <2>3. ASSUME NEW n \in 1..N PROVE views[n] = Watch!Apply(views[n - 1], feed[n])
    <3>1. n \in 0..N /\ n # 0
      OBVIOUS
    <3>2. QED
      BY <1>5, <3>1
  <2>4. QED
    BY <2>1, <2>2, <2>3 DEF Run
<1>7. QED
  BY <1>6 DEF Ends, views

-----------------------------------------------------------------------------
(* The watch. *)

\* The arrays have of k what those of the subscription have.
Same(view, k) == \A n \in Notification : Holds(view, k, n) <=> Holds(Watch!View, k, n)

\* What the changes under way do to arrays that become last: a record that exists is not
\* lost, one that was read as it is now stays so, and what has been read will be so.
Leads(view, last, k) ==
  /\ data[k] # None /\ Has(view, k) => Has(last, k)
  /\ Agrees(view, k) => Agrees(last, k)
  /\ k \notin unread /\ Same(view, k) => Agrees(last, k)

\* While the query is read the changes wait, for whatever arrays the reads leave.
Reading ==
  phase = "reading" =>
    /\ \A k \in unread : ~Has(Watch!View, k)
    /\ \A view : Good(view) => \E last : Ends(view, feed, last)
    /\ \A view, last :
         Good(view) /\ Ends(view, feed, last) => Good(last) /\ \A k \in Events : Leads(view, last, k)

\* After it they lead from the arrays of the subscription to the database.
Live ==
  phase = "live" =>
    /\ \E last : Ends(Watch!View, feed, last)
    /\ \A last : Ends(Watch!View, feed, last) => Good(last) /\ \A k \in Events : Agrees(last, k)

WatchInv == Watch!TypeOK /\ Good(Watch!View) /\ Reading /\ Live

LEMMA WatchInit ==
  ASSUME Init
  PROVE  WatchInv
<1> USE DEF Init, Watch!Init
<1>1. Watch!TypeOK
  BY BoundsAssumption DEF Watch!TypeOK
<1>2. Good(Watch!View)
  BY DEF Good, Arrays, Watch!View
<1>3. QED
  BY <1>1, <1>2 DEF WatchInv, Reading, Live

\* What the announcement of a write does to arrays.
LEMMA Announcement ==
  ASSUME Watch!TypeOK, NEW e \in Events, NEW record \in Notification \cup {None},
         Watch!Write(e, record), NEW change \in Watch!Announced(e, record),
         NEW last, Good(last)
  PROVE  /\ Good(Watch!Apply(last, change))
         /\ \A k \in Events : k # e =>
              \A n \in Notification : Holds(Watch!Apply(last, change), k, n) <=> Holds(last, k, n)
         /\ record = None \/ data[e] = None \/ Has(last, e) => Agrees(Watch!Apply(last, change), e)'
<1>1. /\ change \in Watch!Change /\ change.key = e
      /\ record = None => change.type = "del"
      /\ record # None => change.type \in {"new", "upd"} /\ change.data = record
      /\ change.type = "upd" => data[e] # None
  BY DEF Watch!Announced, Watch!Change
<1> DEFINE new == Watch!Apply(last, change)
<1>2. Applied(last, change, new)
  BY <1>1, ApplyEffect
<1> HIDE DEF new
<1>3. data'[e] = record
  BY DEF Watch!Write, Watch!TypeOK
<1>4. ASSUME record = None \/ data[e] = None \/ Has(last, e) PROVE Agrees(new, e)'
  <2>1. CASE record = None
    <3>1. ~Has(new, e)
      BY <1>1, <1>2, <2>1 DEF Applied
    <3>2. QED
      BY <1>3, <2>1, <3>1, NoneIsNoRecord DEF Agrees, Has
  <2>2. CASE record # None
    <3>1. \A n \in Notification : Holds(new, e, n) <=> n = record
      BY <1>1, <1>2, <1>4, <2>2 DEF Applied
    <3>2. QED
      BY <1>3, <3>1 DEF Agrees
  <2>3. QED
    BY <2>1, <2>2
<1>5. QED
  BY <1>1, <1>2, <1>4 DEF Applied, new

LEMMA WriteInv ==
  ASSUME WatchInv, NEW e \in Events, NEW record \in Notification \cup {None},
         Watch!Write(e, record)
  PROVE  WatchInv'
<1> USE DEF WatchInv
<1>0. /\ data \in [Events -> Notification \cup {None}] /\ feed \in Seq(Watch!Change)
      /\ data' = [data EXCEPT ![e] = record] /\ unread \subseteq Events
      /\ UNCHANGED <<unread, phase, keys, values, emitted, failures>>
  BY DEF Watch!TypeOK, Watch!Write, Watch!clientVars
<1>1. Watch!View' = Watch!View /\ Good(Watch!View)'
  BY <1>0 DEF Watch!View, Good
<1>2. CASE phase = "waiting"
  BY <1>0, <1>1, <1>2 DEF Watch!Write, Watch!TypeOK, Reading, Live
<1>3. CASE phase # "waiting"
  <2>1. PICK change \in Watch!Announced(e, record) : feed' = Append(feed, change)
    BY <1>3 DEF Watch!Write
  <2>2. change \in Watch!Change
    BY DEF Watch!Announced, Watch!Change
  <2>3. Watch!TypeOK'
    BY <1>0, <2>1, <2>2 DEF Watch!TypeOK
  <2>4. \A view, last : Ends(view, feed', last) <=>
          \E l : Ends(view, feed, l) /\ last = Watch!Apply(l, change)
    BY <1>0, <2>1, <2>2, EndsAppend
  <2>5. \A l : Good(l) =>
          /\ Good(Watch!Apply(l, change))
          /\ \A k \in Events : k # e =>
               \A n \in Notification : Holds(Watch!Apply(l, change), k, n) <=> Holds(l, k, n)
          /\ record = None \/ data[e] = None \/ Has(l, e) => Agrees(Watch!Apply(l, change), e)'
    BY Announcement
  <2>6. \A k \in Events : k # e => data'[k] = data[k]
    BY <1>0
  <2>7. Reading'
    <3> SUFFICES ASSUME phase = "reading" PROVE Reading'
      BY <1>0 DEF Reading
    <3>1. \A k \in unread' : ~Has(Watch!View', k)
      BY <1>0, <1>1 DEF Reading
    <3>2. \A view : Good(view) => \E last : Ends(view, feed', last)
      BY <2>4 DEF Reading
    <3>3. ASSUME NEW view, NEW last, Good(view), Ends(view, feed', last), NEW k \in Events
          PROVE  Good(last) /\ Leads(view, last, k)'
      <4>1. PICK l : Ends(view, feed, l) /\ last = Watch!Apply(l, change)
        BY <2>4, <3>3
      <4>2. Good(l) /\ Leads(view, l, k)
        BY <3>3, <4>1 DEF Reading
      <4>3. /\ Good(last)
            /\ k # e => \A n \in Notification : Holds(last, k, n) <=> Holds(l, k, n)
            /\ record = None \/ data[e] = None \/ Has(l, e) => Agrees(last, e)'
        BY <2>5, <4>1, <4>2
      <4>4. CASE k # e
        <5>1. Has(last, k) <=> Has(l, k)
          BY <4>3, <4>4 DEF Has
        <5>2. Agrees(last, k)' <=> Agrees(l, k)
          BY <2>6, <4>3, <4>4 DEF Agrees
        <5>3. Agrees(view, k)' <=> Agrees(view, k)
          BY <2>6, <4>4 DEF Agrees
        <5>4. Same(view, k)' <=> Same(view, k)
          BY <1>1 DEF Same
        <5>5. QED
          BY <1>0, <2>6, <4>2, <4>3, <4>4, <5>1, <5>2, <5>3, <5>4 DEF Leads
      <4>5. CASE k = e
        <5>1. data'[e] = record
          BY <1>0
        <5>2. record # None /\ Agrees(last, e)' => Has(last, e)
          BY <5>1 DEF Agrees, Has
        <5>3. record # None /\ Agrees(view, e)' => Has(view, e)
          BY <5>1 DEF Agrees, Has
        <5>4. data[e] # None /\ Agrees(l, e) => Has(l, e)
          BY <1>0 DEF Agrees, Has
        <5>5. Same(view, e)' <=> Same(view, e)
          BY <1>1 DEF Same
        <5>6. record = None => Agrees(last, e)'
          BY <4>3
        <5>7. QED
          BY <1>0, <4>2, <4>3, <4>5, <5>1, <5>2, <5>3, <5>4, <5>5, <5>6 DEF Leads
      <4>6. QED
        BY <4>4, <4>5
    <3>4. QED
      BY <3>1, <3>2, <3>3 DEF Reading
  <2>8. Live'
    <3> SUFFICES ASSUME phase = "live" PROVE Live'
      BY <1>0 DEF Live
    <3>1. \E last : Ends(Watch!View, feed', last)
      BY <2>4 DEF Live
    <3>2. ASSUME NEW last, Ends(Watch!View, feed', last), NEW k \in Events
          PROVE  Good(last) /\ Agrees(last, k)'
      <4>1. PICK l : Ends(Watch!View, feed, l) /\ last = Watch!Apply(l, change)
        BY <2>4, <3>2
      <4>2. Good(l) /\ Agrees(l, k) /\ Agrees(l, e)
        BY <4>1 DEF Live
      <4>3. /\ Good(last)
            /\ k # e => \A n \in Notification : Holds(last, k, n) <=> Holds(l, k, n)
            /\ record = None \/ data[e] = None \/ Has(l, e) => Agrees(last, e)'
        BY <2>5, <4>1, <4>2
      <4>4. data[e] = None \/ Has(l, e)
        BY <1>0, <4>2 DEF Agrees, Has
      <4>5. k # e => Agrees(last, k)'
        BY <2>6, <4>2, <4>3 DEF Agrees
      <4>6. QED
        BY <4>3, <4>4, <4>5
    <3>3. QED
      BY <1>1, <3>1, <3>2 DEF Live
  <2>9. QED
    BY <1>1, <2>3, <2>7, <2>8
<1>4. QED
  BY <1>2, <1>3

LEMMA SubscribeInv ==
  ASSUME WatchInv, Watch!Subscribe
  PROVE  WatchInv'
<1> USE DEF WatchInv, Watch!Subscribe
<1>1. Watch!TypeOK'
  BY DEF Watch!TypeOK
<1>2. Good(Watch!View)' /\ \A k \in Events : ~Has(Watch!View', k)
  BY DEF Good, Arrays, Watch!View, Has, Holds
<1>3. unread' = Events /\ feed' = <<>> /\ phase' = "reading"
  OBVIOUS
<1>4. \A view, last : Ends(view, feed', last) <=> last = view
  BY <1>3, EndsEmpty
<1>5. \A view : Good(view) => \E last : Ends(view, feed', last)
  BY <1>4
<1>6. ASSUME NEW view, NEW k \in Events PROVE Leads(view, view, k)'
  BY <1>3 DEF Leads
<1>7. Reading'
  BY <1>2, <1>3, <1>4, <1>5, <1>6 DEF Reading
<1>8. QED
  BY <1>1, <1>2, <1>3, <1>7 DEF Live

\* A record that is read now is what the changes under way lead to: those of its key are
\* older, and there is one that removes it if it has gone.
LEMMA ReadInv ==
  ASSUME WatchInv, NEW key \in Events, Watch!Read(key)
  PROVE  WatchInv'
<1> USE DEF WatchInv
<1>0. /\ data \in [Events -> Notification \cup {None}]
      /\ keys \in Seq(Events) /\ values \in Seq(Notification) /\ Len(keys) = Len(values)
      /\ phase = "reading" /\ key \in unread /\ unread' = unread \ {key}
      /\ UNCHANGED <<data, feed, phase, emitted, failures>>
  BY DEF Watch!TypeOK, Watch!Read
<1>1. \A k \in unread : ~Has(Watch!View, k)
  BY <1>0 DEF Reading
<1>2. /\ keys' \in Seq(Events) /\ values' \in Seq(Notification) /\ Len(keys') = Len(values')
      /\ Good(Watch!View')
      /\ \A k \in Events, n \in Notification :
           Holds(Watch!View', k, n) <=> Holds(Watch!View, k, n) \/ (k = key /\ n = data[key])
  <2>1. CASE data[key] = None
    <3>1. keys' = keys /\ values' = values /\ Watch!View' = Watch!View
      BY <2>1 DEF Watch!Read, Watch!View
    <3>2. QED
      BY <1>0, <2>1, <3>1, NoneIsNoRecord
  <2>2. CASE data[key] # None
    <3>1. keys' = Append(keys, key) /\ values' = Append(values, data[key])
      BY <2>2 DEF Watch!Read
    <3>2. data[key] \in Notification
      BY <1>0, <2>2
    <3> DEFINE L == Len(keys)
    <3>3. /\ keys' \in Seq(Events) /\ Len(keys') = L + 1 /\ keys'[L + 1] = key
          /\ \A i \in 1..L : keys'[i] = keys[i]
      BY <1>0, <3>1, AppendProperties
    <3>4. /\ values' \in Seq(Notification) /\ Len(values') = L + 1
          /\ values'[L + 1] = data[key]
          /\ \A i \in 1..L : values'[i] = values[i]
      BY <1>0, <3>1, <3>2, AppendProperties
    <3>5. /\ L \in Nat
          /\ \A i \in 1..(L + 1) : i \in 1..L \/ i = L + 1
          /\ 1..L \subseteq 1..(L + 1) /\ L + 1 \in 1..(L + 1)
      BY <1>0
    <3>6. \A i \in 1..L : keys[i] # key
      <4> SUFFICES ASSUME NEW i \in 1..L, keys[i] = key PROVE FALSE
        OBVIOUS
      <4>1. values[i] \in Notification
        BY <1>0
      <4>2. Holds(Watch!View, key, values[i])
        BY DEF Holds, Watch!View
      <4>3. QED
        BY <1>0, <1>1, <4>1, <4>2 DEF Has
    <3>7. \A i, j \in 1..L : keys[i] = keys[j] => i = j
      BY DEF Good, Watch!View
    <3>8. Watch!View' = [keys |-> keys', values |-> values']
      BY DEF Watch!View
    <3> HIDE DEF L
    <3>9. Good(Watch!View')
      BY <3>3, <3>4, <3>5, <3>6, <3>7, <3>8 DEF Good, Arrays
    <3>10. ASSUME NEW k \in Events, NEW n \in Notification
           PROVE  Holds(Watch!View', k, n) <=> Holds(Watch!View, k, n) \/ (k = key /\ n = data[key])
      <4>1. Holds(Watch!View', k, n) <=> \E i \in 1..(L + 1) : keys'[i] = k /\ values'[i] = n
        BY <3>3, <3>8 DEF Holds
      <4>2. Holds(Watch!View, k, n) <=> \E i \in 1..L : keys[i] = k /\ values[i] = n
        BY DEF Holds, Watch!View, L
      <4>3. QED
        BY <3>3, <3>4, <3>5, <4>1, <4>2
    <3>11. QED
      BY <3>3, <3>4, <3>9, <3>10
  <2>3. QED
    BY <2>1, <2>2
<1>3. Watch!TypeOK'
  BY <1>0, <1>2 DEF Watch!TypeOK
<1>4. \A k \in unread' : ~Has(Watch!View', k)
  BY <1>0, <1>1, <1>2, <1>3 DEF Has, Watch!TypeOK
<1>5. ASSUME NEW view, NEW last, Good(view), Ends(view, feed, last), NEW k \in Events
      PROVE  Good(last) /\ Leads(view, last, k)'
  <2>1. Good(last) /\ Leads(view, last, k)
    BY <1>0, <1>5 DEF Reading
  <2>2. /\ Agrees(view, k)' <=> Agrees(view, k)
        /\ Agrees(last, k)' <=> Agrees(last, k)
    BY <1>0 DEF Agrees
  <2>3. ASSUME k \notin unread', Same(view, k)' PROVE Agrees(last, k)
    <3>1. CASE k = key
      <4>1. \A n \in Notification : ~Holds(Watch!View, key, n)
        BY <1>0, <1>1 DEF Has
      <4>2. Agrees(view, key)
        BY <1>2, <2>3, <3>1, <4>1 DEF Same, Agrees
      <4>3. QED
        BY <2>1, <3>1, <4>2 DEF Leads
    <3>2. CASE k # key
      <4>1. k \notin unread
        BY <1>0, <2>3, <3>2
      <4>2. Same(view, k)
        BY <1>2, <2>3, <3>2 DEF Same
      <4>3. QED
        BY <2>1, <4>1, <4>2 DEF Leads
    <3>3. QED
      BY <3>1, <3>2
  <2>4. QED
    BY <1>0, <2>1, <2>2, <2>3 DEF Leads
<1>6. \A view : Good(view) => \E last : Ends(view, feed, last)
  BY <1>0 DEF Reading
<1>7. Reading'
  BY <1>0, <1>4, <1>5, <1>6 DEF Reading
<1>8. Live'
  BY <1>0 DEF Live
<1>9. QED
  BY <1>2, <1>3, <1>7, <1>8

LEMMA DoneInv ==
  ASSUME WatchInv, Watch!Done
  PROVE  WatchInv'
<1> USE DEF WatchInv
<1>0. /\ phase = "reading" /\ unread = {} /\ phase' = "live" /\ emitted' = values
      /\ UNCHANGED <<data, feed, unread, keys, values, failures>>
  BY DEF Watch!Done
<1>1. Watch!TypeOK'
  BY <1>0 DEF Watch!TypeOK
<1>2. Watch!View' = Watch!View
  BY <1>0 DEF Watch!View
<1>3. \A k \in Events : Same(Watch!View, k)
  BY DEF Same
<1>4. \E last : Ends(Watch!View, feed, last)
  BY <1>0 DEF Reading
<1>5. ASSUME NEW last, Ends(Watch!View, feed, last)
      PROVE  Good(last) /\ \A k \in Events : Agrees(last, k)'
  <2>1. Good(last) /\ \A k \in Events : Leads(Watch!View, last, k)
    BY <1>0, <1>5 DEF Reading
  <2>2. QED
    BY <1>0, <1>3, <2>1 DEF Leads, Agrees
<1>6. Live'
  BY <1>0, <1>2, <1>4, <1>5 DEF Live
<1>7. Reading'
  BY <1>0 DEF Reading
<1>8. QED
  BY <1>1, <1>2, <1>6, <1>7

LEMMA DeliverInv ==
  ASSUME WatchInv, Watch!Deliver
  PROVE  WatchInv'
<1> USE DEF WatchInv
<1> DEFINE new == Watch!Apply(Watch!View, Head(feed))
<1>0. /\ phase = "live" /\ feed # <<>> /\ feed' = Tail(feed)
      /\ keys' = new.keys /\ values' = new.values /\ emitted' = new.values
      /\ UNCHANGED <<data, unread, phase, failures>>
  BY DEF Watch!Deliver
<1>1. feed \in Seq(Watch!Change)
  BY DEF Watch!TypeOK
<1>2. Head(feed) \in Watch!Change /\ Tail(feed) \in Seq(Watch!Change)
  BY <1>0, <1>1, HeadTailProperties
<1>3. Good(new)
  BY <1>2, ApplyEffect DEF Applied
<1>4. \A last : Ends(new, feed', last) <=> Ends(Watch!View, feed, last)
  BY <1>0, <1>1, EndsTail
<1> HIDE DEF new
<1>5. Watch!View' = new
  BY <1>0, <1>3 DEF Good, Arrays, Watch!View
<1>6. Watch!TypeOK'
  BY <1>0, <1>2, <1>3 DEF Good, Arrays, Watch!TypeOK
<1>7. Live'
  BY <1>0, <1>4, <1>5 DEF Live, Agrees
<1>8. Reading'
  BY <1>0 DEF Reading
<1>9. QED
  BY <1>3, <1>5, <1>6, <1>7, <1>8

LEMMA FailInv ==
  ASSUME WatchInv, Watch!Fail
  PROVE  WatchInv'
<1> USE DEF WatchInv, Watch!Fail
<1>1. Watch!TypeOK'
  BY BoundsAssumption DEF Watch!TypeOK
<1>2. Good(Watch!View)'
  BY DEF Good, Arrays, Watch!View
<1>3. QED
  BY <1>1, <1>2 DEF Reading, Live

\* What is shown in the end is the database, if the feed leads there.
LEMMA FeedLeads ==
  ASSUME WatchInv
  PROVE  FeedLeadsToData
<1> SUFFICES ASSUME phase = "live" PROVE Watch!Shows(Watch!Views[Len(feed)], data)
  BY DEF FeedLeadsToData, Watch!FeedLeadsToData
<1> DEFINE last == Watch!Views[Len(feed)]
<1>1. Ends(Watch!View, feed, last)
  <2>1. Len(feed) \in Nat
    BY DEF WatchInv, Watch!TypeOK
  <2>2. QED
    BY <2>1, ViewsRun DEF WatchInv, Live
<1> HIDE DEF last
<1>2. Good(last) /\ \A k \in Events : Agrees(last, k)
  BY <1>1 DEF WatchInv, Live
<1>3. data \in [Events -> Notification \cup {None}]
  BY DEF WatchInv, Watch!TypeOK
<1> DEFINE pairs == {<<last.keys[i], last.values[i]>> : i \in DOMAIN last.keys}
           records == {<<k, data[k]>> : k \in {key \in Events : data[key] # None}}
<1>4. /\ last.keys \in Seq(Events) /\ last.values \in Seq(Notification)
      /\ Len(last.keys) = Len(last.values) /\ DOMAIN last.keys = 1..Len(last.keys)
      /\ \A i \in 1..Len(last.keys) : last.keys[i] \in Events /\ last.values[i] \in Notification
  BY <1>2 DEF Good, Arrays
<1>5. Watch!IsInjective(last.keys)
  BY <1>2, <1>4 DEF Good, Watch!IsInjective
<1>6. ASSUME NEW i \in 1..Len(last.keys)
      PROVE  data[last.keys[i]] # None /\ last.values[i] = data[last.keys[i]]
  <2>1. Holds(last, last.keys[i], last.values[i])
    BY DEF Holds
  <2>2. QED
    BY <1>2, <1>4, <2>1, NoneIsNoRecord DEF Agrees
<1>7. ASSUME NEW k \in Events, data[k] # None
      PROVE  \E i \in 1..Len(last.keys) : last.keys[i] = k /\ last.values[i] = data[k]
  BY <1>2, <1>3, <1>7 DEF Agrees, Holds
<1>8. pairs = records
  <2>1. ASSUME NEW i \in 1..Len(last.keys)
        PROVE  <<last.keys[i], last.values[i]>> \in records
    BY <1>4, <1>6
  <2>2. ASSUME NEW k \in Events, data[k] # None
        PROVE  <<k, data[k]>> \in pairs
    <3>1. PICK i \in 1..Len(last.keys) : last.keys[i] = k /\ last.values[i] = data[k]
      BY <1>7, <2>2
    <3>2. QED
      BY <1>4, <3>1
  <2>3. QED
    BY <1>4, <2>1, <2>2
<1>9. QED
  BY <1>5, <1>8 DEF Watch!Shows, last

-----------------------------------------------------------------------------
(* The notifications. *)

\* An answer is only on its way to the engine if its action has been performed, or is of a
\* type nobody handles.
Performed ==
  \A task \in tasks :
    task.step = "update" => Unhandled(task.action) \/ Answer(task) \in performed

\* The GUID of an event's notification, or the last one of all when there is none.
Newest(e) == IF data[e] = None \/ data[e].GUID = 0 THEN raised ELSE data[e].GUID

\* What the UI has of an event is not newer than what the engine has.
NotNewer(n) == n.GUID <= Newest(n.EventID)

\* What is stored of an event bears its EventID and a GUID that was given out.
Stamped ==
  \A e \in Events : data[e] # None => data[e].EventID = e /\ data[e].GUID <= raised

Received ==
  /\ \A i \in 1..Len(values) : NotNewer(values[i])
  /\ \A i \in 1..Len(emitted) : NotNewer(emitted[i])
  /\ \A i \in 1..Len(feed) : feed[i].type # "del" => NotNewer(feed[i].data)
Offered ==
  /\ \A alert \in alerts : NotNewer(alert.notification)
  /\ \A task \in tasks : NotNewer(task.notification)

Dated == Stamped /\ Received /\ Offered

IInv == TypeOK /\ WatchInv /\ Dated /\ Performed /\ SelectedWasPerformed

LEMMA NewestType ==
  ASSUME TypeOK, NEW e \in Events
  PROVE  Newest(e) \in Nat /\ (Stamped => Newest(e) <= raised)
<1>1. raised \in Nat /\ data[e] \in Notification \cup {None} /\ MaxRaised \in Nat
  BY BoundsAssumption DEF TypeOK, Watch!TypeOK
<1>2. data[e] # None => data[e].GUID \in Nat
  BY <1>1 DEF Notification
<1>3. QED
  BY <1>1, <1>2 DEF Newest, Stamped

\* What is stored of an event is either a notification raised just now, or bears the GUID
\* of the one that was there, or has none.
Succeeds(e, record) ==
  \/ record = None
  \/ /\ record # None /\ record.EventID = e
     /\ \/ record.GUID = 0
        \/ data[e] = None /\ record.GUID = raised' /\ raised' = raised + 1
        \/ data[e] # None /\ record.GUID = data[e].GUID

\* The GUID of an event never falls, so that what the UI has stays as old as it was.
LEMMA NewestGrows ==
  ASSUME TypeOK, TypeOK', Stamped, NEW e \in Events, NEW record \in Notification \cup {None},
         Watch!Write(e, record), Succeeds(e, record), raised' \in {raised, raised + 1}
  PROVE  /\ Stamped'
         /\ \A k \in Events : Newest(k) <= Newest(k)'
         /\ record # None => NotNewer(record)'
<1>1. /\ data \in [Events -> Notification \cup {None}] /\ data' = [data EXCEPT ![e] = record]
      /\ raised \in Nat /\ raised' \in Nat /\ raised <= raised' /\ MaxRaised \in Nat
  BY BoundsAssumption DEF TypeOK, Watch!TypeOK, Watch!Write
<1>2. \A n \in Notification : n.GUID \in Nat
  BY <1>1 DEF Notification
<1>3. record # None => record.EventID = e /\ record.GUID \in Nat /\ record.GUID <= raised'
  <2> SUFFICES ASSUME record # None
               PROVE  record.EventID = e /\ record.GUID \in Nat /\ record.GUID <= raised'
    OBVIOUS
  <2>1. record.GUID \in Nat /\ record.EventID = e
    BY <1>2 DEF Succeeds
  <2>2. data[e] # None => data[e].GUID <= raised /\ data[e].GUID \in Nat
    BY <1>1, <1>2 DEF Stamped
  <2>3. QED
    BY <1>1, <2>1, <2>2 DEF Succeeds
<1>4. Stamped'
  <2> SUFFICES ASSUME NEW k \in Events, data'[k] # None
               PROVE  data'[k].EventID = k /\ data'[k].GUID <= raised'
    BY DEF Stamped
  <2>1. CASE k = e
    BY <1>1, <1>3, <2>1
  <2>2. CASE k # e
    <3>1. data'[k] = data[k] /\ data[k] # None /\ data[k] \in Notification
      BY <1>1, <2>2
    <3>2. data[k].EventID = k /\ data[k].GUID <= raised /\ data[k].GUID \in Nat
      BY <1>2, <3>1 DEF Stamped
    <3>3. QED
      BY <1>1, <3>1, <3>2
  <2>3. QED
    BY <2>1, <2>2
<1>5. ASSUME NEW k \in Events PROVE Newest(k) <= Newest(k)'
  <2>1. Newest(k) \in Nat /\ Newest(k) <= raised
    BY NewestType
  <2>2. CASE k # e
    <3>1. data'[k] = data[k]
      BY <1>1, <2>2
    <3>2. data[k] # None => data[k].GUID \in Nat
      BY <1>1, <1>2
    <3>3. QED
      BY <1>1, <3>1, <3>2 DEF Newest
  <2>3. CASE k = e /\ (record = None \/ record.GUID = 0)
    <3>1. Newest(k)' = raised'
      BY <1>1, <2>3 DEF Newest
    <3>2. QED
      BY <1>1, <2>1, <3>1
  <2>4. CASE k = e /\ record # None /\ record.GUID # 0
    <3>1. Newest(k)' = record.GUID
      BY <1>1, <2>4 DEF Newest
    <3>2. CASE data[e] = None
      BY <1>1, <2>1, <2>4, <3>1, <3>2 DEF Succeeds
    <3>3. CASE data[e] # None
      <4>1. record.GUID = data[e].GUID
        BY <2>4, <3>3 DEF Succeeds
      <4>2. Newest(k) = data[e].GUID
        BY <2>4, <3>3, <4>1 DEF Newest
      <4>3. QED
        BY <1>2, <1>3, <2>4, <3>1, <4>1, <4>2
    <3>4. QED
      BY <3>2, <3>3
  <2>5. QED
    BY <2>2, <2>3, <2>4
<1>6. record # None => NotNewer(record)'
  <2> SUFFICES ASSUME record # None PROVE record.GUID <= Newest(e)'
    BY <1>3 DEF NotNewer
  <2>1. data'[e] = record
    BY <1>1
  <2>2. QED
    BY <1>1, <1>3, <2>1 DEF Newest
<1>7. QED
  BY <1>4, <1>5, <1>6

LEMMA StaysOlder ==
  ASSUME TypeOK, TypeOK', \A k \in Events : Newest(k) <= Newest(k)',
         NEW n \in Notification, NotNewer(n)
  PROVE  NotNewer(n)'
<1>1. n.EventID \in Events /\ n.GUID \in Nat
  BY BoundsAssumption DEF Notification
<1>2. Newest(n.EventID) \in Nat
  BY <1>1, NewestType
<1>3. Newest(n.EventID)' \in Nat
  <2>1. raised' \in Nat /\ data'[n.EventID] \in Notification \cup {None}
    BY <1>1, BoundsAssumption DEF TypeOK, Watch!TypeOK
  <2>2. data'[n.EventID] # None => data'[n.EventID].GUID \in Nat
    BY <2>1, BoundsAssumption DEF Notification
  <2>3. QED
    BY <2>1, <2>2 DEF Newest
<1>4. QED
  BY <1>1, <1>2, <1>3 DEF NotNewer

\* A write reaches the UI as a change in the feed, if at all.
LEMMA WriteDated ==
  ASSUME TypeOK, TypeOK', Dated, NEW e \in Events, NEW record \in Notification \cup {None},
         Watch!Write(e, record), Succeeds(e, record), raised' \in {raised, raised + 1},
         alerts' = alerts, tasks' \subseteq tasks
  PROVE  Dated'
<1>1. /\ Stamped'
      /\ \A k \in Events : Newest(k) <= Newest(k)'
      /\ record # None => NotNewer(record)'
  BY NewestGrows DEF Dated
<1>2. \A n \in Notification : NotNewer(n) => NotNewer(n)'
  BY <1>1, StaysOlder
<1>3. /\ values \in Seq(Notification) /\ emitted \in Seq(Notification) /\ feed \in Seq(Watch!Change)
      /\ values' = values /\ emitted' = emitted
      /\ feed' = feed \/ \E change \in Watch!Announced(e, record) : feed' = Append(feed, change)
  BY DEF TypeOK, Watch!TypeOK, Watch!Write, Watch!clientVars
<1>4. ASSUME NEW i \in 1..Len(feed'), feed'[i].type # "del", NEW n, n = feed'[i].data
      PROVE  NotNewer(n)'
  <2>1. ASSUME NEW j \in 1..Len(feed), feed[j].type # "del", n = feed[j].data
        PROVE  NotNewer(n)'
    <3>1. feed[j] \in Watch!Change
      BY <1>3
    <3>2. n \in Notification
      BY <2>1, <3>1 DEF Watch!Change
    <3>3. NotNewer(n)
      BY <2>1 DEF Dated, Received
    <3>4. QED
      BY <1>2, <3>2, <3>3
  <2>2. CASE feed' = feed
    BY <1>4, <2>1, <2>2
  <2>3. CASE \E change \in Watch!Announced(e, record) : feed' = Append(feed, change)
    <3>1. PICK change \in Watch!Announced(e, record) : feed' = Append(feed, change)
      BY <2>3
    <3>2. change.type # "del" => record # None /\ change.data = record
      BY <3>1 DEF Watch!Announced
    <3>3. CASE i = Len(feed) + 1
      <4>1. feed'[i] = change
        BY <1>3, <3>1, <3>3
      <4>2. record # None /\ n = record
        BY <1>4, <3>2, <4>1
      <4>3. n.GUID <= Newest(n.EventID)'
        BY <1>1, <4>2 DEF NotNewer
      <4>4. QED
        BY <4>3 DEF NotNewer
    <3>4. CASE i # Len(feed) + 1
      <4>1. i \in 1..Len(feed) /\ feed'[i] = feed[i]
        BY <1>3, <1>4, <3>1, <3>4
      <4>2. QED
        BY <1>4, <2>1, <4>1
    <3>5. QED
      BY <3>3, <3>4
  <2>4. QED
    BY <1>3, <2>2, <2>3
<1>5. Received'
  <2>1. ASSUME NEW i \in 1..Len(values'), NEW n, n = values'[i] PROVE NotNewer(n)'
    BY <1>2, <1>3, <2>1 DEF Dated, Received
  <2>2. ASSUME NEW i \in 1..Len(emitted'), NEW n, n = emitted'[i] PROVE NotNewer(n)'
    BY <1>2, <1>3, <2>2 DEF Dated, Received
  <2>3. QED
    BY <1>4, <2>1, <2>2 DEF Received, NotNewer, Newest
<1>6. Offered'
  <2>1. \A alert \in alerts : alert.notification \in Notification
    BY DEF TypeOK, Alert
  <2>2. \A task \in tasks : task.notification \in Notification
    BY DEF TypeOK, Task
  <2>3. QED
    BY <1>2, <2>1, <2>2 DEF Dated, Offered
<1>7. QED
  BY <1>1, <1>5, <1>6 DEF Dated

\* Where nothing is written and nothing arrives, only what is offered can change.
LEMMA OfferDated ==
  ASSUME Dated, UNCHANGED <<watchVars, raised>>,
         \A alert \in alerts' \ alerts : NotNewer(alert.notification),
         \A task \in tasks' : \E old \in alerts \cup tasks : task.notification = old.notification
  PROVE  Dated'
<1>1. \A n : NotNewer(n)' <=> NotNewer(n)
  BY DEF NotNewer, Newest, watchVars
<1>2. Stamped' /\ Received'
  BY <1>1 DEF Dated, Stamped, Received, watchVars
<1>3. Offered'
  BY <1>1 DEF Dated, Offered
<1>4. QED
  BY <1>2, <1>3 DEF Dated

\* What a delivery leaves in the array was there or is in the change.
LEMMA DeliveredDated ==
  ASSUME TypeOK, WatchInv, WatchInv', Received, Watch!Deliver, UNCHANGED raised
  PROVE  Received'
<1> DEFINE new == Watch!Apply(Watch!View, Head(feed))
           change == Head(feed)
<1>1. /\ feed # <<>> /\ feed' = Tail(feed) /\ feed \in Seq(Watch!Change)
      /\ keys' = new.keys /\ values' = new.values /\ emitted' = new.values /\ data' = data
      /\ values \in Seq(Notification) /\ keys \in Seq(Events)
  BY DEF Watch!Deliver, WatchInv, Watch!TypeOK
<1>2. /\ change \in Watch!Change /\ change = feed[1] /\ 1 \in 1..Len(feed)
      /\ Len(feed') = Len(feed) - 1 /\ \A i \in 1..Len(feed') : feed'[i] = feed[i + 1]
  BY <1>1
<1>3. Applied(Watch!View, change, new)
  BY <1>2, ApplyEffect DEF WatchInv
<1> HIDE DEF new, change
<1>4. \A n : NotNewer(n)' <=> NotNewer(n)
  BY <1>1 DEF NotNewer, Newest
<1>5. ASSUME NEW i \in 1..Len(new.values) PROVE NotNewer(new.values[i])
  <2> DEFINE n == new.values[i]
             k == new.keys[i]
  <2>1. n \in Notification /\ k \in Events /\ i \in 1..Len(new.keys)
    BY <1>3 DEF Applied, Good, Arrays
  <2>2. Holds(new, k, n)
    BY <2>1 DEF Holds
  <2> HIDE DEF n, k
  <2>3. CASE Holds(Watch!View, k, n)
    <3>1. \E j \in 1..Len(keys) : values[j] = n
      BY <2>3 DEF Holds, Watch!View
    <3>2. Len(keys) = Len(values)
      BY DEF WatchInv, Watch!TypeOK
    <3>3. QED
      BY <3>1, <3>2 DEF Received, n
  <2>4. CASE ~Holds(Watch!View, k, n)
    <3>1. k = change.key
      BY <1>3, <2>1, <2>2, <2>4 DEF Applied
    <3>2. change.type # "del"
      BY <1>3, <2>1, <2>2, <3>1 DEF Applied, Has
    <3>3. change.type \in {"new", "upd"}
      BY <1>2, <3>2 DEF Watch!Change
    <3>4. n = change.data
      <4>1. CASE change.type = "new" \/ Has(Watch!View, k)
        BY <1>3, <2>1, <2>2, <3>1, <3>3, <4>1 DEF Applied
      <4>2. CASE change.type = "upd" /\ ~Has(Watch!View, k)
        <5>1. new = Watch!View
          <6>1. ~\E j \in DOMAIN Watch!View.keys : Watch!View.keys[j] = change.key
            <7> SUFFICES ASSUME NEW j \in DOMAIN keys, keys[j] = k PROVE FALSE
              BY <3>1 DEF Watch!View
            <7>1. j \in 1..Len(keys) /\ Len(keys) = Len(values) /\ values[j] \in Notification
              BY <1>1 DEF WatchInv, Watch!TypeOK
            <7>2. Holds(Watch!View, k, values[j])
              BY <7>1 DEF Holds, Watch!View
            <7>3. QED
              BY <4>2, <7>1, <7>2 DEF Has
          <6>2. QED
            BY <4>2, <6>1 DEF new, change, Watch!Apply
        <5>2. QED
          BY <2>2, <2>4, <5>1
      <4>3. QED
        BY <3>3, <4>1, <4>2
    <3>5. QED
      BY <1>2, <3>2, <3>4 DEF Received, n
  <2>5. QED
    BY <2>3, <2>4
<1>6. ASSUME NEW i \in 1..Len(feed'), feed'[i].type # "del" PROVE NotNewer(feed'[i].data)
  <2>1. i + 1 \in 1..Len(feed) /\ feed'[i] = feed[i + 1]
    BY <1>1, <1>2
  <2>2. QED
    BY <1>6, <2>1 DEF Received
<1>7. QED
  BY <1>1, <1>4, <1>5, <1>6 DEF Received

LEMMA ReceiveDated ==
  ASSUME TypeOK, TypeOK', WatchInv, WatchInv', Dated, Watch!Receive \/ Watch!Fail,
         UNCHANGED <<raised, uiVars>>
  PROVE  Dated'
<1>1. data' = data
  BY DEF Watch!Receive, Watch!Subscribe, Watch!Read, Watch!Done, Watch!Deliver, Watch!Fail
<1>2. \A n : NotNewer(n)' <=> NotNewer(n)
  BY <1>1 DEF NotNewer, Newest
<1>3. Stamped' /\ Offered'
  BY <1>1, <1>2 DEF Dated, Stamped, Offered, uiVars
<1>4. ASSUME Watch!Subscribe \/ Watch!Done \/ Watch!Fail PROVE Received'
  BY <1>2, <1>4 DEF Dated, Received, Watch!Subscribe, Watch!Done, Watch!Fail
<1>5. ASSUME NEW k \in Events, Watch!Read(k) PROVE Received'
  <2>1. UNCHANGED <<feed, emitted>> /\ values \in Seq(Notification)
    BY <1>5 DEF Watch!Read, TypeOK, Watch!TypeOK
  <2>2. CASE values' = values
    BY <1>2, <2>1, <2>2 DEF Dated, Received
  <2>3. CASE data[k] # None /\ values' = Append(values, data[k])
    <3>1. data[k].EventID = k /\ data[k].GUID <= raised /\ data[k] \in Notification
      BY <2>3 DEF Dated, Stamped, TypeOK, Watch!TypeOK
    <3>2. NotNewer(data[k])
      <4>1. data[k].GUID \in Nat
        BY <3>1, BoundsAssumption DEF Notification
      <4>2. QED
        BY <2>3, <3>1, <4>1 DEF NotNewer, Newest
    <3>3. ASSUME NEW i \in 1..Len(values') PROVE NotNewer(values'[i])
      <4>1. CASE i = Len(values) + 1
        BY <2>1, <2>3, <3>1, <3>2, <4>1
      <4>2. CASE i # Len(values) + 1
        <5>1. i \in 1..Len(values) /\ values'[i] = values[i]
          BY <2>1, <2>3, <3>1, <3>3, <4>2
        <5>2. QED
          BY <5>1 DEF Dated, Received
      <4>3. QED
        BY <4>1, <4>2
    <3>4. QED
      BY <1>2, <2>1, <3>3 DEF Dated, Received
  <2>4. QED
    BY <1>5, <2>2, <2>3 DEF Watch!Read
<1>6. ASSUME Watch!Deliver PROVE Received'
  BY <1>6, DeliveredDated DEF Dated
<1>7. QED
  BY <1>3, <1>4, <1>5, <1>6 DEF Dated, Watch!Receive

\* What a stored record may say of a selected action.
Justified(e, record) ==
  record # None /\ record.SelectedActionID # None =>
    \/ Unhandled(record.SelectedActionID)
    \/ \E i \in 0..MaxRaised :
         <<e, i, record.SelectedActionID>> \in performed /\ (record.GUID = 0 \/ i <= record.GUID)

LEMMA WrittenAnswer ==
  ASSUME IInv, NEW e \in Events, NEW record \in Notification \cup {None},
         Watch!Write(e, record), UNCHANGED performed, Justified(e, record)
  PROVE  SelectedWasPerformed'
<1>1. data' = [data EXCEPT ![e] = record] /\ data \in [Events -> Notification \cup {None}]
  BY DEF IInv, TypeOK, Watch!TypeOK, Watch!Write
<1>2. ASSUME NEW k \in Events PROVE Justified(k, data'[k])
  BY <1>1 DEF IInv, SelectedWasPerformed, Justified
<1>3. QED
  BY <1>2 DEF SelectedWasPerformed, Justified

LEMMA InitInv == Init => IInv
<1> SUFFICES ASSUME Init PROVE IInv
  OBVIOUS
<1>1. WatchInv
  BY WatchInit
<1>2. TypeOK
  BY <1>1, BoundsAssumption DEF Init, TypeOK, WatchInv
<1>3. Performed /\ SelectedWasPerformed
  BY DEF Init, Performed, SelectedWasPerformed
<1>4. Dated
  BY DEF Init, Watch!Init, Dated, Stamped, Received, Offered
<1>5. QED
  BY <1>1, <1>2, <1>3, <1>4 DEF IInv

\* The engine raises, withdraws and executes; none of that is an answer.
LEMMA EngineInv ==
  ASSUME IInv, NEW e \in Events, Raise(e) \/ Withdraw(e) \/ Executed(e)
  PROVE  IInv'
<1> USE DEF IInv
<1>0. /\ raised \in 0..MaxRaised /\ MaxRaised \in Nat /\ None \notin Actions
      /\ data \in [Events -> Notification \cup {None}]
  BY BoundsAssumption, ActionsAssumption DEF TypeOK, Watch!TypeOK
<1>1. \E record \in Notification \cup {None} :
        Watch!Write(e, record) /\ Justified(e, record) /\ Succeeds(e, record)
  <2>1. CASE Raise(e)
    <3> DEFINE record == [EventID |-> e, GUID |-> raised + 1, State |-> "active",
                          SelectedActionID |-> None]
    <3>1. raised + 1 \in 0..MaxRaised
      BY <1>0, <2>1 DEF Raise
    <3>2. record \in Notification
      BY <3>1 DEF Notification, NotificationState
    <3>3. Watch!Write(e, record) /\ record.SelectedActionID = None
      BY <2>1 DEF Raise
    <3>4. Succeeds(e, record)
      BY <2>1 DEF Succeeds, Raise
    <3> HIDE DEF record
    <3>5. QED
      BY <3>2, <3>3, <3>4 DEF Justified
  <2>2. CASE Withdraw(e)
    BY <2>2 DEF Withdraw, Justified, Succeeds
  <2>3. CASE Executed(e)
    <3> DEFINE record == [data[e] EXCEPT !.State = "executed"]
    <3>1. data[e] \in Notification
      BY <1>0, <2>3 DEF Executed
    <3>2. /\ record \in Notification /\ record.SelectedActionID = data[e].SelectedActionID
          /\ record.GUID = data[e].GUID /\ record.EventID = data[e].EventID
      BY <3>1 DEF Notification, NotificationState
    <3>3. Watch!Write(e, record) /\ data[e] # None
      BY <2>3 DEF Executed
    <3>4. record # None
      BY <3>2, NoneIsNoRecord
    <3> HIDE DEF record
    <3>5. Justified(e, record)
      BY <3>2, <3>3 DEF SelectedWasPerformed, Justified
    <3>6. Succeeds(e, record)
      BY <3>2, <3>3, <3>4 DEF Succeeds, Dated, Stamped
    <3>7. QED
      BY <3>2, <3>3, <3>5, <3>6
  <2>4. QED
    BY <2>1, <2>2, <2>3
<1>2. raised' \in 0..MaxRaised /\ raised' \in {raised, raised + 1} /\ UNCHANGED uiVars
  BY <1>0 DEF Raise, Withdraw, Executed
<1>3. WatchInv'
  BY <1>1, WriteInv
<1>4. TypeOK'
  BY <1>2, <1>3 DEF TypeOK, WatchInv, uiVars
<1>5. Performed'
  BY <1>2 DEF Performed, uiVars
<1>6. SelectedWasPerformed'
  BY <1>1, <1>2, WrittenAnswer DEF uiVars
<1>7. Dated'
  BY <1>1, <1>2, <1>4, WriteDated DEF uiVars
<1>8. QED
  BY <1>3, <1>4, <1>5, <1>6, <1>7

LEMMA WatchUnchanged ==
  ASSUME WatchInv, UNCHANGED watchVars
  PROVE  WatchInv'
<1> USE DEF WatchInv, watchVars
<1>1. Watch!View' = Watch!View
  BY DEF Watch!View
<1>2. Watch!TypeOK' /\ Good(Watch!View')
  BY <1>1 DEF Watch!TypeOK
<1>3. \A view, k : Agrees(view, k)' <=> Agrees(view, k)
  BY DEF Agrees
<1>4. \A view, k : Same(view, k)' <=> Same(view, k)
  BY <1>1 DEF Same
<1>5. \A view, last, k : Leads(view, last, k)' <=> Leads(view, last, k)
  BY <1>3, <1>4 DEF Leads
<1>6. Reading'
  BY <1>1, <1>5 DEF Reading
<1>7. Live'
  BY <1>1, <1>3 DEF Live
<1>8. QED
  BY <1>2, <1>6, <1>7

LEMMA OpenInv ==
  ASSUME IInv, NEW n \in Shown, Open(n)
  PROVE  IInv'
<1> USE DEF IInv
<1>1. n \in Notification
  <2>1. emitted \in Seq(Notification)
    BY DEF TypeOK, Watch!TypeOK
  <2>2. PICK i \in DOMAIN emitted : n = emitted[i]
    BY DEF Shown
  <2>3. QED
    BY <2>1, <2>2
<1>2. opened \in 0..MaxOpened /\ MaxOpened \in Nat /\ opened < MaxOpened /\ opened' = opened + 1
  BY BoundsAssumption DEF TypeOK, Open
<1>3. opened' \in 0..MaxOpened /\ opened + 1 \in 1..MaxOpened
  BY <1>2
<1>4. alerts' \subseteq Alert
  <2>1. [notification |-> n, nr |-> opened + 1] \in Alert
    BY <1>1, <1>3 DEF Alert
  <2>2. QED
    BY <2>1 DEF Open, TypeOK
<1>5. UNCHANGED <<watchVars, raised, tasks, performed>>
  BY DEF Open
<1>6. WatchInv'
  BY <1>5, WatchUnchanged
<1>7. TypeOK'
  BY <1>3, <1>4, <1>5, <1>6 DEF TypeOK, WatchInv
<1>8. Performed' /\ SelectedWasPerformed'
  BY <1>5 DEF Performed, SelectedWasPerformed, watchVars
<1>9. Dated'
  <2>1. NotNewer(n)
    <3>1. PICK i \in DOMAIN emitted : n = emitted[i]
      BY DEF Shown
    <3>2. i \in 1..Len(emitted)
      BY DEF TypeOK, Watch!TypeOK
    <3>3. QED
      BY <3>1, <3>2 DEF Dated, Received
  <2>2. alerts' \ alerts \subseteq {[notification |-> n, nr |-> opened + 1]}
    BY DEF Open
  <2>3. \A alert \in alerts' \ alerts : NotNewer(alert.notification)
    BY <2>1, <2>2
  <2>4. QED
    BY <1>5, <2>3, OfferDated
<1>10. QED
  BY <1>6, <1>7, <1>8, <1>9

LEMMA AlertInv ==
  ASSUME IInv, NEW alert \in alerts,
         Dismiss(alert) \/ \E action \in Actions : Choose(alert, action)
  PROVE  IInv'
<1> USE DEF IInv
<1>1. UNCHANGED <<watchVars, raised, opened, performed>> /\ alerts' = alerts \ {alert}
  BY DEF Dismiss, Choose
<1>2. WatchInv'
  BY <1>1, WatchUnchanged
<1>3. tasks' = tasks \/ \E action \in Actions :
        tasks' = tasks \cup {[notification |-> alert.notification, nr |-> alert.nr,
                              action |-> action, step |-> "perform"]}
  BY DEF Dismiss, Choose
<1>4. alert \in Alert
  BY DEF TypeOK
<1>5. tasks' \subseteq Task /\ \A task \in tasks' : task \in tasks \/ task.step = "perform"
  BY <1>3, <1>4 DEF TypeOK, Alert, Task
<1>6. TypeOK'
  BY <1>1, <1>2, <1>5 DEF TypeOK, WatchInv
<1>7. Performed' /\ SelectedWasPerformed'
  BY <1>1, <1>5 DEF Performed, SelectedWasPerformed, watchVars
<1>8. Dated'
  <2>1. \A task \in tasks' : \E old \in alerts \cup tasks : task.notification = old.notification
    BY <1>3
  <2>2. alerts' \ alerts = {}
    BY <1>1
  <2>3. QED
    BY <1>1, <2>1, <2>2, OfferDated
<1>9. QED
  BY <1>2, <1>6, <1>7, <1>8

\* execute sends an answer only after the handler, and not if the handler's promise rejects.
LEMMA PerformInv ==
  ASSUME IInv, NEW task \in tasks, PerformAction(task)
  PROVE  IInv'
<1> USE DEF IInv
<1> DEFINE next == [task EXCEPT !.step = "update"]
<1>1. UNCHANGED <<watchVars, raised, alerts, opened>>
  BY DEF PerformAction
<1>2. WatchInv'
  BY <1>1, WatchUnchanged
<1>3. task \in Task
  BY DEF TypeOK
<1>4. /\ next \in Task /\ next.notification = task.notification /\ next.action = task.action
      /\ task.notification.EventID \in Events /\ task.action \in Actions
      /\ task.notification.GUID \in 0..MaxRaised
  BY <1>3 DEF Task, Notification
<1> HIDE DEF next
<1>5. /\ performed \subseteq performed'
      /\ performed' \subseteq performed \cup {Answer(task)}
      /\ tasks' \subseteq tasks \cup {next}
      /\ next \in tasks' /\ next \notin tasks =>
           Unhandled(task.action) \/ Answer(task) \in performed'
  BY DEF PerformAction, Perform, next
<1>6. TypeOK'
  <2>1. performed' \subseteq Events \X (0..MaxRaised) \X Actions
    BY <1>4, <1>5 DEF TypeOK, Answer
  <2>2. tasks' \subseteq Task
    BY <1>4, <1>5 DEF TypeOK
  <2>3. QED
    BY <1>1, <1>2, <2>1, <2>2 DEF TypeOK, WatchInv
<1>7. Performed'
  <2> SUFFICES ASSUME NEW t \in tasks', t.step = "update"
               PROVE  Unhandled(t.action) \/ Answer(t) \in performed'
    BY DEF Performed, Answer
  <2>1. CASE t \in tasks
    BY <1>5, <2>1 DEF Performed
  <2>2. CASE t \notin tasks
    BY <1>4, <1>5, <2>2 DEF Answer
  <2>3. QED
    BY <2>1, <2>2
<1>8. SelectedWasPerformed'
  BY <1>1, <1>5 DEF SelectedWasPerformed, watchVars
<1>9. Dated'
  <2>1. \A t \in tasks' : \E old \in alerts \cup tasks : t.notification = old.notification
    BY <1>4, <1>5
  <2>2. QED
    BY <1>1, <2>1, OfferDated
<1>10. QED
  BY <1>2, <1>6, <1>7, <1>8, <1>9

LEMMA UpdateInv ==
  ASSUME IInv, NEW task \in tasks, Update(task)
  PROVE  IInv'
<1> USE DEF IInv
<1> DEFINE e == task.notification.EventID
           i == task.notification.GUID
<1>1. /\ task.step = "update" /\ tasks' = tasks \ {task}
      /\ UNCHANGED <<raised, alerts, opened, performed>>
  BY DEF Update
<1>2. task \in Task
  BY DEF TypeOK
<1>3. /\ e \in Events /\ task.action \in Actions /\ i \in 0..MaxRaised
      /\ Unhandled(task.action) \/ <<e, i, task.action>> \in performed
  BY <1>1, <1>2 DEF Task, Notification, Performed, Answer
<1>4. \/ UNCHANGED watchVars
      \/ \E record \in Notification :
           Watch!Write(e, record) /\ Justified(e, record) /\ Succeeds(e, record)
  <2>1. CASE IsActive(e) /\ Watch!Write(e, [data[e] EXCEPT !.State = "responded",
                                                           !.SelectedActionID = task.action])
    <3> DEFINE record == [data[e] EXCEPT !.State = "responded", !.SelectedActionID = task.action]
    <3>1. data[e] \in Notification /\ data[e] # None
      BY <1>3, <2>1 DEF IsActive, TypeOK, Watch!TypeOK
    <3>2. /\ record \in Notification /\ record.SelectedActionID = task.action
          /\ record.GUID = data[e].GUID /\ record.EventID = data[e].EventID
      BY <1>3, <3>1 DEF Notification, NotificationState
    <3>3. Watch!Write(e, record)
      BY <2>1
    <3>4. record # None
      BY <3>2, NoneIsNoRecord
    <3> HIDE DEF record
    <3>5. Succeeds(e, record)
      BY <1>3, <3>1, <3>2, <3>4 DEF Succeeds, Dated, Stamped
    <3>6. record.GUID = 0 \/ i <= record.GUID
      <4>1. NotNewer(task.notification)
        BY DEF Dated, Offered
      <4>2. QED
        BY <3>1, <3>2, <4>1 DEF NotNewer, Newest
    <3>7. Justified(e, record)
      BY <1>3, <3>2, <3>6 DEF Justified
    <3>8. QED
      BY <3>2, <3>3, <3>5, <3>7
  <2>2. CASE Watch!Write(e, [EventID |-> e, GUID |-> 0, State |-> "",
                             SelectedActionID |-> task.action])
    <3> DEFINE record == [EventID |-> e, GUID |-> 0, State |-> "", SelectedActionID |-> task.action]
    <3>1. record \in Notification /\ record.SelectedActionID = task.action
      BY <1>3, BoundsAssumption DEF Notification, NotificationState
    <3>2. Watch!Write(e, record)
      BY <2>2
    <3>3. record # None /\ record.EventID = e /\ record.GUID = 0
      BY <3>1, NoneIsNoRecord
    <3> HIDE DEF record
    <3>4. Succeeds(e, record) /\ Justified(e, record)
      BY <1>3, <3>1, <3>3 DEF Succeeds, Justified
    <3>5. QED
      BY <3>1, <3>2, <3>4
  <2>3. QED
    BY <2>1, <2>2 DEF Update
<1> HIDE DEF e, i
<1>5. WatchInv'
  BY <1>3, <1>4, WatchUnchanged, WriteInv
<1>6. TypeOK'
  BY <1>1, <1>5 DEF TypeOK, WatchInv
<1>7. Performed'
  BY <1>1 DEF Performed, Answer
<1>8. SelectedWasPerformed'
  <2>1. CASE UNCHANGED watchVars
    BY <1>1, <2>1 DEF SelectedWasPerformed, watchVars
  <2>2. CASE \E record \in Notification : Watch!Write(e, record) /\ Justified(e, record)
    BY <1>1, <1>3, <2>2, WrittenAnswer
  <2>3. QED
    BY <1>4, <2>1, <2>2
<1>9. Dated'
  <2>1. CASE UNCHANGED watchVars
    BY <1>1, <2>1, OfferDated
  <2>2. CASE \E record \in Notification : Watch!Write(e, record) /\ Succeeds(e, record)
    <3>1. alerts' = alerts /\ tasks' \subseteq tasks /\ raised' \in {raised, raised + 1}
      BY <1>1
    <3>2. QED
      BY <1>3, <1>6, <2>2, <3>1, WriteDated
  <2>3. QED
    BY <1>4, <2>1, <2>2
<1>10. QED
  BY <1>5, <1>6, <1>7, <1>8, <1>9

LEMMA SubscriptionInv ==
  ASSUME IInv, Subscription \/ SubscriptionFails
  PROVE  IInv'
<1> USE DEF IInv
<1>1. UNCHANGED <<raised, uiVars>> /\ (Watch!Receive \/ Watch!Fail)
  BY DEF Subscription, SubscriptionFails
<1>2. WatchInv'
  BY <1>1, SubscribeInv, ReadInv, DoneInv, DeliverInv, FailInv DEF Watch!Receive
<1>3. data' = data
  BY <1>1 DEF Watch!Receive, Watch!Subscribe, Watch!Read, Watch!Done, Watch!Deliver, Watch!Fail
<1>4. TypeOK'
  BY <1>1, <1>2 DEF TypeOK, WatchInv, uiVars
<1>5. Performed' /\ SelectedWasPerformed'
  BY <1>1, <1>3 DEF Performed, Answer, SelectedWasPerformed, uiVars
<1>6. Dated'
  BY <1>1, <1>2, <1>4, ReceiveDated
<1>7. QED
  BY <1>2, <1>4, <1>5, <1>6

LEMMA StepInv == IInv /\ [Next]_vars => IInv'
<1> SUFFICES ASSUME IInv, [Next]_vars PROVE IInv'
  OBVIOUS
<1>1. ASSUME NEW e \in Events, Raise(e) \/ Withdraw(e) \/ Executed(e) PROVE IInv'
  BY <1>1, EngineInv
<1>2. ASSUME NEW n \in Shown, Open(n) PROVE IInv'
  BY <1>2, OpenInv
<1>3. ASSUME NEW alert \in alerts, Dismiss(alert) \/ \E action \in Actions : Choose(alert, action)
      PROVE  IInv'
  BY <1>3, AlertInv
<1>4. ASSUME NEW task \in tasks, Execute(task) PROVE IInv'
  BY <1>4, PerformInv, UpdateInv DEF Execute
<1>5. CASE Subscription \/ SubscriptionFails
  BY <1>5, SubscriptionInv
<1>6. CASE UNCHANGED vars
  <2>1. UNCHANGED <<watchVars, raised, uiVars>>
    BY <1>6 DEF vars
  <2>2. WatchInv'
    BY <2>1, WatchUnchanged DEF IInv
  <2>3. TypeOK' /\ Performed' /\ SelectedWasPerformed'
    BY <2>1, <2>2 DEF IInv, TypeOK, WatchInv, Performed, SelectedWasPerformed, watchVars, uiVars
  <2>4. Dated'
    <3>1. alerts' = alerts /\ tasks' = tasks
      BY <2>1 DEF uiVars
    <3>2. QED
      BY <2>1, <3>1, OfferDated DEF IInv
  <2>5. QED
    BY <2>2, <2>3, <2>4 DEF IInv
<1>7. QED
  BY <1>1, <1>2, <1>3, <1>4, <1>5, <1>6 DEF Next

-----------------------------------------------------------------------------
\* The watched array, the changes under way, the alerts and the runs of execute keep the
\* invariant, for any events, actions and bounds.
THEOREM NotificationsInvariant == Spec => []IInv
<1>1. QED
  BY InitInv, StepInv, PTL DEF Spec

\* watchAll: once the query has been read, the changes still to be delivered turn the
\* array into the database, though each of them may have met the read or not
\* (portapi.service.ts:310-375).
THEOREM ArrayFollowsDatabase == Spec => []FeedLeadsToData
<1>1. IInv => FeedLeadsToData
  BY FeedLeads DEF IInv
<1>2. QED
  BY <1>1, NotificationsInvariant, PTL

\* execute: a notification that names a handled action was answered with it, or has replaced
\* one that was, and the handler has run; no answer marks a notification older than the one
\* it was given to, whatever has become of that one in the meantime.
THEOREM OnlyPerformedIsSelected == Spec => []SelectedWasPerformed
<1>1. IInv => SelectedWasPerformed
  BY DEF IInv
<1>2. QED
  BY <1>1, NotificationsInvariant, PTL
=============================================================================
