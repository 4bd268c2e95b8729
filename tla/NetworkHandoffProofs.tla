------------------------- MODULE NetworkHandoffProofs -------------------------
(***************************************************************************)
(* Proofs about NetworkHandoff, for any finite set of networks and all     *)
(* bounds.  Two arguments that do not meet: what the callbacks under way   *)
(* still say of the networks (Tracked), and what is still to be done about *)
(* a network the service has moved to (Followed).                          *)
(***************************************************************************)
EXTENDS NetworkHandoff, FiniteSetTheorems, SequenceTheorems, TLAPS

\* A report of a network that has gone meanwhile is followed by that of its loss.
LossFollows ==
  \A i \in 1..Len(callbacks) :
    callbacks[i].kind = "capabilities" /\ callbacks[i].network \notin available =>
      \E j \in 1..Len(callbacks) :
        j > i /\ callbacks[j] = Notice("lost", callbacks[i].network)

\* The loss of the current network is still to be reported; or it was lost before the
\* registration, and then another network is, if there is one.
NewsUnderWay ==
  \E i \in 1..Len(callbacks) :
    callbacks[i].kind = "capabilities" \/ callbacks[i] = Notice("lost", current)

Tracked ==
  /\ registration # "done" => callbacks = <<>>
  /\ LossFollows
  /\ registration = "done" /\ current \notin available \cup {None} /\ available # {} =>
       NewsUnderWay

\* A rebuild is on its way to the worker.
RebuildPending ==
  \/ changed
  \/ posted > 0
  \/ \E i \in 1..Len(commands) : commands[i] = "reconnect"

Followed ==
  /\ requested => registration = "done"
  /\ up \/ working # None \/ commands # <<>> => requested
  /\ up /\ current # None /\ built # current => RebuildPending
  /\ working # None /\ current # None /\ taken # current => RebuildPending

IInv == TypeOK /\ Tracked /\ Followed

-----------------------------------------------------------------------------
(* Callbacks. *)

\* A notice at the end of the queue, which is the loss of whatever has gone.
LEMMA NoticeAdded ==
  ASSUME TypeOK, Tracked, TypeOK', NEW n \in Networks,
         UNCHANGED <<registration, current>>,
         NEW kind \in {"capabilities", "lost"},
         callbacks' = IF registration = "done" THEN Append(callbacks, Notice(kind, n))
                      ELSE callbacks,
         kind = "capabilities" => n \in available',
         \A m \in available \ {n} : m \in available',
         \A m \in available' \ {n} : m \in available,
         kind = "lost" => n \notin available'
  PROVE  Tracked'
<1>1. callbacks \in Seq(Callback) /\ Len(callbacks) \in Nat
  BY DEF TypeOK
<1>2. CASE registration # "done"
  BY <1>2 DEF Tracked, LossFollows
<1>3. CASE registration = "done"
  <2> DEFINE len == Len(callbacks)
             new == Notice(kind, n)
  <2>1. /\ callbacks' = Append(callbacks, new)
        /\ Len(callbacks') = len + 1
        /\ \A i \in 1..len : callbacks'[i] = callbacks[i]
        /\ callbacks'[len + 1] = new
    BY <1>1, <1>3
  <2>2. new.kind = kind /\ new.network = n
    BY DEF Notice
  <2> HIDE DEF len, new
  <2>3. len \in Nat
    BY <1>1 DEF len
  <2>4. LossFollows'
    <3> SUFFICES ASSUME NEW i \in 1..(len + 1), callbacks'[i].kind = "capabilities",
                        callbacks'[i].network \notin available'
                 PROVE  \E j \in 1..(len + 1) :
                          j > i /\ callbacks'[j] = Notice("lost", callbacks'[i].network)
      BY <2>1 DEF LossFollows
    <3>1. i \in 1..len /\ callbacks'[i] = callbacks[i]
      <4>1. i # len + 1
        BY <2>1, <2>2
      <4>2. i \in 1..len
        BY <2>3, <4>1
      <4>3. QED
        BY <2>1, <4>2
    <3>2. CASE callbacks[i].network = n
      <4>1. kind = "lost" /\ new = Notice("lost", callbacks'[i].network)
        BY <3>1, <3>2 DEF new
      <4>2. len + 1 \in 1..(len + 1) /\ len + 1 > i
        BY <2>3, <3>1
      <4>3. QED
        BY <2>1, <4>1, <4>2
    <3>3. CASE callbacks[i].network # n
      <4>1. callbacks[i].network \notin available
        BY <3>1, <3>3
      <4>2. PICK j \in 1..len : j > i /\ callbacks[j] = Notice("lost", callbacks[i].network)
        BY <3>1, <4>1 DEF Tracked, LossFollows, len
      <4>3. j \in 1..(len + 1) /\ callbacks'[j] = callbacks[j]
        BY <2>1, <2>3, <4>2
      <4>4. QED
        BY <3>1, <4>2, <4>3
    <3>4. QED
      BY <3>2, <3>3
  <2>5. ASSUME current \notin available' \cup {None}, available' # {} PROVE NewsUnderWay'
    <3>1. len + 1 \in 1..(len + 1)
      BY <2>3
    <3>2. CASE kind = "capabilities"
      BY <2>1, <2>2, <3>1, <3>2 DEF NewsUnderWay
    <3>3. CASE kind = "lost" /\ current = n
      BY <2>1, <3>1, <3>3 DEF NewsUnderWay, new
    <3>4. CASE kind = "lost" /\ current # n
      <4>1. current \notin available \cup {None} /\ available # {}
        BY <2>5, <3>4
      <4>2. PICK i \in 1..len :
              callbacks[i].kind = "capabilities" \/ callbacks[i] = Notice("lost", current)
        BY <1>3, <4>1 DEF Tracked, NewsUnderWay, len
      <4>3. i \in 1..(len + 1) /\ callbacks'[i] = callbacks[i]
        BY <2>1, <2>3, <4>2
      <4>4. QED
        BY <2>1, <4>2, <4>3 DEF NewsUnderWay
    <3>5. QED
      BY <3>2, <3>3, <3>4
  <2>6. QED
    BY <1>3, <2>4, <2>5 DEF Tracked
<1>4. QED
  BY <1>2, <1>3

LEMMA NetworksStep ==
  ASSUME IInv, NEW n \in Networks,
         NetworkAppears(n) \/ NetworkDisappears(n) \/ CapabilitiesChange(n)
  PROVE  IInv'
<1>1. TypeOK /\ Tracked /\ Followed
  BY DEF IInv
<1>2. PICK kind \in {"capabilities", "lost"} :
        /\ Tell(Notice(kind, n))
        /\ kind = "capabilities" => n \in available'
        /\ kind = "lost" => n \notin available'
  BY <1>1 DEF NetworkAppears, NetworkDisappears, CapabilitiesChange
<1>3. /\ \A m \in available \ {n} : m \in available'
      /\ \A m \in available' \ {n} : m \in available
  BY DEF NetworkAppears, NetworkDisappears, CapabilitiesChange
<1>4. UNCHANGED <<registration, current, changed, requested, posted, commands, workerVars>>
  BY DEF NetworkAppears, NetworkDisappears, CapabilitiesChange
<1>5. callbacks' \in Seq(Callback)
  <2>1. Notice(kind, n) \in Callback /\ callbacks \in Seq(Callback)
    BY <1>1 DEF Notice, Callback, TypeOK
  <2>2. QED
    BY <1>2, <2>1 DEF Tell
<1>6. available' \subseteq seen' /\ seen' \subseteq Networks /\ updates' \in 0..MaxUpdates
  BY <1>1, BoundsAssumption DEF NetworkAppears, NetworkDisappears, CapabilitiesChange, TypeOK
<1>7. TypeOK'
  BY <1>1, <1>4, <1>5, <1>6 DEF TypeOK, workerVars
<1>8. Tracked'
  BY <1>1, <1>2, <1>3, <1>4, <1>7, NoticeAdded DEF Tell
<1>9. Followed'
  BY <1>1, <1>4 DEF Followed, RebuildPending, workerVars
<1>10. QED
  BY <1>7, <1>8, <1>9 DEF IInv

-----------------------------------------------------------------------------
(* Registration. *)

LEMMA ReadStep ==
  ASSUME IInv, ReadActiveNetwork
  PROVE  IInv'
<1>1. TypeOK /\ Tracked /\ Followed
  BY DEF IInv
<1>2. /\ registration' = "read" /\ callbacks' = <<>> /\ available' = available
      /\ current' = current \/ current' \in available
      /\ UNCHANGED <<seen, updates, changed, requested, posted, commands, working, up, taken,
                     built, failed>>
  BY <1>1 DEF ReadActiveNetwork, Tracked, systemVars, workerVars
<1>3. TypeOK'
  BY <1>1, <1>2 DEF TypeOK, ReadActiveNetwork
<1>4. Tracked'
  BY <1>2 DEF Tracked, LossFollows
<1>5. Followed'
  <2>1. ~requested /\ ~up /\ working = None
    BY <1>1 DEF Followed, ReadActiveNetwork
  <2>2. QED
    BY <1>1, <1>2, <2>1 DEF Followed
<1>6. QED
  BY <1>3, <1>4, <1>5 DEF IInv

LEMMA RegisterStep ==
  ASSUME IInv, RegisterNetworkCallback
  PROVE  IInv'
<1>1. TypeOK /\ Tracked /\ Followed
  BY DEF IInv
<1>2. /\ registration = "read" /\ registration' = "done"
      /\ UNCHANGED <<systemVars, current, changed, requested, posted, commands, workerVars>>
  BY DEF RegisterNetworkCallback
<1>3. PICK order \in SetToSeqs(available) :
        callbacks' = [i \in DOMAIN order |-> Notice("capabilities", order[i])]
  BY DEF RegisterNetworkCallback
<1>4. PICK card \in Nat :
        /\ order \in [1..card -> available]
        /\ available # {} => card # 0
  <2>1. IsFiniteSet(available)
    BY <1>1, NetworksAssumption, FS_Subset DEF TypeOK
  <2>2. Cardinality(available) \in Nat /\ (Cardinality(available) = 0 <=> available = {})
    BY <2>1, FS_CardinalityType, FS_EmptySet
  <2>3. order \in [1..Cardinality(available) -> available]
    BY <1>3 DEF SetToSeqs
  <2>4. QED
    BY <2>2, <2>3
<1>5. callbacks' = [i \in 1..card |-> Notice("capabilities", order[i])]
  BY <1>3, <1>4
<1>6. /\ callbacks' \in Seq(Callback) /\ Len(callbacks') = card
      /\ \A i \in 1..card :
           callbacks'[i].kind = "capabilities" /\ callbacks'[i].network \in available
  <2>1. \A i \in 1..card : order[i] \in available /\ order[i] \in Networks
    BY <1>1, <1>4 DEF TypeOK
  <2>2. \A i \in 1..card : Notice("capabilities", order[i]) \in Callback
    BY <2>1 DEF Notice, Callback
  <2>3. \A i \in 1..card : callbacks'[i] = Notice("capabilities", order[i])
    BY <1>5
  <2>4. callbacks' \in [1..card -> Callback]
    BY <1>5, <2>2
  <2>5. callbacks' \in Seq(Callback) /\ Len(callbacks') = card
    BY <1>4, <2>4
  <2>6. QED
    BY <2>1, <2>3, <2>5 DEF Notice
<1>7. TypeOK'
  BY <1>1, <1>2, <1>6 DEF TypeOK, systemVars, workerVars
<1>8. LossFollows'
  BY <1>2, <1>6 DEF LossFollows, systemVars
<1>9. available' # {} => NewsUnderWay'
  <2> SUFFICES ASSUME available # {} PROVE NewsUnderWay'
    BY <1>2 DEF systemVars
  <2>1. 1 \in 1..card
    BY <1>4
  <2>2. QED
    BY <1>6, <2>1 DEF NewsUnderWay
<1>10. Tracked'
  BY <1>2, <1>8, <1>9 DEF Tracked
<1>11. Followed'
  BY <1>1, <1>2 DEF Followed, RebuildPending, workerVars
<1>12. QED
  BY <1>7, <1>10, <1>11 DEF IInv

-----------------------------------------------------------------------------
(* The connectivity thread. *)

\* What is left in the queue when its head has been taken.
LEMMA HeadTaken ==
  ASSUME TypeOK, Tracked, callbacks # <<>>, callbacks' = Tail(callbacks)
  PROVE  /\ registration = "done"
         /\ Head(callbacks) = callbacks[1] /\ callbacks[1] \in Callback
         /\ callbacks' \in Seq(Callback)
         /\ \A i \in 1..Len(callbacks) : i # 1 =>
              i - 1 \in 1..Len(callbacks') /\ callbacks'[i - 1] = callbacks[i]
         /\ available' = available => LossFollows'
<1>1. /\ callbacks \in Seq(Callback) /\ Len(callbacks) \in Nat /\ Len(callbacks) >= 1
  BY DEF TypeOK
<1>2. /\ Len(callbacks') = Len(callbacks) - 1
      /\ \A i \in 1..Len(callbacks') : callbacks'[i] = callbacks[i + 1]
      /\ callbacks' \in Seq(Callback)
      /\ Head(callbacks) = callbacks[1] /\ callbacks[1] \in Callback
  BY <1>1
<1>3. PICK len \in Nat : len = Len(callbacks) /\ len >= 1
  BY <1>1
<1>4. len \in Nat /\ len >= 1 /\ Len(callbacks') = len - 1
  BY <1>2, <1>3
<1>5. ASSUME NEW i \in 1..len, i # 1
      PROVE  i - 1 \in 1..(len - 1) /\ callbacks'[i - 1] = callbacks[i]
  <2>1. i - 1 \in 1..(len - 1) /\ (i - 1) + 1 = i
    BY <1>4, <1>5
  <2>2. QED
    BY <1>2, <1>4, <2>1
<1>6. ASSUME available' = available PROVE LossFollows'
  <2> SUFFICES ASSUME NEW i \in 1..(len - 1), callbacks'[i].kind = "capabilities",
                      callbacks'[i].network \notin available
               PROVE  \E j \in 1..(len - 1) :
                        j > i /\ callbacks'[j] = Notice("lost", callbacks'[i].network)
    BY <1>4, <1>6 DEF LossFollows
  <2>1. i + 1 \in 1..len /\ callbacks'[i] = callbacks[i + 1]
    BY <1>2, <1>4
  <2>2. PICK j \in 1..len : j > i + 1 /\ callbacks[j] = Notice("lost", callbacks[i + 1].network)
    BY <1>3, <2>1 DEF Tracked, LossFollows
  <2>3. j # 1 /\ j - 1 > i
    BY <1>4, <2>2
  <2>4. j - 1 \in 1..(len - 1) /\ callbacks'[j - 1] = callbacks[j]
    BY <1>5, <2>3
  <2>5. QED
    BY <2>1, <2>2, <2>3, <2>4
<1>7. registration = "done"
  BY DEF Tracked
<1>8. QED
  BY <1>2, <1>3, <1>4, <1>5, <1>6, <1>7

LEMMA CallbackStep ==
  ASSUME IInv, OnCapabilitiesChanged \/ OnLost
  PROVE  IInv'
<1>1. TypeOK /\ Tracked /\ Followed
  BY DEF IInv
<1>2. /\ ~changed /\ callbacks # <<>> /\ callbacks' = Tail(callbacks)
      /\ UNCHANGED <<systemVars, registration, requested, posted, commands, workerVars>>
  BY DEF OnCapabilitiesChanged, OnLost, Handle
<1>3. available' = available
  BY <1>2 DEF systemVars
<1>4. /\ registration = "done"
      /\ Head(callbacks) = callbacks[1] /\ callbacks[1] \in Callback
      /\ callbacks' \in Seq(Callback)
      /\ \A i \in 1..Len(callbacks) : i # 1 =>
           i - 1 \in 1..Len(callbacks') /\ callbacks'[i - 1] = callbacks[i]
      /\ LossFollows'
  BY <1>1, <1>2, <1>3, HeadTaken
<1>5. callbacks[1].network \in Networks /\ 1 \in 1..Len(callbacks)
  BY <1>1, <1>2, <1>4 DEF Callback, TypeOK
<1>6. current' \in Networks \cup {None} /\ changed' \in BOOLEAN
  BY <1>1, <1>4, <1>5 DEF OnCapabilitiesChanged, OnLost, TypeOK
<1>7. TypeOK'
  BY <1>1, <1>2, <1>4, <1>6 DEF TypeOK, systemVars, workerVars
<1>8. ASSUME current' \notin available \cup {None}, available # {} PROVE NewsUnderWay'
  <2>1. CASE OnCapabilitiesChanged
    <3>1. current' = callbacks[1].network /\ callbacks[1].kind = "capabilities"
      BY <1>4, <2>1 DEF OnCapabilitiesChanged, Handle
    <3>2. PICK j \in 1..Len(callbacks) : j > 1 /\ callbacks[j] = Notice("lost", current')
      BY <1>1, <1>5, <1>8, <3>1 DEF Tracked, LossFollows
    <3>3. j - 1 \in 1..Len(callbacks') /\ callbacks'[j - 1] = Notice("lost", current')
      BY <1>4, <3>2
    <3>4. QED
      BY <3>3 DEF NewsUnderWay
  <2>2. CASE OnLost
    <3>1. current' = current /\ current # callbacks[1].network /\ callbacks[1].kind = "lost"
      BY <1>4, <1>8, <2>2 DEF OnLost, Handle
    <3>2. PICK i \in 1..Len(callbacks) :
            callbacks[i].kind = "capabilities" \/ callbacks[i] = Notice("lost", current)
      BY <1>1, <1>4, <1>8, <3>1 DEF Tracked, NewsUnderWay
    <3>3. i # 1
      BY <3>1, <3>2 DEF Notice
    <3>4. i - 1 \in 1..Len(callbacks') /\ callbacks'[i - 1] = callbacks[i]
      BY <1>4, <3>3
    <3>5. QED
      BY <3>1, <3>2, <3>4 DEF NewsUnderWay
  <2>3. QED
    BY <2>1, <2>2
<1>9. Tracked'
  BY <1>2, <1>3, <1>4, <1>8 DEF Tracked
<1>10. changed' \/ current' = current \/ current' = None
  BY <1>6 DEF OnCapabilitiesChanged, OnLost
<1>11. Followed'
  <2>1. CASE changed'
    BY <1>1, <1>2, <2>1 DEF Followed, RebuildPending, workerVars
  <2>2. CASE current' = None
    BY <1>1, <1>2, <2>2 DEF Followed, workerVars
  <2>3. CASE current' = current
    BY <1>1, <1>2, <2>3 DEF Followed, RebuildPending, workerVars
  <2>4. QED
    BY <1>10, <2>1, <2>2, <2>3
<1>12. QED
  BY <1>7, <1>9, <1>11 DEF IInv

\* What does not touch the networks or the callbacks leaves Tracked alone.
LEMMA TrackedStable ==
  ASSUME Tracked, UNCHANGED <<available, registration, callbacks, current>>
  PROVE  Tracked'
BY DEF Tracked, LossFollows, NewsUnderWay

LEMMA ScheduleStep ==
  ASSUME IInv, ScheduleTunnelReconnect
  PROVE  IInv'
<1>1. TypeOK /\ Tracked /\ Followed
  BY DEF IInv
<1>2. TypeOK'
  <2>1. posted' \in 0..1
    BY <1>1 DEF TypeOK, ScheduleTunnelReconnect, PostOne
  <2>2. QED
    BY <1>1, <2>1 DEF TypeOK, ScheduleTunnelReconnect, systemVars, workerVars
<1>3. Tracked'
  BY <1>1, TrackedStable DEF ScheduleTunnelReconnect, systemVars
<1>4. Followed'
  <2>1. CASE requested
    <3>1. posted' > 0
      BY <2>1 DEF ScheduleTunnelReconnect, PostOne
    <3>2. QED
      BY <1>1, <2>1, <3>1 DEF Followed, RebuildPending, ScheduleTunnelReconnect, workerVars
  <2>2. CASE ~requested
    BY <1>1, <2>2 DEF Followed, ScheduleTunnelReconnect, workerVars
  <2>3. QED
    BY <2>1, <2>2
<1>5. QED
  BY <1>2, <1>3, <1>4 DEF IInv

-----------------------------------------------------------------------------
(* The main thread and the worker. *)

\* A command at the end of the queue.
LEMMA CommandAdded ==
  ASSUME TypeOK, NEW command \in {"connect", "reconnect"},
         commands' = Append(commands, command)
  PROVE  /\ commands' \in Seq({"connect", "reconnect"}) /\ commands' # <<>>
         /\ (\E i \in 1..Len(commands) : commands[i] = "reconnect") \/ command = "reconnect" =>
              \E i \in 1..Len(commands') : commands'[i] = "reconnect"
<1>1. commands \in Seq({"connect", "reconnect"})
  BY DEF TypeOK
<1>2. PICK len \in Nat : len = Len(commands)
  BY <1>1
<1>3. /\ commands' \in Seq({"connect", "reconnect"}) /\ Len(commands') = len + 1
      /\ \A i \in 1..len : commands'[i] = commands[i]
      /\ commands'[len + 1] = command
  BY <1>1, <1>2
<1>4. len + 1 \in 1..(len + 1) /\ \A i \in 1..len : i \in 1..(len + 1)
  BY <1>2
<1>5. commands' # <<>>
  BY <1>2, <1>3
<1>6. QED
  BY <1>2, <1>3, <1>4, <1>5

LEMMA StartStep ==
  ASSUME IInv, OnStartCommand
  PROVE  IInv'
<1>1. TypeOK /\ Tracked /\ Followed
  BY DEF IInv
<1>2. /\ commands' \in Seq({"connect", "reconnect"})
      /\ (\E i \in 1..Len(commands) : commands[i] = "reconnect") =>
           \E i \in 1..Len(commands') : commands'[i] = "reconnect"
  BY <1>1, CommandAdded DEF OnStartCommand
<1>3. TypeOK'
  BY <1>1, <1>2 DEF TypeOK, OnStartCommand, systemVars, trackVars, workerVars
<1>4. Tracked'
  BY <1>1, TrackedStable DEF OnStartCommand, systemVars, trackVars
<1>5. Followed'
  BY <1>1, <1>2 DEF Followed, RebuildPending, OnStartCommand, trackVars, workerVars
<1>6. QED
  BY <1>3, <1>4, <1>5 DEF IInv

LEMMA ReconnectStep ==
  ASSUME IInv, ReconnectTunnel
  PROVE  IInv'
<1>1. TypeOK /\ Tracked /\ Followed
  BY DEF IInv
<1>2. /\ posted' = 0
      /\ UNCHANGED <<systemVars, trackVars, requested, workerVars>>
  BY <1>1 DEF ReconnectTunnel, TypeOK
<1>3. Tracked'
  BY <1>1, <1>2, TrackedStable DEF systemVars, trackVars
<1>4. CASE requested /\ current # None
  <2>1. /\ commands' \in Seq({"connect", "reconnect"})
        /\ \E i \in 1..Len(commands') : commands'[i] = "reconnect"
    BY <1>1, <1>4, CommandAdded DEF ReconnectTunnel
  <2>2. TypeOK'
    BY <1>1, <1>2, <2>1 DEF TypeOK, systemVars, trackVars, workerVars
  <2>3. Followed'
    BY <1>1, <1>2, <1>4, <2>1 DEF Followed, RebuildPending, trackVars, workerVars
  <2>4. QED
    BY <1>3, <2>2, <2>3 DEF IInv
<1>5. CASE ~(requested /\ current # None)
  <2>1. commands' = commands
    BY <1>5 DEF ReconnectTunnel
  <2>2. TypeOK'
    BY <1>1, <1>2, <2>1 DEF TypeOK, systemVars, trackVars, workerVars
  <2>3. Followed'
    BY <1>1, <1>2, <1>5, <2>1 DEF Followed, trackVars, workerVars
  <2>4. QED
    BY <1>3, <2>2, <2>3 DEF IInv
<1>6. QED
  BY <1>4, <1>5

LEMMA TakeStep ==
  ASSUME IInv, Take
  PROVE  IInv'
<1>1. TypeOK /\ Tracked /\ Followed
  BY DEF IInv
<1>2. /\ commands # <<>> /\ commands' = Tail(commands) /\ working = None
      /\ UNCHANGED <<systemVars, trackVars, requested, posted>>
  BY DEF Take
<1>3. PICK len \in Nat : len = Len(commands)
  BY <1>1 DEF TypeOK
<1>4. /\ commands' \in Seq({"connect", "reconnect"}) /\ Len(commands') = len - 1 /\ len # 0
      /\ Head(commands) = commands[1] /\ commands[1] \in {"connect", "reconnect"}
      /\ \A i \in 1..(len - 1) : commands'[i] = commands[i + 1]
  BY <1>1, <1>2, <1>3 DEF TypeOK
<1>5. Tracked'
  BY <1>1, <1>2, TrackedStable DEF systemVars, trackVars
<1>6. requested
  BY <1>1, <1>2 DEF Followed
<1>7. CASE Head(commands) = "connect" /\ up
  <2>1. UNCHANGED workerVars
    BY <1>7 DEF Take
  <2>2. TypeOK'
    BY <1>1, <1>2, <1>4, <2>1 DEF TypeOK, systemVars, trackVars, workerVars
  <2>3. ASSUME NEW i \in 1..len, commands[i] = "reconnect"
        PROVE  \E j \in 1..(len - 1) : commands'[j] = "reconnect"
    <3>1. i # 1
      BY <1>4, <1>7, <2>3
    <3>2. i - 1 \in 1..(len - 1) /\ (i - 1) + 1 = i
      BY <2>3, <3>1
    <3>3. QED
      BY <1>4, <2>3, <3>2
  <2>4. RebuildPending => RebuildPending'
    BY <1>2, <1>3, <1>4, <2>3 DEF RebuildPending, trackVars
  <2>5. Followed'
    BY <1>1, <1>2, <1>6, <2>1, <2>4 DEF Followed, trackVars, workerVars
  <2>6. QED
    BY <1>5, <2>2, <2>5 DEF IInv
<1>8. CASE ~(Head(commands) = "connect" /\ up)
  <2>1. /\ working' = Head(commands) /\ up' = FALSE /\ taken' = current
        /\ UNCHANGED <<built, failed>>
    BY <1>8 DEF Take
  <2>2. TypeOK'
    BY <1>1, <1>2, <1>4, <2>1 DEF TypeOK, systemVars, trackVars
  <2>3. Followed'
    BY <1>1, <1>2, <1>6, <2>1 DEF Followed, trackVars
  <2>4. QED
    BY <1>5, <2>2, <2>3 DEF IInv
<1>9. QED
  BY <1>7, <1>8

LEMMA SetupStep ==
  ASSUME IInv, Setup
  PROVE  IInv'
<1>1. TypeOK /\ Tracked /\ Followed
  BY DEF IInv
<1>2. TypeOK'
  BY <1>1 DEF TypeOK, Setup, systemVars, trackVars
<1>3. Tracked'
  BY <1>1, TrackedStable DEF Setup, systemVars, trackVars
<1>4. Followed'
  BY <1>1 DEF Followed, RebuildPending, Setup, trackVars
<1>5. QED
  BY <1>2, <1>3, <1>4 DEF IInv

-----------------------------------------------------------------------------
(* The specification. *)

LEMMA InitInv == Init => IInv
<1> SUFFICES ASSUME Init PROVE IInv
  OBVIOUS
<1>1. TypeOK
  <2>1. available \subseteq Networks /\ updates \in 0..MaxUpdates /\ posted \in 0..1
    BY BoundsAssumption DEF Init
  <2>2. callbacks \in Seq(Callback) /\ commands \in Seq({"connect", "reconnect"})
    BY DEF Init
  <2>3. QED
    BY <2>1, <2>2 DEF Init, TypeOK
<1>2. Tracked
  BY DEF Init, Tracked, LossFollows
<1>3. Followed
  BY DEF Init, Followed
<1>4. QED
  BY <1>1, <1>2, <1>3 DEF IInv

\* The strengthening is inductive.
THEOREM HandoffInvariant == Spec => []IInv
<1>1. IInv /\ [Next]_vars => IInv'
  <2> SUFFICES ASSUME IInv, [Next]_vars PROVE IInv'
    OBVIOUS
  <2>1. ASSUME NEW n \in Networks,
               NetworkAppears(n) \/ NetworkDisappears(n) \/ CapabilitiesChange(n)
        PROVE  IInv'
    BY <2>1, NetworksStep
  <2>2. CASE ReadActiveNetwork
    BY <2>2, ReadStep
  <2>3. CASE RegisterNetworkCallback
    BY <2>3, RegisterStep
  <2>4. CASE OnCapabilitiesChanged \/ OnLost
    BY <2>4, CallbackStep
  <2>5. CASE ScheduleTunnelReconnect
    BY <2>5, ScheduleStep
  <2>6. CASE OnStartCommand
    BY <2>6, StartStep
  <2>7. CASE ReconnectTunnel
    BY <2>7, ReconnectStep
  <2>8. CASE Take
    BY <2>8, TakeStep
  <2>9. CASE Setup
    BY <2>9, SetupStep
  <2>10. CASE UNCHANGED vars
    BY <2>10 DEF IInv, TypeOK, Tracked, LossFollows, NewsUnderWay, Followed, RebuildPending,
                 vars, systemVars, trackVars, workerVars
  <2>11. QED
    BY <2>1, <2>2, <2>3, <2>4, <2>5, <2>6, <2>7, <2>8, <2>9, <2>10 DEF Next, ConnectivityThread
<1>2. QED
  BY <1>1, InitInv, PTL DEF Spec

\* One runnable at most is posted, however often the networks change, and the variables
\* hold what they can hold.
THEOREM HandoffTypes == Spec => []TypeOK
<1>1. IInv => TypeOK
  BY DEF IInv
<1>2. QED
  BY <1>1, HandoffInvariant, PTL

\* The service does not keep a network that was lost between the look-up of the active
\* one and the registration, if there is any other (PortmasterTunnelService.java).
THEOREM CurrentStaysAvailable == Spec => []CurrentIsAvailable
<1>1. IInv => CurrentIsAvailable
  BY DEF IInv, Tracked, NewsUnderWay, CurrentIsAvailable
<1>2. QED
  BY <1>1, HandoffInvariant, PTL

\* No change of the network is lost to the coalescing of runnables, to a rebuild that is
\* going on or to the start of the tunnel.
THEOREM LastChangeIsBuilt == Spec => []LastChangeBuilt
<1>1. IInv => LastChangeBuilt
  BY DEF IInv, TypeOK, Followed, RebuildPending, LastChangeBuilt, Settled
<1>2. QED
  BY <1>1, HandoffInvariant, PTL
=============================================================================
