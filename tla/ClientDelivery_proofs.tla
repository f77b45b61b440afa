------------------------ MODULE ClientDelivery_proofs ------------------------
(* Theorems about ClientDelivery, for every number of samples, size of the *)
(* queue, number of crashes, lost answers and disk errors.                 *)
EXTENDS ClientDelivery, LocalQueue_proofs, FiniteSetTheorems

-----------------------------------------------------------------------------
(* What the queue's operations do to the set of queued payloads.           *)

LEMMA ElementsEmpty == Elements(<<>>) = {}
BY DEF Elements

LEMMA ElementsAppend ==
    ASSUME NEW S, NEW s \in Seq(S), NEW e \in S
    PROVE  Elements(Append(s, e)) = Elements(s) \cup {e}
<1> DEFINE t == Append(s, e)
<1>1. /\ t \in Seq(S)
      /\ Len(t) = Len(s) + 1
      /\ DOMAIN t = 1 .. Len(s) + 1
      /\ DOMAIN s = 1 .. Len(s)
      /\ Len(s) \in Nat
      /\ \A i \in 1 .. Len(s) : t[i] = s[i]
      /\ t[Len(s) + 1] = e
  OBVIOUS
<1> HIDE DEF t
<1>2. ASSUME NEW x \in Elements(t) PROVE x \in Elements(s) \cup {e}
  <2>1. PICK i \in 1 .. Len(s) + 1 : x = t[i]
    BY <1>1, <1>2 DEF Elements
  <2>2. CASE i = Len(s) + 1
    BY <1>1, <2>1, <2>2
  <2>3. CASE i # Len(s) + 1
    <3>1. i \in 1 .. Len(s)
      BY <1>1, <2>3
    <3> QED
      BY <1>1, <2>1, <3>1 DEF Elements
  <2> QED
    BY <2>2, <2>3
<1>3. Elements(s) \cup {e} \subseteq Elements(t)
  <2>1. \A i \in 1 .. Len(s) : i \in DOMAIN t
    BY <1>1
  <2>2. Len(s) + 1 \in DOMAIN t
    BY <1>1
  <2> QED
    BY <1>1, <2>1, <2>2 DEF Elements
<1>4. Elements(t) = Elements(s) \cup {e}
  BY <1>2, <1>3
<1> QED
  BY <1>4 DEF t

LEMMA ElementsTail ==
    ASSUME NEW S, NEW s \in Seq(S), s # <<>>
    PROVE  /\ Elements(s) = {Head(s)} \cup Elements(Tail(s))
           /\ Tail(s) \in Seq(S)
           /\ Head(s) \in S
<1> DEFINE t == Tail(s)
<1>1. /\ t \in Seq(S)
      /\ Head(s) = s[1]
      /\ Head(s) \in S
      /\ Len(s) \in Nat \ {0}
      /\ DOMAIN s = 1 .. Len(s)
      /\ DOMAIN t = 1 .. Len(s) - 1
      /\ \A i \in 1 .. Len(s) - 1 : t[i] = s[i + 1]
  OBVIOUS
<1> HIDE DEF t
<1>2. ASSUME NEW x \in Elements(s) PROVE x \in {Head(s)} \cup Elements(t)
  <2>1. PICK i \in 1 .. Len(s) : x = s[i]
    BY <1>1, <1>2 DEF Elements
  <2>2. CASE i = 1
    BY <1>1, <2>1, <2>2
  <2>3. CASE i # 1
    <3>1. i - 1 \in 1 .. Len(s) - 1 /\ (i - 1) + 1 = i
      BY <1>1, <2>3
    <3>2. x = t[i - 1]
      BY <1>1, <2>1, <3>1
    <3> QED
      BY <1>1, <3>1, <3>2 DEF Elements
  <2> QED
    BY <2>2, <2>3
<1>3. Elements(t) \subseteq Elements(s)
  <2>1. \A i \in 1 .. Len(s) - 1 : i + 1 \in 1 .. Len(s)
    BY <1>1
  <2> QED
    BY <1>1, <2>1 DEF Elements
<1>4. Head(s) \in Elements(s)
  <2>1. 1 \in 1 .. Len(s)
    BY <1>1
  <2> QED
    BY <1>1, <2>1 DEF Elements
<1>5. Elements(s) = {Head(s)} \cup Elements(t)
  BY <1>2, <1>3, <1>4
<1> QED
  BY <1>1, <1>5 DEF t

(* A push moves payloads between the buffer and the evicted ones, and adds *)
(* one; it loses none.                                                     *)
LEMMA PushElements ==
    ASSUME QueueTypeOK, NEW p \in Payload, Push(p)
    PROVE  Elements(buf') \cup evicted' = Elements(buf) \cup evicted \cup {p}
<1>1. buf \in Seq(Payload)
  BY DEF QueueTypeOK
<1>2. CASE Len(buf) >= MaxSize
  <2>1. buf # <<>>
    BY <1>2, QueueAssumption
  <2>2. /\ Elements(buf) = {Head(buf)} \cup Elements(Tail(buf))
        /\ Tail(buf) \in Seq(Payload)
    BY <1>1, <2>1, ElementsTail
  <2>3. Elements(Append(Tail(buf), p)) = Elements(Tail(buf)) \cup {p}
    <3> DEFINE t == Tail(buf)
    <3>1. t \in Seq(Payload)
      BY <2>2
    <3> HIDE DEF t
    <3>2. Elements(Append(t, p)) = Elements(t) \cup {p}
      BY <3>1, ElementsAppend
    <3> QED
      BY <3>2 DEF t
  <2> QED
    BY <1>2, <2>2, <2>3 DEF Push
<1>3. CASE ~(Len(buf) >= MaxSize)
  <2>1. Elements(Append(buf, p)) = Elements(buf) \cup {p}
    BY <1>1, ElementsAppend
  <2> QED
    BY <1>3, <2>1 DEF Push
<1> QED
  BY <1>2, <1>3
-----------------------------------------------------------------------------
(* Where the sample in hand is, by the step of the loop; the queue works   *)
(* on its own only while the loop waits for put() to return.               *)
LoopPhases ==
    /\ item # None <=> pc \in {"replay", "reput"}
    /\ pc \in {"replay", "reput"} => drained < RetryPerCycle
    /\ pc = "enqueue" => cur # None
    /\ pc = "idle" => cur = None
    /\ proc # "up" => pc = "idle"
    /\ enforcing => pc \in {"send", "idle"}
    /\ crashes = 0 => proc = "up"

LoopTypeOK ==
    /\ pc \in {"idle", "drain", "replay", "reput", "send", "enqueue"}
    /\ cur \in Payload \cup {None}
    /\ item \in Payload \cup {None}
    /\ drained \in 0 .. RetryPerCycle
    /\ next \in 1 .. MaxSamples + 1
    /\ stored \in [Payload -> Nat]
    /\ refused \subseteq Payload
    /\ lostReply \in [Payload -> 0 .. MaxLost]
    /\ crashes \in 0 .. MaxCrashes

LoopInv == LoopTypeOK /\ LoopPhases

LEMMA NoneIsNoPayload == None \notin Payload
BY DeliveryAssumption DEF Line

(* Whatever the loop does to the queue is one of the queue's operations.   *)
LEMMA UsesQueueOperations ==
    ASSUME LoopInv, [Next]_vars
    PROVE  [QueueNext]_queueVars
<1> USE DEF LoopInv
<1>1. CASE UNCHANGED vars
  BY <1>1 DEF vars
<1>2. CASE DrainPop \/ Enforce \/ Die \/ Restart
  BY <1>2 DEF DrainPop, Enforce, Die, Restart, QueueNext
<1>3. CASE Reput
  <2>1. item \in Payload
    BY <1>3, NoneIsNoPayload DEF Reput, LoopPhases, LoopTypeOK
  <2> QED
    BY <1>3, <2>1 DEF Reput, QueueNext
<1>4. CASE Enqueue
  <2>1. cur \in Payload
    BY <1>4, NoneIsNoPayload DEF Enqueue, LoopPhases, LoopTypeOK
  <2> QED
    BY <1>4, <2>1 DEF Enqueue, QueueNext
<1>5. CASE Collect \/ DrainEnd \/ ReplayAccepted \/ ReplayRefused
             \/ ReplayFails \/ SendSettles \/ SendFails
  BY <1>5 DEF Collect, DrainEnd, ReplayAccepted, ReplayRefused, ReplayFails,
              SendSettles, SendFails
<1> QED
  BY <1>1, <1>2, <1>3, <1>4, <1>5 DEF Next, Step

(* The answer to a POST of p.                                              *)
LEMMA AnswerType ==
    ASSUME LoopTypeOK, NEW p \in Payload,
           Accepted(p) \/ ReplyLost(p) \/ NonRetryable(p) \/ Failed(p)
    PROVE  /\ stored' \in [Payload -> Nat]
           /\ refused' \subseteq Payload
           /\ lostReply' \in [Payload -> 0 .. MaxLost]
<1>1. CASE Accepted(p) \/ NonRetryable(p) \/ Failed(p)
  BY <1>1 DEF Accepted, NonRetryable, Failed, serverVars, LoopTypeOK
<1>2. CASE ReplyLost(p)
  <2>1. stored' \in [Payload -> Nat] /\ refused' \subseteq Payload
    BY <1>2 DEF ReplyLost, LoopTypeOK
  <2>2. lostReply[p] + 1 \in 0 .. MaxLost
    BY <1>2, DeliveryAssumption DEF ReplyLost, LoopTypeOK
  <2>3. lostReply' \in [Payload -> 0 .. MaxLost]
    BY <1>2, <2>2 DEF ReplyLost, LoopTypeOK
  <2> QED
    BY <2>1, <2>3
<1> QED
  BY <1>1, <1>2

LEMMA LoopInitInv == Init => LoopInv
BY DeliveryAssumption, NoneIsNoPayload
   DEF Init, QueueInit, LoopInv, LoopTypeOK, LoopPhases

(* Each step of the loop leaves the loop in one of its phases.             *)
LEMMA LoopStepInv ==
    ASSUME LoopInv, QueueTypeOK, Phases, [Next]_vars
    PROVE  LoopInv'
<1> USE NoneIsNoPayload, DeliveryAssumption
<1>1. CASE UNCHANGED vars
  BY <1>1 DEF vars, queueVars, loopVars, serverVars, LoopInv, LoopTypeOK, LoopPhases
<1>2. CASE Collect
  <2>1. UNCHANGED <<proc, enforcing>> /\ Ready
    BY <1>2 DEF Collect, queueVars
  <2>2. cur' \in Payload \cup {None} /\ next' \in 1 .. MaxSamples + 1
    BY <1>2 DEF Collect, LoopInv, LoopTypeOK
  <2>3. drained' \in 0 .. RetryPerCycle
    BY <1>2 DEF Collect
  <2> QED
    BY <1>2, <2>1, <2>2, <2>3 DEF Collect, Ready, serverVars, LoopInv, LoopTypeOK, LoopPhases
<1>3. CASE DrainPop
  <2>1. UNCHANGED <<proc, enforcing>> /\ Ready
    BY <1>3 DEF DrainPop, Pop
  <2>2. item' \in Payload
    BY <1>3, ElementsTail DEF DrainPop, QueueTypeOK
  <2> QED
    BY <1>3, <2>1, <2>2 DEF DrainPop, Ready, serverVars, LoopInv, LoopTypeOK, LoopPhases
<1>4. CASE DrainEnd
  BY <1>4 DEF DrainEnd, queueVars, serverVars, LoopInv, LoopTypeOK, LoopPhases
<1>5. CASE ReplayAccepted \/ ReplayRefused
  <2>1. item \in Payload
    BY <1>5 DEF ReplayAccepted, ReplayRefused, LoopInv, LoopTypeOK, LoopPhases
  <2>2. /\ stored' \in [Payload -> Nat]
        /\ refused' \subseteq Payload
        /\ lostReply' \in [Payload -> 0 .. MaxLost]
    BY <1>5, <2>1, AnswerType DEF ReplayAccepted, ReplayRefused, LoopInv
  <2>3. /\ pc = "replay" /\ pc' = "drain" /\ item' = None
        /\ drained' = drained + 1
        /\ UNCHANGED <<proc, enforcing, cur, next, crashes>>
    BY <1>5 DEF ReplayAccepted, ReplayRefused, queueVars
  <2>4. drained' \in 0 .. RetryPerCycle
    BY <2>3 DEF LoopInv, LoopTypeOK, LoopPhases
  <2>5. LoopTypeOK'
    BY <2>2, <2>3, <2>4 DEF LoopInv, LoopTypeOK
  <2>6. LoopPhases'
    BY <2>3 DEF LoopInv, LoopPhases
  <2> QED
    BY <2>5, <2>6 DEF LoopInv
<1>6. CASE ReplayFails
  <2>1. item \in Payload
    BY <1>6 DEF ReplayFails, LoopInv, LoopTypeOK, LoopPhases
  <2>2. /\ stored' \in [Payload -> Nat]
        /\ refused' \subseteq Payload
        /\ lostReply' \in [Payload -> 0 .. MaxLost]
    BY <1>6, <2>1, AnswerType DEF ReplayFails, LoopInv
  <2> QED
    BY <1>6, <2>2 DEF ReplayFails, queueVars, LoopInv, LoopTypeOK, LoopPhases
<1>7. CASE Reput \/ Enqueue
  <2>1. proc = "up" /\ proc' = "up"
    BY <1>7 DEF Reput, Enqueue, Put, Ready
  <2> QED
    BY <1>7, <2>1 DEF Reput, Enqueue, serverVars, LoopInv, LoopTypeOK, LoopPhases
<1>8. CASE SendSettles
  <2>1. /\ stored' \in [Payload -> Nat]
        /\ refused' \subseteq Payload
        /\ lostReply' \in [Payload -> 0 .. MaxLost]
    <3>1. CASE cur = None
      BY <1>8, <3>1 DEF SendSettles, serverVars, LoopInv, LoopTypeOK
    <3>2. CASE cur # None
      BY <1>8, <3>2, AnswerType DEF SendSettles, LoopInv, LoopTypeOK
    <3> QED
      BY <3>1, <3>2
  <2> QED
    BY <1>8, <2>1 DEF SendSettles, Ready, queueVars, LoopInv, LoopTypeOK, LoopPhases
<1>9. CASE SendFails
  <2>1. /\ stored' \in [Payload -> Nat]
        /\ refused' \subseteq Payload
        /\ lostReply' \in [Payload -> 0 .. MaxLost]
    BY <1>9, AnswerType DEF SendFails, LoopInv, LoopTypeOK
  <2> QED
    BY <1>9, <2>1 DEF SendFails, Ready, queueVars, LoopInv, LoopTypeOK, LoopPhases
<1>10. CASE Enforce
  <2>1. proc' = proc /\ (enforcing' => enforcing)
    BY <1>10 DEF Enforce, EnforceMaxBytes, EnforceDrop, EnforceDone
  <2> QED
    BY <1>10, <2>1 DEF Enforce, loopVars, serverVars, LoopInv, LoopTypeOK, LoopPhases
<1>11. CASE Die
  <2>1. enforcing' = FALSE
    BY <1>11 DEF Die, Crash, CrashInAppend, Forget
  <2> QED
    BY <1>11, <2>1 DEF Die, serverVars, LoopInv, LoopTypeOK, LoopPhases
<1>12. CASE Restart
  <2>1. proc # "up" /\ ~enforcing
    BY <1>12 DEF Restart, Boot, Load, LoadLine, LoadEnd, LoadInterrupted, LoadRaises, Phases
  <2>2. enforcing' => enforcing
    BY <1>12 DEF Restart, Boot, Load, LoadLine, LoadEnd, LoadInterrupted, LoadRaises, Forget
  <2> QED
    BY <1>12, <2>1, <2>2
       DEF Restart, loopVars, serverVars, LoopInv, LoopTypeOK, LoopPhases
<1> QED
  BY <1>1, <1>2, <1>3, <1>4, <1>5, <1>6, <1>7, <1>8, <1>9, <1>10, <1>11, <1>12
     DEF Next, Step

(* The queue inside the client and the loop around it keep their types.    *)
LEMMA Typing == Spec => [](QueueInv /\ LoopInv)
<1>1. Init => QueueInv /\ LoopInv
  BY LoopInitInv, QueueInitInv DEF Init
<1>2. QueueInv /\ LoopInv /\ [Next]_vars => (QueueInv /\ LoopInv)'
  <2> SUFFICES ASSUME QueueInv, LoopInv, [Next]_vars
               PROVE  QueueInv' /\ LoopInv'
    OBVIOUS
  <2>1. QueueInv'
    BY UsesQueueOperations, QueueStepInv
  <2>2. LoopInv'
    BY LoopStepInv DEF QueueInv
  <2> QED
    BY <2>1, <2>2
<1> QED
  BY <1>1, <1>2, PTL DEF Spec

(* Type correctness of the client.                                         *)
THEOREM ClientTypeCorrect == Spec => []TypeOK
<1>1. QueueInv /\ LoopInv => TypeOK
  BY DEF QueueInv, LoopInv, LoopTypeOK, TypeOK
<1> QED
  BY <1>1, Typing, PTL

(* In the client as in any other user of the queue, the file is exactly    *)
(* the buffer unless a disk error was counted or the file was read in part.*)
THEOREM ClientMirrored == Spec => []DiskMirrorsBuffer
<1>1. QueueInv => DiskMirrorsBuffer
  BY DEF QueueInv
<1> QED
  BY <1>1, Typing, PTL

(* The client implements the queue's own specification: it never touches   *)
(* the buffer or the file but through the queue's operations.              *)
THEOREM ClientImplementsQueue == Spec => QueueSpec
<1>1. Init => QueueInit
  BY DEF Init
<1>2. LoopInv /\ [Next]_vars => [QueueNext]_queueVars
  BY UsesQueueOperations
<1> QED
  BY <1>1, <1>2, Typing, PTL DEF Spec, QueueSpec
-----------------------------------------------------------------------------
(* No sample is lost while the process lives.  Every action hands over     *)
(* what it takes: the argument is one line per action.                     *)

Stored == {p \in Payload : stored[p] > 0}

(* No answer of the server makes a stored sample unstored, and a sample    *)
(* that is let go has been stored or refused.                              *)
LEMMA AnswerSettles ==
    ASSUME LoopTypeOK, NEW p \in Payload
    PROVE  /\ Accepted(p) \/ ReplyLost(p) \/ NonRetryable(p) \/ Failed(p)
                => Stored \subseteq Stored' /\ refused \subseteq refused'
           /\ Accepted(p) \/ NonRetryable(p) => p \in Stored' \cup refused'
<1>1. ASSUME Accepted(p) \/ ReplyLost(p)
      PROVE  Stored \subseteq Stored' /\ refused \subseteq refused' /\ p \in Stored'
  <2>1. /\ stored' = [stored EXCEPT ![p] = @ + 1]
        /\ refused' = refused
    BY <1>1 DEF Accepted, ReplyLost
  <2> QED
    BY <2>1 DEF LoopTypeOK, Stored
<1>2. NonRetryable(p)
        => Stored \subseteq Stored' /\ refused \subseteq refused' /\ p \in refused'
  BY DEF NonRetryable, Stored
<1>3. Failed(p) => Stored \subseteq Stored' /\ refused \subseteq refused'
  BY DEF Failed, serverVars, Stored
<1> QED
  BY <1>1, <1>2, <1>3

Kept == Elements(buf) \cup ({item, cur} \ {None}) \cup Stored \cup evicted \cup refused

LEMMA StepKeeps ==
    ASSUME LoopInv, QueueInv, [Next]_vars, crashes' = 0
    PROVE  Kept \cup (Collected' \ Collected) \subseteq Kept'
<1> USE NoneIsNoPayload, DeliveryAssumption
<1>0. proc = "up" /\ crashes = 0
  <2>1. crashes = 0
    <3>1. CASE Die
      BY <3>1 DEF Die, LoopInv, LoopTypeOK
    <3>2. CASE ~Die
      BY <3>2 DEF Next, Step, vars, Collect, DrainPop, DrainEnd, ReplayAccepted,
                  ReplayRefused, ReplayFails, Reput, SendSettles, SendFails, Enqueue,
                  Enforce, Restart
    <3> QED
      BY <3>1, <3>2
  <2> QED
    BY <2>1 DEF LoopInv, LoopPhases
<1>1. CASE UNCHANGED vars
  <2>1. UNCHANGED <<buf, evicted, item, cur, next, stored, refused>>
    BY <1>1 DEF vars, queueVars, loopVars, serverVars
  <2> QED
    BY <2>1 DEF Kept, Stored, Elements, Collected
<1>2. CASE Collect
  <2>1. UNCHANGED <<buf, evicted, item, stored, refused>>
    BY <1>2 DEF Collect, queueVars, serverVars
  <2>2. cur = None
    BY <1>2 DEF Collect, LoopInv, LoopPhases
  <2>3. Collected' \ Collected \subseteq {cur'} \ {None}
    <3>1. CASE next \in Payload
      <4>1. cur' = next /\ next' = next + 1 /\ next # None
        BY <1>2, <3>1 DEF Collect
      <4>2. \A p \in 1 .. (next + 1) - 1 : p \notin 1 .. next - 1 => p = next
        BY DEF LoopInv, LoopTypeOK
      <4> QED
        BY <4>1, <4>2 DEF Collected
    <3>2. CASE next \notin Payload
      BY <1>2, <3>2 DEF Collect, Collected
    <3> QED
      BY <3>1, <3>2
  <2> QED
    BY <2>1, <2>2, <2>3 DEF Kept, Stored, Elements
<1>3. CASE DrainPop
  <2>1. /\ buf' = Tail(buf) /\ item' = Head(buf) /\ item = None
        /\ UNCHANGED <<evicted, cur, next, stored, refused>>
    BY <1>3 DEF DrainPop, Pop, serverVars, LoopInv, LoopPhases
  <2>2. Elements(buf) = {Head(buf)} \cup Elements(Tail(buf)) /\ Head(buf) \in Payload
    BY <1>3, ElementsTail DEF DrainPop, QueueInv, QueueTypeOK
  <2> QED
    BY <2>1, <2>2 DEF Kept, Stored, Collected
<1>4. CASE DrainEnd
  BY <1>4 DEF DrainEnd, queueVars, serverVars, Kept, Stored, Elements, Collected
<1>5. CASE ReplayAccepted \/ ReplayRefused
  <2>1. item \in Payload
    BY <1>5 DEF ReplayAccepted, ReplayRefused, LoopInv, LoopTypeOK, LoopPhases
  <2>2. /\ Stored \subseteq Stored' /\ refused \subseteq refused'
        /\ item \in Stored' \cup refused'
    BY <1>5, <2>1, AnswerSettles DEF ReplayAccepted, ReplayRefused, LoopInv
  <2>3. UNCHANGED <<buf, evicted, cur, next>>
    BY <1>5 DEF ReplayAccepted, ReplayRefused, queueVars
  <2> QED
    BY <2>2, <2>3 DEF Kept, Elements, Collected
<1>6. CASE ReplayFails
  <2>1. item \in Payload
    BY <1>6 DEF ReplayFails, LoopInv, LoopTypeOK, LoopPhases
  <2>2. Stored \subseteq Stored' /\ refused \subseteq refused'
    BY <1>6, <2>1, AnswerSettles DEF ReplayFails, LoopInv
  <2>3. UNCHANGED <<buf, evicted, item, cur, next>>
    BY <1>6 DEF ReplayFails, queueVars
  <2> QED
    BY <2>2, <2>3 DEF Kept, Elements, Collected
<1>7. CASE Reput
  <2>1. item \in Payload
    BY <1>7 DEF Reput, LoopInv, LoopTypeOK, LoopPhases
  <2>2. Elements(buf') \cup evicted' = Elements(buf) \cup evicted \cup {item}
    BY <1>7, <2>1, PushElements DEF Reput, Put, QueueInv
  <2>3. UNCHANGED <<cur, next, stored, refused>>
    BY <1>7 DEF Reput, serverVars
  <2> QED
    BY <2>2, <2>3 DEF Kept, Stored, Elements, Collected
<1>8. CASE Enqueue
  <2>1. cur \in Payload
    BY <1>8 DEF Enqueue, LoopInv, LoopTypeOK, LoopPhases
  <2>2. Elements(buf') \cup evicted' = Elements(buf) \cup evicted \cup {cur}
    BY <1>8, <2>1, PushElements DEF Enqueue, Put, QueueInv
  <2>3. UNCHANGED <<item, next, stored, refused>>
    BY <1>8 DEF Enqueue, serverVars
  <2> QED
    BY <2>2, <2>3 DEF Kept, Stored, Elements, Collected
<1>9. CASE SendSettles
  <2>1. UNCHANGED <<buf, evicted, item, next>> /\ cur' = None
    BY <1>9 DEF SendSettles, queueVars
  <2>2. CASE cur = None
    BY <1>9, <2>1, <2>2 DEF SendSettles, serverVars, Kept, Stored, Elements, Collected
  <2>3. CASE cur # None
    <3>1. /\ Stored \subseteq Stored' /\ refused \subseteq refused'
          /\ cur \in Stored' \cup refused'
      BY <1>9, <2>3, AnswerSettles DEF SendSettles, LoopInv, LoopTypeOK
    <3> QED
      BY <2>1, <3>1 DEF Kept, Elements, Collected
  <2> QED
    BY <2>2, <2>3
<1>10. CASE SendFails
  <2>1. UNCHANGED <<buf, evicted, item, cur, next>>
    BY <1>10 DEF SendFails, queueVars
  <2>2. Stored \subseteq Stored' /\ refused \subseteq refused'
    BY <1>10, AnswerSettles DEF SendFails, LoopInv, LoopTypeOK
  <2> QED
    BY <2>1, <2>2 DEF Kept, Elements, Collected
<1>11. CASE Enforce
  <2>1. UNCHANGED <<item, cur, next, stored, refused>>
    BY <1>11 DEF Enforce, loopVars, serverVars
  <2>2. CASE EnforceDone
    BY <2>1, <2>2 DEF EnforceDone, Kept, Stored, Elements, Collected
  <2>3. CASE EnforceDrop
    <3>1. Elements(buf) = {Head(buf)} \cup Elements(Tail(buf))
      BY <2>3, ElementsTail DEF EnforceDrop, QueueInv, QueueTypeOK
    <3> QED
      BY <2>1, <2>3, <3>1 DEF EnforceDrop, Kept, Stored, Collected
  <2> QED
    BY <1>11, <2>2, <2>3 DEF Enforce, EnforceMaxBytes
<1>12. CASE Die
  BY <1>0, <1>12 DEF Die
<1>13. CASE Restart
  BY <1>0, <1>13
     DEF Restart, Boot, Load, LoadLine, LoadEnd, LoadInterrupted, LoadRaises
<1> QED
  BY <1>1, <1>2, <1>3, <1>4, <1>5, <1>6, <1>7, <1>8, <1>9, <1>10, <1>11, <1>12, <1>13
     DEF Next, Step

(* For every queue size and every pattern of network answers and disk      *)
(* errors: as long as the client process lives, a collected sample is held *)
(* in memory, stored by the server, or dropped by a counted decision.      *)
THEOREM NothingLostWhileAlive == Spec => []NoLossWhileAlive
<1>1. Kept = Held \cup Settled
  BY DEF Kept, Held, Settled, Stored
<1>2. Init => NoLossWhileAlive
  BY DEF Init, NoLossWhileAlive, Collected
<1>3. QueueInv /\ LoopInv /\ NoLossWhileAlive /\ [Next]_vars => NoLossWhileAlive'
  <2> SUFFICES ASSUME QueueInv, LoopInv, NoLossWhileAlive, [Next]_vars, crashes' = 0
               PROVE  Collected' \subseteq (Held \cup Settled)'
    BY DEF NoLossWhileAlive
  <2>1. crashes = 0
    <3>1. CASE Die
      BY <3>1 DEF Die, LoopInv, LoopTypeOK
    <3>2. CASE ~Die
      BY <3>2 DEF Next, Step, vars, Collect, DrainPop, DrainEnd, ReplayAccepted,
                  ReplayRefused, ReplayFails, Reput, SendSettles, SendFails, Enqueue,
                  Enforce, Restart
    <3> QED
      BY <3>1, <3>2
  <2>2. Collected \subseteq Kept
    BY <1>1, <2>1 DEF NoLossWhileAlive
  <2>3. Kept \cup (Collected' \ Collected) \subseteq Kept'
    BY StepKeeps
  <2>4. Kept' = (Held \cup Settled)'
    BY DEF Kept, Held, Settled, Stored
  <2> QED
    BY <2>2, <2>3, <2>4
<1> QED
  BY <1>2, <1>3, Typing, PTL DEF Spec
-----------------------------------------------------------------------------
(* With a working disk.  A sample is in at most one place, so a step that  *)
(* takes it away leaves nothing of it behind.                              *)

Distinct(s) == \A i, j \in DOMAIN s : s[i] = s[j] => i = j

LEMMA DistinctAppend ==
    ASSUME NEW S, NEW s \in Seq(S), NEW e \in S, Distinct(s), e \notin Elements(s)
    PROVE  Distinct(Append(s, e))
<1> DEFINE t == Append(s, e)
<1>1. /\ DOMAIN t = 1 .. Len(s) + 1
      /\ DOMAIN s = 1 .. Len(s)
      /\ Len(s) \in Nat
      /\ \A i \in 1 .. Len(s) : t[i] = s[i]
      /\ t[Len(s) + 1] = e
  OBVIOUS
<1> HIDE DEF t
<1>2. \A i \in 1 .. Len(s) : t[i] \in Elements(s)
  BY <1>1 DEF Elements
<1>3. ASSUME NEW i \in 1 .. Len(s) + 1, NEW j \in 1 .. Len(s) + 1, t[i] = t[j]
      PROVE  i = j
  <2>1. CASE i \in 1 .. Len(s) /\ j \in 1 .. Len(s)
    BY <1>1, <1>3, <2>1 DEF Distinct
  <2>2. CASE i \notin 1 .. Len(s)
    <3>1. i = Len(s) + 1
      BY <1>1, <2>2
    <3> QED
      BY <1>1, <1>2, <1>3, <3>1
  <2>3. CASE j \notin 1 .. Len(s)
    <3>1. j = Len(s) + 1
      BY <1>1, <2>3
    <3> QED
      BY <1>1, <1>2, <1>3, <3>1
  <2> QED
    BY <2>1, <2>2, <2>3
<1>4. Distinct(t)
  BY <1>1, <1>3 DEF Distinct
<1> QED
  BY <1>4 DEF t

LEMMA DistinctTail ==
    ASSUME NEW S, NEW s \in Seq(S), s # <<>>, Distinct(s)
    PROVE  /\ Distinct(Tail(s))
           /\ Head(s) \notin Elements(Tail(s))
<1> DEFINE t == Tail(s)
<1>1. /\ Head(s) = s[1]
      /\ Len(s) \in Nat \ {0}
      /\ DOMAIN s = 1 .. Len(s)
      /\ DOMAIN t = 1 .. Len(s) - 1
      /\ \A i \in 1 .. Len(s) - 1 : t[i] = s[i + 1]
  OBVIOUS
<1> HIDE DEF t
<1>2. \A i \in 1 .. Len(s) - 1 : i + 1 \in 1 .. Len(s) /\ 1 \in 1 .. Len(s) /\ i + 1 # 1
  BY <1>1
<1>3. Distinct(t)
  <2> SUFFICES ASSUME NEW i \in 1 .. Len(s) - 1, NEW j \in 1 .. Len(s) - 1, t[i] = t[j]
               PROVE  i = j
    BY <1>1 DEF Distinct
  <2>1. i + 1 = j + 1
    BY <1>1, <1>2 DEF Distinct
  <2> QED
    BY <2>1
<1>4. Head(s) \notin Elements(t)
  <2> SUFFICES ASSUME NEW i \in 1 .. Len(s) - 1, t[i] = s[1] PROVE FALSE
    BY <1>1 DEF Elements
  <2> QED
    BY <1>1, <1>2 DEF Distinct
<1> QED
  BY <1>3, <1>4 DEF t

(* A sequence has no more elements than places.                            *)
LEMMA ElementsBound ==
    ASSUME NEW S, NEW s \in Seq(S)
    PROVE  IsFiniteSet(Elements(s)) /\ Cardinality(Elements(s)) <= Len(s)
<1>1. Len(s) \in Nat /\ DOMAIN s = 1 .. Len(s)
  OBVIOUS
<1>2. IsFiniteSet(1 .. Len(s)) /\ Cardinality(1 .. Len(s)) = Len(s)
  BY <1>1, FS_Interval
<1> DEFINE f == [i \in 1 .. Len(s) |-> s[i]]
<1>3. f \in Surjection(1 .. Len(s), Elements(s))
  BY <1>1 DEF Elements, Surjection
<1> HIDE DEF f
<1> QED
  BY <1>2, <1>3, FS_Surjection

(* The queue while no I/O error ever happened: the file holds every queued *)
(* payload once, and a start reads back what it holds.                     *)
CleanQueue ==
    /\ writeFailed = 0 /\ ~readFailed
    /\ ~Persistent => disk = Image(<<>>) /\ proc # "loading"
    /\ Distinct(disk.lines) /\ disk.lines \in Seq(Payload)
    /\ Len(disk.lines) <= MaxSize
    /\ Distinct(buf)
    /\ Bounded
    /\ proc = "loading" =>
          Len(buf) = pos /\ \A i \in 1 .. pos : buf[i] = disk.lines[i]
    /\ proc \in {"down", "bootFailed"} => buf = <<>>

(* What is queued, in memory or in the file.                               *)
Queued == Elements(buf) \cup OnDisk

LEMMA OnDiskIs ==
    ASSUME QueueInv, CleanQueue
    PROVE  /\ OnDisk = Elements(disk.lines)
           /\ Persistent => Queued = OnDisk
           /\ proc = "up" => Queued = Elements(buf)
           /\ ~Persistent => Queued = Elements(buf) /\ OnDisk = {}
<1>1. OnDisk = Elements(disk.lines)
  BY DEF CleanQueue, OnDisk, Lines, Elements
<1>2. CASE ~Persistent
  <2>1. disk.lines = <<>>
    BY <1>2 DEF CleanQueue, Image
  <2>2. OnDisk = {}
    BY <1>1, <2>1, ElementsEmpty
  <2> QED
    BY <1>1, <1>2, <2>2 DEF Queued
<1>3. CASE Persistent /\ proc = "up"
  <2>1. disk.lines = buf
    BY <1>3 DEF CleanQueue, QueueInv, DiskMirrorsBuffer, Image
  <2> QED
    BY <1>1, <1>3, <2>1 DEF Queued
<1>4. CASE Persistent /\ proc = "loading"
  <2>1. Elements(buf) \subseteq Elements(disk.lines)
    <3>1. DOMAIN buf = 1 .. pos /\ DOMAIN disk.lines = 1 .. Len(disk.lines)
          /\ pos \in 0 .. Len(disk.lines) /\ Len(disk.lines) \in Nat
      BY <1>4 DEF CleanQueue, QueueInv, QueueTypeOK
    <3>2. \A i \in 1 .. pos : i \in 1 .. Len(disk.lines)
      BY <3>1
    <3> QED
      BY <1>4, <3>1, <3>2 DEF CleanQueue, Elements
  <2> QED
    BY <1>1, <1>4, <2>1 DEF Queued
<1>5. CASE Persistent /\ proc \in {"down", "bootFailed"}
  <2>1. Elements(buf) = {}
    BY <1>5, ElementsEmpty DEF CleanQueue
  <2> QED
    BY <1>1, <1>5, <2>1 DEF Queued
<1> QED
  BY <1>2, <1>3, <1>4, <1>5 DEF QueueInv, QueueTypeOK
-----------------------------------------------------------------------------
(* What each operation of the queue does to what is queued, as long as no  *)
(* I/O error happens.                                                      *)

LEMMA PutEffect ==
    ASSUME QueueInv, CleanQueue, NEW p \in Payload, p \notin Queued,
           Put(p), faults' = faults
    PROVE  /\ CleanQueue'
           /\ \/ Queued' = Queued \cup {p} /\ evicted' = evicted
              \/ \E q \in Queued : /\ Queued' = (Queued \ {q}) \cup {p}
                                   /\ evicted' = evicted \cup {q}
<1>1. /\ proc = "up" /\ proc' = "up" /\ readFailed' = readFailed
      /\ Queued = Elements(buf) /\ p \notin Elements(buf)
      /\ buf \in Seq(Payload) /\ Len(buf) \in Nat
  BY OnDiskIs DEF Put, Ready, QueueInv, QueueTypeOK
<1>2. QueueInv'
  BY PutInv
<1>3. NoFault /\ writeFailed' = 0
  BY DEF Put, NoFault, Fault, AppendLine, CompactDisk, CleanQueue, QueueInv, QueueTypeOK
<1>4. /\ buf' \in Seq(Payload)
      /\ Distinct(buf')
      /\ Len(buf') <= MaxSize
      /\ \/ Elements(buf') = Elements(buf) \cup {p} /\ evicted' = evicted
         \/ \E q \in Queued : /\ Elements(buf') = (Elements(buf) \ {q}) \cup {p}
                              /\ evicted' = evicted \cup {q}
  <2>1. CASE Len(buf) < MaxSize
    <3>1. buf' = Append(buf, p) /\ evicted' = evicted
      BY <1>1, <2>1, QueueAssumption DEF Put, Push
    <3>2. Distinct(Append(buf, p)) /\ Elements(Append(buf, p)) = Elements(buf) \cup {p}
      BY <1>1, DistinctAppend, ElementsAppend DEF CleanQueue
    <3>3. Len(buf') <= MaxSize
      BY <1>1, <2>1, <3>1, QueueAssumption
    <3> QED
      BY <1>1, <3>1, <3>2, <3>3
  <2>2. CASE ~(Len(buf) < MaxSize)
    <3> DEFINE t == Tail(buf)
               h == Head(buf)
    <3>1. Len(buf) >= MaxSize /\ buf # <<>>
      BY <1>1, <2>2, QueueAssumption
    <3>2. buf' = Append(t, p) /\ evicted' = evicted \cup {h}
      BY <3>1 DEF Put, Push
    <3>3. /\ Distinct(t) /\ h \notin Elements(t)
          /\ Elements(buf) = {h} \cup Elements(t) /\ t \in Seq(Payload)
          /\ Len(t) = Len(buf) - 1
      BY <1>1, <3>1, DistinctTail, ElementsTail DEF CleanQueue
    <3> HIDE DEF t, h
    <3>4. /\ Distinct(Append(t, p)) /\ Elements(Append(t, p)) = Elements(t) \cup {p}
          /\ Append(t, p) \in Seq(Payload) /\ Len(Append(t, p)) = Len(t) + 1
      BY <1>1, <3>3, DistinctAppend, ElementsAppend
    <3>5. Elements(buf') = (Elements(buf) \ {h}) \cup {p} /\ h \in Queued
      BY <1>1, <3>2, <3>3, <3>4
    <3>6. Len(buf') <= MaxSize
      BY <1>1, <3>2, <3>3, <3>4, QueueAssumption DEF CleanQueue, Bounded
    <3> QED
      BY <3>2, <3>4, <3>5, <3>6
  <2> QED
    BY <2>1, <2>2
<1>5. CleanQueue'
  <2>1. CASE Persistent
    <3>1. disk' = Image(buf')
      BY <1>1, <1>2, <1>3, <2>1 DEF QueueInv, DiskMirrorsBuffer, CleanQueue
    <3> QED
      BY <1>1, <1>3, <1>4, <2>1, <3>1 DEF CleanQueue, Image, Bounded
  <2>2. CASE ~Persistent
    <3>1. disk' = disk
      BY <2>2 DEF Put
    <3> QED
      BY <1>1, <1>3, <1>4, <2>2, <3>1 DEF CleanQueue, Bounded
  <2> QED
    BY <2>1, <2>2
<1>6. Queued' = Elements(buf')
  <2>1. CASE Persistent
    <3>1. disk' = Image(buf')
      BY <1>1, <1>2, <1>3, <2>1 DEF QueueInv, DiskMirrorsBuffer, CleanQueue
    <3> QED
      BY <3>1 DEF Queued, OnDisk, Lines, Image, Elements
  <2>2. CASE ~Persistent
    <3>1. OnDisk' = OnDisk /\ OnDisk = {}
      BY <2>2, OnDiskIs DEF Put, OnDisk, Lines, Elements
    <3> QED
      BY <3>1 DEF Queued, Elements
  <2> QED
    BY <2>1, <2>2
<1> QED
  BY <1>1, <1>4, <1>5, <1>6

(* Taking the oldest payload out, by a pop or by the byte loop.            *)
LEMMA TakeEffect ==
    ASSUME QueueInv, CleanQueue, Pop \/ EnforceDrop, faults' = faults
    PROVE  /\ CleanQueue'
           /\ Queued' = Queued \ {Head(buf)}
           /\ Head(buf) \in Queued /\ Head(buf) \in Payload
<1> DEFINE t == Tail(buf)
           h == Head(buf)
<1>1. /\ proc = "up" /\ proc' = "up" /\ readFailed' = readFailed
      /\ Queued = Elements(buf) /\ buf # <<>> /\ buf' = t
      /\ buf \in Seq(Payload) /\ Len(buf) \in Nat
  BY OnDiskIs DEF Pop, EnforceDrop, Ready, QueueInv, QueueTypeOK, Phases
<1>2. QueueInv'
  BY TakeInv, EnforceInv DEF EnforceMaxBytes
<1>3. NoFault /\ writeFailed' = 0
  BY DEF Pop, EnforceDrop, NoFault, Fault, CompactDisk, CleanQueue, QueueInv, QueueTypeOK
<1>4. /\ Distinct(t) /\ h \notin Elements(t) /\ h \in Payload
      /\ Elements(buf) = {h} \cup Elements(t) /\ t \in Seq(Payload)
      /\ Len(t) = Len(buf) - 1
  BY <1>1, DistinctTail, ElementsTail DEF CleanQueue
<1> HIDE DEF t, h
<1>5. Len(buf') <= MaxSize
  BY <1>1, <1>4, QueueAssumption DEF CleanQueue, Bounded
<1>6. CASE Persistent
  <2>1. disk' = Image(buf')
    BY <1>1, <1>2, <1>3, <1>6 DEF QueueInv, DiskMirrorsBuffer, CleanQueue
  <2>2. CleanQueue'
    BY <1>1, <1>3, <1>4, <1>5, <1>6, <2>1 DEF CleanQueue, Image, Bounded
  <2>3. OnDisk' \subseteq Elements(buf')
    BY <2>1 DEF OnDisk, Lines, Image, Elements
  <2>4. Queued' = Elements(t)
    BY <1>1, <2>3 DEF Queued, Elements
  <2> QED
    BY <1>1, <1>4, <2>2, <2>4 DEF h
<1>7. CASE ~Persistent
  <2>1. disk' = disk
    BY <1>7 DEF Pop, EnforceDrop, CompactDisk, QueueInv, Phases
  <2>2. CleanQueue'
    BY <1>1, <1>3, <1>4, <1>5, <1>7, <2>1 DEF CleanQueue, Bounded
  <2>3. OnDisk' = OnDisk /\ OnDisk = {}
    BY <1>7, <2>1, OnDiskIs DEF OnDisk, Lines, Elements
  <2>4. Queued' = Elements(t)
    BY <1>1, <2>3 DEF Queued, Elements
  <2> QED
    BY <1>1, <1>4, <2>2, <2>4 DEF h
<1> QED
  BY <1>6, <1>7

(* A death keeps what the file holds, and all that was queued when there   *)
(* is a file.                                                              *)
LEMMA DeathEffect ==
    ASSUME QueueInv, CleanQueue, Crash \/ CrashInAppend
    PROVE  /\ CleanQueue'
           /\ Queued' = OnDisk
           /\ evicted' = evicted
<1>1. /\ proc' = "down" /\ Forget /\ evicted' = evicted
      /\ disk' = disk \/ disk' \in Torn(disk)
  BY DEF Crash, CrashInAppend
<1>2. disk'.lines = disk.lines /\ (~Persistent => disk' = disk)
  BY <1>1 DEF Crash, CrashInAppend, Torn, QueueInv, QueueTypeOK, File
<1>3. Distinct(<<>>) /\ Len(<<>>) = 0
  BY DEF Distinct
<1>4. CleanQueue'
  BY <1>1, <1>2, <1>3, QueueAssumption DEF CleanQueue, Forget, Bounded
<1>5. OnDisk' = OnDisk
  BY <1>2 DEF OnDisk, Lines, Elements
<1>6. Queued' = OnDisk
  BY <1>1, <1>5, ElementsEmpty DEF Queued, Forget, Elements
<1> QED
  BY <1>1, <1>4, <1>6

(* Starting and loading lose nothing and add nothing.                      *)
LEMMA StartEffect ==
    ASSUME QueueInv, CleanQueue, Boot \/ Load, faults' = faults
    PROVE  /\ CleanQueue'
           /\ Queued' = Queued
           /\ evicted' = evicted
<1>1. CASE Boot
  <2>1. UNCHANGED <<buf, disk, pos, writeFailed, readFailed, evicted>>
    BY <1>1 DEF Boot
  <2>2. proc \in {"down", "bootFailed"} /\ proc' = IF Persistent THEN "loading" ELSE "up"
    BY <1>1 DEF Boot
  <2>3. buf = <<>> /\ pos = 0
    BY <2>2 DEF CleanQueue, QueueInv, Phases
  <2>4. CleanQueue'
    BY <2>1, <2>2, <2>3 DEF CleanQueue, Bounded
  <2> QED
    BY <2>1, <2>4 DEF Queued, OnDisk, Lines, Elements
<1>2. CASE LoadLine
  <2> DEFINE line == disk.lines[pos + 1]
  <2>1. /\ proc = "loading" /\ proc' = proc /\ pos < Len(disk.lines) /\ pos' = pos + 1
        /\ UNCHANGED <<disk, writeFailed, readFailed>>
    BY <1>2 DEF LoadLine
  <2>2. pos \in Nat /\ Len(disk.lines) \in Nat /\ Len(buf) = pos /\ buf \in Seq(Payload)
        /\ disk.lines \in Seq(Payload) /\ DOMAIN disk.lines = 1 .. Len(disk.lines)
    BY <2>1 DEF CleanQueue, QueueInv, QueueTypeOK
  <2>3. pos + 1 \in DOMAIN disk.lines /\ line \in Payload /\ line # BadText
    BY <2>1, <2>2, QueueAssumption
  <2>4. Len(buf) < MaxSize /\ Len(disk.lines) <= MaxSize
    BY <2>1, <2>2, QueueAssumption DEF CleanQueue
  <2>5. buf' = Append(buf, line) /\ evicted' = evicted
    BY <1>2, <2>2, <2>3, <2>4, QueueAssumption DEF LoadLine, Push
  <2>6. line \notin Elements(buf)
    <3> SUFFICES ASSUME NEW i \in DOMAIN buf, buf[i] = line PROVE FALSE
      BY DEF Elements
    <3>1. i \in 1 .. pos /\ i \in DOMAIN disk.lines /\ i # pos + 1
      BY <2>1, <2>2
    <3>2. disk.lines[i] = disk.lines[pos + 1]
      BY <2>1, <3>1 DEF CleanQueue
    <3> QED
      BY <2>3, <3>1, <3>2 DEF CleanQueue, Distinct
  <2>7. line \in Elements(disk.lines)
    BY <2>3 DEF Elements
  <2> HIDE DEF line
  <2>8. /\ Distinct(Append(buf, line)) /\ Elements(Append(buf, line)) = Elements(buf) \cup {line}
        /\ Len(Append(buf, line)) = Len(buf) + 1
        /\ \A i \in 1 .. Len(buf) : Append(buf, line)[i] = buf[i]
        /\ Append(buf, line)[Len(buf) + 1] = line
    BY <2>2, <2>3, <2>6, DistinctAppend, ElementsAppend DEF CleanQueue
  <2>9. \A i \in 1 .. pos + 1 : buf'[i] = disk.lines[i]
    <3> SUFFICES ASSUME NEW i \in 1 .. pos + 1 PROVE buf'[i] = disk.lines[i]
      OBVIOUS
    <3>1. CASE i = pos + 1
      BY <2>2, <2>5, <2>8, <3>1 DEF line
    <3>2. CASE i # pos + 1
      <4>1. i \in 1 .. pos
        BY <2>2, <3>2
      <4> QED
        BY <2>1, <2>2, <2>5, <2>8, <4>1 DEF CleanQueue
    <3> QED
      BY <3>1, <3>2
  <2>10. Persistent /\ Len(buf') = pos' /\ Len(buf') <= MaxSize
    BY <2>1, <2>2, <2>4, <2>5, <2>8, QueueAssumption DEF CleanQueue
  <2>11. CleanQueue'
    BY <2>1, <2>5, <2>8, <2>9, <2>10 DEF CleanQueue, Bounded
  <2>12. Elements(buf') \subseteq Elements(buf) \cup OnDisk /\ Elements(buf) \subseteq Elements(buf')
    BY <2>5, <2>7, <2>8, OnDiskIs
  <2>13. OnDisk' = OnDisk
    BY <2>1 DEF OnDisk, Lines, Elements
  <2>14. Elements(buf)' = Elements(buf')
    BY DEF Elements
  <2> QED
    BY <2>5, <2>11, <2>12, <2>13, <2>14 DEF Queued
<1>3. CASE LoadEnd
  <2>1. /\ proc = "loading" /\ pos = Len(disk.lines) /\ proc' = "up"
        /\ UNCHANGED <<buf, readFailed, evicted>>
        /\ disk' = Image(buf) /\ writeFailed' = writeFailed
    BY <1>3 DEF LoadEnd, CompactDisk, Fault, NoFault, QueueInv, QueueTypeOK
  <2>2. buf = disk.lines
    <3>1. /\ Len(buf) = Len(disk.lines) /\ buf \in Seq(Payload) /\ disk.lines \in Seq(Payload)
          /\ \A i \in 1 .. Len(buf) : buf[i] = disk.lines[i]
      BY <2>1 DEF CleanQueue, QueueInv, QueueTypeOK
    <3> QED
      BY <3>1
  <2>3. disk'.lines = disk.lines /\ Persistent
    BY <2>1, <2>2 DEF Image, CleanQueue
  <2>4. CleanQueue'
    BY <2>1, <2>3 DEF CleanQueue, Bounded
  <2> QED
    BY <2>1, <2>3, <2>4 DEF Queued, OnDisk, Lines, Elements
<1>4. CASE LoadInterrupted
  BY <1>4 DEF LoadInterrupted, QueueInv, QueueTypeOK
<1>5. CASE LoadRaises
  <2>1. /\ proc' = "bootFailed" /\ Forget /\ UNCHANGED <<disk, evicted>>
        /\ proc = "loading"
    BY <1>5 DEF LoadRaises
  <2>2. Distinct(<<>>) /\ Len(<<>>) = 0
    BY DEF Distinct
  <2>3. CleanQueue'
    BY <2>1, <2>2, QueueAssumption DEF CleanQueue, Forget, Bounded
  <2>4. OnDisk' = OnDisk
    BY <2>1 DEF OnDisk, Lines, Elements
  <2>5. Queued' = OnDisk
    BY <2>1, <2>4, ElementsEmpty DEF Queued, Forget, Elements
  <2>6. Queued = OnDisk
    BY <2>1, OnDiskIs DEF CleanQueue
  <2> QED
    BY <2>1, <2>3, <2>5, <2>6
<1> QED
  BY <1>1, <1>2, <1>3, <1>4, <1>5 DEF Load
-----------------------------------------------------------------------------
(* Where the samples wait while no I/O error happened: each in one place.  *)

InHand == {item, cur} \ {None}
Waiting == Queued \cup InHand

Placed ==
    /\ CleanQueue
    /\ InHand \cap Queued = {}
    /\ item # None => item # cur
    /\ Waiting \subseteq Collected

(* What a step may do to the samples that wait: nothing, but for an answer *)
(* that was lost; one more sample; one less, for a reason; or a death.     *)
Wait ==
    /\ Waiting' = Waiting
    /\ UNCHANGED <<next, evicted, crashes>>
    /\ UNCHANGED serverVars \/ \E p \in Waiting : ReplyLost(p)

Begin ==
    /\ next \in Payload
    /\ Waiting' = Waiting \cup {next}
    /\ next' = next + 1
    /\ UNCHANGED <<serverVars, evicted, crashes>>

Leave ==
    /\ UNCHANGED <<next, crashes>>
    /\ \E p \in Waiting :
          /\ Waiting' = Waiting \ {p}
          /\ \/ evicted' = evicted \cup {p} /\ UNCHANGED serverVars
             \/ evicted' = evicted /\ (Accepted(p) \/ NonRetryable(p))

Perish ==
    /\ Waiting' = (IF Persistent THEN Queued ELSE {})
    /\ crashes' = crashes + 1
    /\ UNCHANGED <<serverVars, evicted, next>>

LEMMA QueueUnchanged ==
    ASSUME UNCHANGED queueVars
    PROVE  /\ Queued' = Queued
           /\ evicted' = evicted
           /\ CleanQueue' <=> CleanQueue
BY DEF queueVars, Queued, OnDisk, Lines, Elements, CleanQueue, Bounded, Distinct

LEMMA NeitherIsFault ==
    ASSUME QueueInv, LoopInv, [Next]_vars
    PROVE  faults \in Nat /\ faults' \in Nat /\ faults <= faults'
<1>1. faults \in Nat /\ faults' \in Nat
  <2>1. QueueInv'
    BY UsesQueueOperations, QueueStepInv
  <2> QED
    BY <2>1, QueueAssumption DEF QueueInv, QueueTypeOK
<1>2. faults' = faults \/ faults' = faults + 1
  <2>1. [QueueNext]_queueVars
    BY UsesQueueOperations
  <2> QED
    BY <2>1 DEF QueueNext, queueVars, Put, EnforceMaxBytes, EnforceDrop, EnforceDone, Pop,
         Drain, Crash, CrashInAppend, Boot, Load, LoadLine, LoadEnd, LoadInterrupted,
         LoadRaises, AppendLine, CompactDisk, NoFault, Fault
<1> QED
  BY <1>1, <1>2

LEMMA PlacedInit == Init => Placed
<1> SUFFICES ASSUME Init PROVE Placed
  OBVIOUS
<1>1. /\ buf = <<>> /\ disk = Image(<<>>) /\ proc = "up" /\ item = None /\ cur = None
      /\ writeFailed = 0 /\ ~readFailed
  BY DEF Init, QueueInit
<1>2. Distinct(<<>>) /\ Len(<<>>) = 0 /\ <<>> \in Seq(Payload)
  BY DEF Distinct
<1>5. disk.lines = <<>>
  BY <1>1 DEF Image
<1>3. CleanQueue
  <2>1. Len(buf) <= MaxSize /\ Len(disk.lines) <= MaxSize
    BY <1>1, <1>2, <1>5, QueueAssumption
  <2>2. Distinct(buf) /\ Distinct(disk.lines) /\ disk.lines \in Seq(Payload)
    BY <1>1, <1>2, <1>5
  <2> QED
    BY <1>1, <2>1, <2>2 DEF CleanQueue, Bounded
<1>4. Queued = {} /\ InHand = {}
  BY <1>1, <1>5, ElementsEmpty DEF Queued, OnDisk, Lines, InHand
<1> QED
  BY <1>1, <1>3, <1>4 DEF Placed, Waiting

LEMMA StepEffect ==
    ASSUME LoopInv, QueueInv, Placed, [Next]_vars, faults' = faults
    PROVE  Placed' /\ (Wait \/ Begin \/ Leave \/ Perish)
<1> USE NoneIsNoPayload, DeliveryAssumption
<1>0. /\ next \in 1 .. MaxSamples + 1
      /\ cur \in Payload \cup {None} /\ item \in Payload \cup {None}
      /\ CleanQueue /\ Waiting \subseteq Collected
  BY DEF LoopInv, LoopTypeOK, Placed
<1>1. CASE UNCHANGED vars
  <2>1. /\ UNCHANGED <<item, cur, next, crashes>> /\ UNCHANGED queueVars
        /\ UNCHANGED serverVars
    BY <1>1 DEF vars, loopVars
  <2> QED
    BY <2>1, QueueUnchanged DEF Placed, Waiting, InHand, Collected, Wait
<1>2. CASE Collect
  <2>1. /\ UNCHANGED <<item, crashes>> /\ UNCHANGED queueVars /\ UNCHANGED serverVars
        /\ cur = None /\ item = None
    BY <1>2 DEF Collect, LoopInv, LoopPhases
  <2>2. CASE next \in Payload
    <3>1. cur' = next /\ next' = next + 1
      BY <1>2, <2>2 DEF Collect
    <3>2. Collected' = Collected \cup {next} /\ next \notin Collected
      BY <1>0, <2>2, <3>1 DEF Collected
    <3>3. Queued' = Queued /\ evicted' = evicted /\ CleanQueue'
      BY <1>0, <2>1, QueueUnchanged
    <3>4. InHand = {} /\ InHand' = {next} /\ next \notin Queued
      BY <1>0, <2>1, <2>2, <3>1, <3>2 DEF InHand, Waiting
    <3>5. Waiting' = Waiting \cup {next}
      BY <3>3, <3>4 DEF Waiting
    <3> QED
      BY <1>0, <2>1, <2>2, <3>1, <3>2, <3>3, <3>4, <3>5 DEF Placed, Begin
  <2>3. CASE next \notin Payload
    <3>1. cur' = None /\ next' = next
      BY <1>2, <2>3 DEF Collect
    <3> QED
      BY <2>1, <3>1, QueueUnchanged DEF Placed, Waiting, InHand, Collected, Wait
  <2> QED
    BY <2>2, <2>3
<1>3. CASE DrainPop
  <2>1. /\ item = None /\ item' = Head(buf) /\ UNCHANGED <<cur, next, crashes, evicted>>
        /\ UNCHANGED serverVars /\ Pop
    BY <1>3 DEF DrainPop, Pop, LoopInv, LoopPhases
  <2>2. /\ CleanQueue' /\ Queued' = Queued \ {Head(buf)}
        /\ Head(buf) \in Queued /\ Head(buf) \in Payload
    BY <1>0, <2>1, TakeEffect
  <2>3. Head(buf) # cur
    BY <1>0, <2>2 DEF Placed, InHand
  <2>4. Waiting' = Waiting /\ InHand' = InHand \cup {Head(buf)}
    BY <2>1, <2>2 DEF Waiting, InHand
  <2> QED
    BY <1>0, <2>1, <2>2, <2>3, <2>4 DEF Placed, Collected, Wait
<1>4. CASE DrainEnd
  BY <1>4, QueueUnchanged
     DEF DrainEnd, serverVars, Placed, Waiting, InHand, Collected, Wait
<1>5. CASE ReplayAccepted \/ ReplayRefused
  <2>1. item \in Payload
    BY <1>5 DEF ReplayAccepted, ReplayRefused, LoopInv, LoopTypeOK, LoopPhases
  <2>2. /\ Accepted(item) \/ NonRetryable(item)
        /\ item' = None /\ UNCHANGED <<cur, next, crashes>> /\ UNCHANGED queueVars
    BY <1>5 DEF ReplayAccepted, ReplayRefused
  <2>3. item # cur /\ item \notin Queued
    BY <2>1 DEF Placed, InHand
  <2>4. Queued' = Queued /\ evicted' = evicted /\ CleanQueue'
    BY <1>0, <2>2, QueueUnchanged
  <2>5. InHand' = InHand \ {item} /\ item \in InHand
    BY <2>1, <2>2, <2>3 DEF InHand
  <2>6. Waiting' = Waiting \ {item} /\ item \in Waiting
    BY <2>3, <2>4, <2>5 DEF Waiting
  <2> QED
    BY <1>0, <2>2, <2>4, <2>5, <2>6 DEF Placed, Collected, Leave
<1>6. CASE ReplayFails
  <2>1. item \in Payload /\ item \in Waiting
    BY <1>6 DEF ReplayFails, LoopInv, LoopTypeOK, LoopPhases, Waiting, InHand
  <2>2. UNCHANGED <<item, cur, next, crashes>> /\ UNCHANGED queueVars
    BY <1>6 DEF ReplayFails
  <2>3. Waiting' = Waiting /\ Placed' /\ evicted' = evicted
    BY <2>2, QueueUnchanged DEF Placed, Waiting, InHand, Collected
  <2> QED
    BY <1>6, <2>1, <2>2, <2>3 DEF ReplayFails, Failed, Wait
<1>7. CASE Reput \/ Enqueue
  <2> DEFINE p == IF pc = "reput" THEN item ELSE cur
  <2>1. /\ p \in Payload /\ Put(p) /\ UNCHANGED <<next, crashes>> /\ UNCHANGED serverVars
        /\ InHand' = InHand \ {p} /\ p \in InHand
        /\ item' # None => item' # cur'
    BY <1>7 DEF Reput, Enqueue, LoopInv, LoopTypeOK, LoopPhases, InHand, Placed
  <2> HIDE DEF p
  <2>2. p \notin Queued
    BY <2>1 DEF Placed
  <2>3. /\ CleanQueue'
        /\ \/ Queued' = Queued \cup {p} /\ evicted' = evicted
           \/ \E q \in Queued : /\ Queued' = (Queued \ {q}) \cup {p}
                                /\ evicted' = evicted \cup {q}
    BY <1>0, <2>1, <2>2, PutEffect
  <2>4. InHand' \cap Queued' = {}
    BY <2>1, <2>3 DEF Placed
  <2>5. CASE Queued' = Queued \cup {p} /\ evicted' = evicted
    <3>1. Waiting' = Waiting
      BY <2>1, <2>5 DEF Waiting
    <3> QED
      BY <1>0, <2>1, <2>3, <2>4, <2>5, <3>1 DEF Placed, Collected, Wait
  <2>6. ASSUME NEW q \in Queued, Queued' = (Queued \ {q}) \cup {p}, evicted' = evicted \cup {q}
        PROVE  Placed' /\ Leave
    <3>1. Waiting' = Waiting \ {q} /\ q \in Waiting
      BY <2>1, <2>2, <2>6 DEF Waiting, Placed
    <3> QED
      BY <1>0, <2>1, <2>3, <2>4, <2>6, <3>1 DEF Placed, Collected, Leave
  <2> QED
    BY <2>3, <2>5, <2>6
<1>8. CASE SendSettles
  <2>1. /\ cur' = None /\ item = None /\ UNCHANGED <<item, next, crashes>>
        /\ UNCHANGED queueVars
    BY <1>8 DEF SendSettles, LoopInv, LoopPhases
  <2>2. Queued' = Queued /\ evicted' = evicted /\ CleanQueue'
    BY <1>0, <2>1, QueueUnchanged
  <2>3. CASE cur = None
    <3>1. UNCHANGED serverVars /\ Waiting' = Waiting /\ InHand' = InHand
      BY <1>8, <2>1, <2>2, <2>3 DEF SendSettles, Waiting, InHand
    <3> QED
      BY <1>0, <2>1, <2>2, <2>3, <3>1 DEF Placed, Collected, Wait
  <2>4. CASE cur # None
    <3>1. Accepted(cur) \/ NonRetryable(cur)
      BY <1>8, <2>4 DEF SendSettles
    <3>2. InHand = {cur} /\ InHand' = {} /\ cur \notin Queued
      BY <2>1, <2>4 DEF InHand, Placed
    <3>3. Waiting' = Waiting \ {cur} /\ cur \in Waiting
      BY <2>2, <3>2 DEF Waiting
    <3> QED
      BY <1>0, <2>1, <2>2, <3>1, <3>2, <3>3 DEF Placed, Collected, Leave
  <2> QED
    BY <2>3, <2>4
<1>9. CASE SendFails
  <2>1. UNCHANGED <<item, cur, next, crashes>> /\ UNCHANGED queueVars
        /\ (Failed(cur) \/ ReplyLost(cur)) /\ cur # None
    BY <1>9 DEF SendFails
  <2>2. Waiting' = Waiting /\ Placed' /\ evicted' = evicted /\ cur \in Waiting
    BY <2>1, QueueUnchanged DEF Placed, Waiting, InHand, Collected
  <2> QED
    BY <2>1, <2>2 DEF Failed, Wait
<1>10. CASE Enforce
  <2>1. UNCHANGED <<item, cur, next, crashes>> /\ UNCHANGED serverVars
    BY <1>10 DEF Enforce, loopVars
  <2>2. CASE EnforceDone
    <3>1. UNCHANGED <<buf, disk, writeFailed, readFailed, proc, pos, evicted>>
      BY <2>2 DEF EnforceDone
    <3>2. Queued' = Queued /\ CleanQueue'
      BY <1>0, <3>1 DEF Queued, OnDisk, Lines, Elements, CleanQueue, Bounded, Distinct
    <3> QED
      BY <2>1, <3>1, <3>2 DEF Placed, Waiting, InHand, Collected, Wait
  <2>3. CASE EnforceDrop
    <3>1. /\ CleanQueue' /\ Queued' = Queued \ {Head(buf)}
          /\ Head(buf) \in Queued /\ evicted' = evicted \cup {Head(buf)}
      BY <1>0, <2>3, TakeEffect DEF EnforceDrop
    <3>2. Head(buf) \notin InHand /\ InHand' = InHand
      BY <2>1, <3>1 DEF Placed, InHand
    <3>3. Waiting' = Waiting \ {Head(buf)} /\ Head(buf) \in Waiting
      BY <3>1, <3>2 DEF Waiting
    <3> QED
      BY <1>0, <2>1, <3>1, <3>2, <3>3 DEF Placed, Collected, Leave
  <2> QED
    BY <1>10, <2>2, <2>3 DEF Enforce, EnforceMaxBytes
<1>11. CASE Die
  <2>1. /\ item' = None /\ cur' = None /\ crashes' = crashes + 1 /\ next' = next
        /\ UNCHANGED serverVars /\ (Crash \/ CrashInAppend)
    BY <1>11 DEF Die
  <2>2. CleanQueue' /\ Queued' = OnDisk /\ evicted' = evicted
    BY <1>0, <2>1, DeathEffect
  <2>3. OnDisk = IF Persistent THEN Queued ELSE {}
    BY <1>0, OnDiskIs
  <2>4. InHand' = {}
    BY <2>1 DEF InHand
  <2>5. Waiting' = OnDisk /\ OnDisk \subseteq Queued
    BY <2>2, <2>4 DEF Waiting, Queued
  <2> QED
    BY <1>0, <2>1, <2>2, <2>3, <2>4, <2>5 DEF Placed, Waiting, Collected, Perish
<1>12. CASE Restart
  <2>1. UNCHANGED <<item, cur, next, crashes>> /\ UNCHANGED serverVars
        /\ (Boot \/ Load)
    BY <1>12 DEF Restart, loopVars
  <2>2. CleanQueue' /\ Queued' = Queued /\ evicted' = evicted
    BY <1>0, <2>1, StartEffect
  <2> QED
    BY <2>1, <2>2 DEF Placed, Waiting, InHand, Collected, Wait
<1> QED
  BY <1>1, <1>2, <1>3, <1>4, <1>5, <1>6, <1>7, <1>8, <1>9, <1>10, <1>11, <1>12
     DEF Next, Step
-----------------------------------------------------------------------------
(* What the server and the counters know of a sample that waits, and of    *)
(* one that is still to come: nothing, but for the answers that were lost. *)

Unsettled(p) == stored[p] = lostReply[p] /\ p \notin refused /\ p \notin evicted

Ledger ==
    /\ \A p \in Waiting : Unsettled(p)
    /\ \A p \in Payload : p >= next => Unsettled(p)
    /\ \A p \in Payload : stored[p] <= 1 + lostReply[p]

LEMMA WaitingIs ==
    /\ Waiting = Held \cup OnDisk
    /\ Waiting' = Held' \cup OnDisk'
BY DEF Waiting, Queued, InHand, Held

LEMMA WaitingArePayloads ==
    ASSUME LoopTypeOK, Placed
    PROVE  \A p \in Waiting : p \in Payload /\ p < next
BY DeliveryAssumption DEF LoopTypeOK, Placed, Collected

(* An answer changes what the server knows of the sample it is for only.   *)
LEMMA AnswerIsLocal ==
    ASSUME LoopTypeOK, NEW p \in Payload, Accepted(p) \/ ReplyLost(p) \/ NonRetryable(p)
    PROVE  /\ \A q \in Payload \ {p} :
                /\ stored'[q] = stored[q] /\ lostReply'[q] = lostReply[q]
                /\ q \in refused' <=> q \in refused
           /\ Accepted(p) => /\ stored'[p] = stored[p] + 1
                             /\ lostReply'[p] = lostReply[p] /\ refused' = refused
           /\ ReplyLost(p) => /\ stored'[p] = stored[p] + 1
                              /\ lostReply'[p] = lostReply[p] + 1 /\ refused' = refused
           /\ NonRetryable(p) => /\ stored' = stored /\ lostReply' = lostReply
                                 /\ refused' = refused \cup {p}
BY DEF LoopTypeOK, Accepted, ReplyLost, NonRetryable

LEMMA LedgerStep ==
    ASSUME LoopTypeOK, Placed, Ledger, Wait \/ Begin \/ Leave \/ Perish
    PROVE  Ledger'
<1> USE DeliveryAssumption, WaitingArePayloads
<1>0. /\ next \in Nat
      /\ \A p \in Payload : stored[p] \in Nat /\ lostReply[p] \in Nat /\ p \in Nat
  BY DEF LoopTypeOK
<1>1. ASSUME UNCHANGED serverVars, evicted' = evicted,
             Waiting' \subseteq Waiting \cup {q \in Payload : q >= next}, next' >= next,
             next' \in Nat
      PROVE  Ledger'
  <2>1. stored' = stored /\ lostReply' = lostReply /\ refused' = refused
    BY <1>1 DEF serverVars
  <2>2. \A p \in Payload : p >= next' => p >= next
    BY <1>0, <1>1
  <2> QED
    BY <1>1, <2>1, <2>2 DEF Ledger, Unsettled
<1>2. CASE Wait
  <2>1. CASE UNCHANGED serverVars
    BY <1>0, <1>1, <1>2, <2>1 DEF Wait
  <2>2. ASSUME NEW p \in Waiting, ReplyLost(p) PROVE Ledger'
    <3>1. p \in Payload
      OBVIOUS
    <3>2. /\ \A q \in Payload \ {p} :
                /\ stored'[q] = stored[q] /\ lostReply'[q] = lostReply[q]
                /\ q \in refused' <=> q \in refused
          /\ stored'[p] = stored[p] + 1
          /\ lostReply'[p] = lostReply[p] + 1 /\ refused' = refused
      BY <2>2, <3>1, AnswerIsLocal
    <3>3. evicted' = evicted /\ next' = next /\ Waiting' = Waiting
      BY <1>2 DEF Wait
    <3>4. \A q \in Payload : Unsettled(q) => Unsettled(q)'
      BY <1>0, <3>1, <3>2, <3>3 DEF Unsettled
    <3>5. \A q \in Payload : stored'[q] <= 1 + lostReply'[q]
      BY <1>0, <3>1, <3>2 DEF Ledger
    <3> QED
      BY <3>3, <3>4, <3>5 DEF Ledger
  <2> QED
    BY <1>2, <2>1, <2>2 DEF Wait
<1>3. CASE Begin
  BY <1>0, <1>1, <1>3 DEF Begin
<1>4. CASE Leave
  <2> SUFFICES ASSUME NEW p \in Waiting, Waiting' = Waiting \ {p}, next' = next,
                      \/ evicted' = evicted \cup {p} /\ UNCHANGED serverVars
                      \/ evicted' = evicted /\ (Accepted(p) \/ NonRetryable(p))
               PROVE  Ledger'
    BY <1>4 DEF Leave
  <2>1. p \in Payload /\ p < next /\ Unsettled(p)
    BY DEF Ledger
  <2>2. /\ \A q \in Payload \ {p} :
             /\ stored'[q] = stored[q] /\ lostReply'[q] = lostReply[q]
             /\ q \in refused' <=> q \in refused
             /\ q \in evicted' <=> q \in evicted
        /\ stored'[p] \in {stored[p], stored[p] + 1} /\ lostReply'[p] = lostReply[p]
    <3>1. CASE evicted' = evicted \cup {p} /\ UNCHANGED serverVars
      BY <3>1 DEF serverVars
    <3>2. CASE evicted' = evicted /\ (Accepted(p) \/ NonRetryable(p))
      BY <2>1, <3>2, AnswerIsLocal
    <3> QED
      BY <3>1, <3>2
  <2>3. \A q \in Payload \ {p} : Unsettled(q) => Unsettled(q)'
    BY <2>2 DEF Unsettled
  <2>4. \A q \in Payload : q >= next => q # p
    BY <1>0, <2>1
  <2>5. \A q \in Payload : stored'[q] <= 1 + lostReply'[q]
    <3>1. stored'[p] <= 1 + lostReply'[p]
      BY <1>0, <2>1, <2>2 DEF Unsettled
    <3> QED
      BY <2>2, <3>1 DEF Ledger
  <2> QED
    BY <2>3, <2>4, <2>5 DEF Ledger
<1>5. CASE Perish
  BY <1>0, <1>1, <1>5 DEF Perish, Waiting
<1> QED
  BY <1>2, <1>3, <1>4, <1>5

(* How many samples a death may cost: the two in the hands of the loop,    *)
(* and the queue when it has no file.                                      *)
LEMMA InHandBound == IsFiniteSet(InHand) /\ Cardinality(InHand) <= 2
<1>1. IsFiniteSet({}) /\ Cardinality({}) = 0
  BY FS_EmptySet
<1>2. IsFiniteSet({cur}) /\ Cardinality({cur}) = 1
  BY FS_Singleton
<1>3. IsFiniteSet({cur} \cup {item}) /\ Cardinality({cur} \cup {item}) <= 2
  <2>1. /\ IsFiniteSet({cur} \cup {item})
        /\ Cardinality({cur} \cup {item})
             = IF item \in {cur} THEN Cardinality({cur}) ELSE Cardinality({cur}) + 1
    BY <1>2, FS_AddElement
  <2> QED
    BY <1>2, <2>1
<1>4. InHand \subseteq {cur} \cup {item}
  BY DEF InHand
<1>5. /\ IsFiniteSet(InHand)
      /\ Cardinality(InHand) <= Cardinality({cur} \cup {item})
      /\ Cardinality(InHand) \in Nat /\ Cardinality({cur} \cup {item}) \in Nat
  BY <1>3, <1>4, FS_Subset, FS_CardinalityType
<1> QED
  BY <1>3, <1>5

LEMMA DeathCost ==
    ASSUME LoopInv, QueueInv, Placed, Perish
    PROVE  /\ IsFiniteSet(Waiting \ Waiting')
           /\ Cardinality(Waiting \ Waiting') \in Nat
           /\ Cardinality(Waiting \ Waiting') <= IF Persistent THEN 2 ELSE MaxSize + 2
<1>1. IsFiniteSet(InHand) /\ Cardinality(InHand) <= 2 /\ Cardinality(InHand) \in Nat
  BY InHandBound, FS_CardinalityType
<1>2. CASE Persistent
  <2>1. Waiting \ Waiting' \subseteq InHand
    BY <1>2 DEF Perish, Waiting
  <2>2. /\ IsFiniteSet(Waiting \ Waiting')
        /\ Cardinality(Waiting \ Waiting') <= Cardinality(InHand)
        /\ Cardinality(Waiting \ Waiting') \in Nat
    BY <1>1, <2>1, FS_Subset, FS_CardinalityType
  <2> QED
    BY <1>1, <1>2, <2>2
<1>3. CASE ~Persistent
  <2>1. Queued = Elements(buf) /\ Waiting' = {}
    BY <1>3, OnDiskIs DEF Perish, Placed
  <2>2. /\ IsFiniteSet(Queued) /\ Cardinality(Queued) <= MaxSize
        /\ Cardinality(Queued) \in Nat
    <3>1. /\ IsFiniteSet(Elements(buf)) /\ Cardinality(Elements(buf)) <= Len(buf)
          /\ Len(buf) \in Nat
      BY ElementsBound DEF QueueInv, QueueTypeOK
    <3>2. Cardinality(Elements(buf)) \in Nat /\ Len(buf) <= MaxSize
      BY <3>1, FS_CardinalityType DEF Placed, CleanQueue, Bounded
    <3> QED
      BY <2>1, <3>1, <3>2, QueueAssumption
  <2>3. /\ IsFiniteSet(Waiting)
        /\ Cardinality(Waiting)
             = Cardinality(Queued) + Cardinality(InHand) - Cardinality(Queued \cap InHand)
    BY <1>1, <2>2, FS_Union DEF Waiting
  <2>4. Cardinality(Queued \cap InHand) \in Nat /\ Cardinality(Waiting) \in Nat
    BY <1>1, <2>2, <2>3, FS_Subset, FS_CardinalityType
  <2>5. Cardinality(Waiting) <= MaxSize + 2
    BY <1>1, <2>2, <2>3, <2>4, QueueAssumption
  <2>6. Waiting \ Waiting' = Waiting
    BY <2>1
  <2> QED
    BY <1>3, <2>3, <2>4, <2>5, <2>6
<1> QED
  BY <1>2, <1>3

(* Only a death makes a sample vanish.                                     *)
LEMMA VanishStep ==
    ASSUME LoopInv, Placed, Wait \/ Begin \/ Leave \/ Perish
    PROVE  /\ ~Perish => Vanished' \subseteq Vanished
           /\ Perish => Vanished' \subseteq Vanished \cup (Waiting \ Waiting')
<1> USE DeliveryAssumption, WaitingArePayloads
<1>0. /\ next \in Nat
      /\ \A p \in Payload : stored[p] \in Nat
      /\ LoopTypeOK
  BY DEF LoopInv, LoopTypeOK
<1>1. Vanished = Collected \ (Waiting \cup Settled)
      /\ Vanished' = Collected' \ (Waiting' \cup Settled')
  BY WaitingIs DEF Vanished
<1>2. ASSUME NEW p \in Payload, Accepted(p) \/ ReplyLost(p) \/ NonRetryable(p),
             evicted' = evicted
      PROVE  Settled \subseteq Settled' /\ (~ReplyLost(p) => p \in Settled')
  <2>1. Stored \subseteq Stored' /\ refused \subseteq refused'
    BY <1>0, <1>2, AnswerSettles
  <2>2. ~ReplyLost(p) => p \in Stored' \cup refused'
    BY <1>0, <1>2, AnswerSettles
  <2> QED
    BY <1>2, <2>1, <2>2 DEF Settled, Stored
<1>3. UNCHANGED serverVars => Stored' = Stored /\ refused' = refused
  BY DEF serverVars, Stored
<1>4. CASE Wait
  <2>1. Settled \subseteq Settled'
    <3>1. CASE UNCHANGED serverVars
      BY <1>3, <1>4, <3>1 DEF Wait, Settled, Stored
    <3>2. ASSUME NEW p \in Waiting, ReplyLost(p) PROVE Settled \subseteq Settled'
      BY <1>0, <1>2, <1>4, <3>2 DEF Wait
    <3> QED
      BY <1>4, <3>1, <3>2 DEF Wait
  <2> QED
    BY <1>1, <1>4, <2>1 DEF Wait, Perish, Collected
<1>5. CASE Begin
  <2>1. Settled = Settled' /\ Waiting' = Waiting \cup {next}
    BY <1>3, <1>5 DEF Begin, Settled, Stored
  <2>2. Collected' \subseteq Collected \cup {next}
    BY <1>0, <1>5 DEF Begin, Collected
  <2> QED
    BY <1>1, <2>1, <2>2
<1>6. CASE Leave
  <2>1. PICK p \in Waiting :
             /\ Waiting' = Waiting \ {p}
             /\ \/ evicted' = evicted \cup {p} /\ UNCHANGED serverVars
                \/ evicted' = evicted /\ (Accepted(p) \/ NonRetryable(p))
    BY <1>6 DEF Leave
  <2>2. Settled \subseteq Settled' /\ p \in Settled'
    <3>1. CASE evicted' = evicted \cup {p} /\ UNCHANGED serverVars
      BY <1>3, <3>1 DEF Settled, Stored
    <3>2. CASE evicted' = evicted /\ (Accepted(p) \/ NonRetryable(p))
      <4>1. p \in Payload
        BY <1>0
      <4>2. Stored \subseteq Stored' /\ refused \subseteq refused' /\ p \in Stored' \cup refused'
        BY <1>0, <3>2, <4>1, AnswerSettles
      <4> QED
        BY <3>2, <4>2 DEF Settled, Stored
    <3> QED
      BY <2>1, <3>1, <3>2
  <2>3. Collected' = Collected
    BY <1>6 DEF Leave, Collected
  <2> QED
    BY <1>1, <2>1, <2>2, <2>3
<1>7. CASE Perish
  <2>1. Settled' = Settled /\ Collected' = Collected /\ Waiting' \subseteq Waiting
    BY <1>3, <1>7 DEF Perish, Settled, Stored, Collected, Waiting
  <2> QED
    BY <1>1, <1>7, <2>1
<1> QED
  BY <1>4, <1>5, <1>6, <1>7

LossBound ==
    /\ IsFiniteSet(Vanished)
    /\ Persistent => Cardinality(Vanished) <= 2 * crashes

LEMMA LossStep ==
    ASSUME LoopInv, QueueInv, Placed, LossBound, Wait \/ Begin \/ Leave \/ Perish
    PROVE  LossBound'
<1>0. crashes \in Nat /\ Cardinality(Vanished) \in Nat
  BY FS_CardinalityType, DeliveryAssumption DEF LoopInv, LoopTypeOK, LossBound
<1>1. CASE ~Perish
  <2>1. Vanished' \subseteq Vanished /\ crashes' = crashes
    BY <1>1, VanishStep DEF Wait, Begin, Leave
  <2>2. IsFiniteSet(Vanished') /\ Cardinality(Vanished') <= Cardinality(Vanished)
        /\ Cardinality(Vanished') \in Nat
    BY <2>1, FS_Subset, FS_CardinalityType DEF LossBound
  <2> QED
    BY <1>0, <2>1, <2>2 DEF LossBound
<1>2. CASE Perish
  <2> DEFINE D == Waiting \ Waiting'
  <2>1. IsFiniteSet(D) /\ Cardinality(D) \in Nat /\ (Persistent => Cardinality(D) <= 2)
    BY <1>2, DeathCost
  <2>2. Vanished' \subseteq Vanished \cup D /\ crashes' = crashes + 1
    BY <1>2, VanishStep DEF Perish
  <2> HIDE DEF D
  <2>3. /\ IsFiniteSet(Vanished \cup D)
        /\ Cardinality(Vanished \cup D)
             = Cardinality(Vanished) + Cardinality(D) - Cardinality(Vanished \cap D)
    BY <2>1, FS_Union DEF LossBound
  <2>4. Cardinality(Vanished \cap D) \in Nat /\ Cardinality(Vanished \cup D) \in Nat
    BY <2>1, <2>3, FS_Subset, FS_CardinalityType
  <2>5. /\ IsFiniteSet(Vanished')
        /\ Cardinality(Vanished') <= Cardinality(Vanished \cup D)
        /\ Cardinality(Vanished') \in Nat
    BY <2>2, <2>3, FS_Subset, FS_CardinalityType
  <2> QED
    BY <1>0, <2>1, <2>2, <2>3, <2>4, <2>5 DEF LossBound
<1> QED
  BY <1>1, <1>2
-----------------------------------------------------------------------------
DeliveryInv == faults = 0 => Placed /\ Ledger /\ LossBound

LEMMA Delivering == Spec => [](QueueInv /\ LoopInv /\ DeliveryInv)
<1>1. Init => DeliveryInv
  <2> SUFFICES ASSUME Init PROVE Placed /\ Ledger /\ LossBound
    BY DEF DeliveryInv
  <2>1. Placed /\ Waiting = {}
    <3>1. Placed
      BY PlacedInit
    <3>2. next = 1
      BY DEF Init
    <3> QED
      BY <3>1, <3>2 DEF Placed, Collected
  <2>2. Ledger
    BY <2>1 DEF Init, QueueInit, Ledger, Unsettled
  <2>3. Vanished = {}
    BY DEF Init, Vanished, Collected
  <2>4. LossBound
    BY <2>3, FS_EmptySet DEF LossBound, Init
  <2> QED
    BY <2>1, <2>2, <2>4
<1>2. QueueInv /\ LoopInv /\ DeliveryInv /\ [Next]_vars => DeliveryInv'
  <2> SUFFICES ASSUME QueueInv, LoopInv, DeliveryInv, [Next]_vars, faults' = 0
               PROVE  (Placed /\ Ledger /\ LossBound)'
    BY DEF DeliveryInv
  <2>1. faults = 0
    BY NeitherIsFault
  <2>2. Placed /\ Ledger /\ LossBound /\ faults' = faults
    BY <2>1 DEF DeliveryInv
  <2>3. Placed' /\ (Wait \/ Begin \/ Leave \/ Perish)
    BY <2>2, StepEffect
  <2>4. Ledger' /\ LossBound'
    BY <2>2, <2>3, LedgerStep, LossStep DEF LoopInv
  <2> QED
    BY <2>3, <2>4
<1> QED
  BY <1>1, <1>2, Typing, PTL DEF Spec

(* With a working disk, what is still waiting, in memory or in the file,   *)
(* was never acknowledged, refused or evicted, for every queue size and    *)
(* every order of answers, deaths and restarts: a settled sample never     *)
(* comes back.                                                             *)
THEOREM SettledStaysSettled == Spec => []WaitingIsUnsettled
<1>1. LoopInv /\ DeliveryInv => WaitingIsUnsettled
  BY WaitingIs DEF DeliveryInv, Ledger, Unsettled, WaitingIsUnsettled
<1> QED
  BY <1>1, Delivering, PTL

(* With a working disk, the server stores a sample twice only when an      *)
(* answer to it was lost.                                                  *)
THEOREM NoOtherDuplicates == Spec => []DuplicateNeedsLostReply
<1>1. DeliveryInv => DuplicateNeedsLostReply
  BY DEF DeliveryInv, Ledger, DuplicateNeedsLostReply
<1> QED
  BY <1>1, Delivering, PTL

(* With a file and a working disk, each death of the process costs at most *)
(* two samples, whatever the size of the queue.                            *)
THEOREM DeathCostsTwo == Spec => []LossPerCrash
<1>1. DeliveryInv => LossPerCrash
  BY DEF DeliveryInv, LossBound, LossPerCrash
<1> QED
  BY <1>1, Delivering, PTL
-----------------------------------------------------------------------------
(* The refinement of SampleFate, step by step.                             *)

(* What the fate of a sample follows from.                                 *)
Outcome(p) ==
    IF stored[p] > 0 THEN "stored"
    ELSE IF p \in evicted \cup refused THEN "givenUp" ELSE "vanished"

LEMMA FateIs ==
    ASSUME NEW p \in Payload, LoopTypeOK
    PROVE  FateOf(p) = IF p >= next THEN "future"
                       ELSE IF p \in Waiting THEN "waiting" ELSE Outcome(p)
<1>1. Waiting = Held \cup OnDisk
  BY WaitingIs
<1>2. next \in Nat /\ p \in Nat \ {0}
  BY DeliveryAssumption DEF LoopTypeOK
<1>3. p < next <=> p \in Collected
  BY <1>2 DEF Collected
<1>4. p \in Settled <=> stored[p] > 0 \/ p \in evicted \/ p \in refused
  BY DEF Settled
<1>5. p \in Vanished <=> p < next /\ p \notin Waiting /\ p \notin Settled
  BY <1>1, <1>3 DEF Vanished
<1>6. p < next <=> ~(p >= next)
  BY <1>2
<1> QED
  BY <1>1, <1>4, <1>5, <1>6 DEF FateOf, Outcome

LEMMA FateIsNext ==
    ASSUME NEW p \in Payload, LoopTypeOK'
    PROVE  FateOf(p)' = IF p >= next' THEN "future"
                       ELSE IF p \in Waiting' THEN "waiting" ELSE Outcome(p)'
<1>1. Waiting' = Held' \cup OnDisk'
  BY WaitingIs
<1>2. next' \in Nat /\ p \in Nat \ {0}
  BY DeliveryAssumption DEF LoopTypeOK
<1>3. p < next' <=> p \in Collected'
  <2> DEFINE n == next'
  <2>1. Collected' = 1 .. n - 1
    BY DEF Collected
  <2>2. n \in Nat
    BY <1>2
  <2> HIDE DEF n
  <2>3. p < n <=> p \in 1 .. n - 1
    BY <1>2, <2>2
  <2> QED
    BY <2>1, <2>3 DEF n
<1>4. p \in Settled' <=> stored'[p] > 0 \/ p \in evicted' \/ p \in refused'
  BY DEF Settled
<1>5. p \in Vanished' <=> p < next' /\ p \notin Waiting' /\ p \notin Settled'
  BY <1>1, <1>3 DEF Vanished
<1>6. p < next' <=> ~(p >= next')
  BY <1>2
<1> QED
  BY <1>1, <1>4, <1>5, <1>6 DEF FateOf, Outcome

(* One step of the client is one step of SampleFate, or none.              *)
LEMMA StepFate ==
    ASSUME LoopInv, LoopInv', QueueInv, Placed, Placed', Ledger,
           Wait \/ Begin \/ Leave \/ Perish
    PROVE  [Promise!Next]_<<[p \in Payload |-> FateOf(p)], crashes>>
<1> USE DeliveryAssumption
<1> DEFINE F == [p \in Payload |-> FateOf(p)]
<1>0. /\ next \in Nat /\ next' \in Nat
      /\ \A p \in Payload : p \in Nat /\ stored[p] \in Nat
      /\ \A p \in Waiting : p \in Payload /\ p < next /\ ~(p >= next)
      /\ LoopTypeOK /\ LoopTypeOK'
  <2>1. LoopTypeOK /\ LoopTypeOK'
    BY DEF LoopInv
  <2>2. next \in Nat /\ next' \in Nat
    BY <2>1 DEF LoopTypeOK
  <2>3. \A p \in Payload : p \in Nat /\ stored[p] \in Nat
    BY <2>1 DEF LoopTypeOK
  <2>4. \A p \in Waiting : p \in Payload /\ p < next
    BY <2>1, WaitingArePayloads
  <2> QED
    BY <2>1, <2>2, <2>3, <2>4
<1>1. \A p \in Payload :
         F[p] = IF p >= next THEN "future"
                ELSE IF p \in Waiting THEN "waiting" ELSE Outcome(p)
  BY <1>0, FateIs
<1>2. \A p \in Payload :
         F'[p] = IF p >= next' THEN "future"
                 ELSE IF p \in Waiting' THEN "waiting" ELSE Outcome(p)'
  BY <1>0, FateIsNext
<1>3. /\ F = [p \in Payload |-> F[p]] /\ F' = [p \in Payload |-> F'[p]]
  OBVIOUS
<1> HIDE DEF F
<1>4. UNCHANGED serverVars /\ evicted' = evicted
        => \A p \in Payload : Outcome(p)' = Outcome(p)
  BY DEF serverVars, Outcome
<1>5. CASE Wait
  <2>1. \A p \in Payload : p \notin Waiting => Outcome(p)' = Outcome(p)
    <3>1. CASE UNCHANGED serverVars
      BY <1>4, <1>5, <3>1 DEF Wait
    <3>2. ASSUME NEW q \in Waiting, ReplyLost(q)
          PROVE  \A p \in Payload : p \notin Waiting => Outcome(p)' = Outcome(p)
      <4>1. \A p \in Payload \ {q} : stored'[p] = stored[p] /\ (p \in refused' <=> p \in refused)
        BY <1>0, <3>2, AnswerIsLocal
      <4> QED
        BY <1>5, <4>1 DEF Wait, Outcome
    <3> QED
      BY <1>5, <3>1, <3>2 DEF Wait
  <2>2. \A p \in Payload : F'[p] = F[p]
    BY <1>1, <1>2, <1>5, <2>1 DEF Wait
  <2>3. F' = F /\ crashes' = crashes
    BY <1>3, <1>5, <2>2 DEF Wait
  <2> QED
    BY <2>3 DEF F
<1>6. CASE Begin
  <2>1. F[next] = "future" /\ F'[next] = "waiting" /\ next \in Payload
    BY <1>0, <1>1, <1>2, <1>6 DEF Begin
  <2>2. \A p \in Payload \ {next} : F'[p] = F[p]
    <3> SUFFICES ASSUME NEW p \in Payload \ {next} PROVE F'[p] = F[p]
      OBVIOUS
    <3>1. p >= next' <=> p >= next
      BY <1>0, <1>6 DEF Begin
    <3>2. Outcome(p)' = Outcome(p)
      BY <1>4, <1>6 DEF Begin
    <3>3. p \in Waiting' <=> p \in Waiting
      BY <1>6 DEF Begin
    <3> QED
      BY <1>1, <1>2, <3>1, <3>2, <3>3
  <2>3. F' = [F EXCEPT ![next] = "waiting"]
    BY <1>3, <2>1, <2>2
  <2>4. Promise!Produce(next)
    BY <1>6, <2>1, <2>3 DEF Promise!Produce, Begin, F
  <2> QED
    BY <2>1, <2>4 DEF Promise!Next
<1>7. CASE Leave
  <2>1. PICK q \in Waiting :
             /\ Waiting' = Waiting \ {q}
             /\ \/ evicted' = evicted \cup {q} /\ UNCHANGED serverVars
                \/ evicted' = evicted /\ (Accepted(q) \/ NonRetryable(q))
    BY <1>7 DEF Leave
  <2>2. q \in Payload /\ ~(q >= next) /\ next' = next /\ crashes' = crashes
    BY <1>0, <1>7 DEF Leave
  <2>3. Outcome(q)' \in {"stored", "givenUp"}
    <3>1. CASE evicted' = evicted \cup {q} /\ UNCHANGED serverVars
      BY <3>1 DEF Outcome
    <3>2. CASE Accepted(q)
      <4>1. stored'[q] = stored[q] + 1
        BY <1>0, <2>2, <3>2, AnswerIsLocal
      <4>2. stored'[q] > 0
        BY <1>0, <2>2, <4>1
      <4> QED
        BY <4>2 DEF Outcome
    <3>3. CASE NonRetryable(q)
      BY <3>3 DEF NonRetryable, Outcome
    <3> QED
      BY <2>1, <3>1, <3>2, <3>3
  <2>4. \A p \in Payload \ {q} : Outcome(p)' = Outcome(p)
    <3>1. CASE evicted' = evicted \cup {q} /\ UNCHANGED serverVars
      BY <3>1 DEF serverVars, Outcome
    <3>2. CASE evicted' = evicted /\ (Accepted(q) \/ NonRetryable(q))
      <4>1. \A p \in Payload \ {q} : stored'[p] = stored[p] /\ (p \in refused' <=> p \in refused)
        BY <1>0, <2>2, <3>2, AnswerIsLocal
      <4> QED
        BY <3>2, <4>1 DEF Outcome
    <3> QED
      BY <2>1, <3>1, <3>2
  <2>5. F[q] = "waiting" /\ F'[q] \in {"stored", "givenUp"}
    BY <1>1, <1>2, <2>1, <2>2, <2>3
  <2>6. \A p \in Payload \ {q} : F'[p] = F[p]
    BY <1>1, <1>2, <2>1, <2>2, <2>4
  <2>7. F' = [F EXCEPT ![q] = F'[q]]
    BY <1>3, <2>2, <2>6
  <2>8. Promise!Settle(q)
    BY <2>2, <2>5, <2>7 DEF Promise!Settle, F
  <2> QED
    BY <2>2, <2>8 DEF Promise!Next
<1>8. CASE Perish
  <2> DEFINE S == Waiting \ Waiting'
             f == [s \in S |-> IF stored[s] > 0 THEN "stored" ELSE "vanished"]
  <2>1. S \in SUBSET Payload /\ Waiting' \subseteq Waiting
    BY <1>0, <1>8 DEF Perish, Waiting
  <2>2. Cardinality(S) <= IF Persistent THEN 2 ELSE MaxSize + 2
    BY <1>8, DeathCost
  <2>3. \A s \in S : F[s] = "waiting"
    BY <1>0, <1>1
  <2>4. f \in [S -> {"stored", "vanished"}]
    OBVIOUS
  <2>5. \A s \in S : F'[s] = f[s]
    <3> SUFFICES ASSUME NEW s \in S PROVE F'[s] = f[s]
      OBVIOUS
    <3>1. s \in Payload /\ s \notin evicted \cup refused /\ ~(s >= next') /\ s \notin Waiting'
      BY <1>0, <1>8 DEF Ledger, Unsettled, Perish
    <3>2. F'[s] = Outcome(s)
      BY <1>2, <1>4, <1>8, <3>1 DEF Perish
    <3> QED
      BY <3>1, <3>2 DEF Outcome
  <2>6. \A p \in Payload \ S : F'[p] = F[p]
    BY <1>1, <1>2, <1>4, <1>8, <2>1 DEF Perish
  <2> HIDE DEF S, f
  <2>7. F' = [s \in Payload |-> IF s \in S THEN f[s] ELSE F[s]]
    BY <1>3, <2>1, <2>5, <2>6
  <2>8. crashes' = crashes + 1
    BY <1>8 DEF Perish
  <2>9. Promise!Die
    <3>1. Promise!Cardinality(S) = Cardinality(S)
      BY DEF Promise!Cardinality, Cardinality
    <3> QED
      BY <2>1, <2>2, <2>3, <2>4, <2>7, <2>8, <3>1 DEF Promise!Die, F
  <2> QED
    BY <2>9 DEF Promise!Next
<1> QED
  BY <1>5, <1>6, <1>7, <1>8

(* With a working disk the client implements SampleFate: samples leave the *)
(* waiting state one at a time and for good, and a death costs at most two *)
(* of them when there is a file, and the queue too when there is none.     *)
(* Its queue implements DurableQueue, whatever the loop does with it.      *)
THEOREM ClientKeepsPromise ==
    ASSUME MaxFaults = 0
    PROVE  Spec => KeepsPromise
<1>1. Init => Promise!Init
  <2> SUFFICES ASSUME Init PROVE Promise!Init
    OBVIOUS
  <2>1. next = 1 /\ crashes = 0
    BY DEF Init
  <2>2. \A p \in Payload : p >= next /\ FateOf(p) = "future"
    BY <2>1, DeliveryAssumption, LoopInitInv, FateIs DEF LoopInv
  <2> QED
    BY <2>1, <2>2 DEF Promise!Init
<1>2. QueueInv => faults = 0
  BY DEF QueueInv, QueueTypeOK
<1>3. /\ QueueInv /\ LoopInv /\ DeliveryInv
      /\ (QueueInv /\ LoopInv /\ DeliveryInv)'
      /\ [Next]_vars
      => [Promise!Next]_<<[p \in Payload |-> FateOf(p)], crashes>>
  <2> SUFFICES ASSUME QueueInv, LoopInv, DeliveryInv,
                      QueueInv', LoopInv', DeliveryInv', [Next]_vars
               PROVE  [Promise!Next]_<<[p \in Payload |-> FateOf(p)], crashes>>
    OBVIOUS
  <2>1. faults = 0 /\ faults' = 0
    BY <1>2, DeliveryAssumption, QueueAssumption DEF QueueInv, QueueTypeOK
  <2>2. Placed /\ Ledger
    BY <2>1 DEF DeliveryInv
  <2>3. Placed' /\ (Wait \/ Begin \/ Leave \/ Perish)
    BY <2>1, <2>2, StepEffect
  <2> QED
    BY <2>2, <2>3, StepFate
<1>4. Spec => Promise!Spec
  BY <1>1, <1>3, Delivering, PTL DEF Spec, Promise!Spec
<1>5. Spec => KeepsQueue
  BY ClientImplementsQueue, QueueIsDurable
<1> QED
  BY <1>4, <1>5 DEF KeepsPromise
=============================================================================
