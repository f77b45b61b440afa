-------------------------- MODULE LocalQueue_proofs --------------------------
(* Theorems about LocalQueue, for every size of the queue and of the file. *)
EXTENDS LocalQueue, SequenceTheorems, WellFoundedInduction, TLAPS

(* The lines read count only while loading; the byte loop only runs in a   *)
(* live process with a file.                                               *)
Phases ==
    /\ proc # "loading" => pos = 0
    /\ enforcing => proc = "up" /\ Persistent

QueueInv == QueueTypeOK /\ Phases /\ DiskMirrorsBuffer

-----------------------------------------------------------------------------
(* Pushing keeps a sequence of payloads and only ever gives up payloads.   *)
LEMMA PushType ==
    ASSUME QueueTypeOK, NEW p \in Payload, Push(p)
    PROVE  /\ buf' \in Seq(Payload)
           /\ dropped' \in Nat
           /\ evicted' \subseteq Payload
<1>1. CASE Len(buf) >= MaxSize
  <2>1. buf # <<>>
    BY <1>1, QueueAssumption DEF QueueTypeOK
  <2>2. Tail(buf) \in Seq(Payload) /\ Head(buf) \in Payload
    BY <2>1 DEF QueueTypeOK
  <2> QED
    BY <1>1, <2>2 DEF Push, QueueTypeOK
<1>2. CASE ~(Len(buf) >= MaxSize)
  BY <1>2 DEF Push, QueueTypeOK
<1> QED
  BY <1>1, <1>2

(* The file stays a file whatever happens to a write.                      *)
LEMMA WriteType ==
    ASSUME QueueTypeOK, NEW b \in Seq(Payload), NEW p \in Payload
    PROVE  /\ CompactDisk(b) \/ AppendLine(p)
                => /\ disk' \in File
                   /\ writeFailed' \in Nat
                   /\ faults' \in 0 .. MaxFaults
           /\ disk' \in Torn(disk) => disk' \in File
           /\ NoFault => writeFailed' \in Nat /\ faults' \in 0 .. MaxFaults
<1>1. Image(b) \in File
  <2>1. b \in Seq(Line)
    BY DEF Line
  <2> QED
    BY <2>1 DEF Image, File, Tails
<1>2. Joined(disk, p) \in File
  <2>1. Append(disk.lines, p) \in Seq(Line)
    BY DEF QueueTypeOK, File, Line
  <2>2. Append(disk.lines, BadText) \in Seq(Line)
    BY DEF QueueTypeOK, File, Line
  <2>3. Append(disk.lines, BadChar) \in Seq(Line)
    BY DEF QueueTypeOK, File, Line
  <2>4. disk.tail \in Tails
    BY DEF QueueTypeOK, File
  <2> QED
    BY <2>1, <2>2, <2>3, <2>4 DEF Joined, Image, File, Tails
<1>3. disk' \in Torn(disk) => disk' \in File
  BY DEF Torn, QueueTypeOK, File, Tails
<1>4. Fault \/ NoFault => writeFailed' \in Nat /\ faults' \in 0 .. MaxFaults
  BY QueueAssumption DEF Fault, NoFault, QueueTypeOK
<1> QED
  BY <1>1, <1>2, <1>3, <1>4 DEF CompactDisk, AppendLine, QueueTypeOK

(* Rewriting the file, or not having a file, keeps the types.              *)
LEMMA CompactType ==
    ASSUME QueueTypeOK, NEW b \in Seq(Payload),
           CompactDisk(b) \/ (UNCHANGED disk /\ NoFault)
    PROVE  /\ disk' \in File
           /\ writeFailed' \in Nat
           /\ faults' \in 0 .. MaxFaults
<1>1. Image(b) \in File
  <2>1. b \in Seq(Line)
    BY DEF Line
  <2> QED
    BY <2>1 DEF Image, File, Tails
<1>2. Fault \/ NoFault => writeFailed' \in Nat /\ faults' \in 0 .. MaxFaults
  BY QueueAssumption DEF Fault, NoFault, QueueTypeOK
<1> QED
  BY <1>1, <1>2 DEF CompactDisk, QueueTypeOK

LEMMA FileStart == ASSUME NEW f \in File PROVE 0 \in 0 .. Len(f.lines)
BY DEF File

(* Initially the queue and its file are empty.                             *)
LEMMA QueueInitInv == QueueInit => QueueInv
<1> SUFFICES ASSUME QueueInit PROVE QueueInv
  OBVIOUS
<1>1. <<>> \in Seq(Payload) /\ <<>> \in Seq(Line)
  OBVIOUS
<1>2. disk \in File /\ Len(disk.lines) = 0
  BY <1>1 DEF QueueInit, Image, File, Tails
<1>3. faults \in 0 .. MaxFaults /\ pos \in 0 .. Len(disk.lines)
  BY <1>2, QueueAssumption DEF QueueInit
<1>4. enforcing \in BOOLEAN /\ readFailed \in BOOLEAN /\ evicted \subseteq Payload
  BY DEF QueueInit
<1>5. QueueTypeOK
  BY <1>1, <1>2, <1>3, <1>4 DEF QueueInit, QueueTypeOK
<1> QED
  BY <1>5 DEF QueueInit, QueueInv, Phases, DiskMirrorsBuffer

(* A Put appends the same payload to the buffer and to the file.           *)
LEMMA PutInv ==
    ASSUME QueueInv, NEW p \in Payload, Put(p)
    PROVE  QueueInv'
<1> USE DEF QueueInv
<1>1. /\ buf' \in Seq(Payload)
      /\ dropped' \in Nat
      /\ evicted' \subseteq Payload
  BY PushType DEF Put
<1>2. proc = "up" /\ ~enforcing /\ proc' = "up" /\ pos = 0 /\ pos' = 0
  BY DEF Put, Ready, Phases
<1>3. /\ disk' \in File
      /\ writeFailed' \in Nat
      /\ faults' \in 0 .. MaxFaults
  <2>1. CASE Persistent /\ Len(buf) < MaxSize
    BY <2>1, WriteType, QueueAssumption DEF Put, QueueTypeOK
  <2>2. CASE ~Persistent \/ ~(Len(buf) < MaxSize)
    BY <2>2, <1>1, CompactType, QueueAssumption DEF Put, QueueTypeOK
  <2> QED
    BY <2>1, <2>2
<1>4. QueueTypeOK'
  <2>1. pos' \in 0 .. Len(disk.lines)'
    BY <1>2, <1>3, FileStart
  <2>2. enforcing' \in BOOLEAN /\ skipped' \in Nat /\ readFailed' \in BOOLEAN
    BY QueueAssumption DEF Put, QueueTypeOK
  <2> QED
    BY <1>1, <1>2, <1>3, <2>1, <2>2 DEF QueueTypeOK
<1>5. Phases'
  BY <1>2 DEF Phases, Put
<1>6. DiskMirrorsBuffer'
  <2> SUFFICES ASSUME Persistent, writeFailed' = 0, ~readFailed'
               PROVE  disk' = Image(buf')
    BY DEF DiskMirrorsBuffer
  <2>1. ~Fault
    BY DEF Fault, QueueTypeOK
  <2>2. CASE Len(buf) >= MaxSize
    BY <2>1, <2>2, QueueAssumption DEF Put, CompactDisk, QueueTypeOK
  <2>3. CASE Len(buf) < MaxSize
    <3>1. AppendLine(p) /\ buf' = Append(buf, p)
      BY <2>3, QueueAssumption DEF Put, Push, QueueTypeOK
    <3>2. disk' = Joined(disk, p) /\ writeFailed = 0
      BY <2>1, <3>1 DEF AppendLine, NoFault
    <3>3. disk = Image(buf)
      BY <1>2, <3>2 DEF DiskMirrorsBuffer, Put
    <3> QED
      BY <3>1, <3>2, <3>3 DEF Joined, Image
  <2> QED
    BY <2>2, <2>3, QueueAssumption DEF QueueTypeOK
<1> QED
  BY <1>4, <1>5, <1>6

(* Pop and drain rewrite the file from what is left in memory.             *)
LEMMA TakeInv ==
    ASSUME QueueInv, Pop \/ Drain
    PROVE  QueueInv'
<1> USE DEF QueueInv
<1>1. buf' \in Seq(Payload)
  <2>1. CASE Pop
    BY <2>1 DEF Pop, QueueTypeOK
  <2>2. CASE Drain
    BY <2>2 DEF Drain
  <2> QED
    BY <2>1, <2>2
<1>2. proc = "up" /\ proc' = "up" /\ pos = 0 /\ pos' = 0
  BY DEF Pop, Drain, Ready, Phases
<1>3. IF Persistent THEN CompactDisk(buf') ELSE UNCHANGED disk /\ NoFault
  BY DEF Pop, Drain
<1>4. /\ disk' \in File
      /\ writeFailed' \in Nat
      /\ faults' \in 0 .. MaxFaults
  BY <1>1, <1>3, CompactType
<1>5. UNCHANGED <<enforcing, dropped, skipped, readFailed, evicted>>
  BY DEF Pop, Drain
<1>6. QueueTypeOK'
  BY <1>1, <1>2, <1>4, <1>5, FileStart DEF QueueTypeOK
<1>7. Phases' /\ DiskMirrorsBuffer'
  BY <1>2, <1>3, <1>5 DEF Phases, DiskMirrorsBuffer, CompactDisk, Fault, QueueTypeOK
<1> QED
  BY <1>6, <1>7

(* The byte loop keeps file and buffer in step, or counts the error.       *)
LEMMA EnforceInv ==
    ASSUME QueueInv, EnforceMaxBytes
    PROVE  QueueInv'
<1> USE DEF QueueInv
<1>1. CASE EnforceDone
  BY <1>1 DEF EnforceDone, QueueTypeOK, Phases, DiskMirrorsBuffer
<1>2. CASE EnforceDrop
  <2>1. /\ buf' \in Seq(Payload)
        /\ dropped' \in Nat
        /\ evicted' \subseteq Payload
    BY <1>2 DEF EnforceDrop, QueueTypeOK
  <2>2. /\ disk' \in File
        /\ writeFailed' \in Nat
        /\ faults' \in 0 .. MaxFaults
    BY <1>2, <2>1, CompactType DEF EnforceDrop
  <2>3. proc = "up" /\ pos = 0 /\ UNCHANGED <<proc, pos, enforcing, skipped, readFailed>>
    BY <1>2 DEF EnforceDrop, Phases
  <2>4. QueueTypeOK'
    BY <2>1, <2>2, <2>3, FileStart DEF QueueTypeOK
  <2>5. Phases' /\ DiskMirrorsBuffer'
    BY <1>2, <2>3
       DEF Phases, DiskMirrorsBuffer, EnforceDrop, CompactDisk, Fault, QueueTypeOK
  <2> QED
    BY <2>4, <2>5
<1> QED
  BY <1>1, <1>2 DEF EnforceMaxBytes

(* A dead process remembers nothing; its file stays.                       *)
LEMMA DeathInv ==
    ASSUME QueueInv, Crash \/ CrashInAppend \/ LoadRaises \/ Boot
    PROVE  QueueInv'
<1> USE DEF QueueInv
<1>1. CASE Boot
  BY <1>1 DEF Boot, QueueTypeOK, Phases, DiskMirrorsBuffer
<1>2. CASE Crash \/ CrashInAppend \/ LoadRaises
  <2>1. Forget /\ proc' \in {"down", "bootFailed"} /\ UNCHANGED <<evicted, faults>>
    BY <1>2 DEF Crash, CrashInAppend, LoadRaises
  <2>2. disk' \in File
    BY <1>2, WriteType DEF Crash, CrashInAppend, LoadRaises, Torn, QueueTypeOK, File, Tails
  <2>3. QueueTypeOK'
    <3>1. enforcing' \in BOOLEAN /\ readFailed' \in BOOLEAN
      BY <2>1 DEF Forget
    <3>2. buf' \in Seq(Payload) /\ pos' \in 0 .. Len(disk.lines)'
      BY <2>1, <2>2, FileStart DEF Forget
    <3> QED
      BY <2>1, <2>2, <3>1, <3>2 DEF Forget, QueueTypeOK
  <2>4. Phases' /\ DiskMirrorsBuffer'
    BY <2>1 DEF Forget, Phases, DiskMirrorsBuffer
  <2> QED
    BY <2>3, <2>4
<1> QED
  BY <1>1, <1>2

(* Loading ends with the file rewritten from memory, or says it did not.   *)
LEMMA LoadInv ==
    ASSUME QueueInv, LoadLine \/ LoadEnd \/ LoadInterrupted
    PROVE  QueueInv'
<1> USE DEF QueueInv
<1>1. CASE LoadLine
  <2> DEFINE line == disk.lines[pos + 1]
  <2>1. /\ buf' \in Seq(Payload)
        /\ dropped' \in Nat
        /\ evicted' \subseteq Payload
    <3>1. CASE line \in Payload /\ Push(line)
      BY <3>1, PushType
    <3>2. CASE UNCHANGED <<buf, dropped, evicted>>
      BY <3>2 DEF QueueTypeOK
    <3> QED
      BY <1>1, <3>1, <3>2 DEF LoadLine
  <2>2. pos' \in 0 .. Len(disk.lines) /\ skipped' \in Nat
    BY <1>1 DEF LoadLine, QueueTypeOK, File
  <2>3. QueueTypeOK'
    BY <1>1, <2>1, <2>2 DEF LoadLine, QueueTypeOK
  <2> QED
    BY <1>1, <2>3 DEF LoadLine, Phases, DiskMirrorsBuffer
<1>2. CASE LoadEnd
  <2>1. /\ disk' \in File
        /\ writeFailed' \in Nat
        /\ faults' \in 0 .. MaxFaults
    BY <1>2, CompactType DEF LoadEnd, QueueTypeOK
  <2>2. skipped' \in Nat
    BY <1>2 DEF LoadEnd, QueueTypeOK
  <2>3. QueueTypeOK'
    BY <1>2, <2>1, <2>2, FileStart DEF LoadEnd, QueueTypeOK
  <2> QED
    BY <1>2, <2>3
       DEF LoadEnd, Phases, DiskMirrorsBuffer, CompactDisk, Fault, QueueTypeOK
<1>3. CASE LoadInterrupted
  <2>1. faults' \in 0 .. MaxFaults
    BY <1>3, QueueAssumption DEF LoadInterrupted, QueueTypeOK
  <2>2. QueueTypeOK'
    BY <1>3, <2>1, FileStart DEF LoadInterrupted, QueueTypeOK
  <2> QED
    BY <1>3, <2>2 DEF LoadInterrupted, Phases, DiskMirrorsBuffer
<1> QED
  BY <1>1, <1>2, <1>3

(* Every operation of the queue keeps its invariant.                       *)
LEMMA QueueStepInv == QueueInv /\ [QueueNext]_queueVars => QueueInv'
<1> SUFFICES ASSUME QueueInv, [QueueNext]_queueVars PROVE QueueInv'
  OBVIOUS
<1>1. CASE UNCHANGED queueVars
  BY <1>1 DEF queueVars, QueueInv, QueueTypeOK, Phases, DiskMirrorsBuffer
<1>2. CASE QueueNext
  BY <1>2, PutInv, TakeInv, EnforceInv, DeathInv, LoadInv DEF QueueNext, Load
<1> QED
  BY <1>1, <1>2

(* Whatever its user does, for every size, the queue's file is exactly its *)
(* buffer unless a disk error was counted or the file was read in part:    *)
(* the promise of local_queue.py that an unsent payload survives in the    *)
(* file, and in order.                                                     *)
THEOREM QueueMirrored == QueueSpec => [](QueueTypeOK /\ DiskMirrorsBuffer)
<1>1. QueueInv => QueueTypeOK /\ DiskMirrorsBuffer
  BY DEF QueueInv
<1> QED
  BY <1>1, QueueInitInv, QueueStepInv, PTL DEF QueueSpec
-----------------------------------------------------------------------------
(* Every nonempty set of natural numbers has a smallest one.               *)
LEMMA LeastNatural ==
    ASSUME NEW Q \in SUBSET Nat, Q # {}
    PROVE  \E m \in Q : \A k \in Q : m <= k
<1>1. PICK m \in Q : \A k \in Q : ~ (<<k, m>> \in OpToRel(<, Nat))
  BY NatLessThanWellFounded, WFMin, Zenon
<1>2. ASSUME NEW k \in Q PROVE m <= k
  <2>1. ~ (k < m)
    <3>1. k \in Nat /\ m \in Nat
      OBVIOUS
    <3> QED BY <1>1, <3>1, Zenon DEF OpToRel
  <2> QED BY <2>1
<1> QED BY <1>2

(* The rounds of the loop: none keeps nothing, and each adds its element   *)
(* or leaves it out.                                                       *)
Rounds(seq, S, n, g) ==
    g = [k \in 0 .. n |->
            IF k = 0 THEN <<>>
            ELSE IF seq[k] \in S THEN Append(g[k - 1], seq[k]) ELSE g[k - 1]]

LEMMA RoundsExist ==
    ASSUME NEW seq, NEW S, NEW n \in Nat
    PROVE  \E g : Rounds(seq, S, n, g)
<1> DEFINE Q == {i \in Nat : ~ \E g : Rounds(seq, S, i, g)}
<1>1. SUFFICES ASSUME Q # {} PROVE FALSE
  OBVIOUS
<1>2. Q \in SUBSET Nat
  OBVIOUS
<1>3. PICK m \in Q : \A k \in Q : m <= k
  <2> HIDE DEF Q
  <2> QED BY <1>1, <1>2, LeastNatural
<1>4. m \in Nat /\ ~ \E g : Rounds(seq, S, m, g)
  OBVIOUS
<1>5. CASE m = 0
  <2> DEFINE g == [k \in 0 .. 0 |-> <<>>]
  <2>1. Rounds(seq, S, 0, g)
    BY DEF Rounds
  <2> QED BY <1>4, <1>5, <2>1
<1>6. CASE m # 0
  <2>1. m - 1 \in Nat /\ ~(m <= m - 1)
    BY <1>4, <1>6
  <2>2. m - 1 \notin Q
    BY <1>3, <2>1
  <2>3. PICK g : Rounds(seq, S, m - 1, g)
    BY <2>1, <2>2
  <2> DEFINE last == IF seq[m] \in S THEN Append(g[m - 1], seq[m]) ELSE g[m - 1]
             h == [k \in 0 .. m |-> IF k = m THEN last ELSE g[k]]
             step(k) == IF k = 0 THEN <<>>
                        ELSE IF seq[k] \in S THEN Append(h[k - 1], seq[k]) ELSE h[k - 1]
  <2>4. ASSUME NEW k \in 0 .. m PROVE h[k] = step(k)
    <3>1. CASE k = m
      <4>1. h[m] = last /\ h[m - 1] = g[m - 1]
        BY <1>4, <1>6
      <4> HIDE DEF h
      <4> QED BY <1>6, <3>1, <4>1
    <3>2. CASE k # m
      <4>1. k \in 0 .. m - 1 /\ h[k] = g[k] /\ (k # 0 => h[k - 1] = g[k - 1])
        BY <1>4, <3>2
      <4>2. g[k] = IF k = 0 THEN <<>>
                   ELSE IF seq[k] \in S THEN Append(g[k - 1], seq[k]) ELSE g[k - 1]
        BY <2>3, <4>1 DEF Rounds
      <4> HIDE DEF h
      <4> QED BY <4>1, <4>2
    <3> QED BY <3>1, <3>2
  <2>5. h = [k \in 0 .. m |-> step(k)]
    <3>1. h = [k \in 0 .. m |-> h[k]]
      OBVIOUS
    <3> HIDE DEF h, step
    <3> QED BY <2>4, <3>1
  <2>6. Rounds(seq, S, m, h)
    <3> HIDE DEF h
    <3> QED BY <2>5 DEF Rounds
  <2> QED BY <1>4, <2>6
<1> QED BY <1>5, <1>6

LEMMA KeptSteps ==
    ASSUME NEW seq, NEW S, Len(seq) \in Nat
    PROVE  /\ KeptUpTo(seq, S)[0] = <<>>
           /\ \A k \in 1 .. Len(seq) :
                 KeptUpTo(seq, S)[k] = IF seq[k] \in S
                                       THEN Append(KeptUpTo(seq, S)[k - 1], seq[k])
                                       ELSE KeptUpTo(seq, S)[k - 1]
<1> DEFINE f == KeptUpTo(seq, S)
<1>1. f = CHOOSE g : Rounds(seq, S, Len(seq), g)
  BY DEF KeptUpTo, Rounds
<1>2. Rounds(seq, S, Len(seq), f)
  BY <1>1, RoundsExist
<1> HIDE DEF f
<1>3. f[0] = <<>>
  BY <1>2 DEF Rounds
<1>4. ASSUME NEW k \in 1 .. Len(seq)
      PROVE  f[k] = IF seq[k] \in S THEN Append(f[k - 1], seq[k]) ELSE f[k - 1]
  <2> DEFINE n == Len(seq)
  <2>1. n \in Nat /\ k \in 0 .. n /\ k # 0
    BY <1>4
  <2> HIDE DEF n
  <2>2. f = [j \in 0 .. n |->
              IF j = 0 THEN <<>>
              ELSE IF seq[j] \in S THEN Append(f[j - 1], seq[j]) ELSE f[j - 1]]
    BY <1>2 DEF Rounds, n
  <2> QED BY <2>1, <2>2, Zenon
<1> QED BY <1>3, <1>4 DEF f

(* What is kept is a sequence of elements of both.                         *)
LEMMA KeptTyped ==
    ASSUME NEW T, NEW seq \in Seq(T), NEW S
    PROVE  \A k \in 0 .. Len(seq) : KeptUpTo(seq, S)[k] \in Seq(T \cap S)
<1> DEFINE f == KeptUpTo(seq, S)
           n == Len(seq)
           Q == {i \in 0 .. n : f[i] \notin Seq(T \cap S)}
<1>1. /\ n \in Nat /\ f[0] = <<>>
      /\ \A k \in 1 .. n : f[k] = IF seq[k] \in S THEN Append(f[k - 1], seq[k]) ELSE f[k - 1]
      /\ \A k \in 1 .. n : seq[k] \in T
  BY KeptSteps
<1> HIDE DEF f, n
<1>2. SUFFICES ASSUME Q # {} PROVE FALSE
  BY DEF f, n
<1>3. Q \in SUBSET Nat
  BY <1>1
<1>4. PICK m \in Q : \A k \in Q : m <= k
  <2> HIDE DEF Q
  <2> QED BY <1>2, <1>3, LeastNatural
<1>5. m \in 0 .. n /\ f[m] \notin Seq(T \cap S)
  OBVIOUS
<1>6. m # 0
  <2>1. <<>> \in Seq(T \cap S)
    OBVIOUS
  <2> QED BY <1>1, <1>5, <2>1
<1>7. m - 1 \in 0 .. n /\ m \in 1 .. n /\ ~(m <= m - 1)
  BY <1>1, <1>5, <1>6
<1>8. f[m - 1] \in Seq(T \cap S)
  BY <1>4, <1>7
<1>9. f[m] = IF seq[m] \in S THEN Append(f[m - 1], seq[m]) ELSE f[m - 1]
  BY <1>1, <1>7
<1>10. seq[m] \in T
  BY <1>1, <1>7
<1> QED BY <1>5, <1>8, <1>9, <1>10
-----------------------------------------------------------------------------
(***************************************************************************)
(* A start keeps the newest payloads: after each line of the file, the     *)
(* buffer holds the newest of those that were read.                        *)
(***************************************************************************)

(* The deque keeps the newest max_size of what was ever pushed to it.      *)
LEMMA PushNewest ==
    ASSUME NEW good \in Seq(Payload), buf = NewestOf(good), NEW p \in Payload, Push(p)
    PROVE  buf' = NewestOf(Append(good, p))
<1> DEFINE n == Len(good)
           M == MaxSize
           more == Append(good, p)
<1>1. n \in Nat /\ M \in Nat \ {0}
  BY QueueAssumption
<1>2. more \in Seq(Payload) /\ Len(more) = n + 1 /\ more[n + 1] = p
      /\ \A k \in 1 .. n : more[k] = good[k]
  OBVIOUS
<1>3. CASE n < M
  <2>1. buf = good
    BY <1>1, <1>3 DEF NewestOf
  <2>2. buf' = more
    BY <1>1, <1>3, <2>1 DEF Push
  <2>3. n + 1 <= M
    BY <1>1, <1>3
  <2> HIDE DEF more, M
  <2> QED BY <1>2, <2>2, <2>3 DEF NewestOf, M
<1>4. CASE ~(n < M)
  <2> DEFINE last == SubSeq(good, n - M + 1, n)
             later == SubSeq(more, n - M + 2, n + 1)
  <2>1. buf = last
    <3>1. CASE n = M
      <4>1. n - M + 1 = 1
        BY <1>1, <3>1
      <4>2. SubSeq(good, 1, n) = good
        OBVIOUS
      <4>3. NewestOf(good) = good
        BY <1>1, <3>1 DEF NewestOf
      <4> QED BY <4>1, <4>2, <4>3
    <3>2. CASE n # M
      BY <1>1, <1>4, <3>2 DEF NewestOf
    <3> QED BY <3>1, <3>2
  <2>2. NewestOf(more) = later
    <3>1. ~(n + 1 <= M) /\ n + 1 - M + 1 = n - M + 2
      BY <1>1, <1>4
    <3> HIDE DEF more, n
    <3> DEFINE l == Len(more)
    <3>2. l = n + 1
      BY <1>2
    <3>3. ~(l <= MaxSize)
      BY <3>1, <3>2
    <3>4. NewestOf(more) = SubSeq(more, l - MaxSize + 1, l)
      BY <3>3, Zenon DEF NewestOf
    <3> HIDE DEF l
    <3>5. l - MaxSize + 1 = n - M + 2
      BY <1>1, <3>1, <3>2
    <3> QED BY <3>2, <3>4, <3>5
  <2>3. /\ last \in Seq(Payload) /\ Len(last) = M
        /\ \A k \in 1 .. M : last[k] = good[n - M + k]
    <3>1. \A k \in n - M + 1 .. n : k \in 1 .. n
      BY <1>1, <1>4
    <3>2. \A k \in 1 .. n : good[k] \in Payload
      OBVIOUS
    <3> QED BY <1>1, <1>4, <3>1, <3>2
  <2>4. /\ later \in Seq(Payload) /\ Len(later) = M
        /\ \A k \in 1 .. M : later[k] = more[n - M + k + 1]
    <3>1. \A k \in n - M + 2 .. n + 1 : k \in 1 .. n + 1
      BY <1>1, <1>4
    <3> HIDE DEF more
    <3>2. \A k \in 1 .. n + 1 : more[k] \in Payload
      BY <1>2
    <3> QED BY <1>1, <1>2, <1>4, <3>1, <3>2
  <2> HIDE DEF last, later, more
  <2>5. last # <<>>
    BY <1>1, <2>3
  <2>6. buf' = Append(Tail(last), p)
    BY <2>1, <2>3 DEF Push
  <2>7. /\ Tail(last) \in Seq(Payload) /\ Len(Tail(last)) = M - 1
        /\ \A k \in 1 .. M - 1 : Tail(last)[k] = last[k + 1]
    BY <1>1, <2>3, <2>5, HeadTailProperties
  <2> DEFINE rest == Tail(last)
             new == Append(rest, p)
  <2>8. /\ new \in Seq(Payload) /\ Len(new) = M /\ new[M] = p
        /\ \A k \in 1 .. M - 1 : new[k] = last[k + 1]
    <3> HIDE DEF rest
    <3> QED BY <1>1, <2>7 DEF rest
  <2>9. ASSUME NEW k \in 1 .. M PROVE new[k] = later[k]
    <3>1. later[k] = more[n - M + k + 1]
      BY <2>4
    <3>2. CASE k = M
      <4>1. n - M + k + 1 = n + 1
        BY <1>1, <3>2
      <4> QED BY <1>2, <2>8, <3>1, <3>2, <4>1
    <3>3. CASE k # M
      <4>1. k \in 1 .. M - 1 /\ k + 1 \in 1 .. M /\ n - M + k + 1 = n - M + (k + 1)
            /\ n - M + k + 1 \in 1 .. n
        BY <1>1, <1>4, <3>3
      <4>2. new[k] = good[n - M + (k + 1)]
        BY <2>3, <2>8, <4>1
      <4> QED BY <1>2, <3>1, <4>1, <4>2
    <3> QED BY <3>2, <3>3
  <2> HIDE DEF rest, new
  <2>10. new = later
    BY <1>1, <2>4, <2>8, <2>9, SeqEqual
  <2> QED BY <2>2, <2>6, <2>10 DEF new, rest, more
<1> QED BY <1>3, <1>4

LoadingInv ==
    /\ proc = "loading" => buf = NewestOf(KeptUpTo(disk.lines, Payload)[pos])
    /\ proc \in {"down", "bootFailed"} => buf = <<>>

LEMMA LoadingNext == QueueInv /\ LoadingInv /\ [QueueNext]_queueVars => LoadingInv'
<1> SUFFICES ASSUME QueueInv, LoadingInv, [QueueNext]_queueVars PROVE LoadingInv'
  OBVIOUS
<1> DEFINE kept == KeptUpTo(disk.lines, Payload)
<1>1. /\ disk.lines \in Seq(Line) /\ pos \in 0 .. Len(disk.lines)
      /\ proc # "loading" => pos = 0
      /\ BadText \notin Payload
  BY QueueAssumption DEF QueueInv, QueueTypeOK, Phases, File
<1>2. /\ kept[0] = <<>>
      /\ \A k \in 1 .. Len(disk.lines) :
            kept[k] = IF disk.lines[k] \in Payload THEN Append(kept[k - 1], disk.lines[k])
                      ELSE kept[k - 1]
  BY <1>1, KeptSteps
<1>3. kept[pos] \in Seq(Payload)
  <2>1. Line \cap Payload = Payload
    BY DEF Line
  <2>2. kept[pos] \in Seq(Line \cap Payload)
    BY <1>1, KeptTyped
  <2> QED BY <2>1, <2>2
<1> HIDE DEF kept
<1>4. CASE LoadLine
  <2> DEFINE line == disk.lines[pos + 1]
  <2>1. proc = "loading" /\ pos + 1 \in 1 .. Len(disk.lines) /\ pos + 1 - 1 = pos
    BY <1>1, <1>4 DEF LoadLine
  <2>2. kept[pos + 1] = IF line \in Payload THEN Append(kept[pos], line) ELSE kept[pos]
    <3> DEFINE j == pos + 1
    <3> HIDE DEF j
    <3>1. kept[j] = IF disk.lines[j] \in Payload THEN Append(kept[j - 1], disk.lines[j])
                    ELSE kept[j - 1]
      BY <1>2, <2>1 DEF j
    <3>2. j - 1 = pos
      BY <1>1, <2>1 DEF j
    <3> QED BY <3>1, <3>2 DEF j
  <2>3. buf = NewestOf(kept[pos])
    BY <2>1 DEF LoadingInv, kept
  <2>4. buf' = NewestOf(kept[pos + 1])
    <3>1. CASE line \in Payload /\ Push(line)
      BY <1>3, <2>2, <2>3, <3>1, PushNewest
    <3>2. CASE line = BadText /\ buf' = buf
      BY <1>1, <2>2, <2>3, <3>2
    <3> QED BY <1>4, <3>1, <3>2 DEF LoadLine
  <2>5. disk' = disk /\ pos' = pos + 1 /\ proc' = "loading"
    BY <1>4, <2>1 DEF LoadLine
  <2> QED BY <2>4, <2>5 DEF LoadingInv, kept
<1>5. CASE Boot
  <2>1. buf' = <<>> /\ pos' = 0 /\ disk' = disk /\ proc' \in {"loading", "up"}
    BY <1>1, <1>5 DEF Boot, LoadingInv
  <2>2. NewestOf(<<>>) = <<>>
    BY QueueAssumption DEF NewestOf
  <2>3. NewestOf(kept[0]) = <<>>
    BY <1>2, <2>2
  <2> QED BY <2>1, <2>3 DEF LoadingInv, kept
<1>6. CASE Crash \/ CrashInAppend \/ LoadRaises
  BY <1>6 DEF Crash, CrashInAppend, LoadRaises, Forget, LoadingInv
<1>7. CASE \/ \E p \in Payload : Put(p)
           \/ Pop \/ Drain \/ EnforceMaxBytes \/ LoadEnd \/ LoadInterrupted
  <2>1. proc' = "up"
    BY <1>7 DEF Put, Pop, Drain, EnforceMaxBytes, EnforceDrop, EnforceDone, LoadEnd,
                LoadInterrupted, Ready, QueueInv, Phases
  <2> QED BY <2>1 DEF LoadingInv
<1>8. CASE UNCHANGED queueVars
  BY <1>8 DEF queueVars, LoadingInv
<1> QED BY <1>4, <1>5, <1>6, <1>7, <1>8 DEF QueueNext, Load

(* For every file and every size of the queue: a start that reads the file *)
(* to its end leaves its newest payloads in memory, in their order,        *)
(* wherever the damaged lines stand.                                       *)
THEOREM LoadsKeepNewest == QueueSpec => LoadKeepsNewest
<1>1. QueueInit => LoadingInv
  BY DEF QueueInit, LoadingInv
<1>2. ASSUME QueueInv, LoadingInv, [QueueNext]_queueVars,
             proc = "loading", proc' = "up", ~readFailed'
      PROVE  buf' = Newest(disk)
  <2>1. LoadEnd
    BY <1>2 DEF QueueNext, queueVars, Put, Pop, Drain, EnforceMaxBytes, EnforceDrop, EnforceDone,
                Crash, CrashInAppend, Boot, Load, LoadLine, LoadInterrupted, LoadRaises, Ready
  <2>2. buf' = NewestOf(KeptUpTo(disk.lines, Payload)[Len(disk.lines)])
    BY <1>2, <2>1 DEF LoadEnd, LoadingInv
  <2> QED BY <2>2 DEF Newest, Filtered
<1> QED BY <1>1, <1>2, LoadingNext, QueueInitInv, QueueStepInv, PTL DEF QueueSpec, LoadKeepsNewest
-----------------------------------------------------------------------------
(***************************************************************************)
(* With a working disk, the queue and its file are one bounded sequence    *)
(* that deaths and restarts do not change.                                 *)
(***************************************************************************)

(* A sequence of payloads is all kept.                                     *)
LEMMA AllKept ==
    ASSUME NEW b \in Seq(Payload)
    PROVE  Filtered(b, Payload) = b
<1> DEFINE f == KeptUpTo(b, Payload)
           n == Len(b)
           Same(i) == /\ f[i] \in Seq(Payload) /\ Len(f[i]) = i
                      /\ \A j \in 1 .. i : f[i][j] = b[j]
           Q == {i \in 0 .. n : ~Same(i)}
<1>1. /\ n \in Nat /\ f[0] = <<>>
      /\ \A k \in 1 .. n : f[k] = IF b[k] \in Payload THEN Append(f[k - 1], b[k]) ELSE f[k - 1]
      /\ \A k \in 1 .. n : b[k] \in Payload
  BY KeptSteps
<1> HIDE DEF f, n
<1>2. Q = {}
  <2> SUFFICES ASSUME Q # {} PROVE FALSE
    OBVIOUS
  <2>1. Q \in SUBSET Nat
    BY <1>1
  <2>2. PICK m \in Q : \A k \in Q : m <= k
    <3> HIDE DEF Q
    <3> QED BY <2>1, LeastNatural
  <2>3. m \in 0 .. n /\ ~Same(m)
    OBVIOUS
  <2>4. Same(0)
    <3>1. <<>> \in Seq(Payload) /\ Len(<<>>) = 0
      OBVIOUS
    <3> QED BY <1>1, <3>1
  <2>5. m # 0
    <3> HIDE DEF Same
    <3> QED BY <2>3, <2>4
  <2>6. m - 1 \in 0 .. n /\ m \in 1 .. n /\ ~(m <= m - 1)
    BY <1>1, <2>3, <2>5
  <2>7. Same(m - 1)
    <3> HIDE DEF Same
    <3>1. m - 1 \notin Q
      <4> HIDE DEF Q
      <4> QED BY <2>2, <2>6
    <3> QED BY <2>6, <3>1
  <2>8. f[m] = Append(f[m - 1], b[m]) /\ b[m] \in Payload
    BY <1>1, <2>6
  <2>9. Same(m)
    <3> DEFINE g == f[m - 1]
    <3>1. g \in Seq(Payload) /\ Len(g) = m - 1 /\ \A j \in 1 .. m - 1 : g[j] = b[j]
      BY <2>7
    <3>2. f[m] = Append(g, b[m])
      BY <2>8
    <3> HIDE DEF g
    <3>3. f[m] \in Seq(Payload) /\ Len(f[m]) = m
      BY <2>6, <2>8, <3>1, <3>2
    <3>4. ASSUME NEW j \in 1 .. m PROVE f[m][j] = b[j]
      <4>1. CASE j = m
        BY <2>6, <2>8, <3>1, <3>2, <4>1
      <4>2. CASE j # m
        BY <2>6, <2>8, <3>1, <3>2, <4>2
      <4> QED BY <4>1, <4>2
    <3> QED BY <3>3, <3>4
  <2> HIDE DEF Same
  <2> QED BY <2>3, <2>9
<1>3. Same(n)
  <2>1. n \in 0 .. n
    BY <1>1
  <2> HIDE DEF Same
  <2> QED BY <1>2, <2>1
<1>4. Len(b) = n /\ Filtered(b, Payload) = f[n]
  BY DEF Filtered, f, n
<1>5. f[n] = b
  <2>1. f[n] \in Seq(Payload) /\ Len(f[n]) = Len(b) /\ \A j \in 1 .. Len(b) : f[n][j] = b[j]
    BY <1>3, <1>4
  <2> QED BY <2>1, SeqEqual
<1> QED BY <1>4, <1>5

(* The image of a memory within its bound is read back as it was.          *)
LEMMA ImageReadBack ==
    ASSUME NEW b \in Seq(Payload), Len(b) <= MaxSize
    PROVE  Newest(Image(b)) = b
<1>1. Filtered(Image(b).lines, Payload) = b
  BY AllKept DEF Image
<1> QED BY <1>1 DEF Newest, NewestOf

(* A torn tail holds no payload: it leaves what is read back as it was.    *)
LEMMA TornReadBack ==
    ASSUME NEW file \in File, NEW torn \in Torn(file)
    PROVE  Newest(torn) = Newest(file)
<1>1. torn.lines = file.lines
  BY DEF Torn, File
<1> QED BY <1>1 DEF Newest
-----------------------------------------------------------------------------
(* The memory never outgrows its bound, and without an I/O error neither   *)
(* a failed write nor an unread rest of the file is known.  Without a file *)
(* there is nothing to load.                                               *)
CleanInv ==
    /\ Bounded
    /\ ~Persistent => disk = Image(<<>>) /\ proc # "loading"
    /\ faults = 0 => writeFailed = 0 /\ ~readFailed

(* Pushing and taking keep the bound of the memory.                        *)
LEMMA PushBounded ==
    ASSUME QueueTypeOK, Bounded, NEW p \in Payload, Push(p)
    PROVE  Len(buf') <= MaxSize
<1>1. Len(buf) \in Nat /\ MaxSize \in Nat \ {0} /\ buf \in Seq(Payload)
  BY QueueAssumption DEF QueueTypeOK
<1>2. CASE Len(buf) >= MaxSize
  <2>1. buf # <<>>
    BY <1>1, <1>2
  <2>2. Tail(buf) \in Seq(Payload) /\ Len(Tail(buf)) = Len(buf) - 1
    BY <1>1, <2>1
  <2>3. Len(buf') = Len(buf)
    BY <1>1, <1>2, <2>2 DEF Push
  <2> QED BY <2>3 DEF Bounded
<1>3. CASE ~(Len(buf) >= MaxSize)
  BY <1>1, <1>3 DEF Push
<1> QED BY <1>2, <1>3

LEMMA TailBounded ==
    ASSUME QueueTypeOK, Bounded, buf # <<>>, buf' = Tail(buf)
    PROVE  Len(buf') <= MaxSize
<1>1. Len(buf) \in Nat /\ MaxSize \in Nat /\ Len(Tail(buf)) = Len(buf) - 1
  BY QueueAssumption DEF QueueTypeOK
<1> QED BY <1>1 DEF Bounded

LEMMA EmptyBounded == Len(<<>>) <= MaxSize
BY QueueAssumption

LEMMA CleanNext == QueueInv /\ CleanInv /\ [QueueNext]_queueVars => CleanInv'
<1> SUFFICES ASSUME QueueInv, CleanInv, [QueueNext]_queueVars PROVE CleanInv'
  OBVIOUS
<1>1. QueueTypeOK /\ Bounded
  BY DEF QueueInv, CleanInv
<1>2. Bounded'
  <2>1. ASSUME NEW p \in Payload, Put(p) PROVE Bounded'
    BY <1>1, <2>1, PushBounded DEF Put, Bounded
  <2>2. CASE LoadLine
    <3>1. CASE \E line \in Payload : Push(line)
      BY <1>1, <3>1, PushBounded DEF Bounded
    <3>2. CASE buf' = buf
      BY <1>1, <3>2 DEF Bounded
    <3> QED BY <2>2, <3>1, <3>2 DEF LoadLine
  <2>3. CASE EnforceDrop \/ Pop
    <3>1. buf # <<>> /\ buf' = Tail(buf)
      BY <2>3 DEF EnforceDrop, Pop
    <3> QED BY <1>1, <3>1, TailBounded DEF Bounded
  <2>4. CASE Drain \/ Crash \/ CrashInAppend \/ LoadRaises
    <3>1. buf' = <<>>
      BY <2>4 DEF Drain, Crash, CrashInAppend, LoadRaises, Forget
    <3> QED BY <3>1, EmptyBounded DEF Bounded
  <2>5. CASE EnforceDone \/ Boot \/ LoadEnd \/ LoadInterrupted \/ UNCHANGED queueVars
    <3>1. buf' = buf
      BY <2>5 DEF EnforceDone, Boot, LoadEnd, LoadInterrupted, queueVars
    <3> QED BY <1>1, <3>1 DEF Bounded
  <2> QED BY <2>1, <2>2, <2>3, <2>4, <2>5 DEF QueueNext, EnforceMaxBytes, Load
<1>3. faults' = 0 => writeFailed' = 0 /\ ~readFailed'
  <2> SUFFICES ASSUME faults' = 0 PROVE writeFailed' = 0 /\ ~readFailed'
    OBVIOUS
  <2>0. faults \in Nat /\ (faults = 0 => writeFailed = 0 /\ ~readFailed)
    <3>1. faults \in 0 .. MaxFaults
      BY <1>1 DEF QueueTypeOK
    <3> QED BY <3>1, QueueAssumption DEF CleanInv
  <2>1. ~Fault /\ ~LoadInterrupted
    BY <2>0 DEF Fault, LoadInterrupted
  <2>2. CASE \/ \E p \in Payload : Put(p)
             \/ EnforceDrop \/ Pop \/ Drain \/ LoadEnd
    <3>1. NoFault /\ readFailed' = readFailed
      BY <2>1, <2>2 DEF Put, EnforceDrop, Pop, Drain, LoadEnd, AppendLine, CompactDisk
    <3> QED BY <2>0, <3>1 DEF NoFault
  <2>3. CASE Crash \/ CrashInAppend \/ LoadRaises
    BY <2>3 DEF Crash, CrashInAppend, LoadRaises, Forget
  <2>4. CASE EnforceDone \/ Boot \/ LoadLine \/ UNCHANGED queueVars
    BY <2>0, <2>4 DEF EnforceDone, Boot, LoadLine, queueVars
  <2> QED BY <2>1, <2>2, <2>3, <2>4 DEF QueueNext, EnforceMaxBytes, Load
<1>4. ~Persistent => (disk = Image(<<>>) /\ proc # "loading")'
  <2> SUFFICES ASSUME ~Persistent PROVE disk' = Image(<<>>) /\ proc' # "loading"
    OBVIOUS
  <2>1. disk = Image(<<>>) /\ proc # "loading" /\ ~enforcing
    BY DEF CleanInv, QueueInv, Phases
  <2>2. CASE \/ \E p \in Payload : Put(p)
             \/ Pop \/ Drain \/ Crash \/ Boot \/ UNCHANGED queueVars
    BY <2>1, <2>2 DEF Put, Pop, Drain, Crash, Boot, Ready, queueVars
  <2>3. ~EnforceMaxBytes /\ ~CrashInAppend /\ ~Load
    BY <2>1 DEF EnforceMaxBytes, EnforceDrop, EnforceDone, CrashInAppend, Load, LoadLine,
                LoadEnd, LoadInterrupted, LoadRaises
  <2> QED BY <2>2, <2>3 DEF QueueNext
<1> QED BY <1>2, <1>3, <1>4 DEF CleanInv

(* Without a file, nothing is read back.                                   *)
LEMMA NothingToRead == ASSUME CleanInv, ~Persistent PROVE Newest(disk) = <<>>
<1>1. <<>> \in Seq(Payload) /\ Len(<<>>) <= MaxSize
  BY EmptyBounded
<1>2. Newest(Image(<<>>)) = <<>>
  BY <1>1, ImageReadBack
<1> QED BY <1>2 DEF CleanInv

(* Until the first I/O error, whatever a step of the queue does to memory  *)
(* or file is one operation of the promised queue, or none.                *)
LEMMA StepKeepsQueue ==
    ASSUME QueueInv, LoadingInv, CleanInv, [QueueNext]_queueVars, faults' = 0
    PROVE  [Promised!Next]_<<Unsent, proc = "up">>
<1>1. /\ buf \in Seq(Payload) /\ Len(buf) <= MaxSize
      /\ disk \in File /\ faults \in Nat
      /\ MaxSize \in Nat \ {0}
  <2>1. faults \in 0 .. MaxFaults
    BY DEF QueueInv, QueueTypeOK
  <2> QED BY <2>1, QueueAssumption DEF QueueInv, QueueTypeOK, CleanInv, Bounded
<1>2. ~Fault /\ ~LoadInterrupted
  BY <1>1 DEF Fault, LoadInterrupted
<1>3. ASSUME NEW p \in Payload, Put(p) PROVE Promised!Enqueue(p)
  <2>1. proc = "up" /\ proc' = "up" /\ Unsent = buf /\ Unsent' = buf'
    BY <1>3 DEF Put, Ready, Unsent
  <2>2. buf' = Append(IF Len(buf) < MaxSize THEN buf ELSE Tail(buf), p)
    BY <1>1, <1>3 DEF Put, Push
  <2> QED BY <2>1, <2>2 DEF Promised!Enqueue
<1>4. CASE EnforceDrop \/ Pop
  <2>1. proc = "up" /\ proc' = "up" /\ buf # <<>> /\ buf' = Tail(buf)
    BY <1>4 DEF EnforceDrop, Pop, Ready, QueueInv, Phases
  <2>2. Promised!Dequeue
    BY <2>1 DEF Promised!Dequeue, Unsent
  <2> QED BY <2>2 DEF Promised!Next
<1>5. CASE Drain
  <2>1. proc = "up" /\ proc' = "up" /\ buf' = <<>>
    BY <1>5 DEF Drain, Ready
  <2>2. Promised!TakeAll
    BY <2>1 DEF Promised!TakeAll, Unsent
  <2> QED BY <2>2 DEF Promised!Next
<1>6. CASE Crash \/ CrashInAppend
  <2>1. proc' # "up" /\ Newest(disk') = Newest(disk)
    <3>1. CASE Crash
      BY <3>1 DEF Crash
    <3>2. CASE CrashInAppend
      BY <1>1, <3>2, TornReadBack DEF CrashInAppend
    <3> QED BY <1>6, <3>1, <3>2
  <2>2. Unsent' = Newest(disk)
    BY <2>1 DEF Unsent
  <2>3. Persistent /\ proc = "up" => Newest(disk) = buf
    <3> SUFFICES ASSUME Persistent, proc = "up" PROVE Newest(disk) = buf
      OBVIOUS
    <3>1. faults = 0
      BY <1>6 DEF Crash, CrashInAppend
    <3>2. disk = Image(buf)
      BY <3>1 DEF QueueInv, DiskMirrorsBuffer, CleanInv
    <3> QED BY <1>1, <3>2, ImageReadBack
  <2>4. Unsent' = IF Persistent THEN Unsent ELSE <<>>
    BY <2>2, <2>3, NothingToRead DEF Unsent
  <2>5. CASE proc = "up"
    <3>1. Promised!Die
      BY <2>1, <2>4, <2>5 DEF Promised!Die
    <3> QED BY <3>1 DEF Promised!Next
  <2>6. CASE proc # "up"
    <3>1. (proc = "up")' = (proc = "up")
      BY <2>1, <2>6
    <3>2. Unsent' = Unsent
      BY <2>2, <2>6 DEF Unsent
    <3> QED BY <3>1, <3>2
  <2> QED BY <2>5, <2>6
<1>7. CASE (Boot /\ Persistent) \/ LoadLine \/ LoadRaises
  <2>1. proc # "up" /\ proc' # "up" /\ disk' = disk
    BY <1>7 DEF Boot, LoadLine, LoadRaises
  <2>2. Unsent' = Unsent /\ (proc = "up")' = (proc = "up")
    BY <2>1 DEF Unsent
  <2> QED BY <2>2
<1>8. CASE LoadEnd
  <2>1. proc = "loading" /\ proc' = "up" /\ buf' = buf /\ pos = Len(disk.lines)
    BY <1>8 DEF LoadEnd
  <2>2. buf = Newest(disk)
    BY <2>1 DEF LoadingInv, Newest, Filtered
  <2>3. Unsent' = Unsent
    BY <2>1, <2>2 DEF Unsent
  <2>4. Promised!Start
    BY <2>1, <2>3 DEF Promised!Start
  <2> QED BY <2>4 DEF Promised!Next
<1>9. CASE EnforceDone \/ UNCHANGED queueVars
  <2>1. proc' = proc /\ buf' = buf /\ disk' = disk
    BY <1>9 DEF EnforceDone, queueVars
  <2>2. Unsent' = Unsent
    BY <2>1 DEF Unsent
  <2> QED BY <2>1, <2>2
<1>10. CASE Boot /\ ~Persistent
  <2>1. proc # "up" /\ proc' = "up" /\ buf' = <<>>
    BY <1>10 DEF Boot, LoadingInv
  <2>2. Unsent = <<>> /\ Unsent' = <<>>
    BY <1>10, <2>1, NothingToRead DEF Unsent
  <2>3. Promised!Start
    BY <2>1, <2>2 DEF Promised!Start
  <2> QED BY <2>3 DEF Promised!Next
<1> QED
  BY <1>2, <1>3, <1>4, <1>5, <1>6, <1>7, <1>8, <1>9, <1>10
     DEF QueueNext, EnforceMaxBytes, Load, Promised!Next

(* Initially nothing is unsent and no error happened.                      *)
LEMMA CleanAtFirst == QueueInit => CleanInv /\ LoadingInv /\ Promised!Init
<1> SUFFICES ASSUME QueueInit PROVE CleanInv /\ LoadingInv /\ Promised!Init
  OBVIOUS
<1>1. buf = <<>> /\ proc = "up" /\ writeFailed = 0 /\ ~readFailed /\ disk = Image(<<>>)
  BY DEF QueueInit
<1> QED BY <1>1, EmptyBounded DEF CleanInv, LoadingInv, Unsent, Bounded, Promised!Init

(* For every size, byte limit and number of I/O errors, the memory of the  *)
(* queue stays within max_size, also when it is filled from a longer file  *)
(* or while the file is being shrunk.                                      *)
THEOREM QueueBounded == QueueSpec => []Bounded
<1>1. CleanInv => Bounded
  BY DEF CleanInv
<1> QED BY <1>1, CleanAtFirst, CleanNext, QueueInitInv, QueueStepInv, PTL DEF QueueSpec

(* On a working disk, for every size and byte limit: what is unsent is a   *)
(* bounded first-in first-out queue that only its operations change and,   *)
(* when there is no file, a death; with a file no death, torn write or     *)
(* start does.  It is local_queue.py's promise that a restarted process    *)
(* finds the unsent payloads again.                                        *)
THEOREM QueueIsDurable ==
    ASSUME MaxFaults = 0
    PROVE  QueueSpec => KeepsQueue
<1>1. /\ QueueInv /\ LoadingInv /\ CleanInv
      /\ QueueInv'
      /\ [QueueNext]_queueVars
      => [Promised!Next]_<<Unsent, proc = "up">>
  <2> SUFFICES ASSUME QueueInv, LoadingInv, CleanInv, QueueInv', [QueueNext]_queueVars
               PROVE  [Promised!Next]_<<Unsent, proc = "up">>
    OBVIOUS
  <2>1. faults' = 0
    BY QueueAssumption DEF QueueInv, QueueTypeOK
  <2> QED BY <2>1, StepKeepsQueue
<1> QED
  BY <1>1, CleanAtFirst, CleanNext, LoadingNext, QueueInitInv, QueueStepInv, PTL
     DEF QueueSpec, KeepsQueue, Promised!Spec

(* However many I/O errors are still to come: until the first of them,     *)
(* every step of the queue is one of the promised queue.                   *)
THEOREM DurableUntilError ==
    QueueSpec => [][faults' = 0 => [Promised!Next]_<<Unsent, proc = "up">>]_queueVars
<1>1. QueueInv /\ LoadingInv /\ CleanInv /\ [QueueNext]_queueVars
      => (faults' = 0 => [Promised!Next]_<<Unsent, proc = "up">>)
  BY StepKeepsQueue
<1> QED
  BY <1>1, CleanAtFirst, CleanNext, LoadingNext, QueueInitInv, QueueStepInv, PTL DEF QueueSpec
=============================================================================
