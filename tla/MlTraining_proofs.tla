--------------------------- MODULE MlTraining_proofs ---------------------------
(***************************************************************************)
(* Proofs about MlTraining, for any number of concurrent requests, samples *)
(* and clears: what a model is fitted to, and what a clear leaves behind.  *)
(***************************************************************************)
EXTENDS MlTraining, TLAPS

(* Appending the next number to a window gives a window of at most the     *)
(* same size that ends with it.                                            *)
LEMMA PushWindow ==
  ASSUME NEW q \in Seq(Nat), NEW s \in Nat, Window(q), Len(q) <= TrainWindow,
         q # <<>> => q[Len(q)] = s
  PROVE  /\ Push(q, s + 1) \in Seq(Nat)
         /\ Len(Push(q, s + 1)) \in 1 .. TrainWindow
         /\ Window(Push(q, s + 1))
         /\ Push(q, s + 1)[Len(Push(q, s + 1))] = s + 1
         /\ Push(q, s + 1)[1] >= IF q = <<>> THEN s + 1 ELSE q[1]
<1> DEFINE p == Push(q, s + 1)
<1>0. /\ TrainWindow \in Nat \ {0} /\ s + 1 \in Nat
      /\ Len(q) \in Nat /\ DOMAIN q = 1 .. Len(q) /\ \A i \in 1 .. Len(q) : q[i] \in Nat
  BY TrainingAssumption
<1>00. Len(q) \in Nat /\ TrainWindow \in Nat /\ Len(q) <= TrainWindow
  BY <1>0
<1>01. s + 1 \in Nat
  BY <1>0
<1>1. q # <<>> => Len(q) \in 1 .. TrainWindow /\ s = q[1] + (Len(q) - 1)
  BY <1>0 DEF Window
<1>2. CASE Len(q) < TrainWindow
  <2>1. p = Append(q, s + 1)
    BY <1>2 DEF Push
  <2>2. Len(p) = Len(q) + 1 /\ p \in Seq(Nat) /\ DOMAIN p = 1 .. Len(q) + 1
    BY <1>0, <2>1
  <2>3. \A i \in 1 .. Len(q) : p[i] = q[i]
    BY <1>0, <2>1
  <2>4. p[Len(q) + 1] = s + 1
    BY <1>0, <2>1
  <2>5. CASE q = <<>>
    <3>1. Len(q) = 0 /\ p[1] = s + 1 /\ DOMAIN p = 1 .. 1 /\ Len(p) = 1
      BY <2>2, <2>4, <2>5
    <3>2. \A i \in DOMAIN p : i = 1
      BY <3>1
    <3>3. Window(p)
      BY <1>0, <3>1, <3>2 DEF Window
    <3> HIDE DEF p
    <3>4. /\ p \in Seq(Nat) /\ Len(p) \in 1 .. TrainWindow
          /\ p[Len(p)] = s + 1 /\ p[1] >= IF q = <<>> THEN s + 1 ELSE q[1]
      BY <1>0, <2>2, <2>5, <3>1
    <3> QED BY <3>3, <3>4 DEF p
  <2>6. CASE q # <<>>
    <3>1. p[1] = q[1] /\ q[1] \in Nat
      BY <1>0, <1>1, <2>3, <2>6
    <3>2. \A i \in 1 .. Len(q) : q[i] = q[1] + (i - 1)
      BY <1>0 DEF Window
    <3>3. \A i \in DOMAIN p : p[i] = p[1] + (i - 1)
      <4>1. ASSUME NEW i \in 1 .. Len(q) PROVE p[i] = p[1] + (i - 1)
        BY <2>3, <3>1, <3>2
      <4>2. p[Len(q) + 1] = p[1] + (Len(q) + 1 - 1)
        BY <1>0, <1>1, <2>4, <2>6, <3>1
      <4>3. \A i \in DOMAIN p : i \in 1 .. Len(q) \/ i = Len(q) + 1
        BY <1>0, <2>2
      <4> QED BY <4>1, <4>2, <4>3
    <3> HIDE DEF p
    <3>4. /\ p \in Seq(Nat) /\ Len(p) \in 1 .. TrainWindow
          /\ p[Len(p)] = s + 1 /\ p[1] >= IF q = <<>> THEN s + 1 ELSE q[1]
      BY <1>0, <1>2, <2>2, <2>4, <2>6, <3>1
    <3> QED BY <3>3, <3>4 DEF p, Window
  <2> QED BY <2>5, <2>6
<1>3. CASE Len(q) = TrainWindow
  <2>0. q # <<>> /\ q[Len(q)] = s
    BY <1>0, <1>3
  <2>1. p = Append(Tail(q), s + 1)
    BY <1>0, <1>3 DEF Push
  <2>2. Tail(q) \in Seq(Nat) /\ Len(Tail(q)) = Len(q) - 1
    BY <2>0
  <2>3. Len(p) = Len(q) /\ p \in Seq(Nat) /\ DOMAIN p = 1 .. Len(q)
    <3>1. p \in Seq(Nat) /\ Len(p) = Len(Tail(q)) + 1
      BY ONLY <1>01, <2>1, <2>2
    <3>2. Len(p) = Len(q)
      BY <1>0, <2>2, <3>1
    <3> HIDE DEF p
    <3> QED BY <3>1, <3>2
  <2>4. \A i \in 1 .. Len(q) - 1 : p[i] = q[i + 1]
    BY <1>0, <2>0, <2>1, <2>2
  <2>5. p[Len(q)] = s + 1
    BY <1>0, <1>1, <2>0, <2>1, <2>2
  <2>6. \A i \in 1 .. Len(q) : q[i] = q[1] + (i - 1)
    BY <1>0 DEF Window
  <2>7. \A i \in 1 .. Len(q) : p[i] = q[1] + i
    <3>1. ASSUME NEW i \in 1 .. Len(q) - 1 PROVE p[i] = q[1] + i
      <4>1. i + 1 \in 1 .. Len(q) /\ q[1] \in Nat
        BY <1>0, <2>0
      <4>2. q[i + 1] = q[1] + ((i + 1) - 1)
        BY <2>6, <4>1
      <4> QED BY <2>4, <4>1, <4>2
    <3>2. p[Len(q)] = q[1] + Len(q)
      BY <1>0, <1>1, <2>0, <2>5
    <3>3. \A i \in 1 .. Len(q) : i \in 1 .. Len(q) - 1 \/ i = Len(q)
      BY ONLY <1>00
    <3> QED BY <3>1, <3>2, <3>3
  <2>8. q[1] \in Nat /\ p[1] = q[1] + 1
    BY <1>0, <1>1, <2>0, <2>7
  <2>9. \A i \in DOMAIN p : p[i] = p[1] + (i - 1)
    <3> HIDE DEF p
    <3>1. ASSUME NEW i \in 1 .. Len(q) PROVE p[i] = p[1] + (i - 1)
      BY <2>7, <2>8
    <3> QED BY <2>3, <3>1
  <2> HIDE DEF p
  <2>10. /\ p \in Seq(Nat) /\ Len(p) \in 1 .. TrainWindow
         /\ p[Len(p)] = s + 1 /\ p[1] >= IF q = <<>> THEN s + 1 ELSE q[1]
    BY <1>0, <1>3, <2>0, <2>3, <2>5, <2>8
  <2> QED BY <2>9, <2>10 DEF p, Window
<1>4. Len(q) < TrainWindow \/ Len(q) = TrainWindow
  BY ONLY <1>00
<1> QED BY <1>2, <1>3, <1>4
-----------------------------------------------------------------------------
(* The initial values have their types.                                    *)
LEMMA TypeInit == Init => TypeOK
<1> SUFFICES ASSUME Init PROVE TypeOK
  OBVIOUS
<1>1. /\ data \in [Thread -> Seq(Nat)] /\ size \in [Thread -> 0 .. TrainWindow]
      /\ source \in [Thread -> 0 .. made] /\ torn \in [Thread -> BOOLEAN]
  BY TrainingAssumption DEF Init
<1>2. cutoff \in 0 .. samples /\ faults \in 0 .. MaxFaults /\ clears \in 0 .. MaxClears
      /\ kept \in 0 .. made /\ made \in Nat
  BY TrainingAssumption DEF Init
<1> QED BY <1>1, <1>2 DEF Init, TypeOK

(* The deque holds the newest samples of this history, one after the other.*)
HistoryOK ==
  history # None =>
    /\ Window(history)
    /\ Len(history) <= TrainWindow
    /\ history # <<>> => history[Len(history)] = samples /\ history[1] > cutoff

(* What a training may be fitted to after n samples, the last clear after c*)
(* of them.                                                                *)
Fit(q, n, c) ==
  /\ Len(q) \in MinTrainSize .. TrainWindow
  /\ Window(q)
  /\ q[Len(q)] <= n
  /\ ~(q[1] <= c /\ q[Len(q)] > c)

WindowInv ==
  /\ TypeOK
  /\ HistoryOK
  /\ \A t \in Thread : Training(t) => Fit(data[t], samples, cutoff)
  /\ model # None => Fit(model, samples, cutoff)

LEMMA WindowNext == WindowInv /\ [Next]_vars => WindowInv'
<1> SUFFICES ASSUME WindowInv, [Next]_vars PROVE WindowInv'
  OBVIOUS
<1> USE TrainingAssumption DEF WindowInv
<1>0. /\ TypeOK /\ HistoryOK
      /\ samples \in Nat /\ cutoff \in 0 .. samples /\ clears \in Nat /\ made \in Nat /\ kept \in 0 .. made
  BY DEF TypeOK
<1>1. ASSUME NEW t \in Thread, AppendSample(t) PROVE WindowInv'
  <2>1. history \in Seq(Nat) /\ history # None
    BY <1>1 DEF AppendSample, TypeOK
  <2>2. /\ samples' = samples + 1 /\ history' = Push(history, samples + 1)
        /\ UNCHANGED <<known, made, replaced, model, data, clearVars, alone, faults, size, source>>
        /\ UNCHANGED <<cutoff, clears, clearing, kept, raced>>
        /\ stage' = [stage EXCEPT ![t] = "size"] /\ stage[t] = "append"
        /\ torn' = [u \in Thread |-> torn[u] \/ (stage[u] = "read" /\ source[u] = made)]
    BY <1>1 DEF AppendSample, Goto, clearVars
  <2>3. HistoryOK' /\ history' \in Seq(Nat)
    <3>1. Window(history) /\ Len(history) <= TrainWindow
          /\ (history # <<>> => history[Len(history)] = samples)
      BY <2>1 DEF HistoryOK
    <3>2. /\ history' \in Seq(Nat)
          /\ Len(history') \in 1 .. TrainWindow
          /\ Window(history')
          /\ history'[Len(history')] = samples'
          /\ history'[1] >= IF history = <<>> THEN samples + 1 ELSE history[1]
      BY <1>0, <2>1, <2>2, <3>1, PushWindow
    <3>3. history'[1] > cutoff'
      <4>1. history # <<>> => history[1] > cutoff /\ history[1] \in Nat
        BY <2>1 DEF HistoryOK
      <4>2. history'[1] \in Nat
        BY <3>2
      <4> QED BY <1>0, <2>2, <3>2, <4>1, <4>2
    <3> QED BY <3>2, <3>3 DEF HistoryOK, dequeVars, Window
  <2>4. TypeOK'
    <3>1. torn' \in [Thread -> BOOLEAN]
      BY <2>2
    <3>2. stage' \in [Thread -> {"idle", "makePc", "look", "make", "append", "size", "due", "read", "fit"}]
      BY <2>2 DEF TypeOK
    <3> QED BY <1>0, <2>2, <2>3, <3>1, <3>2 DEF TypeOK
  <2>5. ASSUME NEW q \in Seq(Nat), Fit(q, samples, cutoff) PROVE Fit(q, samples', cutoff')
    <3>1. q[Len(q)] \in Nat
      BY <2>5 DEF Fit
    <3> QED BY <1>0, <2>2, <2>5, <3>1 DEF Fit, Window
  <2>6. \A u \in Thread : Training(u)' => Training(u) /\ data'[u] = data[u] /\ data[u] \in Seq(Nat)
    BY <2>2 DEF Training, TypeOK
  <2>7. \A u \in Thread : Training(u)' => Fit(data[u], samples', cutoff')
    BY <2>2, <2>5, <2>6
  <2>8. model' # None => Fit(model', samples', cutoff')
    BY <2>2, <2>5 DEF TypeOK
  <2>9. \A u \in Thread : Training(u)' => Fit(data'[u], samples', cutoff')
    BY <2>2, <2>7
  <2> QED BY <2>3, <2>4, <2>8, <2>9
<1> DEFINE Same == UNCHANGED <<samples, cutoff>>
<1>2. ASSUME Same, NEW q, Fit(q, samples, cutoff) PROVE Fit(q, samples', cutoff')
  BY <1>2 DEF Fit, Window
<1>3. ASSUME NEW t \in Thread, StartRead(t) PROVE WindowInv'
  <2>1. /\ history \in Seq(Nat) /\ Len(history) >= MinTrainSize
        /\ data' = [data EXCEPT ![t] = history]
        /\ stage' = [stage EXCEPT ![t] = "read"]
        /\ source' = [source EXCEPT ![t] = made]
        /\ UNCHANGED <<dequeVars, model, size, torn, clearVars, samples, alone, faults>>
    BY <1>3 DEF StartRead, Goto, Size, TypeOK
  <2>2. Fit(history, samples, cutoff)
    <3>1. Len(history) \in MinTrainSize .. TrainWindow /\ history # <<>> /\ history # None
      BY <1>0, <2>1 DEF HistoryOK
    <3>2. Window(history) /\ history[Len(history)] = samples /\ history[1] > cutoff
      BY <3>1 DEF HistoryOK
    <3>3. history[1] \in Nat
      BY <2>1, <3>1
    <3> QED BY <1>0, <3>1, <3>2, <3>3 DEF Fit
  <2>3. TypeOK'
    BY <1>0, <2>1 DEF TypeOK, clearVars, dequeVars
  <2>4. HistoryOK'
    BY <2>1 DEF HistoryOK, clearVars, dequeVars, Window
  <2>5. Same
    BY <2>1 DEF clearVars
  <2>6. \A u \in Thread : Training(u)' => Fit(data'[u], samples, cutoff)
    BY <2>1, <2>2 DEF TypeOK, Training
  <2>7. \A u \in Thread : Training(u)' => Fit(data'[u], samples', cutoff')
    BY <2>5, <2>6, <1>2
  <2> QED BY <2>1, <2>3, <2>4, <2>5, <2>7, <1>2
<1>4. ASSUME NEW t \in Thread, SetModel(t) PROVE WindowInv'
  <2>1. /\ model' = data[t] /\ Fit(data[t], samples, cutoff) /\ data[t] \in Seq(Nat)
        /\ UNCHANGED <<dequeVars, clearVars, samples, alone, faults>>
        /\ stage' = [stage EXCEPT ![t] = "idle"]
        /\ size' = [size EXCEPT ![t] = 0]
        /\ data' = [data EXCEPT ![t] = <<>>]
        /\ torn' = [torn EXCEPT ![t] = FALSE]
        /\ source' = [source EXCEPT ![t] = 0]
    BY <1>4 DEF SetModel, Leave, Goto, Training, TypeOK
  <2>2. TypeOK'
    BY <1>0, <2>1 DEF TypeOK, clearVars, dequeVars
  <2>3. HistoryOK' /\ Same
    BY <2>1 DEF HistoryOK, clearVars, dequeVars, Window
  <2>4. \A u \in Thread : Training(u)' => Fit(data'[u], samples, cutoff)
    BY <2>1 DEF TypeOK, Training
  <2> QED BY <1>2, <2>1, <2>2, <2>3, <2>4
<1>5. ASSUME NEW t \in Thread,
             \/ AppendFails(t) \/ NotDue(t) \/ TooShort(t) \/ ReadRaises(t) \/ FitRaises(t)
      PROVE  WindowInv'
  <2>1. /\ UNCHANGED <<dequeVars, model, clearVars, samples>>
        /\ stage' = [stage EXCEPT ![t] = "idle"]
        /\ size' = [size EXCEPT ![t] = 0]
        /\ data' = [data EXCEPT ![t] = <<>>]
        /\ torn' = [torn EXCEPT ![t] = FALSE]
        /\ source' = [source EXCEPT ![t] = 0]
        /\ alone' \subseteq Thread /\ faults' \in 0 .. MaxFaults
    BY <1>5 DEF AppendFails, NotDue, TooShort, ReadRaises, FitRaises, Leave, Goto, TypeOK
  <2>2. TypeOK'
    BY <1>0, <2>1 DEF TypeOK, clearVars, dequeVars
  <2>3. HistoryOK' /\ Same
    BY <2>1 DEF HistoryOK, clearVars, dequeVars, Window
  <2>4. \A u \in Thread : Training(u)' => Fit(data'[u], samples, cutoff)
    BY <2>1 DEF TypeOK, Training
  <2> QED BY <1>2, <2>1, <2>2, <2>3, <2>4
<1>6. ASSUME NEW t \in Thread, Request(t) \/ MakePc(t) \/ LookDeque(t) \/ MakeDeque(t)
      PROVE  WindowInv'
  <2>1. /\ history' \in Seq(Nat) \cup {None} /\ HistoryOK' /\ Same
    <3>1. CASE Request(t) \/ LookDeque(t)
      BY <1>6, <3>1 DEF Request, LookDeque, HistoryOK, TypeOK, clearVars, dequeVars, Window
    <3>2. CASE MakeDeque(t)
      <4>1. history' = <<>> /\ Same
        BY <3>2 DEF MakeDeque, clearVars
      <4>2. HistoryOK'
        BY <4>1, <1>0, TrainingAssumption DEF HistoryOK, Window
      <4> QED BY <4>1, <4>2
    <3>3. CASE MakePc(t)
      BY <3>3 DEF MakePc, HistoryOK, clearVars
    <3> QED BY <1>6, <3>1, <3>2, <3>3
  <2>2. /\ \E s \in {"makePc", "look", "make", "append"} : stage' = [stage EXCEPT ![t] = s]
        /\ alone' \subseteq Thread /\ made' \in {made, made + 1} /\ replaced' \in BOOLEAN
        /\ known' \in BOOLEAN
        /\ UNCHANGED <<model, size, data, torn, source, clearVars, samples, faults>>
    <3>1. CASE Request(t) \/ LookDeque(t)
      BY <1>6, <3>1 DEF Request, LookDeque, Goto, dequeVars, TypeOK
    <3>2. CASE MakeDeque(t)
      BY <1>6, <3>2 DEF MakeDeque, Goto, TypeOK
    <3>3. CASE MakePc(t)
      BY <1>6, <3>3 DEF MakePc, Goto, TypeOK
    <3> QED BY <1>6, <3>1, <3>2, <3>3
  <2>3. TypeOK'
    <3>1. stage' \in [Thread -> {"idle", "makePc", "look", "make", "append", "size", "due", "read", "fit"}]
      BY <2>2 DEF TypeOK
    <3>2. /\ made' \in Nat /\ kept' \in 0 .. made' /\ 0 .. made \subseteq 0 .. made'
          /\ source' \in [Thread -> 0 .. made']
      BY <1>0, <2>2 DEF TypeOK, clearVars
    <3> QED BY <1>0, <2>1, <2>2, <3>1, <3>2 DEF TypeOK, clearVars
  <2>4. \A u \in Thread : Training(u)' => Fit(data'[u], samples, cutoff)
    BY <2>2 DEF TypeOK, Training
  <2> QED BY <1>2, <2>1, <2>2, <2>3, <2>4
<1>7. ASSUME NEW t \in Thread, ReadSize(t) \/ EndRead(t) PROVE WindowInv'
  <2>1. /\ UNCHANGED <<dequeVars, model, data, torn, source, clearVars, samples, alone, faults>>
        /\ \/ stage' = [stage EXCEPT ![t] = "due"]
           \/ stage[t] = "read" /\ stage' = [stage EXCEPT ![t] = "fit"]
        /\ size' = size \/ size' = [size EXCEPT ![t] = Size]
        /\ UNCHANGED <<known, history, made, replaced, clearing, clears, cutoff, kept, raced>>
    BY <1>7 DEF ReadSize, EndRead, Goto, dequeVars, clearVars
  <2>2. Size \in 0 .. TrainWindow
    BY DEF Size, HistoryOK, TypeOK
  <2>3. TypeOK'
    BY <1>0, <2>1, <2>2 DEF TypeOK, clearVars, dequeVars
  <2>4. HistoryOK' /\ Same
    BY <2>1 DEF HistoryOK, clearVars, dequeVars, Window
  <2>5. \A u \in Thread : Training(u)' => Fit(data'[u], samples, cutoff)
    BY <2>1 DEF TypeOK, Training
  <2> QED BY <1>2, <2>1, <2>3, <2>4, <2>5
<1>8. ASSUME ClearHistory PROVE WindowInv'
  <2>1. /\ known' = FALSE /\ history' = None
        /\ cutoff' = samples /\ clears' = clears + 1 /\ clearing' = "model"
        /\ UNCHANGED <<made, model, stage, size, data, torn, source, samples, faults>>
        /\ replaced' = FALSE /\ kept' = made
        /\ alone' = {} /\ raced' = FALSE /\ clears < MaxClears
    BY <1>8 DEF ClearHistory, threadVars
  <2>2. TypeOK'
    <3>1. kept' \in 0 .. made' /\ cutoff' \in 0 .. samples' /\ clears' \in 0 .. MaxClears
      BY <1>0, <2>1 DEF TypeOK
    <3> QED BY <2>1, <3>1 DEF TypeOK
  <2>3. HistoryOK'
    BY <2>1 DEF HistoryOK
  <2>4. ASSUME NEW q \in Seq(Nat), Fit(q, samples, cutoff) PROVE Fit(q, samples', cutoff')
    <3>1. q[Len(q)] \in Nat /\ q[Len(q)] <= samples
      BY <2>4 DEF Fit
    <3> QED BY <1>0, <2>1, <2>4, <3>1 DEF Fit, Window
  <2>5. \A u \in Thread : Training(u)' => Fit(data'[u], samples', cutoff')
    BY <2>1, <2>4 DEF Training, TypeOK
  <2>6. model' # None => Fit(model', samples', cutoff')
    BY <2>1, <2>4 DEF TypeOK
  <2> QED BY <2>2, <2>3, <2>5, <2>6
<1>9. ASSUME ClearModel PROVE WindowInv'
  <2>1. /\ model' = None /\ clearing' = "none" /\ raced' \in BOOLEAN
        /\ UNCHANGED <<dequeVars, threadVars, samples, alone, faults, clears, cutoff, kept>>
    BY <1>9 DEF ClearModel
  <2>2. TypeOK'
    BY <1>0, <2>1 DEF TypeOK, threadVars, dequeVars
  <2>3. HistoryOK' /\ Same
    BY <2>1 DEF HistoryOK, dequeVars, Window
  <2>4. \A u \in Thread : Training(u)' => Fit(data'[u], samples, cutoff)
    BY <2>1 DEF Training, threadVars
  <2> QED BY <1>2, <2>1, <2>2, <2>3, <2>4
<1>10. ASSUME UNCHANGED vars PROVE WindowInv'
  BY <1>10 DEF vars, threadVars, clearVars, dequeVars, TypeOK, HistoryOK, Training, Fit, Window
<1> QED
  BY <1>1, <1>3, <1>4, <1>5, <1>6, <1>7, <1>8, <1>9, <1>10
     DEF Next, ThreadStep, Unreadable

(* Types and bounds, for any number of requests and clears.                *)
THEOREM TrainingTyped == Spec => []TypeOK
<1>1. Init => WindowInv
  BY TypeInit DEF Init, WindowInv, HistoryOK, Training
<1>2. WindowInv => TypeOK
  BY DEF WindowInv
<1> QED BY <1>1, <1>2, WindowNext, PTL DEF Spec

(* However requests and clears interleave, what a model was fitted to was  *)
(* once the whole window.                                                  *)
THEOREM ModelsAreWindows == Spec => []ModelIsAWindow
<1>1. Init => WindowInv
  BY TypeInit DEF Init, WindowInv, HistoryOK, Training
<1>2. WindowInv => ModelIsAWindow
  BY DEF WindowInv, ModelIsAWindow, Fit
<1> QED BY <1>1, <1>2, WindowNext, PTL DEF Spec
-----------------------------------------------------------------------------
(* A training that knows samples from before the last clear reads a deque  *)
(* from before it, and once the clear has ended it has been noticed.       *)
StaleInv ==
  /\ \A t \in Thread : Training(t) /\ data[t][1] <= cutoff =>
        /\ source[t] <= kept
        /\ clearing = "none" => raced
  /\ StaleModelNeedsRace

LEMMA StaleNext == TypeOK /\ HistoryOK /\ StaleInv /\ [Next]_vars => StaleInv'
<1> SUFFICES ASSUME TypeOK, HistoryOK, StaleInv, [Next]_vars PROVE StaleInv'
  OBVIOUS
<1> USE TrainingAssumption DEF StaleInv, StaleModelNeedsRace
<1>1. ASSUME NEW t \in Thread, StartRead(t) PROVE StaleInv'
  <2>1. /\ data' = [data EXCEPT ![t] = history]
        /\ stage' = [stage EXCEPT ![t] = "read"]
        /\ source' = [source EXCEPT ![t] = made]
        /\ UNCHANGED <<model, clearing, cutoff, kept, raced>>
    BY <1>1 DEF StartRead, Goto, clearVars
  <2>2. history \in Seq(Nat) /\ history # None /\ history # <<>> /\ history[1] \in Nat
    BY <1>1 DEF StartRead, Size, TypeOK
  <2>3. history[1] > cutoff /\ cutoff \in Nat
    BY <2>2 DEF HistoryOK, TypeOK
  <2>4. data'[t] = history /\ ~(history[1] <= cutoff')
    BY <2>1, <2>2, <2>3 DEF TypeOK
  <2>5. \A u \in Thread \ {t} : /\ data'[u] = data[u] /\ source'[u] = source[u]
                                /\ Training(u)' => Training(u)
    BY <2>1 DEF TypeOK, Training
  <2>6. ASSUME NEW u \in Thread, Training(u)', data'[u][1] <= cutoff'
        PROVE  source'[u] <= kept' /\ (clearing' = "none" => raced')
    <3>1. u # t
      BY <2>4, <2>6
    <3> QED BY <2>1, <2>5, <2>6, <3>1
  <2> QED BY <2>1, <2>6
<1>2. ASSUME NEW t \in Thread, SetModel(t) PROVE StaleInv'
  <2>1. /\ model' = data[t] /\ Training(t)
        /\ stage' = [stage EXCEPT ![t] = "idle"]
        /\ data' = [data EXCEPT ![t] = <<>>]
        /\ source' = [source EXCEPT ![t] = 0]
        /\ UNCHANGED <<clearing, cutoff, kept, raced>>
    BY <1>2 DEF SetModel, Leave, Goto, clearVars, Training
  <2>2. \A u \in Thread : Training(u)' =>
           Training(u) /\ data'[u] = data[u] /\ source'[u] = source[u]
    BY <2>1 DEF TypeOK, Training
  <2> QED BY <2>1, <2>2
<1>3. ASSUME NEW t \in Thread,
             \/ AppendFails(t) \/ NotDue(t) \/ TooShort(t) \/ ReadRaises(t) \/ FitRaises(t)
      PROVE  StaleInv'
  <2>1. /\ UNCHANGED <<model, clearing, cutoff, kept, raced>>
        /\ stage' = [stage EXCEPT ![t] = "idle"]
        /\ data' = [data EXCEPT ![t] = <<>>]
        /\ source' = [source EXCEPT ![t] = 0]
    BY <1>3 DEF AppendFails, NotDue, TooShort, ReadRaises, FitRaises, Leave, Goto, clearVars
  <2>2. \A u \in Thread : Training(u)' =>
           Training(u) /\ data'[u] = data[u] /\ source'[u] = source[u]
    BY <2>1 DEF TypeOK, Training
  <2> QED BY <2>1, <2>2
<1>4. ASSUME NEW t \in Thread,
             \/ Request(t) \/ MakePc(t) \/ LookDeque(t) \/ MakeDeque(t)
             \/ AppendSample(t) \/ ReadSize(t) \/ EndRead(t)
      PROVE  StaleInv'
  <2>1. /\ UNCHANGED <<model, data, source, clearing, cutoff, kept, raced>>
        /\ \/ \E s \in {"makePc", "look", "make", "append", "size", "due"} :
                  stage' = [stage EXCEPT ![t] = s]
           \/ stage[t] = "read" /\ stage' = [stage EXCEPT ![t] = "fit"]
    BY <1>4 DEF Request, MakePc, LookDeque, MakeDeque, AppendSample, ReadSize, EndRead, Goto,
                clearVars
  <2>2. \A u \in Thread : Training(u)' => Training(u)
    BY <2>1 DEF TypeOK, Training
  <2> QED BY <2>1, <2>2
<1>5. ASSUME ClearHistory PROVE StaleInv'
  <2>1. clearing' = "model" /\ kept' = made /\ source' = source
    BY <1>5 DEF ClearHistory, threadVars
  <2>2. \A u \in Thread : source'[u] <= kept'
    BY <2>1 DEF TypeOK
  <2> QED BY <2>1, <2>2
<1>6. ASSUME ClearModel PROVE StaleInv'
  <2>1. /\ model' = None /\ clearing = "model"
        /\ raced' = \E t \in Thread : Training(t) /\ source[t] <= kept
        /\ UNCHANGED <<stage, data, source, cutoff, kept>>
    BY <1>6 DEF ClearModel, threadVars
  <2>2. \A u \in Thread : Training(u)' => Training(u)
    BY <2>1 DEF Training
  <2> QED BY <2>1, <2>2
<1>7. ASSUME UNCHANGED vars PROVE StaleInv'
  <2>1. UNCHANGED <<model, stage, data, source, clearing, cutoff, kept, raced>>
    BY <1>7 DEF vars, threadVars, clearVars
  <2>2. \A u \in Thread : Training(u)' => Training(u)
    BY <2>1 DEF Training
  <2> QED BY <2>1, <2>2
<1> QED
  BY <1>1, <1>2, <1>3, <1>4, <1>5, <1>6, <1>7 DEF Next, ThreadStep, Unreadable

(* A model that knows samples from before the last clear was trained on    *)
(* them while that clear ran, for any number of requests and clears.       *)
THEOREM StaleModelsRaced == Spec => []StaleModelNeedsRace
<1>1. Init => WindowInv
  BY TypeInit DEF Init, WindowInv, HistoryOK, Training
<1>2. Init => StaleInv
  BY DEF Init, StaleInv, StaleModelNeedsRace, Training
<1>3. WindowInv /\ StaleInv /\ [Next]_vars => StaleInv'
  BY StaleNext DEF WindowInv
<1>4. StaleInv => StaleModelNeedsRace
  BY DEF StaleInv
<1> QED BY <1>1, <1>2, <1>3, <1>4, WindowNext, PTL DEF Spec
-----------------------------------------------------------------------------
(* What a request that runs alone relies on: a PC that is not known has no *)
(* deque; unless a deque in use was replaced, the deque holds the samples  *)
(* since the last clear, as many of them as fit; only a deque that is      *)
(* being read is torn; and while a request runs alone nothing it has read  *)
(* is out of date.                                                         *)
UpToDate(t) ==
  /\ clearing = "none"
  /\ \A u \in Thread : u # t => ~Busy(u)
  /\ stage[t] = "due" => size[t] = Size
  /\ Training(t) => ~torn[t] /\ data[t][Len(data[t])] = samples

AloneInv ==
  /\ ~known => history = None
  /\ ~replaced => Size = IF samples - cutoff <= TrainWindow THEN samples - cutoff
                                                             ELSE TrainWindow
  /\ \A t \in Thread : torn[t] => stage[t] = "read"
  /\ \A t \in alone : Busy(t) => UpToDate(t)

(* A deque that has room grows by one, a full one stays as long.           *)
LEMMA PushLength ==
  ASSUME NEW q \in Seq(Nat), NEW s \in Nat, Len(q) <= TrainWindow
  PROVE  Len(Push(q, s)) = IF Len(q) < TrainWindow THEN Len(q) + 1 ELSE TrainWindow
<1>1. TrainWindow \in Nat \ {0} /\ Len(q) \in Nat
  BY TrainingAssumption
<1>2. CASE Len(q) < TrainWindow
  BY <1>2 DEF Push
<1>3. CASE Len(q) = TrainWindow
  <2>1. q # <<>>
    BY <1>1, <1>3
  <2>2. Tail(q) \in Seq(Nat) /\ Len(Tail(q)) = Len(q) - 1
    BY <2>1
  <2>3. Push(q, s) = Append(Tail(q), s)
    BY <1>1, <1>3 DEF Push
  <2>4. Len(Append(Tail(q), s)) = Len(Tail(q)) + 1
    BY <2>2
  <2> QED BY <1>1, <1>3, <2>2, <2>3, <2>4
<1> QED BY <1>1, <1>2, <1>3

LEMMA AloneNext == TypeOK /\ HistoryOK /\ AloneInv /\ [Next]_vars => AloneInv'
<1> SUFFICES ASSUME TypeOK, HistoryOK, AloneInv, [Next]_vars PROVE AloneInv'
  OBVIOUS
<1> USE TrainingAssumption
<1> DEFINE Full(n) == IF n <= TrainWindow THEN n ELSE TrainWindow
           KnownOK == ~known => history = None
           SizeOK == ~replaced => Size = Full(samples - cutoff)
           TornOK == \A t \in Thread : torn[t] => stage[t] = "read"
           BusyOK == \A t \in alone : Busy(t) => UpToDate(t)
<1>0. KnownOK /\ SizeOK /\ TornOK /\ BusyOK /\ alone \subseteq Thread
  BY DEF AloneInv, TypeOK
<1>1. ASSUME NEW t \in Thread, Request(t) PROVE AloneInv'
  <2>1. /\ stage[t] = "idle"
        /\ \E s \in {"makePc", "look"} : stage' = [stage EXCEPT ![t] = s]
        /\ alone' = IF clearing = "none" /\ \A u \in Thread : ~Busy(u) THEN {t} ELSE {}
        /\ UNCHANGED <<known, history, replaced, size, data, torn, clearing, samples, cutoff>>
    BY <1>1 DEF Request, Goto, dequeVars, clearVars
  <2>2. KnownOK' /\ SizeOK' /\ TornOK'
    <3>1. \A u \in Thread : torn'[u] => stage'[u] = "read"
      BY <1>0, <2>1 DEF TypeOK
    <3> QED BY <1>0, <2>1, <3>1 DEF Size
  <2>3. ASSUME NEW u \in alone' PROVE UpToDate(u)'
    <3>1. u = t /\ clearing = "none" /\ \A v \in Thread : ~Busy(v)
      BY <2>1, <2>3
    <3>2. /\ \A v \in Thread : v # t => ~Busy(v)'
          /\ stage'[t] # "due" /\ ~Training(t)'
      BY <2>1, <3>1 DEF TypeOK, Busy, Training
    <3> QED BY <2>1, <3>1, <3>2 DEF UpToDate
  <2> QED BY <2>2, <2>3 DEF AloneInv
<1> DEFINE Others(t) == \A u \in Thread : u # t => stage'[u] = stage[u]
(* A step of a busy request concerns itself alone.                         *)
<1>2. ASSUME NEW t \in Thread, Busy(t), Others(t), alone' \subseteq alone,
             clearing' = clearing,
             t \in alone' /\ Busy(t) /\ Busy(t)' /\ UpToDate(t) =>
                /\ stage'[t] = "due" => size'[t] = Size'
                /\ Training(t)' => ~torn'[t] /\ data'[t][Len(data'[t])] = samples'
      PROVE  BusyOK'
  <2> SUFFICES ASSUME NEW u \in alone', Busy(u)' PROVE UpToDate(u)'
    OBVIOUS
  <2>1. u \in alone /\ u \in Thread
    BY <1>0, <1>2
  <2>2. u # t => Busy(u)
    BY <1>2, <2>1 DEF Busy
  <2>3. u = t
    BY <1>0, <1>2, <2>1, <2>2 DEF UpToDate
  <2>4. UpToDate(t) /\ t \in alone'
    BY <1>0, <1>2, <2>1, <2>3
  <2>5. \A v \in Thread : v # t => ~Busy(v)'
    BY <1>2, <2>4 DEF UpToDate, Busy
  <2>6. clearing' = "none"
    BY <1>2, <2>4 DEF UpToDate
  <2>7. /\ stage'[t] = "due" => size'[t] = Size'
        /\ Training(t)' => ~torn'[t] /\ data'[t][Len(data'[t])] = samples'
    BY <1>2, <2>3, <2>4
  <2> QED BY <2>3, <2>5, <2>6, <2>7 DEF UpToDate
<1>3. ASSUME NEW t \in Thread, MakeDeque(t) PROVE AloneInv'
  <2>1. /\ stage[t] = "make" /\ stage' = [stage EXCEPT ![t] = "append"]
        /\ history' = <<>> /\ replaced' = (replaced \/ history # None)
        /\ known /\ UNCHANGED <<known, torn, alone, clearing, samples, cutoff>>
    BY <1>3 DEF MakeDeque, Goto, clearVars
  <2>2. SizeOK'
    <3>0. <<>> \in Seq(Nat) /\ Len(<<>>) = 0
      OBVIOUS
    <3>1. <<>> # None
      BY <3>0
    <3>2. ~replaced' => ~replaced /\ Size = 0 /\ Size' = 0
      BY <2>1, <3>0, <3>1 DEF Size
    <3> QED BY <1>0, <2>1, <3>2
  <2>3. \A u \in Thread : torn'[u] => stage'[u] = "read"
    BY <1>0, <2>1 DEF TypeOK
  <2>4. Busy(t) /\ Others(t) /\ stage'[t] # "due" /\ ~Training(t)'
    BY <2>1 DEF TypeOK, Busy, Training
  <2>5. BusyOK'
    BY <1>2, <2>1, <2>4
  <2> QED BY <2>1, <2>2, <2>3, <2>5 DEF AloneInv
<1>31. ASSUME NEW t \in Thread, MakePc(t) PROVE AloneInv'
  <2>1. /\ stage[t] = "makePc" /\ stage' = [stage EXCEPT ![t] = "look"]
        /\ known' = TRUE /\ history' = None /\ replaced' = (replaced \/ history # None)
        /\ UNCHANGED <<torn, alone, clearing, samples, cutoff>>
    BY <1>31 DEF MakePc, Goto, clearVars
  <2>2. SizeOK'
    <3>1. ~replaced' => ~replaced /\ Size = 0 /\ Size' = 0
      BY <2>1 DEF Size
    <3> QED BY <1>0, <2>1, <3>1
  <2>3. \A u \in Thread : torn'[u] => stage'[u] = "read"
    BY <1>0, <2>1 DEF TypeOK
  <2>4. Busy(t) /\ Others(t) /\ stage'[t] # "due" /\ ~Training(t)'
    BY <2>1 DEF TypeOK, Busy, Training
  <2>5. BusyOK'
    BY <1>2, <2>1, <2>4
  <2> QED BY <2>1, <2>2, <2>3, <2>5 DEF AloneInv
<1>32. ASSUME NEW t \in Thread, LookDeque(t) PROVE AloneInv'
  <2>1. /\ stage[t] = "look"
        /\ \E s \in {"make", "append"} : stage' = [stage EXCEPT ![t] = s]
        /\ UNCHANGED <<known, history, replaced, torn, alone, clearing, samples, cutoff>>
    BY <1>32 DEF LookDeque, Goto, dequeVars, clearVars
  <2>2. KnownOK' /\ SizeOK'
    BY <1>0, <2>1 DEF Size
  <2>3. \A u \in Thread : torn'[u] => stage'[u] = "read"
    BY <1>0, <2>1 DEF TypeOK
  <2>4. Busy(t) /\ Others(t) /\ stage'[t] # "due" /\ ~Training(t)'
    BY <2>1 DEF TypeOK, Busy, Training
  <2>5. BusyOK'
    BY <1>2, <2>1, <2>4
  <2> QED BY <2>2, <2>3, <2>5 DEF AloneInv
<1>4. ASSUME NEW t \in Thread, AppendSample(t) PROVE AloneInv'
  <2>1. /\ stage[t] = "append" /\ stage' = [stage EXCEPT ![t] = "size"]
        /\ history # None /\ samples' = samples + 1
        /\ history' = Push(history, samples + 1)
        /\ torn' = [u \in Thread |-> torn[u] \/ (stage[u] = "read" /\ source[u] = made)]
        /\ UNCHANGED <<known, replaced, alone, clearing, cutoff>>
    BY <1>4 DEF AppendSample, Goto, clearVars
  <2>2. SizeOK'
    <3>1. history \in Seq(Nat) /\ samples \in Nat /\ cutoff \in 0 .. samples
          /\ TrainWindow \in Nat \ {0} /\ Len(history) <= TrainWindow /\ Len(history) \in Nat
      BY <2>1 DEF TypeOK, HistoryOK
    <3>2. Len(history') = IF Len(history) < TrainWindow THEN Len(history) + 1 ELSE TrainWindow
      BY <2>1, <3>1, PushLength
    <3>3. history' # None
      <4>1. samples + 1 \in Nat /\ Window(history)
            /\ (history # <<>> => history[Len(history)] = samples)
        BY <2>1, <3>1 DEF HistoryOK
      <4>2. history' \in Seq(Nat)
        BY <2>1, <3>1, <4>1, PushWindow
      <4> QED BY <4>2
    <3>4. Size = Len(history) /\ Size' = Len(history')
      BY <2>1, <3>3 DEF Size
    <3> HIDE DEF Full
    <3>5. ~replaced => Len(history) = Full(samples - cutoff)
      BY <1>0, <3>4
    <3>6. ~replaced => Len(history') = Full(samples + 1 - cutoff)
      BY <3>1, <3>2, <3>5 DEF Full
    <3>7. samples' - cutoff' = samples + 1 - cutoff
      <4>1. samples' = samples + 1 /\ cutoff' = cutoff
        BY <2>1
      <4> QED BY <3>1, <4>1
    <3>8. ~replaced' => ~replaced
      BY <2>1
    <3> QED BY <3>4, <3>6, <3>7, <3>8 DEF Full
  <2>3. \A u \in Thread : torn'[u] => stage'[u] = "read"
    BY <1>0, <2>1 DEF TypeOK
  <2>4. Busy(t) /\ Others(t) /\ stage'[t] # "due" /\ ~Training(t)'
    BY <2>1 DEF TypeOK, Busy, Training
  <2>5. BusyOK'
    BY <1>2, <2>1, <2>4
  <2>6. KnownOK'
    BY <1>0, <2>1
  <2> QED BY <2>2, <2>3, <2>5, <2>6 DEF AloneInv
<1>5. ASSUME NEW t \in Thread,
             \/ AppendFails(t) \/ NotDue(t) \/ TooShort(t) \/ ReadRaises(t)
             \/ SetModel(t) \/ FitRaises(t)
      PROVE  AloneInv'
  <2>1. /\ Busy(t) /\ stage' = [stage EXCEPT ![t] = "idle"]
        /\ torn' = [torn EXCEPT ![t] = FALSE]
        /\ alone' \subseteq alone
        /\ UNCHANGED <<known, history, replaced, clearing, samples, cutoff>>
    BY <1>5 DEF AppendFails, NotDue, TooShort, ReadRaises, SetModel, FitRaises, Leave, Goto,
                Busy, dequeVars, clearVars
  <2>2. KnownOK' /\ SizeOK'
    BY <1>0, <2>1 DEF Size
  <2>3. \A u \in Thread : torn'[u] => stage'[u] = "read"
    BY <1>0, <2>1 DEF TypeOK
  <2>4. Others(t) /\ ~Busy(t)'
    BY <2>1 DEF TypeOK, Busy
  <2>5. BusyOK'
    BY <1>2, <2>1, <2>4
  <2> QED BY <2>2, <2>3, <2>5 DEF AloneInv
<1>6. ASSUME NEW t \in Thread, ReadSize(t) PROVE AloneInv'
  <2>1. /\ stage[t] = "size" /\ stage' = [stage EXCEPT ![t] = "due"]
        /\ size' = [size EXCEPT ![t] = Size]
        /\ UNCHANGED <<known, history, replaced, torn, alone, clearing, samples, cutoff>>
    BY <1>6 DEF ReadSize, Goto, dequeVars, clearVars
  <2>2. KnownOK' /\ SizeOK'
    BY <1>0, <2>1 DEF Size
  <2>3. \A u \in Thread : torn'[u] => stage'[u] = "read"
    BY <1>0, <2>1 DEF TypeOK
  <2>4. Busy(t) /\ Others(t) /\ ~Training(t)' /\ size'[t] = Size'
    BY <2>1 DEF TypeOK, Busy, Training, Size
  <2>5. BusyOK'
    BY <1>2, <2>1, <2>4
  <2> QED BY <2>2, <2>3, <2>5 DEF AloneInv
<1>7. ASSUME NEW t \in Thread, StartRead(t) PROVE AloneInv'
  <2>1. /\ stage[t] = "due" /\ stage' = [stage EXCEPT ![t] = "read"]
        /\ Size >= MinTrainSize
        /\ data' = [data EXCEPT ![t] = history]
        /\ UNCHANGED <<known, history, replaced, torn, alone, clearing, samples, cutoff>>
    BY <1>7 DEF StartRead, Goto, dequeVars, clearVars
  <2>2. KnownOK' /\ SizeOK'
    BY <1>0, <2>1 DEF Size
  <2>3. \A u \in Thread : torn'[u] => stage'[u] = "read"
    BY <1>0, <2>1 DEF TypeOK
  <2>4. Busy(t) /\ Others(t) /\ stage'[t] # "due" /\ ~torn'[t] /\ data'[t] = history
    BY <1>0, <2>1 DEF TypeOK, Busy
  <2>5. history[Len(history)] = samples
    <3>1. history # None /\ history # <<>>
      BY <2>1 DEF Size
    <3> QED BY <3>1 DEF HistoryOK
  <2>6. BusyOK'
    BY <1>2, <2>1, <2>4, <2>5
  <2> QED BY <2>2, <2>3, <2>6 DEF AloneInv
<1>8. ASSUME NEW t \in Thread, EndRead(t) PROVE AloneInv'
  <2>1. /\ stage[t] = "read" /\ stage' = [stage EXCEPT ![t] = "fit"] /\ ~torn[t]
        /\ UNCHANGED <<known, history, replaced, data, torn, alone, clearing, samples, cutoff>>
    BY <1>8 DEF EndRead, Goto, dequeVars, clearVars
  <2>2. KnownOK' /\ SizeOK'
    BY <1>0, <2>1 DEF Size
  <2>3. \A u \in Thread : torn'[u] => stage'[u] = "read"
    BY <1>0, <2>1 DEF TypeOK
  <2>4. Busy(t) /\ Training(t) /\ Others(t) /\ stage'[t] # "due"
    BY <2>1 DEF TypeOK, Busy, Training
  <2>5. UpToDate(t) => ~torn'[t] /\ data'[t][Len(data'[t])] = samples'
    BY <2>1, <2>4 DEF UpToDate
  <2>6. BusyOK'
    BY <1>2, <2>1, <2>4, <2>5
  <2> QED BY <2>2, <2>3, <2>6 DEF AloneInv
<1>9. ASSUME ClearHistory PROVE AloneInv'
  <2>1. /\ history' = None /\ replaced' = FALSE /\ cutoff' = samples /\ alone' = {}
        /\ UNCHANGED <<stage, torn, samples>>
    BY <1>9 DEF ClearHistory, threadVars
  <2>2. SizeOK'
    <3>1. Size' = 0 /\ samples' - cutoff' = 0
      BY <2>1 DEF Size, TypeOK
    <3> QED BY <3>1
  <2> QED BY <1>0, <2>1, <2>2 DEF AloneInv
<1>10. ASSUME ClearModel PROVE AloneInv'
  <2>1. /\ clearing = "model"
        /\ UNCHANGED <<known, history, replaced, stage, torn, alone, samples, cutoff>>
    BY <1>10 DEF ClearModel, threadVars, dequeVars
  <2>2. \A t \in alone : ~Busy(t)
    BY <1>0, <2>1 DEF UpToDate
  <2>3. \A t \in alone' : ~Busy(t)'
    BY <2>1, <2>2 DEF Busy
  <2> QED BY <1>0, <2>1, <2>3 DEF AloneInv, Size
<1>11. ASSUME UNCHANGED vars PROVE AloneInv'
  BY <1>11 DEF vars, dequeVars, threadVars, clearVars, AloneInv, UpToDate, Size, Busy, Training
<1> QED
  BY <1>1, <1>3, <1>31, <1>32, <1>4, <1>5, <1>6, <1>7, <1>8, <1>9, <1>10, <1>11
     DEF Next, ThreadStep, Unreadable

(* A request that runs alone leaves a model that is less than              *)
(* RETRAIN_INTERVAL samples behind, whatever overlapping requests, clears  *)
(* and failed trainings came before it, for any numbers of them.           *)
THEOREM AloneRequestsCatchUp == Spec => AloneCatchesUp
<1> DEFINE Step == \A t \in alone \cap alone' :
          (stage[t] # "idle" /\ stage'[t] = "idle" /\ ~raced /\ ~replaced
             /\ samples - cutoff \in MinTrainSize .. TrainWindow)
                => Lag' < RetrainInterval
<1>1. Init => WindowInv
  BY TypeInit DEF Init, WindowInv, HistoryOK, Training
<1>2. Init => StaleInv
  BY DEF Init, StaleInv, StaleModelNeedsRace, Training
<1>3. Init => AloneInv
  <2> SUFFICES ASSUME Init PROVE AloneInv
    OBVIOUS
  <2>1. /\ history = None /\ Size = 0 /\ samples - cutoff = 0 /\ alone = {}
        /\ \A t \in Thread : ~torn[t]
    BY DEF Init, Size
  <2> QED BY <2>1, TrainingAssumption DEF AloneInv
<1>4. WindowInv /\ StaleInv /\ [Next]_vars => StaleInv'
  BY StaleNext DEF WindowInv
<1>5. WindowInv /\ AloneInv /\ [Next]_vars => AloneInv'
  BY AloneNext DEF WindowInv
<1>6. WindowInv /\ StaleInv /\ AloneInv /\ [Next]_vars => [Step]_vars
  <2> SUFFICES ASSUME WindowInv, StaleInv, AloneInv, Next,
                      NEW t \in alone \cap alone',
                      stage[t] # "idle", stage'[t] = "idle", ~raced, ~replaced,
                      samples - cutoff \in MinTrainSize .. TrainWindow
               PROVE  Lag' < RetrainInterval
    BY DEF AloneCatchesUp
  <2> USE TrainingAssumption
  <2>0. /\ TypeOK /\ t \in Thread /\ UpToDate(t) /\ samples \in Nat /\ cutoff \in 0 .. samples
        /\ MinTrainSize \in Nat \ {0} /\ RetrainInterval \in Nat \ {0}
    BY DEF WindowInv, TypeOK, AloneInv, Busy
  <2>00. Size = samples - cutoff
    BY <2>0 DEF AloneInv
  <2>1. ASSUME NEW u \in Thread, ThreadStep(u) PROVE u = t
    BY <2>0, <2>1 DEF ThreadStep, Unreadable, Request, MakePc, LookDeque, MakeDeque, AppendSample, AppendFails,
          ReadSize, NotDue, TooShort, StartRead, EndRead, ReadRaises, SetModel, FitRaises,
          Leave, Goto, UpToDate, Busy, TypeOK, vars, threadVars
  <2>2. ThreadStep(t)
    <3>1. ~ClearHistory /\ ~ClearModel
      BY DEF ClearHistory, ClearModel, threadVars
    <3> QED BY <2>1, <3>1 DEF Next
  <2>3. \/ AppendFails(t) \/ NotDue(t) \/ TooShort(t) \/ ReadRaises(t) \/ SetModel(t) \/ FitRaises(t)
    BY <2>0, <2>2 DEF ThreadStep, Unreadable, Request, MakePc, LookDeque, MakeDeque, AppendSample, ReadSize,
          StartRead, EndRead, Goto, TypeOK, vars, threadVars
  <2>4. ~AppendFails(t) /\ ~TooShort(t)
    <3>1. Size >= MinTrainSize /\ Size # 0 /\ Size \in Nat
      BY <2>0, <2>00
    <3>2. history # None /\ known
      BY <3>1 DEF Size, AloneInv
    <3> QED BY <2>0, <3>1, <3>2 DEF AppendFails, TooShort
  <2>5. ~ReadRaises(t)
    BY <2>0 DEF ReadRaises, UpToDate, Training
  <2>6. ~FitRaises(t)
    BY DEF FitRaises
  <2>7. CASE SetModel(t)
    <3>1. /\ model' = data[t] /\ Training(t) /\ samples' = samples
          /\ data[t] \in Seq(Nat)
      BY <2>0, <2>7 DEF SetModel, Training, TypeOK
    <3>2. data[t][Len(data[t])] = samples /\ data[t] # None
      BY <2>0, <3>1 DEF UpToDate
    <3>3. Lag' = 0
      BY <2>0, <3>1, <3>2 DEF Lag
    <3> QED BY <2>0, <3>3
  <2>8. CASE NotDue(t)
    <3>1. size[t] = samples - cutoff /\ ~Due(t)
          /\ UNCHANGED <<model, samples, cutoff>>
      BY <2>0, <2>00, <2>8 DEF NotDue, UpToDate, clearVars
    <3>2. ~(samples - cutoff >= SampleCount + RetrainInterval)
      BY <2>0, <3>1 DEF Due
    <3>3. CASE model = None
      <4>1. Lag' = samples - cutoff /\ SampleCount = 0
        BY <3>1, <3>3 DEF Lag, SampleCount
      <4> QED BY <2>0, <3>2, <4>1
    <3>4. CASE model # None
      <4>1. /\ model \in Seq(Nat) /\ Len(model) \in Nat /\ Len(model) >= 1
            /\ SampleCount = Len(model) /\ Window(model)
        BY <2>0, <3>4 DEF WindowInv, Fit, TypeOK, SampleCount
      <4>2. 1 \in DOMAIN model /\ Len(model) \in DOMAIN model /\ model[1] \in Nat
        BY <4>1
      <4>3. model[Len(model)] = model[1] + (Len(model) - 1)
        BY <4>1, <4>2 DEF Window
      <4>4. ~(model[1] <= cutoff)
        BY <2>0, <3>4 DEF StaleInv, StaleModelNeedsRace, UpToDate
      <4>5. Lag' = samples - model[Len(model)]
        BY <3>1, <3>4 DEF Lag
      <4> QED BY <2>0, <3>2, <4>1, <4>2, <4>3, <4>4, <4>5
    <3> QED BY <3>3, <3>4
  <2> QED BY <2>3, <2>4, <2>5, <2>6, <2>7, <2>8
<1> HIDE DEF Step
<1>7. Spec => [][Step]_vars
  BY <1>1, <1>2, <1>3, <1>4, <1>5, <1>6, WindowNext, PTL DEF Spec
<1> QED BY <1>7 DEF AloneCatchesUp, Step
-----------------------------------------------------------------------------
(* No train_size lets a training become due: the deque is no longer than   *)
(* TRAIN_WINDOW, and the model is within RETRAIN_INTERVAL of it.           *)
LEMMA NothingDue ==
  ASSUME TypeOK, model # None => Len(model) \in Nat,
         SampleCount + RetrainInterval > TrainWindow, NEW t \in Thread
  PROVE  ~Due(t)
<1>1. size[t] \in 0 .. TrainWindow
  BY DEF TypeOK
<1>2. SampleCount \in Nat /\ RetrainInterval \in Nat /\ TrainWindow \in Nat
  BY TrainingAssumption DEF SampleCount
<1> DEFINE s == size[t]
<1> HIDE DEF s
<1>3. s \in 0 .. TrainWindow
  BY <1>1 DEF s
<1>4. ~(s >= SampleCount + RetrainInterval)
  BY <1>2, <1>3
<1> QED BY <1>4 DEF Due, s

LEMMA SettledNext ==
  TypeOK /\ Settled /\ [Next]_vars => (Settled' /\ model' = model) \/ model' = None
<1> SUFFICES ASSUME TypeOK, Settled, [Next]_vars
             PROVE  (Settled' /\ model' = model) \/ model' = None
  OBVIOUS
<1>1. stage \in [Thread -> {"idle", "makePc", "look", "make", "append", "size", "due", "read", "fit"}]
  BY DEF TypeOK
<1>2. model # None => Len(model) \in Nat
  BY DEF TypeOK
<1>3. \A t \in Thread : ~Due(t)
  BY <1>2, NothingDue DEF Settled
<1>4. \A t \in Thread : stage[t] \notin {"read", "fit"}
  BY DEF Settled, Training
<1> DEFINE Calm == \A t \in Thread : stage'[t] \notin {"read", "fit"}
<1>5. SUFFICES ASSUME model' # None PROVE model' = model /\ Calm
  BY DEF Settled, Training, SampleCount
<1>6. ASSUME NEW t \in Thread, ThreadStep(t) PROVE model' = model /\ Calm
  <2>1. ~StartRead(t) /\ ~EndRead(t) /\ ~ReadRaises(t) /\ ~SetModel(t) /\ ~FitRaises(t)
    BY <1>3, <1>4 DEF StartRead, EndRead, ReadRaises, SetModel, FitRaises
  <2>2. model' = model
    BY <1>6, <2>1
       DEF ThreadStep, Unreadable, Request, MakePc, LookDeque, MakeDeque, AppendSample, AppendFails, ReadSize,
           NotDue, TooShort, vars
  <2>3. \E s \in {"idle", "makePc", "look", "make", "append", "size", "due"} :
            stage' = [stage EXCEPT ![t] = s] \/ stage' = stage
    BY <1>6, <2>1
       DEF ThreadStep, Unreadable, Request, MakePc, LookDeque, MakeDeque, AppendSample, AppendFails, ReadSize,
           NotDue, TooShort, vars, threadVars, Goto, Leave
  <2>4. Calm
    BY <1>1, <1>4, <2>3
  <2> QED BY <2>2, <2>4
<1>7. CASE ClearHistory
  BY <1>4, <1>7 DEF ClearHistory, threadVars
<1>8. CASE ClearModel
  BY <1>5, <1>8 DEF ClearModel
<1>9. CASE UNCHANGED vars
  BY <1>4, <1>9 DEF vars, threadVars
<1> QED BY <1>6, <1>7, <1>8, <1>9 DEF Next

(* For any number of concurrent requests and any sizes: once a model is    *)
(* within RETRAIN_INTERVAL samples of the full window and no training is   *)
(* under way, it is never trained again; only a clear ends this.           *)
THEOREM SettledModelsStay == Spec => SettledStays
<1> QED BY TrainingTyped, SettledNext, PTL DEF Spec, SettledStays
=============================================================================
