------------------------------ MODULE MlTraining ------------------------------
(***************************************************************************)
(* The training of the ML server's models, for one PC and timetable slot:  *)
(* storage/pc_history_store.py keeps the newest TRAIN_WINDOW samples,      *)
(* scheduler/retraining_scheduler.py decides in each /analyze request      *)
(* whether a training is due, detector/anomaly_predictor.py trains, and    *)
(* api/clear_router.py forgets.  Requests run in threads without a lock.   *)
(***************************************************************************)
EXTENDS Naturals, Sequences

CONSTANTS
    Thread,          (* requests that run at the same time                   *)
    None,            (* no value                                             *)
    TrainWindow,     (* config.TRAIN_WINDOW                                  *)
    MinTrainSize,    (* config.MIN_TRAIN_SIZE                                *)
    RetrainInterval, (* config.RETRAIN_INTERVAL                              *)
    MaxSamples,      (* bound: samples of one behaviour                      *)
    MaxClears,       (* bound: DELETE /history                               *)
    MaxFaults        (* bound: trainings that raise                          *)

ASSUME TrainingAssumption ==
    /\ TrainWindow \in Nat \ {0}
    /\ MinTrainSize \in 1 .. TrainWindow
    /\ RetrainInterval \in Nat \ {0}
    /\ MaxSamples \in Nat
    /\ MaxClears \in Nat
    /\ MaxFaults \in Nat
    /\ None \notin Seq(Nat)

VARIABLES
    known,    (* pc is in pc_train_history                                   *)
    history,  (* pc_train_history[pc][slot], samples by number, or None      *)
    model,    (* the samples pc_models[pc][slot] was fitted to, or None      *)
    stage,    (* where each request is                                       *)
    size,     (* maybe_retrain: train_size                                   *)
    data,     (* train_model: the samples read                               *)
    torn,     (* train_model: its deque was appended to while it was read    *)
    source,   (* train_model: the number of the deque it reads               *)
    clearing, (* what DELETE /history forgets next                           *)
    samples,  (* history: samples so far; the next one's number less one     *)
    made,     (* deques made: the number of the newest one                     *)
    kept,     (* history: deques made before the last clear                  *)
    replaced, (* history: since then, a deque in use was replaced            *)
    alone,    (* history: requests that no other request or clear overlapped *)
    faults,   (* history: trainings that raised                              *)
    clears,   (* history: histories forgotten                                *)
    cutoff,   (* history: the last sample before the last clear              *)
    raced     (* history: a training was under way when the clear ended      *)

threadVars == <<stage, size, data, torn, source>>
dequeVars == <<known, history, made, replaced>>
clearVars == <<clearing, clears, cutoff, kept, raced>>
vars == <<dequeVars, model, threadVars, clearVars, samples, alone, faults>>
-----------------------------------------------------------------------------
Size == IF history = None THEN 0 ELSE Len(history)
SampleCount == IF model = None THEN 0 ELSE Len(model)

Goto(t, s) == stage' = [stage EXCEPT ![t] = s]
Busy(t) == stage[t] # "idle"
Training(t) == stage[t] \in {"read", "fit"}

(* A faulty deque: without maxlen.                                         *)
PushUnbounded(q, s) == Append(q, s)

(* deque.append with maxlen.                                               *)
Push(q, s) ==
    IF Len(q) < TrainWindow THEN Append(q, s) ELSE Append(Tail(q), s)

Leave(t) ==
    /\ Goto(t, "idle")
    /\ size' = [size EXCEPT ![t] = 0]
    /\ data' = [data EXCEPT ![t] = <<>>]
    /\ torn' = [torn EXCEPT ![t] = FALSE]
    /\ source' = [source EXCEPT ![t] = 0]
-----------------------------------------------------------------------------
(* A time stamp that is not in ISO format: status 500 before anything.     *)
Unreadable(t) ==
    /\ stage[t] = "idle"
    /\ UNCHANGED vars

(* update_train_history: is the PC there?                                  *)
Request(t) ==
    /\ stage[t] = "idle"
    /\ samples < MaxSamples
    /\ Goto(t, IF known THEN "look" ELSE "makePc")
    /\ alone' = IF clearing = "none" /\ \A u \in Thread : ~Busy(u)
                THEN {t} ELSE {}
    /\ UNCHANGED <<dequeVars, model, size, data, torn, source, clearVars, samples, faults>>

(* It was not: an empty dictionary is put there, whatever is there by now. *)
MakePc(t) ==
    /\ stage[t] = "makePc"
    /\ known' = TRUE
    /\ history' = None
    /\ replaced' = (replaced \/ history # None)
    /\ Goto(t, "look")
    /\ UNCHANGED <<made, model, size, data, torn, source, clearVars, samples, alone, faults>>

(* Is its deque there?                                                     *)
LookDeque(t) ==
    /\ stage[t] = "look"
    /\ known
    /\ Goto(t, IF history = None THEN "make" ELSE "append")
    /\ UNCHANGED <<dequeVars, model, size, data, torn, source, clearVars, samples, alone, faults>>

(* It was not: one is put there, whatever is there by now.                 *)
MakeDeque(t) ==
    /\ stage[t] = "make"
    /\ known
    /\ history' = <<>>
    /\ made' = made + 1
    /\ replaced' = (replaced \/ history # None)
    /\ Goto(t, "append")
    /\ UNCHANGED <<known, model, size, data, torn, source, clearVars, samples, alone, faults>>

(* The sample is appended to the deque that is there.                      *)
AppendSample(t) ==
    /\ stage[t] = "append"
    /\ history # None
    /\ samples' = samples + 1
    /\ history' = Push(history, samples + 1)
    /\ torn' = [u \in Thread |-> torn[u] \/ (stage[u] = "read" /\ source[u] = made)]
    /\ Goto(t, "size")
    /\ UNCHANGED <<known, made, replaced, model, size, data, source, clearVars, alone, faults>>

(* A clear, or another first request of the PC, in between: KeyError, the  *)
(* request ends with status 500.                                           *)
AppendFails(t) ==
    /\ \/ stage[t] \in {"look", "make"} /\ ~known
       \/ stage[t] = "append" /\ history = None
    /\ Leave(t)
    /\ UNCHANGED <<dequeVars, model, clearVars, samples, alone, faults>>

(* maybe_retrain.                                                          *)
ReadSize(t) ==
    /\ stage[t] = "size"
    /\ size' = [size EXCEPT ![t] = Size]
    /\ Goto(t, "due")
    /\ UNCHANGED <<dequeVars, model, data, torn, source, clearVars, samples, alone, faults>>

(* A faulty schedule, by the remainder: a failed training is not repeated. *)
DueByRemainder(t) == size[t] >= MinTrainSize /\ size[t] % RetrainInterval = 0

Due(t) == size[t] >= MinTrainSize /\ size[t] >= SampleCount + RetrainInterval

NotDue(t) ==
    /\ stage[t] = "due"
    /\ ~Due(t)
    /\ Leave(t)
    /\ UNCHANGED <<dequeVars, model, clearVars, samples, alone, faults>>

(* train_model looks the deque up again, and gives up when it is short ... *)
TooShort(t) ==
    /\ stage[t] = "due"
    /\ Due(t)
    /\ Size < MinTrainSize
    /\ Leave(t)
    /\ UNCHANGED <<dequeVars, model, clearVars, samples, alone, faults>>

(* ... or starts to iterate over it.                                       *)
StartRead(t) ==
    /\ stage[t] = "due"
    /\ Due(t)
    /\ Size >= MinTrainSize
    /\ data' = [data EXCEPT ![t] = history]
    /\ source' = [source EXCEPT ![t] = made]
    /\ Goto(t, "read")
    /\ UNCHANGED <<dequeVars, model, size, torn, clearVars, samples, alone, faults>>

(* A faulty read: what is appended meanwhile is read on.                   *)
EndReadTorn(t) ==
    /\ stage[t] = "read"
    /\ data' = [data EXCEPT ![t] = IF torn[t] THEN Append(@, samples) ELSE @]
    /\ torn' = [torn EXCEPT ![t] = FALSE]
    /\ Goto(t, "fit")
    /\ UNCHANGED <<dequeVars, model, size, source, clearVars, samples, alone, faults>>

EndRead(t) ==
    /\ stage[t] = "read"
    /\ ~torn[t]
    /\ Goto(t, "fit")
    /\ UNCHANGED <<dequeVars, model, size, data, torn, source, clearVars, samples,
                   alone, faults>>

(* "deque mutated during iteration": caught, counted, no model.            *)
ReadRaises(t) ==
    /\ stage[t] = "read"
    /\ torn[t]
    /\ Leave(t)
    /\ UNCHANGED <<dequeVars, model, clearVars, samples, alone, faults>>

(* set_model: the models fitted replace the old ones.                      *)
SetModel(t) ==
    /\ stage[t] = "fit"
    /\ model' = data[t]
    /\ Leave(t)
    /\ UNCHANGED <<dequeVars, clearVars, samples, alone, faults>>

(* Scaling or fitting raises: caught, counted, the old model stays.        *)
FitRaises(t) ==
    /\ stage[t] = "fit"
    /\ faults < MaxFaults
    /\ faults' = faults + 1
    /\ alone' = alone \ {t}
    /\ Leave(t)
    /\ UNCHANGED <<dequeVars, model, clearVars, samples>>
-----------------------------------------------------------------------------
(* A faulty clear: the history stays.                                      *)
ClearHistoryKeeps ==
    /\ clearing = "none"
    /\ clears < MaxClears
    /\ clears' = clears + 1
    /\ cutoff' = samples
    /\ kept' = made
    /\ raced' = FALSE
    /\ clearing' = "model"
    /\ alone' = {}
    /\ UNCHANGED <<dequeVars, model, threadVars, samples, faults>>

(* clear_history: pc_train_history first ...                               *)
ClearHistory ==
    /\ clearing = "none"
    /\ clears < MaxClears
    /\ clears' = clears + 1
    /\ known' = FALSE
    /\ history' = None
    /\ replaced' = FALSE
    /\ cutoff' = samples
    /\ kept' = made
    /\ raced' = FALSE
    /\ clearing' = "model"
    /\ alone' = {}
    /\ UNCHANGED <<made, model, threadVars, samples, faults>>

(* ... then model_store.                                                   *)
ClearModel ==
    /\ clearing = "model"
    /\ model' = None
    /\ raced' = \E t \in Thread : Training(t) /\ source[t] <= kept
    /\ clearing' = "none"
    /\ UNCHANGED <<dequeVars, threadVars, samples, alone, faults, clears,
                   cutoff, kept>>
-----------------------------------------------------------------------------
Init ==
    /\ known = FALSE
    /\ history = None
    /\ model = None
    /\ stage = [t \in Thread |-> "idle"]
    /\ size = [t \in Thread |-> 0]
    /\ data = [t \in Thread |-> <<>>]
    /\ torn = [t \in Thread |-> FALSE]
    /\ source = [t \in Thread |-> 0]
    /\ clearing = "none"
    /\ samples = 0
    /\ made = 0
    /\ kept = 0
    /\ replaced = FALSE
    /\ alone = {}
    /\ faults = 0
    /\ clears = 0
    /\ cutoff = 0
    /\ raced = FALSE

ThreadStep(t) ==
    \/ Unreadable(t) \/ Request(t) \/ MakePc(t) \/ LookDeque(t) \/ MakeDeque(t)
    \/ AppendSample(t) \/ AppendFails(t)
    \/ ReadSize(t) \/ NotDue(t) \/ TooShort(t) \/ StartRead(t) \/ EndRead(t) \/ ReadRaises(t)
    \/ SetModel(t) \/ FitRaises(t)

Next == ClearHistory \/ ClearModel \/ \E t \in Thread : ThreadStep(t)

Spec == Init /\ [][Next]_vars
-----------------------------------------------------------------------------
TypeOK ==
    /\ known \in BOOLEAN
    /\ history \in Seq(Nat) \cup {None}
    /\ model \in Seq(Nat) \cup {None}
    /\ stage \in [Thread -> {"idle", "makePc", "look", "make", "append", "size", "due",
                           "read", "fit"}]
    /\ size \in [Thread -> 0 .. TrainWindow]
    /\ data \in [Thread -> Seq(Nat)]
    /\ torn \in [Thread -> BOOLEAN]
    /\ source \in [Thread -> 0 .. made]
    /\ clearing \in {"none", "model"}
    /\ samples \in Nat
    /\ made \in Nat
    /\ kept \in 0 .. made
    /\ replaced \in BOOLEAN
    /\ alone \subseteq Thread
    /\ faults \in 0 .. MaxFaults
    /\ clears \in 0 .. MaxClears
    /\ cutoff \in 0 .. samples
    /\ raced \in BOOLEAN

(* A model is fitted to what was once the whole window: at least the       *)
(* minimum and at most TRAIN_WINDOW samples, one after the other, none     *)
(* missing or read twice and none from both sides of a clear, however the  *)
(* requests that append overlap with the one that trains.                  *)
Window(q) == \A i \in DOMAIN q : q[i] = q[1] + (i - 1)

ModelIsAWindow ==
    model # None =>
        /\ Len(model) \in MinTrainSize .. TrainWindow
        /\ Window(model)
        /\ ~(model[1] <= cutoff /\ model[Len(model)] > cutoff)

(* After DELETE /history no model knows the samples from before, unless    *)
(* one was being trained on them while the history was cleared.            *)
StaleModelNeedsRace ==
    (model # None /\ clearing = "none" /\ model[1] <= cutoff) => raced

(* Whatever overlapping requests have left behind, a request that runs     *)
(* alone catches up: until the window is full, the model it leaves is      *)
(* never RETRAIN_INTERVAL samples or more behind, unless one of two first  *)
(* requests replaced what the other had made, or a training outlived a     *)
(* clear.                                                                  *)
Lag == samples - (IF model = None THEN cutoff ELSE model[Len(model)])

AloneCatchesUp ==
    [][\A t \in alone \cap alone' :
          (stage[t] # "idle" /\ stage'[t] = "idle" /\ ~raced /\ ~replaced
             /\ samples - cutoff \in MinTrainSize .. TrainWindow)
                => Lag' < RetrainInterval]_vars
-----------------------------------------------------------------------------
(* config.py, of RETRAIN_INTERVAL: retrained every N samples.              *)
RetrainedEveryInterval ==
    (\A t \in Thread : stage[t] = "idle") /\ samples - cutoff >= MinTrainSize
        => Lag < RetrainInterval

(* A model within RETRAIN_INTERVAL samples of the full window, while no    *)
(* training is under way, is the last one: no later request starts a       *)
(* training, and the model stays as it is until a clear forgets it.        *)
Settled ==
    /\ SampleCount + RetrainInterval > TrainWindow
    /\ \A t \in Thread : ~Training(t)

SettledStays ==
    [][Settled => (Settled' /\ model' = model) \/ model' = None]_vars
=============================================================================
