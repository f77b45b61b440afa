----------------------------- MODULE MinuteWindow -----------------------------
(***************************************************************************)
(* storage/pc_history_store.py, for one PC: the samples of a minute are    *)
(* collected in a buffer and frozen into an aggregate, and the patterns    *)
(* are evaluated over the last aggregates.  The requests of the PC share   *)
(* the buffer without a lock, and each of them forces the freeze.          *)
(***************************************************************************)
EXTENDS PatternRules

CONSTANTS
    WindowReq,      (* requests that run at the same time                    *)
    WindowSample,   (* what a sample can say                                 *)
    MinuteTicks,    (* ticks of the clock in a minute                        *)
    AGGREGATE_WINDOW_MAX,
    MaxTicks,       (* bound: the clock                                      *)
    MaxSamples      (* bound: samples                                        *)

ASSUME WindowAssumption ==
    /\ AGGREGATE_WINDOW_MAX \in Nat
    /\ MinuteTicks \in Nat \ {0}
    /\ None \notin Int
    /\ \A s \in WindowSample : \A f \in {"cpu", "gpu", "idle"} :
          f \in DOMAIN s /\ s[f] \in Int \cup {None}

VARIABLES
    tick,       (* the clock                                                 *)
    minuteBuf,  (* _pc_minute_buffer                                         *)
    aggregates, (* pc_minute_aggregates, oldest first                        *)
    phase,      (* where each request is                                     *)
    frozen,     (* the buffer that it freezes                                *)
    judged,     (* history: the patterns judged last, and their window       *)
    raced,      (* history: two requests were in the store at the same time  *)
    taken       (* history: the samples, oldest first                        *)

windowVars == <<tick, minuteBuf, aggregates, phase, frozen, judged, raced, taken>>
-----------------------------------------------------------------------------
Minute(time) == (time \div MinuteTicks) * MinuteTicks

(* A faulty window: the newest aggregate is dropped.                        *)
FirstOf(seq) ==
    IF Len(seq) > AGGREGATE_WINDOW_MAX THEN Front(seq) ELSE seq

LastOf(seq) == IF Len(seq) > AGGREGATE_WINDOW_MAX THEN Tail(seq) ELSE seq

(* _flush_minute_buffer: nothing to do without a sample.                   *)
Freeze(window, b) ==
    IF b.samples = <<>> THEN window
    ELSE LastOf(Append(window, [ts |-> b.start, samples |-> b.samples]))

(* _parse_ts: a sample says when it was taken.                             *)
Stamped(s, time) == [f \in DOMAIN s \cup {"at"} |-> IF f = "at" THEN time ELSE s[f]]

NoBuffer == [start |-> 0, samples |-> <<>>]
NotJudged == [patterns |-> {}, window |-> <<>>]

WindowInit ==
    /\ tick = 0
    /\ minuteBuf = NoBuffer
    /\ aggregates = <<>>
    /\ phase = [r \in WindowReq |-> "idle"]
    /\ frozen = [r \in WindowReq |-> NoBuffer]
    /\ judged = NotJudged
    /\ raced = FALSE
    /\ taken = <<>>

Move(r, p) == phase' = [phase EXCEPT ![r] = p]

(* append_snapshot_for_aggregate: the sample of a new minute freezes the   *)
(* one before, then joins the buffer.                                      *)
AppendSnapshot(r) ==
    /\ phase[r] = "idle"
    /\ Len(taken) < MaxSamples
    /\ \E s \in WindowSample :
          LET sample == Stamped(s, tick)
              turned == minuteBuf.start # Minute(tick)
          IN  /\ aggregates' = IF turned THEN Freeze(aggregates, minuteBuf) ELSE aggregates
              /\ minuteBuf' = [start |-> Minute(tick),
                         samples |-> Append(IF turned THEN <<>> ELSE minuteBuf.samples, sample)]
              /\ taken' = Append(taken, sample)
    /\ raced' = (raced \/ \E q \in WindowReq \ {r} : phase[q] # "idle")
    /\ Move(r, "flush")
    /\ UNCHANGED <<tick, frozen, judged>>

(* The analysis may raise before it comes to the categories.               *)
AnalysisFails(r) ==
    /\ phase[r] = "flush"
    /\ Move(r, "idle")
    /\ UNCHANGED <<tick, minuteBuf, aggregates, frozen, judged, raced, taken>>

(* force_flush_minute_buffer: the buffer is read ...                       *)
ReadBuffer(r) ==
    /\ phase[r] = "flush"
    /\ frozen' = [frozen EXCEPT ![r] = minuteBuf]
    /\ Move(r, "store")
    /\ UNCHANGED <<tick, minuteBuf, aggregates, judged, raced, taken>>

(* ... frozen and emptied: what joined it meanwhile is gone.               *)
StoreAggregate(r) ==
    /\ phase[r] = "store"
    /\ aggregates' = Freeze(aggregates, frozen[r])
    /\ minuteBuf' = IF frozen[r].samples = <<>> THEN minuteBuf
                    ELSE [minuteBuf EXCEPT !.samples = <<>>]
    /\ frozen' = [frozen EXCEPT ![r] = NoBuffer]
    /\ Move(r, "judge")
    /\ UNCHANGED <<tick, judged, raced, taken>>

(* get_aggregate_window, and the patterns of the three groups over it.     *)
JudgePatterns(r) ==
    /\ phase[r] = "judge"
    /\ judged' = [patterns |-> EvaluateResourcePattern(aggregates)
                               \cup EvaluateNetworkPattern(aggregates)
                               \cup EvaluateSystemPattern(aggregates),
                  window |-> aggregates]
    /\ Move(r, "idle")
    /\ UNCHANGED <<tick, minuteBuf, aggregates, frozen, raced, taken>>

MinuteTick ==
    /\ tick < MaxTicks
    /\ tick' = tick + 1
    /\ UNCHANGED <<minuteBuf, aggregates, phase, frozen, judged, raced, taken>>

WindowNext ==
    \/ MinuteTick
    \/ \E r \in WindowReq :
          \/ AppendSnapshot(r) \/ AnalysisFails(r)
          \/ ReadBuffer(r) \/ StoreAggregate(r) \/ JudgePatterns(r)

WindowSpec == WindowInit /\ [][WindowNext]_windowVars
-----------------------------------------------------------------------------
(* Every aggregate was made of samples, and the window stays bounded.      *)
WindowTypeOK ==
    /\ Len(aggregates) <= AGGREGATE_WINDOW_MAX
    /\ \A k \in DOMAIN aggregates : /\ aggregates[k].samples # <<>>
                                    /\ aggregates[k].ts = Minute(aggregates[k].ts)
    /\ \A r \in WindowReq : phase[r] \in {"idle", "flush", "store", "judge"}

(* Without overlapping requests the window followed by the buffer is what  *)
(* was taken last: no sample is lost, frozen twice or out of its order,    *)
(* and none is in the aggregate of another minute.                         *)
WindowInOrder ==
    ~raced =>
        /\ LET kept == FlattenSeq([k \in DOMAIN aggregates |-> aggregates[k].samples])
                       \o minuteBuf.samples
           IN  IsSuffix(kept, taken) /\ (Len(aggregates) < AGGREGATE_WINDOW_MAX => kept = taken)
        /\ \A k \in DOMAIN aggregates : \A i \in DOMAIN aggregates[k].samples :
               Minute(aggregates[k].samples[i].at) = aggregates[k].ts

(* A pattern of a high load is not made of nothing: each aggregate of its  *)
(* last minutes has a sample that is as high; and N2 follows one address.  *)
PatternsAreWitnessed ==
    \A p \in judged.patterns :
        \A k \in Len(judged.window) - Patterns[p].minutes + 1 .. Len(judged.window) :
            LET High(f, limit) == \E i \in DOMAIN judged.window[k].samples :
                                     LET v == judged.window[k].samples[i][f]
                                     IN  v # None /\ v >= limit
            IN  /\ p \in {"R1", "R3"} => High("cpu", Patterns[p].cpu)
                /\ p \in {"R2", "R3", "R4", "R7", "R8"} => High("gpu", Patterns[p].gpu)
                /\ p \in {"S1", "S3", "S4"} =>
                       High("cpu", Patterns[p].load) \/ High("gpu", Patterns[p].load)
                /\ p = "S1" => High("idle", Patterns[p].idle)
                /\ p = "N2" => Endpoints(judged.window[k]) # {}

(* pattern_categories.py: "whether the predicate is True for all of the    *)
(* latest required_min minutes of 1-minute aggregates".                    *)
PatternsLastMinutes ==
    \A p \in judged.patterns :
        Cardinality({judged.window[k].ts : k \in DOMAIN judged.window}) >= Patterns[p].minutes
=============================================================================
