----------------------------- MODULE PatternRules -----------------------------
(***************************************************************************)
(* scorer/pattern_categories.py: which patterns hold over a window of      *)
(* aggregates, oldest first.  An aggregate has the start of its minute and *)
(* the samples that were frozen into it (storage/pc_history_store.py); its *)
(* means and deviations are compared without dividing.  A sample has the   *)
(* values that the patterns read, None for one that was not measured.      *)
(***************************************************************************)
EXTENDS Optional, Filtering, Summing, SequencesExt

CONSTANTS
    Patterns    (* category_patterns: the thresholds of the enabled patterns *)

Values(e, f) ==
    LET all == [k \in DOMAIN e.samples |-> e.samples[k][f]]
    IN  Filtered(all, Range(all) \ {None})
Squares(values) == Total([k \in DOMAIN values |-> values[k] * values[k]])

(* A faulty mean: no value is as good as a high one.                        *)
MeanOfNothing(e, f, limit) ==
    Total(Values(e, f)) >= limit * Len(Values(e, f))

(* statistics.mean, which is 0 without a value.                            *)
MeanAtLeast(e, f, limit) == Total(Values(e, f)) >= limit * Max({1, Len(Values(e, f))})
MeanAtMost(e, f, limit) == Total(Values(e, f)) <= limit * Max({1, Len(Values(e, f))})
MeanBelow(e, f, limit) == ~MeanAtLeast(e, f, limit)

(* statistics.stdev, which is 0 for fewer than two values.                 *)
Spread(v) == Len(v) * Squares(v) - Total(v) * Total(v)
StdBelow(e, f, limit) ==
    LET v == Values(e, f)
    IN  IF Len(v) < 2 THEN limit > 0
        ELSE Spread(v) < limit * limit * Len(v) * (Len(v) - 1)

(* The deviation stays under limit tenths of the mean.                     *)
CvBelow(e, f, limit) ==
    LET v == Values(e, f)
    IN  IF Len(v) < 2 THEN limit > 0
        ELSE 100 * Len(v) * Spread(v) < limit * limit * Total(v) * Total(v) * (Len(v) - 1)

IdleMax(e) == Max({0} \cup Range(Values(e, "idle")))
Endpoints(e) == UNION {e.samples[k].endpoints : k \in DOMAIN e.samples}
Busy(e, limit) == MeanAtLeast(e, "cpu", limit) \/ MeanAtLeast(e, "gpu", limit)

(* Whether one aggregate fits a resource, a network, a system pattern with *)
(* its thresholds th.                                                      *)
FitsResource(pattern, th, e) ==
    CASE pattern = "R1" -> MeanAtLeast(e, "cpu", th.cpu) /\ StdBelow(e, "cpu", th.std)
      [] pattern = "R2" -> MeanAtLeast(e, "gpu", th.gpu) /\ StdBelow(e, "gpu", th.std)
      [] pattern = "R3" -> MeanAtLeast(e, "cpu", th.cpu) /\ MeanAtLeast(e, "gpu", th.gpu)
      [] pattern = "R4" -> MeanAtLeast(e, "gpu", th.gpu) /\ MeanBelow(e, "cpu", th.cpuMax)
      [] pattern = "R5" -> /\ MeanAtLeast(e, "power", th.power) /\ StdBelow(e, "power", th.std)
                           /\ Total(Values(e, "power")) > 0
      [] pattern = "R7" -> MeanBelow(e, "vram", th.vram) /\ MeanAtLeast(e, "gpu", th.gpu)
      [] pattern = "R8" -> MeanBelow(e, "memGb", th.memGb) /\ MeanAtLeast(e, "gpu", th.gpu)

FitsNetwork(pattern, th, e) ==
    CASE pattern = "N4" -> MeanAtLeast(e, "outbound", th.outbound) /\ MeanAtMost(e, "inbound", th.inbound)
      [] pattern = "N5" -> ~MeanAtMost(e, "outbound", th.least) /\ CvBelow(e, "outbound", th.cv)

FitsSystem(pattern, th, e) ==
    CASE pattern = "S1" -> IdleMax(e) >= th.idle /\ Busy(e, th.load)
      [] pattern = "S3" -> Busy(e, th.load) /\ MeanBelow(e, "disk", th.disk)
      [] pattern = "S4" -> Busy(e, th.load) /\ MeanBelow(e, "memGb", th.memGb)

Fits(p, th, e) ==
    CASE p \in {"R1", "R2", "R3", "R4", "R5", "R7", "R8"} -> FitsResource(p, th, e)
      [] p \in {"N4", "N5"} -> FitsNetwork(p, th, e)
      [] p \in {"S1", "S3", "S4"} -> FitsSystem(p, th, e)

(* _window_minutes_satisfied, of what each aggregate of the window says:   *)
(* it counts aggregates.                                                   *)
Sustained(fits, minutes) ==
    \/ minutes <= 0
    \/ /\ Len(fits) >= minutes
       /\ \A k \in Len(fits) - minutes + 1 .. Len(fits) : fits[k]

(* N2: one address is in every aggregate.                                  *)
SameEndpoint(window, minutes) ==
    /\ Len(window) >= minutes
    /\ \E ip \in Endpoints(Last(window)) :
           Sustained([k \in DOMAIN window |-> ip \in Endpoints(window[k])], minutes)

(* The patterns of a group that hold.  A pattern that the configuration    *)
(* leaves out or that has no rule (R6, R9, N1, N6, S2, S5) never does.     *)
Triggered(group, window) ==
    {p \in group \cap DOMAIN Patterns :
        Sustained([k \in DOMAIN window |-> Fits(p, Patterns[p], window[k])],
                  Patterns[p].minutes)}

EvaluateResourcePattern(window) ==
    Triggered({"R1", "R2", "R3", "R4", "R5", "R7", "R8"}, window)
EvaluateNetworkPattern(window) ==
    Triggered({"N4", "N5"}, window)
    \cup {p \in {"N2"} \cap DOMAIN Patterns : SameEndpoint(window, Patterns[p].minutes)}
EvaluateSystemPattern(window) == Triggered({"S1", "S3", "S4"}, window)

(* How many of the three categories are abnormal.                          *)
CatsCount(window) ==
    Cardinality({g \in 1 .. 3 : <<EvaluateResourcePattern(window),
                                  EvaluateNetworkPattern(window),
                                  EvaluateSystemPattern(window)>>[g] # {}})
=============================================================================
