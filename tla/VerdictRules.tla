----------------------------- MODULE VerdictRules -----------------------------
(***************************************************************************)
(* From the signals of a sample to the answer of /analyze: the points of   *)
(* scorer/indicator_calculator.py, the discounts of context_multiplier.py, *)
(* the verdict and its promotion gate in verdict_classifier.py, the cap of *)
(* network_only_cap.py.  S is always the set of raised signals, p what     *)
(* the sample says besides them; scores are in tenths.                     *)
(***************************************************************************)
EXTENDS Integers, Sequences, SequencesExt

CONSTANTS
    Thresholds,     (* thresholds: [observe, suspicious, high_risk]          *)
    MlCap,          (* limits.ml_score_cap                                   *)
    MaxDiscount,    (* limits.max_context_discount, negative                 *)
    DangerDiscount, (* limits.danger_override_max_discount                   *)
    ContextDiscounts, (* context_discounts                                   *)
    Scores,         (* scores: the points of the correlations                *)
    Promotion       (* promotion_gating: [enabled, medium, high]             *)

(* The points that a table gives to the raised signals.                    *)
Points(S, table) == MapThenSumSet(LAMBDA s : table[s], S \cap DOMAIN table)
If(condition, points) == IF condition THEN points ELSE 0
Rank(order, x) == CHOOSE i \in DOMAIN order : order[i] = x
Verdicts == <<"NORMAL", "OBSERVE", "SUSPICIOUS", "HIGH_RISK">>
Severities == <<"NORMAL", "LOW", "MEDIUM", "HIGH">>
SeverityOf(verdict) == Severities[Rank(Verdicts, verdict)]
-----------------------------------------------------------------------------
(* calculate_indicators: one operator per category.                        *)
GpuMining(S) ==
    Points(S, [gpu_high |-> 1, gpu_flat |-> 3, gpu_cpu_gap |-> 3,
               net_external_high |-> 1, mining_pool_ip |-> 5, is_gaming |-> -5])
    + If({"tensor_inactive", "vram_low"} \subseteq S, 3)

CpuMining(S) ==
    Points(S, [cpu_high |-> 1, cpu_flat |-> 3, mining_pool_ip |-> 5,
               is_compiling |-> -5, is_gaming |-> -3])
    + If("gpu_high" \notin S, 1)
    + If("gpu_active" \notin S /\ {"cpu_high", "cpu_flat"} \subseteq S, 2)

Stealth(S) ==
    If(S \cap {"stealth_mismatch_power", "stealth_mismatch_vram"} # {},
       Points(S, [stealth_mismatch_power |-> 5, stealth_mismatch_vram |-> 5,
                  vram_stable |-> 1, gpu_flat |-> 1, power_stable |-> 1,
                  is_gaming |-> -3, is_compiling |-> -2]))

Exfil(S) == Points(S, [outbound_spike |-> 5, net_external_high |-> 1])
Process(S) == Points(S, [known_miner |-> 10, persistent_miner |-> 3, temp_exec |-> 1])
Dos(S) == Points(S, [dos_spike |-> 5])
Memory(S) == Points(S, [mem_critical |-> 1]) + If("mem_high" \in S /\ "cpu_high" \notin S, 1)

Resource(S, p) ==
    Points(S, [cpu_high |-> 1, cpu_flat |-> 1, mem_high |-> 1, mem_critical |-> 1])
    + If("gpu_high" \in S /\ ~p.gpuMissing, 1)
    + (IF p.topCpu >= 85 THEN 2 ELSE If(p.topCpu >= 60, 1))

Companions == {"net_out_sustained", "unknown_process_active", "exec_path_suspicious",
               "disk_write_net_out_sustained", "new_remote_ip_burst",
               "mining_process_or_pool"}

Network(S, p) ==
    If(~p.truncated,
       Points(S, [net_out_sustained |-> 2, outbound_spike |-> 2, new_remote_ip_burst |-> 1])
       + If("spike_count_1m" \in S /\ S \cap Companions # {}, 1)
       + (IF p.uniqueIps >= 12 THEN 2 ELSE If(p.uniqueIps >= 6, 1)))

ProcessPoints(S) == Process(S) + Points(S, [appdata_exec |-> 1])
Episode(S) == Points(S, [dos_spike |-> 5, persistent_ext |-> 2])

Correlation(S) ==
    If({"cpu_high", "net_out_sustained"} \subseteq S, Scores.cpu_plus_net)
    + If("disk_write_net_out_sustained" \in S, Scores.disk_write_net_out)
    + If({"unknown_process_active", "net_out_sustained"} \subseteq S, Scores.unknown_proc_net)
    + If({"appdata_exec", "net_out_sustained"} \subseteq S, Scores.appdata_net)
    + If("mining_process_or_pool" \in S,
         IF "known_miner" \in S THEN Scores.mining_known ELSE Scores.mining_pool_only)

(* The points of the rules, one per key of the breakdown.                  *)
RuleBreakdown(S, p) ==
    [ resource |-> Resource(S, p), network |-> Network(S, p), process |-> ProcessPoints(S),
      episode |-> Episode(S), correlation |-> Correlation(S) ]

RulesAreSilent(b) == MapThenSumSet(LAMBDA k : b[k], DOMAIN b) = 0

(* The model's word counts up to a cap, and less when it is alone.         *)
MlPoints(S, p) ==
    LET given == If("ml_anomaly" \in S, Min({MlCap, Max({1, (0 - p.ml) \div 2})}))
    IN  IF given >= MlCap /\ RulesAreSilent(RuleBreakdown(S, p))
        THEN Max({0, given - 2}) ELSE given

Breakdown(S, p) ==
    [ k \in DOMAIN RuleBreakdown(S, p) \cup {"ml"} |->
        IF k = "ml" THEN MlPoints(S, p) ELSE RuleBreakdown(S, p)[k] ]

Indicators(S, p) ==
    [ gpu_mining |-> GpuMining(S), cpu_mining |-> CpuMining(S), stealth |-> Stealth(S),
      exfil |-> Exfil(S), process |-> Process(S), dos |-> Dos(S), backdoor |-> 0,
      mem |-> Memory(S), ml |-> MlPoints(S, p) ]
-----------------------------------------------------------------------------
(* context_multiplier.py                                                   *)
Danger(S) ==
    \/ {"unknown_process_active", "net_out_sustained"} \subseteq S
    \/ S \cap {"temp_exec", "appdata_exec"} # {} /\ S \cap {"cpu_high", "gpu_high"} # {}
    \/ "disk_write_net_out_sustained" \in S
    \/ "mining_process_or_pool" \in S

(* _collect_context_hints and _compute_context_discount: each hint once.   *)
HintOf(type) ==
    CASE type \in {"startup", "boot"} -> {"startup"}
      [] type \in {"scan", "antivirus", "defender"} -> {"security_scan"}
      [] type \in {"update", "maintenance", "patch"} -> {"maintenance_update"}
      [] type \in {"lab_agent", "lab-agent"} -> {"lab_agent"}
      [] OTHER -> {}

Hints(p) == (p.contextHint \cap DOMAIN ContextDiscounts) \cup UNION {HintOf(t) : t \in p.localTypes}

ContextDiscount(p) ==
    LET slotHint == IF p.slot \in {"class", "free"} THEN {"class_or_free"} ELSE {}
        hints == IF Hints(p) = {} THEN slotHint ELSE Hints(p)
    IN  Max({Points(hints, ContextDiscounts), MaxDiscount})

Discount(S, p) ==
    IF Danger(S) THEN Max({ContextDiscount(p), DangerDiscount}) ELSE ContextDiscount(p)

(* Games and compilers scale everything but the proof of a process.        *)
Multiplier(S) ==
    CASE {"is_gaming", "is_compiling"} \subseteq S -> 2
      [] "is_gaming" \in S -> 4
      [] "is_compiling" \in S -> 5
      [] OTHER -> 10

RawScore(i) == MapThenSumSet(LAMBDA k : i[k], DOMAIN i)
Adjusted(S, i) == Max({0, 10 * i.process + (RawScore(i) - i.process) * Multiplier(S)})
-----------------------------------------------------------------------------
(* score_history_store.weighted_average, as a fraction; a score below is   *)
(* compared without dividing.                                              *)
Weight(n, k) == Max({1, 5 - (n - k)})
Weighted(scores) == [ sum  |-> FoldLeftDomain(LAMBDA a, k : a + scores[k] * Weight(Len(scores), k),
                                              0, scores),
                      over |-> FoldLeftDomain(LAMBDA a, k : a + Weight(Len(scores), k),
                                              0, scores) ]
Reaches(final, threshold) ==
    IF final.over = 0 THEN threshold <= 0 ELSE final.sum >= 10 * threshold * final.over

ClassifyVerdict(final) ==
    CASE Reaches(final, Thresholds.high_risk) -> "HIGH_RISK"
      [] Reaches(final, Thresholds.suspicious) -> "SUSPICIOUS"
      [] Reaches(final, Thresholds.observe) -> "OBSERVE"
      [] OTHER -> "NORMAL"

(* The first of the highest categories names the alert.                    *)
TopCategory(i) ==
    LET order == <<"gpu_mining", "cpu_mining", "stealth", "exfil", "dos", "mem", "ml">>
        best == Max({i[order[k]] : k \in DOMAIN order})
    IN  order[Min({k \in DOMAIN order : i[order[k]] = best})]

Alert(type, severity) == [type |-> type, severity |-> severity]

BuildAlerts(verdict, S, i) ==
    (IF i.process >= 10
     THEN <<Alert(<<"CONFIRMED_MINING">>, "HIGH")>>
          \o (IF "persistent_miner" \in S THEN <<Alert(<<"PROCESS_PERSISTENT">>, "HIGH")>> ELSE <<>>)
     ELSE IF verdict # "NORMAL"
          THEN <<Alert(<<verdict, TopCategory(i)>>, SeverityOf(verdict))>> ELSE <<>>)
    \o (IF "dos_spike" \in S THEN <<Alert(<<"DOS_SUSPECTED">>, "HIGH")>> ELSE <<>>)

(* The alerts that the client raised are kept apart from these.            *)
LocalEvidence(localAlerts) == {a \in localAlerts : a.severity \in {"HIGH", "MEDIUM"}}

(* _SIGNAL_TO_CATEGORY                                                     *)
CategoryOf(signal) ==
    CASE signal \in {"gpu_active", "gpu_high", "gpu_flat", "gpu_cpu_gap", "vram_low",
                     "vram_stable", "power_stable", "tensor_inactive", "sm_high",
                     "stealth_mismatch_power", "stealth_mismatch_vram", "cpu_high",
                     "cpu_flat", "mem_high", "mem_critical"} -> {"resource"}
      [] signal \in {"net_external_high", "mining_pool_ip", "outbound_spike", "dos_spike",
                     "net_out_sustained", "disk_write_net_out_sustained",
                     "new_remote_ip_burst", "spike_count_1m", "persistent_ext"} -> {"network"}
      [] signal \in {"known_miner", "temp_exec", "appdata_exec", "exec_path_suspicious",
                     "unknown_process_active", "persistent_miner",
                     "mining_process_or_pool"} -> {"process"}
      [] signal = "ml_anomaly" -> {"ml"}
      [] OTHER -> {}

ActiveSignals(S) == S \ {"is_gaming", "is_compiling"}
ActiveCategories(S, breakdown) ==
    {k \in DOMAIN breakdown : breakdown[k] > 0} \cup UNION {CategoryOf(s) : s \in ActiveSignals(S)}

(* A process that is known to mine, alone, is enough.                      *)
FastPath(i) == i.process >= 10

Enough(S, breakdown, level) ==
    /\ Cardinality(ActiveSignals(S)) >= level.signals
    /\ Cardinality(ActiveCategories(S, breakdown)) >= level.categories

(* A faulty gate: every verdict passes.                                    *)
PromoteUngated(verdict, S, i, breakdown, found) == verdict

(* apply_promotion_gating: one signal alone must not raise an alarm, when  *)
(* the policy is found and says so.                                        *)
Promote(verdict, S, i, breakdown, found) ==
    CASE \/ ~found \/ ~Promotion.enabled \/ FastPath(i)
         \/ verdict \in {"OBSERVE", "NORMAL"} -> verdict
      [] verdict = "HIGH_RISK" /\ Enough(S, breakdown, Promotion.high) -> "HIGH_RISK"
      [] Enough(S, breakdown, Promotion.medium) -> "SUSPICIOUS"
      [] OTHER -> "OBSERVE"

(* analyze_pattern, from the signals on, with the average of the scores.   *)
AnalyzePattern(S, p, final, found) ==
    LET i == Indicators(S, p)
        breakdown == Breakdown(S, p)
        classified == ClassifyVerdict(final)
        verdict == Promote(classified, S, i, breakdown, found)
    IN  [ verdict |-> verdict,
          severity |-> SeverityOf(verdict),
          alerts |-> BuildAlerts(classified, S, i),
          breakdown |-> breakdown,
          fastPath |-> FastPath(i) ]
-----------------------------------------------------------------------------
(* api/analyze_router.py: the stronger of two verdicts; the severity rises *)
(* with it, and the categories add their alert.                            *)
MergeGating(result, gating) ==
    LET confirmed == [result EXCEPT !.fastPath = @ \/ gating = "HIGH_RISK"]
        severity == SeverityOf(gating)
    IN  IF Rank(Verdicts, gating) <= Rank(Verdicts, result.verdict) THEN confirmed
        ELSE [confirmed EXCEPT
                 !.verdict = gating,
                 !.severity = IF Rank(Severities, severity) > Rank(Severities, @)
                              THEN severity ELSE @,
                 !.alerts = Append(@, Alert(<<gating, "BEHAVIOR">>, severity))]

(* network_only_cap.py                                                     *)
NetworkOnly(S) ==
    /\ S \cap {"net_external_high", "persistent_ext", "outbound_spike", "net_out_sustained",
               "spike_count_1m", "new_remote_ip_burst", "dos_spike"} # {}
    /\ S \cap {"gpu_high", "gpu_flat", "cpu_high", "cpu_flat", "vram_low", "sm_high",
               "power_stable", "mem_high", "mem_critical", "stealth_mismatch_power",
               "stealth_mismatch_vram"} = {}

CapExempt(S) == S \cap {"known_miner", "mining_pool_ip", "external_conn_suspicious_owner",
                        "single_core_full", "process_recreation"} # {}

ApplyNetworkOnlyCap(result, S) ==
    IF ~NetworkOnly(S) \/ CapExempt(S) \/ result.verdict \in {"NORMAL", "OBSERVE"}
    THEN result
    ELSE [result EXCEPT
             !.verdict = "OBSERVE",
             !.severity = "LOW",
             !.alerts = [k \in DOMAIN @ |->
                 IF Rank(Severities, @[k].severity) > Rank(Severities, "LOW")
                 THEN [@[k] EXCEPT !.severity = "LOW"] ELSE @[k]]]
=============================================================================
