----------------------------- MODULE ExplainRules -----------------------------
(***************************************************************************)
(* What accompanies a verdict without changing it: the risk axes of        *)
(* scorer/risk_vector.py, the grades of scorer/signal_quality.py, the      *)
(* level of scorer/explanation_confidence.py, and the judgment that        *)
(* agent/mock_agent.py gives in place of the language model.               *)
(***************************************************************************)
EXTENDS VerdictRules

(* compute_risk_vector: points per axis, with bonuses for signals that are *)
(* stronger together.                                                      *)
Mining(S) ==
    Points(S, [gpu_flat |-> 3, cpu_flat |-> 3, vram_low |-> 2, power_stable |-> 1,
               sm_high |-> 1, mining_pool_ip |-> 5, known_miner |-> 5,
               mining_process_or_pool |-> 4, persistent_miner |-> 3, single_core_full |-> 3])
    + If({"cpu_flat", "gpu_flat"} \subseteq S, 2)
    + If({"gpu_flat", "power_stable", "vram_low"} \subseteq S, 2)
    + If({"single_core_full", "cpu_flat"} \subseteq S, 1)

Malfunction(S) ==
    Points(S, [mem_critical |-> 2])
    + If("cpu_high" \in S /\ S \cap {"net_out_sustained", "disk_write_net_out_sustained",
                                     "known_miner", "mining_pool_ip"} = {}, 2)

Aging(S) == Points(S, [stealth_mismatch_power |-> 3, stealth_mismatch_vram |-> 3,
                       mem_critical |-> 1, mem_high |-> 1])

Threat(S) ==
    Points(S, [persistent_ext |-> 2, net_external_high |-> 1, outbound_spike |-> 3,
               exec_path_suspicious |-> 1, appdata_exec |-> 1, temp_exec |-> 1,
               new_remote_ip_burst |-> 1, mining_pool_ip |-> 2,
               external_conn_suspicious_owner |-> 3, process_recreation |-> 2,
               disk_write_net_out_sustained |-> 2])
    + If("net_out_sustained" \in S,
         Points(S, [unknown_process_active |-> 3, appdata_exec |-> 2,
                    external_conn_suspicious_owner |-> 2]))

NetworkAbuse(S) ==
    Points(S, [dos_spike |-> 3]) + If({"dos_spike", "persistent_ext"} \subseteq S, 2)

Axes == <<"MINING_SUSPICION", "MALFUNCTION", "AGING", "THREAT_SUSPICION", "NETWORK_ABUSE">>
RiskVector(S) == <<Mining(S), Malfunction(S), Aging(S), Threat(S), NetworkAbuse(S)>>

(* The first of the highest axes, if it is high enough.                    *)
PrimaryType(S) ==
    LET v == RiskVector(S)
        top == Max({v[k] : k \in DOMAIN v})
    IN  IF top < 4 THEN "NORMAL" ELSE Axes[Min({k \in DOMAIN v : v[k] = top})]
-----------------------------------------------------------------------------
(* compute_signal_quality                                                  *)
Grades == <<"MISSING", "PARTIAL", "FULL">>
Grade(missing, partial) == IF missing THEN "MISSING" ELSE IF partial THEN "PARTIAL" ELSE "FULL"

SourceGrades(m) ==
    [ network |-> Grade("network" \in m.missing, m.truncated),
      process |-> Grade("process" \in m.missing, FALSE),
      gpu     |-> Grade(m.gpuMissing, "gpu_partial" \in m.missing),
      derived |-> Grade("derived_features" \in m.missing, FALSE) ]

SignalQuality(m) ==
    LET grades == SourceGrades(m)
    IN  Grades[Min({Rank(Grades, grades[s]) : s \in DOMAIN grades})]

(* compute_explanation_confidence: r is the retrieval evidence.            *)
ConfidenceScore(quality, r) ==
    IF quality = "MISSING" THEN 0
    ELSE LET support == IF ~r.available THEN -1
                        ELSE If(r.similar >= 2, 1) + If(r.peerMismatch, 1)
                             + If(r.novelty, -1) + If(r.slotPeers >= 3, 1)
         IN  Max({0, Min({5, 2 + If(quality = "PARTIAL", -1) + support})})

ConfidenceLevel(score) ==
    IF score >= 4 THEN "HIGH" ELSE IF score >= 2 THEN "MEDIUM" ELSE "LOW"
-----------------------------------------------------------------------------
(* A faulty judgment: SUSPICIOUS is taken for OBSERVE.                      *)
MockJudgmentMild(result, degraded) ==
    CASE \/ result.verdict = "HIGH_RISK"
         \/ \E k \in DOMAIN result.alerts : result.alerts[k].type = <<"CONFIRMED_MINING">> ->
             <<"DANGEROUS", "HIGH">>
      [] OTHER -> <<"SUSPICIOUS", "LOW">>

(* mock_agent_judgment: <<judgment, severity>>.  The alerts of the server  *)
(* never carry the LOCAL_ prefix, so its first branch looks for none.      *)
MockJudgment(result, degraded) ==
    CASE \E k \in DOMAIN result.alerts : result.alerts[k].type = <<"CONFIRMED_MINING">> ->
             <<"DANGEROUS", "HIGH">>
      [] OTHER ->
             CASE result.verdict = "HIGH_RISK" -> <<"DANGEROUS", "HIGH">>
               [] result.verdict = "SUSPICIOUS" -> <<"SUSPICIOUS", "MEDIUM">>
               [] result.verdict = "OBSERVE" -> <<"SUSPICIOUS", "LOW">>
               [] OTHER -> IF degraded THEN <<"SUSPICIOUS", "MEDIUM">> ELSE <<"NORMAL", "LOW">>
=============================================================================
