----------------------------- MODULE SignalRules -----------------------------
(***************************************************************************)
(* scorer/signal_extractor.py: the atomic signals that one sample and the  *)
(* history of its PC raise.  The result is the set of the signals that are *)
(* True.  A sample m has percentages for loads, 1/1000 MB for traffic and  *)
(* 1/10 for the ML score; its processes and connections are sets of        *)
(* records.  A history h has the statistics of the last samples (this one  *)
(* is the newest of them) and the processes of each.                       *)
(***************************************************************************)
EXTENDS Integers, Sequences, FiniteSetsExt

CONSTANTS
    None,                     (* a value that could not be measured          *)
    MINING_PROCESSES,         (* the names of config.py ...                  *)
    GAME_RENDER_PROCESSES,
    COMPILE_ENCODE_PROCESSES,
    Whitelist,                (* ... with those of the allow list            *)
    MINING_POOL_IPS,
    InfraIps,                 (* infra_ips of the allow list                 *)
    MinInbound,               (* dos_detection.min_inbound_mb_per_5s         *)
    MinSustained              (* dos_detection.min_sustained_count           *)

HasHistory(h) == h.n >= 12

(* A statistic is there when enough samples have the value.                *)
Known(h, stat) == HasHistory(h) /\ h[stat] # None
Names(m) == {p.name : p \in m.procs}
IsMiner(p) == p.name \in MINING_PROCESSES
Trusted(p) == p.name \in Whitelist

(* Every external connection leads to known infrastructure.                *)
AllExternalToInfra(m) ==
    /\ InfraIps # {}
    /\ m.conns # {}
    /\ \A c \in m.conns : c.ip \in InfraIps

TempExec(m) == {p \in m.procs : p.path \in {"temp", "appdata_temp"} /\ ~Trusted(p)}
AppdataExec(m) == {p \in m.procs : p.path = "appdata" /\ ~Trusted(p)}

(* A miner of this sample ran in at least six samples of the history.      *)
PersistentMiner(m, h) ==
    /\ HasHistory(h)
    /\ \E p \in {q \in m.procs : IsMiner(q)} :
           Quantify(DOMAIN h.snaps, LAMBDA i : \E q \in h.snaps[i] : q.name = p.name) >= 6

(* The same program comes back under new process ids, never more than two  *)
(* of it at a time: a watchdog restarts it.                                *)
ProcessRecreation(snaps) ==
    LET Ident(p) == <<p.name, p.path>>
        Pids(i, id) == {p.pid : p \in {q \in snaps[i] :
                                        Ident(q) = id /\ ~Trusted(q) /\ q.pid # None}}
        Present(id) == {i \in DOMAIN snaps : Pids(i, id) # {}}
    IN  /\ Len(snaps) >= 6
        /\ \E id \in UNION {{Ident(p) : p \in snaps[i]} : i \in DOMAIN snaps} :
               /\ \A i \in Present(id) : Cardinality(Pids(i, id)) <= 2
               /\ Cardinality(UNION {Pids(i, id) : i \in Present(id)}) >= 3
               /\ Cardinality(Present(id)) >= Max({3, Len(snaps) \div 2})

(* One core is busy and the whole machine is not.                          *)
SingleCoreFull(m) ==
    LET cores == Max({1, IF m.cores > 0 THEN m.cores ELSE m.perCore})
    IN  m.coreMax >= 90 /\ m.cpu * cores <= 200

(* Inbound traffic far above the average of the PC, and above a floor when *)
(* there is one.                                                           *)
BurstRatio(slot) == IF slot = "class" THEN 30 ELSE 15
InboundBurst(m, h, floor) ==
    /\ HasHistory(h) /\ h.inMean > 0
    /\ m.inbound > h.inMean * BurstRatio(m.slot)
    /\ floor > 0 => m.inbound >= floor

(* dos_spike_streak, and whether it is long enough.                        *)
Streak(burst, streak) == IF burst THEN streak + 1 ELSE 0
DosSpike(burst, streak, least) == burst /\ streak >= least

OutboundSpike(m, h) ==
    HasHistory(h) /\ h.outMean > 10 /\ m.outbound > h.outMean * 5 /\ m.outbound > 1000
NetOutSustained(m, h) ==
    HasHistory(h) /\ h.outMean > 5 /\ 2 * m.outbound >= Max({3 * h.outMean, 1000})

(* Who is behind a connection or a load.                                   *)
PoolHit(m) == \E c \in m.conns : c.ip \in MINING_POOL_IPS
UnknownActive(m) == \E p \in m.procs : ~Trusted(p) /\ ~IsMiner(p) /\ p.cpu >= 80
SuspiciousOwner(m) ==
    \E c \in m.conns : /\ c.path \in {"temp", "appdata", "appdata_temp"}
                       /\ c.name \notin Whitelist
NewRemoteIpBurst(m) == m.uniqueIps >= 8 /\ m.dupConns < m.uniqueIps

GpuPct(m) == IF m.gpu = None THEN 0 ELSE m.gpu
MismatchPower(h) ==
    Known(h, "powerStd") /\ h.powerMean >= 80 /\ Known(h, "gpuStd") /\ h.gpuMean < 30
MismatchVram(m) == m.vram > 70 /\ GpuPct(m) < 20

ResourceSignals(m, h) ==
    LET gpu == GpuPct(m)
        active == gpu >= 30
        hasGpu == m.gpu # None
    IN  [ gpu_active |-> active,
          gpu_high   |-> gpu >= 70,
          gpu_flat   |-> active /\ hasGpu /\ Known(h, "gpuStd") /\ h.gpuStd < 5,
          gpu_cpu_gap |-> gpu >= 70 /\ m.cpu < 20,
          vram_low   |-> m.vram < 30 /\ active,
          vram_stable |-> active /\ hasGpu /\ Known(h, "vramStd") /\ h.vramStd < 50,
          power_stable |-> /\ active /\ hasGpu /\ Known(h, "powerStd")
                           /\ h.powerStd < 10 /\ h.powerMean >= 60,
          tensor_inactive |-> m.tensor = 0 /\ active,
          sm_high    |-> m.sm # None /\ m.sm >= 70,
          stealth_mismatch_power |-> hasGpu /\ MismatchPower(h),
          stealth_mismatch_vram |-> MismatchVram(m),
          cpu_high   |-> m.cpu >= 80,
          cpu_flat   |-> Known(h, "cpuStd") /\ h.cpuStd < 5 /\ m.cpu >= 60,
          mem_critical |-> m.mem >= 95,
          mem_high   |-> m.mem >= 85 ]

NetworkSignals(m, h, dos) ==
    LET foreign == ~AllExternalToInfra(m)
    IN  [ net_external_high |-> m.ext >= 8 /\ foreign,
          spike_count_1m |-> m.ext >= 8 /\ foreign,
          mining_pool_ip |-> PoolHit(m),
          outbound_spike |-> OutboundSpike(m, h) /\ foreign,
          dos_spike      |-> dos,
          persistent_ext |-> HasHistory(h) /\ h.extMean >= 8 /\ foreign,
          net_out_sustained |-> NetOutSustained(m, h) /\ foreign,
          disk_write_net_out_sustained |-> m.diskWrite >= 1000 /\ NetOutSustained(m, h) /\ foreign,
          new_remote_ip_burst |-> NewRemoteIpBurst(m),
          external_conn_suspicious_owner |-> SuspiciousOwner(m) ]

ProcessSignals(m, h) ==
    [ known_miner   |-> \E p \in m.procs : IsMiner(p),
      temp_exec     |-> TempExec(m) # {},
      appdata_exec  |-> AppdataExec(m) # {},
      exec_path_suspicious |-> TempExec(m) \cup AppdataExec(m) # {},
      unknown_process_active |-> UnknownActive(m),
      persistent_miner |-> PersistentMiner(m, h),
      mining_process_or_pool |-> PoolHit(m) \/ \E p \in m.procs : IsMiner(p),
      process_recreation |-> ProcessRecreation(h.snaps) ]

OtherSignals(m) ==
    [ is_gaming    |-> Names(m) \cap GAME_RENDER_PROCESSES # {},
      is_compiling |-> Names(m) \cap COMPILE_ENCODE_PROCESSES # {},
      ml_anomaly   |-> m.ml < -1,
      single_core_full |-> SingleCoreFull(m) ]

Raised(signals) == {s \in DOMAIN signals : signals[s]}

(* What could not be collected raises no signal.                           *)
ExtractSignals(m, h, dos) ==
    Raised(ResourceSignals(m, h)) \cup Raised(OtherSignals(m))
    \cup (IF "network" \in m.missing THEN {} ELSE Raised(NetworkSignals(m, h, dos)))
    \cup (IF "process" \in m.missing THEN {} ELSE Raised(ProcessSignals(m, h)))
=============================================================================
