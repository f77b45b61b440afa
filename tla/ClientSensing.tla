----------------------------- MODULE ClientSensing -----------------------------
(***************************************************************************)
(* What the client makes of the PC: client_core/config (its settings),     *)
(* collector (one sample every cycle), window (the last samples), and      *)
(* detector (alerts and the box plot).  The client is one thread that      *)
(* catches nothing here: what a collector or a detector raises ends it.    *)
(* A reading is what psutil, GPUtil, pynvml and Windows say in a cycle;    *)
(* counters are in units of the fourth decimal of a megabyte, to which the *)
(* code rounds, and shares in percent.                                     *)
(***************************************************************************)
EXTENDS Optional, Summing, SequencesExt

CONSTANTS
    Reading,        (* what a cycle may find                                 *)
    Moment,         (* when: [weekday, hour], Monday is 0                    *)
    SettingsFound,  (* what the places where config.yaml may be can hold:    *)
    Unreadable,     (* a mapping, None, or text that is no YAML              *)
    Environment,    (* the RADA_ variables                                   *)
    DefaultSettings,
    CAP,            (* connections that a sample lists                       *)
    TOP_N,          (* processes that a sample lists                         *)
    MinWindow,      (* min_window of the box plot                            *)
    DWORD,          (* values of a Windows tick counter                      *)
    MaxCycles, MaxBoots   (* bounds: samples, starts of the client           *)

ASSUME SensingAssumption ==
    /\ \A r \in Reading : /\ r.reset \in BOOLEAN /\ r.received \in Nat \cup {None}
                          /\ r.cpu \in 0 .. 100 \cup {None} /\ r.mem \in 0 .. 100
                          /\ r.disk \in Nat \cup {None}
                          /\ r.ticks # None => r.ticks.now \in Nat /\ r.ticks.input \in Nat
    /\ DWORD \in Nat \ {0}
    /\ MinWindow \in Nat /\ MinWindow >= 2
    /\ None \notin Int

VARIABLES
    sensor,         (* the process: "off", "warming", "running", "dead"      *)
    settings,       (* ClientConfig                                          *)
    netCount,       (* the counter of received bytes                         *)
    prevNet,        (* _prev of the network collector                        *)
    prevDisk,       (* _prev of the disk collector                           *)
    localWindow, hwBaseline,   (* the two windows, oldest first              *)
    sample,         (* the last sample and what the detectors made of it     *)
    reported,       (* history: the sum of the inbound_mb reported           *)
    traffic,        (* history: bytes received since the first collect       *)
    netReset,       (* history: the counter began anew since then            *)
    cycles, boots   (* histories: samples and starts                         *)

windowsVars == <<localWindow, hwBaseline>>
sensingVars == <<sensor, settings, netCount, prevNet, prevDisk, windowsVars, sample,
                 reported, traffic, netReset, cycles, boots>>
-----------------------------------------------------------------------------
(* The settings.  _discover_config_path takes the first file that exists;  *)
(* load_config lets the environment override what the file says.           *)
ValidModes == {"mlserver", "springboot"}
Discover(found) ==
    LET there == SelectSeq(found, LAMBDA doc : doc # None)
    IN  IF there = <<>> THEN <<>> ELSE Head(there)

FromDict(doc) == [f \in DOMAIN DefaultSettings |->
                     IF f \in DOMAIN doc THEN doc[f] ELSE DefaultSettings[f]]

(* An empty queue path turns the file off, an empty pc_id says nothing.    *)
Overridden(cfg, env) ==
    [f \in DOMAIN cfg |->
        IF f \notin DOMAIN env \/ (f = "pc_id" /\ env[f] = "") THEN cfg[f]
        ELSE IF f = "queue_path" /\ env[f] = "" THEN None
        ELSE env[f]]

LoadConfig(found, env) == Overridden(FromDict(Discover(found)), env)
LoadsConfig(found, env) ==
    /\ Discover(found) # Unreadable
    /\ FromDict(Discover(found)).mode \in ValidModes
    /\ LoadConfig(found, env).mode \in ValidModes
    /\ LoadConfig(found, env).local_window_size > 0
    /\ LoadConfig(found, env).hw_baseline_window > 0

TargetUrl(cfg) == IF cfg.mode = "springboot" THEN cfg.spring_boot_url ELSE cfg.ml_server_url
PcId(cfg) == IF cfg.pc_id \notin {None, ""} THEN cfg.pc_id ELSE "from the MAC or the host name"

TimeSlot(m) == IF m.weekday < 5 /\ 9 <= m.hour /\ m.hour < 18 THEN "class" ELSE "free"
-----------------------------------------------------------------------------
(* The collectors.  A counter becomes what was added since the last cycle. *)
Delta(prev, count) == IF prev = None THEN 0 ELSE Max({0, count - prev})

(* is_internal_ip and normal_ports leave the connections to be counted.    *)
External(conns) ==
    SelectSeq(conns, LAMBDA c : c.ip # None /\ ~c.internal /\ c.port \notin settings.normal_ports)
Shown(c, owners) == [ip |-> c.ip, port |-> c.port, pid |-> c.pid,
                     owner |-> IF c.pid \in DOMAIN owners THEN owners[c.pid] ELSE ""]

NetworkSample(r) ==
    LET raw == External(r.conns)
        Distinct(f) == Cardinality({raw[k][f] : k \in DOMAIN raw} \ {None})
        shown == SubSeq(raw, 1, Min({CAP, Len(raw)}))
    IN  [ count |-> Len(raw),
          connections |-> [k \in DOMAIN shown |-> Shown(shown[k], r.owners)],
          truncated |-> Len(raw) > CAP,
          ips |-> Distinct("ip"), ports |-> Distinct("port"), processes |-> Distinct("pid"),
          duplicates |-> Len(raw) - Cardinality({<<c.ip, c.port, c.pid>> : c \in Range(raw)}),
          active |-> UNION {{c.local} \cup (IF c.ip = None THEN {} ELSE {c.port}) :
                               c \in Range(r.conns)},
          reason |-> r.connError ]

(* The busiest processes; those that vanish or are hidden are passed over. *)
ProcessSample(r) ==
    LET readable == SelectSeq(r.procs, LAMBDA p : p # None)
        busiest == SortSeq(readable, LAMBDA a, b : a.cpu > b.cpu)
        share == [k \in DOMAIN busiest |-> busiest[k].cpu \div Max({1, r.cores})]
        top == SubSeq(share, 1, Min({TOP_N, Len(share)}))
    IN  IF r.procError # None THEN [top |-> <<>>, max |-> 0, sum |-> 0, reason |-> r.procError]
        ELSE [top |-> top, max |-> Max({0} \cup Range(top)),
              sum |-> FoldLeft(LAMBDA a, x : a + x, 0, top), reason |-> None]

(* Without a GPU there is a reason instead; what NVML does not say is None.*)
GpuSample(r) ==
    IF r.gpu.error # None THEN [gpu |-> None, reason |-> r.gpu.error, partial |-> {}]
    ELSE IF r.gpu.total = 0 THEN [gpu |-> None, reason |-> "unknown", partial |-> {}]
    ELSE [gpu |-> r.gpu, reason |-> None, partial |-> {f \in {"temp", "sm", "tensor", "power"} :
                                                          r.gpu[f] = None}]

(* GetLastInputInfo: the tick counters wrap around.                        *)
IdleSample(r) ==
    IF r.ticks = None THEN [ms |-> None, reason |-> "unavailable"]
    ELSE [ms |-> (r.ticks.now - r.ticks.input) % DWORD, reason |-> None]

CpuSample(r) == [cores |-> r.perCore, single |-> Max({0} \cup Range(r.perCore)),
                 uptime |-> Max({0, r.uptime})]

(* What raises: a PC without CPU, memory or network figures, a disk that   *)
(* was there in an earlier cycle.                                          *)
Collects(r) == r.cpu # None /\ r.received # None /\ (r.disk = None => prevDisk = None)
-----------------------------------------------------------------------------
(* ThresholdDetector and AbsoluteBreachDetector.                           *)
ThresholdAlerts(r, gpu, th) ==
    LET Levels(value, critical, warn, high, medium) ==
            IF value >= critical THEN {high} ELSE IF value >= warn THEN {medium} ELSE {}
    IN  Levels(r.cpu, th.cpu_critical, th.cpu_warn, "CPU_CRITICAL", "CPU_HIGH")
        \cup Levels(r.mem, th.mem_critical, th.mem_warn, "MEM_CRITICAL", "MEM_HIGH")
        \cup {a \in {"GPU_HIGH", "GPU_OVERHEAT", "TENSOR_CORE_ZERO"} :
                 /\ gpu # None
                 /\ a = "GPU_HIGH" => gpu.load >= th.gpu_warn
                 /\ a = "GPU_OVERHEAT" => gpu.temp \notin {None, 0} /\ gpu.temp >= th.gpu_temp
                 /\ a = "TENSOR_CORE_ZERO" => gpu.load >= 70 /\ gpu.tensor = 0}

AbsoluteAlerts(r, gpu, limit) ==
    {a \in {"ABSOLUTE_CPU", "ABSOLUTE_MEM", "ABSOLUTE_GPU", "ABSOLUTE_GPU_TEMP"} :
        /\ a = "ABSOLUTE_CPU" => r.cpu >= limit.cpu
        /\ a = "ABSOLUTE_MEM" => r.mem >= limit.mem
        /\ a \in {"ABSOLUTE_GPU", "ABSOLUTE_GPU_TEMP"} => gpu # None
        /\ a = "ABSOLUTE_GPU" => gpu.load >= limit.gpu
        /\ a = "ABSOLUTE_GPU_TEMP" => gpu.temp \notin {None, 0} /\ gpu.temp >= limit.gpu_temp}

(* HwDegradationDetector: means compared without dividing.                 *)
Sum(window, f) == Total([k \in DOMAIN window |-> window[k][f]])

(* A faulty comparison: the ratio is forgotten.                             *)
ExceedsMean(recent, base, f, floor) ==
    /\ Sum(base, f) > floor * Len(base)
    /\ Sum(recent, f) * Len(base) > Sum(base, f) * Len(recent)

Exceeds(recent, base, f, floor) ==
    /\ Sum(base, f) > floor * Len(base)
    /\ Sum(recent, f) * Len(base) > settings.hw_degradation_ratio * Sum(base, f) * Len(recent)

HwAlerts(recent, base) ==
    {a \in {"HW_CPU_DEGRADATION", "HW_MEM_DEGRADATION"} :
        /\ Len(base) >= settings.hw_baseline_window \div 2
        /\ Len(recent) >= settings.local_window_size \div 2
        /\ a = "HW_CPU_DEGRADATION" => Exceeds(recent, base, "cpu", 30)
        /\ a = "HW_MEM_DEGRADATION" => Exceeds(recent, base, "mem", 50)}

(* BoxplotDetector.  What numpy has at place k of the sorted values ...    *)
Ranked(v, k) ==
    CHOOSE x \in Range(v) : /\ Cardinality({j \in DOMAIN v : v[j] < x}) < k
                            /\ k <= Cardinality({j \in DOMAIN v : v[j] <= x})

(* ... and its quartiles, times four, of the earlier samples.              *)
Quartile(v, q) ==
    LET place == (Len(v) - 1) * q
        low == Ranked(v, place \div 4 + 1)
        high == Ranked(v, Min({Len(v), place \div 4 + 2}))
    IN  4 * low + (place % 4) * (high - low)

Outlier(window, f) ==
    LET earlier == [k \in 1 .. Len(window) - 1 |-> window[k][f]]
        q1 == Quartile(earlier, 1)
        q3 == Quartile(earlier, 3)
        current == 8 * Last(window)[f]
    IN  current > 2 * q3 + 3 * (q3 - q1) \/ current < 2 * q1 - 3 * (q3 - q1)

Boxplot(window) ==
    IF Len(window) < MinWindow THEN [available |-> FALSE, cpu |-> FALSE, mem |-> FALSE]
    ELSE [available |-> TRUE, cpu |-> Outlier(window, "cpu"), mem |-> Outlier(window, "mem")]
-----------------------------------------------------------------------------
NoSample == [alerts |-> {}, boxplot |-> [available |-> FALSE, cpu |-> FALSE, mem |-> FALSE],
             inbound |-> 0, disk |-> 0, idle |-> [ms |-> None, reason |-> "unavailable"]]

SensingInit ==
    /\ sensor = "off" /\ settings = DefaultSettings
    /\ netCount = 0 /\ prevNet = None /\ prevDisk = None
    /\ localWindow = <<>> /\ hwBaseline = <<>>
    /\ sample = NoSample
    /\ reported = 0 /\ traffic = 0 /\ netReset = FALSE
    /\ cycles = 0 /\ boots = 0

(* SlidingWindow.append                                                    *)
Slide(window, size, x) ==
    IF Len(window) >= size THEN Append(Tail(window), x) ELSE Append(window, x)

(* ClientRuntime's constructor.                                            *)
StartClient ==
    /\ sensor \in {"off", "dead"}
    /\ boots < MaxBoots
    /\ boots' = boots + 1
    /\ \E found \in SettingsFound, env \in Environment :
          IF LoadsConfig(found, env)
          THEN sensor' = "warming" /\ settings' = LoadConfig(found, env)
          ELSE sensor' = "dead" /\ UNCHANGED settings
    /\ prevNet' = None /\ prevDisk' = None
    /\ localWindow' = <<>> /\ hwBaseline' = <<>>
    /\ sample' = NoSample
    /\ reported' = 0 /\ traffic' = 0 /\ netReset' = FALSE
    /\ UNCHANGED <<netCount, cycles>>

(* A faulty collector: the first count stays the reference.                 *)
CollectCountersOnce(r) ==
    /\ netCount' = IF r.reset THEN r.received ELSE netCount + r.received
    /\ prevNet' = IF prevNet = None THEN netCount' ELSE prevNet
    /\ prevDisk' = r.disk
    /\ traffic' = IF prevNet = None THEN 0 ELSE traffic + r.received
    /\ netReset' = (prevNet # None /\ (netReset \/ r.reset))

(* collect, of the counters: both remember what they saw.                  *)
CollectCounters(r) ==
    /\ netCount' = IF r.reset THEN r.received ELSE netCount + r.received
    /\ prevNet' = netCount'
    /\ prevDisk' = r.disk
    /\ traffic' = IF prevNet = None THEN 0 ELSE traffic + r.received
    /\ netReset' = (prevNet # None /\ (netReset \/ r.reset))

(* run_forever drops the first sample ...                                  *)
Warmup ==
    /\ sensor = "warming"
    /\ \E r \in Reading : Collects(r) /\ CollectCounters(r)
    /\ sensor' = "running"
    /\ UNCHANGED <<settings, windowsVars, sample, reported, cycles, boots>>

(* ... and every other one goes through the windows and the detectors.     *)
Sense ==
    /\ sensor = "running"
    /\ cycles < MaxCycles
    /\ cycles' = cycles + 1
    /\ \E r \in Reading, m \in Moment :
          LET gpu == GpuSample(r).gpu
              entry == [cpu |-> r.cpu, mem |-> r.mem]
          IN  /\ Collects(r) /\ TimeSlot(m) \in DOMAIN settings.thresholds
              /\ CollectCounters(r)
              /\ localWindow' = Slide(localWindow, settings.local_window_size, entry)
              /\ hwBaseline' = Slide(hwBaseline, settings.hw_baseline_window, entry)
              /\ reported' = reported + Delta(prevNet, netCount')
              /\ sample' =
                    [ alerts |-> ThresholdAlerts(r, gpu, settings.thresholds[TimeSlot(m)])
                                 \cup AbsoluteAlerts(r, gpu, settings.absolute)
                                 \cup HwAlerts(localWindow', hwBaseline'),
                      boxplot |-> Boxplot(localWindow'),
                      inbound |-> Delta(prevNet, netCount'),
                      disk |-> IF r.disk = None THEN 0 ELSE Delta(prevDisk, r.disk),
                      idle |-> IdleSample(r), cpu |-> CpuSample(r), gpu |-> GpuSample(r),
                      network |-> NetworkSample(r), processes |-> ProcessSample(r),
                      pc |-> PcId(settings), to |-> TargetUrl(settings) ]
    /\ UNCHANGED <<sensor, settings, boots>>

(* A collector raises, or a detector that finds no thresholds for the slot.*)
SensingRaises ==
    /\ sensor \in {"warming", "running"}
    /\ \E r \in Reading, m \in Moment :
          \/ ~Collects(r)
          \/ sensor = "running" /\ TimeSlot(m) \notin DOMAIN settings.thresholds
    /\ sensor' = "dead"
    /\ UNCHANGED <<settings, netCount, prevNet, prevDisk, windowsVars, sample, reported,
                   traffic, netReset, cycles, boots>>

SensingNext == StartClient \/ Warmup \/ Sense \/ SensingRaises
SensingSpec == SensingInit /\ [][SensingNext]_sensingVars
-----------------------------------------------------------------------------
(* The windows keep their sizes, and the short one is the end of the long. *)
SensingTypeOK ==
    /\ Len(localWindow) <= settings.local_window_size
    /\ Len(hwBaseline) <= settings.hw_baseline_window
    /\ Len(localWindow) <= Len(hwBaseline) => IsSuffix(localWindow, hwBaseline)
    /\ sample.inbound >= 0 /\ sample.disk >= 0
    /\ sample.idle.ms # None => sample.idle.ms \in 0 .. DWORD - 1

(* Every byte received since the first collect is reported in one sample,  *)
(* whatever the counter was before; when the counter begins anew, some may *)
(* go unreported, but none is made up.                                     *)
DeltasAddUp == reported <= traffic /\ (~netReset => reported = traffic)

(* Nothing is called ageing unless the PC was at most half as busy before  *)
(* the recent window, nothing an outlier while the window is constant; and *)
(* memory is never called ageing: twice a mean above 50 % is above 100 %.  *)
AlertNeedsRise ==
    LET older == SubSeq(hwBaseline, 1, Len(hwBaseline) - Len(localWindow))
        steady == Cardinality(Range(localWindow)) = 1
    IN  /\ "HW_CPU_DEGRADATION" \in sample.alerts =>
              \E a \in Range(older), b \in Range(localWindow) :
                  settings.hw_degradation_ratio * a.cpu < b.cpu /\ b.cpu > 60
        /\ "HW_MEM_DEGRADATION" \notin sample.alerts
        /\ steady => ~sample.boxplot.cpu /\ ~sample.boxplot.mem
=============================================================================
