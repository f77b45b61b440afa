----------------------------- MODULE MCComponents -----------------------------
(* The instances of Components that TLC checks.                            *)
EXTENDS Components

(* Threads of a kind behave alike.                                         *)
Alike == Permutations(FleetReq) \cup Permutations(Clearer)
-----------------------------------------------------------------------------
(* A PC with two minutes of samples, six of them in the baseline.          *)
Slot(warn) ==
    [cpu_warn |-> warn, cpu_critical |-> warn + 10, mem_warn |-> 80, mem_critical |-> 96,
     gpu_warn |-> warn, gpu_temp |-> 85]
MCDefaultSettings ==
    [mode |-> "springboot", spring_boot_url |-> "spring", ml_server_url |-> "ml",
     api_key |-> None, pc_id |-> None, queue_path |-> None,
     local_window_size |-> 2, hw_baseline_window |-> 6, normal_ports |-> {443},
     thresholds |-> [class |-> Slot(85), free |-> Slot(70)],
     absolute |-> [cpu |-> 90, mem |-> 95, gpu |-> 90, gpu_temp |-> 92],
     hw_degradation_ratio |-> 2]
MCSettingsFound ==
    {<<None, None, None>>, <<None, [thresholds |-> [class |-> Slot(85)]], None>>,
     <<Unreadable, None, None>>, <<[mode |-> "other"], None, None>>,
     <<None, None, [local_window_size |-> 0]>>}
MCEnvironment == {<<>>, [pc_id |-> "", queue_path |-> "", mode |-> "mlserver"]}
MCMoment == {[weekday |-> 4, hour |-> 17], [weekday |-> 4, hour |-> 18]}

Conn(ip, port, pid, internal) ==
    [ip |-> ip, port |-> port, pid |-> pid, local |-> 5000, internal |-> internal]
Gpu(load, temp, tensor) ==
    [error |-> None, total |-> 8, load |-> load, temp |-> temp, tensor |-> tensor, sm |-> load,
     power |-> None]
Calm ==
    [cpu |-> 20, mem |-> 40, perCore |-> <<20, 30>>, cores |-> 2, uptime |-> 5,
     received |-> 0, reset |-> FALSE, disk |-> 0,
     conns |-> <<Conn("a", 8080, 7, FALSE), Conn("a", 8080, 7, FALSE), Conn("b", 443, None, FALSE),
                 Conn("c", 22, 7, TRUE), Conn(None, 0, None, FALSE), Conn("d", 8080, None, FALSE)>>,
     owners |-> <<>>, connError |-> None,
     procs |-> <<[cpu |-> 10], None, [cpu |-> 40]>>, procError |-> None,
     gpu |-> Gpu(10, 60, None), ticks |-> [now |-> 1, input |-> 7]]
MCReading ==
    {Calm,
     [Calm EXCEPT !.cpu = 100, !.mem = 100, !.received = 2, !.disk = 3, !.gpu = Gpu(95, 95, 0),
                  !.procs = <<>>],
     [Calm EXCEPT !.cpu = 60, !.mem = 80, !.received = 1, !.reset = TRUE, !.disk = 1,
                  !.gpu = [Gpu(0, None, None) EXCEPT !.total = 0],
                  !.connError = "os_error", !.procError = "permission_error", !.ticks = None],
     [Calm EXCEPT !.received = None],
     [Calm EXCEPT !.disk = None, !.gpu.error = "no_gpu"]}
-----------------------------------------------------------------------------
MCBatch == {<<"p1">>, <<"p1", "p2">>, <<"p2", "p2">>}
MCPc0 == [p1 |-> None, p2 |-> [apiKey |-> Hash("salt", 0), active |-> TRUE]]
-----------------------------------------------------------------------------
W(cpu, gpu, idle, endpoints) ==
    [cpu |-> cpu, gpu |-> gpu, power |-> None, vram |-> 500, memGb |-> 2, outbound |-> 0,
     inbound |-> 0, idle |-> idle, disk |-> 0, endpoints |-> endpoints]
MCWindowSample == {W(95, 95, 40, {"a"}), W(10, None, None, {"b"})}
Two(thresholds) == thresholds @@ [minutes |-> 2]
MCPatterns ==
    [R1 |-> Two([cpu |-> 90, std |-> 5]), R2 |-> Two([gpu |-> 90, std |-> 5]),
     R3 |-> Two([cpu |-> 70, gpu |-> 70]), R4 |-> Two([gpu |-> 90, cpuMax |-> 65]),
     R5 |-> Two([power |-> 175, std |-> 5]), R7 |-> Two([vram |-> 1024, gpu |-> 80]),
     R8 |-> Two([memGb |-> 4, gpu |-> 80]), N2 |-> [minutes |-> 2],
     N4 |-> Two([outbound |-> 1, inbound |-> 0]), N5 |-> Two([least |-> 0, cv |-> 3]),
     S1 |-> Two([idle |-> 30, load |-> 90]), S3 |-> Two([load |-> 80, disk |-> 1]),
     S4 |-> Two([load |-> 80, memGb |-> 4])]
-----------------------------------------------------------------------------
GoodPolicy ==
    [version |-> "text", observe |-> 5, suspicious |-> 9, highRisk |-> 14,
     mlCap |-> 5, maxDiscount |-> -4, dangerDiscount |-> -1,
     scores |-> {2, 5}, discounts |-> {-1, -2},
     dos |-> [floor |-> 1, sustained |-> 2],
     episode |-> [decay |-> 12, alertCooldown |-> 600, aiCooldown |-> 600],
     promotion |-> [enabled |-> TRUE, mediumSignals |-> 3, mediumCategories |-> 2,
                    highSignals |-> 4, highCategories |-> 2]]
MCPolicyDocs ==
    {Unusable, [GoodPolicy EXCEPT !.observe = 9], [GoodPolicy EXCEPT !.maxDiscount = 1],
     [GoodPolicy EXCEPT !.promotion.mediumSignals = Junk],
     [GoodPolicy EXCEPT !.dos = [floor |-> -1, sustained |-> 0],
                        !.episode = [decay |-> Junk, alertCooldown |-> None, aiCooldown |-> -1],
                        !.promotion = None]}
GoodAllow == [version |-> "text", lists |-> {"names", None}]
MCAllowDocs == {GoodAllow, [GoodAllow EXCEPT !.lists = {Junk}]}
MCGoodDocs == [policy |-> GoodPolicy, allow |-> GoodAllow]
-----------------------------------------------------------------------------
MCDistance == [x \in {"a", "b"} \X {"a", "b"} |-> IF x[1] = x[2] THEN 0 ELSE 10]
Cpu(percent) == [cpu |-> percent, slot |-> "class", at |-> 0]
MCLatest0 ==
    {[p1 |-> None, p2 |-> Cpu(10), p3 |-> Cpu(10), p4 |-> Cpu(10)],
     [p1 |-> Cpu(10), p2 |-> Cpu(90), p3 |-> Cpu(90), p4 |-> None]}
MCStore0 ==
    [k \in 1 .. 2 |-> [pc |-> "p2", stamp |-> k - 1, shape |-> "a", verdict |-> "NORMAL"]]
Sent(pc, cpu, gpu, slot, shape) ==
    [pc |-> pc, cpu |-> cpu, gpu |-> gpu, slot |-> slot, shape |-> shape]
MCReport ==
    {Sent("p1", 90, 0, "class", "b"), Sent("p1", 10, 0, "class", "b"),
     Sent("p1", 10, 90, "class", "b"), Sent("p3", 10, 0, "free", None)}
=============================================================================
