--------------------------- MODULE MCAnalyzeFlow ---------------------------
(* The instances of AnalyzeFlow that TLC checks: the numbers of            *)
(* scoring_policy.yaml, and one sample of each kind that the rules tell    *)
(* apart.                                                                  *)
EXTENDS AnalyzeFlow

MCThresholds == [observe |-> 5, suspicious |-> 9, high_risk |-> 14]
MCContextDiscounts == [startup |-> -1, security_scan |-> -2, maintenance_update |-> -2,
                       lab_agent |-> -1, class_or_free |-> -1]
MCScores == [cpu_plus_net |-> 2, disk_write_net_out |-> 5, unknown_proc_net |-> 5,
             appdata_net |-> 3, mining_known |-> 10, mining_pool_only |-> 8]
MCPromotion == [enabled |-> TRUE, medium |-> [signals |-> 3, categories |-> 2],
                high |-> [signals |-> 4, categories |-> 2]]
MinusFour == -4
MinusOne == -1

Program(name, path, cpu) == [name |-> name, path |-> path, cpu |-> cpu, pid |-> 1]

IdlePc == [gpu |-> 5, vram |-> 10, tensor |-> 0, sm |-> 0, cpu |-> 10, cores |-> 4,
           perCore |-> 4, coreMax |-> 20, mem |-> 40, inbound |-> 0, outbound |-> 0,
           diskWrite |-> 0, ext |-> 0, uniqueIps |-> 0, dupConns |-> 0, ml |-> 0,
           procs |-> {}, conns |-> {}, missing |-> {}, slot |-> "class",
           truncated |-> FALSE, gpuMissing |-> FALSE, topCpu |-> 0,
           contextHint |-> {}, localTypes |-> {}]
Calm == [n |-> 12, snaps |-> [i \in 1 .. 12 |-> {}], gpuStd |-> 20, gpuMean |-> 40,
         vramStd |-> 100, powerStd |-> 20, powerMean |-> 70, cpuStd |-> 20,
         inMean |-> 1000, outMean |-> 1000, extMean |-> 1]

QuietPc == [m |-> IdlePc, h |-> Calm, g |-> {"NORMAL"}]
(* A game takes away what an idle machine is given, down to a score of 0.  *)
GamingPc == [m |-> [IdlePc EXCEPT !.procs = {Program("game", "plain", 30)}], h |-> Calm,
             g |-> {"NORMAL"}]
MiningPc == [m |-> [IdlePc EXCEPT !.procs = {Program("miner", "plain", 50)}], h |-> Calm,
             g |-> {"NORMAL"}]
(* Every resource signal of a GPU miner without a known name, and more.    *)
LoadedPc == [m |-> [IdlePc EXCEPT !.gpu = 95, !.sm = 95, !.ext = 8, !.ml = -10],
           h |-> [Calm EXCEPT !.gpuStd = 2, !.powerStd = 5],
           g |-> {"HIGH_RISK"}]
(* Traffic and nothing else.                                               *)
FloodedPc == [m |-> [IdlePc EXCEPT !.inbound = 150000, !.outbound = 6000, !.ext = 10],
            h |-> [Calm EXCEPT !.extMean = 8],
            g |-> {"SUSPICIOUS"}]

MCSent == [gaming |-> GamingPc, mining |-> MiningPc,
           loaded |-> LoadedPc, flooded |-> FloodedPc]
QuietThenMining == [quiet |-> QuietPc, mining |-> MiningPc]
Threads == Permutations(Req)
=============================================================================
