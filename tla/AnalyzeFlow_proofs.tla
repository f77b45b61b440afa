------------------------- MODULE AnalyzeFlow_proofs -------------------------
(***************************************************************************)
(* Proofs about the analysis of a sample, for any samples, policies and    *)
(* numbers of requests, clears and reloads: first what the rules compute   *)
(* (sums of points, ranks, the gate, the cap, the axes), then what the     *)
(* requests keep while they overlap.                                       *)
(***************************************************************************)
EXTENDS AnalyzeFlow, FiniteSetTheorems, WellFoundedInduction, TLAPS

(* Every nonempty set of subsets of a finite set has a smallest one.       *)
LEMMA FiniteMinimum ==
    ASSUME NEW S, IsFiniteSet(S), NEW Q \in SUBSET SUBSET S, Q # {}
    PROVE  \E T \in Q : \A U \in SUBSET T : U # T => U \notin Q
<1>1. IsWellFoundedOn(StrictSubsetOrdering(S), SUBSET S)
  BY FS_StrictSubsetOrderingWellFounded, FS_FiniteSubsetsOfFinite
<1>2. PICK T \in Q : \A U \in Q : ~ (<<U, T>> \in StrictSubsetOrdering(S))
  BY <1>1, WFMin
<1>3. ASSUME NEW U \in SUBSET T, U # T, U \in Q PROVE FALSE
  <2>1. <<U, T>> \in StrictSubsetOrdering(S)
    BY <1>3 DEF StrictSubsetOrdering
  <2> QED BY <2>1, <1>2, <1>3
<1> QED BY <1>2, <1>3

(* The sum of F over S, as the folds of the community modules compute it.  *)
PickOne(s) == CHOOSE x \in s : TRUE
SumStep(F, g, s) == IF s = {} THEN 0 ELSE F[PickOne(s)] + g[s \ {PickOne(s)}]
Sums(F, S, g) == g = [s \in SUBSET S |-> SumStep(F, g, s)]
Total(F, S) == (CHOOSE g : Sums(F, S, g))[S]

(* MapThenSumSet, by which the rules add points, is this Total.            *)
LEMMA SumIsTotal == ASSUME NEW F, NEW S PROVE MapThenSumSet(LAMBDA s : F[s], S) = Total(F, S)
BY SMT DEF MapThenSumSet, MapThenFoldSet, PickOne, SumStep, Sums, Total

(* What the function says of a subset.                                     *)
LEMMA SumsAt ==
    ASSUME NEW F, NEW S, NEW g, Sums(F, S, g), NEW U \in SUBSET S
    PROVE  g[U] = SumStep(F, g, U)
BY DEF Sums

(* Two such functions agree where both are defined.                        *)
LEMMA SumsAgree ==
    ASSUME NEW F, NEW S, IsFiniteSet(S), NEW T \in SUBSET S,
           NEW g, Sums(F, S, g), NEW h, Sums(F, T, h),
           NEW U \in SUBSET T
    PROVE  g[U] = h[U]
<1> DEFINE Q == {u \in SUBSET T : g[u] # h[u]}
<1>1. SUFFICES ASSUME Q # {} PROVE FALSE
  OBVIOUS
<1>2. IsFiniteSet(T)
  BY FS_Subset
<1>3. PICK u \in Q : \A v \in SUBSET u : v # u => v \notin Q
  BY <1>1, <1>2, FiniteMinimum
<1>4. u \in SUBSET S /\ u \in SUBSET T
  BY <1>3
<1>5. g[u] = SumStep(F, g, u) /\ h[u] = SumStep(F, h, u)
  BY <1>4 DEF Sums
<1>6. CASE u = {}
  BY <1>3, <1>5, <1>6 DEF SumStep
<1>7. CASE u # {}
  <2>1. PickOne(u) \in u
    BY <1>7 DEF PickOne
  <2>2. g[u \ {PickOne(u)}] = h[u \ {PickOne(u)}]
    BY <2>1, <1>3
  <2> QED
    BY <1>3, <1>5, <1>7, <2>2 DEF SumStep
<1> QED
  BY <1>6, <1>7

(* Over a finite set there is such a function.                             *)
LEMMA SumsExist ==
    ASSUME NEW F, NEW S, IsFiniteSet(S)
    PROVE  \E g : Sums(F, S, g)
<1> DEFINE Q == {T \in SUBSET S : ~ \E g : Sums(F, T, g)}
<1>1. SUFFICES ASSUME Q # {} PROVE FALSE
  OBVIOUS
<1>2. Q \in SUBSET SUBSET S
  OBVIOUS
<1>3. PICK T \in Q : \A U \in SUBSET T : U # T => U \notin Q
  <2> HIDE DEF Q
  <2> QED
    BY <1>1, <1>2, FiniteMinimum
<1> DEFINE f(U) == CHOOSE g : Sums(F, U, g)
           G == [U \in SUBSET T |-> IF U = {} THEN 0
                                    ELSE F[PickOne(U)] + f(U \ {PickOne(U)})[U \ {PickOne(U)}]]
<1>4. ASSUME NEW U \in SUBSET T, U # T PROVE IsFiniteSet(U) /\ Sums(F, U, f(U))
  <2>1. \E g : Sums(F, U, g)
    BY <1>3, <1>4
  <2> QED
    BY <2>1, FS_Subset
<1>5. ASSUME NEW U \in SUBSET T PROVE G[U] = SumStep(F, G, U)
  <2>1. CASE U = {}
    BY <2>1 DEF SumStep
  <2>2. CASE U # {}
    <3> DEFINE V == U \ {PickOne(U)}
    <3>1. V \in SUBSET T /\ V # T
      BY <2>2 DEF PickOne
    <3>2. CASE V = {}
      <4>1. f(V)[V] = 0
        <5>1. Sums(F, V, f(V)) /\ V \in SUBSET V
          BY <1>4, <3>1
        <5> HIDE DEF f, V
        <5> QED
          BY <3>2, <5>1, SumsAt DEF SumStep
      <4>2. G[V] = 0
        BY <3>1, <3>2
      <4> HIDE DEF f
      <4> QED
        BY <2>2, <4>1, <4>2 DEF SumStep
    <3>3. CASE V # {}
      <4> DEFINE W == V \ {PickOne(V)}
      <4>1. W \in SUBSET V /\ W \in SUBSET T /\ W # T
        BY <3>1
      <4>2. f(V)[V] = F[PickOne(V)] + f(V)[W]
        <5>1. Sums(F, V, f(V)) /\ V \in SUBSET V
          BY <1>4, <3>1
        <5> HIDE DEF f, V
        <5> QED
          BY <3>3, <5>1, SumsAt DEF SumStep
      <4>3. f(V)[W] = f(W)[W]
        <5>1. /\ IsFiniteSet(V) /\ V \in SUBSET V /\ W \in SUBSET W
              /\ Sums(F, V, f(V)) /\ Sums(F, W, f(W))
          BY <1>4, <3>1, <4>1
        <5> HIDE DEF f, W, V
        <5> QED
          BY <4>1, <5>1, SumsAgree
      <4>4. G[V] = f(V)[V]
        BY <3>1, <3>3, <4>2, <4>3
      <4> QED
        BY <2>2, <4>4 DEF SumStep
    <3> QED
      BY <3>2, <3>3
  <2> QED
    BY <2>1, <2>2
<1>6. Sums(F, T, G)
  BY <1>5 DEF Sums
<1> QED
  BY <1>3, <1>6

(* The sum over a set is the value of one element and the sum of the rest. *)
LEMMA SumUnfold ==
    ASSUME NEW F, NEW S, IsFiniteSet(S), S # {}
    PROVE  \E x \in S : Total(F, S) = F[x] + Total(F, S \ {x})
<1> DEFINE x == PickOne(S)
           T == S \ {x}
           g == CHOOSE gg : Sums(F, S, gg)
           h == CHOOSE hh : Sums(F, T, hh)
<1>1. x \in S
  BY DEF PickOne
<1>2. IsFiniteSet(T)
  BY FS_Subset
<1>3. Sums(F, S, g) /\ Sums(F, T, h)
  BY <1>2, SumsExist
<1>4. g[T] = h[T]
  <2>1. T \in SUBSET S /\ T \in SUBSET T
    OBVIOUS
  <2> HIDE DEF g, h, T, x
  <2> QED
    BY <1>3, <2>1, SumsAgree
<1>5. g[S] = F[x] + g[T]
  BY <1>3 DEF Sums, SumStep
<1> QED
  BY <1>1, <1>4, <1>5 DEF Total

(* No element, no points.                                                  *)
LEMMA SumEmpty == ASSUME NEW F PROVE Total(F, {}) = 0
<1>1. Sums(F, {}, CHOOSE g : Sums(F, {}, g))
  BY SumsExist, FS_EmptySet
<1> QED
  BY <1>1 DEF Sums, SumStep, Total

(* A finite sum of integers is an integer.                                 *)
LEMMA SumInt ==
    ASSUME NEW F, NEW S, IsFiniteSet(S), \A x \in S : F[x] \in Int
    PROVE  Total(F, S) \in Int
<1> DEFINE Q == {T \in SUBSET S : Total(F, T) \notin Int}
<1>1. SUFFICES ASSUME Q # {} PROVE FALSE
  OBVIOUS
<1>2. PICK T \in Q : \A U \in SUBSET T : U # T => U \notin Q
  <2>1. Q \in SUBSET SUBSET S
    OBVIOUS
  <2> HIDE DEF Q
  <2> QED
    BY <1>1, <2>1, FiniteMinimum
<1>3. T # {}
  <2>1. Total(F, {}) \in Int
    BY SumEmpty
  <2> QED
    BY <1>2, <2>1
<1>4. PICK x \in T : Total(F, T) = F[x] + Total(F, T \ {x})
  BY <1>2, <1>3, SumUnfold, FS_Subset
<1>5. Total(F, T \ {x}) \in Int
  BY <1>2, <1>4
<1> QED
  BY <1>2, <1>4, <1>5

(* What a list of n names covers is finite.                                *)
LEMMA FiniteRange ==
    ASSUME NEW n \in Nat, NEW s, NEW T, \A x \in T : \E i \in 1 .. n : s[i] = x
    PROVE  IsFiniteSet(T)
<1> DEFINE f == [x \in T |-> CHOOSE i \in 1 .. n : s[i] = x]
<1>1. f \in [T -> 1 .. n] /\ \A x \in T : s[f[x]] = x
  OBVIOUS
<1>2. f \in Injection(T, 1 .. n)
  <2> HIDE DEF f
  <2> QED
    BY <1>1 DEF Injection, IsInjective
<1>3. IsFiniteSet(1 .. n)
  BY FS_Interval
<1> QED
  BY <1>2, <1>3, FS_Injection

(* The signals of signal_extractor.py.                                     *)
SignalNames ==
    << "gpu_active", "gpu_high", "gpu_flat", "gpu_cpu_gap", "vram_low", "vram_stable",
       "power_stable", "tensor_inactive", "sm_high", "stealth_mismatch_power",
       "stealth_mismatch_vram", "cpu_high", "cpu_flat", "mem_critical", "mem_high",
       "net_external_high", "spike_count_1m", "mining_pool_ip", "outbound_spike", "dos_spike",
       "persistent_ext", "net_out_sustained", "disk_write_net_out_sustained",
       "new_remote_ip_burst", "external_conn_suspicious_owner", "known_miner", "temp_exec",
       "appdata_exec", "exec_path_suspicious", "unknown_process_active", "persistent_miner",
       "mining_process_or_pool", "process_recreation", "is_gaming", "is_compiling",
       "ml_anomaly", "single_core_full" >>
Signal == {SignalNames[i] : i \in 1 .. 37}

(* Signals are finitely many.                                              *)
LEMMA SignalsFinite == ASSUME NEW S \in SUBSET Signal PROVE IsFiniteSet(S)
<1>1. \A x \in S : \E i \in 1 .. 37 : SignalNames[i] = x
  BY DEF Signal
<1> DEFINE n == 37
<1>2. n \in Nat
  OBVIOUS
<1>3. \A x \in S : \E i \in 1 .. n : SignalNames[i] = x
  BY <1>1
<1> HIDE DEF n, SignalNames, Signal
<1> QED
  BY <1>2, <1>3, FiniteRange

(* Step by step: extract_signals raises no other signal..                  *)
LEMMA ExtractedSignals ==
    ASSUME NEW m, NEW h, NEW dos
    PROVE  ExtractSignals(m, h, dos) \in SUBSET Signal
<1>1. DOMAIN ResourceSignals(m, h) \subseteq Signal
  BY DEF ResourceSignals, Signal, SignalNames
<1>2. DOMAIN NetworkSignals(m, h, dos) \subseteq Signal
  BY DEF NetworkSignals, Signal, SignalNames
<1>3. DOMAIN ProcessSignals(m, h) \subseteq Signal
  BY DEF ProcessSignals, Signal, SignalNames
<1>4. DOMAIN OtherSignals(m) \subseteq Signal
  BY DEF OtherSignals, Signal, SignalNames
<1> HIDE DEF Signal
<1> QED
  BY <1>1, <1>2, <1>3, <1>4 DEF ExtractSignals, Raised

(* Points are such a sum.                                                  *)
LEMMA PointsTotal ==
    ASSUME NEW S, NEW table
    PROVE  Points(S, table) = Total(table, S \cap DOMAIN table)
BY SMT DEF Points, MapThenSumSet, MapThenFoldSet, PickOne, SumStep, Sums, Total

(* Points of integers are an integer.                                      *)
LEMMA PointsInt ==
    ASSUME NEW S \in SUBSET Signal, NEW table, \A s \in DOMAIN table : table[s] \in Int
    PROVE  Points(S, table) \in Int
<1>1. IsFiniteSet(S \cap DOMAIN table)
  BY SignalsFinite
<1> QED
  BY <1>1, PointsTotal, SumInt

(* A bonus of an integer is an integer.                                    *)
LEMMA IfInt ==
    ASSUME NEW c, NEW n \in Int
    PROVE  If(c, n) \in Int
BY DEF If

(* Every indicator of calculate_indicators is an integer.                  *)
LEMMA IndicatorsInt ==
    ASSUME NEW S \in SUBSET Signal
    PROVE  /\ GpuMining(S) \in Int /\ CpuMining(S) \in Int /\ Stealth(S) \in Int
           /\ Exfil(S) \in Int /\ Process(S) \in Int /\ Dos(S) \in Int /\ Memory(S) \in Int
<1>1. GpuMining(S) \in Int
  BY PointsInt, IfInt DEF GpuMining
<1>2. CpuMining(S) \in Int
  BY PointsInt, IfInt DEF CpuMining
<1>3. Stealth(S) \in Int
  BY PointsInt, IfInt DEF Stealth
<1>4. Exfil(S) \in Int
  BY PointsInt DEF Exfil
<1>5. Process(S) \in Int
  BY PointsInt DEF Process
<1>6. Dos(S) \in Int
  BY PointsInt DEF Dos
<1>7. Memory(S) \in Int
  BY PointsInt, IfInt DEF Memory
<1> QED
  BY <1>1, <1>2, <1>3, <1>4, <1>5, <1>6, <1>7
-----------------------------------------------------------------------------
(* The order of verdicts and of severities.                                *)
LEMMA Ranks ==
    /\ Rank(Verdicts, "NORMAL") = 1 /\ Rank(Verdicts, "OBSERVE") = 2
    /\ Rank(Verdicts, "SUSPICIOUS") = 3 /\ Rank(Verdicts, "HIGH_RISK") = 4
    /\ Rank(Severities, "NORMAL") = 1 /\ Rank(Severities, "LOW") = 2
    /\ Rank(Severities, "MEDIUM") = 3 /\ Rank(Severities, "HIGH") = 4
<1>1. DOMAIN Verdicts = 1 .. 4 /\ DOMAIN Severities = 1 .. 4
  BY DEF Verdicts, Severities
<1> DEFINE at(order, x, i) == i \in 1 .. 4 /\ order[i] = x
<1>2. \A i \in 1 .. 4 : i = 1 \/ i = 2 \/ i = 3 \/ i = 4
  OBVIOUS
<1> QED
  BY <1>1, <1>2 DEF Rank, Verdicts, Severities

(* The names of the verdicts and of the severities.                        *)
LEMMA VerdictSets ==
    /\ ToSet(Verdicts) = {"NORMAL", "OBSERVE", "SUSPICIOUS", "HIGH_RISK"}
    /\ ToSet(Severities) = {"NORMAL", "LOW", "MEDIUM", "HIGH"}
<1>1. DOMAIN Verdicts = 1 .. 4 /\ DOMAIN Severities = 1 .. 4
  BY DEF Verdicts, Severities
<1>2. \A i \in 1 .. 4 : i = 1 \/ i = 2 \/ i = 3 \/ i = 4
  OBVIOUS
<1> QED
  BY <1>1, <1>2 DEF ToSet, Verdicts, Severities

(* The severity of each verdict.                                           *)
LEMMA SeveritiesOf ==
    /\ SeverityOf("NORMAL") = "NORMAL" /\ SeverityOf("OBSERVE") = "LOW"
    /\ SeverityOf("SUSPICIOUS") = "MEDIUM" /\ SeverityOf("HIGH_RISK") = "HIGH"
BY Ranks DEF SeverityOf, Severities

(* Max of two integers is the greater.                                     *)
LEMMA MaxTwo ==
    ASSUME NEW a \in Int, NEW b \in Int
    PROVE  /\ Max({a, b}) \in {a, b} /\ Max({a, b}) >= a /\ Max({a, b}) >= b
<1>1. \E x \in {a, b} : \A y \in {a, b} : x >= y
  BY a >= b \/ b >= a
<1> QED
  BY <1>1 DEF Max

(* Min of two integers is an integer.                                      *)
LEMMA MinTwo ==
    ASSUME NEW a \in Int, NEW b \in Int
    PROVE  Min({a, b}) \in Int
<1>1. \E x \in {a, b} : \A y \in {a, b} : x =< y
  BY a =< b \/ b =< a
<1> QED
  BY <1>1 DEF Min

(* At least a natural number is a natural number.                          *)
LEMMA MaxNat ==
    ASSUME NEW a \in Nat, NEW b \in Int
    PROVE  Max({a, b}) \in Nat
<1>1. Max({a, b}) \in {a, b} /\ Max({a, b}) >= a
  BY MaxTwo
<1> QED
  BY <1>1

(* A score below zero counts as zero.                                      *)
LEMMA MaxZero ==
    ASSUME NEW b \in Int
    PROVE  Max({0, b}) \in Nat
<1> DEFINE a == 0
<1>1. a \in Nat
  OBVIOUS
<1>2. Max({a, b}) \in Nat
  <2> HIDE DEF a
  <2> QED
    BY <1>1, MaxNat
<1> QED
  BY <1>2

(* At least one is a natural number.                                       *)
LEMMA MaxOne ==
    ASSUME NEW b \in Int
    PROVE  Max({1, b}) \in Nat
<1> DEFINE a == 1
<1>1. a \in Nat
  OBVIOUS
<1>2. Max({a, b}) \in Nat
  <2> HIDE DEF a
  <2> QED
    BY <1>1, MaxNat
<1> QED
  BY <1>2

(* The points of the model are an integer.                                 *)
LEMMA MlPointsInt ==
    ASSUME NEW S, NEW p, p.ml \in Int, MlCap \in Int
    PROVE  MlPoints(S, p) \in Int
<1> DEFINE strong == Max({1, (0 - p.ml) \div 2})
           least == Min({MlCap, strong})
           given == If("ml_anomaly" \in S, least)
<1>1. strong \in Nat
  <2> DEFINE half == (0 - p.ml) \div 2
  <2>1. half \in Int
    OBVIOUS
  <2> HIDE DEF half
  <2>2. Max({1, half}) \in Nat
    BY <2>1, MaxOne
  <2> QED
    BY <2>2 DEF half
<1>2. least \in Int
  <2> HIDE DEF strong
  <2> QED
    BY <1>1, MinTwo
<1>3. given \in Int
  <2> HIDE DEF least
  <2> QED
    BY <1>2, IfInt
<1>4. Max({0, given - 2}) \in Int
  <2> DEFINE less == given - 2
  <2>1. less \in Int
    <3> HIDE DEF given
    <3> QED
      BY <1>3
  <2> HIDE DEF less
  <2>2. Max({0, less}) \in Nat
    BY <2>1, MaxZero
  <2> QED
    BY <2>2 DEF less
<1>5. MlPoints(S, p) \in {Max({0, given - 2}), given}
  BY DEF MlPoints
<1> HIDE DEF given
<1> QED
  BY <1>3, <1>4, <1>5

(* The raw score is the sum of the indicators.                             *)
LEMMA RawScoreTotal ==
    ASSUME NEW i
    PROVE  RawScore(i) = Total(i, DOMAIN i)
BY SMT DEF RawScore, MapThenSumSet, MapThenFoldSet, PickOne, SumStep, Sums, Total

(* The indicators are finitely many.                                       *)
LEMMA IndicatorNames ==
    IsFiniteSet({"gpu_mining", "cpu_mining", "stealth", "exfil", "process", "dos", "backdoor",
                 "mem", "ml"})
<1> DEFINE n == 9
           s == <<"gpu_mining", "cpu_mining", "stealth", "exfil", "process", "dos", "backdoor",
                  "mem", "ml">>
           T == {"gpu_mining", "cpu_mining", "stealth", "exfil", "process", "dos", "backdoor",
                 "mem", "ml"}
<1>1. n \in Nat /\ \A x \in T : \E i \in 1 .. n : s[i] = x
  OBVIOUS
<1>2. IsFiniteSet(T)
  <2> HIDE DEF n, s, T
  <2> QED
    BY <1>1, FiniteRange
<1> QED
  BY <1>2

(* The score of a sample is a natural number, whatever its signals.        *)
LEMMA ScoreNat ==
    ASSUME NEW S \in SUBSET Signal, NEW p, p.ml \in Int, MlCap \in Int
    PROVE  Adjusted(S, Indicators(S, p)) \in Nat
<1> DEFINE i == Indicators(S, p)
<1>1. \A k \in DOMAIN i : i[k] \in Int
  BY IndicatorsInt, MlPointsInt DEF Indicators
<1>2. IsFiniteSet(DOMAIN i) /\ "process" \in DOMAIN i
  BY IndicatorNames DEF Indicators
<1>3. RawScore(i) \in Int /\ i.process \in Int
  <2> HIDE DEF i
  <2> QED
    BY <1>1, <1>2, RawScoreTotal, SumInt
<1>4. Multiplier(S) \in Int
  BY DEF Multiplier
<1> DEFINE e == 10 * i.process + (RawScore(i) - i.process) * Multiplier(S)
<1>5. e \in Int
  <2> HIDE DEF i
  <2> QED
    BY <1>3, <1>4
<1>6. Max({0, e}) \in Nat
  <2> HIDE DEF e
  <2> QED
    BY <1>5, MaxZero
<1> QED
  BY <1>6 DEF Adjusted

(* The sum over at most one element.                                       *)
LEMMA SumOfOne ==
    ASSUME NEW F, NEW x, NEW V \in SUBSET {x}, F[x] \in Nat
    PROVE  Total(F, V) = 0 \/ Total(F, V) = F[x]
<1>1. CASE V = {}
  BY <1>1, SumEmpty
<1>2. CASE V # {}
  <2>1. V = {x} /\ IsFiniteSet(V)
    <3>1. IsFiniteSet({x})
      BY FS_Singleton
    <3> QED
      BY <1>2, <3>1
  <2>2. PICK y \in V : Total(F, V) = F[y] + Total(F, V \ {y})
    BY <1>2, <2>1, SumUnfold
  <2>3. V \ {y} = {} /\ y = x
    BY <2>1
  <2>4. Total(F, V) = F[x] + Total(F, {})
    BY <2>2, <2>3
  <2> QED
    BY <2>4, SumEmpty
<1> QED
  BY <1>1, <1>2

(* The sum over at most two elements.                                      *)
LEMMA SumOfTwo ==
    ASSUME NEW F, NEW a, NEW b, NEW U \in SUBSET {a, b}, F[a] \in Nat, F[b] \in Nat
    PROVE  Total(F, U) \in 0 .. F[a] + F[b]
<1>1. IsFiniteSet(U)
  <2>1. IsFiniteSet({a})
    BY FS_Singleton
  <2>2. IsFiniteSet({a} \cup {b})
    BY <2>1, FS_AddElement
  <2>3. U \in SUBSET ({a} \cup {b})
    OBVIOUS
  <2> QED
    BY <2>2, <2>3, FS_Subset
<1>2. CASE U = {}
  BY <1>2, SumEmpty
<1>3. CASE U # {}
  <2>1. PICK x \in U : Total(F, U) = F[x] + Total(F, U \ {x})
    BY <1>3, <1>1, SumUnfold
  <2>2. CASE x = a
    <3>1. U \ {x} \in SUBSET {b}
      BY <2>2
    <3>2. Total(F, U \ {x}) = 0 \/ Total(F, U \ {x}) = F[b]
      BY <3>1, SumOfOne
    <3> QED
      BY <2>1, <2>2, <3>2
  <2>3. CASE x = b
    <3>1. U \ {x} \in SUBSET {a}
      BY <2>3
    <3>2. Total(F, U \ {x}) = 0 \/ Total(F, U \ {x}) = F[a]
      BY <3>1, SumOfOne
    <3> QED
      BY <2>1, <2>3, <3>2
  <2> QED
    BY <2>2, <2>3
<1> QED
  BY <1>2, <1>3

(* Only a process that is known to mine opens the fast path.               *)
LEMMA FastPathNeedsMiner ==
    ASSUME NEW S, NEW p, FastPath(Indicators(S, p))
    PROVE  "known_miner" \in S
<1> DEFINE table == [known_miner |-> 10, persistent_miner |-> 3, temp_exec |-> 1]
           U == S \cap DOMAIN table
<1>1. SUFFICES ASSUME "known_miner" \notin S PROVE FALSE
  OBVIOUS
<1>2. U \in SUBSET {"persistent_miner", "temp_exec"}
  BY <1>1
<1>3. table["persistent_miner"] = 3 /\ table["temp_exec"] = 1
  OBVIOUS
<1>4. Total(table, U) \in 0 .. 4
  <2> DEFINE a == "persistent_miner"
             b == "temp_exec"
  <2>1. U \in SUBSET {a, b} /\ table[a] = 3 /\ table[b] = 1
    BY <1>2, <1>3
  <2> HIDE DEF U, table, a, b
  <2>2. U \in SUBSET {a, b} /\ table[a] \in Nat /\ table[b] \in Nat
    BY <2>1
  <2>3. Total(table, U) \in 0 .. table[a] + table[b]
    BY <2>2, SumOfTwo
  <2> QED
    BY <2>1, <2>3
<1>5. Process(S) = Total(table, U)
  BY PointsTotal DEF Process
<1>6. Indicators(S, p).process = Process(S)
  BY DEF Indicators
<1> QED
  BY <1>4, <1>5, <1>6 DEF FastPath
-----------------------------------------------------------------------------
(* A function to the integers has a greatest value on a finite set.        *)
LEMMA FiniteGreatest ==
    ASSUME NEW S, IsFiniteSet(S), S # {}, NEW f \in [S -> Int]
    PROVE  \E x \in S : \A y \in S : f[x] >= f[y]
<1> DEFINE P == {T \in SUBSET S : T # {} /\ ~ \E x \in T : \A y \in T : f[x] >= f[y]}
<1>1. SUFFICES ASSUME P # {} PROVE FALSE
  OBVIOUS
<1>2. P \in SUBSET SUBSET S
  OBVIOUS
<1>3. PICK T \in P : \A U \in SUBSET T : U # T => U \notin P
  <2> HIDE DEF P
  <2> QED
    BY <1>1, <1>2, FiniteMinimum
<1>4. PICK a \in T : TRUE
  BY <1>3
<1>5. T \ {a} \in SUBSET T /\ T \ {a} # T /\ T \in SUBSET S
  BY <1>3, <1>4
<1>6. \A x \in T : f[x] \in Int
  BY <1>5
<1>7. CASE T \ {a} = {}
  <2>1. \A y \in T : f[a] >= f[y]
    BY <1>4, <1>6, <1>7
  <2> QED
    BY <1>3, <1>4, <2>1
<1>8. CASE T \ {a} # {}
  <2>1. PICK x \in T \ {a} : \A y \in T \ {a} : f[x] >= f[y]
    BY <1>3, <1>5, <1>8
  <2>2. CASE f[x] >= f[a]
    <3>1. \A y \in T : f[x] >= f[y]
      BY <2>1, <2>2
    <3> QED
      BY <1>3, <2>1, <3>1
  <2>3. CASE ~ (f[x] >= f[a])
    <3>1. \A y \in T : f[a] >= f[y]
      BY <1>4, <1>6, <2>1, <2>3
    <3> QED
      BY <1>3, <1>4, <3>1
  <2> QED
    BY <2>2, <2>3
<1> QED
  BY <1>7, <1>8

(* Of a list of numbers the axes take the first of the highest.            *)
LEMMA FirstOfHighest ==
    ASSUME NEW n \in Nat \ {0}, NEW v \in [1 .. n -> Int]
    PROVE  \E top \in Int :
              /\ top = Max({v[k] : k \in 1 .. n})
              /\ Min({k \in 1 .. n : v[k] = top}) \in {k \in 1 .. n : v[k] = top}
<1> DEFINE V == {v[k] : k \in 1 .. n}
           K == {k \in 1 .. n : v[k] = Max(V)}
<1>1. IsFiniteSet(1 .. n) /\ 1 .. n # {}
  <2>1. 1 \in 1 .. n
    OBVIOUS
  <2>2. IsFiniteSet(1 .. n)
    BY FS_Interval
  <2> QED
    BY <2>1, <2>2
<1>2. PICK x \in 1 .. n : \A y \in 1 .. n : v[x] >= v[y]
  BY <1>1, FiniteGreatest
<1>3. Max(V) \in V
  <2>1. v[x] \in V /\ \A y \in V : v[x] >= y
    BY <1>2
  <2> HIDE DEF V
  <2> QED
    BY <2>1 DEF Max
<1>4. PICK k \in 1 .. n : v[k] = Max(V)
  BY <1>3
<1>5. k \in K /\ K \in SUBSET (1 .. n) /\ K \in SUBSET Nat /\ IsFiniteSet(K)
  <2>1. k \in K /\ K \in SUBSET (1 .. n)
    BY <1>4
  <2>2. IsFiniteSet(K)
    <3> HIDE DEF K
    <3> QED
      BY <1>1, <2>1, FS_Subset
  <2>3. K \in SUBSET Nat
    OBVIOUS
  <2> QED
    BY <2>1, <2>2, <2>3
<1>6. Min(K) \in K
  <2> DEFINE f == [i \in K |-> 0 - i]
  <2> HIDE DEF K
  <2>1. f \in [K -> Int] /\ \A i \in K : f[i] = 0 - i
    BY <1>5
  <2>2. PICK i \in K : \A j \in K : f[i] >= f[j]
    <3> HIDE DEF f
    <3> QED
      BY <1>5, <2>1, FiniteGreatest
  <2>3. \A j \in K : i =< j
    BY <1>5, <2>1, <2>2
  <2> QED
    BY <2>2, <2>3 DEF Min
<1>7. Max(V) \in Int
  BY <1>4
<1> QED
  BY <1>6, <1>7

(* A persistent miner is a miner of this sample.                           *)
LEMMA PersistentIsMiner ==
    ASSUME NEW m, NEW h, PersistentMiner(m, h)
    PROVE  \E p \in m.procs : IsMiner(p)
BY DEF PersistentMiner, Quantify

(* What only the network says adds no point to the axis of mining.         *)
LEMMA NoMiningPoints ==
    ASSUME NEW m, NEW h, NEW dos, NEW S, S = ExtractSignals(m, h, dos),
           NetworkOnly(S), ~CapExempt(S)
    PROVE  Mining(S) = 0
<1>1. S \cap {"gpu_flat", "cpu_flat", "vram_low", "power_stable", "sm_high"} = {}
  BY DEF NetworkOnly
<1>2. S \cap {"mining_pool_ip", "known_miner", "single_core_full"} = {}
  BY DEF CapExempt
<1>3. "network" \notin m.missing /\ ~PoolHit(m)
  <2>1. PICK s \in S : s \in {"net_external_high", "persistent_ext", "outbound_spike",
                              "net_out_sustained", "spike_count_1m", "new_remote_ip_burst",
                              "dos_spike"}
    BY DEF NetworkOnly
  <2>2. s \notin Raised(ResourceSignals(m, h)) /\ s \notin Raised(OtherSignals(m))
        /\ s \notin Raised(ProcessSignals(m, h))
    BY <2>1 DEF Raised, ResourceSignals, OtherSignals, ProcessSignals
  <2>3. "network" \notin m.missing
    BY <2>1, <2>2 DEF ExtractSignals
  <2>4. Raised(NetworkSignals(m, h, dos)) \subseteq S
    BY <2>3 DEF ExtractSignals
  <2>5. PoolHit(m) => "mining_pool_ip" \in Raised(NetworkSignals(m, h, dos))
    BY DEF Raised, NetworkSignals
  <2> QED
    BY <2>3, <2>4, <2>5, <1>2
<1>4. S \cap {"mining_process_or_pool", "persistent_miner"} = {}
  <2>1. SUFFICES ASSUME NEW s \in S, s \in {"mining_process_or_pool", "persistent_miner"}
                 PROVE  FALSE
    OBVIOUS
  <2>2. s \notin Raised(ResourceSignals(m, h)) /\ s \notin Raised(OtherSignals(m))
        /\ s \notin Raised(NetworkSignals(m, h, dos))
    BY <2>1 DEF Raised, ResourceSignals, OtherSignals, NetworkSignals
  <2>3. s \in Raised(ProcessSignals(m, h)) /\ Raised(ProcessSignals(m, h)) \subseteq S
    BY <2>1, <2>2 DEF ExtractSignals
  <2>4. \E p \in m.procs : IsMiner(p)
    <3>1. ProcessSignals(m, h)[s]
      BY <2>3 DEF Raised
    <3>2. CASE s = "mining_process_or_pool"
      BY <1>3, <3>1, <3>2 DEF ProcessSignals
    <3>3. CASE s = "persistent_miner"
      <4>1. PersistentMiner(m, h)
        BY <3>1, <3>3 DEF ProcessSignals
      <4> QED
        BY <4>1, PersistentIsMiner
    <3> QED
      BY <2>1, <3>2, <3>3
  <2>5. "known_miner" \in Raised(ProcessSignals(m, h))
    BY <2>4 DEF Raised, ProcessSignals
  <2> QED
    BY <2>3, <2>5, <1>2
<1> DEFINE table == [gpu_flat |-> 3, cpu_flat |-> 3, vram_low |-> 2, power_stable |-> 1,
               sm_high |-> 1, mining_pool_ip |-> 5, known_miner |-> 5,
               mining_process_or_pool |-> 4, persistent_miner |-> 3, single_core_full |-> 3]
<1>5. S \cap DOMAIN table = {}
  BY <1>1, <1>2, <1>4
<1>6. Points(S, table) = 0
  <2> HIDE DEF table
  <2> QED
    BY <1>5, PointsTotal, SumEmpty
<1> QED
  BY <1>1, <1>6 DEF Mining, If

(* The five axes of compute_risk_vector are integers.                      *)
LEMMA AxesInt ==
    ASSUME NEW S \in SUBSET Signal
    PROVE  RiskVector(S) \in [1 .. 5 -> Int]
<1>1. Mining(S) \in Int
  BY PointsInt, IfInt DEF Mining
<1>2. Malfunction(S) \in Int
  BY PointsInt, IfInt DEF Malfunction
<1>3. Aging(S) \in Int
  BY PointsInt DEF Aging
<1>4. Threat(S) \in Int
  BY PointsInt, IfInt DEF Threat
<1>5. NetworkAbuse(S) \in Int
  BY PointsInt, IfInt DEF NetworkAbuse
<1> QED
  BY <1>1, <1>2, <1>3, <1>4, <1>5 DEF RiskVector

(* The axes agree with the cap: what only the network says is never named  *)
(* mining.                                                                 *)
THEOREM NetworkIsNotMining ==
    ASSUME NEW m, NEW h, NEW dos, NEW S, S = ExtractSignals(m, h, dos),
           NetworkOnly(S), ~CapExempt(S)
    PROVE  PrimaryType(S) # "MINING_SUSPICION"
<1> DEFINE v == RiskVector(S)
           top == Max({v[k] : k \in DOMAIN v})
           first == Min({k \in DOMAIN v : v[k] = top})
<1>1. S \in SUBSET Signal
  BY ExtractedSignals
<1>2. v \in [1 .. 5 -> Int] /\ v[1] = 0
  BY <1>1, AxesInt, NoMiningPoints DEF RiskVector
<1>3. top \in Int /\ first \in 1 .. 5 /\ v[first] = top
  <2> DEFINE n == 5
  <2>1. n \in Nat \ {0} /\ v \in [1 .. n -> Int] /\ DOMAIN v = 1 .. n
    BY <1>2
  <2>2. top \in Int /\ first \in 1 .. n /\ v[first] = top
    <3> HIDE DEF n, v
    <3> QED
      BY <2>1, FirstOfHighest
  <2> QED
    BY <2>2
<1>4. ~ (top < 4) => first # 1
  <2> HIDE DEF v, top, first
  <2> QED
    BY <1>2, <1>3
<1>5. \A k \in 1 .. 5 : k # 1 => Axes[k] # "MINING_SUSPICION"
  BY DEF Axes
<1>6. PrimaryType(S) \in {"NORMAL", Axes[first]} /\ (top < 4 => PrimaryType(S) = "NORMAL")
  BY DEF PrimaryType
<1> QED
  BY <1>3, <1>4, <1>5, <1>6
-----------------------------------------------------------------------------
Categories == {"resource", "network", "process", "episode", "correlation", "ml"}

(* Categories are finitely many.                                           *)
LEMMA CategoriesFinite == ASSUME NEW S \in SUBSET Categories PROVE IsFiniteSet(S)
<1> DEFINE n == 6
           s == <<"resource", "network", "process", "episode", "correlation", "ml">>
<1>1. n \in Nat /\ \A x \in S : \E i \in 1 .. n : s[i] = x
  BY DEF Categories
<1> HIDE DEF n, s
<1> QED
  BY <1>1, FiniteRange

(* scoring_policy.yaml: the gate is on, and HIGH_RISK asks for at least    *)
(* what SUSPICIOUS asks for.                                               *)
AlarmPolicy ==
    /\ Promotion.enabled
    /\ \A k \in {"signals", "categories"} :
           Promotion.medium[k] \in Int /\ Promotion.high[k] \in Int
           /\ Promotion.medium[k] <= Promotion.high[k]

(* Enough evidence for HIGH_RISK is enough for SUSPICIOUS.                 *)
LEMMA EnoughForLess ==
    ASSUME AlarmPolicy, NEW S \in SUBSET Signal, NEW b, DOMAIN b \subseteq Categories,
           Enough(S, b, Promotion.high)
    PROVE  Enough(S, b, Promotion.medium)
<1>1. Cardinality(ActiveSignals(S)) \in Nat
  <2>1. ActiveSignals(S) \in SUBSET Signal
    BY DEF ActiveSignals
  <2>2. IsFiniteSet(ActiveSignals(S))
    <3> HIDE DEF Signal
    <3> QED
      BY <2>1, SignalsFinite
  <2> QED
    BY <2>2, FS_CardinalityType
<1>2. Cardinality(ActiveCategories(S, b)) \in Nat
  <2>1. \A s : CategoryOf(s) \subseteq Categories
    BY DEF CategoryOf, Categories
  <2>2. ActiveCategories(S, b) \in SUBSET Categories
    <3> HIDE DEF Categories
    <3> QED
      BY <2>1 DEF ActiveCategories
  <2>3. IsFiniteSet(ActiveCategories(S, b))
    BY <2>2, CategoriesFinite
  <2> QED
    BY <2>3, FS_CardinalityType
<1>3. /\ Promotion.medium.signals \in Int /\ Promotion.high.signals \in Int
      /\ Promotion.medium.signals <= Promotion.high.signals
      /\ Promotion.medium.categories \in Int /\ Promotion.high.categories \in Int
      /\ Promotion.medium.categories <= Promotion.high.categories
  BY DEF AlarmPolicy
<1> QED
  BY <1>1, <1>2, <1>3 DEF Enough

VerdictNames == {"NORMAL", "OBSERVE", "SUSPICIOUS", "HIGH_RISK"}
AnswerFields == {"verdict", "severity", "alerts", "fastPath", "breakdown", "own", "gating"}

(* An answer whose severity is that of its verdict.                        *)
Sound(x) ==
    /\ DOMAIN x = AnswerFields
    /\ x.verdict \in VerdictNames
    /\ x.severity = SeverityOf(x.verdict)

Alarm(x) == Rank(Verdicts, x.verdict) > 2
Evidence(x, S) ==
    Alarm(x) => \/ "known_miner" \in S
                \/ Rank(Verdicts, x.gating) >= Rank(Verdicts, x.verdict)
                \/ Enough(S, x.breakdown, Promotion.medium)

(* analyze_pattern: with a policy, an alarm of the rules has its evidence. *)
LEMMA PatternSound ==
    ASSUME NEW S \in SUBSET Signal, NEW p, NEW final, NEW found \in BOOLEAN,
           NEW y, y = AnalyzePattern(S, p, final, found),
           NEW x, DOMAIN x = AnswerFields, x.gating = "NORMAL",
           x.verdict = y.verdict, x.severity = y.severity, x.breakdown = y.breakdown
    PROVE  Sound(x) /\ (AlarmPolicy /\ found => Evidence(x, S))
<1> DEFINE b == Breakdown(S, p)
           i == Indicators(S, p)
           classified == ClassifyVerdict(final)
           verdict == Promote(classified, S, i, b, found)
<1>1. classified \in VerdictNames
  BY DEF ClassifyVerdict, VerdictNames
<1>2. verdict \in VerdictNames
  <2> HIDE DEF classified, i, b
  <2> QED
    BY <1>1 DEF Promote, VerdictNames
<1>3. DOMAIN b = Categories
  <2>1. DOMAIN RuleBreakdown(S, p) = {"resource", "network", "process", "episode", "correlation"}
    BY DEF RuleBreakdown
  <2> QED
    BY <2>1 DEF Breakdown, Categories
<1>4. x.verdict = verdict /\ x.severity = SeverityOf(verdict) /\ x.breakdown = b
  <2> HIDE DEF verdict, b
  <2> QED
    BY DEF AnalyzePattern, verdict, b
<1>5. ASSUME AlarmPolicy, found, Alarm(x) PROVE "known_miner" \in S \/ Enough(S, b, Promotion.medium)
  <2>1. verdict \notin {"NORMAL", "OBSERVE"}
    <3> HIDE DEF verdict, b
    <3> QED
      BY <1>4, <1>5, Ranks DEF Alarm
  <2>2. CASE FastPath(i)
    BY <2>2, FastPathNeedsMiner
  <2>3. CASE ~FastPath(i)
    <3>1. Promotion.enabled
      BY <1>5 DEF AlarmPolicy
    <3>2. Enough(S, b, Promotion.high) \/ Enough(S, b, Promotion.medium)
      <4> HIDE DEF classified, i, b
      <4> QED
        BY <1>5, <2>1, <2>3, <3>1 DEF Promote
    <3> QED
      <4> HIDE DEF b
      <4> QED
        BY <1>3, <1>5, <3>2, EnoughForLess
  <2> QED
    BY <2>2, <2>3
<1> HIDE DEF verdict, b
<1> QED
  BY <1>2, <1>4, <1>5 DEF Sound, Evidence

(* What the categories and the cap make of it.                             *)
LEMMA GateSound ==
    ASSUME NEW x, Sound(x), x.gating = "NORMAL", NEW S, NEW g \in VerdictNames, NEW z,
           z = [ApplyNetworkOnlyCap(MergeGating(x, g), S) EXCEPT !.gating = g]
    PROVE  /\ Sound(z) /\ z.own = x.own
           /\ Evidence(x, S) => Evidence(z, S)
           /\ NetworkOnly(S) /\ ~CapExempt(S) => ~Alarm(z)
<1> DEFINE y == MergeGating(x, g)
           c == ApplyNetworkOnlyCap(y, S)
<1>1. /\ DOMAIN y = AnswerFields
      /\ y.own = x.own /\ y.breakdown = x.breakdown
      /\ \/ y.verdict = x.verdict /\ y.severity = x.severity
         \/ /\ y.verdict = g /\ Rank(Verdicts, g) > Rank(Verdicts, x.verdict)
            /\ y.severity = SeverityOf(g)
  <2>1. CASE Rank(Verdicts, g) <= Rank(Verdicts, x.verdict)
    BY <2>1 DEF MergeGating, Sound, AnswerFields
  <2>2. CASE ~ (Rank(Verdicts, g) <= Rank(Verdicts, x.verdict))
    <3>1. Rank(Verdicts, g) > Rank(Verdicts, x.verdict)
          /\ Rank(Severities, SeverityOf(g)) > Rank(Severities, x.severity)
      BY <2>2, Ranks, SeveritiesOf DEF Sound, VerdictNames
    <3> DEFINE f == [x EXCEPT !.fastPath = @ \/ g = "HIGH_RISK"]
    <3>2. DOMAIN f = AnswerFields /\ f.own = x.own /\ f.breakdown = x.breakdown
          /\ f.severity = x.severity
      BY DEF Sound, AnswerFields
    <3>3. y = [f EXCEPT !.verdict = g,
                        !.severity = IF Rank(Severities, SeverityOf(g)) > Rank(Severities, @)
                                     THEN SeverityOf(g) ELSE @,
                        !.alerts = Append(@, Alert(<<g, "BEHAVIOR">>, SeverityOf(g)))]
      BY <2>2 DEF MergeGating
    <3> HIDE DEF f, y
    <3> QED
      BY <3>1, <3>2, <3>3 DEF AnswerFields
  <2> QED
    BY <2>1, <2>2
<1>2. /\ DOMAIN c = AnswerFields
      /\ c.own = x.own /\ c.breakdown = x.breakdown
      /\ \/ c.verdict = y.verdict /\ c.severity = y.severity
         \/ c.verdict = "OBSERVE" /\ c.severity = "LOW"
      /\ NetworkOnly(S) /\ ~CapExempt(S) => c.verdict \in {"NORMAL", "OBSERVE"}
  <2> HIDE DEF y
  <2> QED
    BY <1>1 DEF ApplyNetworkOnlyCap, AnswerFields
<1>3. /\ DOMAIN z = AnswerFields /\ z.gating = g
      /\ z.own = c.own /\ z.breakdown = c.breakdown
      /\ z.verdict = c.verdict /\ z.severity = c.severity
  <2> HIDE DEF c
  <2>1. z = [c EXCEPT !.gating = g]
    BY DEF c
  <2> QED
    BY <1>2, <2>1 DEF AnswerFields
<1> HIDE DEF y, c
<1>4. Sound(z)
  BY <1>1, <1>2, <1>3, SeveritiesOf DEF Sound, VerdictNames
<1>5. NetworkOnly(S) /\ ~CapExempt(S) => ~Alarm(z)
  BY <1>2, <1>3, Ranks DEF Alarm
<1>6. ASSUME Evidence(x, S), Alarm(z)
      PROVE  \/ "known_miner" \in S
             \/ Rank(Verdicts, z.gating) >= Rank(Verdicts, z.verdict)
             \/ Enough(S, z.breakdown, Promotion.medium)
  <2>1. z.verdict = y.verdict /\ z.breakdown = x.breakdown
    BY <1>2, <1>3, <1>6, Ranks DEF Alarm
  <2>2. CASE y.verdict = x.verdict
    <3>1. Alarm(x)
      BY <1>6, <2>1, <2>2 DEF Alarm
    <3>2. Rank(Verdicts, x.gating) = 1 /\ Rank(Verdicts, x.verdict) \in 3 .. 4
      BY <3>1, Ranks DEF Alarm, Sound, VerdictNames
    <3> QED
      BY <1>6, <2>1, <2>2, <3>1, <3>2 DEF Evidence
  <2>3. CASE y.verdict = g
    <3>1. Rank(Verdicts, g) \in 1 .. 4
      BY Ranks DEF VerdictNames
    <3> QED
      BY <1>3, <2>1, <2>3, <3>1
  <2> QED
    BY <1>1, <2>2, <2>3
<1> QED
  BY <1>1, <1>2, <1>3, <1>4, <1>5, <1>6 DEF Evidence

(* The judgment that replaces the model's explains at least the severity.  *)
LEMMA JudgmentCovers ==
    ASSUME NEW x, Sound(x), x.severity \in {"MEDIUM", "HIGH"}, NEW degraded
    PROVE  Rank(Severities, MockJudgment(x, degraded)[2]) >= Rank(Severities, x.severity)
<1>1. \/ x.verdict = "SUSPICIOUS" /\ x.severity = "MEDIUM"
      \/ x.verdict = "HIGH_RISK" /\ x.severity = "HIGH"
  BY SeveritiesOf DEF Sound, VerdictNames
<1>2. \/ MockJudgment(x, degraded)[2] = "HIGH"
      \/ x.verdict = "SUSPICIOUS" /\ MockJudgment(x, degraded)[2] = "MEDIUM"
  BY <1>1 DEF MockJudgment
<1> QED
  BY <1>1, <1>2, Ranks
-----------------------------------------------------------------------------
Stages == {"idle", "pc", "slot", "keep", "extract", "score", "make", "append", "decay", "count",
           "empty", "reset", "average", "gate", "degrade", "iterate", "agent", "calling",
           "answered", "failed"}
Marks == {"request", "clear", "reload", "fleet", "first"}

StoresOK ==
    /\ clock \in Nat /\ clock <= MaxClock
    /\ trained \in {"none", "pc", "slot"}
    /\ listed \in BOOLEAN /\ others \in Nat
    /\ ruleScores = None \/ (ruleScores \in Seq(Nat) /\ Len(ruleScores) <= RuleWindow)
    /\ zeroStreak \in Nat
    /\ dosStreak \in 0 .. MinSustained
    /\ aiLast = None \/ (aiLast \in [at : Nat, rank : {3, 4}] /\ aiLast.at <= clock)

RequestOK(r) ==
    /\ stage[r] # "idle" => input[r] \in DOMAIN Sent
    /\ Sound(result[r])
    /\ called[r] = None \/ called[r] \in 0 .. clock
    /\ stage[r] = "calling" => called[r] \in 0 .. clock /\ Alarming(r)

TypeInv ==
    /\ StoresOK
    /\ stage \in [Req -> Stages]
    /\ signals \in [Req -> SUBSET Signal]
    /\ seen \in [Req -> Nat]
    /\ overlapped \in [Req -> SUBSET Marks]
    /\ DOMAIN input = Req /\ DOMAIN result = Req /\ DOMAIN called = Req
    /\ \A r \in Req : RequestOK(r)

(* A request starts with a sound answer.                                   *)
LEMMA NoAnswerSound == Sound(NoAnswer)
BY SeveritiesOf DEF Sound, NoAnswer, AnswerFields, VerdictNames

(* The initial values have their types.                                    *)
LEMMA InitTyped == Init => TypeInv
<1> SUFFICES ASSUME Init PROVE TypeInv
  OBVIOUS
<1>1. StoresOK
  <2>1. MaxClock \in Nat /\ MinSustained \in Nat
    BY FlowAssumption
  <2>2. listed \in BOOLEAN /\ trained \in {"none", "pc", "slot"}
    BY DEF Init
  <2>3. ruleScores = None /\ aiLast = None
    BY DEF Init
  <2> QED
    BY <2>1, <2>2, <2>3 DEF Init, StoresOK
<1>2. \A r \in Req : RequestOK(r)
  BY NoAnswerSound DEF Init, RequestOK
<1> QED
  BY <1>1, <1>2 DEF Init, TypeInv, Stages

(* What a sample scores.                                                   *)
LEMMA ScoreTyped ==
    ASSUME TypeInv, NEW r \in Req, stage[r] # "idle"
    PROVE  Score(r) \in Nat
<1>1. signals[r] \in SUBSET Signal /\ Sample(r).ml \in Int /\ MlCap \in Int
  BY FlowAssumption DEF TypeInv, RequestOK, Sample
<1> QED
  BY <1>1, ScoreNat DEF Score

(* An empty history is a history.                                          *)
LEMMA EmptyIsThere == <<>> # None /\ <<>> \in Seq(Nat) /\ Len(<<>>) <= RuleWindow
<1> DEFINE e == <<>>
<1>1. e \in Seq(Nat) /\ Len(e) = 0
  OBVIOUS
<1> HIDE DEF e
<1>2. e # None /\ RuleWindow \in Nat
  BY <1>1, FlowAssumption
<1> QED
  BY <1>1, <1>2 DEF e

(* A score that joins the history is its newest, and the history keeps its *)
(* bound.                                                                  *)
LEMMA Joined ==
    ASSUME NEW scores \in Seq(Nat), Len(scores) <= RuleWindow, NEW x \in Nat,
           NEW y, y = Recent(Append(scores, x))
    PROVE  y \in Seq(Nat) /\ Len(y) <= RuleWindow /\ y # None /\ y # <<>> /\ y[Len(y)] = x
<1> DEFINE long == Append(scores, x)
<1>1. long \in Seq(Nat) /\ Len(long) = Len(scores) + 1 /\ long[Len(long)] = x
  OBVIOUS
<1> HIDE DEF long
<1>2. CASE Len(long) > RuleWindow
  <2>1. long # <<>> /\ Len(long) >= 2 /\ Len(long) = RuleWindow + 1
    BY <1>1, <1>2, FlowAssumption
  <2>2. y = Tail(long)
    BY <1>2 DEF Recent, long
  <2>3. y \in Seq(Nat) /\ Len(y) = Len(long) - 1 /\ y[Len(long) - 1] = long[Len(long)]
    BY <1>1, <2>1, <2>2
  <2>4. Len(y) \in Nat /\ Len(y) >= 1 /\ RuleWindow \in Nat
    BY <2>1, <2>3, FlowAssumption
  <2>5. y # <<>>
    BY <2>4
  <2>6. y # None
    BY <2>3, FlowAssumption
  <2> QED
    BY <1>1, <2>1, <2>3, <2>4, <2>5, <2>6
<1>3. CASE ~ (Len(long) > RuleWindow)
  <2>1. y = long
    BY <1>3 DEF Recent, long
  <2>2. long # <<>> /\ long # None
    BY <1>1, FlowAssumption
  <2> QED
    BY <1>1, <1>3, <2>1, <2>2, FlowAssumption
<1> QED
  BY <1>2, <1>3

(* A step of one request leaves the others where they are, and none of     *)
(* them forgets what ran beside it.                                        *)
Others(r) ==
    \A q \in Req \ {r} :
        /\ stage'[q] = stage[q] /\ input'[q] = input[q] /\ signals'[q] = signals[q]
        /\ seen'[q] = seen[q] /\ result'[q] = result[q] /\ called'[q] = called[q]
        /\ overlapped[q] \subseteq overlapped'[q]

(* A step of one request keeps the types of the others.                    *)
LEMMA OthersTyped ==
    ASSUME TypeInv, NEW r \in Req, Others(r), clock' = clock
    PROVE  \A q \in Req \ {r} : RequestOK(q)'
BY DEF TypeInv, Others, RequestOK, Alarming

(* So its own types and those of the stores are what is left to show.      *)
LEMMA RequestStep ==
    ASSUME TypeInv, NEW r \in Req, Others(r), clock' = clock, StoresOK',
           stage' \in [Req -> Stages], signals' \in [Req -> SUBSET Signal],
           seen' \in [Req -> Nat], overlapped' \in [Req -> SUBSET Marks],
           DOMAIN input' = Req, DOMAIN result' = Req, DOMAIN called' = Req,
           RequestOK(r)'
    PROVE  TypeInv'
<1>1. \A q \in Req : RequestOK(q)'
  BY OthersTyped
<1> QED
  BY <1>1 DEF TypeInv

(* A step within a request from a stage of S to one of T: it keeps the     *)
(* sample, the signals, the answer and the outside.                        *)
Advance(r, S, T) ==
    /\ stage[r] \in S
    /\ \E t \in T : Goto(r, t)
    /\ UNCHANGED <<clock, cached, clearing, others, input, signals, result, called, calls>>
    /\ seen' \in [Req -> Nat] /\ \A q \in Req \ {r} : seen'[q] = seen[q]
    /\ overlapped' \in [Req -> SUBSET Marks]
    /\ \A q \in Req : overlapped[q] \subseteq overlapped'[q]

Inner == Stages \ {"idle", "agent", "calling", "answered", "failed"}
Judged == {"gate", "degrade", "iterate", "agent", "calling", "answered"}
Gated == Judged \ {"gate"}
Extracted == Judged \cup {"score", "make", "append", "decay", "count", "empty", "reset", "average"}

(* From stage s to stage t without extracting, judging or gating.          *)
Forward(s, t) ==
    /\ t \in Stages \ {"idle", "gate", "calling"}
    /\ t \in Extracted => s \in Extracted
    /\ t \in Judged => s \in Judged
    /\ t \in Gated => s \in Gated

(* The types survive an advance that treats the stores well.               *)
LEMMA AdvanceTyped ==
    ASSUME TypeInv, NEW r \in Req, NEW S, NEW T, Advance(r, S, T), "idle" \notin S,
           T \subseteq Stages \ {"idle", "calling"}, StoresOK'
    PROVE  TypeInv' /\ Others(r)
<1>1. PICK t \in T : stage' = [stage EXCEPT ![r] = t]
  BY DEF Advance, Goto
<1>2. stage'[r] = t /\ t \in Stages \ {"idle", "calling"} /\ stage' \in [Req -> Stages]
      /\ \A q \in Req \ {r} : stage'[q] = stage[q]
  BY <1>1 DEF TypeInv
<1>3. Others(r)
  BY <1>2 DEF Others, Advance
<1>4. RequestOK(r)'
  BY <1>2 DEF TypeInv, RequestOK, Advance
<1> QED
  BY <1>2, <1>3, <1>4, RequestStep DEF Advance, TypeInv

(* What each step inside analyze() advances.                               *)
LEMMA MakePcAdvance ==
    ASSUME TypeInv, NEW r \in Req, MakePc(r)
    PROVE  /\ Advance(r, {"pc"}, {"slot"}) /\ StoresOK'
           /\ trained' = "pc" /\ UNCHANGED <<listed, ruleScores, aiLast>>
           /\ trained # "none" => \A q \in Running \ {r} : "first" \in overlapped'[q]
<1>1. /\ overlapped' \in [Req -> SUBSET Marks]
      /\ \A q \in Req : overlapped[q] \subseteq overlapped'[q]
      /\ trained # "none" => \A q \in Running \ {r} : "first" \in overlapped'[q]
  <2>1. CASE trained = "none"
    BY <2>1 DEF MakePc, TypeInv
  <2>2. CASE trained # "none"
    <3>1. overlapped' = [q \in Req |-> IF q \in Running \ {r} THEN overlapped[q] \cup {"first"}
                                                    ELSE overlapped[q]]
      BY <2>2 DEF MakePc, Mark
    <3> QED
      BY <3>1 DEF TypeInv, Marks, Running
  <2> QED
    BY <2>1, <2>2
<1>2. StoresOK'
  BY DEF MakePc, outsideVars, TypeInv, StoresOK
<1> QED
  BY <1>1, <1>2 DEF MakePc, Advance, outsideVars, requestVars, TypeInv

(* Its slot is made.                                                       *)
LEMMA MakeSlotAdvance ==
    ASSUME TypeInv, NEW r \in Req, MakeSlot(r)
    PROVE  /\ Advance(r, {"slot"}, {"keep"}) /\ StoresOK'
           /\ trained' = "slot" /\ UNCHANGED <<listed, ruleScores, aiLast, overlapped>>
BY DEF MakeSlot, Advance, outsideVars, requestVars, historyVars, TypeInv, StoresOK

(* The sample is kept.                                                     *)
LEMMA KeepAdvance ==
    ASSUME TypeInv, NEW r \in Req, KeepSample(r)
    PROVE  /\ Advance(r, {"keep"}, {"extract"}) /\ StoresOK'
           /\ listed' = TRUE /\ UNCHANGED <<trained, ruleScores, aiLast, overlapped>>
BY DEF KeepSample, Advance, outsideVars, requestVars, historyVars, TypeInv, StoresOK

(* Each failure.                                                           *)
Failing(r) == KeepFails(r) \/ ScoreFails(r) \/ ScoresGone(r) \/ AverageFails(r) \/ IterationFails(r)
LEMMA FailAdvance ==
    ASSUME TypeInv, NEW r \in Req, Failing(r)
    PROVE  /\ Advance(r, Inner, {"failed"}) /\ StoresOK'
           /\ UNCHANGED <<trained, listed, ruleScores, aiLast, overlapped, seen>>
<1>1. Fail(r) /\ stage[r] \in {"slot", "keep", "score", "append", "empty", "average", "iterate"}
  BY DEF Failing, KeepFails, ScoreFails, ScoresGone, AverageFails, IterationFails
<1> QED
  BY <1>1 DEF Fail, Move, Advance, Inner, Stages, storeVars, outsideVars, requestVars, historyVars,
              TypeInv, StoresOK

(* The history of scores is looked for.                                    *)
LEMMA LookAdvance ==
    ASSUME TypeInv, NEW r \in Req, LookScores(r)
    PROVE  /\ Advance(r, {"score"}, {"make", "append"}) /\ StoresOK'
           /\ Goto(r, "make") \/ (Goto(r, "append") /\ ruleScores # None)
           /\ UNCHANGED <<trained, listed, ruleScores, aiLast, overlapped, seen>>
BY DEF LookScores, Move, Advance, storeVars, outsideVars, requestVars, historyVars,
       TypeInv, StoresOK

(* A missing history is made.                                              *)
LEMMA MakeScoresAdvance ==
    ASSUME TypeInv, NEW r \in Req, MakeScores(r)
    PROVE  /\ Advance(r, {"make"}, {"append"}) /\ StoresOK'
           /\ ruleScores' = <<>> /\ UNCHANGED <<trained, listed, aiLast, overlapped, seen>>
BY EmptyIsThere DEF MakeScores, Advance, outsideVars, requestVars, historyVars, TypeInv, StoresOK

(* The score joins it.                                                     *)
LEMMA AppendAdvance ==
    ASSUME TypeInv, NEW r \in Req, AppendScore(r)
    PROVE  /\ Advance(r, {"append"}, {"decay"}) /\ StoresOK'
           /\ ruleScores' # None /\ ruleScores' # <<>> /\ ruleScores'[Len(ruleScores')] = Score(r)
           /\ UNCHANGED <<trained, listed, aiLast, overlapped, seen>>
<1>1. Score(r) \in Nat
  BY ScoreTyped DEF AppendScore
<1>2. ruleScores \in Seq(Nat) /\ Len(ruleScores) <= RuleWindow
      /\ ruleScores' = Recent(Append(ruleScores, Score(r)))
  BY DEF AppendScore, TypeInv, StoresOK
<1>3. /\ ruleScores' \in Seq(Nat) /\ Len(ruleScores') <= RuleWindow
      /\ ruleScores' # None /\ ruleScores' # <<>> /\ ruleScores'[Len(ruleScores')] = Score(r)
  BY <1>1, <1>2, Joined
<1>4. StoresOK'
  BY <1>3 DEF AppendScore, outsideVars, TypeInv, StoresOK
<1> QED
  BY <1>3, <1>4 DEF AppendScore, Advance, outsideVars, requestVars, historyVars, TypeInv

(* The streak of zeros.                                                    *)
LEMMA DecayAdvance ==
    ASSUME TypeInv, NEW r \in Req, Decay(r)
    PROVE  /\ Advance(r, {"decay"}, {"average", "count"}) /\ StoresOK'
           /\ Goto(r, "average") \/ (Goto(r, "count") /\ Score(r) <= 0)
           /\ UNCHANGED <<trained, listed, ruleScores, aiLast, overlapped>>
<1>1. CASE UNCHANGED requestVars /\ Move(r, "average")
  BY <1>1 DEF Decay, Move, Advance, storeVars, outsideVars, requestVars, historyVars, TypeInv,
              StoresOK
<1>2. CASE zeroStreak' = 0 /\ Goto(r, "average")
           /\ UNCHANGED <<clock, trained, listed, ruleScores, dosStreak, aiLast, outsideVars,
                          requestVars, historyVars>>
  BY <1>2 DEF Decay, Advance, outsideVars, requestVars, historyVars, TypeInv, StoresOK
<1>3. CASE Score(r) <= 0 /\ Read(r, zeroStreak + 1) /\ Move(r, "count")
           /\ UNCHANGED <<input, signals, result, called>>
  <2>1. seen' \in [Req -> Nat] /\ \A q \in Req \ {r} : seen'[q] = seen[q]
    BY <1>3 DEF Read, TypeInv, StoresOK
  <2> QED
    BY <1>3, <2>1 DEF Decay, Move, Advance, storeVars, outsideVars, historyVars, TypeInv, StoresOK
<1> QED
  BY <1>1, <1>2, <1>3 DEF Decay

(* A zero is counted.                                                      *)
LEMMA CountAdvance ==
    ASSUME TypeInv, NEW r \in Req, CountZero(r)
    PROVE  /\ Advance(r, {"count"}, {"empty", "average"}) /\ StoresOK'
           /\ UNCHANGED <<trained, listed, ruleScores, aiLast, overlapped>>
<1>1. seen' \in [Req -> Nat] /\ \A q \in Req \ {r} : seen'[q] = seen[q]
  BY DEF CountZero, Read, TypeInv
<1>2. StoresOK'
  BY DEF CountZero, outsideVars, TypeInv, StoresOK
<1> QED
  BY <1>1, <1>2 DEF CountZero, Advance, outsideVars, historyVars, TypeInv

(* Enough zeros empty the history.                                         *)
LEMMA EmptyAdvance ==
    ASSUME TypeInv, NEW r \in Req, EmptyHistory(r)
    PROVE  /\ Advance(r, {"empty"}, {"reset"}) /\ StoresOK'
           /\ ruleScores' = <<>> /\ UNCHANGED <<trained, listed, aiLast, overlapped, seen>>
BY EmptyIsThere DEF EmptyHistory, Advance, outsideVars, requestVars, historyVars, TypeInv, StoresOK

(* And the count starts anew.                                              *)
LEMMA ResetAdvance ==
    ASSUME TypeInv, NEW r \in Req, ResetStreak(r)
    PROVE  /\ Advance(r, {"reset"}, {"average"}) /\ StoresOK'
           /\ UNCHANGED <<trained, listed, ruleScores, aiLast, overlapped, seen>>
BY DEF ResetStreak, Advance, outsideVars, requestVars, historyVars, TypeInv, StoresOK

(* The iteration over the latest samples.                                  *)
LEMMA BeginAdvance ==
    ASSUME TypeInv, NEW r \in Req, BeginIteration(r)
    PROVE  /\ Advance(r, {"degrade"}, {"iterate"}) /\ StoresOK' /\ seen'[r] = Latest
           /\ UNCHANGED <<trained, listed, ruleScores, aiLast, overlapped>>
<1>1. Latest \in Nat
  BY DEF Latest, TypeInv, StoresOK
<1>2. seen' \in [Req -> Nat] /\ seen'[r] = Latest /\ \A q \in Req \ {r} : seen'[q] = seen[q]
  BY <1>1 DEF BeginIteration, Read, TypeInv
<1>3. StoresOK'
  BY DEF BeginIteration, Move, storeVars, outsideVars, TypeInv, StoresOK
<1> QED
  BY <1>2, <1>3 DEF BeginIteration, Move, Advance, storeVars, outsideVars, historyVars, TypeInv

(* It ends.                                                                *)
LEMMA EndAdvance ==
    ASSUME TypeInv, NEW r \in Req, EndIteration(r)
    PROVE  /\ Advance(r, {"iterate"}, {"agent"}) /\ StoresOK'
           /\ UNCHANGED <<trained, listed, ruleScores, aiLast, overlapped>>
<1>1. seen' \in [Req -> Nat] /\ \A q \in Req \ {r} : seen'[q] = seen[q]
  BY DEF EndIteration, Read, TypeInv
<1>2. StoresOK'
  BY DEF EndIteration, Move, storeVars, outsideVars, TypeInv, StoresOK
<1> QED
  BY <1>1, <1>2 DEF EndIteration, Move, Advance, storeVars, outsideVars, historyVars, TypeInv

(* The model is called for the ranks 3 and 4.                              *)
LEMMA AlarmingRank ==
    ASSUME NEW r, Alarming(r)
    PROVE  SevRank(r) \in {3, 4}
BY Ranks DEF Alarming, SevRank

(* The call returns.                                                       *)
LEMMA ReturnAdvance ==
    ASSUME TypeInv, NEW r \in Req, AgentReturns(r)
    PROVE  /\ Advance(r, {"calling"}, {"answered"}) /\ StoresOK'
           /\ UNCHANGED <<trained, listed, ruleScores, overlapped, seen>>
<1>1. SevRank(r) \in {3, 4} /\ called[r] \in 0 .. clock
  BY AlarmingRank DEF AgentReturns, TypeInv, RequestOK
<1>2. aiLast' = [at |-> called[r], rank |-> SevRank(r)]
  BY DEF AgentReturns
<1>3. aiLast' \in [at : Nat, rank : {3, 4}] /\ aiLast'.at <= clock
  BY <1>1, <1>2 DEF TypeInv, StoresOK
<1>4. StoresOK'
  BY <1>3 DEF AgentReturns, outsideVars, TypeInv, StoresOK
<1> QED
  BY <1>4 DEF AgentReturns, Advance, outsideVars, requestVars, historyVars, TypeInv

(* The steps of a request that only advance it.                            *)
Advancing(r) ==
    \/ MakePc(r) \/ MakeSlot(r) \/ KeepSample(r) \/ Failing(r)
    \/ LookScores(r) \/ MakeScores(r) \/ AppendScore(r) \/ Decay(r) \/ CountZero(r)
    \/ EmptyHistory(r) \/ ResetStreak(r)
    \/ BeginIteration(r) \/ EndIteration(r) \/ AgentReturns(r)

(* Each of them keeps the types and the answer.                            *)
LEMMA AdvancingTyped ==
    ASSUME TypeInv, NEW r \in Req, Advancing(r)
    PROVE  /\ TypeInv' /\ Others(r) /\ r \in Running
           /\ UNCHANGED <<clock, cached, clearing, input, signals, result, called, calls>>
           /\ overlapped[r] \subseteq overlapped'[r]
           /\ \E t \in Stages : Goto(r, t) /\ Forward(stage[r], t)
<1>1. ASSUME NEW S, NEW T, Advance(r, S, T), StoresOK',
             S \subseteq Stages \ {"idle", "answered", "failed"},
             \A s \in S, t \in T : Forward(s, t)
      PROVE  /\ TypeInv' /\ Others(r) /\ r \in Running
             /\ UNCHANGED <<clock, cached, clearing, input, signals, result, called, calls>>
             /\ overlapped[r] \subseteq overlapped'[r]
             /\ \E t \in Stages : Goto(r, t) /\ Forward(stage[r], t)
  <2>1. stage[r] \in S
    BY <1>1 DEF Advance
  <2>2. T \subseteq Stages \ {"idle", "calling"}
    BY <1>1, <2>1 DEF Forward
  <2>3. TypeInv' /\ Others(r)
    <3> HIDE DEF Stages
    <3> QED
      BY <1>1, <2>2, AdvanceTyped
  <2>4. r \in Running
    BY <1>1, <2>1 DEF Running
  <2> QED
    BY <1>1, <2>1, <2>2, <2>3, <2>4 DEF Advance
<1>2. CASE MakePc(r)
  BY <1>1, <1>2, MakePcAdvance DEF Stages, Forward, Extracted, Judged, Gated
<1>3. CASE MakeSlot(r)
  BY <1>1, <1>3, MakeSlotAdvance DEF Stages, Forward, Extracted, Judged, Gated
<1>4. CASE KeepSample(r)
  <2>1. Advance(r, {"keep"}, {"extract"}) /\ StoresOK'
    BY <1>4, KeepAdvance
  <2> QED
    BY <1>1, <2>1 DEF Stages, Forward, Extracted, Judged, Gated
<1>5. CASE Failing(r)
  BY <1>1, <1>5, FailAdvance DEF Stages, Forward, Extracted, Judged, Gated, Inner
<1>6. CASE LookScores(r)
  BY <1>1, <1>6, LookAdvance DEF Stages, Forward, Extracted, Judged, Gated
<1>7. CASE MakeScores(r)
  BY <1>1, <1>7, MakeScoresAdvance DEF Stages, Forward, Extracted, Judged, Gated
<1>8. CASE AppendScore(r)
  BY <1>1, <1>8, AppendAdvance DEF Stages, Forward, Extracted, Judged, Gated
<1>9. CASE Decay(r)
  BY <1>1, <1>9, DecayAdvance DEF Stages, Forward, Extracted, Judged, Gated
<1>10. CASE CountZero(r)
  BY <1>1, <1>10, CountAdvance DEF Stages, Forward, Extracted, Judged, Gated
<1>11. CASE EmptyHistory(r)
  BY <1>1, <1>11, EmptyAdvance DEF Stages, Forward, Extracted, Judged, Gated
<1>12. CASE ResetStreak(r)
  BY <1>1, <1>12, ResetAdvance DEF Stages, Forward, Extracted, Judged, Gated
<1>13. CASE BeginIteration(r)
  BY <1>1, <1>13, BeginAdvance DEF Stages, Forward, Extracted, Judged, Gated
<1>14. CASE EndIteration(r)
  BY <1>1, <1>14, EndAdvance DEF Stages, Forward, Extracted, Judged, Gated
<1>15. CASE AgentReturns(r)
  BY <1>1, <1>15, ReturnAdvance DEF Stages, Forward, Extracted, Judged, Gated
<1> QED
  BY <1>2, <1>3, <1>4, <1>5, <1>6, <1>7, <1>8, <1>9, <1>10, <1>11, <1>12, <1>13, <1>14, <1>15
     DEF Advancing
(* A new request tells those that run, and learns of what is under way.    *)
LEMMA ReceiveMarks ==
    ASSUME TypeInv, NEW r \in Req, Receive(r)
    PROVE  /\ overlapped' \in [Req -> SUBSET Marks]
           /\ \A q \in Req \ {r} : overlapped[q] \subseteq overlapped'[q]
           /\ \A q \in Running : "request" \in overlapped'[q]
           /\ Running # {} => "request" \in overlapped'[r]
           /\ clearing => "clear" \in overlapped'[r]
           /\ ~cached => "reload" \in overlapped'[r]
<1>1. /\ r \notin Running
      /\ overlapped' = [q \in Req |->
            IF q = r THEN (IF Running = {} THEN {} ELSE {"request"})
                          \cup (IF clearing THEN {"clear"} ELSE {})
                          \cup (IF cached THEN {} ELSE {"reload"})
            ELSE IF q \in Running THEN overlapped[q] \cup {"request"} ELSE overlapped[q]]
  BY DEF Receive
<1>2. Running \subseteq Req
  BY DEF Running
<1>3. overlapped'[r] = (IF Running = {} THEN {} ELSE {"request"})
                       \cup (IF clearing THEN {"clear"} ELSE {})
                       \cup (IF cached THEN {} ELSE {"reload"})
  BY <1>1
<1>4. \A q \in Req \ {r} :
          overlapped'[q] = IF q \in Running THEN overlapped[q] \cup {"request"} ELSE overlapped[q]
  BY <1>1
<1>5. \A q \in Req : overlapped'[q] \in SUBSET Marks
  BY <1>3, <1>4 DEF TypeInv, Marks
<1>6. overlapped' \in [Req -> SUBSET Marks]
  BY <1>1, <1>5
<1> QED
  BY <1>1, <1>2, <1>3, <1>4, <1>6

(* Step by step: receiving a request.                                      *)
LEMMA ReceiveTyped ==
    ASSUME TypeInv, NEW r \in Req, Receive(r)
    PROVE  TypeInv' /\ Others(r)
<1>1. /\ stage' \in [Req -> Stages] /\ seen' \in [Req -> Nat]
      /\ signals' \in [Req -> SUBSET Signal]
  BY DEF Receive, Goto, Read, TypeInv, Stages
<1>2. Others(r)
  BY ReceiveMarks DEF Others, Receive, Goto, Read, Answer, TypeInv
<1>3. StoresOK'
  BY DEF Receive, TypeInv, StoresOK, storeVars, outsideVars
<1>4. RequestOK(r)'
  BY NoAnswerSound DEF Receive, Goto, Answer, TypeInv, RequestOK
<1> QED
  BY <1>1, <1>2, <1>3, <1>4, RequestStep, ReceiveMarks DEF Receive, Answer, TypeInv

(* Step by step: extracting the signals.                                   *)
LEMMA ExtractTyped ==
    ASSUME TypeInv, NEW r \in Req, Extract(r)
    PROVE  /\ TypeInv' /\ Others(r) /\ Goto(r, "score")
           /\ UNCHANGED <<clock, trained, listed, ruleScores, aiLast, outsideVars, input, seen,
                          result, called, historyVars>>
           /\ \E dos : signals'[r] = ExtractSignals(Sample(r), History(r), dos)
<1>1. PICK burst : \E found \in PolicyFound :
          LET streak == Streak(burst, dosStreak)
              least == IF found THEN MinSustained ELSE 1
          IN  /\ dosStreak' = IF streak > MinSustained THEN MinSustained ELSE streak
              /\ signals' = [signals EXCEPT ![r] =
                     ExtractSignals(Sample(r), History(r), DosSpike(burst, streak, least))]
  BY DEF Extract
<1>2. /\ Goto(r, "score") /\ stage[r] = "extract"
      /\ UNCHANGED <<clock, trained, listed, ruleScores, zeroStreak, aiLast, outsideVars, input,
                     seen, result, called, historyVars>>
  BY DEF Extract
<1>3. PICK dos : signals' = [signals EXCEPT ![r] = ExtractSignals(Sample(r), History(r), dos)]
  BY <1>1
<1>4. dosStreak' \in 0 .. MinSustained
  <2>1. dosStreak \in 0 .. MinSustained /\ MinSustained \in Nat
    BY FlowAssumption DEF TypeInv, StoresOK
  <2> QED
    BY <1>1, <2>1 DEF Streak
<1>5. StoresOK'
  BY <1>2, <1>4 DEF TypeInv, StoresOK, outsideVars
<1>6. signals' \in [Req -> SUBSET Signal]
      /\ signals'[r] = ExtractSignals(Sample(r), History(r), dos)
  <2>1. ExtractSignals(Sample(r), History(r), dos) \in SUBSET Signal
    BY ExtractedSignals
  <2> QED
    BY <1>3, <2>1 DEF TypeInv
<1>7. Others(r)
  BY <1>2, <1>3 DEF Others, Goto, historyVars, TypeInv
<1>8. RequestOK(r)' /\ stage' \in [Req -> Stages]
  BY <1>2 DEF Goto, TypeInv, RequestOK, Stages
<1>9. TypeInv'
  BY <1>2, <1>5, <1>6, <1>7, <1>8, RequestStep DEF TypeInv, historyVars
<1> QED
  BY <1>2, <1>6, <1>7, <1>9

(* The answer that Average gives.                                          *)
LEMMA AverageAnswer ==
    ASSUME TypeInv, NEW r \in Req, Average(r)
    PROVE  \E found \in PolicyFound : \E y :
               /\ y = AnalyzePattern(signals[r], Sample(r), Weighted(ruleScores), found)
               /\ result' = [result EXCEPT ![r] = [k \in AnswerFields |->
                         CASE k = "own" -> Counted(r) [] k = "gating" -> "NORMAL"
                           [] OTHER -> y[k]]]
<1>1. DOMAIN NoAnswer = AnswerFields
  BY DEF NoAnswer, AnswerFields
<1>2. PICK found \in PolicyFound : result' = [result EXCEPT ![r] = [k \in DOMAIN NoAnswer |->
               CASE k = "own" -> Counted(r) [] k = "gating" -> "NORMAL"
                 [] OTHER -> AnalyzePattern(signals[r], Sample(r), Weighted(ruleScores), found)[k]]]
  BY DEF Average, Answer
<1> QED
  BY <1>1, <1>2

(* It is sound, and with the policy an alarm has its evidence.             *)
LEMMA AverageSound ==
    ASSUME TypeInv, NEW r \in Req, Average(r)
    PROVE  /\ Sound(result'[r]) /\ result'[r].own = Counted(r) /\ result'[r].gating = "NORMAL"
           /\ DOMAIN result' = Req /\ \A q \in Req \ {r} : result'[q] = result[q]
           /\ AlarmPolicy /\ cached => Evidence(result'[r], signals[r])
<1>1. signals[r] \in SUBSET Signal
  BY DEF TypeInv
<1> DEFINE p == Sample(r)
           final == Weighted(ruleScores)
           x == result'[r]
<1>0. PICK found \in PolicyFound : \E y :
          /\ y = AnalyzePattern(signals[r], p, final, found)
          /\ result' = [result EXCEPT ![r] = [k \in AnswerFields |->
                         CASE k = "own" -> Counted(r) [] k = "gating" -> "NORMAL"
                           [] OTHER -> y[k]]]
  BY AverageAnswer
<1>2. PICK y :
          /\ y = AnalyzePattern(signals[r], p, final, found)
          /\ result' = [result EXCEPT ![r] = [k \in AnswerFields |->
                         CASE k = "own" -> Counted(r) [] k = "gating" -> "NORMAL"
                           [] OTHER -> y[k]]]
  BY <1>0
<1>3. found \in BOOLEAN /\ (cached => found)
  BY DEF PolicyFound
<1>4. DOMAIN result' = Req /\ \A q \in Req \ {r} : result'[q] = result[q]
  BY <1>2 DEF TypeInv
<1>5. x = [k \in AnswerFields |->
              CASE k = "own" -> Counted(r) [] k = "gating" -> "NORMAL" [] OTHER -> y[k]]
  BY <1>2 DEF TypeInv
<1> HIDE DEF p, final, x
<1>6. /\ DOMAIN x = AnswerFields /\ x.own = Counted(r) /\ x.gating = "NORMAL"
      /\ x.verdict = y.verdict /\ x.severity = y.severity /\ x.breakdown = y.breakdown
  BY <1>5 DEF AnswerFields
<1>7. Sound(x) /\ (AlarmPolicy /\ found => Evidence(x, signals[r]))
  BY <1>1, <1>2, <1>3, <1>6, PatternSound
<1> QED
  BY <1>3, <1>4, <1>6, <1>7 DEF x

(* Step by step: the average.                                              *)
LEMMA AverageTyped ==
    ASSUME TypeInv, NEW r \in Req, Average(r)
    PROVE  /\ TypeInv' /\ Others(r) /\ Goto(r, "gate")
           /\ UNCHANGED <<clock, storeVars, outsideVars, input, signals, seen, called, historyVars>>
<1>1. /\ Goto(r, "gate") /\ stage[r] = "average"
      /\ UNCHANGED <<clock, storeVars, outsideVars, input, signals, seen, called, historyVars>>
  BY DEF Average, Move
<1>2. Others(r)
  BY <1>1, AverageSound DEF Others, Goto, historyVars, TypeInv
<1>3. StoresOK'
  BY <1>1 DEF TypeInv, StoresOK, storeVars, outsideVars
<1>4. RequestOK(r)' /\ stage' \in [Req -> Stages]
  BY <1>1, AverageSound DEF Goto, TypeInv, RequestOK, Stages
<1> QED
  BY <1>1, <1>2, <1>3, <1>4, AverageSound, RequestStep DEF TypeInv, historyVars

(* The answer that Gate gives.                                             *)
LEMMA GateAnswer ==
    ASSUME TypeInv, NEW r \in Req, Gate(r)
    PROVE  /\ DOMAIN result' = Req /\ \A q \in Req \ {r} : result'[q] = result[q]
           /\ \E g \in VerdictNames :
                  result'[r] = [ApplyNetworkOnlyCap(MergeGating(result[r], g), signals[r])
                                   EXCEPT !.gating = g]
<1>1. Sent[input[r]].g \cup {"NORMAL"} \subseteq VerdictNames
  <2>1. input[r] \in DOMAIN Sent
    BY DEF Gate, TypeInv, RequestOK
  <2> QED
    BY <2>1, FlowAssumption, VerdictSets DEF VerdictNames
<1>2. PICK g \in Sent[input[r]].g \cup {"NORMAL"} :
          result' = [result EXCEPT ![r] = [ApplyNetworkOnlyCap(MergeGating(result[r], g), signals[r])
                                EXCEPT !.gating = g]]
  BY DEF Gate, Answer
<1>3. g \in VerdictNames
  BY <1>1
<1>4. result'[r] = [ApplyNetworkOnlyCap(MergeGating(result[r], g), signals[r]) EXCEPT !.gating = g]
      /\ DOMAIN result' = Req /\ \A q \in Req \ {r} : result'[q] = result[q]
  BY <1>2 DEF TypeInv
<1> QED
  BY <1>3, <1>4

(* Step by step: the categories and the cap.                               *)
LEMMA GateTyped ==
    ASSUME TypeInv, NEW r \in Req, Gate(r), result[r].gating = "NORMAL"
    PROVE  /\ TypeInv' /\ Others(r) /\ Goto(r, "degrade")
           /\ UNCHANGED <<clock, storeVars, outsideVars, input, signals, seen, called, historyVars>>
           /\ result'[r].own = result[r].own
           /\ Evidence(result[r], signals[r]) => Evidence(result'[r], signals[r])
           /\ NetworkOnly(signals[r]) /\ ~CapExempt(signals[r]) => ~Alarm(result'[r])
<1>1. /\ Goto(r, "degrade") /\ stage[r] = "gate"
      /\ UNCHANGED <<clock, storeVars, outsideVars, input, signals, seen, called, historyVars>>
  BY DEF Gate, Move
<1>2. Others(r)
  BY <1>1, GateAnswer DEF Others, Goto, historyVars, TypeInv
<1>3. StoresOK'
  BY <1>1 DEF TypeInv, StoresOK, storeVars, outsideVars
<1>4. Sound(result[r])
  BY DEF TypeInv, RequestOK
<1>5. PICK g \in VerdictNames :
          result'[r] = [ApplyNetworkOnlyCap(MergeGating(result[r], g), signals[r])
                           EXCEPT !.gating = g]
  BY GateAnswer
<1>6. /\ Sound(result'[r]) /\ result'[r].own = result[r].own
      /\ Evidence(result[r], signals[r]) => Evidence(result'[r], signals[r])
      /\ NetworkOnly(signals[r]) /\ ~CapExempt(signals[r]) => ~Alarm(result'[r])
  BY <1>4, <1>5, GateSound
<1>7. RequestOK(r)' /\ stage' \in [Req -> Stages]
  BY <1>1, <1>6 DEF Goto, TypeInv, RequestOK, Stages
<1>8. TypeInv'
  BY <1>1, <1>2, <1>3, <1>7, GateAnswer, RequestStep DEF TypeInv, historyVars
<1> QED
  BY <1>1, <1>2, <1>6, <1>8

(* Step by step: calling the model.                                        *)
LEMMA CallTyped ==
    ASSUME TypeInv, NEW r \in Req, CallAgent(r)
    PROVE  /\ TypeInv' /\ Others(r) /\ Goto(r, "calling") /\ stage[r] = "agent"
           /\ UNCHANGED <<clock, storeVars, outsideVars, input, signals, seen, result, overlapped>>
<1>1. /\ Goto(r, "calling") /\ stage[r] = "agent" /\ Alarming(r)
      /\ called' = [called EXCEPT ![r] = clock]
      /\ UNCHANGED <<clock, storeVars, outsideVars, input, signals, seen, result, overlapped>>
  BY DEF CallAgent
<1>2. Others(r)
  BY <1>1 DEF Others, Goto, TypeInv
<1>3. StoresOK'
  BY <1>1 DEF TypeInv, StoresOK, storeVars, outsideVars
<1>4. RequestOK(r)' /\ stage' \in [Req -> Stages] /\ DOMAIN called' = Req
  BY <1>1 DEF Goto, TypeInv, RequestOK, Alarming, StoresOK, Stages
<1> QED
  BY <1>1, <1>2, <1>3, <1>4, RequestStep DEF TypeInv

(* Step by step: not calling it.                                           *)
LEMMA SkipTyped ==
    ASSUME TypeInv, NEW r \in Req, SkipAgent(r)
    PROVE  /\ TypeInv' /\ Others(r) /\ Goto(r, "answered") /\ stage[r] = "agent"
           /\ UNCHANGED <<clock, storeVars, outsideVars, input, signals, seen, result, historyVars>>
<1>1. /\ Goto(r, "answered") /\ stage[r] = "agent"
      /\ called' = [called EXCEPT ![r] = clock]
      /\ UNCHANGED <<clock, storeVars, outsideVars, input, signals, seen, result, historyVars>>
  BY DEF SkipAgent, Move
<1>2. Others(r)
  BY <1>1 DEF Others, Goto, historyVars, TypeInv
<1>3. StoresOK'
  BY <1>1 DEF TypeInv, StoresOK, storeVars, outsideVars
<1>4. RequestOK(r)' /\ stage' \in [Req -> Stages] /\ DOMAIN called' = Req
  BY <1>1 DEF Goto, TypeInv, RequestOK, StoresOK, Stages
<1> QED
  BY <1>1, <1>2, <1>3, <1>4, RequestStep DEF TypeInv, historyVars

(* What comes from outside leaves the requests where they are, and marks   *)
(* those that run.                                                         *)
LEMMA OutsideTyped ==
    ASSUME TypeInv, Outside
    PROVE  /\ TypeInv' /\ \A r \in Req : overlapped[r] \subseteq overlapped'[r]
           /\ UNCHANGED <<clock, stage, input, signals, seen, result, called, calls, aiLast>>
<1>1. UNCHANGED <<clock, stage, input, signals, seen, result, called, calls, aiLast>>
  BY DEF Outside, ForgetPc, ForgetScores, EmptyCache, FillCache, FleetChanges, Happens, requestVars,
         storeVars, historyVars
<1>2. StoresOK'
  <2>1. others' \in Nat /\ listed' \in BOOLEAN /\ trained' \in {"none", "pc", "slot"}
        /\ (ruleScores' = ruleScores \/ ruleScores' = None)
        /\ UNCHANGED <<zeroStreak, dosStreak>>
    BY DEF Outside, ForgetPc, ForgetScores, EmptyCache, FillCache, FleetChanges, storeVars,
           TypeInv, StoresOK
  <2> QED
    BY <1>1, <2>1 DEF TypeInv, StoresOK
<1>3. overlapped' \in [Req -> SUBSET Marks] /\ \A r \in Req : overlapped[r] \subseteq overlapped'[r]
  <2>1. ASSUME NEW m \in Marks, Mark(Running, m)
        PROVE  overlapped' \in [Req -> SUBSET Marks]
               /\ \A r \in Req : overlapped[r] \subseteq overlapped'[r]
    BY <2>1 DEF Mark, TypeInv
  <2>2. CASE ForgetPc
    BY <2>1, <2>2 DEF ForgetPc, Happens, Marks
  <2>3. CASE EmptyCache
    BY <2>1, <2>3 DEF EmptyCache, Happens, Marks
  <2>4. CASE FleetChanges
    BY <2>1, <2>4 DEF FleetChanges, Happens, Marks
  <2>5. CASE ForgetScores \/ FillCache
    BY <2>5 DEF ForgetScores, FillCache, historyVars, TypeInv
  <2> QED
    BY <2>2, <2>3, <2>4, <2>5 DEF Outside
<1>4. \A r \in Req : RequestOK(r)'
  BY <1>1 DEF TypeInv, RequestOK, Alarming
<1> QED
  BY <1>1, <1>2, <1>3, <1>4 DEF TypeInv

(* Step by step: the clock.                                                *)
LEMMA TickTyped == ASSUME TypeInv, Tick PROVE TypeInv'
<1>1. StoresOK'
  <2>1. clock \in Nat /\ MaxClock \in Nat
    BY FlowAssumption DEF TypeInv, StoresOK
  <2>2. clock' \in Nat /\ clock' <= MaxClock /\ clock <= clock'
    BY <2>1 DEF Tick
  <2> QED
    BY <2>1, <2>2 DEF Tick, TypeInv, StoresOK, storeVars, outsideVars
<1>2. \A r \in Req : RequestOK(r)'
  BY DEF Tick, requestVars, TypeInv, StoresOK, RequestOK, Alarming
<1> QED
  BY <1>1, <1>2 DEF Tick, requestVars, historyVars, TypeInv

(* The steps of a request.                                                 *)
LEMMA RequestSteps ==
    ASSUME NEW r \in Req,
           \/ Receive(r) \/ Extract(r) \/ Train(r) \/ KeepScore(r) \/ Judge(r) \/ Iterate(r)
           \/ Consult(r)
    PROVE  \/ Receive(r) \/ Extract(r) \/ Advancing(r) \/ Average(r) \/ Gate(r)
           \/ CallAgent(r) \/ SkipAgent(r)
BY DEF Train, KeepScore, Judge, Iterate, Consult, Advancing, Failing
-----------------------------------------------------------------------------
(* Requests that run at the same time know of each other, and of the       *)
(* reload and the clear that are under way.                                *)
OverlapInv ==
    /\ \A q, r \in Running : q # r => "request" \in overlapped[r]
    /\ ~cached => \A r \in Running : "reload" \in overlapped[r]
    /\ clearing => \A r \in Running : "clear" \in overlapped[r]

(* A step of a request that is no new one.                                 *)
LEMMA RunningSteps ==
    ASSUME TypeInv, OverlapInv, NEW r \in Running, NEW s \in Stages, Goto(r, s),
           UNCHANGED <<cached, clearing>>, \A q \in Req : overlapped[q] \subseteq overlapped'[q]
    PROVE  OverlapInv'
<1>1. r \in Req /\ stage'[r] = s /\ \A q \in Req \ {r} : stage'[q] = stage[q]
  BY DEF Goto, Running, TypeInv
<1>2. Running' \in SUBSET Running /\ Running \subseteq Req
  BY <1>1 DEF Running
<1> QED
  BY <1>2 DEF OverlapInv

(* Each step keeps that knowledge.                                         *)
LEMMA StepOverlap ==
    ASSUME TypeInv, OverlapInv, [Next]_vars
    PROVE  OverlapInv'
<1>1. CASE UNCHANGED vars \/ Tick
  BY <1>1 DEF Tick, vars, outsideVars, historyVars, OverlapInv, Running
<1>2. CASE Outside
  <2>1. Running' = Running
    BY <1>2, OutsideTyped DEF Running
  <2>2. \A r \in Running : overlapped[r] \subseteq overlapped'[r]
    BY <1>2, OutsideTyped DEF Running
  <2>3. ASSUME NEW m, Mark(Running, m) PROVE \A r \in Running : m \in overlapped'[r]
    BY <2>3 DEF Mark, Running
  <2>4. CASE ForgetPc
    BY <2>1, <2>2, <2>3, <2>4 DEF ForgetPc, Happens, OverlapInv
  <2>5. CASE ForgetScores
    BY <2>1, <2>2, <2>5 DEF ForgetScores, OverlapInv
  <2>6. CASE EmptyCache
    BY <2>1, <2>2, <2>3, <2>6 DEF EmptyCache, Happens, OverlapInv
  <2>7. CASE FillCache
    BY <2>1, <2>2, <2>7 DEF FillCache, OverlapInv
  <2>8. CASE FleetChanges
    BY <2>1, <2>2, <2>8 DEF FleetChanges, OverlapInv
  <2> QED
    BY <1>2, <2>4, <2>5, <2>6, <2>7, <2>8 DEF Outside
<1>3. ASSUME NEW r \in Req, Receive(r) PROVE OverlapInv'
  <2>1. /\ r \notin Running /\ UNCHANGED <<cached, clearing>> /\ Running \subseteq Req
        /\ \A q \in Req \ {r} : stage'[q] = stage[q]
    BY <1>3, ReceiveTyped DEF Receive, outsideVars, Running, Others
  <2>2. Running' \subseteq Running \cup {r}
    BY <2>1 DEF Running
  <2>3. \A q \in Running : overlapped[q] \subseteq overlapped'[q]
    BY <1>3, <2>1, ReceiveMarks
  <2> QED
    BY <1>3, <2>1, <2>2, <2>3, ReceiveMarks DEF OverlapInv
<1>4. ASSUME NEW r \in Req, Extract(r) PROVE OverlapInv'
  <2>1. r \in Running /\ "score" \in Stages
    BY <1>4 DEF Extract, Running, Stages
  <2> QED
    BY <1>4, <2>1, RunningSteps DEF Extract, outsideVars, historyVars
<1>5. ASSUME NEW r \in Req, Advancing(r) PROVE OverlapInv'
  <2>1. /\ r \in Running /\ UNCHANGED <<cached, clearing>>
        /\ \E t \in Stages : Goto(r, t)
        /\ \A q \in Req : overlapped[q] \subseteq overlapped'[q]
    BY <1>5, AdvancingTyped DEF Others
  <2> QED
    BY <2>1, RunningSteps
<1>6. ASSUME NEW r \in Req, Average(r) \/ Gate(r) PROVE OverlapInv'
  <2>1. r \in Running /\ {"gate", "degrade"} \subseteq Stages
    BY <1>6 DEF Average, Gate, Running, Stages
  <2> QED
    BY <1>6, <2>1, RunningSteps DEF Average, Gate, Move, outsideVars, historyVars
<1>7. ASSUME NEW r \in Req, CallAgent(r) \/ SkipAgent(r) PROVE OverlapInv'
  <2>1. r \in Running /\ {"calling", "answered"} \subseteq Stages
    BY <1>7 DEF CallAgent, SkipAgent, Running, Stages
  <2> QED
    BY <1>7, <2>1, RunningSteps DEF CallAgent, SkipAgent, Move, outsideVars, historyVars
<1> QED
  BY <1>1, <1>2, <1>3, <1>4, <1>5, <1>6, <1>7, RequestSteps DEF Next
-----------------------------------------------------------------------------
(* What the answer of a request rests on, stage by stage.                  *)
AnswerOK(r) ==
    /\ stage[r] \in Extracted =>
           \E dos : signals[r] = ExtractSignals(Sample(r), History(r), dos)
    /\ stage[r] = "gate" => result[r].gating = "NORMAL"
    /\ stage[r] \in Judged /\ AlarmPolicy /\ "reload" \notin overlapped[r] =>
           Evidence(result[r], signals[r])
    /\ stage[r] \in Gated /\ NetworkOnly(signals[r]) /\ ~CapExempt(signals[r]) =>
           ~Alarm(result[r])

AnswerInv == \A r \in Req : AnswerOK(r)

(* Nobody has an answer yet.                                               *)
LEMMA InitAnswers == Init => AnswerInv /\ OverlapInv
BY DEF Init, AnswerInv, AnswerOK, OverlapInv, Running, Extracted, Judged, Gated

(* A step of one request keeps the answers of the others.                  *)
LEMMA OthersAnswers ==
    ASSUME AnswerInv, NEW r \in Req, Others(r), AnswerOK(r)'
    PROVE  AnswerInv'
<1>1. \A q \in Req \ {r} : AnswerOK(q)'
  BY DEF AnswerInv, AnswerOK, Others, Sample, History
<1> QED
  BY <1>1 DEF AnswerInv

(* A step that only moves the request to a later stage.                    *)
LEMMA MoveAnswers ==
    ASSUME TypeInv, AnswerInv, NEW r \in Req, NEW s \in Stages, Goto(r, s), Others(r),
           UNCHANGED <<input, signals, result>>, overlapped[r] \subseteq overlapped'[r],
           s \in Extracted => stage[r] \in Extracted,
           s # "gate",
           s \in Judged => stage[r] \in Judged,
           s \in Gated => stage[r] \in Gated
    PROVE  AnswerInv'
<1>1. stage'[r] = s
  BY DEF Goto, TypeInv
<1>2. AnswerOK(r)'
  BY <1>1 DEF AnswerInv, AnswerOK, Sample, History
<1> QED
  BY <1>2, OthersAnswers

(* The signals of a request are those of its sample.                       *)
LEMMA ExtractAnswers ==
    ASSUME TypeInv, AnswerInv, NEW r \in Req, Extract(r)
    PROVE  AnswerInv'
<1>1. stage'[r] = "score" /\ input' = input /\ Others(r)
  BY ExtractTyped DEF Goto, TypeInv
<1>2. PICK dos : signals'[r] = ExtractSignals(Sample(r), History(r), dos)
  BY ExtractTyped
<1>3. AnswerOK(r)'
  <2>1. signals'[r] = ExtractSignals(Sample(r)', History(r)', dos)
    BY <1>1, <1>2 DEF Sample, History
  <2> QED
    BY <1>1, <2>1 DEF AnswerOK, Judged, Gated
<1> QED
  BY <1>1, <1>3, OthersAnswers

(* The rules judge.                                                        *)
LEMMA AverageAnswers ==
    ASSUME TypeInv, OverlapInv, AnswerInv, NEW r \in Req, Average(r)
    PROVE  AnswerInv'
<1>1. /\ stage'[r] = "gate" /\ Others(r)
      /\ UNCHANGED <<input, signals, overlapped>>
  BY AverageTyped DEF Goto, TypeInv, historyVars
<1>2. /\ result'[r].gating = "NORMAL"
      /\ AlarmPolicy /\ cached => Evidence(result'[r], signals[r])
  BY AverageSound
<1>3. stage[r] = "average" /\ r \in Running
  BY DEF Average, Running
<1>4. ~cached => "reload" \in overlapped[r]
  BY <1>3 DEF OverlapInv
<1>5. AnswerOK(r)'
  BY <1>1, <1>2, <1>3, <1>4 DEF AnswerInv, AnswerOK, Extracted, Judged, Gated, Sample, History
<1> QED
  BY <1>1, <1>5, OthersAnswers

(* The categories and the cap judge.                                       *)
LEMMA GateAnswers ==
    ASSUME TypeInv, AnswerInv, NEW r \in Req, Gate(r)
    PROVE  TypeInv' /\ AnswerInv'
<1>1. stage[r] = "gate" /\ result[r].gating = "NORMAL"
  BY DEF Gate, AnswerInv, AnswerOK
<1>2. /\ stage'[r] = "degrade" /\ Others(r)
      /\ UNCHANGED <<input, signals, overlapped>>
  BY <1>1, GateTyped DEF Goto, TypeInv, historyVars
<1>3. /\ TypeInv'
      /\ Evidence(result[r], signals[r]) => Evidence(result'[r], signals[r])
      /\ NetworkOnly(signals[r]) /\ ~CapExempt(signals[r]) => ~Alarm(result'[r])
  BY <1>1, GateTyped
<1>4. AnswerOK(r)'
  BY <1>1, <1>2, <1>3 DEF AnswerInv, AnswerOK, Extracted, Judged, Sample, History
<1> QED
  BY <1>2, <1>3, <1>4, OthersAnswers

(* Every step keeps types and answers.                                     *)
LEMMA StepAnswers ==
    ASSUME TypeInv, OverlapInv, AnswerInv, [Next]_vars
    PROVE  TypeInv' /\ AnswerInv'
<1>1. CASE UNCHANGED vars
  BY <1>1 DEF vars, storeVars, outsideVars, requestVars, historyVars, TypeInv, StoresOK, RequestOK,
              AnswerInv, AnswerOK, Sample, History, Alarming
<1>2. CASE Outside
  <2>1. AnswerInv'
    BY <1>2, OutsideTyped DEF AnswerInv, AnswerOK, Sample, History
  <2> QED
    BY <1>2, <2>1, OutsideTyped
<1>3. CASE Tick
  <2>1. AnswerInv'
    BY <1>3 DEF Tick, requestVars, historyVars, AnswerInv, AnswerOK, Sample, History
  <2> QED
    BY <1>3, <2>1, TickTyped
<1>4. ASSUME NEW r \in Req, Receive(r) PROVE TypeInv' /\ AnswerInv'
  <2>1. AnswerOK(r)'
    BY <1>4 DEF Receive, Goto, TypeInv, AnswerOK, Extracted, Judged, Gated
  <2> QED
    BY <1>4, <2>1, OthersAnswers, ReceiveTyped
<1>5. ASSUME NEW r \in Req, Extract(r) PROVE TypeInv' /\ AnswerInv'
  BY <1>5, ExtractAnswers, ExtractTyped
<1>6. ASSUME NEW r \in Req, Advancing(r) PROVE TypeInv' /\ AnswerInv'
  <2>1. PICK t \in Stages : Goto(r, t) /\ Forward(stage[r], t)
    BY <1>6, AdvancingTyped
  <2>2. AnswerInv'
    BY <1>6, <2>1, AdvancingTyped, MoveAnswers DEF Forward
  <2> QED
    BY <1>6, <2>2, AdvancingTyped
<1>7. ASSUME NEW r \in Req, Average(r) PROVE TypeInv' /\ AnswerInv'
  BY <1>7, AverageAnswers, AverageTyped
<1>8. ASSUME NEW r \in Req, Gate(r) PROVE TypeInv' /\ AnswerInv'
  BY <1>8, GateAnswers
<1>9. ASSUME NEW r \in Req, CallAgent(r) PROVE TypeInv' /\ AnswerInv'
  <2>1. "calling" \in Stages /\ stage[r] \in Gated
    BY <1>9, CallTyped DEF Stages, Gated, Judged
  <2> QED
    BY <1>9, <2>1, CallTyped, MoveAnswers DEF Extracted, Gated
<1>10. ASSUME NEW r \in Req, SkipAgent(r) PROVE TypeInv' /\ AnswerInv'
  <2>1. "answered" \in Stages /\ stage[r] \in Gated
    BY <1>10, SkipTyped DEF Stages, Gated, Judged
  <2> QED
    BY <1>10, <2>1, SkipTyped, MoveAnswers DEF Extracted, Gated, historyVars
<1> QED
  BY <1>1, <1>2, <1>3, <1>4, <1>5, <1>6, <1>7, <1>8, <1>9, <1>10, RequestSteps DEF Next

(* What every answer rests on, for any samples, policies, requests,        *)
(* clears, reloads and changes of the fleet, and whatever the average was. *)
THEOREM AnswersRestOnEvidence == Spec => [](TypeInv /\ OverlapInv /\ AnswerInv)
<1>1. Init => TypeInv /\ OverlapInv /\ AnswerInv
  BY InitTyped, InitAnswers
<1>2. TypeInv /\ OverlapInv /\ AnswerInv /\ [Next]_vars => (TypeInv /\ OverlapInv /\ AnswerInv)'
  BY StepAnswers, StepOverlap
<1> QED
  BY <1>1, <1>2, PTL DEF Spec

(* Every store and every answer of analyze() has a value of its kind, and  *)
(* the history of scores never outgrows its window, however requests,      *)
(* clears and reloads interleave.                                          *)
THEOREM FlowTyped == Spec => []FlowTypeOK
<1>1. TypeInv => FlowTypeOK
  <2> SUFFICES ASSUME TypeInv PROVE FlowTypeOK
    OBVIOUS
  <2>1. \A r \in Req : /\ result[r].verdict \in ToSet(Verdicts)
                       /\ result[r].severity \in ToSet(Severities)
    BY VerdictSets, SeveritiesOf DEF TypeInv, RequestOK, Sound, VerdictNames
  <2> QED
    BY <2>1, FlowAssumption DEF TypeInv, StoresOK, RequestOK, FlowTypeOK
<1> QED
  BY <1>1, AnswersRestOnEvidence, PTL

(* With the promotion gate on, no answer is an alarm because of the scores *)
(* of earlier samples alone, nor because of one signal, unless a reload    *)
(* ran beside it.                                                          *)
THEOREM AlarmsHaveEvidence == ASSUME AlarmPolicy PROVE Spec => []AlarmHasOwnEvidence
<1>1. TypeInv /\ AnswerInv => AlarmHasOwnEvidence
  BY Ranks DEF AnswerInv, AnswerOK, AlarmHasOwnEvidence, Answered, Observed, VerdictRank, Evidence,
               Alarm, Judged
<1> QED
  BY <1>1, AnswersRestOnEvidence, PTL

(* What only the network says is neither an alarm nor called mining,       *)
(* whatever the categories said.                                           *)
THEOREM NetworkNeverAlarms == Spec => []NetworkAloneNeverAlarms
<1>1. TypeInv /\ AnswerInv => NetworkAloneNeverAlarms
  <2> SUFFICES ASSUME TypeInv, AnswerInv, NEW r \in Answered,
                      NetworkOnly(signals[r]), ~CapExempt(signals[r])
               PROVE  VerdictRank(r) <= Observed /\ PrimaryType(signals[r]) # "MINING_SUSPICION"
    BY DEF NetworkAloneNeverAlarms
  <2>1. r \in Req /\ stage[r] = "answered"
    BY DEF Answered
  <2>2. Rank(Verdicts, result[r].verdict) \in 1 .. 4
    BY <2>1, Ranks DEF TypeInv, RequestOK, Sound, VerdictNames
  <2>3. VerdictRank(r) <= Observed
    BY <2>1, <2>2, Ranks DEF AnswerInv, AnswerOK, Gated, Judged, Alarm, VerdictRank, Observed
  <2>4. PICK dos : signals[r] = ExtractSignals(Sample(r), History(r), dos)
    BY <2>1 DEF AnswerInv, AnswerOK, Extracted, Judged
  <2> QED
    BY <2>3, <2>4, NetworkIsNotMining
<1> QED
  BY <1>1, AnswersRestOnEvidence, PTL

(* The judgment in place of a failed call is never milder than the answer. *)
THEOREM JudgmentsCover == Spec => []JudgmentCoversAnswer
<1>1. TypeInv => JudgmentCoversAnswer
  BY JudgmentCovers DEF TypeInv, RequestOK, JudgmentCoversAnswer, Answered, Alarming, SevRank
<1> QED
  BY <1>1, AnswersRestOnEvidence, PTL
-----------------------------------------------------------------------------
(* What a request uses next is there, or something that it knows of has    *)
(* taken it away: the levels of the training history, the scores, the size *)
(* of the table of latest samples.                                         *)
Listing == {"extract", "score", "make", "append", "decay", "count", "empty", "reset", "average",
            "gate", "degrade", "iterate"}
Scored == {"append", "decay", "count", "empty", "reset", "average"}

FailOK(r) ==
    /\ stage[r] = "failed" => overlapped[r] \cap {"clear", "reload", "fleet", "first"} # {}
    /\ stage[r] = "slot" => trained # "none" \/ "clear" \in overlapped[r]
    /\ stage[r] = "keep" => trained = "slot" \/ "clear" \in overlapped[r]
                                             \/ "first" \in overlapped[r]
    /\ stage[r] \in Scored => ruleScores # None \/ "clear" \in overlapped[r]
    /\ stage[r] \in Listing => listed \/ "clear" \in overlapped[r]
    /\ stage[r] = "iterate" => seen[r] = Latest \/ "fleet" \in overlapped[r]
                                                \/ "clear" \in overlapped[r]

FailInv == \A r \in Req : FailOK(r)

(* Nothing has failed yet.                                                 *)
LEMMA InitFails == Init => FailInv
BY DEF Init, FailInv, FailOK, Scored, Listing

(* What the step of another leaves of it.                                  *)
LEMMA FailKept ==
    ASSUME FailInv, NEW q \in Req, stage'[q] = stage[q], seen'[q] = seen[q],
           overlapped[q] \subseteq overlapped'[q],
           stage[q] = "slot" /\ trained # "none" => trained' # "none" \/ "clear" \in overlapped'[q],
           stage[q] = "keep" /\ trained = "slot" =>
               trained' = "slot" \/ "clear" \in overlapped'[q] \/ "first" \in overlapped'[q],
           stage[q] \in Scored /\ ruleScores # None =>
               ruleScores' # None \/ "clear" \in overlapped'[q],
           stage[q] \in Listing /\ listed => listed' \/ "clear" \in overlapped'[q],
           stage[q] = "iterate" /\ listed =>
               Latest' = Latest \/ "fleet" \in overlapped'[q] \/ "clear" \in overlapped'[q]
    PROVE  FailOK(q)'
<1>1. FailOK(q)
  BY DEF FailInv
<1>2. stage[q] = "failed" => overlapped'[q] \cap {"clear", "reload", "fleet", "first"} # {}
  BY <1>1 DEF FailOK
<1>3. stage[q] = "slot" => trained' # "none" \/ "clear" \in overlapped'[q]
  BY <1>1 DEF FailOK
<1>4. stage[q] = "keep" => trained' = "slot" \/ "clear" \in overlapped'[q]
                                             \/ "first" \in overlapped'[q]
  BY <1>1 DEF FailOK
<1>5. stage[q] \in Scored => ruleScores' # None \/ "clear" \in overlapped'[q]
  BY <1>1 DEF FailOK
<1>6. stage[q] \in Listing => listed' \/ "clear" \in overlapped'[q]
  BY <1>1 DEF FailOK
<1>7. stage[q] = "iterate" => seen[q] = Latest' \/ "fleet" \in overlapped'[q]
                                                \/ "clear" \in overlapped'[q]
  BY <1>1 DEF FailOK, Listing
<1> QED
  BY <1>2, <1>3, <1>4, <1>5, <1>6, <1>7 DEF FailOK

(* What an advance of one request leaves to the others.                    *)
LEMMA AdvanceFails ==
    ASSUME TypeInv, OverlapInv, FailInv, NEW r \in Req, Advancing(r)
    PROVE  \A q \in Req \ {r} : FailOK(q)'
<1> SUFFICES ASSUME NEW q \in Req \ {r} PROVE FailOK(q)'
  OBVIOUS
<1>1. stage'[q] = stage[q] /\ seen'[q] = seen[q] /\ overlapped[q] \subseteq overlapped'[q]
  BY AdvancingTyped DEF Others
<1>2. stage[q] \in {"slot", "keep"} \cup Scored \cup Listing => q \in Running
  BY DEF Running, Scored, Listing
<1>3. others' = others
  BY MakePcAdvance, MakeSlotAdvance, KeepAdvance, FailAdvance, LookAdvance, MakeScoresAdvance,
     AppendAdvance, DecayAdvance, CountAdvance, EmptyAdvance, ResetAdvance, BeginAdvance,
     EndAdvance, ReturnAdvance DEF Advancing, Advance
<1>4. CASE MakePc(r)
  BY <1>1, <1>2, <1>3, <1>4, MakePcAdvance, FailKept DEF Latest
<1>5. CASE MakeSlot(r)
  BY <1>1, <1>3, <1>5, MakeSlotAdvance, FailKept DEF Latest
<1>6. CASE KeepSample(r)
  BY <1>1, <1>3, <1>6, KeepAdvance, FailKept DEF Latest
<1>7. CASE MakeScores(r) \/ EmptyHistory(r) \/ AppendScore(r)
  <2>1. ruleScores' # None /\ UNCHANGED <<trained, listed>>
    BY <1>7, MakeScoresAdvance, EmptyAdvance, AppendAdvance, EmptyIsThere
  <2> QED
    BY <1>1, <1>3, <2>1, FailKept DEF Latest
<1>8. CASE UNCHANGED <<trained, listed, ruleScores>>
  BY <1>1, <1>3, <1>8, FailKept DEF Latest
<1> QED
  BY <1>4, <1>5, <1>6, <1>7, <1>8, FailAdvance, LookAdvance, DecayAdvance, CountAdvance,
     ResetAdvance, BeginAdvance, EndAdvance, ReturnAdvance DEF Advancing

(* Each failure has its cause.                                             *)
LEMMA FailuresCaused ==
    ASSUME TypeInv, OverlapInv, FailInv, NEW r \in Req, Failing(r)
    PROVE  overlapped[r] \cap {"clear", "reload", "fleet", "first"} # {}
<1>1. FailOK(r)
  BY DEF FailInv
<1>2. CASE KeepFails(r)
  BY <1>1, <1>2 DEF KeepFails, FailOK
<1>3. CASE ScoreFails(r) \/ AverageFails(r)
  <2>1. ~cached /\ r \in Running
    BY <1>3 DEF ScoreFails, AverageFails, Running
  <2> QED
    BY <2>1 DEF OverlapInv
<1>4. CASE ScoresGone(r)
  BY <1>1, <1>4 DEF ScoresGone, FailOK, Scored
<1>5. CASE IterationFails(r)
  BY <1>1, <1>5 DEF IterationFails, FailOK
<1> QED
  BY <1>2, <1>3, <1>4, <1>5 DEF Failing

(* What an advance leaves to the request itself.                           *)
LEMMA AdvanceFailsSelf ==
    ASSUME TypeInv, OverlapInv, FailInv, NEW r \in Req, Advancing(r)
    PROVE  FailOK(r)'
<1>0. FailOK(r) /\ overlapped[r] \subseteq overlapped'[r]
  BY AdvancingTyped DEF FailInv
<1> DEFINE To(t) == stage' = [stage EXCEPT ![r] = t]
<1>1. \A t : To(t) => stage'[r] = t
  BY DEF TypeInv
<1>2. others' = others
  BY MakePcAdvance, MakeSlotAdvance, KeepAdvance, FailAdvance, LookAdvance, MakeScoresAdvance,
     AppendAdvance, DecayAdvance, CountAdvance, EmptyAdvance, ResetAdvance, BeginAdvance,
     EndAdvance, ReturnAdvance DEF Advancing, Advance
<1>3. CASE MakePc(r)
  <2>1. stage'[r] = "slot" /\ trained' = "pc"
    BY <1>1, <1>3 DEF MakePc, Goto
  <2> QED
    BY <2>1 DEF FailOK, Scored, Listing
<1>4. CASE MakeSlot(r)
  <2>1. stage'[r] = "keep" /\ trained' = "slot"
    BY <1>1, <1>4 DEF MakeSlot, Goto
  <2> QED
    BY <2>1 DEF FailOK, Scored, Listing
<1>5. CASE KeepSample(r)
  <2>1. stage'[r] = "extract" /\ listed' = TRUE
    BY <1>1, <1>5 DEF KeepSample, Goto
  <2> QED
    BY <2>1 DEF FailOK, Scored
<1>6. CASE Failing(r)
  <2>1. stage'[r] = "failed"
    BY <1>1, <1>6, FailAdvance DEF Advance, Goto
  <2> QED
    BY <1>0, <1>6, <2>1, FailuresCaused DEF FailOK, Scored, Listing
<1>7. CASE LookScores(r)
  <2>1. /\ stage[r] = "score" /\ UNCHANGED <<listed, ruleScores>>
        /\ stage'[r] = "make" \/ (stage'[r] = "append" /\ ruleScores # None)
    BY <1>1, <1>7, LookAdvance DEF LookScores, Goto
  <2> QED
    BY <1>0, <2>1 DEF FailOK, Scored, Listing
<1>8. CASE MakeScores(r)
  <2>1. stage[r] = "make" /\ stage'[r] = "append" /\ listed' = listed /\ ruleScores' # None
    BY <1>1, <1>8, EmptyIsThere DEF MakeScores, Goto
  <2> QED
    BY <1>0, <2>1 DEF FailOK, Scored, Listing
<1>9. CASE AppendScore(r)
  <2>1. stage[r] = "append" /\ stage'[r] = "decay" /\ listed' = listed /\ ruleScores' # None
    BY <1>1, <1>9, AppendAdvance DEF AppendScore, Goto
  <2> QED
    BY <1>0, <2>1 DEF FailOK, Scored, Listing
<1>10. CASE Decay(r)
  <2>1. /\ stage[r] = "decay" /\ stage'[r] \in {"average", "count"}
        /\ UNCHANGED <<listed, ruleScores>>
    BY <1>1, <1>10, DecayAdvance DEF Decay, Goto
  <2> QED
    BY <1>0, <2>1 DEF FailOK, Scored, Listing
<1>11. CASE CountZero(r)
  <2>1. stage[r] = "count" /\ stage'[r] \in {"empty", "average"} /\ UNCHANGED <<listed, ruleScores>>
    BY <1>1, <1>11 DEF CountZero, Goto
  <2> QED
    BY <1>0, <2>1 DEF FailOK, Scored, Listing
<1>12. CASE EmptyHistory(r)
  <2>1. stage[r] = "empty" /\ stage'[r] = "reset" /\ listed' = listed /\ ruleScores' # None
    BY <1>1, <1>12, EmptyIsThere DEF EmptyHistory, Goto
  <2> QED
    BY <1>0, <2>1 DEF FailOK, Scored, Listing
<1>13. CASE ResetStreak(r)
  <2>1. stage[r] = "reset" /\ stage'[r] = "average" /\ UNCHANGED <<listed, ruleScores>>
    BY <1>1, <1>13 DEF ResetStreak, Goto
  <2> QED
    BY <1>0, <2>1 DEF FailOK, Scored, Listing
<1>14. CASE BeginIteration(r)
  <2>1. /\ stage[r] = "degrade" /\ stage'[r] = "iterate" /\ seen'[r] = Latest
        /\ listed' = listed
    BY <1>1, <1>14, BeginAdvance DEF BeginIteration, Move, Goto
  <2>2. Latest' = Latest
    BY <1>2, <2>1 DEF Latest
  <2> QED
    BY <1>0, <2>1, <2>2 DEF FailOK, Scored, Listing
<1>15. CASE EndIteration(r) \/ AgentReturns(r)
  <2>1. stage'[r] \in {"agent", "answered"}
    BY <1>1, <1>15 DEF EndIteration, AgentReturns, Move, Goto
  <2> QED
    BY <2>1 DEF FailOK, Scored, Listing
<1> QED
  BY <1>3, <1>4, <1>5, <1>6, <1>7, <1>8, <1>9, <1>10, <1>11, <1>12, <1>13, <1>14, <1>15
     DEF Advancing

(* A step that leaves the stores alone, to a stage that may rely on what   *)
(* the one before relied on.                                               *)
LEMMA QuietFails ==
    ASSUME TypeInv, FailInv, NEW r \in Req, Others(r), NEW t, Goto(r, t),
           UNCHANGED <<trained, listed, others, ruleScores>>,
           t \notin {"failed", "keep", "iterate"} \cup Scored,
           t = "slot" => trained # "none",
           t \in Listing => stage[r] \in Listing /\ overlapped[r] \subseteq overlapped'[r]
    PROVE  FailInv'
<1>1. stage'[r] = t
  BY DEF Goto, TypeInv
<1>2. FailOK(r)'
  BY <1>1 DEF FailInv, FailOK
<1>3. \A q \in Req \ {r} : FailOK(q)'
  BY FailKept DEF Others, Latest
<1> QED
  BY <1>2, <1>3 DEF FailInv

(* Each step keeps the causes.                                             *)
LEMMA StepFails ==
    ASSUME TypeInv, OverlapInv, FailInv, AnswerInv, [Next]_vars
    PROVE  FailInv'
<1>1. CASE UNCHANGED vars \/ Tick
  <2>1. UNCHANGED <<stage, seen, overlapped, trained, listed, others, ruleScores>>
    BY <1>1 DEF Tick, vars, storeVars, outsideVars, requestVars, historyVars
  <2> QED
    BY <2>1 DEF FailInv, FailOK, Latest
<1>2. CASE Outside
  <2>1. /\ stage' = stage /\ seen' = seen /\ \A q \in Req : overlapped[q] \subseteq overlapped'[q]
        /\ Running \subseteq Req
    BY <1>2, OutsideTyped DEF Running
  <2>2. \A q \in Req : stage[q] \in {"slot", "keep"} \cup Scored \cup Listing => q \in Running
    BY DEF Running, Scored, Listing
  <2>3. ASSUME NEW m, Mark(Running, m) PROVE \A q \in Running : m \in overlapped'[q]
    BY <2>3 DEF Mark, Running
  <2>4. CASE ForgetPc
    <3>1. (\A q \in Running : "clear" \in overlapped'[q]) /\ ruleScores' = ruleScores
      BY <2>3, <2>4 DEF ForgetPc, Happens
    <3>2. ASSUME NEW q \in Req PROVE FailOK(q)'
      <4>1. stage[q] = "iterate" => q \in Running
        BY DEF Running
      <4> QED
        BY <2>1, <2>2, <3>1, <4>1, FailKept
    <3> QED
      BY <3>2 DEF FailInv
  <2>5. CASE ForgetScores
    <3>1. /\ \A q \in Running : "clear" \in overlapped'[q]
          /\ UNCHANGED <<trained, listed, others>>
      BY <2>5 DEF ForgetScores, OverlapInv, historyVars
    <3> QED
      BY <2>1, <2>2, <3>1, FailKept DEF FailInv, Latest
  <2>6. CASE EmptyCache \/ FillCache
    <3>1. UNCHANGED <<trained, listed, others, ruleScores>>
      BY <2>6 DEF EmptyCache, FillCache, storeVars
    <3> QED
      BY <2>1, <3>1, FailKept DEF FailInv, Latest
  <2>7. CASE FleetChanges
    <3>1. (\A q \in Running : "fleet" \in overlapped'[q])
          /\ UNCHANGED <<trained, listed, ruleScores>>
      BY <2>3, <2>7 DEF FleetChanges, Happens, storeVars
    <3>2. \A q \in Req : stage[q] = "iterate" => q \in Running
      BY DEF Running
    <3> QED
      BY <2>1, <3>1, <3>2, FailKept DEF FailInv
  <2> QED
    BY <1>2, <2>4, <2>5, <2>6, <2>7 DEF Outside
<1>3. ASSUME NEW r \in Req, Receive(r) PROVE FailInv'
  <2> DEFINE t == IF trained = "none" THEN "pc" ELSE "slot"
  <2>1. Others(r) /\ Goto(r, t) /\ UNCHANGED <<trained, listed, others, ruleScores>>
    BY <1>3, ReceiveTyped DEF Receive, storeVars, outsideVars
  <2>2. t \in {"pc", "slot"} /\ (t = "slot" => trained # "none")
    OBVIOUS
  <2> HIDE DEF t
  <2> QED
    BY <2>1, <2>2, QuietFails DEF Scored, Listing
<1>4. ASSUME NEW r \in Req, Extract(r) PROVE FailInv'
  <2>1. Others(r) /\ Goto(r, "score") /\ UNCHANGED <<trained, listed, others, ruleScores>>
        /\ stage[r] = "extract" /\ overlapped' = overlapped
    BY <1>4, ExtractTyped DEF Extract, outsideVars, historyVars
  <2> QED
    BY <2>1, QuietFails DEF Scored, Listing
<1>5. ASSUME NEW r \in Req, Advancing(r) PROVE FailInv'
  BY <1>5, AdvanceFails, AdvanceFailsSelf DEF FailInv
<1>6. ASSUME NEW r \in Req, Average(r) PROVE FailInv'
  <2>1. Others(r) /\ Goto(r, "gate") /\ UNCHANGED <<trained, listed, others, ruleScores>>
        /\ stage[r] = "average" /\ overlapped' = overlapped
    BY <1>6, AverageTyped DEF Average, storeVars, outsideVars, historyVars
  <2> QED
    BY <2>1, QuietFails DEF Scored, Listing
<1>7. ASSUME NEW r \in Req, Gate(r) PROVE FailInv'
  <2>1. stage[r] = "gate" /\ result[r].gating = "NORMAL"
    BY <1>7 DEF Gate, AnswerInv, AnswerOK
  <2>2. Others(r) /\ Goto(r, "degrade") /\ UNCHANGED <<trained, listed, others, ruleScores>>
        /\ overlapped' = overlapped
    BY <1>7, <2>1, GateTyped DEF storeVars, outsideVars, historyVars
  <2> QED
    BY <2>1, <2>2, QuietFails DEF Scored, Listing
<1>8. ASSUME NEW r \in Req, CallAgent(r) \/ SkipAgent(r) PROVE FailInv'
  <2>1. Others(r) /\ \E t \in {"calling", "answered"} : Goto(r, t)
    BY <1>8, CallTyped, SkipTyped
  <2>2. UNCHANGED <<trained, listed, others, ruleScores>>
    BY <1>8, CallTyped, SkipTyped DEF storeVars, outsideVars
  <2> QED
    BY <2>1, <2>2, QuietFails DEF Scored, Listing
<1> QED
  BY <1>1, <1>2, <1>3, <1>4, <1>5, <1>6, <1>7, <1>8, RequestSteps DEF Next
-----------------------------------------------------------------------------
(* The score of a request that neither another nor a clear disturbs is the *)
(* newest of the history, and stays in it until the average is taken; only *)
(* zeros are counted.                                                      *)
OwnOK(r) ==
    /\ stage[r] \in {"count", "empty", "reset"} => Score(r) = 0
    /\ Undisturbed(r) =>
          /\ stage[r] = "decay" =>
                 /\ ruleScores # None /\ ruleScores # <<>>
                 /\ ruleScores[Len(ruleScores)] = Score(r)
          /\ stage[r] = "average" => Counted(r)
          /\ stage[r] \in Judged => result[r].own

OwnInv == \A r \in Req : OwnOK(r)

(* Nobody has scored yet.                                                  *)
LEMMA InitOwn == Init => OwnInv
BY DEF Init, OwnInv, OwnOK, Judged

(* A request next to which another steps is disturbed.                     *)
LEMMA Disturbed ==
    ASSUME OverlapInv, NEW r \in Running, NEW q \in Req \ {r}, q \in Running
    PROVE  ~Undisturbed(q)
BY DEF OverlapInv, Undisturbed

(* What a step of one request leaves to the others.                        *)
LEMMA OthersOwn ==
    ASSUME OverlapInv, OwnInv, NEW r \in Req, Others(r),
           ruleScores' = ruleScores \/ r \in Running, NEW q \in Req \ {r}
    PROVE  OwnOK(q)'
<1>1. /\ stage'[q] = stage[q] /\ Score(q)' = Score(q) /\ result'[q] = result[q]
      /\ Undisturbed(q)' => Undisturbed(q)
  BY DEF Others, Score, Sample, Undisturbed
<1>2. stage[q] \in {"decay", "average"} => q \in Running
  BY DEF Running
<1>3. OwnOK(q)
  BY DEF OwnInv
<1>4. CASE ruleScores' = ruleScores
  BY <1>1, <1>3, <1>4 DEF OwnOK, Counted
<1>5. CASE r \in Running
  BY <1>1, <1>2, <1>3, <1>5, Disturbed DEF OwnOK
<1> QED
  BY <1>4, <1>5

(* What an advance leaves to the request itself.                           *)
LEMMA AdvanceOwn ==
    ASSUME TypeInv, OwnInv, NEW r \in Req, Advancing(r)
    PROVE  OwnOK(r)'
<1>1. /\ Score(r)' = Score(r) /\ result'[r] = result[r]
      /\ Undisturbed(r)' => Undisturbed(r)
  BY AdvancingTyped DEF Score, Sample, Undisturbed
<1>2. OwnOK(r) /\ Score(r) \in Nat
  BY AdvancingTyped, ScoreTyped DEF OwnInv, Running
<1>3. ASSUME NEW t, Goto(r, t) PROVE stage'[r] = t
  BY <1>3 DEF Goto, TypeInv
<1>4. CASE AppendScore(r)
  <2>1. /\ stage'[r] = "decay"
        /\ ruleScores' # None /\ ruleScores' # <<>> /\ ruleScores'[Len(ruleScores')] = Score(r)
    BY <1>3, <1>4, AppendAdvance DEF AppendScore
  <2> QED
    BY <1>1, <2>1 DEF OwnOK, Judged
<1>5. CASE Decay(r)
  <2>1. stage[r] = "decay" /\ ruleScores' = ruleScores
    BY <1>5, DecayAdvance DEF Decay
  <2>2. CASE Goto(r, "count") /\ Score(r) <= 0
    BY <1>1, <1>2, <1>3, <2>2 DEF OwnOK, Judged
  <2>3. CASE Goto(r, "average")
    <3>1. stage'[r] = "average"
      BY <1>3, <2>3
    <3>2. ASSUME Undisturbed(r) PROVE Counted(r)'
      <4>1. /\ ruleScores # None /\ ruleScores # <<>>
            /\ ruleScores[Len(ruleScores)] = Score(r)
        BY <1>2, <2>1, <3>2 DEF OwnOK
      <4>2. ruleScores \in Seq(Nat)
        BY <4>1 DEF TypeInv, StoresOK
      <4>3. Len(ruleScores) \in DOMAIN ruleScores
        BY <4>1, <4>2
      <4> QED
        BY <1>1, <2>1, <4>1, <4>3 DEF Counted
    <3> QED
      BY <1>1, <3>1, <3>2 DEF OwnOK, Judged
  <2> QED
    BY <1>5, <2>2, <2>3, DecayAdvance
<1>6. CASE CountZero(r) \/ EmptyHistory(r) \/ ResetStreak(r)
  <2>1. stage[r] \in {"count", "empty", "reset"} /\ stage'[r] \in {"empty", "average", "reset"}
    BY <1>3, <1>6 DEF CountZero, EmptyHistory, ResetStreak
  <2>2. Score(r) = 0
    BY <1>2, <2>1 DEF OwnOK
  <2> QED
    BY <1>1, <2>1, <2>2 DEF OwnOK, Counted, Judged
<1>7. CASE MakePc(r) \/ MakeSlot(r) \/ KeepSample(r) \/ Failing(r) \/ LookScores(r) \/ MakeScores(r)
  <2>1. stage'[r] \in {"slot", "keep", "extract", "failed", "make", "append"}
    BY <1>3, <1>7, FailAdvance
       DEF MakePc, MakeSlot, KeepSample, LookScores, Move, MakeScores, Advance
  <2> QED
    BY <2>1 DEF OwnOK, Judged
<1>8. CASE BeginIteration(r) \/ EndIteration(r) \/ AgentReturns(r)
  <2>1. stage[r] \in Judged /\ stage'[r] \in {"iterate", "agent", "answered"}
    BY <1>3, <1>8 DEF BeginIteration, EndIteration, AgentReturns, Move, Judged
  <2> QED
    BY <1>1, <1>2, <2>1 DEF OwnOK
<1> QED
  BY <1>4, <1>5, <1>6, <1>7, <1>8 DEF Advancing

(* Each step keeps the own scores.                                         *)
LEMMA StepOwn ==
    ASSUME TypeInv, OverlapInv, OwnInv, AnswerInv, [Next]_vars
    PROVE  OwnInv'
<1>1. CASE UNCHANGED vars \/ Tick
  <2>1. UNCHANGED <<stage, overlapped, ruleScores, signals, input, result>>
    BY <1>1 DEF Tick, vars, storeVars, requestVars, historyVars
  <2> QED
    BY <2>1 DEF OwnInv, OwnOK, Undisturbed, Counted, Score, Sample
<1>2. CASE Outside
  <2>1. UNCHANGED <<stage, signals, input, result>>
        /\ \A q \in Req : overlapped[q] \subseteq overlapped'[q]
    BY <1>2, OutsideTyped
  <2>2. \A q \in Req : /\ Score(q)' = Score(q)
                       /\ Undisturbed(q)' => Undisturbed(q)
    BY <2>1 DEF Score, Sample, Undisturbed
  <2>3. CASE ruleScores' = ruleScores
    BY <2>1, <2>2, <2>3 DEF OwnInv, OwnOK, Counted
  <2>4. CASE ForgetScores
    <3>1. \A q \in Running : ~Undisturbed(q)
      BY <2>4 DEF ForgetScores, OverlapInv, Undisturbed
    <3>2. \A q \in Req : stage[q] \in {"decay", "average"} => q \in Running
      BY DEF Running
    <3> QED
      BY <2>1, <2>2, <3>1, <3>2 DEF OwnInv, OwnOK
  <2> QED
    BY <1>2, <2>3, <2>4 DEF Outside, ForgetPc, EmptyCache, FillCache, FleetChanges, storeVars
<1>3. ASSUME NEW r \in Req, Receive(r) PROVE OwnInv'
  <2>1. Others(r) /\ ruleScores' = ruleScores /\ stage'[r] \in {"pc", "slot"}
    BY <1>3, ReceiveTyped DEF Receive, Goto, storeVars, TypeInv
  <2> QED
    BY <2>1, OthersOwn DEF OwnInv, OwnOK, Judged
<1>4. ASSUME NEW r \in Req, Extract(r) PROVE OwnInv'
  <2>1. Others(r) /\ ruleScores' = ruleScores /\ stage'[r] = "score"
    BY <1>4, ExtractTyped DEF Goto, TypeInv
  <2> QED
    BY <2>1, OthersOwn DEF OwnInv, OwnOK, Judged
<1>5. ASSUME NEW r \in Req, Advancing(r) PROVE OwnInv'
  BY <1>5, AdvancingTyped, AdvanceOwn, OthersOwn DEF OwnInv
<1>6. ASSUME NEW r \in Req, Average(r) PROVE OwnInv'
  <2>1. /\ Others(r) /\ stage'[r] = "gate" /\ UNCHANGED <<ruleScores, overlapped>>
        /\ result'[r].own = Counted(r)
    BY <1>6, AverageTyped, AverageSound DEF Goto, TypeInv, storeVars, historyVars
  <2>2. stage[r] = "average"
    BY <1>6 DEF Average
  <2>3. OwnOK(r)'
    BY <2>1, <2>2 DEF OwnInv, OwnOK, Undisturbed
  <2> QED
    BY <2>1, <2>3, OthersOwn DEF OwnInv
<1>7. ASSUME NEW r \in Req, Gate(r) PROVE OwnInv'
  <2>1. stage[r] = "gate" /\ result[r].gating = "NORMAL"
    BY <1>7 DEF Gate, AnswerInv, AnswerOK
  <2>2. /\ Others(r) /\ stage'[r] = "degrade" /\ UNCHANGED <<ruleScores, overlapped>>
        /\ result'[r].own = result[r].own
    BY <1>7, <2>1, GateTyped DEF Goto, TypeInv, storeVars, historyVars
  <2>3. OwnOK(r)'
    BY <2>1, <2>2 DEF OwnInv, OwnOK, Undisturbed, Judged
  <2> QED
    BY <2>2, <2>3, OthersOwn DEF OwnInv
<1>8. ASSUME NEW r \in Req, CallAgent(r) \/ SkipAgent(r) PROVE OwnInv'
  <2>1. /\ Others(r) /\ stage[r] = "agent" /\ stage'[r] \in {"calling", "answered"}
        /\ UNCHANGED <<ruleScores, overlapped, result>>
    BY <1>8, CallTyped, SkipTyped DEF Goto, TypeInv, storeVars, historyVars
  <2>2. OwnOK(r)'
    BY <2>1 DEF OwnInv, OwnOK, Undisturbed, Judged
  <2> QED
    BY <2>1, <2>2, OthersOwn DEF OwnInv
<1> QED
  BY <1>1, <1>2, <1>3, <1>4, <1>5, <1>6, <1>7, <1>8, RequestSteps DEF Next

(* Overlaps, the causes of failures and the use of the own score, for any  *)
(* requests, clears, reloads and changes of the fleet.                     *)
THEOREM OverlapsAreKnown == Spec => [](OverlapInv /\ FailInv /\ OwnInv)
<1>1. Init => TypeInv /\ OverlapInv /\ AnswerInv /\ FailInv /\ OwnInv
  BY InitTyped, InitAnswers, InitFails, InitOwn
<1>2. TypeInv /\ OverlapInv /\ AnswerInv /\ FailInv /\ OwnInv /\ [Next]_vars
      => (TypeInv /\ OverlapInv /\ AnswerInv /\ FailInv /\ OwnInv)'
  BY StepAnswers, StepOverlap, StepFails, StepOwn
<1> QED
  BY <1>1, <1>2, PTL DEF Spec

(* An analysis fails only for what ran beside it: a clear of its PC, a     *)
(* reload of the policies, a PC that came or went during its iteration, or *)
(* a second first request.                                                 *)
THEOREM FailuresKnowTheirCauses == Spec => []FailuresHaveCauses
<1>1. FailInv => FailuresHaveCauses
  BY DEF FailInv, FailOK, FailuresHaveCauses
<1> QED
  BY <1>1, OverlapsAreKnown, PTL

(* Without another request or a clear beside it, the score of a sample is  *)
(* in the average that its verdict is taken from.                          *)
THEOREM OwnScoresCount == Spec => []OwnScoreCounts
<1>1. OwnInv => OwnScoreCounts
  BY DEF OwnInv, OwnOK, OwnScoreCounts, Answered, Judged
<1> QED
  BY <1>1, OverlapsAreKnown, PTL
-----------------------------------------------------------------------------
(* The calls in the order of their times.                                  *)
CallsTyped ==
    /\ calls \in Seq([at : Nat, rank : {3, 4}, alone : BOOLEAN])
    /\ \A j, k \in DOMAIN calls : j <= k => calls[j].at <= calls[k].at
    /\ \A k \in DOMAIN calls : calls[k].at <= clock

AllAlone == \A k \in DOMAIN calls : calls[k].alone

(* The last call is the one that the cooldown remembers, or it is not back *)
(* yet and no other is on its way.                                         *)
LastCallKnown ==
    LET c == calls[Len(calls)]
    IN  \/ /\ aiLast # None /\ aiLast.at = c.at /\ aiLast.rank = c.rank
           /\ \A r \in Req : stage[r] # "calling"
        \/ \E r \in Req :
               /\ stage[r] = "calling" /\ called[r] = c.at /\ SevRank(r) = c.rank
               /\ \A q \in Req \ {r} : stage[q] # "calling"

CallInv ==
    /\ CallsTyped
    /\ CallsRiseWithinCooldown
    /\ AllAlone /\ calls # <<>> => LastCallKnown

(* Times and ranks of the calls.                                           *)
LEMMA CallTimes ==
    ASSUME CallsTyped, NEW k \in DOMAIN calls
    PROVE  calls[k].at \in Nat /\ calls[k].at <= clock /\ calls[k].rank \in {3, 4}
<1> DEFINE R == [at : Nat, rank : {3, 4}, alone : BOOLEAN]
<1>1. calls[k] \in R
  <2>1. calls \in Seq(R)
    BY DEF CallsTyped
  <2> HIDE DEF R
  <2>2. DOMAIN calls = 1 .. Len(calls)
    BY <2>1
  <2> QED
    BY <2>1, <2>2
<1> QED
  BY <1>1 DEF CallsTyped

(* No call yet.                                                            *)
LEMMA InitCalls == Init => CallInv
BY DEF Init, CallInv, CallsTyped, CallsRiseWithinCooldown, AllAlone

(* A step that calls nobody and lets no call return.                       *)
LEMMA QuietCalls ==
    ASSUME TypeInv, CallInv, clock' \in Nat, clock' >= clock,
           UNCHANGED <<aiLast, calls>>,
           \A r \in Req : (stage'[r] = "calling") <=> (stage[r] = "calling"),
           \A r \in Req : stage[r] = "calling" => called'[r] = called[r] /\ result'[r] = result[r]
    PROVE  CallInv'
<1>1. CallsTyped'
  <2>1. clock \in Nat /\ CallsTyped
    BY DEF CallInv, TypeInv, StoresOK
  <2>2. \A k \in DOMAIN calls : calls[k].at \in Nat /\ calls[k].at <= clock
    BY <2>1, CallTimes
  <2>3. \A k \in DOMAIN calls : calls[k].at <= clock'
    BY <2>1, <2>2
  <2> QED
    BY <2>1, <2>3 DEF CallsTyped
<1>2. CallsRiseWithinCooldown'
  BY DEF CallInv, CallsRiseWithinCooldown
<1>3. AllAlone' /\ calls' # <<>> => LastCallKnown'
  BY DEF CallInv, AllAlone, LastCallKnown, SevRank
<1> QED
  BY <1>1, <1>2, <1>3 DEF CallInv

(* Step by step: a call.                                                   *)
LEMMA CallCalls ==
    ASSUME TypeInv, OverlapInv, CallInv, NEW r \in Req, CallAgent(r)
    PROVE  CallInv'
<1> DEFINE free == overlapped[r] \cap {"request", "reload"} = {}
           c == [at |-> clock, rank |-> SevRank(r), alone |-> free]
           n == Len(calls)
<1>1. /\ calls' = Append(calls, c) /\ stage[r] = "agent" /\ Alarming(r)
      /\ \E found \in PolicyFound : MayCall(r, found)
      /\ stage' = [stage EXCEPT ![r] = "calling"] /\ called' = [called EXCEPT ![r] = clock]
      /\ UNCHANGED <<clock, aiLast, result>>
  BY DEF CallAgent, Goto, storeVars
<1>2. clock \in Nat /\ SevRank(r) \in {3, 4} /\ AiCooldown \in Nat
  BY <1>1, AlarmingRank, FlowAssumption DEF TypeInv, StoresOK
<1>3. c \in [at : Nat, rank : {3, 4}, alone : BOOLEAN] /\ c.at = clock /\ c.rank = SevRank(r)
      /\ (c.alone <=> free)
  BY <1>2
<1>4. /\ calls \in Seq([at : Nat, rank : {3, 4}, alone : BOOLEAN]) /\ n \in Nat
      /\ DOMAIN calls = 1 .. n
  BY DEF CallInv, CallsTyped
<1> HIDE DEF c
<1>5. /\ calls' \in Seq([at : Nat, rank : {3, 4}, alone : BOOLEAN])
      /\ Len(calls') = n + 1 /\ DOMAIN calls' = 1 .. n + 1
      /\ calls'[n + 1] = c /\ \A k \in 1 .. n : calls'[k] = calls[k]
  BY <1>1, <1>3, <1>4
<1>6. \A k \in 1 .. n : calls[k].at \in Nat /\ calls[k].at <= clock /\ calls[k].rank \in {3, 4}
  BY <1>4, CallTimes DEF CallInv
<1> HIDE DEF n
<1>7. CallsTyped'
  <2>1. ASSUME NEW j \in 1 .. n + 1, NEW k \in 1 .. n + 1, j <= k
        PROVE  calls'[j].at <= calls'[k].at /\ calls'[k].at <= clock
    <3>1. CASE k = n + 1
      <4>1. calls'[k].at = clock
        BY <1>3, <1>5, <3>1
      <4>2. CASE j = n + 1
        BY <1>2, <3>1, <4>1, <4>2
      <4>3. CASE j # n + 1
        <5>1. j \in 1 .. n
          BY <1>4, <4>3
        <5> QED
          BY <1>2, <1>5, <1>6, <4>1, <5>1
      <4> QED
        BY <4>2, <4>3
    <3>2. CASE k # n + 1
      <4>1. j \in 1 .. n /\ k \in 1 .. n
        BY <1>4, <2>1, <3>2
      <4> QED
        BY <1>4, <1>5, <1>6, <2>1, <4>1 DEF CallInv, CallsTyped
    <3> QED
      BY <3>1, <3>2
  <2> QED
    BY <1>1, <1>4, <1>5, <2>1 DEF CallsTyped
<1>8. ASSUME AllAlone' PROVE /\ AllAlone /\ free
                             /\ \A q \in Req \ {r} : stage[q] # "calling"
  <2>1. AllAlone
    BY <1>4, <1>5, <1>8 DEF AllAlone
  <2>2. free
    BY <1>3, <1>4, <1>5, <1>8 DEF AllAlone
  <2>3. \A q \in Req \ {r} : q \notin Running
    BY <1>1, <2>2 DEF OverlapInv, Running
  <2> QED
    BY <2>1, <2>2, <2>3 DEF Running
<1>9. AllAlone' => LastCallKnown'
  <2> SUFFICES ASSUME AllAlone' PROVE LastCallKnown'
    OBVIOUS
  <2>1. /\ stage'[r] = "calling" /\ called'[r] = clock /\ SevRank(r)' = SevRank(r)
        /\ \A q \in Req \ {r} : stage'[q] # "calling"
    BY <1>1, <1>8 DEF TypeInv, SevRank
  <2>2. calls'[Len(calls')].at = clock /\ calls'[Len(calls')].rank = SevRank(r)
    BY <1>3, <1>5
  <2> QED
    BY <2>1, <2>2 DEF LastCallKnown
<1>10. CallsRiseWithinCooldown'
  <2> SUFFICES ASSUME AllAlone', NEW j \in 1 .. n + 1, NEW k \in 1 .. n + 1, j < k,
                      calls'[k].at - calls'[j].at < AiCooldown
               PROVE  calls'[j].rank < calls'[k].rank
    BY <1>5 DEF CallsRiseWithinCooldown, AllAlone
  <2>1. AllAlone /\ \A q \in Req : stage[q] # "calling"
    BY <1>1, <1>8
  <2>2. \A i, m \in 1 .. n : i < m /\ calls[m].at - calls[i].at < AiCooldown =>
                                 calls[i].rank < calls[m].rank
    BY <1>4, <2>1 DEF CallInv, CallsRiseWithinCooldown, AllAlone
  <2>3. CASE k # n + 1
    <3>1. j \in 1 .. n /\ k \in 1 .. n
      BY <1>4, <2>3
    <3> QED
      BY <1>5, <2>2, <3>1
  <2>4. CASE k = n + 1
    <3>1. j \in 1 .. n /\ n \in 1 .. n /\ calls # <<>>
      BY <1>4, <2>4 DEF n
    <3>2. aiLast # None /\ aiLast.at = calls[n].at /\ aiLast.rank = calls[n].rank
      BY <2>1, <3>1 DEF CallInv, LastCallKnown, n
    <3>3. calls[j].at <= calls[n].at /\ calls[n].at <= clock
      BY <1>4, <1>6, <3>1 DEF CallInv, CallsTyped
    <3>4. /\ calls'[k].at = clock /\ calls'[k].rank = SevRank(r)
          /\ calls'[j].at = calls[j].at /\ calls'[j].rank = calls[j].rank
      BY <1>3, <1>5, <2>4, <3>1
    <3>5. clock - calls[j].at < AiCooldown
      BY <3>4
    <3>6. /\ calls[j].at \in Nat /\ calls[n].at \in Nat
          /\ calls[j].rank \in {3, 4} /\ calls[n].rank \in {3, 4}
      BY <1>6, <3>1
    <3>7. AiCooldown > 0 /\ ~ (clock - calls[n].at >= AiCooldown)
          /\ calls[n].at - calls[j].at < AiCooldown
      BY <1>2, <3>3, <3>5, <3>6
    <3>8. SevRank(r) > calls[n].rank
      <4>1. cached
        BY <1>1, <1>8 DEF OverlapInv, Running
      <4>2. MayCall(r, TRUE)
        BY <1>1, <4>1 DEF PolicyFound
      <4> QED
        BY <3>2, <3>7, <4>2 DEF MayCall, Cooldown
    <3>9. j = n \/ calls[j].rank < calls[n].rank
      BY <1>4, <2>2, <3>1, <3>7
    <3> QED
      BY <1>2, <3>4, <3>6, <3>8, <3>9
  <2> QED
    BY <2>3, <2>4
<1> QED
  BY <1>7, <1>9, <1>10 DEF CallInv

(* Step by step: a return.                                                 *)
LEMMA ReturnCalls ==
    ASSUME TypeInv, CallInv, NEW r \in Req, AgentReturns(r)
    PROVE  CallInv'
<1>1. /\ stage[r] = "calling" /\ stage' = [stage EXCEPT ![r] = "answered"]
      /\ aiLast' = [at |-> called[r], rank |-> SevRank(r)]
      /\ UNCHANGED <<clock, calls>>
  BY DEF AgentReturns, Goto, historyVars
<1>2. called[r] \in Nat /\ SevRank(r) \in {3, 4}
  BY <1>1, AlarmingRank DEF TypeInv, RequestOK, StoresOK
<1>3. aiLast' # None /\ aiLast'.at = called[r] /\ aiLast'.rank = SevRank(r)
  <2>1. aiLast' \in [at : Nat, rank : Nat]
    BY <1>1, <1>2
  <2> QED
    BY <1>1, <2>1, FlowAssumption
<1>4. CallsTyped' /\ CallsRiseWithinCooldown'
  BY <1>1 DEF CallInv, CallsTyped, CallsRiseWithinCooldown
<1>5. ASSUME AllAlone', calls' # <<>> PROVE LastCallKnown'
  <2>1. LastCallKnown
    BY <1>1, <1>5 DEF CallInv, AllAlone
  <2>2. /\ called[r] = calls[Len(calls)].at /\ SevRank(r) = calls[Len(calls)].rank
        /\ \A q \in Req \ {r} : stage[q] # "calling"
    BY <1>1, <2>1 DEF LastCallKnown
  <2>3. \A q \in Req : stage'[q] # "calling"
    BY <1>1, <2>2 DEF TypeInv
  <2> QED
    BY <1>1, <1>3, <2>2, <2>3 DEF LastCallKnown
<1> QED
  BY <1>4, <1>5 DEF CallInv

(* Every step keeps the order of the calls.                                *)
LEMMA StepCalls ==
    ASSUME TypeInv, OverlapInv, AnswerInv, CallInv, [Next]_vars
    PROVE  CallInv'
<1>1. clock \in Nat
  BY DEF TypeInv, StoresOK
<1>2. CASE UNCHANGED vars
  BY <1>1, <1>2, QuietCalls DEF vars, storeVars, requestVars, historyVars
<1>3. CASE Outside
  BY <1>1, <1>3, OutsideTyped, QuietCalls
<1>4. CASE Tick
  BY <1>1, <1>4, QuietCalls DEF Tick, storeVars, requestVars, historyVars
<1>5. ASSUME NEW r \in Req, NEW t, Goto(r, t), t # "calling", stage[r] # "calling", Others(r),
             UNCHANGED <<clock, aiLast, calls>>
      PROVE  CallInv'
  <2>1. \A q \in Req : (stage'[q] = "calling") <=> (stage[q] = "calling")
    BY <1>5 DEF Goto, TypeInv
  <2>2. \A q \in Req : stage[q] = "calling" => called'[q] = called[q] /\ result'[q] = result[q]
    BY <1>5 DEF Others
  <2> QED
    BY <1>1, <1>5, <2>1, <2>2, QuietCalls
<1>6. ASSUME NEW r \in Req, Receive(r) PROVE CallInv'
  <2>1. UNCHANGED <<clock, aiLast, calls>> /\ stage[r] # "calling"
        /\ \E t \in {"pc", "slot"} : Goto(r, t)
    BY <1>6 DEF Receive, Running, storeVars
  <2> QED
    BY <1>5, <1>6, <2>1, ReceiveTyped
<1>7. ASSUME NEW r \in Req, Extract(r) PROVE CallInv'
  BY <1>5, <1>7, ExtractTyped DEF Extract, historyVars
<1>8. ASSUME NEW r \in Req, Advancing(r), ~AgentReturns(r) PROVE CallInv'
  <2>1. PICK t \in Stages : Goto(r, t) /\ Forward(stage[r], t)
    BY <1>8, AdvancingTyped
  <2>2. aiLast' = aiLast /\ stage[r] # "calling"
    BY <1>8, MakePcAdvance, MakeSlotAdvance, KeepAdvance, FailAdvance, LookAdvance,
       MakeScoresAdvance, AppendAdvance, DecayAdvance, CountAdvance, EmptyAdvance, ResetAdvance,
       BeginAdvance, EndAdvance DEF Advancing, Advance, Inner
  <2> QED
    BY <1>5, <1>8, <2>1, <2>2, AdvancingTyped DEF Forward
<1>9. ASSUME NEW r \in Req, Average(r) PROVE CallInv'
  BY <1>5, <1>9, AverageTyped DEF Average, storeVars, historyVars
<1>10. ASSUME NEW r \in Req, Gate(r) PROVE CallInv'
  <2>1. stage[r] = "gate" /\ result[r].gating = "NORMAL"
    BY <1>10 DEF Gate, AnswerInv, AnswerOK
  <2> QED
    BY <1>5, <1>10, <2>1, GateTyped DEF storeVars, historyVars
<1>11. ASSUME NEW r \in Req, SkipAgent(r) PROVE CallInv'
  BY <1>5, <1>11, SkipTyped DEF storeVars, historyVars
<1> QED
  BY <1>2, <1>3, <1>4, <1>6, <1>7, <1>8, <1>9, <1>10, <1>11, CallCalls, ReturnCalls, RequestSteps
     DEF Next

(* As long as no two requests overlap and no reload takes the policy away, *)
(* a call within the cooldown of an earlier one is for a higher severity,  *)
(* for any number of calls.                                                *)
THEOREM CallsRise == Spec => []CallsRiseWithinCooldown
<1>1. Init => TypeInv /\ OverlapInv /\ AnswerInv /\ CallInv
  BY InitTyped, InitAnswers, InitCalls
<1>2. TypeInv /\ OverlapInv /\ AnswerInv /\ CallInv /\ [Next]_vars
      => (TypeInv /\ OverlapInv /\ AnswerInv /\ CallInv)'
  BY StepAnswers, StepOverlap, StepCalls
<1>3. CallInv => CallsRiseWithinCooldown
  BY DEF CallInv
<1> QED
  BY <1>1, <1>2, <1>3, PTL DEF Spec
=============================================================================
