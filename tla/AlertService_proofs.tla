-------------------------- MODULE AlertService_proofs --------------------------
(* Proofs about AlertService, for every number of threads, cooldown and    *)
(* clock.                                                                  *)
EXTENDS AlertService, FiniteSetTheorems, TLAPS

LEMMA TypeInit == Init => TypeOK
<1> SUFFICES ASSUME Init PROVE TypeOK
  OBVIOUS
<1> QED BY AlertAssumption DEF Init, TypeOK, Time

LEMMA ReturnType ==
    ASSUME TypeOK, NEW t \in Thread, Return(t)
    PROVE  /\ stage' \in [Thread -> {"free", "look", "mark", "save", "judge"}]
           /\ key' \in [Thread -> Keys \cup {None}]
           /\ stamp' \in [Thread -> Time]
           /\ inserted' \in [Thread -> Nat \cup {None}]
BY AlertAssumption DEF TypeOK, Return, Time

(* Which values the type invariant needs to know of a thread's answer: it  *)
(* has one from Handle to Return, with a verdict while the map is used,    *)
(* and an inserted row while it saves the judgment.                        *)
StageOK ==
    \A t \in Thread :
        /\ stage[t] # "free" => key[t] \in Keys
        /\ stage[t] \in {"look", "mark"} => key[t] \in Pc \X Verdict
        /\ stage[t] = "judge" => inserted[t] \in Nat

LEMMA StageNext == TypeOK /\ StageOK /\ [Next]_vars => StageOK'
<1> SUFFICES ASSUME TypeOK, StageOK, [Next]_vars PROVE StageOK'
  OBVIOUS
<1> USE DEF TypeOK, StageOK
<1>1. ASSUME NEW t \in Thread, Handle(t) PROVE StageOK'
  <2>1. PICK p \in Pc, v \in Verdict \cup {None} :
          /\ key' = [key EXCEPT ![t] = <<p, v>>]
          /\ stage' = [stage EXCEPT ![t] =
                          IF Cooldown > 0 /\ v # None THEN "look" ELSE "save"]
    BY <1>1 DEF Handle
  <2> QED BY <1>1, <2>1 DEF Handle, Keys
<1>2. ASSUME NEW t \in Thread, LookDue(t) \/ Mark(t) PROVE StageOK'
  BY <1>2 DEF LookDue, Mark, Keys
<1>3. ASSUME NEW t \in Thread, SaveAnomaly(t) PROVE StageOK'
  BY <1>3 DEF SaveAnomaly
<1>4. ASSUME NEW t \in Thread, LookRecent(t) \/ SaveJudgment(t) \/ Rollback(t)
      PROVE  StageOK'
  BY <1>4 DEF LookRecent, SaveJudgment, Rollback, Return
<1>5. CASE Restart
  BY <1>5 DEF Restart
<1>6. CASE Tick \/ UNCHANGED vars \/ \E t \in Thread : HandleIgnored(t)
  BY <1>6 DEF Tick, vars, threadVars, HandleIgnored
<1> QED BY <1>1, <1>2, <1>3, <1>4, <1>5, <1>6 DEF Next, ThreadStep

LEMMA TypeNext == TypeOK /\ StageOK /\ [Next]_vars => TypeOK'
<1> SUFFICES ASSUME TypeOK, StageOK, [Next]_vars PROVE TypeOK'
  OBVIOUS
<1> USE AlertAssumption DEF TypeOK, StageOK, storeVars, historyVars
<1>1. ASSUME NEW t \in Thread, Handle(t) PROVE TypeOK'
  <2>1. PICK p \in Pc, v \in Verdict \cup {None} :
          /\ key' = [key EXCEPT ![t] = <<p, v>>]
          /\ stage' = [stage EXCEPT ![t] =
                          IF Cooldown > 0 /\ v # None THEN "look" ELSE "save"]
    BY <1>1 DEF Handle
  <2> QED BY <1>1, <2>1 DEF Handle, Keys
<1>2. ASSUME NEW t \in Thread, LookDue(t) PROVE TypeOK'
  BY <1>2 DEF LookDue
<1>3. ASSUME NEW t \in Thread, Mark(t) PROVE TypeOK'
  <2>1. key[t] \in Pc \X Verdict /\ key[t] \in Keys /\ stamp[t] \in Time
    BY <1>3 DEF Mark, Keys
  <2> QED BY <1>3, <2>1 DEF Mark, MapKey, Entry
<1>4. ASSUME NEW t \in Thread, SaveAnomaly(t) PROVE TypeOK'
  BY <1>4 DEF SaveAnomaly
<1>5. ASSUME NEW t \in Thread, SaveJudgment(t) PROVE TypeOK'
  <2>1. key[t] \in Keys /\ stamp[t] \in Time /\ inserted[t] \in Nat
    BY <1>5 DEF SaveJudgment
  <2>2. Row(t) \in [id : Nat, key : Keys, at : Time, life : Nat]
    BY <2>1 DEF Row
  <2> QED BY <1>5, <2>1, <2>2, ReturnType DEF SaveJudgment
<1>6. ASSUME NEW t \in Thread, LookRecent(t) \/ Rollback(t) PROVE TypeOK'
  <2>1. Return(t)
    BY <1>6 DEF LookRecent, Rollback
  <2>2. /\ UNCHANGED <<now, lastPersistAt, anomalies, judgments, nextId, marks, restarts>>
        /\ faults' \in 0 .. MaxFaults
    BY <1>6 DEF LookRecent, Rollback
  <2> QED BY <2>1, <2>2, ReturnType
<1>7. CASE Tick
  BY <1>7 DEF Tick, Time, threadVars
<1>8. CASE Restart
  BY <1>8 DEF Restart, Time
<1>9. CASE UNCHANGED vars \/ \E t \in Thread : HandleIgnored(t)
  BY <1>9 DEF vars, threadVars, HandleIgnored
<1> QED BY <1>1, <1>2, <1>3, <1>4, <1>5, <1>6, <1>7, <1>8, <1>9 DEF Next, ThreadStep

(* Types and bounds, and what each stage knows of its thread, for any      *)
(* number of threads of the pool.                                          *)
THEOREM AlertTyped == Spec => [](TypeOK /\ StageOK)
<1>1. Init => StageOK
  BY DEF Init, StageOK
<1> QED BY <1>1, TypeInit, TypeNext, StageNext, PTL DEF Spec

(***************************************************************************)
(* Anomalies and judgments.  An id is handed out once: it is below nextId, *)
(* held by one thread at most, and in no table before its thread commits.  *)
(***************************************************************************)
IdsOK ==
    /\ IsFiniteSet(anomalies) /\ IsFiniteSet(judgments)
    /\ \A i \in judgments : i < nextId
    /\ \A t \in Thread :
          inserted[t] # None => inserted[t] < nextId /\ inserted[t] \notin judgments
    /\ \A t, u \in Thread :
          (inserted[t] # None /\ inserted[t] = inserted[u]) => t = u

JudgedInv == TypeOK /\ StageOK /\ IdsOK /\ AnomalyJudged

LEMMA JudgedNext == JudgedInv /\ [Next]_vars => JudgedInv'
<1> SUFFICES ASSUME JudgedInv, [Next]_vars PROVE JudgedInv'
  OBVIOUS
<1> USE DEF JudgedInv
<1>1. TypeOK' /\ StageOK'
  BY TypeNext, StageNext
<1>2. ASSUME NEW t \in Thread, SaveAnomaly(t) PROVE IdsOK' /\ AnomalyJudged'
  BY <1>2, AlertAssumption DEF SaveAnomaly, storeVars, TypeOK, IdsOK, AnomalyJudged
<1>3. ASSUME NEW t \in Thread, SaveJudgment(t) PROVE IdsOK' /\ AnomalyJudged'
  <2>1. inserted[t] \in Nat /\ inserted[t] # None /\ inserted[t] \notin judgments
    BY <1>3, AlertAssumption DEF SaveJudgment, StageOK, IdsOK
  <2>2. /\ anomalies' = anomalies \cup {Row(t)} /\ judgments' = judgments \cup {inserted[t]}
        /\ Row(t).id = inserted[t]
        /\ inserted' = [inserted EXCEPT ![t] = None] /\ nextId' = nextId
    BY <1>3 DEF SaveJudgment, Return, Row
  <2>3. Row(t) \notin anomalies
    BY <2>1, <2>2 DEF AnomalyJudged
  <2>4. judgments' = {r.id : r \in anomalies'}
    BY <2>2 DEF AnomalyJudged
  <2>5. Cardinality(judgments') = Cardinality(anomalies')
    <3>1. Cardinality(anomalies \cup {Row(t)}) = Cardinality(anomalies) + 1
      BY <2>3, FS_AddElement DEF IdsOK
    <3>2. Cardinality(judgments \cup {inserted[t]}) = Cardinality(judgments) + 1
      BY <2>1, FS_AddElement DEF IdsOK
    <3> QED BY <2>2, <3>1, <3>2 DEF AnomalyJudged
  <2>6. IsFiniteSet(anomalies') /\ IsFiniteSet(judgments')
    BY <2>2, FS_AddElement DEF IdsOK
  <2>7. \A i \in judgments' : i < nextId'
    BY <2>1, <2>2 DEF IdsOK
  <2>8. \A u \in Thread : inserted'[u] # None =>
            u # t /\ inserted'[u] = inserted[u]
    BY <2>2 DEF TypeOK
  <2>9. \A u \in Thread : inserted'[u] # None =>
            inserted'[u] < nextId' /\ inserted'[u] \notin judgments'
    BY <2>1, <2>2, <2>8 DEF IdsOK
  <2>10. \A u, w \in Thread : (inserted'[u] # None /\ inserted'[u] = inserted'[w]) => u = w
    BY <2>8 DEF IdsOK
  <2> QED BY <2>4, <2>5, <2>6, <2>7, <2>9, <2>10 DEF IdsOK, AnomalyJudged
<1>4. ASSUME NEW t \in Thread, LookRecent(t) \/ Rollback(t)
      PROVE  IdsOK' /\ AnomalyJudged'
  <2>1. UNCHANGED <<anomalies, judgments, nextId>> /\ inserted' = [inserted EXCEPT ![t] = None]
    BY <1>4 DEF LookRecent, Rollback, Return, storeVars
  <2> QED BY <2>1 DEF TypeOK, IdsOK, AnomalyJudged
<1>5. ASSUME UNCHANGED <<anomalies, judgments, nextId, inserted>>
      PROVE  IdsOK' /\ AnomalyJudged'
  BY <1>5 DEF IdsOK, AnomalyJudged
<1>6. ASSUME NEW t \in Thread, HandleIgnored(t) \/ Handle(t) \/ LookDue(t) \/ Mark(t)
      PROVE  IdsOK' /\ AnomalyJudged'
  BY <1>5, <1>6 DEF HandleIgnored, Handle, LookDue, Mark, storeVars, threadVars, vars
<1>7. ASSUME Restart PROVE IdsOK' /\ AnomalyJudged'
  <2>1. UNCHANGED <<anomalies, judgments, nextId>> /\ inserted' = [t \in Thread |-> None]
    BY <1>7 DEF Restart, storeVars
  <2>2. AnomalyJudged'
    BY <2>1 DEF AnomalyJudged
  <2>3. IdsOK'
    BY <2>1 DEF IdsOK
  <2> QED BY <2>2, <2>3
<1>8. ASSUME Tick \/ UNCHANGED vars PROVE IdsOK' /\ AnomalyJudged'
  <2>1. UNCHANGED <<anomalies, judgments, nextId, inserted>>
    BY <1>8 DEF Tick, vars, threadVars, storeVars
  <2> QED BY <1>5, <2>1
<1>9. IdsOK' /\ AnomalyJudged'
  BY <1>2, <1>3, <1>4, <1>6, <1>7, <1>8 DEF Next, ThreadStep
<1> QED BY <1>1, <1>9

(* Whatever fails or restarts where, each anomaly has its judgment.        *)
THEOREM EveryAnomalyJudged == Spec => []AnomalyJudged
<1>1. IsFiniteSet({}) /\ Cardinality({}) = 0
  BY FS_EmptySet
<1>2. Init => JudgedInv
  BY <1>1, TypeInit DEF Init, JudgedInv, StageOK, IdsOK, AnomalyJudged
<1>3. JudgedInv => AnomalyJudged
  BY DEF JudgedInv
<1> QED BY <1>2, <1>3, JudgedNext, PTL DEF Spec

(***************************************************************************)
(* The cooldown.  Every time in the map was put there by a mark.           *)
(***************************************************************************)
MarksOK ==
    \A k \in Pc \X Verdict :
        lastPersistAt[k] # None => [key |-> k, at |-> lastPersistAt[k]] \in marks

LEMMA MarksNext == TypeOK /\ StageOK /\ MarksOK /\ [Next]_vars => MarksOK'
<1> SUFFICES ASSUME TypeOK, StageOK, MarksOK, [Next]_vars PROVE MarksOK'
  OBVIOUS
<1>1. ASSUME NEW t \in Thread, Mark(t) PROVE MarksOK'
  BY <1>1 DEF Mark, MapKey, Entry, TypeOK, StageOK, MarksOK
<1>2. CASE Restart
  BY <1>2 DEF Restart, MarksOK
<1>3. ASSUME UNCHANGED <<lastPersistAt, marks>> PROVE MarksOK'
  BY <1>3 DEF MarksOK
<1>4. ASSUME NEW t \in Thread,
             \/ HandleIgnored(t) \/ Handle(t) \/ LookRecent(t) \/ LookDue(t)
             \/ SaveAnomaly(t) \/ SaveJudgment(t) \/ Rollback(t)
      PROVE  MarksOK'
  BY <1>3, <1>4 DEF HandleIgnored, Handle, LookRecent, LookDue, SaveAnomaly,
     SaveJudgment, Rollback, vars, historyVars
<1>5. CASE Tick \/ UNCHANGED vars
  BY <1>3, <1>5 DEF Tick, vars, historyVars
<1> QED BY <1>1, <1>2, <1>4, <1>5 DEF Next, ThreadStep

(* The only step that drops an answer it has looked up is LookRecent.      *)
LEMMA SkipIsLookRecent ==
    ASSUME TypeOK, NEW t \in Thread, Next, Skipped(t)
    PROVE  LookRecent(t)
<1> USE DEF TypeOK, Skipped
<1>1. ASSUME NEW u \in Thread, ThreadStep(u) PROVE u = t
  BY <1>1 DEF ThreadStep, HandleIgnored, Handle, LookRecent, LookDue, Mark,
     SaveAnomaly, SaveJudgment, Rollback, Return, vars, threadVars
<1>2. ~Tick /\ ~Restart
  BY DEF Tick, Restart, threadVars
<1>3. ThreadStep(t)
  BY <1>1, <1>2 DEF Next
<1> QED BY <1>3 DEF ThreadStep, HandleIgnored, Handle, LookRecent, LookDue, Mark,
     SaveAnomaly, SaveJudgment, Rollback, vars, threadVars

(* However the threads overtake each other, an answer is dropped only for  *)
(* another one of the same PC and verdict, less than a cooldown old.       *)
THEOREM SkipsHaveCause == Spec => SkipHasCause
<1>1. Init => MarksOK
  BY DEF Init, MarksOK
<1>2. TypeOK /\ StageOK /\ MarksOK /\ [Next]_vars
        => [\A t \in Thread : Skipped(t) =>
              \E m \in marks : m.key = key[t] /\ stamp[t] < m.at + Cooldown]_vars
  <2> SUFFICES ASSUME TypeOK, StageOK, MarksOK, Next, NEW t \in Thread, Skipped(t)
               PROVE  \E m \in marks : m.key = key[t] /\ stamp[t] < m.at + Cooldown
    OBVIOUS
  <2>1. LookRecent(t)
    BY SkipIsLookRecent
  <2>2. key[t] \in Pc \X Verdict /\ lastPersistAt[key[t]] # None
    BY <2>1 DEF LookRecent, MapKey, StageOK
  <2> DEFINE m == [key |-> key[t], at |-> lastPersistAt[key[t]]]
  <2>3. m \in marks
    BY <2>2 DEF MarksOK
  <2>4. stamp[t] < m.at + Cooldown
    BY <2>1 DEF LookRecent, MapKey, Recent
  <2> QED BY <2>3, <2>4
<1> QED BY <1>1, <1>2, MarksNext, AlertTyped, PTL DEF Spec, SkipHasCause

(***************************************************************************)
(* One thread.  What it has marked is at least as recent as every row of   *)
(* the same PC and verdict, and what it is about to store a cooldown later *)
(* than all of them.                                                       *)
(***************************************************************************)
Serial == \E t \in Thread : Thread = {t}

(* The rows of this life that the cooldown for key k is about.             *)
Stored(k) == {r \in anomalies : r.key = k /\ r.life = restarts}

SpacedInv ==
    /\ OnePerCooldown
    /\ \A r \in anomalies : r.life <= restarts
    /\ \A k \in Pc \X Verdict : \A r \in Stored(k) :
          lastPersistAt[k] # None /\ r.at <= lastPersistAt[k]
    /\ \A t \in Thread :
          /\ (stage[t] = "mark" /\ lastPersistAt[key[t]] # None)
                => lastPersistAt[key[t]] + Cooldown <= stamp[t]
          /\ (stage[t] \in {"save", "judge"} /\ key[t][2] # None)
                => /\ lastPersistAt[key[t]] = stamp[t]
                   /\ \A r \in Stored(key[t]) : r.at + Cooldown <= stamp[t]

LEMMA KeyWithVerdict ==
    \A k \in Keys : k[2] # None => k \in Pc \X Verdict
BY DEF Keys

LEMMA SpacedNext ==
    ASSUME Serial, Cooldown > 0, TypeOK, StageOK, SpacedInv, [Next]_vars
    PROVE  SpacedInv'
<1>1. PICK t \in Thread : Thread = {t}
  BY DEF Serial
<1>2. CASE HandleIgnored(t) \/ Tick \/ UNCHANGED vars
  BY <1>2 DEF HandleIgnored, Tick, vars, threadVars, storeVars, historyVars,
     SpacedInv, OnePerCooldown, Stored
<1>3. CASE Handle(t)
  <2>1. PICK p \in Pc, v \in Verdict \cup {None} :
          /\ key' = [key EXCEPT ![t] = <<p, v>>]
          /\ stage' = [stage EXCEPT ![t] = IF v # None THEN "look" ELSE "save"]
    BY <1>3 DEF Handle
  <2>2. UNCHANGED <<lastPersistAt, anomalies, restarts>>
    BY <1>3 DEF Handle, storeVars, historyVars
  <2>3. stage'[t] \notin {"mark", "judge"} /\ (stage'[t] = "save" => key'[t][2] = None)
    BY <2>1 DEF TypeOK
  <2> QED BY <1>1, <2>2, <2>3 DEF SpacedInv, OnePerCooldown, Stored
<1>4. CASE LookRecent(t) \/ Rollback(t)
  <2>1. UNCHANGED <<lastPersistAt, anomalies, restarts>> /\ stage'[t] = "free"
    BY <1>4 DEF LookRecent, Rollback, Return, storeVars, historyVars, TypeOK
  <2> QED BY <1>1, <2>1 DEF SpacedInv, OnePerCooldown, Stored
<1>5. CASE LookDue(t)
  <2>1. UNCHANGED <<lastPersistAt, anomalies, restarts, key, stamp>> /\ stage'[t] = "mark"
    BY <1>5 DEF LookDue, storeVars, historyVars, TypeOK
  <2>2. key[t] \in Pc \X Verdict /\ stamp[t] \in Nat
    BY <1>5 DEF LookDue, StageOK, TypeOK, Time
  <2>3. lastPersistAt[key[t]] # None => lastPersistAt[key[t]] \in Nat
    BY <2>2 DEF TypeOK, Time
  <2>4. lastPersistAt[key[t]] # None => lastPersistAt[key[t]] + Cooldown <= stamp[t]
    BY <1>5, <2>2, <2>3, AlertAssumption DEF LookDue, Recent, MapKey
  <2> QED BY <1>1, <2>1, <2>4 DEF SpacedInv, OnePerCooldown, Stored
<1>6. CASE Mark(t)
  <2>1. /\ UNCHANGED <<anomalies, restarts, key, stamp>> /\ stage'[t] = "save"
        /\ lastPersistAt' = [lastPersistAt EXCEPT ![key[t]] = stamp[t]]
    BY <1>6 DEF Mark, MapKey, storeVars, TypeOK
  <2>2. key[t] \in Pc \X Verdict /\ stamp[t] \in Nat /\ stamp[t] # None
    BY <1>6, AlertAssumption DEF Mark, StageOK, TypeOK, Time
  <2>3. \A r \in Stored(key[t]) : r.at + Cooldown <= stamp[t] /\ r.at <= stamp[t]
    <3>1. \A r \in Stored(key[t]) :
            /\ r.at \in Nat /\ lastPersistAt[key[t]] \in Nat
            /\ r.at <= lastPersistAt[key[t]]
            /\ lastPersistAt[key[t]] + Cooldown <= stamp[t]
      BY <1>6, <2>2 DEF Mark, SpacedInv, Stored, TypeOK, Time
    <3> QED BY <2>2, <3>1, AlertAssumption
  <2>4. \A k \in Pc \X Verdict : \A r \in Stored(k) :
            lastPersistAt'[k] # None /\ r.at <= lastPersistAt'[k]
    BY <2>1, <2>2, <2>3 DEF SpacedInv, TypeOK
  <2>5. lastPersistAt'[key[t]] = stamp[t]
    BY <2>1, <2>2 DEF TypeOK
  <2>6. \A k : Stored(k)' = Stored(k)
    BY <2>1 DEF Stored
  <2> QED BY <1>1, <2>1, <2>3, <2>4, <2>5, <2>6 DEF SpacedInv, OnePerCooldown
<1>7. CASE SaveAnomaly(t)
  <2>1. UNCHANGED <<lastPersistAt, anomalies, restarts, key, stamp>> /\ stage[t] = "save"
    BY <1>7 DEF SaveAnomaly, storeVars, historyVars
  <2>2. stage'[t] = "judge"
    BY <1>7 DEF SaveAnomaly, TypeOK
  <2> QED BY <1>1, <2>1, <2>2 DEF SpacedInv, OnePerCooldown, Stored
<1>8. CASE SaveJudgment(t)
  <2>1. /\ UNCHANGED <<lastPersistAt, restarts>> /\ stage'[t] = "free"
        /\ anomalies' = anomalies \cup {Row(t)} /\ stage[t] = "judge"
    BY <1>8 DEF SaveJudgment, Return, historyVars, TypeOK
  <2>2. /\ Row(t).key = key[t] /\ Row(t).at = stamp[t] /\ Row(t).life = restarts
        /\ key[t] \in Keys /\ stamp[t] \in Nat /\ restarts \in Nat
    BY <2>1 DEF Row, StageOK, TypeOK, Time
  <2>3. key[t][2] # None => stamp[t] # None /\ lastPersistAt[key[t]] = stamp[t]
    BY <2>1, <2>2, AlertAssumption DEF SpacedInv
  <2>4. \A r \in anomalies : (r.key = key[t] /\ r.life = restarts /\ r.key[2] # None)
            => r.at + Cooldown <= stamp[t]
    BY <2>1 DEF SpacedInv, Stored
  <2>5. OnePerCooldown'
    BY <2>1, <2>2, <2>4 DEF SpacedInv, OnePerCooldown
  <2>6. \A k \in Pc \X Verdict : \A r \in Stored(k)' :
            lastPersistAt'[k] # None /\ r.at <= lastPersistAt'[k]
    <3> SUFFICES ASSUME NEW k \in Pc \X Verdict, NEW r \in Stored(k)'
                 PROVE  lastPersistAt'[k] # None /\ r.at <= lastPersistAt'[k]
      OBVIOUS
    <3>1. CASE r \in Stored(k)
      BY <2>1, <3>1 DEF SpacedInv
    <3>2. CASE r = Row(t)
      <4>1. k = key[t] /\ k[2] # None
        BY <2>2, <3>2, AlertAssumption DEF Stored
      <4> QED BY <2>1, <2>2, <2>3, <3>2, <4>1
    <3> QED BY <2>1, <3>1, <3>2 DEF Stored
  <2>7. \A r \in anomalies' : r.life <= restarts'
    BY <2>1, <2>2 DEF SpacedInv
  <2> QED BY <1>1, <2>1, <2>5, <2>6, <2>7 DEF SpacedInv
<1>9. CASE Restart
  <2>1. anomalies' = anomalies /\ restarts' = restarts + 1 /\ stage'[t] = "free"
    BY <1>9 DEF Restart, storeVars
  <2>2. \A r \in anomalies : r.life \in Nat /\ r.life <= restarts /\ restarts \in Nat
    BY DEF TypeOK, SpacedInv
  <2>3. \A k : Stored(k)' = {}
    BY <2>1, <2>2 DEF Stored
  <2> QED BY <1>1, <2>1, <2>2, <2>3 DEF SpacedInv, OnePerCooldown
<1>10. Next => Tick \/ Restart \/ ThreadStep(t)
  BY <1>1 DEF Next
<1> QED BY <1>2, <1>3, <1>4, <1>5, <1>6, <1>7, <1>8, <1>9, <1>10 DEF ThreadStep

(* With a single thread, alerts of one PC and verdict are spaced.          *)
THEOREM SerialIsSpaced == Serial => (Spec => []OnePerCooldown)
<1> SUFFICES ASSUME Serial PROVE Spec => []OnePerCooldown
  OBVIOUS
<1>1. CASE Cooldown > 0
  <2>1. Init => SpacedInv
    BY DEF Init, SpacedInv, OnePerCooldown, Stored
  <2>2. TypeOK /\ StageOK /\ SpacedInv /\ [Next]_vars => SpacedInv'
    BY <1>1, SpacedNext
  <2>3. SpacedInv => OnePerCooldown
    BY DEF SpacedInv
  <2> QED BY <2>1, <2>2, <2>3, AlertTyped, PTL DEF Spec
<1>2. CASE Cooldown = 0
  <2>1. TypeOK => OnePerCooldown
    BY <1>2 DEF TypeOK, OnePerCooldown, Time
  <2> QED BY <2>1, AlertTyped, PTL
<1> QED BY <1>1, <1>2, AlertAssumption
=============================================================================
