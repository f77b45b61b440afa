----------------------------- MODULE AlertService -----------------------------
(***************************************************************************)
(* service/AlertService.java: the ML server's answers, handled by the      *)
(* threads of mlExecutor.  An anomaly and its judgment are stored in one   *)
(* transaction, at most one pair per PC and verdict and cooldown: the time *)
(* of the last one is kept in a concurrent map that is read, compared and  *)
(* written in three steps, before the transaction stores anything.         *)
(***************************************************************************)
EXTENDS Naturals, FiniteSets

CONSTANTS
    Thread,     (* the threads of mlExecutor                                 *)
    Pc,         (* pc_id                                                     *)
    Verdict,    (* what the ML server decides, "OBSERVE" among them          *)
    None,       (* no value: null                                            *)
    Cooldown,   (* cooldownSeconds, in ticks of the clock; 0 turns it off    *)
    MaxTime,    (* bound: the clock                                          *)
    MaxRows,    (* bound: rows inserted in anomaly_history                   *)
    MaxFaults,  (* bound: failed transactions                                *)
    MaxRestarts (* bound: restarts of the server                             *)

ASSUME AlertAssumption ==
    /\ Cooldown \in Nat
    /\ MaxTime \in Nat
    /\ MaxRows \in Nat
    /\ MaxFaults \in Nat
    /\ MaxRestarts \in Nat
    /\ None \notin Verdict
    /\ None \notin Nat

VARIABLES
    now,            (* the clock                                             *)
    lastPersistAt,  (* by PC and verdict                                     *)
    stage,          (* where each thread is in handle()                      *)
    key,            (* the PC and verdict of the answer it handles           *)
    stamp,          (* nowInstant                                            *)
    inserted,       (* the id of the row its transaction has inserted        *)
    anomalies,      (* anomaly_history, committed                            *)
    judgments,      (* ai_judgment_history, committed: the anomaly's id      *)
    nextId,         (* the sequence of the ids; a rollback leaves a gap      *)
    marks,          (* history: what this life wrote to lastPersistAt        *)
    faults,         (* history: failed transactions                          *)
    restarts        (* history: restarts                                     *)

threadVars == <<stage, key, stamp, inserted>>
storeVars == <<anomalies, judgments>>
historyVars == <<marks, faults, restarts>>
vars == <<now, lastPersistAt, threadVars, storeVars, nextId, historyVars>>
-----------------------------------------------------------------------------
Severity == {None, "NORMAL", "LOW", "HIGH"}
Time == 0 .. MaxTime

(* What handle() takes no further: no severity, NORMAL, a weak signal.     *)
Ignored(severity, v) ==
    \/ severity \in {None, "NORMAL"}
    \/ severity = "LOW" /\ v = "OBSERVE"

(* A faulty index: one entry per PC, whatever the verdict.                 *)
MapKeyOfPc(t) == <<key[t][1], CHOOSE v \in Verdict : TRUE>>

(* What the map is indexed by: pcId + "::" + verdict.                      *)
MapKey(t) == key[t]

(* Duration.between(prev, nowInstant) < cooldownSeconds; a thread that was *)
(* overtaken sees a time after its own.                                    *)
Recent(at, t) == stamp[t] < at + Cooldown

(* The thread is done with its answer.                                     *)
Return(t) ==
    /\ stage' = [stage EXCEPT ![t] = "free"]
    /\ key' = [key EXCEPT ![t] = None]
    /\ stamp' = [stamp EXCEPT ![t] = 0]
    /\ inserted' = [inserted EXCEPT ![t] = None]

(* What a mark and a row say of the answer a thread handles.               *)
Entry(t) == [key |-> key[t], at |-> stamp[t]]
Row(t) == [id |-> inserted[t], key |-> key[t], at |-> stamp[t], life |-> restarts]
-----------------------------------------------------------------------------
(* A thread returns at once from an answer that is not to be stored.       *)
HandleIgnored(t) ==
    /\ stage[t] = "free"
    /\ \E v \in Verdict \cup {None}, severity \in Severity : Ignored(severity, v)
    /\ UNCHANGED vars

(* A thread takes up an answer that is to be stored.                       *)
Handle(t) ==
    /\ stage[t] = "free"
    /\ nextId <= MaxRows
    /\ \E p \in Pc, v \in Verdict \cup {None}, severity \in Severity :
          /\ ~Ignored(severity, v)
          /\ key' = [key EXCEPT ![t] = <<p, v>>]
          /\ stage' = [stage EXCEPT ![t] =
                          IF Cooldown > 0 /\ v # None THEN "look" ELSE "save"]
    /\ stamp' = [stamp EXCEPT ![t] = now]
    /\ UNCHANGED <<now, lastPersistAt, inserted, storeVars, nextId, historyVars>>

(* lastPersistAt.get(key): too recent, the answer is dropped.              *)
LookRecent(t) ==
    /\ stage[t] = "look"
    /\ lastPersistAt[MapKey(t)] # None
    /\ Recent(lastPersistAt[MapKey(t)], t)
    /\ Return(t)
    /\ UNCHANGED <<now, lastPersistAt, storeVars, nextId, historyVars>>

LookDue(t) ==
    /\ stage[t] = "look"
    /\ \/ lastPersistAt[MapKey(t)] = None
       \/ /\ lastPersistAt[MapKey(t)] # None
          /\ ~Recent(lastPersistAt[MapKey(t)], t)
    /\ stage' = [stage EXCEPT ![t] = "mark"]
    /\ UNCHANGED <<now, lastPersistAt, key, stamp, inserted, storeVars,
                   nextId, historyVars>>

(* lastPersistAt.put(key, nowInstant), before anything is stored.          *)
Mark(t) ==
    /\ stage[t] = "mark"
    /\ lastPersistAt' = [lastPersistAt EXCEPT ![MapKey(t)] = stamp[t]]
    /\ marks' = marks \cup {Entry(t)}
    /\ stage' = [stage EXCEPT ![t] = "save"]
    /\ UNCHANGED <<now, key, stamp, inserted, storeVars, nextId,
                   faults, restarts>>

(* A faulty insert: outside the transaction.                               *)
SaveAnomalyAtOnce(t) ==
    /\ stage[t] = "save"
    /\ inserted' = [inserted EXCEPT ![t] = nextId]
    /\ anomalies' = anomalies \cup {[Row(t) EXCEPT !.id = nextId]}
    /\ nextId' = nextId + 1
    /\ stage' = [stage EXCEPT ![t] = "judge"]
    /\ UNCHANGED <<now, lastPersistAt, key, stamp, judgments, historyVars>>

(* A faulty insert: its id is read before it is known.                     *)
SaveAnomalyWithoutId(t) ==
    /\ stage[t] = "save"
    /\ nextId' = nextId + 1
    /\ stage' = [stage EXCEPT ![t] = "judge"]
    /\ UNCHANGED <<now, lastPersistAt, key, stamp, inserted, storeVars, historyVars>>

(* The anomaly is inserted, visible to its own transaction only.           *)
SaveAnomaly(t) ==
    /\ stage[t] = "save"
    /\ inserted' = [inserted EXCEPT ![t] = nextId]
    /\ nextId' = nextId + 1
    /\ stage' = [stage EXCEPT ![t] = "judge"]
    /\ UNCHANGED <<now, lastPersistAt, key, stamp, storeVars, historyVars>>

(* The judgment is inserted and the transaction commits.                   *)
SaveJudgment(t) ==
    /\ stage[t] = "judge"
    /\ anomalies' = anomalies \cup {Row(t)}
    /\ judgments' = judgments \cup {inserted[t]}
    /\ Return(t)
    /\ UNCHANGED <<now, lastPersistAt, nextId, historyVars>>

(* An insert or the commit fails: the transaction leaves nothing behind,   *)
(* the mark stays, and forwardAsync swallows the exception.                *)
Rollback(t) ==
    /\ stage[t] \in {"save", "judge"}
    /\ faults < MaxFaults
    /\ faults' = faults + 1
    /\ Return(t)
    /\ UNCHANGED <<now, lastPersistAt, storeVars, nextId, marks, restarts>>

Tick ==
    /\ now < MaxTime
    /\ now' = now + 1
    /\ UNCHANGED <<lastPersistAt, threadVars, storeVars, nextId, historyVars>>

(* The map and the open transactions are in memory, the tables are not.    *)
Restart ==
    /\ restarts < MaxRestarts
    /\ restarts' = restarts + 1
    /\ lastPersistAt' = [k \in Pc \X Verdict |-> None]
    /\ stage' = [t \in Thread |-> "free"]
    /\ key' = [t \in Thread |-> None]
    /\ stamp' = [t \in Thread |-> 0]
    /\ inserted' = [t \in Thread |-> None]
    /\ marks' = {}
    /\ UNCHANGED <<now, storeVars, nextId, faults>>
-----------------------------------------------------------------------------
Init ==
    /\ now = 0
    /\ lastPersistAt = [k \in Pc \X Verdict |-> None]
    /\ stage = [t \in Thread |-> "free"]
    /\ key = [t \in Thread |-> None]
    /\ stamp = [t \in Thread |-> 0]
    /\ inserted = [t \in Thread |-> None]
    /\ anomalies = {}
    /\ judgments = {}
    /\ nextId = 1
    /\ marks = {}
    /\ faults = 0
    /\ restarts = 0

ThreadStep(t) ==
    \/ HandleIgnored(t) \/ Handle(t) \/ LookRecent(t) \/ LookDue(t)
    \/ Mark(t) \/ SaveAnomaly(t) \/ SaveJudgment(t) \/ Rollback(t)

Next == Tick \/ Restart \/ \E t \in Thread : ThreadStep(t)

Spec == Init /\ [][Next]_vars
-----------------------------------------------------------------------------
Keys == Pc \X (Verdict \cup {None})

TypeOK ==
    /\ now \in Time
    /\ lastPersistAt \in [Pc \X Verdict -> Time \cup {None}]
    /\ stage \in [Thread -> {"free", "look", "mark", "save", "judge"}]
    /\ key \in [Thread -> Keys \cup {None}]
    /\ stamp \in [Thread -> Time]
    /\ inserted \in [Thread -> Nat \cup {None}]
    /\ anomalies \subseteq [id : Nat, key : Keys, at : Time, life : Nat]
    /\ judgments \subseteq Nat
    /\ nextId \in Nat
    /\ marks \subseteq [key : Keys, at : Time]
    /\ faults \in 0 .. MaxFaults
    /\ restarts \in 0 .. MaxRestarts

(* Two alerts of one PC and verdict, stored in one life of the server, lie *)
(* a cooldown apart.  It holds as long as one thread handles the answers.  *)
OnePerCooldown ==
    \A r, q \in anomalies :
        (r # q /\ r.key = q.key /\ r.key[2] # None /\ r.life = q.life)
            => r.at + Cooldown <= q.at \/ q.at + Cooldown <= r.at

(* Whatever thread fails or is restarted where, a stored alert has exactly *)
(* one stored judgment that refers to it, and no judgment is left over.    *)
AnomalyJudged ==
    /\ judgments = {r.id : r \in anomalies}
    /\ Cardinality(judgments) = Cardinality(anomalies)

(* The cooldown drops the answer that thread t handles.                    *)
Skipped(t) == stage[t] = "look" /\ stage'[t] = "free" /\ restarts' = restarts

(* The cooldown drops an answer only because of another one of the same    *)
(* PC and the same verdict, in the same life of the server and less than a *)
(* cooldown old, however the threads overtake each other.                  *)
SkipHasCause ==
    [][\A t \in Thread : Skipped(t) =>
          \E m \in marks : m.key = key[t] /\ stamp[t] < m.at + Cooldown]_vars
=============================================================================
