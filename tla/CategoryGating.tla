---------------------------- MODULE CategoryGating ----------------------------
(***************************************************************************)
(* scorer/category_gating.py, for one PC: how long one, two or all three   *)
(* categories (resource, network, system) have been abnormal without a     *)
(* break, and the verdict this earns.  The state is a dictionary that the  *)
(* /analyze requests of the PC share without a lock.                       *)
(***************************************************************************)
EXTENDS Integers, Sequences, FiniteSetsExt

CONSTANTS
    Thread,        (* requests that run at the same time                     *)
    None,          (* no value                                               *)
    GapReset,      (* _GAP_RESET_SEC, in ticks of the clock                  *)
    Cap,           (* _SUSTAINED_CAP_MIN, in ticks                           *)
    ObserveMin,    (* gating.observe.sustained_minutes                       *)
    SuspiciousMin, (* gating.suspicious.sustained_minutes                    *)
    ConfirmedMin,  (* gating.mining_confirmed.sustained_minutes              *)
    MaxTime,       (* bound: the clock                                       *)
    MaxObs,        (* bound: requests in one life of the server              *)
    MaxRestarts    (* bound: restarts of the server                          *)

ASSUME GatingAssumption ==
    /\ GapReset \in Nat
    /\ Cap \in Nat
    /\ ObserveMin \in Nat /\ SuspiciousMin \in Nat /\ ConfirmedMin \in Nat
    /\ MaxTime \in Nat \ {0}
    /\ MaxObs \in Nat
    /\ MaxRestarts \in Nat
    /\ None \notin Int

VARIABLES
    now,        (* the clock                                                 *)
    since,      (* any_one_since, any_two_since, all_three_since             *)
    lastTs,     (* last_ts                                                   *)
    stage,      (* where each request is in update_sustained_state           *)
    at,         (* its now                                                   *)
    cats,       (* its cats_count                                            *)
    sustained,  (* its sustained_minutes                                     *)
    verdict,    (* what it is told                                           *)
    seen,       (* history: the observations of this life, in order          *)
    restarts    (* history: restarts                                         *)

requestVars == <<at, cats, sustained, verdict>>
vars == <<now, since, lastTs, stage, requestVars, seen, restarts>>
-----------------------------------------------------------------------------
Level == 1 .. 3
NoAnchors == [k \in Level |-> None]
Time == 1 .. MaxTime

Goto(t, s) == stage' = [stage EXCEPT ![t] = s]

(* The categories are evaluated: arithmetic of the window of aggregates.   *)
Evaluate(t) ==
    /\ stage[t] \in {"idle", "done"}
    /\ Len(seen) + Cardinality({u \in Thread : stage[u] \in {"gap", "anchor"}}) < MaxObs
    /\ at' = [at EXCEPT ![t] = now]
    /\ \E c \in 0 .. 3 : cats' = [cats EXCEPT ![t] = c]
    /\ sustained' = [sustained EXCEPT ![t] = 0]
    /\ verdict' = [verdict EXCEPT ![t] = None]
    /\ Goto(t, "gap")
    /\ UNCHANGED <<now, since, lastTs, seen, restarts>>

(* A policy or a category cannot be evaluated: the request goes on as if   *)
(* nothing were abnormal, and the state stays as it is.                    *)
EvaluateFails(t) ==
    /\ stage[t] \in {"idle", "done"}
    /\ sustained' = [sustained EXCEPT ![t] = 0]
    /\ verdict' = [verdict EXCEPT ![t] = "NORMAL"]
    /\ Goto(t, "idle")
    /\ UNCHANGED <<now, since, lastTs, at, cats, seen, restarts>>

(* A faulty continuity check: an absence is not noticed.                   *)
ResetAfterGapNever(t) ==
    /\ stage[t] = "gap"
    /\ Goto(t, "anchor")
    /\ UNCHANGED <<now, since, lastTs, requestVars, seen, restarts>>

(* Nothing was observed for too long: the anchors are dropped.             *)
ResetAfterGap(t) ==
    /\ stage[t] = "gap"
    /\ since' = IF at[t] - lastTs > GapReset THEN NoAnchors ELSE since
    /\ Goto(t, "anchor")
    /\ UNCHANGED <<now, lastTs, requestVars, seen, restarts>>

(* Faulty anchors: a lower count does not drop the higher ones.            *)
AnchorsStay(c, time) ==
    [k \in Level |-> IF k <= c /\ since[k] = None THEN time ELSE since[k]]

(* Levels up to the count keep their anchor or get one, the others drop it.*)
Anchors(c, time) ==
    [k \in Level |-> IF k > c THEN None ELSE IF since[k] = None THEN time ELSE since[k]]

Anchor(t) ==
    /\ stage[t] = "anchor"
    /\ since' = Anchors(cats[t], at[t])
    /\ seen' = Append(seen, [at |-> at[t], cats |-> cats[t]])
    /\ Goto(t, "stamp")
    /\ UNCHANGED <<now, lastTs, requestVars, restarts>>

Stamp(t) ==
    /\ stage[t] = "stamp"
    /\ lastTs' = at[t]
    /\ Goto(t, "judge")
    /\ UNCHANGED <<now, since, requestVars, seen, restarts>>

(* The strongest level that the count reaches and that has an anchor.      *)
Anchored(t) == {k \in 1 .. cats[t] : since[k] # None}

(* A faulty duration: without the cap.                                     *)
SustainedUncapped(t) ==
    IF Anchored(t) = {} THEN 0 ELSE at[t] - since[Max(Anchored(t))]

Sustained(t) ==
    IF Anchored(t) = {} THEN 0
    ELSE Min({at[t] - since[Max(Anchored(t))], Cap})

(* evaluate: the first rule that holds.                                    *)
VerdictFor(count, minutes) ==
    IF count >= 3 /\ minutes >= ConfirmedMin THEN "HIGH_RISK"
    ELSE IF count >= 2 /\ minutes >= SuspiciousMin THEN "SUSPICIOUS"
    ELSE IF count >= 1 /\ minutes >= ObserveMin THEN "OBSERVE"
    ELSE "NORMAL"

Judge(t) ==
    /\ stage[t] = "judge"
    /\ sustained' = [sustained EXCEPT ![t] = Sustained(t)]
    /\ verdict' = [verdict EXCEPT ![t] = VerdictFor(cats[t], Sustained(t))]
    /\ Goto(t, "done")
    /\ UNCHANGED <<now, since, lastTs, at, cats, seen, restarts>>
-----------------------------------------------------------------------------
Tick ==
    /\ now < MaxTime
    /\ now' = now + 1
    /\ UNCHANGED <<since, lastTs, stage, requestVars, seen, restarts>>

(* The state is in memory.                                                 *)
Restart ==
    /\ restarts < MaxRestarts
    /\ restarts' = restarts + 1
    /\ since' = NoAnchors
    /\ lastTs' = 0
    /\ stage' = [t \in Thread |-> "idle"]
    /\ sustained' = [t \in Thread |-> 0]
    /\ verdict' = [t \in Thread |-> None]
    /\ seen' = <<>>
    /\ UNCHANGED <<now, at, cats>>

Init ==
    /\ now = 1
    /\ since = NoAnchors
    /\ lastTs = 0
    /\ stage = [t \in Thread |-> "idle"]
    /\ at = [t \in Thread |-> 1]
    /\ cats = [t \in Thread |-> 0]
    /\ sustained = [t \in Thread |-> 0]
    /\ verdict = [t \in Thread |-> None]
    /\ seen = <<>>
    /\ restarts = 0

ThreadStep(t) ==
    \/ Evaluate(t) \/ EvaluateFails(t) \/ ResetAfterGap(t)
    \/ Anchor(t) \/ Stamp(t) \/ Judge(t)

Next == Tick \/ Restart \/ \E t \in Thread : ThreadStep(t)

Spec == Init /\ [][Next]_vars
-----------------------------------------------------------------------------
Verdicts == {"NORMAL", "OBSERVE", "SUSPICIOUS", "HIGH_RISK"}

TypeOK ==
    /\ now \in Time
    /\ since \in [Level -> Time \cup {None}]
    /\ lastTs \in 0 .. MaxTime
    /\ stage \in [Thread -> {"idle", "gap", "anchor", "stamp", "judge", "done"}]
    /\ at \in [Thread -> Time]
    /\ cats \in [Thread -> 0 .. 3]
    /\ sustained \in [Thread -> -MaxTime .. Cap] (* negative: overtaken *)
    /\ verdict \in [Thread -> Verdicts \cup {None}]
    /\ seen \in Seq([at : Time, cats : 0 .. 3])
    /\ restarts \in 0 .. MaxRestarts

(* From the i-th observation to the last one, at least c categories were   *)
(* abnormal each time, and no two observations lie too far apart.          *)
Unbroken(i, c) ==
    /\ \A j \in i .. Len(seen) : seen[j].cats >= c
    /\ \A j \in i .. Len(seen) - 1 : seen[j + 1].at - seen[j].at <= GapReset

(* How long that has been so.                                              *)
Observed(c) ==
    Max({0} \cup {seen[Len(seen)].at - seen[i].at : i \in {j \in DOMAIN seen : Unbroken(j, c)}})

(* While the requests of a PC come one after the other, the anchors give   *)
(* what the whole sequence of observations would: the time for which as    *)
(* many categories as now have been abnormal without a break, up to a cap. *)
SustainedIsObserved ==
    \A t \in Thread :
        stage[t] = "done" =>
            sustained[t] = IF cats[t] = 0 THEN 0 ELSE Min({Observed(cats[t]), Cap})

(* The docstring: HIGH_RISK needs three categories abnormal together for   *)
(* sustained_minutes.  It holds while the requests of a PC come one after  *)
(* the other.                                                              *)
HighRiskIsEarned ==
    \A t \in Thread :
        stage[t] = "done" /\ verdict[t] = "HIGH_RISK" =>
            \E i, j \in DOMAIN seen :
                /\ seen[j].at - seen[i].at >= ConfirmedMin
                /\ \A k \in i .. j : seen[k].cats >= 3
=============================================================================
