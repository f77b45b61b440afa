------------------------- MODULE CategoryGating_proofs -------------------------
(***************************************************************************)
(* Proofs about CategoryGating: type correctness and what an anchor stands *)
(* for, for any number of requests, and that HIGH_RISK is earned when the  *)
(* requests of a PC come one after the other.                              *)
(***************************************************************************)
EXTENDS CategoryGating, TLAPS

(* The smallest of two durations is not above the first one.               *)
LEMMA MinOfTwo ==
  ASSUME NEW a \in Int, NEW b \in Int
  PROVE  Min({a, b}) \in {a, b} /\ Min({a, b}) <= a
<1>1. \E x \in {a, b} : \A y \in {a, b} : x <= y
  <2>1. CASE a <= b
    BY <2>1
  <2>2. CASE b <= a
    BY <2>2
  <2> QED BY <2>1, <2>2
<1> QED BY <1>1 DEF Min

(* With every anchor up to three set, the third one decides.               *)
LEMMA MaxOfLevels == Max(1 .. 3) = 3
<1>1. \E x \in 1 .. 3 : \A y \in 1 .. 3 : x >= y
  OBVIOUS
<1> QED BY <1>1 DEF Max
-----------------------------------------------------------------------------
(* Every anchor is the time of an observation since which the level has    *)
(* always been reached.                                                    *)
Stands(k, s, q) ==
  \E i \in DOMAIN q : q[i].at = s[k] /\ \A j \in i .. Len(q) : q[j].cats >= k

AnchorsOK == \A k \in Level : since[k] # None => Stands(k, since, seen)

(* What a request of a PC knows once it has been counted.                  *)
CountedOK ==
  \A t \in Thread : stage[t] \in {"stamp", "judge"} =>
     /\ seen # <<>>
     /\ seen[Len(seen)].at = at[t]
     /\ \A k \in Level : k <= cats[t] => since[k] # None
-----------------------------------------------------------------------------
(* What an anchor gives is a whole number, up to the cap.                  *)
LEMMA SustainedType ==
  ASSUME TypeOK, NEW t \in Thread
  PROVE  Sustained(t) \in -MaxTime .. Cap
<1> USE GatingAssumption
<1>1. MaxTime \in Nat /\ Cap \in Nat
  OBVIOUS
<1>2. CASE Anchored(t) = {}
  BY <1>1, <1>2 DEF Sustained
<1>3. CASE Anchored(t) # {}
  <2>1. Anchored(t) \subseteq 1 .. 3
    <3>1. cats[t] \in 0 .. 3
      BY DEF TypeOK
    <3>2. \A k \in 1 .. cats[t] : k \in 1 .. 3
      BY ONLY <3>1
    <3> QED BY <3>2 DEF Anchored
  <2>2. \E x \in Anchored(t) : \A y \in Anchored(t) : x >= y
    <3>1. CASE 3 \in Anchored(t)
      BY <2>1, <3>1
    <3>2. CASE 3 \notin Anchored(t) /\ 2 \in Anchored(t)
      BY <2>1, <3>2
    <3>3. CASE 3 \notin Anchored(t) /\ 2 \notin Anchored(t)
      BY <1>3, <2>1, <3>3
    <3> QED BY <3>1, <3>2, <3>3
  <2>3. Max(Anchored(t)) \in Anchored(t)
    BY <2>2 DEF Max
  <2> DEFINE s == since[Max(Anchored(t))]
  <2>4. s \in Time
    BY <2>1, <2>3 DEF Anchored, TypeOK, Level
  <2>5. at[t] \in Time
    BY DEF TypeOK
  <2> DEFINE d == at[t] - s
  <2>6. d \in Int /\ d >= -MaxTime
    BY <1>1, <2>4, <2>5 DEF Time
  <2>7. Sustained(t) = Min({d, Cap})
    BY <1>3 DEF Sustained
  <2> HIDE DEF d
  <2>8. Min({d, Cap}) \in {d, Cap} /\ Min({d, Cap}) <= d
    BY <1>1, <2>6, MinOfTwo
  <2>9. Min({Cap, d}) <= Cap /\ {d, Cap} = {Cap, d}
    BY <1>1, <2>6, MinOfTwo
  <2> QED BY <1>1, <2>6, <2>7, <2>8, <2>9
<1> QED BY <1>2, <1>3

LEMMA TypeNext == TypeOK /\ [Next]_vars => TypeOK'
<1> SUFFICES ASSUME TypeOK, [Next]_vars PROVE TypeOK'
  OBVIOUS
<1> USE GatingAssumption DEF TypeOK
<1>1. ASSUME NEW t \in Thread, Evaluate(t) PROVE TypeOK'
  <2>1. 0 \in -MaxTime .. Cap
    OBVIOUS
  <2> QED BY <1>1, <2>1 DEF Evaluate, Goto
<1>2. ASSUME NEW t \in Thread, EvaluateFails(t) PROVE TypeOK'
  <2>1. 0 \in -MaxTime .. Cap
    OBVIOUS
  <2> QED BY <1>2, <2>1 DEF EvaluateFails, Goto, Verdicts
<1>3. ASSUME NEW t \in Thread, ResetAfterGap(t) PROVE TypeOK'
  BY <1>3 DEF ResetAfterGap, Goto, NoAnchors, requestVars
<1>4. ASSUME NEW t \in Thread, Anchor(t) PROVE TypeOK'
  <2>1. since' \in [Level -> Time \cup {None}]
    BY <1>4 DEF Anchor, Anchors, Level
  <2>2. seen' \in Seq([at : Time, cats : 0 .. 3])
    BY <1>4 DEF Anchor
  <2> QED BY <1>4, <2>1, <2>2 DEF Anchor, Goto, requestVars
<1>5. ASSUME NEW t \in Thread, Stamp(t) PROVE TypeOK'
  BY <1>5 DEF Stamp, Goto, requestVars, Time
<1>6. ASSUME NEW t \in Thread, Judge(t) PROVE TypeOK'
  <2>1. Sustained(t) \in -MaxTime .. Cap
    BY SustainedType
  <2>2. VerdictFor(cats[t], Sustained(t)) \in Verdicts
    BY DEF VerdictFor, Verdicts
  <2> QED BY <1>6, <2>1, <2>2 DEF Judge, Goto
<1>7. CASE Tick
  BY <1>7 DEF Tick, requestVars, Time
<1>8. CASE Restart
  <2>1. 0 \in -MaxTime .. Cap /\ 0 \in 0 .. MaxTime
    OBVIOUS
  <2> QED BY <1>8, <2>1 DEF Restart, NoAnchors
<1>9. CASE UNCHANGED vars
  BY <1>9 DEF vars, requestVars
<1> QED BY <1>1, <1>2, <1>3, <1>4, <1>5, <1>6, <1>7, <1>8, <1>9 DEF Next, ThreadStep

(* Type correctness, for any number of overlapping requests.               *)
THEOREM GatingTyped == Spec => []TypeOK
<1>1. Init => TypeOK
  <2>1. 0 \in -MaxTime .. Cap /\ 0 \in 0 .. MaxTime /\ 1 \in Time /\ 0 \in 0 .. MaxRestarts
    BY GatingAssumption DEF Time
  <2> QED BY <2>1 DEF Init, TypeOK, NoAnchors
<1> QED BY <1>1, TypeNext, PTL DEF Spec
-----------------------------------------------------------------------------
(* A further observation at the level leaves an anchor standing.           *)
LEMMA StandsAppend ==
  ASSUME NEW T, NEW q \in Seq([at : T, cats : 0 .. 3]), NEW e \in [at : T, cats : 0 .. 3],
         NEW k \in Level, NEW s, NEW r, Stands(k, s, q), r[k] = s[k], e.cats >= k
  PROVE  Stands(k, r, Append(q, e))
<1> DEFINE p == Append(q, e)
<1>1. PICK i \in DOMAIN q : q[i].at = s[k] /\ \A j \in i .. Len(q) : q[j].cats >= k
  BY DEF Stands
<1>2. /\ Len(p) = Len(q) + 1 /\ Len(q) \in Nat /\ i \in 1 .. Len(q)
      /\ p[Len(q) + 1] = e /\ \A j \in 1 .. Len(q) : p[j] = q[j]
      /\ DOMAIN p = 1 .. Len(q) + 1
  OBVIOUS
<1> HIDE DEF p
<1>3. i \in DOMAIN p /\ p[i].at = r[k]
  BY <1>1, <1>2
<1>4. ASSUME NEW j \in i .. Len(p) PROVE p[j].cats >= k
  <2>1. (j \in i .. Len(q) /\ j \in 1 .. Len(q)) \/ j = Len(q) + 1
    BY <1>2
  <2> QED BY <1>1, <1>2, <2>1
<1> QED BY <1>3, <1>4 DEF Stands, p

(* The first observation at a level is its anchor.                         *)
LEMMA StandsNew ==
  ASSUME NEW T, NEW q \in Seq([at : T, cats : 0 .. 3]), NEW e \in [at : T, cats : 0 .. 3],
         NEW k \in Level, NEW r, r[k] = e.at, e.cats >= k
  PROVE  Stands(k, r, Append(q, e))
<1> DEFINE p == Append(q, e)
<1>1. /\ Len(p) = Len(q) + 1 /\ Len(q) \in Nat
      /\ p[Len(q) + 1] = e /\ DOMAIN p = 1 .. Len(q) + 1
  OBVIOUS
<1> HIDE DEF p
<1>2. Len(p) \in DOMAIN p /\ p[Len(p)] = e
  BY <1>1
<1>3. \A j \in Len(p) .. Len(p) : j = Len(p)
  BY <1>1
<1> QED BY <1>2, <1>3 DEF Stands, p

LEMMA AnchorsNext == TypeOK /\ AnchorsOK /\ [Next]_vars => AnchorsOK'
<1> SUFFICES ASSUME TypeOK, AnchorsOK, [Next]_vars PROVE AnchorsOK'
  OBVIOUS
<1>1. ASSUME NEW t \in Thread, Anchor(t) PROVE AnchorsOK'
  <2> DEFINE e == [at |-> at[t], cats |-> cats[t]]
  <2>1. /\ seen' = Append(seen, e)
        /\ since' = Anchors(cats[t], at[t])
        /\ seen \in Seq([at : Time, cats : 0 .. 3]) /\ e \in [at : Time, cats : 0 .. 3]
        /\ e.at = at[t] /\ e.cats = cats[t] /\ cats[t] \in 0 .. 3
    BY <1>1 DEF Anchor, TypeOK
  <2> HIDE DEF e
  <2>2. ASSUME NEW k \in Level, since'[k] # None PROVE Stands(k, since', Append(seen, e))
    <3>1. k <= cats[t] /\ since'[k] = IF since[k] = None THEN at[t] ELSE since[k]
      BY <2>1, <2>2 DEF Anchors, Level
    <3>2. cats[t] >= k
      BY <2>1, <3>1 DEF Level
    <3>3. CASE since[k] = None
      BY <2>1, <3>1, <3>2, <3>3, StandsNew
    <3>4. CASE since[k] # None
      <4>1. Stands(k, since, seen) /\ since'[k] = since[k]
        BY <3>1, <3>4 DEF AnchorsOK
      <4> QED BY <2>1, <3>2, <4>1, StandsAppend
    <3> QED BY <3>3, <3>4
  <2>3. ASSUME NEW k \in Level, since'[k] # None PROVE Stands(k, since', seen')
    BY <2>1, <2>2, <2>3
  <2> QED BY <2>3 DEF AnchorsOK
<1>2. ASSUME since' = NoAnchors PROVE AnchorsOK'
  BY <1>2 DEF AnchorsOK, NoAnchors
<1>3. ASSUME UNCHANGED <<since, seen>> PROVE AnchorsOK'
  BY <1>3 DEF AnchorsOK, Stands
<1>4. since' = NoAnchors \/ UNCHANGED <<since, seen>> \/ \E t \in Thread : Anchor(t)
  BY DEF Next, ThreadStep, Evaluate, EvaluateFails, ResetAfterGap, Stamp, Judge, Tick,
         Restart, vars, requestVars
<1> QED BY <1>1, <1>2, <1>3, <1>4
-----------------------------------------------------------------------------
(* The requests of the PC come one after the other.                        *)
Serial == \A t, u \in Thread : t = u

LEMMA CountedNext ==
  ASSUME Serial, TypeOK, CountedOK, [Next]_vars
  PROVE  CountedOK'
<1>1. ASSUME NEW t \in Thread, Anchor(t) PROVE CountedOK'
  <2> DEFINE e == [at |-> at[t], cats |-> cats[t]]
  <2>1. /\ seen' = Append(seen, e)
        /\ since' = Anchors(cats[t], at[t])
        /\ UNCHANGED <<at, cats>>
        /\ seen \in Seq([at : Time, cats : 0 .. 3]) /\ e.at = at[t]
        /\ at[t] \in Time /\ cats[t] \in 0 .. 3
    BY <1>1 DEF Anchor, TypeOK, requestVars
  <2> HIDE DEF e
  <2>2. seen' # <<>> /\ seen'[Len(seen')].at = at'[t]
    BY <2>1
  <2>3. ASSUME NEW k \in Level, k <= cats'[t] PROVE since'[k] # None
    <3>1. ~(k > cats[t])
      BY <2>1, <2>3 DEF Level
    <3>2. since'[k] = IF since[k] = None THEN at[t] ELSE since[k]
      BY <2>1, <3>1 DEF Anchors
    <3>3. at[t] # None
      BY <2>1, GatingAssumption DEF Time
    <3> QED BY <3>2, <3>3
  <2>4. \A u \in Thread : u = t
    BY DEF Serial
  <2> QED BY <2>2, <2>3, <2>4 DEF CountedOK
<1>2. ASSUME NEW t \in Thread, Stamp(t) PROVE CountedOK'
  <2>1. stage[t] = "stamp" /\ UNCHANGED <<at, cats, since, seen>>
    BY <1>2 DEF Stamp, requestVars
  <2>2. \A u \in Thread : u = t
    BY DEF Serial
  <2> QED BY <2>1, <2>2 DEF CountedOK
<1>3. ASSUME NEW t \in Thread,
             Evaluate(t) \/ EvaluateFails(t) \/ ResetAfterGap(t) \/ Judge(t)
      PROVE  CountedOK'
  <2>1. stage'[t] \notin {"stamp", "judge"}
    BY <1>3 DEF Evaluate, EvaluateFails, ResetAfterGap, Judge, Goto, TypeOK
  <2>2. \A u \in Thread : u = t
    BY DEF Serial
  <2> QED BY <2>1, <2>2 DEF CountedOK
<1>4. CASE Tick
  BY <1>4 DEF Tick, CountedOK, requestVars
<1>5. CASE Restart
  BY <1>5 DEF Restart, CountedOK
<1>6. CASE UNCHANGED vars
  BY <1>6 DEF vars, requestVars, CountedOK
<1> QED BY <1>1, <1>2, <1>3, <1>4, <1>5, <1>6 DEF Next, ThreadStep

(* HIGH_RISK is given to a request whose third anchor is old enough.       *)
LEMMA JudgedHigh ==
  ASSUME TypeOK, CountedOK, NEW t \in Thread, stage[t] = "judge",
         VerdictFor(cats[t], Sustained(t)) = "HIGH_RISK"
  PROVE  since[3] # None /\ at[t] - since[3] >= ConfirmedMin
<1> USE GatingAssumption
<1>1. Sustained(t) \in -MaxTime .. Cap /\ cats[t] \in 0 .. 3 /\ at[t] \in Time
  BY SustainedType DEF TypeOK
<1>2. cats[t] >= 3 /\ Sustained(t) >= ConfirmedMin
  BY DEF VerdictFor
<1>3. cats[t] = 3
  BY <1>1, <1>2
<1>4. \A k \in Level : since[k] # None
  BY <1>3 DEF CountedOK, Level
<1>5. Anchored(t) = 1 .. 3
  BY <1>3, <1>4 DEF Anchored, Level
<1>6. Sustained(t) = Min({at[t] - since[3], Cap})
  BY <1>5, MaxOfLevels DEF Sustained
<1>7. since[3] # None /\ since[3] \in Time
  BY <1>4 DEF TypeOK, Level
<1>8. at[t] - since[3] \in Int /\ Cap \in Int
  BY <1>1, <1>7 DEF Time
<1>9. Min({at[t] - since[3], Cap}) \in Int /\ Min({at[t] - since[3], Cap}) <= at[t] - since[3]
  BY <1>8, MinOfTwo
<1> QED BY <1>1, <1>2, <1>6, <1>7, <1>8, <1>9

LEMMA EarnedNext ==
  ASSUME Serial, TypeOK, AnchorsOK, CountedOK, HighRiskIsEarned, [Next]_vars
  PROVE  HighRiskIsEarned'
<1>1. ASSUME NEW t \in Thread, Judge(t) PROVE HighRiskIsEarned'
  <2>1. /\ stage[t] = "judge" /\ seen' = seen
        /\ verdict'[t] = VerdictFor(cats[t], Sustained(t))
    BY <1>1 DEF Judge, TypeOK
  <2>2. ASSUME verdict'[t] = "HIGH_RISK"
        PROVE  \E i, j \in DOMAIN seen :
                  /\ seen[j].at - seen[i].at >= ConfirmedMin
                  /\ \A k \in i .. j : seen[k].cats >= 3
    <3>1. since[3] # None /\ at[t] - since[3] >= ConfirmedMin
      BY <2>1, <2>2, JudgedHigh
    <3>2. PICK i \in DOMAIN seen :
             seen[i].at = since[3] /\ \A j \in i .. Len(seen) : seen[j].cats >= 3
      BY <3>1 DEF AnchorsOK, Stands, Level
    <3>3. seen # <<>> /\ seen[Len(seen)].at = at[t]
      BY <2>1 DEF CountedOK
    <3>4. Len(seen) \in DOMAIN seen
      BY <3>3 DEF TypeOK
    <3> QED BY <3>1, <3>2, <3>3, <3>4
  <2>3. \A u \in Thread : u = t
    BY DEF Serial
  <2> QED BY <2>1, <2>2, <2>3 DEF HighRiskIsEarned
<1>2. ASSUME NEW t \in Thread, stage'[t] # "done" PROVE HighRiskIsEarned'
  BY <1>2 DEF HighRiskIsEarned, Serial
<1>3. ASSUME NEW t \in Thread,
             \/ Evaluate(t) \/ EvaluateFails(t) \/ ResetAfterGap(t) \/ Anchor(t) \/ Stamp(t)
      PROVE  stage'[t] # "done"
  BY <1>3 DEF Evaluate, EvaluateFails, ResetAfterGap, Anchor, Stamp, Goto, TypeOK
<1>4. CASE Tick
  BY <1>4 DEF Tick, HighRiskIsEarned, requestVars
<1>5. CASE Restart
  BY <1>5 DEF Restart, HighRiskIsEarned
<1>6. CASE UNCHANGED vars
  BY <1>6 DEF vars, requestVars, HighRiskIsEarned
<1> QED BY <1>1, <1>2, <1>3, <1>4, <1>5, <1>6 DEF Next, ThreadStep

(* HIGH_RISK is earned by three categories abnormal for long enough, for   *)
(* every length of time and of gap, as long as no two requests of a PC     *)
(* overlap.                                                                *)
THEOREM SerialRiskEarned ==
  ASSUME Serial
  PROVE  Spec => []HighRiskIsEarned
<1>1. Init => TypeOK /\ AnchorsOK /\ CountedOK /\ HighRiskIsEarned
  <2>1. 0 \in -MaxTime .. Cap /\ 0 \in 0 .. MaxTime /\ 1 \in Time /\ 0 \in 0 .. MaxRestarts
    BY GatingAssumption DEF Time
  <2> QED BY <2>1 DEF Init, TypeOK, AnchorsOK, CountedOK, HighRiskIsEarned, NoAnchors
<1>2. Serial
  OBVIOUS
<1>3. Serial /\ TypeOK /\ AnchorsOK /\ CountedOK /\ HighRiskIsEarned /\ [Next]_vars
        => (TypeOK /\ AnchorsOK /\ CountedOK /\ HighRiskIsEarned)'
  BY TypeNext, AnchorsNext, CountedNext, EarnedNext
<1>4. TypeOK /\ AnchorsOK /\ CountedOK /\ HighRiskIsEarned /\ [Next]_vars
        => (TypeOK /\ AnchorsOK /\ CountedOK /\ HighRiskIsEarned)'
  BY <1>2, <1>3
<1> QED BY <1>1, <1>4, PTL DEF Spec
-----------------------------------------------------------------------------
(* The anchors against the whole sequence of observations.                 *)

UnbrokenIn(q, i, c) ==
  /\ \A j \in i .. Len(q) : q[j].cats >= c
  /\ \A j \in i .. Len(q) - 1 : q[j + 1].at - q[j].at <= GapReset

(* s is when the unbroken run of level k that ends q began.                *)
Earliest(k, s, q) ==
  /\ \E i \in DOMAIN q : q[i].at = s /\ UnbrokenIn(q, i, k)
  /\ \A j \in DOMAIN q : UnbrokenIn(q, j, k) => q[j].at >= s

Reached(k, q) == q # <<>> /\ q[Len(q)].cats >= k

AnchoredTo(q) ==
  \A k \in Level :
     IF Reached(k, q) THEN since[k] # None /\ Earliest(k, since[k], q) ELSE since[k] = None

(* What a further observation does to an unbroken run.                     *)
LEMMA UnbrokenAppend ==
  ASSUME NEW q \in Seq([at : Time, cats : 0 .. 3]), NEW e \in [at : Time, cats : 0 .. 3],
         NEW c \in Level
  PROVE  LET p == Append(q, e) IN
         /\ \A i \in DOMAIN q :
               UnbrokenIn(p, i, c) <=> /\ UnbrokenIn(q, i, c)
                                       /\ e.cats >= c
                                       /\ e.at - q[Len(q)].at <= GapReset
         /\ UnbrokenIn(p, Len(p), c) <=> e.cats >= c
<1> DEFINE p == Append(q, e)
<1>1. /\ Len(p) = Len(q) + 1 /\ Len(q) \in Nat
      /\ p[Len(q) + 1] = e /\ \A j \in 1 .. Len(q) : p[j] = q[j]
      /\ DOMAIN q = 1 .. Len(q)
  OBVIOUS
<1> HIDE DEF p
<1>2. ASSUME NEW i \in DOMAIN q
      PROVE  UnbrokenIn(p, i, c) <=> /\ UnbrokenIn(q, i, c)
                                     /\ e.cats >= c
                                     /\ e.at - q[Len(q)].at <= GapReset
  <2>1. /\ i \in 1 .. Len(q)
        /\ \A j \in i .. Len(q) : j \in 1 .. Len(q) /\ j \in i .. Len(p)
        /\ \A j \in i .. Len(p) : j \in i .. Len(q) \/ j = Len(q) + 1
        /\ Len(q) + 1 \in i .. Len(p) /\ Len(p) - 1 = Len(q)
    BY <1>1, <1>2
  <2>2. (\A j \in i .. Len(p) : p[j].cats >= c)
          <=> (\A j \in i .. Len(q) : q[j].cats >= c) /\ e.cats >= c
    BY <1>1, <2>1
  <2>3. /\ \A j \in i .. Len(q) - 1 : /\ j \in 1 .. Len(q) /\ j + 1 \in 1 .. Len(q)
                                      /\ j \in i .. Len(q)
        /\ \A j \in i .. Len(q) : j \in i .. Len(q) - 1 \/ j = Len(q)
        /\ Len(q) \in i .. Len(q) /\ Len(q) \in 1 .. Len(q)
    BY <2>1
  <2>4. (\A j \in i .. Len(p) - 1 : p[j + 1].at - p[j].at <= GapReset)
          <=> /\ \A j \in i .. Len(q) - 1 : q[j + 1].at - q[j].at <= GapReset
              /\ e.at - q[Len(q)].at <= GapReset
    BY <1>1, <2>1, <2>3
  <2> QED BY <2>2, <2>4 DEF UnbrokenIn
<1>3. UnbrokenIn(p, Len(p), c) <=> e.cats >= c
  <2>1. /\ \A j \in Len(p) .. Len(p) : j = Len(p)
        /\ Len(p) \in Len(p) .. Len(p)
        /\ Len(p) .. Len(p) - 1 = {}
    BY <1>1
  <2> QED BY <1>1, <2>1 DEF UnbrokenIn
<1> QED BY <1>2, <1>3 DEF p

(* Times never go back.                                                    *)
TimesOK ==
  /\ \A i, j \in DOMAIN seen : i <= j => seen[i].at <= seen[j].at
  /\ \A i \in DOMAIN seen : seen[i].at <= now
  /\ \A t \in Thread :
        /\ at[t] <= now
        /\ stage[t] \in {"gap", "anchor"} => \A i \in DOMAIN seen : seen[i].at <= at[t]

Newest == seen[Len(seen)]

LastOK ==
  (\A t \in Thread : stage[t] # "stamp") => lastTs = IF seen = <<>> THEN 0 ELSE Newest.at

SinceOK ==
  /\ (\A t \in Thread : stage[t] # "anchor") => AnchoredTo(seen)
  /\ \A t \in Thread : stage[t] = "anchor" =>
        IF seen # <<>> /\ at[t] - Newest.at > GapReset
        THEN since = NoAnchors ELSE AnchoredTo(seen)

JudgedOK ==
  \A t \in Thread : stage[t] \in {"stamp", "judge", "done"} =>
     seen # <<>> /\ Newest.at = at[t] /\ Newest.cats = cats[t]

SerialInv == TimesOK /\ LastOK /\ SinceOK /\ JudgedOK /\ SustainedIsObserved

LEMMA AnchorTracks ==
  ASSUME Serial, TypeOK, TimesOK, SinceOK, NEW t \in Thread, Anchor(t)
  PROVE  TimesOK' /\ LastOK' /\ SinceOK' /\ JudgedOK'
<1> DEFINE e == [at |-> at[t], cats |-> cats[t]]
           p == Append(seen, e)
<1>1. /\ seen' = p /\ since' = Anchors(cats[t], at[t])
      /\ UNCHANGED <<at, cats, now>> /\ stage[t] = "anchor" /\ stage'[t] = "stamp"
      /\ seen \in Seq([at : Time, cats : 0 .. 3]) /\ e \in [at : Time, cats : 0 .. 3]
      /\ e.at = at[t] /\ e.cats = cats[t] /\ at[t] \in Time /\ cats[t] \in 0 .. 3
      /\ now \in Time
  BY DEF Anchor, TypeOK, requestVars, Goto
<1> HIDE DEF e
<1>2. /\ Len(p) = Len(seen) + 1 /\ Len(seen) \in Nat /\ DOMAIN seen = 1 .. Len(seen)
      /\ DOMAIN p = 1 .. Len(seen) + 1
      /\ p[Len(seen) + 1] = e /\ \A j \in 1 .. Len(seen) : p[j] = seen[j]
      /\ p # <<>> /\ (seen # <<>> => Len(seen) \in 1 .. Len(seen))
      /\ \A i \in DOMAIN seen : seen[i].at \in Time /\ seen[i].at \in Int
      /\ at[t] \in Int /\ GapReset \in Int
  <2> DEFINE S == [at : Time, cats : 0 .. 3]
  <2>1. seen \in Seq(S) /\ e \in S
    BY <1>1
  <2>2. \A x \in S : x.at \in Time
    OBVIOUS
  <2>3. at[t] \in Int /\ GapReset \in Int /\ \A x \in Time : x \in Int
    BY <1>1, GatingAssumption DEF Time
  <2> HIDE DEF S
  <2>4. /\ Len(p) = Len(seen) + 1 /\ Len(seen) \in Nat /\ DOMAIN seen = 1 .. Len(seen)
        /\ DOMAIN p = 1 .. Len(seen) + 1
        /\ p[Len(seen) + 1] = e /\ \A j \in 1 .. Len(seen) : p[j] = seen[j]
    BY <2>1
  <2>5. p # <<>> /\ (seen # <<>> => Len(seen) \in 1 .. Len(seen))
    BY <2>1, <2>4
  <2>6. \A i \in DOMAIN seen : seen[i] \in S
    BY <2>1
  <2> QED BY <2>2, <2>3, <2>4, <2>5, <2>6
<1>3. ASSUME NEW k \in Level
      PROVE  /\ \A i \in DOMAIN seen :
                   UnbrokenIn(p, i, k) <=> /\ UnbrokenIn(seen, i, k)
                                           /\ e.cats >= k
                                           /\ e.at - seen[Len(seen)].at <= GapReset
             /\ UnbrokenIn(p, Len(p), k) <=> e.cats >= k
  BY <1>1, UnbrokenAppend
<1> HIDE DEF p
<1>4. \A u \in Thread : u = t
  BY DEF Serial
<1>5. Time \subseteq Int
  BY DEF Time
<1>6. TimesOK'
  <2>1. ASSUME NEW i \in DOMAIN p, NEW j \in DOMAIN p, i <= j
        PROVE  p[i].at <= p[j].at
    <3>1. CASE j \in 1 .. Len(seen)
      <4>1. i \in 1 .. Len(seen)
        BY <1>2, <2>1, <3>1
      <4> QED BY <1>2, <2>1, <3>1, <4>1 DEF TimesOK
    <3>2. CASE j = Len(seen) + 1
      <4>1. CASE i \in 1 .. Len(seen)
        BY <1>1, <1>2, <3>2, <4>1 DEF TimesOK
      <4>2. CASE i = Len(seen) + 1
        <5>1. p[i].at = at[t] /\ p[j].at = at[t]
          BY <1>1, <1>2, <3>2, <4>2
        <5> QED BY <1>2, <5>1
      <4> QED BY <1>2, <4>1, <4>2
    <3> QED BY <1>2, <3>1, <3>2
  <2>2. \A i \in DOMAIN p : p[i].at <= now
    BY <1>1, <1>2 DEF TimesOK
  <2>3. at'[t] <= now' /\ stage'[t] \notin {"gap", "anchor"}
    BY <1>1 DEF TimesOK
  <2> QED BY <1>1, <1>4, <2>1, <2>2, <2>3 DEF TimesOK
<1>7. LastOK' /\ JudgedOK'
  <2>1. seen' # <<>> /\ seen'[Len(seen')] = e /\ stage'[t] = "stamp"
    BY <1>1, <1>2
  <2> QED BY <1>1, <1>4, <2>1 DEF LastOK, JudgedOK, Newest
<1>8. ASSUME NEW k \in Level
      PROVE  IF Reached(k, p) THEN since'[k] # None /\ Earliest(k, since'[k], p)
             ELSE since'[k] = None
  <2>1. Reached(k, p) <=> cats[t] >= k
    BY <1>1, <1>2 DEF Reached
  <2>2. CASE ~(cats[t] >= k)
    <3>1. k > cats[t]
      BY <1>1, <2>2 DEF Level
    <3> QED BY <1>1, <2>1, <2>2, <3>1 DEF Anchors
  <2>3. CASE cats[t] >= k
    <3>1. since'[k] = IF since[k] = None THEN at[t] ELSE since[k]
      BY <1>1, <2>3 DEF Anchors, Level
    <3>2. at[t] # None
      BY <1>1, GatingAssumption DEF Time
    <3>3. CASE since[k] = None
      <4>1. Len(p) \in DOMAIN p /\ p[Len(p)].at = at[t] /\ UnbrokenIn(p, Len(p), k)
        BY <1>1, <1>2, <1>3, <2>3
      <4>2. ASSUME NEW j \in DOMAIN seen, UnbrokenIn(p, j, k) PROVE FALSE
        <5>1. UnbrokenIn(seen, j, k) /\ at[t] - seen[Len(seen)].at <= GapReset
          BY <1>1, <1>3, <4>2
        <5>2. seen # <<>> /\ Len(seen) \in j .. Len(seen)
          BY <1>2
        <5>3. Reached(k, seen)
          BY <5>1, <5>2 DEF Reached, UnbrokenIn
        <5>4. ~(at[t] - Newest.at > GapReset)
          <6> DEFINE n == seen[Len(seen)].at
          <6>1. n \in Int /\ at[t] \in Int /\ GapReset \in Int /\ at[t] - n <= GapReset
            BY <1>2, <5>1, <5>2
          <6> HIDE DEF n
          <6>2. ~(at[t] - n > GapReset)
            BY <6>1
          <6> QED BY <6>2 DEF Newest, n
        <5>5. AnchoredTo(seen)
          BY <1>1, <5>4 DEF SinceOK
        <5> QED BY <3>3, <5>3, <5>5 DEF AnchoredTo
      <4>3. \A j \in DOMAIN p : UnbrokenIn(p, j, k) => p[j].at >= at[t]
        <5> SUFFICES ASSUME NEW j \in DOMAIN p, UnbrokenIn(p, j, k) PROVE p[j].at >= at[t]
          OBVIOUS
        <5>1. j = Len(p)
          BY <1>2, <4>2
        <5>2. at[t] \in Int /\ at[t] >= at[t]
          BY <1>2
        <5>3. p[j].at = at[t]
          BY <4>1, <5>1
        <5> QED BY <5>2, <5>3
      <4> QED BY <2>1, <2>3, <3>1, <3>2, <3>3, <4>1, <4>3 DEF Earliest
    <3>4. CASE since[k] # None
      <4>1. since # NoAnchors
        BY <3>4 DEF NoAnchors
      <4>2. AnchoredTo(seen) /\ ~(seen # <<>> /\ at[t] - Newest.at > GapReset)
        BY <1>1, <4>1 DEF SinceOK
      <4>3. Reached(k, seen) /\ Earliest(k, since[k], seen)
        BY <3>4, <4>2 DEF AnchoredTo
      <4>4. e.at - seen[Len(seen)].at <= GapReset
        <5> DEFINE n == seen[Len(seen)].at
        <5>1. /\ n \in Int /\ at[t] \in Int /\ GapReset \in Int
              /\ ~(at[t] - n > GapReset)
          BY <1>2, <4>2, <4>3 DEF Newest, Reached
        <5> HIDE DEF n
        <5>2. at[t] - n <= GapReset
          BY <5>1
        <5> QED BY <1>1, <5>2 DEF n
      <4>5. PICK i \in DOMAIN seen : seen[i].at = since[k] /\ UnbrokenIn(seen, i, k)
        BY <4>3 DEF Earliest
      <4>6. i \in DOMAIN p /\ p[i].at = since[k] /\ UnbrokenIn(p, i, k)
        BY <1>1, <1>2, <1>3, <2>3, <4>4, <4>5
      <4>7. \A j \in DOMAIN p : UnbrokenIn(p, j, k) => p[j].at >= since[k]
        <5> SUFFICES ASSUME NEW j \in DOMAIN p, UnbrokenIn(p, j, k)
                     PROVE  p[j].at >= since[k]
          OBVIOUS
        <5>1. CASE j \in DOMAIN seen
          BY <1>2, <1>3, <4>3, <5>1 DEF Earliest
        <5>2. CASE j \notin DOMAIN seen
          <6>1. j = Len(seen) + 1 /\ p[j].at = at[t]
            BY <1>1, <1>2, <5>2
          <6>2. since[k] <= at[t] /\ since[k] \in Time
            BY <1>1, <1>2, <4>5 DEF TimesOK
          <6> QED BY <1>1, <1>5, <6>1, <6>2
        <5> QED BY <5>1, <5>2
      <4> QED BY <2>1, <2>3, <3>1, <3>4, <4>6, <4>7 DEF Earliest
    <3> QED BY <3>3, <3>4
  <2> QED BY <2>2, <2>3
<1>9. SinceOK'
  <2>1. AnchoredTo(seen)'
    BY <1>1, <1>8 DEF AnchoredTo
  <2> QED BY <1>1, <1>4, <2>1 DEF SinceOK
<1> QED BY <1>6, <1>7, <1>9
-----------------------------------------------------------------------------
(* The other steps leave the observations, but for a restart.              *)
LEMMA TracksNext ==
  ASSUME Serial, TypeOK, TimesOK, LastOK, SinceOK, JudgedOK, [Next]_vars
  PROVE  TimesOK' /\ LastOK' /\ SinceOK' /\ JudgedOK'
<1>0. ASSUME NEW t \in Thread PROVE \A u \in Thread : u = t
  BY DEF Serial
<1>a. /\ now \in Int /\ \A t \in Thread : at[t] \in Int
      /\ \A i \in DOMAIN seen : seen[i].at \in Int
  <2> DEFINE S == [at : Time, cats : 0 .. 3]
  <2>1. \A x \in Time : x \in Int
    BY GatingAssumption DEF Time
  <2>2. seen \in Seq(S) /\ \A x \in S : x.at \in Time
    BY DEF TypeOK
  <2> HIDE DEF S
  <2>3. \A i \in DOMAIN seen : seen[i] \in S
    BY <2>2
  <2> QED BY <2>1, <2>2, <2>3 DEF TypeOK
<1>1. ASSUME NEW t \in Thread, Evaluate(t)
      PROVE  TimesOK' /\ LastOK' /\ SinceOK' /\ JudgedOK'
  <2>1. /\ at'[t] = now /\ UNCHANGED <<now, since, lastTs, seen>>
        /\ stage[t] \in {"idle", "done"} /\ stage'[t] = "gap"
    BY <1>1 DEF Evaluate, Goto, TypeOK
  <2>2. TimesOK'
    BY <1>0, <1>a, <2>1 DEF TimesOK
  <2> QED BY <1>0, <2>1, <2>2 DEF LastOK, SinceOK, JudgedOK, AnchoredTo, Newest
<1>2. ASSUME NEW t \in Thread, EvaluateFails(t)
      PROVE  TimesOK' /\ LastOK' /\ SinceOK' /\ JudgedOK'
  <2>1. /\ UNCHANGED <<now, at, cats, since, lastTs, seen>>
        /\ stage[t] \in {"idle", "done"} /\ stage'[t] = "idle"
    BY <1>2 DEF EvaluateFails, Goto, TypeOK
  <2> QED BY <1>0, <2>1 DEF TimesOK, LastOK, SinceOK, JudgedOK, AnchoredTo, Newest
<1>3. ASSUME NEW t \in Thread, ResetAfterGap(t)
      PROVE  TimesOK' /\ LastOK' /\ SinceOK' /\ JudgedOK'
  <2>1. /\ UNCHANGED <<now, at, cats, lastTs, seen>>
        /\ stage[t] = "gap" /\ stage'[t] = "anchor"
        /\ since' = IF at[t] - lastTs > GapReset THEN NoAnchors ELSE since
    BY <1>3 DEF ResetAfterGap, Goto, TypeOK, requestVars
  <2>2. TimesOK' /\ LastOK' /\ JudgedOK'
    BY <1>0, <2>1 DEF TimesOK, LastOK, JudgedOK, Newest
  <2>3. AnchoredTo(seen) /\ lastTs = IF seen = <<>> THEN 0 ELSE Newest.at
    BY <1>0, <2>1 DEF SinceOK, LastOK
  <2>4. CASE seen = <<>>
    <3>1. since = NoAnchors
      <4>1. \A k \in Level : since[k] = None
        BY <2>3, <2>4 DEF AnchoredTo, Reached
      <4> QED BY <4>1 DEF TypeOK, NoAnchors
    <3>2. AnchoredTo(seen)'
      BY <2>1, <2>3, <3>1 DEF AnchoredTo
    <3> QED BY <1>0, <2>1, <2>2, <2>4, <3>2 DEF SinceOK
  <2>5. CASE seen # <<>>
    <3>1. lastTs = Newest.at
      BY <2>3, <2>5
    <3>2. CASE at[t] - lastTs > GapReset
      <4>1. since' = NoAnchors /\ at[t] - Newest.at > GapReset
        BY <2>1, <3>1, <3>2
      <4> QED BY <1>0, <2>1, <2>2, <2>5, <4>1 DEF SinceOK, Newest
    <3>3. CASE ~(at[t] - lastTs > GapReset)
      <4>1. since' = since /\ ~(at[t] - Newest.at > GapReset)
        BY <2>1, <3>1, <3>3
      <4>2. AnchoredTo(seen)'
        BY <2>1, <2>3, <4>1 DEF AnchoredTo
      <4> QED BY <1>0, <2>1, <2>2, <4>1, <4>2 DEF SinceOK, Newest
    <3> QED BY <3>2, <3>3
  <2> QED BY <2>4, <2>5
<1>4. ASSUME NEW t \in Thread, Anchor(t)
      PROVE  TimesOK' /\ LastOK' /\ SinceOK' /\ JudgedOK'
  BY <1>4, AnchorTracks
<1>5. ASSUME NEW t \in Thread, Stamp(t)
      PROVE  TimesOK' /\ LastOK' /\ SinceOK' /\ JudgedOK'
  <2>1. /\ UNCHANGED <<now, at, cats, since, seen>> /\ lastTs' = at[t]
        /\ stage[t] = "stamp" /\ stage'[t] = "judge"
    BY <1>5 DEF Stamp, Goto, TypeOK, requestVars
  <2>2. seen # <<>> /\ Newest.at = at[t]
    BY <2>1 DEF JudgedOK
  <2> QED BY <1>0, <2>1, <2>2 DEF TimesOK, LastOK, SinceOK, JudgedOK, AnchoredTo, Newest
<1>6. ASSUME NEW t \in Thread, Judge(t)
      PROVE  TimesOK' /\ LastOK' /\ SinceOK' /\ JudgedOK'
  <2>1. /\ UNCHANGED <<now, at, cats, since, lastTs, seen>>
        /\ stage[t] = "judge" /\ stage'[t] = "done"
    BY <1>6 DEF Judge, Goto, TypeOK
  <2> QED BY <1>0, <2>1 DEF TimesOK, LastOK, SinceOK, JudgedOK, AnchoredTo, Newest
<1>7. CASE Tick
  <2>1. UNCHANGED <<since, lastTs, stage, at, cats, seen>> /\ now' = now + 1
    BY <1>7 DEF Tick, requestVars
  <2>2. TimesOK'
    BY <1>a, <2>1 DEF TimesOK
  <2> QED BY <2>1, <2>2 DEF LastOK, SinceOK, JudgedOK, AnchoredTo, Newest
<1>8. CASE Restart
  <2>1. /\ since' = NoAnchors /\ lastTs' = 0 /\ seen' = <<>> /\ UNCHANGED <<now, at>>
        /\ \A t \in Thread : stage'[t] = "idle"
    BY <1>8 DEF Restart
  <2>2. AnchoredTo(seen)'
    BY <2>1 DEF AnchoredTo, Reached, NoAnchors
  <2> QED BY <2>1, <2>2 DEF TimesOK, LastOK, SinceOK, JudgedOK
<1>9. CASE UNCHANGED vars
  BY <1>9 DEF vars, requestVars, TimesOK, LastOK, SinceOK, JudgedOK, AnchoredTo, Newest
<1> QED BY <1>1, <1>2, <1>3, <1>4, <1>5, <1>6, <1>7, <1>8, <1>9 DEF Next, ThreadStep

(* The largest of the levels up to the count is the count.                 *)
LEMMA MaxUpTo ==
  ASSUME NEW c \in Level PROVE Max(1 .. c) = c
<1>1. c \in 1 .. c /\ \A y \in 1 .. c : c >= y
  BY DEF Level
<1>2. \A x \in 1 .. c : (\A y \in 1 .. c : x >= y) => x = c
  BY <1>1 DEF Level
<1> QED BY <1>1, <1>2 DEF Max

(* What a request is told is how long its level has been observed.         *)
LEMMA JudgedIsObserved ==
  ASSUME Serial, TypeOK, TimesOK, SinceOK, JudgedOK, NEW t \in Thread, stage[t] = "judge"
  PROVE  Sustained(t) = IF cats[t] = 0 THEN 0 ELSE Min({Observed(cats[t]), Cap})
<1>1. cats[t] \in 0 .. 3
  BY DEF TypeOK
<1>2. CASE cats[t] = 0
  <2>1. Anchored(t) = {}
    BY <1>2 DEF Anchored
  <2> QED BY <1>2, <2>1 DEF Sustained
<1>3. CASE cats[t] # 0
  <2> DEFINE c == cats[t]
             s == since[c]
             L == Len(seen)
             Runs == {seen[L].at - seen[i].at : i \in {j \in DOMAIN seen : Unbroken(j, c)}}
  <2>1. c \in Level
    BY <1>1, <1>3 DEF Level
  <2>2. AnchoredTo(seen)
    <3>1. \A u \in Thread : u = t
      BY DEF Serial
    <3> QED BY <3>1 DEF SinceOK
  <2>3. seen # <<>> /\ Newest.at = at[t] /\ Newest.cats = c
    BY DEF JudgedOK
  <2>4. \A k \in Level : k <= c => Reached(k, seen)
    BY <1>1, <2>3 DEF Reached, Newest, Level
  <2>5. \A k \in Level : k <= c => since[k] # None
    BY <2>2, <2>4 DEF AnchoredTo
  <2>6. Anchored(t) = 1 .. c
    BY <1>1, <2>5 DEF Anchored, Level
  <2>7. Max(Anchored(t)) = c /\ Anchored(t) # {}
    <3> HIDE DEF c
    <3>1. Max(1 .. c) = c
      BY <2>1, MaxUpTo
    <3>2. c \in 1 .. c
      BY <2>1 DEF Level
    <3> QED BY <2>6, <3>1, <3>2
  <2>8. Earliest(c, s, seen)
    BY <2>1, <2>2, <2>4 DEF AnchoredTo, Level
  <2>9. \A i \in DOMAIN seen : seen[i].at \in Int
    <3> DEFINE S == [at : Time, cats : 0 .. 3]
    <3>1. \A x \in Time : x \in Int
      BY GatingAssumption DEF Time
    <3>2. seen \in Seq(S) /\ \A x \in S : x.at \in Time
      BY DEF TypeOK
    <3> HIDE DEF S
    <3>3. \A i \in DOMAIN seen : seen[i] \in S
      BY <3>2
    <3> QED BY <3>1, <3>2, <3>3
  <2>10. L \in DOMAIN seen
    BY <2>3 DEF TypeOK
  <2>11. \A j : Unbroken(j, c) <=> UnbrokenIn(seen, j, c)
    BY DEF Unbroken, UnbrokenIn
  <2>12. PICK i \in DOMAIN seen : seen[i].at = s /\ UnbrokenIn(seen, i, c)
    BY <2>8 DEF Earliest
  <2>13. \A j \in DOMAIN seen : UnbrokenIn(seen, j, c) => seen[j].at >= s
    BY <2>8 DEF Earliest
  <2> DEFINE d == seen[L].at - s
  <2>14. d \in Int /\ d >= 0 /\ d \in Runs
    <3>1. i <= L
      BY <2>10, <2>12 DEF TypeOK
    <3>2. seen[i].at <= seen[L].at
      BY <2>10, <3>1 DEF TimesOK
    <3>3. seen[i].at \in Int /\ seen[L].at \in Int /\ seen[i].at = s
      BY <2>9, <2>10, <2>12
    <3>4. d \in Runs
      BY <2>11, <2>12, <3>3
    <3> QED BY <3>2, <3>3, <3>4
  <2>15. \A x \in Runs : x \in Int /\ x <= d
    <3> SUFFICES ASSUME NEW j \in DOMAIN seen, Unbroken(j, c)
                 PROVE  seen[L].at - seen[j].at \in Int /\ seen[L].at - seen[j].at <= d
      OBVIOUS
    <3>1. seen[j].at >= s /\ seen[j].at \in Int /\ seen[L].at \in Int /\ s \in Int
      BY <2>9, <2>10, <2>11, <2>12, <2>13
    <3> QED BY <3>1
  <2>16. Observed(c) = Max({0} \cup Runs)
    BY DEF Observed
  <2> HIDE DEF d, Runs
  <2>17. Max({0} \cup Runs) = d
    <3>1. d \in {0} \cup Runs /\ \A y \in {0} \cup Runs : y \in Int /\ d >= y
      BY <2>14, <2>15
    <3>2. \A x \in {0} \cup Runs : (\A y \in {0} \cup Runs : x >= y) => x = d
      BY <2>14, <3>1
    <3> QED BY <3>1, <3>2 DEF Max
  <2>18. Sustained(t) = Min({d, Cap})
    BY <2>3, <2>7 DEF Sustained, Newest, d
  <2> QED BY <1>3, <2>16, <2>17, <2>18
<1> QED BY <1>2, <1>3

LEMMA ObservedNext ==
  ASSUME Serial, TypeOK, TimesOK, SinceOK, JudgedOK, SustainedIsObserved, [Next]_vars
  PROVE  SustainedIsObserved'
<1>0. ASSUME NEW t \in Thread PROVE \A u \in Thread : u = t
  BY DEF Serial
<1>1. ASSUME NEW t \in Thread, Judge(t) PROVE SustainedIsObserved'
  <2>1. /\ stage[t] = "judge" /\ seen' = seen /\ cats' = cats
        /\ sustained'[t] = Sustained(t)
    BY <1>1 DEF Judge, TypeOK
  <2>2. \A c : Observed(c)' = Observed(c)
    BY <2>1 DEF Observed, Unbroken
  <2>3. sustained'[t] = IF cats[t] = 0 THEN 0 ELSE Min({Observed(cats[t]), Cap})
    BY <2>1, JudgedIsObserved
  <2>4. Observed(cats[t])' = Observed(cats[t])
    BY <2>1, <2>2
  <2> QED BY <1>0, <2>1, <2>3, <2>4 DEF SustainedIsObserved
<1>2. ASSUME NEW t \in Thread, stage'[t] # "done" PROVE SustainedIsObserved'
  BY <1>0, <1>2 DEF SustainedIsObserved
<1>3. ASSUME NEW t \in Thread,
             \/ Evaluate(t) \/ EvaluateFails(t) \/ ResetAfterGap(t) \/ Anchor(t) \/ Stamp(t)
      PROVE  stage'[t] # "done"
  BY <1>3 DEF Evaluate, EvaluateFails, ResetAfterGap, Anchor, Stamp, Goto, TypeOK
<1>4. ASSUME UNCHANGED <<stage, seen, cats, sustained>> PROVE SustainedIsObserved'
  <2>1. \A c : Observed(c)' = Observed(c)
    BY <1>4 DEF Observed, Unbroken
  <2>2. \A t \in Thread : Observed(cats[t])' = Observed(cats[t])
    BY <1>4, <2>1
  <2> QED BY <1>4, <2>2 DEF SustainedIsObserved
<1>5. CASE Restart
  BY <1>5 DEF Restart, SustainedIsObserved
<1> QED BY <1>1, <1>2, <1>3, <1>4, <1>5
       DEF Next, ThreadStep, Tick, vars, requestVars

(* As long as no two requests of a PC overlap, the anchors give what the   *)
(* whole sequence of observations gives: how long as many categories as    *)
(* now have been abnormal without a break, for every gap and every cap.    *)
THEOREM AnchorsTellTheRun ==
  ASSUME Serial
  PROVE  Spec => []SustainedIsObserved
<1>1. Init => TypeOK /\ TimesOK /\ LastOK /\ SinceOK /\ JudgedOK /\ SustainedIsObserved
  <2>1. 0 \in -MaxTime .. Cap /\ 0 \in 0 .. MaxTime /\ 1 \in Time /\ 0 \in 0 .. MaxRestarts
    BY GatingAssumption DEF Time
  <2>2. Init => TypeOK /\ TimesOK /\ LastOK /\ JudgedOK /\ SustainedIsObserved
    BY <2>1 DEF Init, TypeOK, TimesOK, LastOK, JudgedOK, SustainedIsObserved, NoAnchors
  <2>3. Init => SinceOK
    BY DEF Init, SinceOK, AnchoredTo, Reached, NoAnchors
  <2> QED BY <2>2, <2>3
<1>2. Serial
  OBVIOUS
<1>3. TypeOK /\ TimesOK /\ LastOK /\ SinceOK /\ JudgedOK /\ SustainedIsObserved /\ [Next]_vars
        => (TypeOK /\ TimesOK /\ LastOK /\ SinceOK /\ JudgedOK /\ SustainedIsObserved)'
  BY <1>2, TypeNext, TracksNext, ObservedNext
<1> QED BY <1>1, <1>3, PTL DEF Spec
=============================================================================
