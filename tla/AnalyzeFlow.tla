----------------------------- MODULE AnalyzeFlow -----------------------------
(***************************************************************************)
(* api/analyze_router.py for one PC and slot: requests, which a thread     *)
(* pool runs at the same time, take a sample through the rules.  They      *)
(* share, without a lock, the training history, the streaks of bursts and  *)
(* of zero scores, the history of the rule scores and the time of the last *)
(* call of the language model.  DELETE /history removes some of it under   *)
(* them, POST /admin/reload-policy takes the policy away for a moment, and *)
(* the table of the latest samples grows and shrinks with the other PCs.   *)
(***************************************************************************)
EXTENDS SignalRules, ExplainRules

CONSTANTS
    Req,            (* requests that run at the same time                    *)
    Sent,           (* what is sent: per kind of sample a record             *)
                    (* [m |-> the sample, h |-> its history,                 *)
                    (*  g |-> the verdicts that its categories may have]     *)
    RuleWindow,     (* the length of rule_score_history                      *)
    DecayCount,     (* episode_dedupe.episode_decay_after_normal_count       *)
    AiCooldown,     (* episode_dedupe.ai_call_cooldown_seconds               *)
    MaxClock,       (* bound: the clock                                      *)
    MaxEvents,      (* bound: clears, reloads and changes of the fleet       *)
    MaxArrivals     (* bound: requests and such events together              *)

ASSUME FlowAssumption ==
    /\ RuleWindow \in Nat \ {0}
    /\ DecayCount \in Nat /\ AiCooldown \in Nat /\ MinSustained \in Nat
    /\ MlCap \in Int
    /\ MaxClock \in Nat /\ MaxEvents \in Nat /\ MaxArrivals \in Nat
    /\ \A s \in DOMAIN Sent : Sent[s].m.ml \in Int /\ Sent[s].g \subseteq ToSet(Verdicts)
    /\ None \notin Seq(Nat) \cup Int \cup [at : Nat, rank : Nat]

VARIABLES
    clock,
    trained,        (* pc_train_history: "none", "pc" (the PC is there) or   *)
                    (* "slot" (its slot is, too)                             *)
    listed,         (* the PC is in all_pc_latest                            *)
    others,         (* how many other PCs are                                *)
    ruleScores,     (* rule_score_history[key]: scores, or None without one  *)
    zeroStreak,     (* _rule_zero_streak[key]                                *)
    dosStreak,      (* dos_spike_streak[pc_id]                               *)
    aiLast,         (* ai_call_last[pc_id]: None or its time and rank        *)
    cached,         (* _scoring_policy_cache has the policy                  *)
    clearing,       (* a clear is under way                                  *)
    stage,          (* where each request is                                 *)
    input,          (* the kind of its sample                                *)
    signals,        (* its signals                                           *)
    seen,           (* a number that it has read and is about to use         *)
    result,         (* its answer so far                                     *)
    called,         (* when it read the clock for the call, None before      *)
    overlapped,     (* history: what ran beside it                           *)
    calls,          (* history: the calls of the model, in order             *)
    requests,       (* history: requests                                     *)
    events          (* history: clears, reloads and changes of the fleet     *)

storeVars == <<trained, listed, ruleScores, zeroStreak, dosStreak, aiLast>>
outsideVars == <<others, cached, clearing>>
requestVars == <<input, signals, seen, result, called>>
historyVars == <<overlapped, calls, requests, events>>
vars == <<clock, storeVars, outsideVars, stage, requestVars, historyVars>>
-----------------------------------------------------------------------------
NoAnswer == [verdict |-> "NORMAL", severity |-> "NORMAL", alerts |-> <<>>, fastPath |-> FALSE,
             breakdown |-> <<>>, own |-> TRUE, gating |-> "NORMAL"]
Running == {r \in Req : stage[r] \notin {"idle", "answered", "failed"}}

(* The server has loaded its policies, and no PC has reported.             *)
Init ==
    /\ clock = 0
    /\ trained = "none" /\ listed = FALSE
    /\ ruleScores = None /\ zeroStreak = 0 /\ dosStreak = 0 /\ aiLast = None
    /\ others = 0 /\ cached = TRUE /\ clearing = FALSE
    /\ stage = [r \in Req |-> "idle"]
    /\ input = [r \in Req |-> None]
    /\ signals = [r \in Req |-> {}]
    /\ seen = [r \in Req |-> 0]
    /\ result = [r \in Req |-> NoAnswer]
    /\ called = [r \in Req |-> None]
    /\ overlapped = [r \in Req |-> {}]
    /\ calls = <<>> /\ requests = 0 /\ events = 0

Goto(r, s) == stage' = [stage EXCEPT ![r] = s]
Read(r, n) == seen' = [seen EXCEPT ![r] = n]
Answer(r, x) == result' = [result EXCEPT ![r] = x]
Sample(r) == Sent[input[r]].m
History(r) == Sent[input[r]].h

(* Those that run learn of what comes beside them.                         *)
Mark(R, mark) ==
    overlapped' = [q \in Req |-> IF q \in R THEN overlapped[q] \cup {mark} ELSE overlapped[q]]

(* A step of a request that leaves the stores alone.                       *)
Move(r, s) == Goto(r, s) /\ UNCHANGED <<clock, storeVars, outsideVars, historyVars>>

Fail(r) == Move(r, "failed") /\ UNCHANGED requestVars

(* get_scoring_policy: without a cache it may give None or raise           *)
(* (PolicyReload), and each caller has its own way out.                    *)
PolicyFound == IF cached THEN {TRUE} ELSE BOOLEAN
-----------------------------------------------------------------------------
(* update_train_history makes the two levels of its dictionary when they   *)
(* are missing.  It looks for the PC first.                                *)
Receive(r) ==
    /\ r \notin Running
    /\ requests + events < MaxArrivals
    /\ requests' = requests + 1
    /\ \E s \in DOMAIN Sent : input' = [input EXCEPT ![r] = s]
    /\ signals' = [signals EXCEPT ![r] = {}]
    /\ Read(r, 0)
    /\ Answer(r, NoAnswer)
    /\ called' = [called EXCEPT ![r] = None]
    /\ overlapped' = [q \in Req |->
          IF q = r THEN (IF Running = {} THEN {} ELSE {"request"})
                        \cup (IF clearing THEN {"clear"} ELSE {})
                        \cup (IF cached THEN {} ELSE {"reload"})
          ELSE IF q \in Running THEN overlapped[q] \cup {"request"} ELSE overlapped[q]]
    /\ Goto(r, IF trained = "none" THEN "pc" ELSE "slot")
    /\ UNCHANGED <<clock, storeVars, outsideVars, calls, events>>

(* It replaces what another first request of the PC has made meanwhile.    *)
MakePc(r) ==
    /\ stage[r] = "pc"
    /\ trained' = "pc"
    /\ IF trained = "none" THEN UNCHANGED overlapped ELSE Mark(Running \ {r}, "first")
    /\ Goto(r, "slot")
    /\ UNCHANGED <<clock, listed, ruleScores, zeroStreak, dosStreak, aiLast, outsideVars,
                   requestVars, calls, requests, events>>

MakeSlot(r) ==
    /\ stage[r] = "slot"
    /\ trained # "none"
    /\ trained' = "slot"
    /\ Goto(r, "keep")
    /\ UNCHANGED <<clock, listed, ruleScores, zeroStreak, dosStreak, aiLast, outsideVars,
                   requestVars, historyVars>>

(* The sample is kept, and is the latest of the PC.                        *)
KeepSample(r) ==
    /\ stage[r] = "keep"
    /\ trained = "slot"
    /\ listed' = TRUE
    /\ Goto(r, "extract")
    /\ UNCHANGED <<clock, trained, ruleScores, zeroStreak, dosStreak, aiLast, outsideVars,
                   requestVars, historyVars>>

(* KeyError: a level of the dictionary went away between its check and use. *)
KeepFails(r) ==
    /\ \/ stage[r] = "slot" /\ trained = "none"
       \/ stage[r] = "keep" /\ trained # "slot"
    /\ Fail(r)

(* extract_signals counts the bursts in a row; without a policy every      *)
(* burst counts.                                                           *)
Extract(r) ==
    \E found \in PolicyFound :
        LET burst == InboundBurst(Sample(r), History(r), IF found THEN MinInbound ELSE 0)
            least == IF found THEN MinSustained ELSE 1
            streak == Streak(burst, dosStreak)
        IN  /\ stage[r] = "extract"
            /\ dosStreak' = IF streak > MinSustained THEN MinSustained ELSE streak
            /\ signals' = [signals EXCEPT ![r] =
                   ExtractSignals(Sample(r), History(r), DosSpike(burst, streak, least))]
            /\ Goto(r, "score")
            /\ UNCHANGED <<clock, trained, listed, ruleScores, zeroStreak, aiLast, outsideVars,
                           input, seen, result, called, historyVars>>

Score(r) == Adjusted(signals[r], Indicators(signals[r], Sample(r)))

(* calculate_indicators reads the points of the correlations unprotected.  *)
ScoreFails(r) ==
    /\ stage[r] = "score"
    /\ ~cached
    /\ Fail(r)

(* append_rule_score looks for the history and makes a missing one.        *)
LookScores(r) ==
    /\ stage[r] = "score"
    /\ Move(r, IF ruleScores = None THEN "make" ELSE "append")
    /\ UNCHANGED requestVars

MakeScores(r) ==
    /\ stage[r] = "make"
    /\ ruleScores' = <<>>
    /\ Goto(r, "append")
    /\ UNCHANGED <<clock, trained, listed, zeroStreak, dosStreak, aiLast, outsideVars,
                   requestVars, historyVars>>

(* A faulty history: the history is not bounded.                            *)
RecentAll(scores) == scores

(* The score joins the history, the oldest leaves.                         *)
Recent(scores) == IF Len(scores) > RuleWindow THEN Tail(scores) ELSE scores
AppendScore(r) ==
    /\ stage[r] = "append"
    /\ ruleScores # None
    /\ ruleScores' = Recent(Append(ruleScores, Score(r)))
    /\ Goto(r, "decay")
    /\ UNCHANGED <<clock, trained, listed, zeroStreak, dosStreak, aiLast, outsideVars,
                   requestVars, historyVars>>

(* A faulty decay: every score is counted as if it were zero.               *)
DecayAlways(r) ==
    /\ stage[r] = "decay"
    /\ DecayCount > 0
    /\ Read(r, zeroStreak + 1)
    /\ Move(r, "count")
    /\ UNCHANGED <<input, signals, result, called>>

(* A score above zero ends the streak of zeros; another zero is counted    *)
(* from the value that is read here.  Without a policy nothing decays.     *)
Decay(r) ==
    /\ stage[r] = "decay"
    /\ \/ /\ DecayCount = 0 \/ ~cached
          /\ Move(r, "average")
          /\ UNCHANGED requestVars
       \/ /\ DecayCount > 0 /\ Score(r) > 0
          /\ zeroStreak' = 0
          /\ Goto(r, "average")
          /\ UNCHANGED <<clock, trained, listed, ruleScores, dosStreak, aiLast, outsideVars,
                         requestVars, historyVars>>
       \/ /\ DecayCount > 0 /\ Score(r) <= 0
          /\ Read(r, zeroStreak + 1)
          /\ Move(r, "count")
          /\ UNCHANGED <<input, signals, result, called>>

CountZero(r) ==
    /\ stage[r] = "count"
    /\ zeroStreak' = seen[r]
    /\ Read(r, 0)
    /\ Goto(r, IF seen[r] >= DecayCount THEN "empty" ELSE "average")
    /\ UNCHANGED <<clock, trained, listed, ruleScores, dosStreak, aiLast, outsideVars,
                   input, signals, result, called, historyVars>>

(* A faulty decay: the history is removed, not emptied.                     *)
EmptyDeletes(r) ==
    /\ stage[r] = "empty"
    /\ ruleScores' = None
    /\ Goto(r, "reset")
    /\ UNCHANGED <<clock, trained, listed, zeroStreak, dosStreak, aiLast, outsideVars,
                   requestVars, historyVars>>

(* Enough zeros in a row empty the history.                                *)
EmptyHistory(r) ==
    /\ stage[r] = "empty"
    /\ ruleScores # None
    /\ ruleScores' = <<>>
    /\ Goto(r, "reset")
    /\ UNCHANGED <<clock, trained, listed, zeroStreak, dosStreak, aiLast, outsideVars,
                   requestVars, historyVars>>

ResetStreak(r) ==
    /\ stage[r] = "reset"
    /\ zeroStreak' = 0
    /\ Goto(r, "average")
    /\ UNCHANGED <<clock, trained, listed, ruleScores, dosStreak, aiLast, outsideVars,
                   requestVars, historyVars>>

(* KeyError, at the three places that use the history by its key.          *)
ScoresGone(r) ==
    /\ stage[r] \in {"append", "empty", "average"}
    /\ ruleScores = None
    /\ Fail(r)

(* The rest of analyze_pattern.  A score that is no longer in the history  *)
(* is not in the average.  Without a policy nothing is gated.              *)
Counted(r) == Score(r) = 0 \/ \E k \in DOMAIN ruleScores : ruleScores[k] = Score(r)
Average(r) ==
    /\ stage[r] = "average"
    /\ ruleScores # None
    /\ \E found \in PolicyFound :
          LET pattern == AnalyzePattern(signals[r], Sample(r), Weighted(ruleScores), found)
          IN  Answer(r, [ k \in DOMAIN NoAnswer |-> CASE k = "own" -> Counted(r)
                                                      [] k = "gating" -> "NORMAL"
                                                      [] OTHER -> pattern[k] ])
    /\ Move(r, "gate")
    /\ UNCHANGED <<input, signals, seen, called>>

(* classify_verdict reads the thresholds unprotected.                      *)
AverageFails(r) ==
    /\ stage[r] = "average"
    /\ ~cached
    /\ Fail(r)

(* A faulty order: the cap comes before the categories.                     *)
GateCapsFirst(r) ==
    /\ stage[r] = "gate"
    /\ \E g \in Sent[input[r]].g \cup {"NORMAL"} :
           Answer(r, [MergeGating(ApplyNetworkOnlyCap(result[r], signals[r]), g)
                          EXCEPT !.gating = g])
    /\ Move(r, "degrade")
    /\ UNCHANGED <<input, signals, seen, called>>

(* The categories give a verdict of their own (CategoryGating), or NORMAL  *)
(* when they cannot be evaluated; then the cap.                            *)
Gate(r) ==
    /\ stage[r] = "gate"
    /\ \E g \in Sent[input[r]].g \cup {"NORMAL"} :
           Answer(r, [ApplyNetworkOnlyCap(MergeGating(result[r], g), signals[r])
                          EXCEPT !.gating = g])
    /\ Move(r, "degrade")
    /\ UNCHANGED <<input, signals, seen, called>>

(* detect_global_hw_degradation iterates over all_pc_latest: a table that  *)
(* has another size at the end than at the start raises (Fleet has the     *)
(* answer of the iteration).                                               *)
Latest == others + IF listed THEN 1 ELSE 0
BeginIteration(r) ==
    /\ stage[r] = "degrade"
    /\ Read(r, Latest)
    /\ Move(r, "iterate")
    /\ UNCHANGED <<input, signals, result, called>>

EndIteration(r) ==
    /\ stage[r] = "iterate"
    /\ seen[r] = Latest
    /\ Read(r, 0)
    /\ Move(r, "agent")
    /\ UNCHANGED <<input, signals, result, called>>

IterationFails(r) ==
    /\ stage[r] = "iterate"
    /\ seen[r] # Latest
    /\ Fail(r)
-----------------------------------------------------------------------------
(* The model is called for a MEDIUM or HIGH answer, not again within the   *)
(* cooldown unless the severity has risen.  Without a policy there is no   *)
(* cooldown.                                                               *)
SevRank(r) == Rank(Severities, result[r].severity)
Alarming(r) == result[r].severity \in {"MEDIUM", "HIGH"}
Cooldown(found) == IF found THEN AiCooldown ELSE 0

(* A faulty cooldown: a severity that stays the same is enough.             *)
MayCallAgain(r, found) ==
    Cooldown(found) > 0 /\ aiLast # None =>
        clock - aiLast.at >= Cooldown(found) \/ SevRank(r) >= aiLast.rank

MayCall(r, found) ==
    Cooldown(found) > 0 /\ aiLast # None =>
        clock - aiLast.at >= Cooldown(found) \/ SevRank(r) > aiLast.rank

CallAgent(r) ==
    /\ stage[r] = "agent"
    /\ Alarming(r)
    /\ \E found \in PolicyFound : MayCall(r, found)
    /\ called' = [called EXCEPT ![r] = clock]
    /\ calls' = Append(calls, [at |-> clock, rank |-> SevRank(r),
                               alone |-> overlapped[r] \cap {"request", "reload"} = {}])
    /\ Goto(r, "calling")
    /\ UNCHANGED <<clock, storeVars, outsideVars, input, signals, seen, result,
                   overlapped, requests, events>>

SkipAgent(r) ==
    /\ stage[r] = "agent"
    /\ Alarming(r) => \E found \in PolicyFound : ~MayCall(r, found)
    /\ called' = [called EXCEPT ![r] = clock]
    /\ Move(r, "answered")
    /\ UNCHANGED <<input, signals, seen, result>>

(* The call, or the judgment that replaces a failed one, is back.          *)
AgentReturns(r) ==
    /\ stage[r] = "calling"
    /\ aiLast' = [at |-> called[r], rank |-> SevRank(r)]
    /\ Goto(r, "answered")
    /\ UNCHANGED <<clock, trained, listed, ruleScores, zeroStreak, dosStreak, outsideVars,
                   requestVars, historyVars>>
-----------------------------------------------------------------------------
Happens(mark) ==
    /\ events < MaxEvents /\ requests + events < MaxArrivals
    /\ events' = events + 1
    /\ Mark(Running, mark)
    /\ UNCHANGED <<calls, requests>>

(* clear_router: the training history and the latest sample go first, the  *)
(* scores after them, and nothing else of this module.                     *)
ForgetPc ==
    /\ ~clearing
    /\ Happens("clear")
    /\ trained' = "none" /\ listed' = FALSE /\ clearing' = TRUE
    /\ UNCHANGED <<clock, ruleScores, zeroStreak, dosStreak, aiLast, others, cached, stage,
                   requestVars>>

ForgetScores ==
    /\ clearing
    /\ ruleScores' = None /\ clearing' = FALSE
    /\ UNCHANGED <<clock, trained, listed, zeroStreak, dosStreak, aiLast, others, cached, stage,
                   requestVars, historyVars>>

(* reload_policies empties the cache; its own load or that of a reader     *)
(* fills it again with the same policy, and a load that fails never does.  *)
EmptyCache ==
    /\ cached
    /\ Happens("reload")
    /\ cached' = FALSE
    /\ UNCHANGED <<clock, storeVars, others, clearing, stage, requestVars>>

FillCache ==
    /\ ~cached
    /\ cached' = TRUE
    /\ UNCHANGED <<clock, storeVars, others, clearing, stage, requestVars, historyVars>>

(* Another PC reports for the first time, or is cleared.                   *)
FleetChanges ==
    /\ Happens("fleet")
    /\ others' \in {others - 1, others + 1} \cap Nat
    /\ UNCHANGED <<clock, storeVars, cached, clearing, stage, requestVars>>

Tick ==
    /\ clock < MaxClock
    /\ clock' = clock + 1
    /\ UNCHANGED <<storeVars, outsideVars, stage, requestVars, historyVars>>

Train(r) == MakePc(r) \/ MakeSlot(r) \/ KeepSample(r) \/ KeepFails(r)
KeepScore(r) ==
    \/ ScoreFails(r) \/ LookScores(r) \/ MakeScores(r) \/ AppendScore(r)
    \/ Decay(r) \/ CountZero(r) \/ EmptyHistory(r) \/ ResetStreak(r) \/ ScoresGone(r)
Judge(r) == Average(r) \/ AverageFails(r) \/ Gate(r)
Iterate(r) == BeginIteration(r) \/ EndIteration(r) \/ IterationFails(r)
Consult(r) == CallAgent(r) \/ SkipAgent(r) \/ AgentReturns(r)
Outside == ForgetPc \/ ForgetScores \/ EmptyCache \/ FillCache \/ FleetChanges

Next ==
    \/ Outside
    \/ Tick
    \/ \E r \in Req :
          \/ Receive(r) \/ Extract(r)
          \/ Train(r) \/ KeepScore(r) \/ Judge(r) \/ Iterate(r) \/ Consult(r)

Spec == Init /\ [][Next]_vars
-----------------------------------------------------------------------------
Answered == {r \in Req : stage[r] = "answered"}
Observed == Rank(Verdicts, "OBSERVE")
VerdictRank(r) == Rank(Verdicts, result[r].verdict)

(* Every store and every answer has a value of its kind, and the history   *)
(* of scores never outgrows its window.                                    *)
FlowTypeOK ==
    /\ clock \in 0 .. MaxClock
    /\ ruleScores # None => /\ Len(ruleScores) <= RuleWindow
                            /\ \A k \in DOMAIN ruleScores : ruleScores[k] \in Nat
    /\ zeroStreak \in Nat
    /\ dosStreak \in 0 .. MinSustained
    /\ aiLast # None => aiLast.at \in 0 .. clock /\ aiLast.rank \in {3, 4}
    /\ \A r \in Req : /\ result[r].verdict \in ToSet(Verdicts)
                      /\ result[r].severity \in ToSet(Severities)
                      /\ called[r] # None => called[r] \in 0 .. clock

(* An alarm rests on this sample: the average of earlier scores alone      *)
(* never makes one, nor does a single signal.  Either a process is known   *)
(* to mine, or the categories say as much, or enough signals of enough     *)
(* kinds are raised.  Only a request that a reload took the gate away from *)
(* escapes.                                                                *)
AlarmHasOwnEvidence ==
    \A r \in Answered :
        VerdictRank(r) > Observed =>
            \/ "known_miner" \in signals[r]
            \/ Rank(Verdicts, result[r].gating) >= VerdictRank(r)
            \/ Enough(signals[r], result[r].breakdown, Promotion.medium)
            \/ "reload" \in overlapped[r]

(* What only the network says stays an observation, even when the          *)
(* categories had raised it; and the risk axes agree with the cap, which   *)
(* never demotes what they would call mining.                              *)
NetworkAloneNeverAlarms ==
    \A r \in Answered :
        NetworkOnly(signals[r]) /\ ~CapExempt(signals[r]) =>
            /\ VerdictRank(r) <= Observed
            /\ PrimaryType(signals[r]) # "MINING_SUSPICION"

(* The score of a sample is in the average that its verdict is taken from, *)
(* unless another request or a clear came between the two.                 *)
Undisturbed(r) == overlapped[r] \cap {"request", "clear"} = {}
OwnScoreCounts == \A r \in Answered : Undisturbed(r) => result[r].own

(* An analysis fails only for what ran beside it: a clear of its PC, a     *)
(* reload of the policies, a PC that came or went, or a second request     *)
(* that was the first of the PC as well.                                   *)
FailuresHaveCauses ==
    \A r \in Req : stage[r] = "failed" =>
        overlapped[r] \cap {"clear", "reload", "fleet", "first"} # {}

(* As long as no two requests overlap and no reload takes the cooldown     *)
(* away, calls within a cooldown of each other are for severities that     *)
(* rise.                                                                   *)
CallsRiseWithinCooldown ==
    (\A k \in DOMAIN calls : calls[k].alone) =>
        \A j, k \in DOMAIN calls :
            j < k /\ calls[k].at - calls[j].at < AiCooldown => calls[j].rank < calls[k].rank

(* The judgment that replaces a failed call is never milder than the       *)
(* answer it explains.                                                     *)
JudgmentCoversAnswer ==
    \A r \in Answered, degraded \in BOOLEAN :
        Alarming(r) =>
            Rank(Severities, MockJudgment(result[r], degraded)[2]) >= SevRank(r)

(* verdict_classifier.py: "xmrig ... is classified as HIGH_RISK, so this   *)
(* mapping alone makes it HIGH".                                           *)
KnownMinerIsHigh == \A r \in Answered : "known_miner" \in signals[r] => Alarming(r)
=============================================================================
