----------------------------- MODULE SpringIngest -----------------------------
(***************************************************************************)
(* POST /api/metrics on the Spring server: ApiKeyAuthFilter with its       *)
(* throttle of last_seen_at, MetricsController, and MetricsService.ingest, *)
(* which saves the metrics and submits their forward to the ML server      *)
(* inside one transaction.  Forwards and last_seen updates share the pool  *)
(* of MlExecutor; requests are served by threads of their own.             *)
(***************************************************************************)
EXTENDS MlExecutor

CONSTANTS
    Request,     (* bound: the requests of one behaviour                     *)
    Pc,          (* registered PCs                                           *)
    None,        (* no value                                                 *)
    TTL,         (* LastSeenTracker.TTL, in ticks of the clock               *)
    MaxTime,     (* bound: the clock                                         *)
    MaxDbFaults, (* bound: failed inserts, updates and commits               *)
    MaxRestarts  (* bound: restarts of the server                            *)

ASSUME IngestAssumption ==
    /\ Task = {"forward", "touch"} \X Request
    /\ TTL \in Nat \ {0}
    /\ MaxTime \in Nat
    /\ MaxDbFaults \in Nat
    /\ MaxRestarts \in Nat
    /\ None \notin Pc \cup Nat

VARIABLES
    now,         (* the clock                                                *)
    stage,       (* where each request is                                    *)
    pcId,        (* the request's PC, found by its API key                   *)
    body,        (* what the request carries                                 *)
    stamp,       (* the time the request saw in shouldUpdate, then passed on *)
    status,      (* the answer                                               *)
    seen,        (* LastSeenTracker.cache                                    *)
    lastSeen,    (* pc_info.last_seen_at                                     *)
    rows,        (* metrics_history: the requests whose row is committed     *)
    judged,      (* requests whose metrics reached the ML server             *)
    skipped,     (* forwards given up, with a counter: missing field, error  *)
    lost,        (* history: accepted tasks that a restart threw away        *)
    dbFaults,    (* history: failed inserts, updates and commits             *)
    restarts     (* history: restarts                                        *)

requestVars == <<stage, pcId, body, stamp, status>>
tableVars == <<lastSeen, rows>>
historyVars == <<lost, dbFaults, restarts>>
vars == <<poolVars, now, requestVars, seen, tableVars, judged, skipped, historyVars>>
-----------------------------------------------------------------------------
Body == {"whole", "partial", "invalid"}
Time == 0 .. MaxTime

Goto(r, s) == stage' = [stage EXCEPT ![r] = s]

Answer(r, code) ==
    /\ status' = [status EXCEPT ![r] = code]
    /\ Goto(r, "done")

DbFault == dbFaults < MaxDbFaults /\ dbFaults' = dbFaults + 1
-----------------------------------------------------------------------------
(* ApiKeyAuthFilter.  No key, an unknown one or an inactive PC: 401.       *)
Reject(r) ==
    /\ stage[r] = "new"
    /\ Answer(r, 401)
    /\ UNCHANGED <<poolVars, now, pcId, body, stamp, seen, tableVars, judged,
                   skipped, historyVars>>

(* The lookup of the key fails: the exception leaves the filter.           *)
LookupFails(r) ==
    /\ stage[r] = "new"
    /\ DbFault
    /\ Answer(r, 500)
    /\ UNCHANGED <<poolVars, now, pcId, body, stamp, seen, tableVars, judged,
                   skipped, lost, restarts>>

Authenticate(r) ==
    /\ stage[r] = "new"
    /\ \E p \in Pc : pcId' = [pcId EXCEPT ![r] = p]
    /\ \E b \in Body : body' = [body EXCEPT ![r] = b]
    /\ stamp' = [stamp EXCEPT ![r] = now]
    /\ Goto(r, "look")
    /\ UNCHANGED <<poolVars, now, status, seen, tableVars, judged, skipped, historyVars>>

(* shouldUpdate: cache.get, the comparison, cache.put.                     *)
Recent(r) == seen[pcId[r]] # None /\ stamp[r] < seen[pcId[r]] + TTL

LookRecent(r) ==
    /\ stage[r] = "look"
    /\ Recent(r)
    /\ Goto(r, "handle")
    /\ UNCHANGED <<poolVars, now, pcId, body, stamp, status, seen, tableVars,
                   judged, skipped, historyVars>>

LookDue(r) ==
    /\ stage[r] = "look"
    /\ ~Recent(r)
    /\ Goto(r, "mark")
    /\ UNCHANGED <<poolVars, now, pcId, body, stamp, status, seen, tableVars,
                   judged, skipped, historyVars>>

(* A faulty throttle: the cache is told the PC instead of the time.        *)
MarkSeenNothing(r) ==
    /\ stage[r] = "mark"
    /\ seen' = [seen EXCEPT ![pcId[r]] = pcId[r]]
    /\ Goto(r, "touch")
    /\ UNCHANGED <<poolVars, now, pcId, body, stamp, status, tableVars,
                   judged, skipped, historyVars>>

MarkSeen(r) ==
    /\ stage[r] = "mark"
    /\ seen' = [seen EXCEPT ![pcId[r]] = stamp[r]]
    /\ Goto(r, "touch")
    /\ UNCHANGED <<poolVars, now, pcId, body, stamp, status, tableVars,
                   judged, skipped, historyVars>>

(* updateAsync(pcId, now): submitted with a time read after the put.       *)
Touch(r) ==
    /\ stage[r] = "touch"
    /\ Accept(<<"touch", r>>)
    /\ stamp' = [stamp EXCEPT ![r] = now]
    /\ Goto(r, "handle")
    /\ UNCHANGED <<now, pcId, body, status, seen, tableVars, judged, skipped,
                   lost, dbFaults, restarts>>

(* The pool rejects the update: the exception leaves the filter, before    *)
(* the request has reached the controller.                                 *)
TouchRejected(r) ==
    /\ stage[r] = "touch"
    /\ Saturated
    /\ Answer(r, 500)
    /\ UNCHANGED <<poolVars, now, pcId, body, stamp, seen, tableVars, judged,
                   skipped, historyVars>>
-----------------------------------------------------------------------------
(* MetricsController and MetricsService.ingest.                            *)
Invalid(r) ==
    /\ stage[r] = "handle"
    /\ body[r] = "invalid"
    /\ \E code \in {400, 500} : Answer(r, code)
    /\ UNCHANGED <<poolVars, now, pcId, body, stamp, seen, tableVars, judged,
                   skipped, historyVars>>

(* A faulty ingest, without @Transactional: the row is committed at once.  *)
SaveAtOnce(r) ==
    /\ stage[r] = "handle"
    /\ body[r] # "invalid"
    /\ rows' = rows \cup {r}
    /\ Goto(r, "forward")
    /\ UNCHANGED <<poolVars, now, pcId, body, stamp, status, seen, lastSeen,
                   judged, skipped, historyVars>>

(* metricsRepository.save: a row that only this transaction sees.          *)
Save(r) ==
    /\ stage[r] = "handle"
    /\ body[r] # "invalid"
    /\ Goto(r, "forward")
    /\ UNCHANGED <<poolVars, now, pcId, body, stamp, status, seen, tableVars,
                   judged, skipped, historyVars>>

SaveFails(r) ==
    /\ stage[r] = "handle"
    /\ body[r] # "invalid"
    /\ DbFault
    /\ Answer(r, 500)
    /\ UNCHANGED <<poolVars, now, pcId, body, stamp, seen, tableVars, judged,
                   skipped, lost, restarts>>

(* forwardAsync(pcId, req), still inside the transaction.                  *)
Forward(r) ==
    /\ stage[r] = "forward"
    /\ Accept(<<"forward", r>>)
    /\ Goto(r, "commit")
    /\ UNCHANGED <<now, pcId, body, stamp, status, seen, tableVars, judged,
                   skipped, historyVars>>

(* The pool rejects the forward: the exception rolls the row back.         *)
ForwardRejected(r) ==
    /\ stage[r] = "forward"
    /\ Saturated
    /\ Answer(r, 500)
    /\ UNCHANGED <<poolVars, now, pcId, body, stamp, seen, tableVars, judged,
                   skipped, historyVars>>

Commit(r) ==
    /\ stage[r] = "commit"
    /\ rows' = rows \cup {r}
    /\ Goto(r, "reply")
    /\ UNCHANGED <<poolVars, now, pcId, body, stamp, status, seen, lastSeen,
                   judged, skipped, historyVars>>

CommitFails(r) ==
    /\ stage[r] = "commit"
    /\ DbFault
    /\ Answer(r, 500)
    /\ UNCHANGED <<poolVars, now, pcId, body, stamp, seen, tableVars, judged,
                   skipped, lost, restarts>>

Reply(r) ==
    /\ stage[r] = "reply"
    /\ Answer(r, 202)
    /\ UNCHANGED <<poolVars, now, pcId, body, stamp, seen, tableVars, judged,
                   skipped, historyVars>>
-----------------------------------------------------------------------------
(* The threads of the pool.  updateLastSeen is unconditional; an error is  *)
(* swallowed.                                                              *)
RunTouch(r) ==
    /\ Finish(<<"touch", r>>)
    /\ \/ lastSeen' = [lastSeen EXCEPT ![pcId[r]] = stamp[r]] /\ UNCHANGED dbFaults
       \/ UNCHANGED lastSeen /\ DbFault
    /\ UNCHANGED <<now, requestVars, seen, rows, judged, skipped, lost, restarts>>

(* A faulty forward: it returns without a word when a field is missing.    *)
RunForwardSilent(r) ==
    /\ Finish(<<"forward", r>>)
    /\ IF body[r] = "whole"
       THEN judged' = judged \cup {r} /\ UNCHANGED skipped
       ELSE UNCHANGED <<judged, skipped>>
    /\ UNCHANGED <<now, requestVars, seen, tableVars, historyVars>>

(* POST /analyze once, for a payload with every required field; a status,  *)
(* a timeout or a broken connection is counted, and that is all.           *)
RunForward(r) ==
    /\ Finish(<<"forward", r>>)
    /\ \/ body[r] = "whole" /\ judged' = judged \cup {r} /\ UNCHANGED skipped
       \/ skipped' = skipped \cup {r} /\ UNCHANGED judged
    /\ UNCHANGED <<now, requestVars, seen, tableVars, historyVars>>

TakeTask ==
    /\ Take
    /\ UNCHANGED <<now, requestVars, seen, tableVars, judged, skipped, historyVars>>

RetireThread ==
    /\ Retire
    /\ UNCHANGED <<now, requestVars, seen, tableVars, judged, skipped, historyVars>>

Tick ==
    /\ now < MaxTime
    /\ now' = now + 1
    /\ UNCHANGED <<poolVars, requestVars, seen, tableVars, judged, skipped, historyVars>>

(* Requests in flight end without an answer, waiting tasks are gone.       *)
Restart ==
    /\ restarts < MaxRestarts
    /\ restarts' = restarts + 1
    /\ lost' = lost \cup Unfinished
    /\ workers' = 0 /\ running' = {} /\ queue' = <<>>
    /\ stage' = [r \in Request |-> IF stage[r] = "new" THEN "new" ELSE "done"]
    /\ seen' = [p \in Pc |-> None]
    /\ UNCHANGED <<now, pcId, body, stamp, status, tableVars, judged, skipped,
                   dbFaults>>
-----------------------------------------------------------------------------
Init ==
    /\ PoolInit
    /\ now = 0
    /\ stage = [r \in Request |-> "new"]
    /\ pcId = [r \in Request |-> None]
    /\ body = [r \in Request |-> None]
    /\ stamp = [r \in Request |-> 0]
    /\ status = [r \in Request |-> None]
    /\ seen = [p \in Pc |-> None]
    /\ lastSeen = [p \in Pc |-> None]
    /\ rows = {}
    /\ judged = {}
    /\ skipped = {}
    /\ lost = {}
    /\ dbFaults = 0
    /\ restarts = 0

Filter(r) ==
    \/ Reject(r) \/ LookupFails(r) \/ Authenticate(r) \/ LookRecent(r)
    \/ LookDue(r) \/ MarkSeen(r) \/ Touch(r) \/ TouchRejected(r)

Ingest(r) ==
    \/ Invalid(r) \/ Save(r) \/ SaveFails(r) \/ Forward(r) \/ ForwardRejected(r)
    \/ Commit(r) \/ CommitFails(r) \/ Reply(r)

Run(r) == RunTouch(r) \/ RunForward(r)

(* Every request is served and the pool has nothing to do.                 *)
Idle ==
    /\ \A r \in Request : stage[r] = "done"
    /\ Unfinished = {}
    /\ UNCHANGED vars

Next ==
    \/ Tick \/ Restart \/ TakeTask \/ RetireThread \/ Idle
    \/ \E r \in Request : Filter(r) \/ Ingest(r) \/ Run(r)

Spec == Init /\ [][Next]_vars

(* Every task ends: the ML server has a response timeout, the update is    *)
(* one statement.  A request, too, is served to its end.                   *)
Fairness ==
    /\ WF_vars(TakeTask)
    /\ \A r \in Request : WF_vars(RunTouch(r)) /\ WF_vars(RunForward(r))
    /\ \A r \in Request : WF_vars(Filter(r)) /\ WF_vars(Ingest(r))

FairSpec == Spec /\ Fairness
-----------------------------------------------------------------------------
Stages == {"new", "look", "mark", "touch", "handle", "forward", "commit", "reply", "done"}

TypeOK ==
    /\ PoolTypeOK
    /\ now \in Time
    /\ stage \in [Request -> Stages]
    /\ pcId \in [Request -> Pc \cup {None}]
    /\ body \in [Request -> Body \cup {None}]
    /\ stamp \in [Request -> Time]
    /\ status \in [Request -> {None, 202, 400, 401, 500}]
    /\ seen \in [Pc -> Time \cup {None}]
    /\ lastSeen \in [Pc -> Time \cup {None}]
    /\ rows \subseteq Request
    /\ judged \subseteq Request
    /\ skipped \subseteq Request
    /\ lost \subseteq Task
    /\ dbFaults \in 0 .. MaxDbFaults
    /\ restarts \in 0 .. MaxRestarts

(* The client relies on the answer: 202 means that the row is committed    *)
(* and the forward was handed to the ML server, is counted as given up,    *)
(* still waits or runs, or was thrown away by a restart.  After any other  *)
(* answer, which the client may answer with a retry, there is no row,      *)
(* wherever in the filter, the transaction or the pool it failed.          *)
Handed(r) == r \in judged \cup skipped
Pending(r) == <<"forward", r>> \in Unfinished
Discarded(r) == <<"forward", r>> \in lost /\ restarts > 0

(* The forward is submitted before the commit.  What the ML server knows   *)
(* without a row is of a request that is about to commit, failed or was    *)
(* interrupted, never of one that was refused or accepted.                 *)
ForwardedEarly(r) == stage[r] = "commit" \/ (stage[r] = "done" /\ status[r] \in {500, None})

AnswerIsTrue ==
    \A r \in Request :
        /\ status[r] = 202 => r \in rows /\ (Handed(r) \/ Pending(r) \/ Discarded(r))
        /\ status[r] \notin {None, 202} => r \notin rows
        /\ r \notin rows /\ (Handed(r) \/ Pending(r)) => ForwardedEarly(r)

(* Accepted metrics reach the ML server, or a counter tells why they did   *)
(* not, unless the server was restarted while the forward waited or ran.   *)
AcceptedIsForwarded ==
    \A r \in Request :
        status[r] = 202 ~> (r \in judged \cup skipped \/ <<"forward", r>> \in lost)

(* The pool works on at most MaxPoolSize tasks and holds back at most      *)
(* QueueCapacity more, none of them twice: what the work for the ML server *)
(* and for last_seen_at may cost together is bounded.                      *)
PoolWithinLimits ==
    /\ IsFiniteSet(running)
    /\ Cardinality(running) <= workers
    /\ workers <= MaxPoolSize
    /\ Len(queue) <= QueueCapacity
    /\ running \cap Waiting = {}
    /\ \A i, j \in DOMAIN queue : queue[i] = queue[j] => i = j
=============================================================================
