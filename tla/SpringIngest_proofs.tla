-------------------------- MODULE SpringIngest_proofs --------------------------
(* Proofs about MlExecutor and SpringIngest, for every pool size, queue    *)
(* capacity and set of requests.                                           *)
EXTENDS SpringIngest, FiniteSetTheorems, TLAPS

(***************************************************************************)
(* The pool.  Its limits, and that it never holds a task twice, are kept   *)
(* by its operations as long as every task is submitted once.              *)
(***************************************************************************)
PoolOK == PoolTypeOK /\ PoolWithinLimits

(* What submitting a task does: it becomes unfinished, and nothing else.   *)
LEMMA AcceptKeeps ==
    ASSUME PoolOK, NEW task \in Task, task \notin Unfinished, Accept(task)
    PROVE  PoolOK' /\ Unfinished' = Unfinished \cup {task}
<1> USE PoolAssumption DEF PoolOK, PoolTypeOK, PoolWithinLimits, Unfinished, Waiting
<1>1. CASE StartCore(task) \/ StartExtra(task)
  <2>1. workers' = workers + 1 /\ running' = running \cup {task} /\ queue' = queue
    BY <1>1 DEF StartCore, StartExtra
  <2>2. workers' <= MaxPoolSize
    BY <1>1 DEF StartCore, StartExtra
  <2>3. IsFiniteSet(running') /\ Cardinality(running') = Cardinality(running) + 1
    BY <2>1, FS_AddElement
  <2>4. Cardinality(running) \in Nat
    BY FS_CardinalityType
  <2> QED BY <2>1, <2>2, <2>3, <2>4
<1>2. CASE Offer(task)
  <2>1. queue' = Append(queue, task) /\ workers' = workers /\ running' = running
    BY <1>2 DEF Offer
  <2>2. queue' \in Seq(Task) /\ Len(queue') = Len(queue) + 1 /\ Len(queue') <= QueueCapacity
    BY <1>2, <2>1 DEF Offer
  <2>3. \A i \in DOMAIN queue' : queue'[i] = IF i = Len(queue) + 1 THEN task ELSE queue[i]
    BY <2>1
  <2>4. Waiting' = Waiting \cup {task}
    <3>1. DOMAIN queue' = DOMAIN queue \cup {Len(queue) + 1}
      BY <2>1
    <3>2. \A i \in DOMAIN queue : i # Len(queue) + 1
      OBVIOUS
    <3> QED BY <2>3, <3>1, <3>2 DEF Waiting
  <2>5. \A i, j \in DOMAIN queue' : queue'[i] = queue'[j] => i = j
    BY <2>1, <2>3
  <2> QED BY <2>1, <2>2, <2>4, <2>5
<1> QED BY <1>1, <1>2 DEF Accept

LEMMA TakeKeeps ==
    ASSUME PoolOK, Take
    PROVE  PoolOK' /\ Unfinished' = Unfinished
<1> USE PoolAssumption DEF PoolOK, PoolTypeOK, PoolWithinLimits, Take
<1>1. queue # <<>> /\ Len(queue) \in Nat /\ Len(queue) > 0 /\ 1 \in DOMAIN queue
  OBVIOUS
<1>2. Head(queue) = queue[1] /\ Head(queue) \in Task
  BY <1>1
<1>3. queue' \in Seq(Task) /\ Len(queue') = Len(queue) - 1
  BY <1>1
<1>4. \A i \in DOMAIN queue' : queue'[i] = queue[i + 1] /\ i + 1 \in DOMAIN queue
  BY <1>1
<1>5. \A i \in DOMAIN queue : i = 1 \/ (i - 1 \in DOMAIN queue' /\ queue'[i - 1] = queue[i])
  <2>1. DOMAIN queue = 1 .. Len(queue) /\ DOMAIN queue' = 1 .. Len(queue) - 1
    BY <1>1, <1>3
  <2>2. \A i \in 1 .. Len(queue) : i = 1 \/ i - 1 \in 1 .. Len(queue) - 1
    BY <1>1
  <2>3. ASSUME NEW i \in 1 .. Len(queue), i - 1 \in DOMAIN queue'
        PROVE  queue'[i - 1] = queue[i]
    BY <1>1, <1>4, <2>3
  <2> QED BY <2>1, <2>2, <2>3
<1>6. Waiting = Waiting' \cup {Head(queue)}
  <2>1. ASSUME NEW t \in Waiting PROVE t \in Waiting' \cup {Head(queue)}
    <3>1. PICK i \in DOMAIN queue : t = queue[i]
      BY DEF Waiting
    <3> QED BY <1>2, <1>5, <3>1 DEF Waiting
  <2>2. ASSUME NEW t \in Waiting' PROVE t \in Waiting
    <3>1. PICK i \in DOMAIN queue' : t = queue'[i]
      BY DEF Waiting
    <3> QED BY <1>4, <3>1 DEF Waiting
  <2>3. Head(queue) \in Waiting
    BY <1>1, <1>2 DEF Waiting
  <2> QED BY <2>1, <2>2, <2>3
<1>7. Head(queue) \notin Waiting'
  <2>1. ASSUME NEW i \in DOMAIN queue', queue'[i] = Head(queue) PROVE FALSE
    <3>1. queue[i + 1] = queue[1] /\ i + 1 \in DOMAIN queue
      BY <1>2, <1>4, <2>1
    <3>2. i + 1 = 1
      BY <1>1, <3>1
    <3>3. i \in Nat /\ i > 0
      BY <1>3
    <3> QED BY <3>2, <3>3
  <2> QED BY <2>1 DEF Waiting
<1>8. Head(queue) \notin running
  BY <1>6
<1>9. IsFiniteSet(running') /\ Cardinality(running') = Cardinality(running) + 1
  BY <1>8, FS_AddElement
<1>10. Cardinality(running) \in Nat
  BY FS_CardinalityType
<1>11. \A i, j \in DOMAIN queue' : queue'[i] = queue'[j] => i = j
  BY <1>4
<1>12. running' \cap Waiting' = {}
  BY <1>6, <1>7
<1>13. Unfinished' = Unfinished
  BY <1>6 DEF Unfinished
<1> QED BY <1>2, <1>3, <1>9, <1>10, <1>11, <1>12, <1>13

LEMMA FinishKeeps ==
    ASSUME PoolOK, NEW task \in Task, Finish(task)
    PROVE  PoolOK' /\ Unfinished' = Unfinished \ {task}
<1> USE PoolAssumption DEF PoolOK, PoolTypeOK, PoolWithinLimits, Finish
<1>1. IsFiniteSet(running') /\ Cardinality(running') <= Cardinality(running)
  BY FS_Subset
<1>2. Cardinality(running) \in Nat /\ Cardinality(running') \in Nat
  BY <1>1, FS_CardinalityType
<1>3. Waiting' = Waiting
  BY DEF Waiting
<1> QED BY <1>1, <1>2, <1>3 DEF Unfinished

LEMMA RetireKeeps ==
    ASSUME PoolOK, Retire
    PROVE  PoolOK' /\ Unfinished' = Unfinished
<1> USE PoolAssumption DEF PoolOK, PoolTypeOK, PoolWithinLimits, Retire
<1>1. Cardinality(running) \in Nat
  BY FS_CardinalityType
<1>2. Waiting' = Waiting
  BY DEF Waiting
<1> QED BY <1>1, <1>2 DEF Unfinished

(***************************************************************************)
(* The requests.  A task is in the pool only if its request has passed the *)
(* step that submits it, which it takes once.                              *)
(***************************************************************************)
Submitted ==
    \A r \in Request :
        /\ <<"touch", r>> \in Unfinished
              => stage[r] \notin {"new", "look", "mark", "touch"}
        /\ <<"forward", r>> \in Unfinished
              => stage[r] \notin {"new", "look", "mark", "touch", "handle", "forward"}

PoolInv == PoolOK /\ stage \in [Request -> Stages] /\ Submitted

LEMMA PoolInvInit == Init => PoolInv
<1> SUFFICES ASSUME Init PROVE PoolInv
  OBVIOUS
<1>1. IsFiniteSet({}) /\ Cardinality({}) = 0
  BY FS_EmptySet
<1> QED BY <1>1, PoolAssumption DEF Init, PoolInit, PoolInv, PoolOK, PoolTypeOK, PoolWithinLimits,
           Submitted, Unfinished, Waiting, Stages

(* The steps of a request: each moves it forward and leaves the pool alone *)
(* or submits the task of the step it leaves.                              *)
LEMMA RequestStepKeepsPool ==
    ASSUME PoolInv, NEW r \in Request, Filter(r) \/ Ingest(r)
    PROVE  PoolInv'
<1>1. CASE Touch(r)
  <2>1. <<"touch", r>> \notin Unfinished /\ <<"touch", r>> \in Task
    BY <1>1, IngestAssumption DEF Touch, PoolInv, Submitted
  <2>2. PoolOK' /\ Unfinished' = Unfinished \cup {<<"touch", r>>}
    BY <1>1, <2>1, AcceptKeeps DEF Touch, PoolInv
  <2> QED BY <1>1, <2>2 DEF Touch, Goto, PoolInv, Submitted, Stages
<1>2. CASE Forward(r)
  <2>1. <<"forward", r>> \notin Unfinished /\ <<"forward", r>> \in Task
    BY <1>2, IngestAssumption DEF Forward, PoolInv, Submitted
  <2>2. PoolOK' /\ Unfinished' = Unfinished \cup {<<"forward", r>>}
    BY <1>2, <2>1, AcceptKeeps DEF Forward, PoolInv
  <2> QED BY <1>2, <2>2 DEF Forward, Goto, PoolInv, Submitted, Stages
<1>3. ASSUME UNCHANGED poolVars,
             stage' \in {[stage EXCEPT ![r] = s] :
                            s \in IF stage[r] = "touch" THEN {"done"}
                                  ELSE IF stage[r] = "forward" THEN {"done"}
                                  ELSE IF stage[r] = "new" THEN {"look", "done"}
                                  ELSE IF stage[r] = "look" THEN {"mark", "handle"}
                                  ELSE IF stage[r] = "mark" THEN {"touch"}
                                  ELSE IF stage[r] = "handle" THEN {"forward", "done"}
                                  ELSE {"reply", "done"}}
      PROVE  PoolInv'
  <2>1. PoolOK' /\ Unfinished' = Unfinished
    BY <1>3 DEF PoolInv, PoolOK, PoolTypeOK, PoolWithinLimits, Unfinished, Waiting, poolVars
  <2> QED BY <1>3, <2>1 DEF PoolInv, Submitted, Stages
<1>4. CASE Reject(r) \/ LookupFails(r) \/ Authenticate(r)
  BY <1>3, <1>4 DEF Reject, LookupFails, Authenticate, Answer, Goto
<1>5. CASE LookRecent(r) \/ LookDue(r) \/ MarkSeen(r) \/ TouchRejected(r)
  BY <1>3, <1>5 DEF LookRecent, LookDue, MarkSeen, TouchRejected, Answer, Goto
<1>6. CASE Invalid(r) \/ Save(r) \/ SaveFails(r) \/ ForwardRejected(r)
  BY <1>3, <1>6 DEF Invalid, Save, SaveFails, ForwardRejected, Answer, Goto
<1>7. CASE Commit(r) \/ CommitFails(r) \/ Reply(r)
  BY <1>3, <1>7 DEF Commit, CommitFails, Reply, Answer, Goto
<1> QED BY <1>1, <1>2, <1>4, <1>5, <1>6, <1>7 DEF Filter, Ingest

LEMMA PoolInvNext == PoolInv /\ [Next]_vars => PoolInv'
<1> SUFFICES ASSUME PoolInv, [Next]_vars PROVE PoolInv'
  OBVIOUS
<1>1. CASE \E r \in Request : Filter(r) \/ Ingest(r)
  BY <1>1, RequestStepKeepsPool
<1>2. ASSUME NEW r \in Request, Run(r) PROVE PoolInv'
  <2>1. PICK task \in Task : Finish(task)
    BY <1>2, IngestAssumption DEF Run, RunTouch, RunForward
  <2>2. PoolOK' /\ Unfinished' = Unfinished \ {task}
    BY <2>1, FinishKeeps DEF PoolInv
  <2>3. stage' = stage
    BY <1>2 DEF Run, RunTouch, RunForward, requestVars
  <2> QED BY <2>2, <2>3 DEF PoolInv, Submitted
<1>3. CASE TakeTask
  BY <1>3, TakeKeeps DEF TakeTask, requestVars, PoolInv, Submitted
<1>4. CASE RetireThread
  BY <1>4, RetireKeeps DEF RetireThread, requestVars, PoolInv, Submitted
<1>5. CASE Restart
  <2>1. IsFiniteSet({}) /\ Cardinality({}) = 0
    BY FS_EmptySet
  <2>2. workers' = 0 /\ running' = {} /\ queue' = <<>>
    BY <1>5 DEF Restart
  <2>3. PoolOK' /\ Unfinished' = {}
    BY <2>1, <2>2, PoolAssumption
    DEF PoolOK, PoolTypeOK, PoolWithinLimits, Unfinished, Waiting
  <2> QED BY <1>5, <2>3 DEF Restart, PoolInv, Submitted, Stages
<1>6. CASE Tick \/ Idle \/ UNCHANGED vars
  <2>1. UNCHANGED <<poolVars, stage>>
    BY <1>6 DEF Tick, Idle, vars, requestVars
  <2> QED BY <2>1 DEF poolVars, PoolInv, PoolOK, PoolTypeOK, PoolWithinLimits,
                    Submitted, Unfinished, Waiting
<1> QED BY <1>1, <1>2, <1>3, <1>4, <1>5, <1>6 DEF Next

(* At every moment the pool is within its limits and holds no task twice.  *)
THEOREM PoolBounded == Spec => []PoolWithinLimits
<1>1. PoolInv => PoolWithinLimits
  BY DEF PoolInv, PoolOK
<1> QED BY <1>1, PoolInvInit, PoolInvNext, PTL DEF Spec

(***************************************************************************)
(* The answer.                                                             *)
(***************************************************************************)
AnswerInv ==
    /\ stage \in [Request -> Stages]
    /\ status \in [Request -> {None, 202, 400, 401, 500}]
    /\ \A r \in Request :
          /\ stage[r] = "reply" => r \in rows
          /\ r \in rows => stage[r] \in {"reply", "done"} /\ status[r] \in {None, 202}
          /\ status[r] = 202 => r \in rows
          /\ status[r] # None => stage[r] = "done"

LEMMA AnswerInvNext == AnswerInv /\ [Next]_vars => AnswerInv'
<1> SUFFICES ASSUME AnswerInv, [Next]_vars PROVE AnswerInv'
  OBVIOUS
<1> USE DEF AnswerInv, Stages, requestVars, tableVars
<1>1. ASSUME NEW r \in Request, Filter(r) PROVE AnswerInv'
  <2>1. CASE Reject(r) \/ LookupFails(r) \/ TouchRejected(r)
    BY <2>1 DEF Reject, LookupFails, TouchRejected, Answer, Goto
  <2>2. CASE Authenticate(r) \/ LookRecent(r) \/ LookDue(r) \/ MarkSeen(r) \/ Touch(r)
    BY <2>2 DEF Authenticate, LookRecent, LookDue, MarkSeen, Touch, Goto
  <2> QED BY <1>1, <2>1, <2>2 DEF Filter
<1>2. ASSUME NEW r \in Request, Ingest(r) PROVE AnswerInv'
  <2>1. CASE Invalid(r)
    BY <2>1 DEF Invalid, Answer, Goto
  <2>2. CASE SaveFails(r) \/ ForwardRejected(r) \/ CommitFails(r)
    BY <2>2 DEF SaveFails, ForwardRejected, CommitFails, Answer, Goto
  <2>3. CASE Save(r) \/ Forward(r)
    BY <2>3 DEF Save, Forward, Goto
  <2>4. CASE Commit(r) \/ Reply(r)
    BY <2>4 DEF Commit, Reply, Answer, Goto
  <2> QED BY <1>2, <2>1, <2>2, <2>3, <2>4 DEF Ingest
<1>3. ASSUME NEW r \in Request, Run(r) PROVE AnswerInv'
  BY <1>3 DEF Run, RunTouch, RunForward
<1>4. CASE Restart
  BY <1>4 DEF Restart
<1>5. CASE Tick \/ TakeTask \/ RetireThread \/ Idle \/ UNCHANGED vars
  BY <1>5 DEF Tick, TakeTask, RetireThread, Idle, vars
<1> QED BY <1>1, <1>2, <1>3, <1>4, <1>5 DEF Next

(***************************************************************************)
(* The forward of an answered request.  It is pending from its submission, *)
(* the step before "commit", until a thread ends it or a restart discards  *)
(* it, and it ends once.                                                   *)
(***************************************************************************)
Reached(r) == Handed(r) \/ Pending(r)

FateInv ==
    /\ \A r \in Request :
          /\ stage[r] \in {"commit", "reply"} => Reached(r)
          /\ status[r] = 202 => Reached(r) \/ Discarded(r)
          /\ Reached(r) => stage[r] \in {"commit", "reply", "done"} /\ status[r] \notin {400, 401}
          /\ ~(Handed(r) /\ Pending(r))
    /\ judged \cap skipped = {}
    /\ restarts \in Nat

LEMMA FateOfARequestStep ==
    ASSUME PoolInv, AnswerInv, FateInv, NEW r \in Request, Filter(r) \/ Ingest(r)
    PROVE  FateInv'
<1> USE DEF FateInv, Reached, Handed, Discarded, historyVars, tableVars
<1>1. UNCHANGED <<judged, skipped, lost, restarts>>
  BY DEF Filter, Reject, LookupFails, Authenticate, LookRecent, LookDue, MarkSeen, Touch,
         TouchRejected, Ingest, Invalid, Save, SaveFails, Forward, ForwardRejected, Commit,
         CommitFails, Reply
<1>2. stage \in [Request -> Stages] /\ status \in [Request -> {None, 202, 400, 401, 500}]
  BY DEF AnswerInv
<1>3. CASE Touch(r)
  <2>1. <<"touch", r>> \notin Unfinished /\ <<"touch", r>> \in Task
    BY <1>3, IngestAssumption DEF Touch, PoolInv, Submitted
  <2>2. Unfinished' = Unfinished \cup {<<"touch", r>>}
    BY <1>3, <2>1, AcceptKeeps DEF Touch, PoolInv
  <2>3. \A q \in Request : Pending(q)' <=> Pending(q)
    BY <2>2 DEF Pending
  <2> QED BY <1>1, <1>2, <1>3, <2>3 DEF Touch, Goto
<1>4. CASE Forward(r)
  <2>1. <<"forward", r>> \notin Unfinished /\ <<"forward", r>> \in Task
    BY <1>4, IngestAssumption DEF Forward, PoolInv, Submitted
  <2>2. Unfinished' = Unfinished \cup {<<"forward", r>>}
    BY <1>4, <2>1, AcceptKeeps DEF Forward, PoolInv
  <2>3. \A q \in Request : Pending(q)' <=> (Pending(q) \/ q = r)
    BY <2>2 DEF Pending
  <2>4. ~Handed(r) /\ status[r] = None
    BY <1>2, <1>4 DEF Forward, AnswerInv
  <2>5. 202 # None /\ 400 # None /\ 401 # None
    BY IngestAssumption
  <2> QED BY <1>1, <1>2, <1>4, <2>3, <2>4, <2>5 DEF Forward, Goto
<1>5. ASSUME UNCHANGED poolVars PROVE \A q \in Request : Pending(q)' <=> Pending(q)
  BY <1>5 DEF poolVars, Pending, Unfinished, Waiting
<1>6. CASE Reject(r) \/ LookupFails(r) \/ TouchRejected(r)
  BY <1>1, <1>2, <1>5, <1>6 DEF Reject, LookupFails, TouchRejected, Answer, Goto
<1>7. CASE Authenticate(r) \/ LookRecent(r) \/ LookDue(r) \/ MarkSeen(r)
  BY <1>1, <1>2, <1>5, <1>7 DEF Authenticate, LookRecent, LookDue, MarkSeen, Goto
<1>8. CASE Invalid(r) \/ SaveFails(r) \/ ForwardRejected(r)
  BY <1>1, <1>2, <1>5, <1>8 DEF Invalid, SaveFails, ForwardRejected, Answer, Goto
<1>9. CASE Save(r) \/ Commit(r)
  BY <1>1, <1>2, <1>5, <1>9 DEF Save, Commit, Goto
<1>10. CASE CommitFails(r) \/ Reply(r)
  BY <1>1, <1>2, <1>5, <1>10 DEF CommitFails, Reply, Answer, Goto
<1> QED BY <1>3, <1>4, <1>6, <1>7, <1>8, <1>9, <1>10 DEF Filter, Ingest

LEMMA FateInvNext == PoolInv /\ AnswerInv /\ FateInv /\ [Next]_vars => FateInv'
<1> SUFFICES ASSUME PoolInv, AnswerInv, FateInv, [Next]_vars PROVE FateInv'
  OBVIOUS
<1>1. CASE \E r \in Request : Filter(r) \/ Ingest(r)
  BY <1>1, FateOfARequestStep
<1> USE DEF FateInv, Reached, Handed, Discarded, historyVars, requestVars
<1>2. ASSUME NEW r \in Request, RunTouch(r) PROVE FateInv'
  <2>1. <<"touch", r>> \in Task /\ Finish(<<"touch", r>>)
    BY <1>2, IngestAssumption DEF RunTouch
  <2>2. Unfinished' = Unfinished \ {<<"touch", r>>}
    BY <2>1, FinishKeeps DEF PoolInv
  <2>3. \A q \in Request : Pending(q)' <=> Pending(q)
    BY <2>2 DEF Pending
  <2> QED BY <1>2, <2>3 DEF RunTouch
<1>3. ASSUME NEW r \in Request, RunForward(r) PROVE FateInv'
  <2>1. <<"forward", r>> \in Task /\ Finish(<<"forward", r>>)
    BY <1>3, IngestAssumption DEF RunForward
  <2>2. Unfinished' = Unfinished \ {<<"forward", r>>}
    BY <2>1, FinishKeeps DEF PoolInv
  <2>3. \A q \in Request : Pending(q)' <=> (Pending(q) /\ q # r)
    BY <2>2 DEF Pending
  <2>4. Pending(r)
    BY <2>1 DEF Pending, Finish, Unfinished
  <2>5. \A q \in Request : Handed(q)' <=> (Handed(q) \/ q = r)
    BY <1>3 DEF RunForward
  <2>6. judged' \cap skipped' = {}
    BY <1>3, <2>4 DEF RunForward
  <2>7. UNCHANGED <<stage, status, lost, restarts>>
    BY <1>3 DEF RunForward
  <2> HIDE DEF Handed
  <2> QED BY <2>3, <2>4, <2>5, <2>6, <2>7
<1>4. CASE TakeTask \/ RetireThread
  <2>1. Unfinished' = Unfinished
    BY <1>4, TakeKeeps, RetireKeeps DEF TakeTask, RetireThread, PoolInv
  <2>2. \A q \in Request : Pending(q)' <=> Pending(q)
    BY <2>1 DEF Pending
  <2> QED BY <1>4, <2>2 DEF TakeTask, RetireThread
<1>5. CASE Restart
  <2>1. \A q \in Request : ~Pending(q)'
    BY <1>5 DEF Restart, Pending, Unfinished, Waiting
  <2>2. \A q \in Request : Pending(q) \/ Discarded(q) => Discarded(q)'
    BY <1>5 DEF Restart, Pending
  <2>3. \A q \in Request : Handed(q)' <=> Handed(q)
    BY <1>5 DEF Restart
  <2>4. UNCHANGED <<status, judged, skipped>> /\ restarts' \in Nat
    BY <1>5 DEF Restart
  <2>5. \A q \in Request : stage'[q] \in {"new", "done"} /\ (stage[q] # "new" => stage'[q] = "done")
    BY <1>5 DEF Restart
  <2> HIDE DEF Handed, Discarded
  <2> QED BY <2>1, <2>2, <2>3, <2>4, <2>5
<1>6. CASE Tick \/ Idle \/ UNCHANGED vars
  <2>1. UNCHANGED <<poolVars, stage, status, judged, skipped, lost, restarts>>
    BY <1>6 DEF Tick, Idle, vars
  <2> QED BY <2>1 DEF poolVars, Pending, Unfinished, Waiting
<1> QED BY <1>1, <1>2, <1>3, <1>4, <1>5, <1>6 DEF Next, Run

LEMMA AnswerInvInit == Init => AnswerInv /\ FateInv
<1> SUFFICES ASSUME Init PROVE AnswerInv /\ FateInv
  OBVIOUS
<1>1. AnswerInv
  BY IngestAssumption DEF Init, AnswerInv, Stages
<1>2. \A r \in Request : ~Pending(r) /\ ~Handed(r)
  BY DEF Init, PoolInit, Pending, Unfinished, Waiting, Handed
<1>3. 202 # None
  BY IngestAssumption
<1> QED BY <1>1, <1>2, <1>3 DEF Init, FateInv, Reached

(* Whatever fails where, 202 means stored, with a forward that is done,    *)
(* counted, under way or was discarded by a restart; any other answer      *)
(* means not stored, and the ML server hears of metrics without a row only *)
(* of a request that is to commit, failed or was interrupted.              *)
THEOREM AnswersAreTrue == Spec => []AnswerIsTrue
<1>1. AnswerInv /\ FateInv => AnswerIsTrue
  BY DEF AnswerInv, FateInv, Reached, AnswerIsTrue, ForwardedEarly, Stages
<1> QED BY <1>1, PoolInvInit, PoolInvNext, AnswerInvInit, AnswerInvNext, FateInvNext, PTL DEF Spec

(* A forward is not run again: what the ML server got, or a counter tells, *)
(* is no longer in the pool and is never both, and stays as it is.         *)
ForwardedOnce ==
    [][\A r \in Request : Handed(r) => ~Pending(r) /\ UNCHANGED <<r \in judged, r \in skipped>>]_vars

THEOREM ForwardsRunOnce == Spec => ForwardedOnce
<1>1. ASSUME PoolInv, FateInv, [Next]_vars
      PROVE  [\A r \in Request : Handed(r) => ~Pending(r) /\ UNCHANGED <<r \in judged, r \in skipped>>]_vars
  <2>1. \A r \in Request : Handed(r) => ~Pending(r)
    BY <1>1 DEF FateInv
  <2>2. ASSUME NEW q \in Request, RunForward(q)
        PROVE  \A r \in Request : Handed(r) => UNCHANGED <<r \in judged, r \in skipped>>
    <3>1. ~Handed(q)
      BY <1>1, <2>2 DEF FateInv, RunForward, Finish, Pending, Unfinished
    <3> QED BY <2>2, <3>1 DEF RunForward, Handed
  <2>3. ASSUME ~\E q \in Request : RunForward(q) PROVE UNCHANGED <<judged, skipped>>
    BY <1>1, <2>3 DEF Next, Filter, Reject, LookupFails, Authenticate, LookRecent, LookDue,
         MarkSeen, Touch, TouchRejected, Ingest, Invalid, Save, SaveFails, Forward,
         ForwardRejected, Commit, CommitFails, Reply, Run, RunTouch, Tick, Restart, TakeTask,
         RetireThread, Idle, vars
  <2> QED BY <2>1, <2>2, <2>3
<1> QED BY <1>1, PoolInvInit, PoolInvNext, AnswerInvInit, AnswerInvNext, FateInvNext, PTL
        DEF Spec, ForwardedOnce

(***************************************************************************)
(* The types: those of the pool and of stage and status are in the         *)
(* invariants above.                                                       *)
(***************************************************************************)
DataTyped ==
    /\ now \in Time
    /\ pcId \in [Request -> Pc \cup {None}]
    /\ body \in [Request -> Body \cup {None}]
    /\ stamp \in [Request -> Time]
    /\ seen \in [Pc -> Time \cup {None}]
    /\ lastSeen \in [Pc -> Time \cup {None}]
    /\ rows \subseteq Request
    /\ judged \subseteq Request
    /\ skipped \subseteq Request
    /\ lost \subseteq Task
    /\ dbFaults \in 0 .. MaxDbFaults
    /\ restarts \in 0 .. MaxRestarts

LEMMA DataNext == PoolInv /\ DataTyped /\ [Next]_vars => DataTyped'
<1> SUFFICES ASSUME PoolInv, DataTyped, [Next]_vars PROVE DataTyped'
  OBVIOUS
<1>0. DbFault => dbFaults' \in 0 .. MaxDbFaults
  BY IngestAssumption DEF DbFault, DataTyped
<1> USE DEF DataTyped, tableVars, historyVars
<1>1. ASSUME NEW r \in Request, Filter(r) PROVE DataTyped'
  <2>1. CASE Reject(r) \/ LookupFails(r) \/ TouchRejected(r) \/ LookRecent(r) \/ LookDue(r)
    BY <1>0, <2>1 DEF Reject, LookupFails, TouchRejected, LookRecent, LookDue
  <2>2. CASE Authenticate(r)
    BY <2>2 DEF Authenticate
  <2>3. CASE MarkSeen(r)
    BY <2>3 DEF MarkSeen
  <2>4. CASE Touch(r)
    BY <2>4 DEF Touch
  <2> QED BY <1>1, <2>1, <2>2, <2>3, <2>4 DEF Filter
<1>2. ASSUME NEW r \in Request, Ingest(r) PROVE DataTyped'
  BY <1>0, <1>2
     DEF Ingest, Invalid, Save, SaveFails, Forward, ForwardRejected, Commit, CommitFails, Reply
<1>3. ASSUME NEW r \in Request, Run(r) PROVE DataTyped'
  <2>1. CASE RunTouch(r)
    BY <1>0, <2>1 DEF RunTouch, requestVars
  <2>2. CASE RunForward(r)
    BY <2>2 DEF RunForward, requestVars
  <2> QED BY <1>3, <2>1, <2>2 DEF Run
<1>4. CASE Restart
  <2>1. Unfinished \subseteq Task
    BY DEF PoolInv, PoolOK, PoolTypeOK, Unfinished, Waiting
  <2>2. restarts' \in 0 .. MaxRestarts
    BY <1>4, IngestAssumption DEF Restart
  <2> QED BY <1>4, <2>1, <2>2 DEF Restart
<1>5. CASE Tick
  BY <1>5, IngestAssumption DEF Tick, requestVars, Time
<1>6. CASE TakeTask \/ RetireThread \/ Idle \/ UNCHANGED vars
  BY <1>6 DEF TakeTask, RetireThread, Idle, vars, requestVars
<1> QED BY <1>1, <1>2, <1>3, <1>4, <1>5, <1>6 DEF Next

(* Types and bounds, for every pool and any number of requests.            *)
THEOREM IngestTyped == Spec => []TypeOK
<1>2. ASSUME Init PROVE DataTyped
  <2>1. 0 \in Time /\ 0 \in 0 .. MaxDbFaults /\ 0 \in 0 .. MaxRestarts
    BY IngestAssumption DEF Time
  <2> QED BY <1>2, <2>1 DEF Init, DataTyped
<1>3. PoolInv /\ AnswerInv /\ DataTyped => TypeOK
  BY DEF PoolInv, PoolOK, AnswerInv, DataTyped, TypeOK
<1> QED BY <1>2, <1>3, PoolInvInit, PoolInvNext, AnswerInvInit, AnswerInvNext, DataNext, PTL
        DEF Spec
=============================================================================
