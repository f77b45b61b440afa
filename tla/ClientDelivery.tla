---------------------------- MODULE ClientDelivery ----------------------------
(***************************************************************************)
(* One client PC: the loop of client_core/runtime/loop.py, the sender of   *)
(* client_core/sender/metrics_sender.py and the queue of LocalQueue,       *)
(* against a network that may lose a request, lose an answer, or answer    *)
(* with any status.                                                        *)
(*                                                                         *)
(* A cycle collects one sample, replays up to RetryPerCycle queued         *)
(* payloads until one fails, and sends the new sample.  The loop has one   *)
(* thread; it may be killed between any two of its steps.                  *)
(***************************************************************************)
EXTENDS LocalQueue

CONSTANTS
    MaxSamples,     (* bound: samples whose fate is tracked                  *)
    RetryPerCycle,  (* RETRY_PER_CYCLE                                       *)
    MaxCrashes,     (* bound: deaths of the process                          *)
    MaxLost,        (* bound: answers lost per sample                        *)
    Poison,         (* samples the server may answer with 400 or 5xx forever *)
    None            (* no sample                                             *)

ASSUME DeliveryAssumption ==
    /\ MaxSamples \in Nat
    /\ Payload = 1 .. MaxSamples
    /\ RetryPerCycle \in Nat \ {0}
    /\ MaxCrashes \in Nat
    /\ MaxLost \in Nat
    /\ Poison \subseteq Payload
    /\ None \notin Line

VARIABLES
    pc,         (* where step() is                                           *)
    cur,        (* the sample of this cycle: metrics                         *)
    item,       (* the payload popped for replay                             *)
    drained,    (* iterations of the drain loop done                         *)
    next,       (* history: the next sample to collect                       *)
    stored,     (* the server: how often it accepted each sample             *)
    refused,    (* history: samples dropped for a non-retryable status       *)
    lostReply,  (* history: accepted, but the client saw a failure           *)
    crashes     (* history: deaths of the process                            *)

loopVars == <<pc, cur, item, drained>>
serverVars == <<stored, refused, lostReply>>
vars == <<queueVars, loopVars, serverVars, next, crashes>>
-----------------------------------------------------------------------------
Held == Elements(buf) \cup ({item, cur} \ {None})
Collected == 1 .. next - 1
Settled == {p \in Payload : stored[p] > 0} \cup evicted \cup refused

(* Samples of which nothing is left: neither waiting anywhere nor stored,  *)
(* nor given up by a decision of the client that a counter records.        *)
Vanished == Collected \ (Held \cup OnDisk \cup Settled)
-----------------------------------------------------------------------------
(* What a POST of p may come to: status 200/202; the server accepts it but *)
(* the answer is lost or late (timeout); 401, 403 or 422; anything else.   *)

Accepted(p) ==
    /\ stored' = [stored EXCEPT ![p] = @ + 1]
    /\ UNCHANGED <<refused, lostReply>>

ReplyLost(p) ==
    /\ lostReply[p] < MaxLost
    /\ stored' = [stored EXCEPT ![p] = @ + 1]
    /\ lostReply' = [lostReply EXCEPT ![p] = @ + 1]
    /\ UNCHANGED refused

NonRetryable(p) ==
    /\ refused' = refused \cup {p}
    /\ UNCHANGED <<stored, lostReply>>

Failed(p) == UNCHANGED serverVars
-----------------------------------------------------------------------------
(* Past MaxSamples the loop goes on with samples that are not tracked.     *)
Collect ==
    /\ Ready
    /\ pc = "idle"
    /\ IF next \in Payload
       THEN cur' = next /\ next' = next + 1
       ELSE cur' = None /\ UNCHANGED next
    /\ pc' = "drain"
    /\ drained' = 0
    /\ UNCHANGED <<queueVars, item, serverVars, crashes>>

(* A faulty loop: it does not stop after RetryPerCycle iterations.         *)
DrainPopUnlimited ==
    /\ pc = "drain"
    /\ buf # <<>>
    /\ Pop
    /\ item' = Head(buf)
    /\ pc' = "replay"
    /\ UNCHANGED <<cur, drained, next, serverVars, crashes>>

DrainPop ==
    /\ pc = "drain"
    /\ drained < RetryPerCycle
    /\ buf # <<>>
    /\ Pop
    /\ item' = Head(buf)
    /\ pc' = "replay"
    /\ UNCHANGED <<cur, drained, next, serverVars, crashes>>

DrainEnd ==
    /\ pc = "drain"
    /\ drained = RetryPerCycle \/ buf = <<>>
    /\ pc' = "send"
    /\ UNCHANGED <<queueVars, cur, item, drained, next, serverVars, crashes>>

(* replay() returned True, for a payload accepted ...                      *)
ReplayAccepted ==
    /\ pc = "replay"
    /\ Accepted(item)
    /\ item' = None
    /\ drained' = drained + 1
    /\ pc' = "drain"
    /\ UNCHANGED <<queueVars, cur, next, crashes>>

(* A faulty replay: a non-retryable status returns False like any other.   *)
ReplayRefusedRetries ==
    /\ pc = "replay"
    /\ NonRetryable(item)
    /\ pc' = "reput"
    /\ UNCHANGED <<queueVars, cur, item, drained, next, crashes>>

(* ... and for one refused for good, which nobody puts back.               *)
ReplayRefused ==
    /\ pc = "replay"
    /\ NonRetryable(item)
    /\ item' = None
    /\ drained' = drained + 1
    /\ pc' = "drain"
    /\ UNCHANGED <<queueVars, cur, next, crashes>>

(* A faulty loop: the drain stops without putting the payload back.        *)
ReplayFailsDrops ==
    /\ pc = "replay"
    /\ Failed(item) \/ ReplyLost(item)
    /\ item' = None
    /\ pc' = "send"
    /\ UNCHANGED <<queueVars, cur, drained, next, crashes>>

ReplayFails ==
    /\ pc = "replay"
    /\ Failed(item) \/ ReplyLost(item)
    /\ pc' = "reput"
    /\ UNCHANGED <<queueVars, cur, item, drained, next, crashes>>

(* A faulty loop: the payload goes back where it came from, to the head.   *)
ReputAtHead ==
    /\ Ready
    /\ pc = "reput"
    /\ buf' = <<item>> \o buf
    /\ CompactDisk(buf')
    /\ item' = None
    /\ pc' = "send"
    /\ UNCHANGED <<proc, pos, enforcing, dropped, skipped, readFailed, evicted,
                   cur, drained, next, serverVars, crashes>>

(* queue.put(item) appends at the tail; break.                             *)
Reput ==
    /\ pc = "reput"
    /\ Put(item)
    /\ item' = None
    /\ pc' = "send"
    /\ UNCHANGED <<cur, drained, next, serverVars, crashes>>

SendSettles ==
    /\ Ready
    /\ pc = "send"
    /\ IF cur = None
       THEN UNCHANGED serverVars
       ELSE Accepted(cur) \/ NonRetryable(cur)
    /\ cur' = None
    /\ pc' = "idle"
    /\ UNCHANGED <<queueVars, item, drained, next, crashes>>

SendFails ==
    /\ Ready
    /\ pc = "send"
    /\ cur # None
    /\ Failed(cur) \/ ReplyLost(cur)
    /\ pc' = "enqueue"
    /\ UNCHANGED <<queueVars, cur, item, drained, next, crashes>>

Enqueue ==
    /\ pc = "enqueue"
    /\ Put(cur)
    /\ cur' = None
    /\ pc' = "idle"
    /\ UNCHANGED <<item, drained, next, serverVars, crashes>>

(* The rest of put(): it returns before the loop takes its next step.      *)
Enforce ==
    /\ EnforceMaxBytes
    /\ UNCHANGED <<loopVars, next, serverVars, crashes>>
-----------------------------------------------------------------------------
(* The process is killed; Task Scheduler starts another one.               *)
Die ==
    /\ crashes < MaxCrashes
    /\ crashes' = crashes + 1
    /\ Crash \/ (pc \in {"reput", "enqueue"} /\ CrashInAppend)
    /\ pc' = "idle"
    /\ cur' = None
    /\ item' = None
    /\ drained' = 0
    /\ UNCHANGED <<next, serverVars>>

Restart ==
    /\ Boot \/ Load
    /\ UNCHANGED <<loopVars, next, serverVars, crashes>>
-----------------------------------------------------------------------------
Init ==
    /\ QueueInit
    /\ pc = "idle"
    /\ cur = None
    /\ item = None
    /\ drained = 0
    /\ next = 1
    /\ stored = [p \in Payload |-> 0]
    /\ refused = {}
    /\ lostReply = [p \in Payload |-> 0]
    /\ crashes = 0

Step ==
    \/ Collect \/ DrainPop \/ DrainEnd
    \/ ReplayAccepted \/ ReplayRefused \/ ReplayFails \/ Reput
    \/ SendSettles \/ SendFails \/ Enqueue \/ Enforce

Next == Step \/ Die \/ Restart

Spec == Init /\ [][Next]_vars

(* The loop never blocks: every request has a timeout, and a dead client   *)
(* is started again.  The server is not down for ever: a sample outside    *)
(* Poison that is replayed again and again is accepted at last.            *)
Fairness ==
    /\ WF_vars(Step)
    /\ WF_vars(Restart)
    /\ \A p \in Payload \ Poison : SF_vars(ReplayAccepted /\ item = p)

FairSpec == Spec /\ Fairness
-----------------------------------------------------------------------------
TypeOK ==
    /\ QueueTypeOK
    /\ pc \in {"idle", "drain", "replay", "reput", "send", "enqueue"}
    /\ cur \in Payload \cup {None}
    /\ item \in Payload \cup {None}
    /\ drained \in 0 .. RetryPerCycle
    /\ next \in 1 .. MaxSamples + 1
    /\ stored \in [Payload -> Nat]
    /\ refused \subseteq Payload
    /\ lostReply \in [Payload -> 0 .. MaxLost]
    /\ crashes \in 0 .. MaxCrashes

(* While the process lives, disk errors or not, no sample disappears: it   *)
(* is held in memory, or stored, or a counter says why it is not.  Pop,    *)
(* replay, re-put and send hand each sample over without a gap.            *)
NoLossWhileAlive == crashes = 0 => Collected \subseteq Held \cup Settled

(* With a working disk, a death of the process costs at most the two       *)
(* samples that were in the hands of the loop: the one being replayed and  *)
(* the one just collected.                                                 *)
LossPerCrash ==
    (Persistent /\ faults = 0) => Cardinality(Vanished) <= 2 * crashes

(* With a working disk, what is still waiting, in memory or in the file,   *)
(* was never acknowledged, refused or evicted: each time the server stored *)
(* it, the answer was lost.  So nothing comes back from the dead.          *)
WaitingIsUnsettled ==
    faults = 0 =>
        \A p \in Held \cup OnDisk :
            /\ stored[p] = lostReply[p]
            /\ p \notin refused
            /\ p \notin evicted

(* With a working disk, the server stores a sample twice only when an      *)
(* answer to it was lost: neither replays, crashes nor reloads duplicate.  *)
DuplicateNeedsLostReply ==
    faults = 0 => \A p \in Payload : stored[p] <= 1 + lostReply[p]

(* A payload the server keeps refusing with a retryable status does not    *)
(* hold up the others: everything queued leaves the client at last.        *)
NoStarvation ==
    \A p \in Payload \ Poison : p \in Elements(buf) ~> p \notin Held

(* With a working disk the client keeps the promise of SampleFate: samples *)
(* leave the waiting state one at a time, for good, and a death costs at   *)
(* most the two samples in the hands of the loop, and the whole queue too  *)
(* when it has no file; and its queue keeps that of DurableQueue.          *)
FateOf(p) ==
    CASE p >= next -> "future"
      [] p < next /\ p \in Held \cup OnDisk -> "waiting"
      [] p \in Vanished -> "vanished"
      [] p < next /\ p \notin Held \cup OnDisk /\ stored[p] > 0 -> "stored"
      [] OTHER -> "givenUp"

Promise == INSTANCE SampleFate
    WITH Sample <- Payload, AtRisk <- IF Persistent THEN 2 ELSE MaxSize + 2,
         fate <- [p \in Payload |-> FateOf(p)], deaths <- crashes

KeepsPromise == Promise!Spec /\ KeepsQueue
=============================================================================
