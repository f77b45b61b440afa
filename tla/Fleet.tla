-------------------------------- MODULE Fleet --------------------------------
(***************************************************************************)
(* What the ML server keeps about all PCs together: the latest sample of   *)
(* each (all_pc_latest) and the segments of a slot with their verdicts     *)
(* (retrieval/retrieval_store.py).  Requests of different PCs and DELETE   *)
(* /history use both at the same time, without a lock.  Python iterates    *)
(* over them in place: a change of the size makes the iteration raise.     *)
(***************************************************************************)
EXTENDS Optional, Filtering, Integers, Sequences, SequencesExt, TLC

CONSTANTS
    Pc, FleetReq, Clearer,  (* PCs; threads of requests and of clears        *)
    StoreSlot,      (* the timetable slot whose segments are modelled        *)
    Report,         (* samples: [pc, cpu, gpu, slot, shape], loads in        *)
                    (* percent, the shape of the segment None without enough *)
                    (* history and in another slot, which has its own deque  *)
    Distance,       (* of two shapes, in 1/10000                             *)
    NearDistance,   (* RETRIEVAL_NEAR_COSINE                                 *)
    Outcome,        (* the verdicts that the analyses come to                *)
    Latest0, Store0, (* what may have been stored when the model starts      *)
    FreshFor,       (* TTL of detect_global_hw_degradation                   *)
    MaxSegments,    (* _MAXLEN of a slot                                     *)
    MaxReports, MaxClears, MaxNow  (* bounds: requests, clears, the clock    *)

ASSUME FleetAssumption ==
    /\ None \notin Pc
    /\ MaxSegments \in Nat \ {0}
    /\ Store0 \in Seq({Store0[k] : k \in DOMAIN Store0})
    /\ Len(Store0) <= MaxSegments
    /\ \A x \in Report : x.slot # StoreSlot => x.shape = None
    /\ \A l \in Latest0 : DOMAIN l = Pc /\ \A p \in Pc : l[p] # None => l[p].at = 0

VARIABLES
    now,        (* time.time()                                               *)
    latest,     (* all_pc_latest: None or [cpu, slot, at]                    *)
    deques,     (* every deque that the slot has had; the last is in use     *)
    call,       (* the requests                                              *)
    clearing,   (* the clears                                                *)
    ideal,      (* history: the store if nothing ran at the same time        *)
    crossed,    (* history: an append or a clear went to a replaced deque    *)
    reports, clears   (* histories: how many                                 *)

fleetHistory == <<ideal, crossed, reports, clears>>
fleetVars == <<now, latest, deques, call, clearing, fleetHistory>>
-----------------------------------------------------------------------------
Reported == {p \in Pc : latest[p] # None}
InUse == Len(deques)
AddBounded(seq, x) == IF Len(seq) >= MaxSegments THEN Append(Tail(seq), x) ELSE Append(seq, x)
Without(seq, p) == Filtered(seq, {s \in {seq[k] : k \in DOMAIN seq} : s.pc # p})

(* search_similar: the three nearest, but never the segment itself.        *)
Nearest(pool, mine) ==
    LET others == SelectSeq(pool, LAMBDA s : <<s.pc, s.stamp>> # <<mine.pc, mine.stamp>>)
        scored == [k \in DOMAIN others |->
                      [verdict |-> others[k].verdict,
                       distance |-> Distance[<<mine.shape, others[k].shape>>]]]
        sorted == SortSeq(scored, LAMBDA a, b : a.distance < b.distance)
    IN  SubSeq(sorted, 1, Min({3, Len(sorted)}))

(* add_segment: the verdict completes what the search compared.            *)
Segment(mine, verdict) ==
    [pc |-> mine.pc, stamp |-> mine.stamp, shape |-> mine.shape, verdict |-> verdict]

(* _peer_compare: the others of the slot are idle and this PC is not.  A   *)
(* latest sample always has a slot.                                        *)
Peers(p) == {q \in Reported \ {p} : latest[q].slot = StoreSlot}
Spikes(p) == {q \in Peers(p) : latest[q].cpu >= 70}
PeerMismatch(p, cpu) == Cardinality(Peers(p)) >= 3 /\ cpu >= 70 /\ Spikes(p) = {}

(* build_retrieval_evidence: a distance of exactly 0 reads as a large one. *)
Near(case) == case.distance # 0 /\ case.distance < NearDistance
CountCases(cases, verdicts) == Cardinality({k \in DOMAIN cases : cases[k].verdict \in verdicts})
NearNormal(cases) ==
    Cardinality({k \in DOMAIN cases : cases[k].verdict = "NORMAL" /\ Near(cases[k])})

EvidenceScore(cases, x, mismatch) ==
    LET n == Len(cases)
        spiking == x.cpu >= 70 \/ x.gpu >= 70
        calm == n > 0 /\ NearNormal(cases) >= Max({2, (n + 1) \div 2}) /\ ~spiking
        score == (IF calm THEN -2 ELSE 0)
                 + (IF CountCases(cases, {"HIGH_RISK"}) > 0 THEN 3 ELSE 0)
                 + (IF CountCases(cases, {"SUSPICIOUS"}) > 0 THEN 2 ELSE 0)
                 + (IF n = 0 THEN 1 ELSE 0)
                 + (IF mismatch THEN 2 ELSE 0)
    IN  Max({-2, Min({5, score})})

NoEvidence == [available |-> FALSE, score |-> 0, cases |-> <<>>, mismatch |-> FALSE]

(* detect_global_hw_degradation, of the samples of the last 30 seconds.    *)
Fresh == {p \in Reported : now - latest[p].at <= FreshFor}
GlobalDegradation ==
    LET exceed == {p \in Fresh : latest[p].cpu >= 80}
    IN  Cardinality(Fresh) >= 3 /\ 10 * Cardinality(exceed) >= 7 * Cardinality(Fresh)
-----------------------------------------------------------------------------
NoCall == [stage |-> "idle", pc |-> None, cpu |-> 0, gpu |-> 0, mine |-> None, deque |-> 0, known |-> 0,
           evidence |-> NoEvidence, degraded |-> FALSE, beside |-> {}]
NoClear == [stage |-> "idle", pc |-> None, deque |-> 0, kept |-> <<>>, beside |-> {}]
Calls == {r \in FleetReq : call[r].stage \notin {"idle", "done", "failed"}}
Clearing == {c \in Clearer : clearing[c].stage \notin {"idle", "done", "failed"}}

FleetInit ==
    /\ now = 0
    /\ latest \in Latest0
    /\ deques = <<Store0>>
    /\ call = [r \in FleetReq |-> NoCall]
    /\ clearing = [c \in Clearer |-> NoClear]
    /\ ideal = Store0 /\ crossed = FALSE
    /\ reports = 0 /\ clears = 0

(* The sample becomes the latest of its PC.  With enough history it makes  *)
(* a segment.                                                              *)
ReportLatest(r) ==
    /\ r \notin Calls
    /\ reports < MaxReports
    /\ reports' = reports + 1
    /\ \E x \in Report :
          /\ latest' = [latest EXCEPT ![x.pc] = [cpu |-> x.cpu, slot |-> x.slot, at |-> now]]
          /\ call' = [q \in FleetReq |->
                IF q = r
                THEN [NoCall EXCEPT
                         !.stage = IF x.shape = None THEN "degradation" ELSE "search",
                         !.pc = x.pc, !.cpu = x.cpu, !.gpu = x.gpu,
                         !.mine = IF x.shape = None THEN None
                                  ELSE [pc |-> x.pc, stamp |-> now, shape |-> x.shape],
                         !.beside = {call[o].pc : o \in Calls} \cup {clearing[c].pc : c \in Clearing}]
                ELSE IF q \in Calls THEN [call[q] EXCEPT !.beside = @ \cup {x.pc}] ELSE call[q]]
          /\ clearing' = [c \in Clearer |->
                IF c \in Clearing THEN [clearing[c] EXCEPT !.beside = @ \cup {x.pc}] ELSE clearing[c]]
    /\ UNCHANGED <<now, deques, ideal, crossed, clears>>

Update(r, x) == call' = [call EXCEPT ![r] = x]

(* search_similar, and the peers begin to be compared.                     *)
Search(r) ==
    /\ call[r].stage = "search"
    /\ Update(r, [call[r] EXCEPT
                     !.evidence.cases = Nearest(deques[InUse], call[r].mine),
                     !.known = Cardinality(Reported),
                     !.stage = "peers"])
    /\ UNCHANGED <<now, latest, deques, clearing, fleetHistory>>

(* The comparison ends, or it raises and there is no evidence.             *)
ComparePeers(r) ==
    LET x == call[r]
        mismatch == PeerMismatch(x.pc, x.cpu)
    IN  /\ x.stage = "peers"
        /\ Update(r, [x EXCEPT
              !.evidence = IF Cardinality(Reported) # x.known THEN NoEvidence
                           ELSE [available |-> TRUE, cases |-> @.cases, mismatch |-> mismatch,
                                 score |-> EvidenceScore(@.cases, x, mismatch)],
              !.stage = "add"])
        /\ UNCHANGED <<now, latest, deques, clearing, fleetHistory>>

(* add_segment takes the deque ...                                         *)
TakeDeque(r) ==
    /\ call[r].stage = "add"
    /\ Update(r, [call[r] EXCEPT !.deque = InUse, !.stage = "append"])
    /\ UNCHANGED <<now, latest, deques, clearing, fleetHistory>>

(* ... and appends to it, even when it is no longer the one in use.        *)
AppendSegment(r) ==
    LET x == call[r]
    IN  /\ x.stage = "append"
        /\ \E v \in Outcome :
              LET s == Segment(x.mine, v)
              IN  /\ deques' = [deques EXCEPT ![x.deque] = AddBounded(@, s)]
                  /\ ideal' = AddBounded(ideal, s)
        /\ crossed' = (crossed \/ x.deque # InUse
                            \/ \E c \in Clearer : clearing[c].stage = "replace")
        /\ Update(r, [x EXCEPT !.stage = "degradation"])
        /\ UNCHANGED <<now, latest, clearing, reports, clears>>

BeginDegradation(r) ==
    /\ call[r].stage = "degradation"
    /\ Update(r, [call[r] EXCEPT !.known = Cardinality(Reported), !.stage = "ending"])
    /\ UNCHANGED <<now, latest, deques, clearing, fleetHistory>>

(* Nothing catches what this iteration raises: the request fails.          *)
EndDegradation(r) ==
    LET x == call[r]
    IN  /\ x.stage = "ending"
        /\ Update(r, IF Cardinality(Reported) # x.known
                     THEN [x EXCEPT !.stage = "failed"]
                     ELSE [x EXCEPT !.stage = "done", !.degraded = GlobalDegradation])
        /\ UNCHANGED <<now, latest, deques, clearing, fleetHistory>>
-----------------------------------------------------------------------------
UpdateClear(c, x) == clearing' = [clearing EXCEPT ![c] = x]

(* A faulty clear: another dictionary is popped.                            *)
KeepLatest(p) == latest

(* clear_history: the latest sample goes first.                            *)
DropLatest(p) == [latest EXCEPT ![p] = None]
ClearLatest(c) ==
    /\ c \notin Clearing
    /\ clears < MaxClears
    /\ clears' = clears + 1
    /\ \E p \in Pc :
          /\ latest' = DropLatest(p)
          /\ UpdateClear(c, [NoClear EXCEPT !.stage = "filter", !.pc = p,
                                            !.beside = {call[r].pc : r \in Calls}])
          /\ call' = [r \in FleetReq |->
                IF r \in Calls THEN [call[r] EXCEPT !.beside = @ \cup {p}] ELSE call[r]]
    /\ UNCHANGED <<now, deques, ideal, crossed, reports>>

(* clear_pc copies what it keeps ...                                       *)
BeginFilter(c) ==
    /\ clearing[c].stage = "filter"
    /\ UpdateClear(c, [clearing[c] EXCEPT !.deque = InUse, !.kept = deques[InUse],
                                          !.stage = "copy"])
    /\ UNCHANGED <<now, latest, deques, call, fleetHistory>>

(* A faulty copy: a copy of the deque is iterated over.                     *)
SourceCopied(x) == x.kept

(* ... unless an append makes the iteration raise ...                      *)
Source(x) == deques[x.deque]
EndFilter(c) ==
    LET x == clearing[c]
        kept == Without(Source(x), x.pc)
    IN  /\ x.stage = "copy"
        /\ UpdateClear(c,
              IF Source(x) # x.kept THEN [x EXCEPT !.stage = "failed"]
              ELSE IF kept = Source(x) THEN [x EXCEPT !.stage = "done"]
              ELSE [x EXCEPT !.kept = kept, !.stage = "replace"])
        /\ UNCHANGED <<now, latest, deques, call, fleetHistory>>

(* ... and puts the copy in the place of the deque.                        *)
ReplaceDeque(c) ==
    /\ clearing[c].stage = "replace"
    /\ deques' = Append(deques, clearing[c].kept)
    /\ ideal' = Without(ideal, clearing[c].pc)
    /\ crossed' = (crossed \/ clearing[c].deque # InUse)
    /\ UpdateClear(c, [clearing[c] EXCEPT !.stage = "done"])
    /\ UNCHANGED <<now, latest, call, reports, clears>>

FleetTick ==
    /\ now < MaxNow
    /\ now' = now + 1
    /\ UNCHANGED <<latest, deques, call, clearing, fleetHistory>>

FleetNext ==
    \/ FleetTick
    \/ \E r \in FleetReq :
          \/ ReportLatest(r) \/ Search(r) \/ ComparePeers(r) \/ TakeDeque(r)
          \/ AppendSegment(r) \/ BeginDegradation(r) \/ EndDegradation(r)
    \/ \E c \in Clearer :
          ClearLatest(c) \/ BeginFilter(c) \/ EndFilter(c) \/ ReplaceDeque(c)

FleetSpec == FleetInit /\ [][FleetNext]_fleetVars
-----------------------------------------------------------------------------
(* Deques stay bounded, scores are in the range of the module's docstring. *)
FleetTypeOK ==
    /\ \A k \in DOMAIN deques : Len(deques[k]) <= MaxSegments
    /\ \A r \in FleetReq : call[r].evidence.score \in -2 .. 5
    /\ \A p \in Reported : latest[p].at \in 0 .. now

(* No segment of a PC is lost, doubled or out of order, and none of a      *)
(* cleared PC is left, unless a deque is appended to between the copy of   *)
(* what a clear keeps and the replacement, or after it.                    *)
StoreIsIdeal == ~crossed => deques[InUse] = ideal

(* A clear that no request of its PC overlaps leaves neither the latest    *)
(* sample nor a segment of the PC, unless it fails, or another clear       *)
(* replaced the deque meanwhile and a request appended to the wrong one.   *)
PcsIn(deque) == {deque[k].pc : k \in DOMAIN deque}

ClearedIsForgotten ==
    [][\A c \in Clearer :
          /\ clearing[c].stage # "done" /\ clearing'[c].stage = "done"
          /\ clearing[c].pc \notin clearing[c].beside
          /\ clearing[c].deque = InUse \/ ~crossed'
          => /\ latest[clearing[c].pc] = None
             /\ clearing[c].pc \notin PcsIn(deques'[Len(deques')])]_fleetVars
=============================================================================
