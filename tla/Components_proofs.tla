------------------------- MODULE Components_proofs -------------------------
(***************************************************************************)
(* Proofs about the components that stand alone: the policies, the store   *)
(* of segments, the traffic that a client measures, the provisioning of    *)
(* the keys, the minutes of a PC and the alerts; at the end, their types   *)
(* and what holds of all of them together.                                 *)
(***************************************************************************)
EXTENDS LocalQueue_proofs, Components, FiniteSetTheorems

(***************************************************************************)
(* What the threads and the files are, as far as the properties need it.   *)
(***************************************************************************)
FileOK ==
    /\ edits \in 0 .. MaxEdits
    /\ DOMAIN file = Files
    /\ \A w \in Files : file[w].doc \in DocsOf(w) /\ file[w].edit \in 0 .. edits

ThreadOK ==
    /\ which \in [PolicyThread -> Files]
    /\ job \in [PolicyThread -> {"none", "get", "reload"}]
    /\ at \in [PolicyThread -> {"idle", "return", "empty", "load", "store"}]
    /\ interrupted \in [PolicyThread -> BOOLEAN]
    /\ DOMAIN got = PolicyThread /\ DOMAIN loading = PolicyThread
    /\ DOMAIN cache = Files
    /\ \A r \in PolicyThread :
          /\ at[r] = "idle" <=> job[r] = "none"
          /\ at[r] = "return" => job[r] = "get"
          /\ at[r] = "empty" => job[r] = "reload"

PolicyBase == FileOK /\ ThreadOK

LEMMA FileNext == FileOK /\ [PolicyNext]_policyVars => FileOK'
<1> SUFFICES ASSUME FileOK, [PolicyNext]_policyVars PROVE FileOK'
  OBVIOUS
<1> USE DEF FileOK
<1>1. CASE EditFile
  <2>1. edits' = edits + 1 /\ edits + 1 \in 0 .. MaxEdits
    BY <1>1, PolicyAssumption DEF EditFile
  <2>2. PICK w \in Files : \E d \in IF w = "policy" THEN PolicyDocs ELSE AllowDocs :
           file' = [file EXCEPT ![w] = [doc |-> d, edit |-> edits + 1]]
    BY <1>1 DEF EditFile
  <2>3. PICK d \in DocsOf(w) : file' = [file EXCEPT ![w] = [doc |-> d, edit |-> edits + 1]]
    BY <2>2 DEF DocsOf
  <2>4. \A v \in Files : file'[v] = IF v = w THEN [doc |-> d, edit |-> edits + 1] ELSE file[v]
    BY <2>3
  <2>5. ASSUME NEW v \in Files
        PROVE  file'[v].doc \in DocsOf(v) /\ file'[v].edit \in 0 .. edits'
    BY <2>1, <2>3, <2>4
  <2> QED BY <2>1, <2>3, <2>5
<1>2. CASE UNCHANGED <<file, edits>>
  BY <1>2
<1> QED
  BY <1>1, <1>2
     DEF PolicyNext, policyVars, GetPolicy, ReturnCache, BeginReload, EmptyAllowList,
         ReadPolicyFile, PolicyRaises, StoreCache

LEMMA ThreadNext == ThreadOK /\ [PolicyNext]_policyVars => ThreadOK'
<1> SUFFICES ASSUME ThreadOK, [PolicyNext]_policyVars PROVE ThreadOK'
  OBVIOUS
<1> USE DEF ThreadOK, Files
<1>1. CASE EditFile
  BY <1>1 DEF EditFile, policyThreadVars
<1>2. ASSUME NEW r \in PolicyThread, GetPolicy(r) PROVE ThreadOK'
  BY <1>2 DEF GetPolicy, Step, AfterCheck
<1>3. ASSUME NEW r \in PolicyThread, ReturnCache(r) PROVE ThreadOK'
  BY <1>3 DEF ReturnCache, Step, Finish
<1>4. ASSUME NEW r \in PolicyThread, BeginReload(r) PROVE ThreadOK'
  BY <1>4 DEF BeginReload, Step, Working
<1>5. ASSUME NEW r \in PolicyThread, EmptyAllowList(r) PROVE ThreadOK'
  BY <1>5 DEF EmptyAllowList, Step
<1>6. ASSUME NEW r \in PolicyThread, ReadPolicyFile(r) PROVE ThreadOK'
  BY <1>6 DEF ReadPolicyFile, Step, Take
<1>7. ASSUME NEW r \in PolicyThread, PolicyRaises(r) PROVE ThreadOK'
  BY <1>7 DEF PolicyRaises, Step, Finish
<1>8. ASSUME NEW r \in PolicyThread, StoreCache(r) PROVE ThreadOK'
  BY <1>8 DEF StoreCache, Step, Finish, Take
<1>9. CASE UNCHANGED policyVars
  BY <1>9 DEF policyVars, policyThreadVars
<1> QED BY <1>1, <1>2, <1>3, <1>4, <1>5, <1>6, <1>7, <1>8, <1>9 DEF PolicyNext

LEMMA BaseInit == PolicyInit => PolicyBase
<1> SUFFICES ASSUME PolicyInit PROVE PolicyBase
  OBVIOUS
<1>1. \A w \in Files : GoodDocs[w] \in DocsOf(w)
  BY DEF DocsOf
<1>2. 0 \in 0 .. MaxEdits
  BY PolicyAssumption
<1> QED BY <1>1, <1>2 DEF PolicyInit, PolicyBase, FileOK, ThreadOK, Files

LEMMA BaseNext == PolicyBase /\ [PolicyNext]_policyVars => PolicyBase'
BY FileNext, ThreadNext DEF PolicyBase

(***************************************************************************)
(* A reader that has found the cache keeps finding it, or a reload ran     *)
(* meanwhile; and nothing that is stored is nothing.                       *)
(***************************************************************************)
MissInv ==
    /\ MissNeedsReload
    /\ \A r \in PolicyThread : at[r] = "store" => loading[r] # None
    /\ \A r \in PolicyThread :
          at[r] = "return" => interrupted[r] \/ (cache[which[r]] # None /\ Reloading = {})

LEMMA MissNext == PolicyBase /\ MissInv /\ [PolicyNext]_policyVars => MissInv'
<1> SUFFICES ASSUME FileOK, ThreadOK, MissInv, [PolicyNext]_policyVars PROVE MissInv'
  BY DEF PolicyBase
<1> USE DEF ThreadOK, MissInv, MissNeedsReload, Files, Reloading
<1>1. CASE EditFile
  BY <1>1 DEF EditFile, policyThreadVars
<1>2. ASSUME NEW r \in PolicyThread, GetPolicy(r) PROVE MissInv'
  <2>1. /\ job[r] = "none" /\ job' = [job EXCEPT ![r] = "get"]
        /\ got' = [got EXCEPT ![r] = "nothing"]
        /\ interrupted' = [interrupted EXCEPT ![r] = Reloading # {}]
        /\ cache' = cache /\ loading' = loading
    BY <1>2 DEF GetPolicy
  <2>2. PICK w \in Files :
           which' = [which EXCEPT ![r] = w] /\ at' = [at EXCEPT ![r] = AfterCheck(w)]
    BY <1>2 DEF GetPolicy, Step
  <2>3. Reloading' = Reloading
    BY <2>1
  <2>4. AfterCheck(w) \in {"load", "return"} /\ (AfterCheck(w) = "return" => cache[w] # None)
    BY DEF AfterCheck
  <2>5. \A q \in PolicyThread : at'[q] = "store" => loading'[q] # None
    BY <2>1, <2>2, <2>4
  <2>6. MissNeedsReload'
    BY <2>1, PolicyAssumption
  <2>7. ASSUME NEW q \in PolicyThread, at'[q] = "return"
        PROVE  interrupted'[q] \/ (cache'[which'[q]] # None /\ Reloading' = {})
    <3>1. CASE q = r
      BY <2>1, <2>2, <2>3, <2>4, <2>7, <3>1
    <3>2. CASE q # r
      BY <2>1, <2>2, <2>3, <2>7, <3>2
    <3> QED BY <3>1, <3>2
  <2> QED BY <2>5, <2>6, <2>7
<1>3. ASSUME NEW r \in PolicyThread, ReturnCache(r) PROVE MissInv'
  BY <1>3 DEF ReturnCache, Step, Finish
<1>4. ASSUME NEW r \in PolicyThread, BeginReload(r) PROVE MissInv'
  BY <1>4 DEF BeginReload, Step, Working
<1>5. ASSUME NEW r \in PolicyThread, EmptyAllowList(r) PROVE MissInv'
  BY <1>5 DEF EmptyAllowList, Step
<1>6. ASSUME NEW r \in PolicyThread, ReadPolicyFile(r) PROVE MissInv'
  <2>1. /\ which[r] \in Files /\ ReadYaml(which[r]).doc \in DocsOf(which[r])
        /\ ReadYaml(which[r]).edit \in 0 .. MaxEdits
    BY PolicyAssumption DEF FileOK, ReadYaml
  <2>2. None # [value |-> LoadPolicy(which[r], ReadYaml(which[r]).doc),
                edit |-> ReadYaml(which[r]).edit]
    BY <1>6, <2>1, PolicyAssumption DEF ReadPolicyFile
  <2> QED BY <1>6, <2>2 DEF ReadPolicyFile, Step, Take
<1>7. ASSUME NEW r \in PolicyThread, PolicyRaises(r) PROVE MissInv'
  BY <1>7, PolicyAssumption DEF PolicyRaises, Step, Finish
<1>8. ASSUME NEW r \in PolicyThread, StoreCache(r) PROVE MissInv'
  BY <1>8 DEF StoreCache, Step, Finish, Take
<1>9. CASE UNCHANGED policyVars
  BY <1>9 DEF policyVars, policyThreadVars
<1> QED BY <1>1, <1>2, <1>3, <1>4, <1>5, <1>6, <1>7, <1>8, <1>9 DEF PolicyNext

(* A reader that gets no policy, and no exception either, had found the    *)
(* cache filled, and a reload ran between its check and its return.        *)
THEOREM MissesNeedReloads == PolicySpec => []MissNeedsReload
<1>1. PolicyInit => MissInv
  BY PolicyAssumption DEF PolicyInit, MissInv, MissNeedsReload
<1>2. MissInv => MissNeedsReload
  BY DEF MissInv
<1> QED BY <1>1, <1>2, BaseInit, BaseNext, MissNext, PTL DEF PolicySpec

(***************************************************************************)
(* The edits of what is being stored and of what is in force, against      *)
(* those that the last reload to begin, and the last to end, have seen.    *)
(***************************************************************************)
EditInv ==
    /\ began \in [Files -> Nat] /\ fresh \in [Files -> Nat]
    /\ \A w \in Files : fresh[w] <= began[w] /\ began[w] <= file[w].edit
    /\ \A r \in PolicyThread : at[r] = "store" => loading[r].edit \in Nat
    /\ \A w \in Files : cache[w] # None => cache[w].edit \in Nat
    /\ outrun \in BOOLEAN
    /\ ~outrun =>
          /\ \A r \in PolicyThread : at[r] = "store" => loading[r].edit >= began[which[r]]
          /\ cache["policy"] # None => cache["policy"].edit >= began["policy"]
          /\ cache["allow"] # None => cache["allow"].edit >= fresh["allow"]

LEMMA EditNext == PolicyBase /\ EditInv /\ [PolicyNext]_policyVars => EditInv'
<1> SUFFICES ASSUME FileOK, ThreadOK, EditInv, [PolicyNext]_policyVars PROVE EditInv'
  BY DEF PolicyBase
<1>0. edits \in Nat /\ \A w \in Files : file[w].edit \in Nat /\ file[w].edit <= edits
  BY PolicyAssumption DEF FileOK
<1> USE DEF ThreadOK, EditInv, Files
<1>1. CASE EditFile
  <2>1. \A w \in Files : file'[w].edit \in Nat /\ file'[w].edit >= file[w].edit
    BY <1>0, <1>1 DEF EditFile, FileOK
  <2>2. UNCHANGED <<cache, policyThreadVars, policyHistoryVars>>
    BY <1>1 DEF EditFile
  <2> QED BY <1>0, <2>1, <2>2 DEF policyThreadVars, policyHistoryVars
<1>2. ASSUME NEW r \in PolicyThread, GetPolicy(r) PROVE EditInv'
  BY <1>2 DEF GetPolicy, Step, AfterCheck, policyHistoryVars
<1>3. ASSUME NEW r \in PolicyThread, ReturnCache(r) PROVE EditInv'
  BY <1>3 DEF ReturnCache, Step, Finish, policyHistoryVars
<1>4. ASSUME NEW r \in PolicyThread, BeginReload(r) PROVE EditInv'
  <2>1. /\ cache' = [cache EXCEPT !["policy"] = None]
        /\ outrun' = (outrun \/ \E q \in PolicyThread : at[q] = "store")
        /\ at' = [at EXCEPT ![r] = "empty"]
        /\ UNCHANGED <<file, which, loading, fresh>>
    BY <1>4 DEF BeginReload, Step
  <2>2. began' = [w \in Files |-> file[w].edit]
    BY <1>4 DEF BeginReload
  <2>3. /\ began' \in [Files -> Nat]
        /\ \A w \in Files : began'[w] = file[w].edit /\ fresh[w] <= file[w].edit
    BY <1>0, <2>2
  <2>4. /\ \A w \in Files : cache'[w] # None => cache'[w].edit \in Nat
        /\ cache'["policy"] = None /\ cache'["allow"] = cache["allow"]
    BY <2>1
  <2>5. \A q \in PolicyThread : at'[q] = "store" => at[q] = "store" /\ loading'[q].edit \in Nat
    BY <2>1
  <2>6. ~outrun' => ~outrun /\ \A q \in PolicyThread : at'[q] # "store"
    BY <2>1
  <2> QED BY <1>0, <2>1, <2>3, <2>4, <2>5, <2>6
<1>5. ASSUME NEW r \in PolicyThread, EmptyAllowList(r) PROVE EditInv'
  BY <1>5 DEF EmptyAllowList, Step, policyHistoryVars
<1>6. ASSUME NEW r \in PolicyThread, ReadPolicyFile(r) PROVE EditInv'
  BY <1>0, <1>6 DEF ReadPolicyFile, Step, Take, ReadYaml, policyHistoryVars
<1>7. ASSUME NEW r \in PolicyThread, PolicyRaises(r) PROVE EditInv'
  BY <1>7 DEF PolicyRaises, Step, Finish, policyHistoryVars
<1>8. ASSUME NEW r \in PolicyThread, StoreCache(r) PROVE EditInv'
  BY <1>8 DEF StoreCache, Step, Finish, Take
<1>9. CASE UNCHANGED policyVars
  BY <1>9 DEF policyVars, policyThreadVars, policyHistoryVars
<1> QED BY <1>1, <1>2, <1>3, <1>4, <1>5, <1>6, <1>7, <1>8, <1>9 DEF PolicyNext

(* After a reload nothing older than the files it has seen is in force,    *)
(* unless a load was between its read and its store when one began.        *)
THEOREM ReloadsTakeEffect == PolicySpec => []ReloadTakesEffect
<1>1. ASSUME PolicyInit PROVE EditInv
  <2>1. /\ \A w \in Files : file[w].edit = 0 /\ began[w] = 0 /\ fresh[w] = 0 /\ cache[w] = None
        /\ began \in [Files -> Nat] /\ fresh \in [Files -> Nat]
    BY <1>1 DEF PolicyInit
  <2>2. outrun \in BOOLEAN /\ \A r \in PolicyThread : at[r] = "idle"
    BY <1>1 DEF PolicyInit
  <2> QED BY <2>1, <2>2 DEF EditInv, Files
<1>2. EditInv => ReloadTakesEffect
  BY DEF EditInv, ReloadTakesEffect, Files
<1> QED BY <1>1, <1>2, BaseInit, BaseNext, EditNext, PTL DEF PolicySpec
-----------------------------------------------------------------------------
(***************************************************************************)
(* The deques that a slot has had are a sequence, which grows when a clear *)
(* replaces the deque in use and never becomes shorter.                    *)
(***************************************************************************)
DequesOK == InUse \in Nat \ {0} /\ \E S : deques \in Seq(S)

LEMMA ReplacedDeques ==
    ASSUME DequesOK, NEW d, deques' = Append(deques, d)
    PROVE  /\ DequesOK' /\ InUse' = InUse + 1 /\ deques'[InUse'] = d
           /\ \A k \in 1 .. InUse : deques'[k] = deques[k]
<1>1. PICK S : deques \in Seq(S)
  BY DEF DequesOK
<1>2. deques \in Seq(S \cup {d}) /\ d \in S \cup {d}
  BY <1>1
<1>3. deques' \in Seq(S \cup {d}) /\ InUse' = InUse + 1
  BY <1>2 DEF InUse
<1>4. deques'[InUse + 1] = d /\ \A k \in 1 .. InUse : deques'[k] = deques[k]
  BY <1>2 DEF InUse
<1>5. \E T : deques' \in Seq(T)
  BY <1>3
<1>6. InUse \in Nat \ {0}
  BY DEF DequesOK
<1>7. DequesOK'
  BY <1>3, <1>5, <1>6 DEF DequesOK
<1> QED BY <1>3, <1>4, <1>7

LEMMA ChangedDeque ==
    ASSUME DequesOK, NEW k \in 1 .. InUse, NEW d, deques' = [deques EXCEPT ![k] = d]
    PROVE  /\ DequesOK' /\ InUse' = InUse /\ deques'[k] = d
           /\ \A j \in 1 .. InUse : j # k => deques'[j] = deques[j]
<1>1. PICK S : deques \in Seq(S)
  BY DEF DequesOK
<1>2. deques \in Seq(S \cup {d}) /\ d \in S \cup {d}
  BY <1>1
<1>3. deques' \in Seq(S \cup {d}) /\ InUse' = InUse
  BY <1>2 DEF InUse
<1> QED BY <1>2, <1>3 DEF DequesOK, InUse

(***************************************************************************)
(* What an append and a replacement hold: a deque that exists and, unless  *)
(* somebody crossed them, the one in use and what is to be kept of it.     *)
(***************************************************************************)
HoldsDeque == \A r \in FleetReq : call[r].stage = "append" => call[r].deque \in 1 .. InUse

HoldsCopy ==
    \A c \in Clearer :
        /\ clearing[c].stage \in {"copy", "replace"} => clearing[c].deque \in 1 .. InUse
        /\ /\ clearing[c].stage = "replace" /\ clearing[c].deque = InUse /\ ~crossed
           => clearing[c].kept = Without(deques[InUse], clearing[c].pc)

FieldsOK ==
    /\ DOMAIN call = FleetReq /\ DOMAIN clearing = Clearer
    /\ \A r \in FleetReq : {"stage", "deque", "beside", "pc", "mine"} \subseteq DOMAIN call[r]
    /\ \A c \in Clearer : {"stage", "deque", "kept", "pc", "beside"} \subseteq DOMAIN clearing[c]
    /\ crossed \in BOOLEAN

StoreInv == DequesOK /\ FieldsOK /\ HoldsDeque /\ HoldsCopy /\ StoreIsIdeal

(* A new request is at its search or at the degradation; the others, and   *)
(* the clears, only learn that it runs beside them.                        *)
LEMMA Reporting ==
    ASSUME FieldsOK, NEW r \in FleetReq, ReportLatest(r)
    PROVE  /\ DOMAIN call' = FleetReq /\ DOMAIN clearing' = Clearer
           /\ \A q \in FleetReq :
                 /\ {"stage", "deque", "beside", "pc", "mine"} \subseteq DOMAIN call'[q]
                 /\ call'[q].stage = "append"
                    => call[q].stage = "append" /\ call'[q].deque = call[q].deque
           /\ \A c \in Clearer :
                 /\ DOMAIN clearing'[c] = DOMAIN clearing[c]
                 /\ \A f \in {"stage", "deque", "kept", "pc"} : clearing'[c][f] = clearing[c][f]
<1>1. PICK x \in Report :
        /\ call' = [q \in FleetReq |->
              IF q = r
              THEN [NoCall EXCEPT
                       !.stage = IF x.shape = None THEN "degradation" ELSE "search",
                       !.pc = x.pc, !.cpu = x.cpu, !.gpu = x.gpu,
                       !.mine = IF x.shape = None THEN None
                                ELSE [pc |-> x.pc, stamp |-> now, shape |-> x.shape],
                       !.beside = {call[o].pc : o \in Calls} \cup {clearing[c].pc : c \in Clearing}]
              ELSE IF q \in Calls THEN [call[q] EXCEPT !.beside = @ \cup {x.pc}] ELSE call[q]]
        /\ clearing' = [c \in Clearer |->
              IF c \in Clearing THEN [clearing[c] EXCEPT !.beside = @ \cup {x.pc}] ELSE clearing[c]]
  BY DEF ReportLatest
<1>2. /\ {"stage", "deque", "beside", "pc", "mine"} \subseteq DOMAIN call'[r]
      /\ call'[r].stage \in {"degradation", "search"}
  <2> DEFINE side == {call[o].pc : o \in Calls} \cup {clearing[c].pc : c \in Clearing}
             own == IF x.shape = None THEN None
                    ELSE [pc |-> x.pc, stamp |-> now, shape |-> x.shape]
             first == IF x.shape = None THEN "degradation" ELSE "search"
  <2>1. call'[r] = [NoCall EXCEPT !.stage = first, !.pc = x.pc, !.cpu = x.cpu, !.gpu = x.gpu,
                                  !.mine = own, !.beside = side]
    BY <1>1
  <2>2. first \in {"degradation", "search"}
    OBVIOUS
  <2> HIDE DEF side, own, first
  <2> QED BY <2>1, <2>2 DEF NoCall
<1>3. ASSUME NEW q \in FleetReq, q # r
      PROVE  /\ {"stage", "deque", "beside", "pc", "mine"} \subseteq DOMAIN call'[q]
             /\ call'[q].stage = call[q].stage /\ call'[q].deque = call[q].deque
  BY <1>1, <1>3 DEF FieldsOK
<1>4. ASSUME NEW c \in Clearer
      PROVE  /\ DOMAIN clearing'[c] = DOMAIN clearing[c]
             /\ \A f \in {"stage", "deque", "kept", "pc"} : clearing'[c][f] = clearing[c][f]
  BY <1>1 DEF FieldsOK
<1> QED BY <1>1, <1>2, <1>3, <1>4

LEMMA FieldsNext == FieldsOK /\ [FleetNext]_fleetVars => FieldsOK'
<1> SUFFICES ASSUME FieldsOK, [FleetNext]_fleetVars PROVE FieldsOK'
  OBVIOUS
<1> USE DEF FieldsOK
<1>1. CASE FleetTick \/ UNCHANGED fleetVars
  BY <1>1 DEF FleetTick, fleetVars, fleetHistory
<1>2. ASSUME NEW r \in FleetReq, ReportLatest(r) PROVE FieldsOK'
  <2>1. crossed' = crossed
    BY <1>2 DEF ReportLatest
  <2>2. /\ DOMAIN call' = FleetReq /\ DOMAIN clearing' = Clearer
        /\ \A q \in FleetReq : {"stage", "deque", "beside", "pc", "mine"} \subseteq DOMAIN call'[q]
        /\ \A c \in Clearer : DOMAIN clearing'[c] = DOMAIN clearing[c]
    BY <1>2, Reporting
  <2> QED BY <2>1, <2>2
<1>3. ASSUME NEW r \in FleetReq, Search(r) \/ ComparePeers(r) PROVE FieldsOK'
  <2>1. CASE Search(r)
    BY <2>1 DEF Search, Update, fleetHistory
  <2>2. CASE ComparePeers(r)
    BY <2>2 DEF ComparePeers, Update, fleetHistory
  <2> QED BY <1>3, <2>1, <2>2
<1>4. ASSUME NEW r \in FleetReq, TakeDeque(r) \/ BeginDegradation(r) \/ EndDegradation(r)
      PROVE  FieldsOK'
  BY <1>4 DEF TakeDeque, BeginDegradation, EndDegradation, Update, fleetHistory
<1>5. ASSUME NEW r \in FleetReq, AppendSegment(r) PROVE FieldsOK'
  BY <1>5 DEF AppendSegment, Update
<1>6. ASSUME NEW c \in Clearer, ClearLatest(c) PROVE FieldsOK'
  BY <1>6 DEF ClearLatest, UpdateClear, NoClear
<1>7. ASSUME NEW c \in Clearer, BeginFilter(c) \/ EndFilter(c) PROVE FieldsOK'
  BY <1>7 DEF BeginFilter, EndFilter, UpdateClear, fleetHistory
<1>8. ASSUME NEW c \in Clearer, ReplaceDeque(c) PROVE FieldsOK'
  BY <1>8 DEF ReplaceDeque, UpdateClear
<1> QED BY <1>1, <1>2, <1>3, <1>4, <1>5, <1>6, <1>7, <1>8 DEF FleetNext

(* Requests and clears that leave deques, ideal and crossed alone.         *)
LEMMA Aside ==
    ASSUME StoreInv, UNCHANGED <<deques, ideal, crossed>>
    PROVE  DequesOK' /\ StoreIsIdeal' /\ InUse' = InUse
BY DEF StoreInv, DequesOK, StoreIsIdeal, InUse

LEMMA StoreNext == StoreInv /\ [FleetNext]_fleetVars => StoreInv'
<1> SUFFICES ASSUME StoreInv, [FleetNext]_fleetVars
             PROVE  DequesOK' /\ HoldsDeque' /\ HoldsCopy' /\ StoreIsIdeal'
  BY FieldsNext DEF StoreInv
<1>0. /\ DequesOK /\ FieldsOK /\ HoldsDeque /\ HoldsCopy /\ StoreIsIdeal
      /\ InUse \in Nat \ {0}
  BY DEF StoreInv, DequesOK
<1> USE DEF HoldsDeque, HoldsCopy
<1>1. CASE FleetTick \/ UNCHANGED fleetVars
  BY <1>0, <1>1, Aside DEF FleetTick, fleetVars, fleetHistory
<1>2. ASSUME NEW r \in FleetReq, ReportLatest(r)
      PROVE  DequesOK' /\ HoldsDeque' /\ HoldsCopy' /\ StoreIsIdeal'
  <2>1. UNCHANGED <<deques, ideal, crossed>>
    BY <1>2 DEF ReportLatest
  <2> QED BY <1>0, <1>2, <2>1, Reporting, Aside
<1>3. ASSUME NEW r \in FleetReq,
             Search(r) \/ ComparePeers(r) \/ BeginDegradation(r) \/ EndDegradation(r)
      PROVE  DequesOK' /\ HoldsDeque' /\ HoldsCopy' /\ StoreIsIdeal'
  <2>1. UNCHANGED <<deques, ideal, crossed, clearing>>
    BY <1>3 DEF Search, ComparePeers, BeginDegradation, EndDegradation, fleetHistory
  <2>2. \A q \in FleetReq : call'[q].stage = "append" => call'[q] = call[q]
    BY <1>0, <1>3
       DEF FieldsOK, Search, ComparePeers, BeginDegradation, EndDegradation, Update
  <2> QED BY <1>0, <2>1, <2>2, Aside
<1>4. ASSUME NEW r \in FleetReq, TakeDeque(r)
      PROVE  DequesOK' /\ HoldsDeque' /\ HoldsCopy' /\ StoreIsIdeal'
  <2>1. UNCHANGED <<deques, ideal, crossed, clearing>>
    BY <1>4 DEF TakeDeque, fleetHistory
  <2>2. /\ call'[r].deque = InUse
        /\ \A q \in FleetReq : q # r => call'[q] = call[q]
    BY <1>0, <1>4 DEF FieldsOK, TakeDeque, Update
  <2> QED BY <1>0, <2>1, <2>2, Aside
<1>5. ASSUME NEW r \in FleetReq, AppendSegment(r)
      PROVE  DequesOK' /\ HoldsDeque' /\ HoldsCopy' /\ StoreIsIdeal'
  <2>1. PICK s : /\ deques' = [deques EXCEPT ![call[r].deque] = AddBounded(deques[call[r].deque], s)]
                 /\ ideal' = AddBounded(ideal, s)
    BY <1>5 DEF AppendSegment
  <2>2. /\ call[r].stage = "append" /\ clearing' = clearing
        /\ crossed' = (crossed \/ call[r].deque # InUse
                              \/ \E c \in Clearer : clearing[c].stage = "replace")
        /\ call' = [call EXCEPT ![r] = [call[r] EXCEPT !.stage = "degradation"]]
    BY <1>5 DEF AppendSegment, Update
  <2>3. call[r].deque \in 1 .. InUse
    BY <1>0, <2>2
  <2>4. /\ DequesOK' /\ InUse' = InUse
        /\ deques'[call[r].deque] = AddBounded(deques[call[r].deque], s)
    BY <1>0, <2>1, <2>3, ChangedDeque
  <2>5. \A q \in FleetReq : call'[q].stage = "append" => call'[q] = call[q]
    BY <1>0, <2>2 DEF FieldsOK
  <2>6. crossed' \/ /\ ~crossed /\ call[r].deque = InUse
                    /\ \A c \in Clearer : clearing[c].stage # "replace"
    BY <2>2
  <2>7. StoreIsIdeal'
    BY <1>0, <2>1, <2>4, <2>6 DEF StoreIsIdeal
  <2>8. HoldsCopy'
    BY <1>0, <2>2, <2>4, <2>6
  <2> QED BY <1>0, <2>4, <2>5, <2>7, <2>8
<1>6. ASSUME NEW c \in Clearer, ClearLatest(c)
      PROVE  DequesOK' /\ HoldsDeque' /\ HoldsCopy' /\ StoreIsIdeal'
  <2>1. UNCHANGED <<deques, ideal, crossed>>
    BY <1>6 DEF ClearLatest
  <2>2. \A d \in Clearer : clearing'[d].stage = "filter" \/ clearing'[d] = clearing[d]
    BY <1>0, <1>6 DEF FieldsOK, ClearLatest, UpdateClear, NoClear
  <2>3. \A q \in FleetReq : call'[q].stage = call[q].stage /\ call'[q].deque = call[q].deque
    BY <1>0, <1>6 DEF FieldsOK, ClearLatest
  <2> QED BY <1>0, <2>1, <2>2, <2>3, Aside
<1>7. ASSUME NEW c \in Clearer, BeginFilter(c)
      PROVE  DequesOK' /\ HoldsDeque' /\ HoldsCopy' /\ StoreIsIdeal'
  <2>1. UNCHANGED <<deques, ideal, crossed, call>>
    BY <1>7 DEF BeginFilter, fleetHistory
  <2>2. /\ clearing'[c].deque = InUse /\ clearing'[c].stage = "copy"
        /\ \A d \in Clearer : d # c => clearing'[d] = clearing[d]
    BY <1>0, <1>7 DEF FieldsOK, BeginFilter, UpdateClear
  <2> QED BY <1>0, <2>1, <2>2, Aside
<1>8. ASSUME NEW c \in Clearer, EndFilter(c)
      PROVE  DequesOK' /\ HoldsDeque' /\ HoldsCopy' /\ StoreIsIdeal'
  <2>1. UNCHANGED <<deques, ideal, crossed, call>>
    BY <1>8 DEF EndFilter, fleetHistory
  <2>2. \A d \in Clearer : d # c => clearing'[d] = clearing[d]
    BY <1>0, <1>8 DEF FieldsOK, EndFilter, UpdateClear
  <2>3. \/ clearing'[c].stage \in {"failed", "done"}
        \/ /\ clearing'[c].deque = clearing[c].deque /\ clearing'[c].pc = clearing[c].pc
           /\ clearing'[c].kept = Without(deques[clearing[c].deque], clearing[c].pc)
    BY <1>0, <1>8 DEF FieldsOK, EndFilter, UpdateClear, Source
  <2>4. clearing[c].deque \in 1 .. InUse
    BY <1>0, <1>8 DEF EndFilter
  <2> QED BY <1>0, <2>1, <2>2, <2>3, <2>4, Aside
<1>9. ASSUME NEW c \in Clearer, ReplaceDeque(c)
      PROVE  DequesOK' /\ HoldsDeque' /\ HoldsCopy' /\ StoreIsIdeal'
  <2>1. /\ deques' = Append(deques, clearing[c].kept) /\ call' = call
        /\ ideal' = Without(ideal, clearing[c].pc)
        /\ crossed' = (crossed \/ clearing[c].deque # InUse)
        /\ clearing[c].stage = "replace"
    BY <1>9 DEF ReplaceDeque
  <2>2. /\ clearing'[c].stage = "done"
        /\ \A d \in Clearer : d # c => clearing'[d] = clearing[d]
    BY <1>0, <1>9 DEF FieldsOK, ReplaceDeque, UpdateClear
  <2>3. DequesOK' /\ InUse' = InUse + 1 /\ deques'[InUse'] = clearing[c].kept
    BY <1>0, <2>1, ReplacedDeques
  <2>4. StoreIsIdeal'
    BY <1>0, <2>1, <2>3 DEF StoreIsIdeal
  <2>5. \A d \in Clearer : clearing'[d].stage \in {"copy", "replace"}
                           => clearing'[d] = clearing[d] /\ clearing[d].deque \in 1 .. InUse
    BY <1>0, <2>2
  <2> QED BY <1>0, <2>1, <2>3, <2>4, <2>5
<1> QED
  BY <1>1, <1>2, <1>3, <1>4, <1>5, <1>6, <1>7, <1>8, <1>9 DEF FleetNext

LEMMA StoreInit == ASSUME FleetInit PROVE StoreInv
<1>1. deques = <<Store0>> /\ Store0 \in {Store0}
  BY DEF FleetInit
<1>2. deques \in Seq({Store0}) /\ InUse = 1 /\ deques[1] = Store0
  <2>1. <<Store0>> \in Seq({Store0})
    OBVIOUS
  <2>2. Len(<<Store0>>) = 1 /\ <<Store0>>[1] = Store0
    OBVIOUS
  <2> QED BY ONLY <1>1, <2>1, <2>2 DEF InUse
<1>3. DequesOK /\ StoreIsIdeal
  <2>1. \E S : deques \in Seq(S)
    BY <1>2
  <2>2. ideal = Store0
    BY DEF FleetInit
  <2>3. 1 \in Nat \ {0}
    OBVIOUS
  <2> QED BY ONLY <1>2, <2>1, <2>2, <2>3 DEF DequesOK, StoreIsIdeal
<1>4. /\ \A r \in FleetReq : call[r] = NoCall
      /\ \A c \in Clearer : clearing[c] = NoClear
      /\ DOMAIN call = FleetReq /\ DOMAIN clearing = Clearer /\ crossed \in BOOLEAN
  BY DEF FleetInit
<1>5. FieldsOK /\ HoldsDeque /\ HoldsCopy
  BY <1>4 DEF FieldsOK, HoldsDeque, HoldsCopy, NoCall, NoClear
<1> QED BY <1>3, <1>5 DEF StoreInv

(* As long as no append and no replacement goes to a deque that a clear    *)
(* has replaced or is about to replace, the segments in use are those that *)
(* the same requests and clears, one at a time, would have left.           *)
THEOREM StoreStaysIdeal == FleetSpec => []StoreIsIdeal
<1>1. StoreInv => StoreIsIdeal
  BY DEF StoreInv
<1> QED BY <1>1, StoreInit, StoreNext, PTL DEF FleetSpec
-----------------------------------------------------------------------------
(***************************************************************************)
(* A clear forgets its PC.  Without overlapping requests of the PC nothing *)
(* says anything new about it, and as long as nobody crossed, the deque in *)
(* use has no PC that the deque which the clear looks at has not.          *)
(***************************************************************************)
IsSeq(d) == \E T : d \in Seq(T)

LEMMA WithoutLeaves ==
    ASSUME NEW d, IsSeq(d), NEW p
    PROVE  /\ IsSeq(Without(d, p)) /\ p \notin PcsIn(Without(d, p))
           /\ PcsIn(Without(d, p)) \subseteq PcsIn(d)
<1>1. PICK T : d \in Seq(T)
  BY DEF IsSeq
<1> DEFINE S == {s \in {d[k] : k \in DOMAIN d} : s.pc # p}
           w == Filtered(d, S)
<1>2. w \in Seq(T \cap S)
  <2>1. Len(d) \in 0 .. Len(d)
    BY <1>1
  <2> HIDE DEF S
  <2> QED BY <1>1, <2>1, KeptTyped DEF Filtered
<1>3. \A k \in DOMAIN w : w[k] \in S
  <2> HIDE DEF S, w
  <2> QED BY <1>2
<1>4. Without(d, p) = w
  BY DEF Without
<1> HIDE DEF w
<1>5. IsSeq(w)
  BY <1>2 DEF IsSeq
<1>6. ASSUME NEW k \in DOMAIN w PROVE w[k].pc # p /\ w[k].pc \in PcsIn(d)
  BY <1>3 DEF PcsIn
<1> QED BY <1>4, <1>5, <1>6 DEF PcsIn

LEMMA AddLeaves ==
    ASSUME NEW d, IsSeq(d), NEW x
    PROVE  /\ IsSeq(AddBounded(d, x))
           /\ PcsIn(AddBounded(d, x)) \subseteq PcsIn(d) \cup {x.pc}
<1>1. PICK T : d \in Seq(T)
  BY DEF IsSeq
<1> DEFINE n == Len(d)
<1>2. n \in Nat /\ \A k \in 1 .. n : d[k] \in T
  BY <1>1
<1>3. CASE Len(d) >= MaxSegments
  <2>1. d # <<>>
    BY <1>1, <1>3, FleetAssumption
  <2> DEFINE t == Tail(d)
             a == Append(t, x)
  <2>2. t \in Seq(T) /\ Len(t) = n - 1 /\ \A k \in 1 .. n - 1 : t[k] = d[k + 1]
    BY <1>1, <2>1, HeadTailProperties
  <2> HIDE DEF t
  <2>3. a \in Seq(T \cup {x}) /\ Len(a) = n /\ a[n] = x
        /\ \A k \in 1 .. n - 1 : a[k] = t[k]
    <3>1. t \in Seq(T \cup {x}) /\ n - 1 + 1 = n
      BY <1>2, <2>2
    <3> QED BY <2>2, <3>1
  <2>4. AddBounded(d, x) = a
    BY <1>3 DEF AddBounded, t
  <2> HIDE DEF a
  <2>5. ASSUME NEW k \in 1 .. n PROVE a[k].pc \in PcsIn(d) \cup {x.pc}
    <3>1. CASE k = n
      BY <2>3, <3>1
    <3>2. CASE k # n
      <4>1. a[k] = d[k + 1] /\ k + 1 \in DOMAIN d
        BY <1>1, <1>2, <2>2, <2>3, <3>2
      <4> QED BY <4>1 DEF PcsIn
    <3> QED BY <3>1, <3>2
  <2>6. DOMAIN a = 1 .. n
    BY <2>3
  <2>7. IsSeq(a)
    BY <2>3 DEF IsSeq
  <2>8. PcsIn(a) \subseteq PcsIn(d) \cup {x.pc}
    BY <2>5, <2>6 DEF PcsIn
  <2> QED BY <2>4, <2>7, <2>8
<1>4. CASE ~(Len(d) >= MaxSegments)
  <2> DEFINE a == Append(d, x)
  <2>1. a \in Seq(T \cup {x}) /\ Len(a) = n + 1 /\ a[n + 1] = x
        /\ \A k \in 1 .. n : a[k] = d[k]
    <3>1. d \in Seq(T \cup {x})
      BY <1>1
    <3> QED BY <3>1
  <2>2. AddBounded(d, x) = a
    BY <1>4 DEF AddBounded
  <2> HIDE DEF a
  <2>3. ASSUME NEW k \in 1 .. n + 1 PROVE a[k].pc \in PcsIn(d) \cup {x.pc}
    <3>1. CASE k = n + 1
      BY <2>1, <3>1
    <3>2. CASE k # n + 1
      <4>1. a[k] = d[k] /\ k \in DOMAIN d
        BY <1>1, <1>2, <2>1, <3>2
      <4> QED BY <4>1 DEF PcsIn
    <3> QED BY <3>1, <3>2
  <2>4. DOMAIN a = 1 .. n + 1
    BY <2>1
  <2>5. IsSeq(a)
    BY <2>1 DEF IsSeq
  <2>6. PcsIn(a) \subseteq PcsIn(d) \cup {x.pc}
    BY <2>3, <2>4 DEF PcsIn
  <2> QED BY <2>2, <2>5, <2>6
<1> QED BY <1>3, <1>4

(* What the store and the requests are, as far as a clear depends on it.   *)
Looking == {"search", "peers", "add", "append"}
Underway == {"filter", "copy", "replace"}

StoredOK == \A k \in 1 .. InUse : IsSeq(deques[k])
MineOK == \A r \in FleetReq : call[r].stage \in Looking => call[r].mine.pc = call[r].pc

(* The clear of a PC that no request overlaps.                             *)
Alone(c) == clearing[c].stage \in Underway /\ clearing[c].pc \notin clearing[c].beside

Unheard ==
    /\ DOMAIN latest = Pc
    /\ \A c \in Clearer :
          /\ clearing[c].stage \in Underway => clearing[c].pc \in Pc
          /\ Alone(c) => /\ latest[clearing[c].pc] = None
                         /\ \A r \in Calls : call[r].pc # clearing[c].pc

CopyOK ==
    \A c \in Clearer :
        /\ clearing[c].stage = "replace"
           => IsSeq(clearing[c].kept) /\ clearing[c].pc \notin PcsIn(clearing[c].kept)
        /\ /\ clearing[c].stage = "copy" /\ Alone(c) /\ ~crossed
           /\ clearing[c].pc \in PcsIn(deques[InUse])
           => clearing[c].pc \in PcsIn(deques[clearing[c].deque])

ForgetInv == StoredOK /\ MineOK /\ Unheard /\ CopyOK

(* A step that leaves the deques, the clears and the latest samples alone. *)
LEMMA RequestKeeps ==
    ASSUME ForgetInv, FieldsOK, NEW r \in FleetReq,
           Search(r) \/ ComparePeers(r) \/ TakeDeque(r) \/ BeginDegradation(r) \/ EndDegradation(r)
    PROVE  ForgetInv'
<1>1. UNCHANGED <<latest, deques, clearing, crossed>>
  BY DEF Search, ComparePeers, TakeDeque, BeginDegradation, EndDegradation, fleetHistory
<1>2. \A q \in FleetReq : call'[q].pc = call[q].pc /\ call'[q].mine = call[q].mine
  <2>1. CASE Search(r)
    BY <2>1 DEF Search, Update, FieldsOK
  <2>2. CASE ComparePeers(r)
    BY <2>2 DEF ComparePeers, Update, FieldsOK
  <2>3. CASE TakeDeque(r)
    BY <2>3 DEF TakeDeque, Update, FieldsOK
  <2>5. CASE BeginDegradation(r)
    BY <2>5 DEF BeginDegradation, Update, FieldsOK
  <2>4. CASE EndDegradation(r)
    BY <2>4 DEF EndDegradation, Update, FieldsOK
  <2> QED BY <2>1, <2>2, <2>3, <2>4, <2>5
<1>3. \A q \in FleetReq :
         /\ call'[q].stage \in Looking => call[q].stage \in Looking
         /\ q \in Calls' => q \in Calls
  BY DEF Search, ComparePeers, TakeDeque, BeginDegradation, EndDegradation, Update, FieldsOK,
         Looking, Calls
<1>4. StoredOK' /\ CopyOK'
  BY <1>1 DEF ForgetInv, StoredOK, CopyOK, IsSeq, PcsIn, Alone, InUse
<1>5. MineOK'
  BY <1>2, <1>3 DEF ForgetInv, MineOK
<1>6. Unheard'
  <2>1. \A q \in Calls' : q \in Calls /\ call'[q].pc = call[q].pc
    BY <1>2, <1>3 DEF Calls
  <2> QED BY <1>1, <2>1 DEF ForgetInv, Unheard, Alone
<1> QED BY <1>4, <1>5, <1>6 DEF ForgetInv

LEMMA ReportKeeps ==
    ASSUME ForgetInv, FieldsOK, NEW r \in FleetReq, ReportLatest(r)
    PROVE  ForgetInv'
<1>1. PICK x \in Report :
        /\ latest' = [latest EXCEPT ![x.pc] = [cpu |-> x.cpu, slot |-> x.slot, at |-> now]]
        /\ call' = [q \in FleetReq |->
              IF q = r
              THEN [NoCall EXCEPT
                       !.stage = IF x.shape = None THEN "degradation" ELSE "search",
                       !.pc = x.pc, !.cpu = x.cpu, !.gpu = x.gpu,
                       !.mine = IF x.shape = None THEN None
                                ELSE [pc |-> x.pc, stamp |-> now, shape |-> x.shape],
                       !.beside = {call[o].pc : o \in Calls} \cup {clearing[c].pc : c \in Clearing}]
              ELSE IF q \in Calls THEN [call[q] EXCEPT !.beside = @ \cup {x.pc}] ELSE call[q]]
        /\ clearing' = [c \in Clearer |->
              IF c \in Clearing THEN [clearing[c] EXCEPT !.beside = @ \cup {x.pc}] ELSE clearing[c]]
  BY DEF ReportLatest
<1>2. UNCHANGED <<deques, crossed>>
  BY DEF ReportLatest
<1>3. call'[r].pc = x.pc /\ (call'[r].stage \in Looking => call'[r].mine.pc = x.pc)
  <2> DEFINE side == {call[o].pc : o \in Calls} \cup {clearing[c].pc : c \in Clearing}
             own == IF x.shape = None THEN None
                    ELSE [pc |-> x.pc, stamp |-> now, shape |-> x.shape]
             first == IF x.shape = None THEN "degradation" ELSE "search"
  <2>1. call'[r] = [NoCall EXCEPT !.stage = first, !.pc = x.pc, !.cpu = x.cpu, !.gpu = x.gpu,
                                  !.mine = own, !.beside = side]
    BY <1>1
  <2>2. first \in Looking => own.pc = x.pc
    BY DEF Looking
  <2> HIDE DEF side, own, first
  <2> QED BY <2>1, <2>2 DEF NoCall
<1>4. ASSUME NEW q \in FleetReq, q # r
      PROVE  call'[q].pc = call[q].pc /\ call'[q].mine = call[q].mine /\ call'[q].stage = call[q].stage
  BY <1>1, <1>4 DEF FieldsOK
<1>5. ASSUME NEW c \in Clearer
      PROVE  /\ \A f \in {"stage", "deque", "kept", "pc"} : clearing'[c][f] = clearing[c][f]
             /\ clearing[c].stage \in Underway => clearing'[c].beside = clearing[c].beside \cup {x.pc}
  BY <1>1 DEF FieldsOK, Clearing, Underway
<1>6. \A c \in Clearer :
         /\ clearing'[c].stage = clearing[c].stage /\ clearing'[c].deque = clearing[c].deque
         /\ clearing'[c].kept = clearing[c].kept /\ clearing'[c].pc = clearing[c].pc
  BY <1>5
<1>7. \A c \in Clearer : Alone(c)' => Alone(c) /\ clearing[c].pc # x.pc
  BY <1>5, <1>6 DEF Alone
<1>8. StoredOK'
  BY <1>2 DEF ForgetInv, StoredOK, IsSeq, InUse
<1>9. MineOK'
  BY <1>3, <1>4 DEF ForgetInv, MineOK
<1>10. CopyOK'
  BY <1>2, <1>6, <1>7 DEF ForgetInv, CopyOK, IsSeq, PcsIn, InUse
<1>11. Unheard'
  <2>1. DOMAIN latest' = Pc
    BY <1>1 DEF ForgetInv, Unheard
  <2>2. ASSUME NEW c \in Clearer, clearing'[c].stage \in Underway PROVE clearing'[c].pc \in Pc
    BY <1>6, <2>2 DEF ForgetInv, Unheard
  <2>3. ASSUME NEW c \in Clearer, Alone(c)'
        PROVE  /\ latest'[clearing'[c].pc] = None
               /\ \A q \in Calls' : call'[q].pc # clearing'[c].pc
    <3>1. Alone(c) /\ clearing[c].pc # x.pc /\ clearing'[c].pc = clearing[c].pc
      BY <1>6, <1>7, <2>3
    <3>2. clearing[c].pc \in Pc /\ latest[clearing[c].pc] = None
          /\ \A q \in Calls : call[q].pc # clearing[c].pc
      BY <3>1 DEF ForgetInv, Unheard, Alone
    <3>3. latest'[clearing[c].pc] = None
      BY <1>1, <3>1, <3>2 DEF ForgetInv, Unheard
    <3>4. ASSUME NEW q \in Calls' PROVE call'[q].pc # clearing[c].pc
      <4>1. q \in FleetReq /\ (q # r => q \in Calls)
        BY <1>4 DEF Calls
      <4> QED BY <1>3, <1>4, <3>1, <3>2, <4>1
    <3> QED BY <3>1, <3>3, <3>4
  <2> QED BY <2>1, <2>2, <2>3 DEF Unheard
<1> QED BY <1>8, <1>9, <1>10, <1>11 DEF ForgetInv

LEMMA AppendForgets ==
    ASSUME ForgetInv, FieldsOK, DequesOK, HoldsDeque, HoldsCopy, NEW r \in FleetReq, AppendSegment(r)
    PROVE  ForgetInv'
<1> DEFINE x == call[r]
           d == deques[x.deque]
<1>1. PICK v \in Outcome : deques' = [deques EXCEPT ![x.deque] = AddBounded(d, Segment(x.mine, v))]
  BY DEF AppendSegment
<1> DEFINE s == Segment(x.mine, v)
<1>2. /\ x.stage = "append" /\ UNCHANGED <<latest, clearing>>
      /\ crossed' = (crossed \/ x.deque # InUse
                            \/ \E c \in Clearer : clearing[c].stage = "replace")
      /\ call' = [call EXCEPT ![r] = [x EXCEPT !.stage = "degradation"]]
  BY DEF AppendSegment, Update
<1>3. /\ x.deque \in 1 .. InUse /\ InUse \in Nat \ {0}
      /\ s.pc = x.pc /\ r \in Calls /\ IsSeq(d)
  <2>1. x.deque \in 1 .. InUse /\ InUse \in Nat \ {0}
    BY <1>2 DEF HoldsDeque, DequesOK
  <2>2. s.pc = x.mine.pc /\ x.mine.pc = x.pc
    BY <1>2 DEF ForgetInv, MineOK, Looking, Segment
  <2>3. r \in Calls
    BY <1>2 DEF Calls
  <2> QED BY <2>1, <2>2, <2>3 DEF ForgetInv, StoredOK
<1> HIDE DEF s
<1>4. /\ InUse' = InUse /\ deques'[x.deque] = AddBounded(d, s)
      /\ \A j \in 1 .. InUse : j # x.deque => deques'[j] = deques[j]
  BY <1>1, <1>3, ChangedDeque DEF s
<1>5. IsSeq(AddBounded(d, s)) /\ PcsIn(AddBounded(d, s)) \subseteq PcsIn(d) \cup {x.pc}
  BY <1>3, AddLeaves
<1>6. /\ \A q \in FleetReq : call'[q].pc = call[q].pc /\ call'[q].mine = call[q].mine
      /\ \A q \in FleetReq : call'[q].stage = call[q].stage \/ call'[q].stage = "degradation"
      /\ \A q \in Calls' : q \in Calls
  BY <1>2, <1>3 DEF FieldsOK, Calls
<1>7. StoredOK'
  <2> SUFFICES ASSUME NEW k \in 1 .. InUse PROVE IsSeq(deques'[k])
    BY <1>4 DEF StoredOK, IsSeq
  <2> QED BY <1>4, <1>5 DEF ForgetInv, StoredOK
<1>8. MineOK'
  BY <1>6 DEF ForgetInv, MineOK, Looking
<1>9. Unheard'
  <2>1. \A q \in Calls' : q \in Calls /\ q \in FleetReq /\ call'[q].pc = call[q].pc
    BY <1>6 DEF Calls
  <2> QED BY <1>2, <2>1 DEF ForgetInv, Unheard, Alone
<1>10. CopyOK'
  <2>1. ASSUME NEW c \in Clearer, clearing[c].stage = "replace"
        PROVE  IsSeq(clearing[c].kept) /\ clearing[c].pc \notin PcsIn(clearing[c].kept)
    BY <2>1 DEF ForgetInv, CopyOK
  <2>2. ASSUME NEW c \in Clearer, clearing[c].stage = "copy", Alone(c), ~crossed',
               clearing[c].pc \in PcsIn(deques'[InUse])
        PROVE  clearing[c].pc \in PcsIn(deques'[clearing[c].deque])
    <3>1. x.deque = InUse /\ ~crossed
      BY <1>2, <2>2
    <3>2. x.pc # clearing[c].pc
      BY <1>3, <2>2 DEF ForgetInv, Unheard
    <3>3. clearing[c].pc \in PcsIn(deques[InUse])
      BY <1>4, <1>5, <2>2, <3>1, <3>2
    <3>4. CASE clearing[c].deque = InUse
      BY <2>2, <3>4
    <3>5. CASE clearing[c].deque # InUse
      <4>1. clearing[c].pc \in PcsIn(deques[clearing[c].deque])
        BY <2>2, <3>1, <3>3 DEF ForgetInv, CopyOK
      <4>2. clearing[c].deque \in 1 .. InUse
        BY <2>2 DEF HoldsCopy
      <4> QED BY <1>4, <3>1, <3>5, <4>1, <4>2
    <3> QED BY <3>4, <3>5
  <2> QED BY <1>2, <1>4, <2>1, <2>2 DEF CopyOK, Alone, PcsIn, IsSeq
<1> QED BY <1>7, <1>8, <1>9, <1>10 DEF ForgetInv

LEMMA ClearKeeps ==
    ASSUME ForgetInv, FieldsOK, DequesOK, HoldsCopy, NEW c \in Clearer,
           ClearLatest(c) \/ BeginFilter(c) \/ EndFilter(c)
    PROVE  ForgetInv'
<1> DEFINE x == clearing[c]
<1>1. UNCHANGED <<deques, crossed>>
  BY DEF ClearLatest, BeginFilter, EndFilter, fleetHistory
<1>2. \A d \in Clearer : d # c => clearing'[d] = clearing[d]
  BY DEF ClearLatest, BeginFilter, EndFilter, UpdateClear, FieldsOK
<1>3. StoredOK'
  BY <1>1 DEF ForgetInv, StoredOK, IsSeq, InUse
<1>4. InUse \in Nat \ {0}
  BY DEF DequesOK
<1>5. CASE ClearLatest(c)
  <2>1. PICK p \in Pc :
          /\ latest' = [latest EXCEPT ![p] = None]
          /\ clearing' = [clearing EXCEPT ![c] =
                            [NoClear EXCEPT !.stage = "filter", !.pc = p,
                                            !.beside = {call[r].pc : r \in Calls}]]
          /\ call' = [r \in FleetReq |->
                IF r \in Calls THEN [call[r] EXCEPT !.beside = @ \cup {p}] ELSE call[r]]
    BY <1>5 DEF ClearLatest, DropLatest, UpdateClear
  <2>2. \A r \in FleetReq : /\ call'[r].stage = call[r].stage /\ call'[r].pc = call[r].pc
                            /\ call'[r].mine = call[r].mine
    BY <2>1 DEF FieldsOK
  <2>3. \A r \in Calls' : r \in Calls /\ call'[r].pc = call[r].pc
    BY <2>2 DEF Calls
  <2>4. clearing'[c].stage = "filter" /\ clearing'[c].pc = p
        /\ clearing'[c].beside = {call[r].pc : r \in Calls}
    BY <2>1 DEF FieldsOK, NoClear
  <2>5. MineOK'
    BY <2>2 DEF ForgetInv, MineOK
  <2>6. CopyOK'
    <3>1. ASSUME NEW d \in Clearer, d # c
          PROVE  /\ clearing'[d].stage = "replace"
                    => IsSeq(clearing'[d].kept) /\ clearing'[d].pc \notin PcsIn(clearing'[d].kept)
                 /\ /\ clearing'[d].stage = "copy" /\ Alone(d)' /\ ~crossed'
                    /\ clearing'[d].pc \in PcsIn(deques'[InUse'])
                    => clearing'[d].pc \in PcsIn(deques'[clearing'[d].deque])
      <4>1. clearing'[d] = clearing[d] /\ InUse' = InUse /\ (Alone(d)' <=> Alone(d))
        BY <1>1, <1>2, <3>1 DEF InUse, Alone
      <4> QED BY <1>1, <4>1 DEF ForgetInv, CopyOK
    <3>2. clearing'[c].stage # "replace" /\ clearing'[c].stage # "copy"
      BY <2>4
    <3> QED BY <3>1, <3>2 DEF CopyOK, PcsIn, IsSeq
  <2>7. DOMAIN latest' = Pc /\ latest'[p] = None
        /\ \A q \in Pc : latest[q] = None => latest'[q] = None
    BY <2>1 DEF ForgetInv, Unheard
  <2>8. Unheard'
    <3>1. ASSUME NEW d \in Clearer, d = c
          PROVE  /\ clearing'[d].pc \in Pc
                 /\ Alone(d)' => /\ latest'[clearing'[d].pc] = None
                                 /\ \A r \in Calls' : call'[r].pc # clearing'[d].pc
      BY <2>3, <2>4, <2>7, <3>1 DEF Alone
    <3>2. ASSUME NEW d \in Clearer, d # c
          PROVE  /\ clearing'[d].stage \in Underway => clearing'[d].pc \in Pc
                 /\ Alone(d)' => /\ latest'[clearing'[d].pc] = None
                                 /\ \A r \in Calls' : call'[r].pc # clearing'[d].pc
      <4>1. clearing'[d] = clearing[d]
        BY <1>2, <3>2
      <4>2. clearing[d].stage \in Underway => clearing[d].pc \in Pc
        BY DEF ForgetInv, Unheard
      <4>3. ASSUME Alone(d)
            PROVE  /\ latest[clearing[d].pc] = None /\ clearing[d].pc \in Pc
                   /\ \A r \in Calls : call[r].pc # clearing[d].pc
        BY <4>3 DEF ForgetInv, Unheard, Alone
      <4> QED BY <2>3, <2>7, <4>1, <4>2, <4>3 DEF Alone
    <3> QED BY <2>7, <3>1, <3>2 DEF Unheard
  <2> QED BY <1>3, <2>5, <2>6, <2>8 DEF ForgetInv
<1>6. CASE BeginFilter(c) \/ EndFilter(c)
  <2>1. UNCHANGED <<latest, call>>
    BY <1>6 DEF BeginFilter, EndFilter, fleetHistory
  <2>2. x.stage \in Underway /\ clearing'[c].pc = x.pc /\ clearing'[c].beside = x.beside
    <3>1. CASE BeginFilter(c)
      BY <3>1 DEF BeginFilter, UpdateClear, FieldsOK, Underway
    <3>2. CASE EndFilter(c)
      BY <3>2 DEF EndFilter, UpdateClear, FieldsOK, Underway
    <3> QED BY <1>6, <3>1, <3>2
  <2>3. MineOK'
    BY <2>1 DEF ForgetInv, MineOK
  <2>4. \A d \in Clearer : clearing'[d].pc = clearing[d].pc
    BY <1>2, <2>2
  <2>5. \A d \in Clearer : Alone(d)' => Alone(d)
    BY <1>2, <2>2 DEF Alone
  <2>6. Unheard'
    <3>1. \A d \in Clearer : clearing'[d].stage \in Underway => clearing[d].stage \in Underway
      BY <1>2, <2>2
    <3>2. Calls' = Calls
      BY <2>1 DEF Calls
    <3> QED BY <2>1, <2>4, <2>5, <3>1, <3>2 DEF ForgetInv, Unheard
  <2>7. clearing'[c].stage = "replace"
        => IsSeq(clearing'[c].kept) /\ x.pc \notin PcsIn(clearing'[c].kept)
    <3>1. SUFFICES ASSUME clearing'[c].stage = "replace"
                   PROVE  IsSeq(clearing'[c].kept) /\ x.pc \notin PcsIn(clearing'[c].kept)
      OBVIOUS
    <3>2. EndFilter(c)
      BY <1>6, <3>1 DEF BeginFilter, UpdateClear, FieldsOK
    <3>3. clearing'[c].kept = Without(deques[x.deque], x.pc) /\ x.stage = "copy"
      BY <3>1, <3>2 DEF EndFilter, UpdateClear, FieldsOK, Source
    <3>4. IsSeq(deques[x.deque])
      BY <3>3 DEF HoldsCopy, ForgetInv, StoredOK
    <3> QED BY <3>3, <3>4, WithoutLeaves
  <2>8. clearing'[c].stage = "copy" => clearing'[c].deque = InUse
    BY <1>6 DEF BeginFilter, EndFilter, UpdateClear, FieldsOK
  <2>9. CopyOK'
    <3>1. ASSUME NEW d \in Clearer, d # c
          PROVE  /\ clearing'[d].stage = "replace"
                    => IsSeq(clearing'[d].kept) /\ clearing'[d].pc \notin PcsIn(clearing'[d].kept)
                 /\ /\ clearing'[d].stage = "copy" /\ Alone(d)' /\ ~crossed'
                    /\ clearing'[d].pc \in PcsIn(deques'[InUse'])
                    => clearing'[d].pc \in PcsIn(deques'[clearing'[d].deque])
      <4>1. clearing'[d] = clearing[d] /\ InUse' = InUse
        BY <1>1, <1>2, <3>1 DEF InUse
      <4> QED BY <1>1, <2>5, <4>1 DEF ForgetInv, CopyOK
    <3>2. /\ clearing'[c].stage = "copy" /\ Alone(c)' /\ ~crossed'
          /\ clearing'[c].pc \in PcsIn(deques'[InUse'])
          => clearing'[c].pc \in PcsIn(deques'[clearing'[c].deque])
      BY <1>1, <2>8 DEF InUse
    <3>3. clearing'[c].pc = x.pc
      BY <2>2
    <3> QED BY <2>7, <3>1, <3>2, <3>3 DEF CopyOK, PcsIn, IsSeq
  <2> QED BY <1>3, <2>3, <2>6, <2>9 DEF ForgetInv
<1> QED BY <1>5, <1>6

LEMMA ReplaceKeeps ==
    ASSUME ForgetInv, FieldsOK, DequesOK, HoldsCopy, NEW c \in Clearer, ReplaceDeque(c)
    PROVE  ForgetInv'
<1> DEFINE x == clearing[c]
           d == x.kept
<1>1. /\ x.stage = "replace" /\ deques' = Append(deques, d) /\ UNCHANGED <<latest, call>>
      /\ crossed' = (crossed \/ x.deque # InUse)
      /\ clearing' = [clearing EXCEPT ![c] = [x EXCEPT !.stage = "done"]]
  BY DEF ReplaceDeque, UpdateClear
<1>2. /\ InUse' = InUse + 1 /\ deques'[InUse + 1] = d /\ InUse \in Nat \ {0}
      /\ \A k \in 1 .. InUse : deques'[k] = deques[k]
  BY <1>1, ReplacedDeques DEF DequesOK
<1>3. clearing'[c].stage = "done" /\ \A e \in Clearer : e # c => clearing'[e] = clearing[e]
  BY <1>1 DEF FieldsOK
<1>4. IsSeq(d)
  BY <1>1 DEF ForgetInv, CopyOK
<1>5. StoredOK'
  <2> SUFFICES ASSUME NEW k \in 1 .. InUse + 1 PROVE IsSeq(deques'[k])
    BY <1>2 DEF StoredOK, IsSeq
  <2>1. CASE k = InUse + 1
    BY <1>2, <1>4, <2>1
  <2>2. CASE k # InUse + 1
    <3>1. k \in 1 .. InUse
      BY <1>2, <2>2
    <3>2. deques'[k] = deques[k]
      BY <1>2, <3>1
    <3> QED BY <3>1, <3>2 DEF ForgetInv, StoredOK
  <2> QED BY <2>1, <2>2
<1>6. MineOK'
  BY <1>1 DEF ForgetInv, MineOK
<1>7. \A e \in Clearer : clearing'[e].stage \in Underway => clearing'[e] = clearing[e]
  BY <1>3 DEF Underway
<1>8. Unheard'
  <2>1. Calls' = Calls
    BY <1>1 DEF Calls
  <2>2. \A e \in Clearer : Alone(e)' => Alone(e) /\ clearing'[e] = clearing[e]
    BY <1>7 DEF Alone
  <2> QED BY <1>1, <1>7, <2>1, <2>2 DEF ForgetInv, Unheard
<1>9. CopyOK'
  <2>1. ASSUME NEW e \in Clearer, clearing'[e].stage = "replace"
        PROVE  IsSeq(clearing'[e].kept) /\ clearing'[e].pc \notin PcsIn(clearing'[e].kept)
    BY <1>7, <2>1 DEF ForgetInv, CopyOK, Underway
  <2>2. ASSUME NEW e \in Clearer, clearing'[e].stage = "copy", Alone(e)', ~crossed',
               clearing'[e].pc \in PcsIn(deques'[InUse'])
        PROVE  clearing'[e].pc \in PcsIn(deques'[clearing'[e].deque])
    <3>1. clearing'[e] = clearing[e] /\ Alone(e) /\ clearing[e].stage = "copy"
      BY <1>7, <2>2 DEF Underway, Alone
    <3>2. ~crossed /\ x.deque = InUse
      BY <1>1, <2>2
    <3>3. d = Without(deques[InUse], x.pc)
      BY <1>1, <3>2 DEF HoldsCopy
    <3>4. IsSeq(deques[InUse])
      BY <1>2 DEF ForgetInv, StoredOK
    <3>5. clearing[e].pc \in PcsIn(d)
      BY <1>2, <2>2, <3>1
    <3>6. clearing[e].pc \in PcsIn(deques[InUse])
      BY <3>3, <3>4, <3>5, WithoutLeaves
    <3>7. clearing[e].pc \in PcsIn(deques[clearing[e].deque])
      BY <3>1, <3>2, <3>6 DEF ForgetInv, CopyOK
    <3>8. clearing[e].deque \in 1 .. InUse
      BY <3>1 DEF HoldsCopy
    <3> QED BY <1>2, <3>1, <3>7, <3>8
  <2> QED BY <2>1, <2>2 DEF CopyOK, PcsIn, IsSeq
<1> QED BY <1>5, <1>6, <1>8, <1>9 DEF ForgetInv

LEMMA ForgetNext == StoreInv /\ ForgetInv /\ [FleetNext]_fleetVars => ForgetInv'
<1> SUFFICES ASSUME StoreInv, ForgetInv, [FleetNext]_fleetVars PROVE ForgetInv'
  OBVIOUS
<1>0. FieldsOK /\ DequesOK /\ HoldsDeque /\ HoldsCopy
  BY DEF StoreInv
<1>1. CASE FleetTick \/ UNCHANGED fleetVars
  <2>1. UNCHANGED <<latest, deques, call, clearing, crossed>>
    BY <1>1 DEF FleetTick, fleetVars, fleetHistory
  <2>2. StoredOK' /\ CopyOK'
    BY <2>1 DEF ForgetInv, StoredOK, CopyOK, IsSeq, PcsIn, Alone, InUse
  <2>3. MineOK' /\ Unheard'
    BY <2>1 DEF ForgetInv, MineOK, Unheard, Alone, Calls
  <2> QED BY <2>2, <2>3 DEF ForgetInv
<1>2. CASE \E r \in FleetReq :
             \/ ReportLatest(r) \/ Search(r) \/ ComparePeers(r) \/ TakeDeque(r)
             \/ AppendSegment(r) \/ BeginDegradation(r) \/ EndDegradation(r)
  BY <1>0, <1>2, ReportKeeps, RequestKeeps, AppendForgets
<1>3. CASE \E c \in Clearer :
             ClearLatest(c) \/ BeginFilter(c) \/ EndFilter(c) \/ ReplaceDeque(c)
  BY <1>0, <1>3, ClearKeeps, ReplaceKeeps
<1> QED BY <1>1, <1>2, <1>3 DEF FleetNext

LEMMA ForgetsAtFirst == ASSUME FleetInit PROVE ForgetInv
<1>1. deques = <<Store0>> /\ InUse = 1 /\ deques[1] = Store0
  BY DEF FleetInit, InUse
<1>2. IsSeq(Store0)
  BY FleetAssumption DEF IsSeq
<1>3. StoredOK
  BY <1>1, <1>2 DEF StoredOK
<1>4. /\ \A r \in FleetReq : call[r].stage = "idle"
      /\ \A c \in Clearer : clearing[c].stage = "idle"
  BY DEF FleetInit, NoCall, NoClear
<1>5. DOMAIN latest = Pc
  BY FleetAssumption DEF FleetInit
<1> QED BY <1>3, <1>4, <1>5 DEF ForgetInv, MineOK, Unheard, CopyOK, Alone, Looking, Underway

(* For any number of PCs, requests and clears and any bound of the deque:  *)
(* a clear that no request of its PC overlaps leaves neither its latest    *)
(* sample nor a segment of it, unless it fails or, after another clear put *)
(* a new deque in the place of the one it looks at, segments crossed.      *)
THEOREM ClearsForget == FleetSpec => ClearedIsForgotten
<1>1. FleetInit => ForgetInv
  BY ForgetsAtFirst
<1>2. ASSUME StoreInv, ForgetInv, [FleetNext]_fleetVars, NEW c \in Clearer,
             clearing[c].stage # "done", clearing'[c].stage = "done",
             clearing[c].pc \notin clearing[c].beside,
             clearing[c].deque = InUse \/ ~crossed'
      PROVE  /\ latest[clearing[c].pc] = None
             /\ clearing[c].pc \notin PcsIn(deques'[Len(deques')])
  <2> DEFINE x == clearing[c]
  <2>0. FieldsOK /\ DequesOK /\ HoldsCopy
    BY <1>2 DEF StoreInv
  <2>1. EndFilter(c) \/ ReplaceDeque(c)
    <3>1. CASE UNCHANGED clearing
      BY <1>2, <3>1
    <3>2. ASSUME NEW r \in FleetReq, ReportLatest(r) PROVE FALSE
      BY <1>2, <2>0, <3>2, Reporting
    <3>3. ASSUME NEW e \in Clearer, e # c,
                 ClearLatest(e) \/ BeginFilter(e) \/ EndFilter(e) \/ ReplaceDeque(e)
          PROVE  clearing'[c] = clearing[c]
      BY <2>0, <3>3 DEF ClearLatest, BeginFilter, EndFilter, ReplaceDeque, UpdateClear, FieldsOK
    <3>4. CASE ClearLatest(c) \/ BeginFilter(c)
      BY <1>2, <2>0, <3>4 DEF ClearLatest, BeginFilter, UpdateClear, FieldsOK, NoClear
    <3> QED BY <1>2, <3>1, <3>2, <3>3, <3>4
            DEF FleetNext, FleetTick, fleetVars, Search, ComparePeers, TakeDeque, AppendSegment,
                BeginDegradation, EndDegradation
  <2>2. Alone(c)
    BY <1>2, <2>1 DEF Alone, Underway, EndFilter, ReplaceDeque
  <2>3. latest[x.pc] = None
    BY <1>2, <2>2 DEF ForgetInv, Unheard
  <2>4. CASE ReplaceDeque(c)
    <3>1. x.stage = "replace" /\ deques' = Append(deques, x.kept)
      BY <2>4 DEF ReplaceDeque
    <3>2. deques'[InUse'] = x.kept
      BY <2>0, <3>1, ReplacedDeques
    <3>3. x.pc \notin PcsIn(x.kept)
      BY <1>2, <3>1 DEF ForgetInv, CopyOK
    <3> QED BY <2>3, <3>2, <3>3 DEF InUse
  <2>5. CASE EndFilter(c)
    <3>1. /\ x.stage = "copy" /\ UNCHANGED <<deques, crossed>>
          /\ Without(deques[x.deque], x.pc) = deques[x.deque]
      BY <1>2, <2>0, <2>5 DEF EndFilter, UpdateClear, FieldsOK, Source, fleetHistory
    <3>2. IsSeq(deques[x.deque])
      BY <1>2, <2>0, <3>1 DEF HoldsCopy, ForgetInv, StoredOK
    <3>3. x.pc \notin PcsIn(deques[x.deque])
      BY <3>1, <3>2, WithoutLeaves
    <3>4. x.pc \notin PcsIn(deques[InUse])
      BY <1>2, <2>2, <3>1, <3>3 DEF ForgetInv, CopyOK
    <3> QED BY <2>3, <3>1, <3>4 DEF InUse
  <2> QED BY <2>1, <2>4, <2>5
<1>3. StoreInv /\ ForgetInv /\ [FleetNext]_fleetVars
      => [\A c \in Clearer :
            /\ clearing[c].stage # "done" /\ clearing'[c].stage = "done"
            /\ clearing[c].pc \notin clearing[c].beside
            /\ clearing[c].deque = InUse \/ ~crossed'
            => /\ latest[clearing[c].pc] = None
               /\ clearing[c].pc \notin PcsIn(deques'[Len(deques')])]_fleetVars
  BY <1>2
<1> QED BY <1>1, <1>3, StoreInit, StoreNext, ForgetNext, PTL DEF FleetSpec, ClearedIsForgotten
-----------------------------------------------------------------------------
(***************************************************************************)
(* The client's traffic.  The collector's reference is the counter as it   *)
(* was in the last cycle; before the first cycle there is none, and        *)
(* nothing has been reported yet.                                          *)
(***************************************************************************)
CountersOK ==
    /\ netCount \in Nat /\ reported \in Int /\ traffic \in Nat /\ netReset \in BOOLEAN
    /\ prevNet \in {None, netCount}
    /\ prevNet = None => reported = 0 /\ traffic = 0 /\ ~netReset
    /\ sensor = "running" => prevNet # None
    /\ sensor = "warming" => prevNet = None

TrafficInv == CountersOK /\ DeltasAddUp

(* What was added, nothing when the counter fell.                          *)
LEMMA DeltaIsRise ==
    ASSUME NEW a \in Int, NEW b \in Int
    PROVE  Delta(a, b) = IF b >= a THEN b - a ELSE 0
<1> DEFINE d == b - a
<1>1. d \in Int /\ a # None
  BY SensingAssumption
<1>2. Max({0, d}) = IF d >= 0 THEN d ELSE 0
  <2> DEFINE m == IF d >= 0 THEN d ELSE 0
  <2>1. m \in {0, d} /\ \A y \in {0, d} : m >= y
    BY <1>1
  <2>2. \A x \in {0, d} : (\A y \in {0, d} : x >= y) => x = m
    BY <1>1
  <2> QED BY <2>1, <2>2 DEF Max
<1> QED BY <1>1, <1>2 DEF Delta

LEMMA TrafficNext == TrafficInv /\ [SensingNext]_sensingVars => TrafficInv'
<1> SUFFICES ASSUME TrafficInv, [SensingNext]_sensingVars PROVE TrafficInv'
  OBVIOUS
<1> USE DEF TrafficInv, CountersOK, DeltasAddUp
<1>1. ASSUME netCount \in Nat, netCount' = netCount, prevNet' = None,
             reported' = 0, traffic' = 0, netReset' = FALSE, sensor' # "running"
      PROVE  TrafficInv'
  <2>1. reported' = 0 /\ traffic' = 0
    BY <1>1
  <2>2. reported' <= traffic' /\ reported' \in Int /\ traffic' \in Nat
    BY <2>1
  <2>3. netReset' \in BOOLEAN /\ ~netReset'
    BY <1>1
  <2>4. netCount' \in Nat /\ prevNet' \in {None, netCount'}
    BY <1>1
  <2> QED BY <1>1, <2>1, <2>2, <2>3, <2>4
<1>0. ASSUME StartClient PROVE TrafficInv'
  <2>1. sensor' # "running"
    <3>1. PICK found \in SettingsFound, env \in Environment :
             sensor' \in {"warming", "dead"}
      BY <1>0 DEF StartClient
    <3> QED BY <3>1
  <2> QED BY <1>0, <1>1, <2>1 DEF StartClient
<1>2. ASSUME NEW r \in Reading, Collects(r), CollectCounters(r)
      PROVE  /\ netCount' \in Nat /\ prevNet' = netCount' /\ prevNet' # None
             /\ prevNet = None => traffic' = 0 /\ ~netReset'
             /\ prevNet # None =>
                   /\ prevNet = netCount /\ Delta(prevNet, netCount') \in Nat
                   /\ traffic' = traffic + r.received
                   /\ Delta(prevNet, netCount') <= r.received
                   /\ ~netReset' => ~netReset /\ Delta(prevNet, netCount') = r.received
  <2> DEFINE n == netCount'
             k == r.received
  <2>1. k \in Nat /\ r.reset \in BOOLEAN
    BY <1>2, SensingAssumption DEF Collects
  <2>2. n = IF r.reset THEN k ELSE netCount + k
    BY <1>2 DEF CollectCounters
  <2>5. n \in Nat /\ prevNet' = n
    BY <1>2, <2>1, <2>2 DEF CollectCounters
  <2>3. n \in Nat /\ prevNet' = n /\ prevNet' # None
    BY <2>5, SensingAssumption
  <2>4. ASSUME prevNet # None
        PROVE  /\ Delta(prevNet, n) \in Nat /\ Delta(prevNet, n) <= k
               /\ ~r.reset => Delta(prevNet, n) = k
    <3>1. prevNet = netCount /\ netCount \in Int /\ n \in Int
      BY <2>3, <2>4
    <3> DEFINE d == Delta(netCount, n)
    <3> HIDE DEF n
    <3>2. d = IF n >= netCount THEN n - netCount ELSE 0
      BY <3>1, DeltaIsRise
    <3> HIDE DEF d
    <3>3. d \in Nat /\ d <= k /\ (~r.reset => d = k)
      BY <2>1, <2>2, <3>1, <3>2
    <3> QED BY <3>1, <3>3 DEF d
  <2> QED BY <1>2, <2>1, <2>3, <2>4 DEF CollectCounters
<1>3. ASSUME Warmup PROVE TrafficInv'
  <2>1. PICK r \in Reading : Collects(r) /\ CollectCounters(r)
    BY <1>3 DEF Warmup
  <2>2. sensor = "warming" /\ reported' = reported /\ netReset' \in BOOLEAN
    BY <1>3, <2>1 DEF Warmup, CollectCounters
  <2>3. CASE prevNet = None
    <3>1. reported' = 0 /\ traffic' = 0
      BY <1>2, <2>1, <2>2, <2>3
    <3>2. reported' <= traffic' /\ reported' \in Int /\ traffic' \in Nat
      BY <3>1
    <3>3. prevNet' # None /\ prevNet' = netCount' /\ netCount' \in Nat /\ sensor' = "running"
      BY <1>2, <1>3, <2>1 DEF Warmup
    <3> QED BY <2>2, <3>1, <3>2, <3>3
  <2> QED BY <2>2, <2>3
<1>4. ASSUME Sense PROVE TrafficInv'
  <2>1. PICK r \in Reading : /\ Collects(r) /\ CollectCounters(r)
                             /\ reported' = reported + Delta(prevNet, netCount')
    BY <1>4 DEF Sense
  <2> DEFINE d == Delta(prevNet, netCount')
             k == r.received
             t == traffic'
  <2>2. sensor = "running" /\ prevNet # None
    BY <1>4 DEF Sense
  <2>3. /\ netCount' \in Nat /\ prevNet' = netCount' /\ prevNet' # None
        /\ d \in Nat /\ t = traffic + k /\ d <= k
        /\ ~netReset' => ~netReset /\ d = k
    BY <1>2, <2>1, <2>2
  <2>4. k \in Nat /\ netReset' \in BOOLEAN
    BY <2>1, SensingAssumption DEF Collects, CollectCounters
  <2>5. reported' = reported + d
    BY <2>1
  <2> HIDE DEF d, k, t
  <2>6. t \in Nat /\ reported' \in Int
    BY <2>3, <2>4, <2>5
  <2>7. reported' <= t /\ (~netReset' => reported' = t)
    BY <2>3, <2>4, <2>5, <2>6
  <2>8. sensor' = "running"
    BY <1>4 DEF Sense
  <2> QED BY <2>3, <2>4, <2>6, <2>7, <2>8 DEF t
<1>5. ASSUME UNCHANGED <<netCount, prevNet, reported, traffic, netReset>>, 
             sensor' \in {"dead", sensor}
      PROVE  TrafficInv'
  BY <1>5
<1> QED
  BY <1>0, <1>3, <1>4, <1>5 DEF SensingNext, SensingRaises, sensingVars

LEMMA TrafficAtFirst == ASSUME SensingInit PROVE TrafficInv
<1>1. /\ netCount = 0 /\ prevNet = None /\ reported = 0 /\ traffic = 0 /\ netReset = FALSE
      /\ sensor = "off"
  BY DEF SensingInit
<1>2. reported = 0 /\ traffic = 0
  BY <1>1
<1>3. reported <= traffic
  BY <1>2
<1>4. netReset \in BOOLEAN /\ ~netReset
  BY <1>1
<1>5. netCount \in Nat /\ prevNet \in {None, netCount} /\ reported \in Int /\ traffic \in Nat
  BY <1>1
<1> QED BY <1>1, <1>2, <1>3, <1>4, <1>5 DEF TrafficInv, CountersOK, DeltasAddUp

(* However often the counter begins anew and the client starts, what the   *)
(* samples report is never more than what arrived, and all of it while the *)
(* counter ran on (collector/network.py).                                  *)
THEOREM DeltasSumToTraffic == SensingSpec => []DeltasAddUp
<1>1. SensingInit => TrafficInv
  BY TrafficAtFirst
<1>2. TrafficInv => DeltasAddUp
  BY DEF TrafficInv
<1> QED BY <1>1, <1>2, TrafficNext, PTL DEF SensingSpec
-----------------------------------------------------------------------------
(***************************************************************************)
(* The keys.  What a run in progress is about is not issued; two runs that *)
(* meet know it, both; and the file of a run that is alone is its own.     *)
(***************************************************************************)
RunFields == {"step", "kind", "lines", "out", "pepper", "alone"}
KeyLine == [pc : RegPc, key : Nat]
RunsOK ==
    /\ DOMAIN tool = Tool /\ DOMAIN keyFile = Output
    /\ DOMAIN pcInfo = RegPc /\ DOMAIN issued = RegPc
    /\ made \in Nat
    /\ \A t \in Tool : DOMAIN tool[t] = RunFields /\ tool[t].alone \in BOOLEAN

Written(t) == tool[t].lines \in Seq(KeyLine) /\ tool[t].pepper \in Pepper

Withheld(t) == \A p \in RegPc : p \in PcsOf(tool[t].lines) => issued[p] = None
OwnFile(t) == tool[t].alone => keyFile[tool[t].out] = tool[t].lines
Apart(t, u) == Meet(tool[t], tool[u]) => ~tool[t].alone /\ ~tool[u].alone

Known(p) ==
    issued[p] # None =>
        /\ LastKey(keyFile[issued[p].out], p) = issued[p].key
        /\ pcInfo[p] # None /\ pcInfo[p].active
        /\ pcInfo[p].apiKey = Hash(issued[p].pepper, issued[p].key)

KeysInv ==
    /\ RunsOK
    /\ \A t \in InProgress : Written(t) /\ Withheld(t) /\ OwnFile(t)
    /\ \A t, u \in InProgress : t # u => Apart(t, u)
    /\ \A p \in RegPc : Known(p)

LEMMA BoundedMax ==
    ASSUME NEW n \in Nat, NEW S \in SUBSET (1 .. n), S # {}
    PROVE  Max(S) \in S
<1> DEFINE T == {j \in Nat : \A y \in S : y <= j}
<1>1. n \in T /\ T \in SUBSET Nat
  OBVIOUS
<1>2. PICK m \in T : \A j \in T : m <= j
  <2> HIDE DEF T
  <2> QED BY <1>1, LeastNatural
<1>3. m \in S
  <2> SUFFICES ASSUME m \notin S PROVE FALSE
    OBVIOUS
  <2>1. \A y \in S : y \in Nat /\ y > 0 /\ y <= m /\ y # m
    BY <1>2
  <2>2. PICK y \in S : TRUE
    OBVIOUS
  <2>3. m - 1 \in Nat /\ \A z \in S : z <= m - 1
    BY <1>2, <2>1, <2>2
  <2>4. m - 1 \in T
    BY <2>3
  <2> QED BY <1>2, <2>4
<1>4. \A y \in S : m >= y
  BY <1>2
<1> QED BY <1>3, <1>4 DEF Max

LEMMA LastKeyTyped ==
    ASSUME NEW lines \in Seq(KeyLine), NEW p \in PcsOf(lines)
    PROVE  LastKey(lines, p) \in Nat
<1> DEFINE S == {k \in DOMAIN lines : lines[k].pc = p}
           n == Len(lines)
<1>1. n \in Nat /\ S \in SUBSET (1 .. n) /\ S # {}
  BY DEF PcsOf
<1>2. Max(S) \in S
  <2> HIDE DEF S, n
  <2> QED BY <1>1, BoundedMax
<1>3. \A k \in DOMAIN lines : lines[k] \in KeyLine
  <2> HIDE DEF KeyLine
  <2> QED OBVIOUS
<1>4. lines[Max(S)] \in KeyLine
  BY <1>2, <1>3
<1> QED BY <1>4 DEF LastKey, KeyLine

LEMMA StoredIsRow ==
    ASSUME NEW x, x.lines \in Seq(KeyLine), x.pepper \in Pepper, NEW p \in PcsOf(x.lines)
    PROVE  Stored(x, p) # None
<1> DEFINE a == (x.kind = "provision" \/ pcInfo[p].active)
<1>1. LastKey(x.lines, p) \in Nat
  <2> DEFINE l == x.lines
  <2>1. l \in Seq(KeyLine) /\ p \in PcsOf(l)
    OBVIOUS
  <2> HIDE DEF l
  <2>2. LastKey(l, p) \in Nat
    BY <2>1, LastKeyTyped
  <2> QED BY <2>2 DEF l
<1> DEFINE h == <<x.pepper, LastKey(x.lines, p)>>
<1>2. h \in Pepper \X Nat /\ a \in BOOLEAN
  BY <1>1
<1>3. Stored(x, p) = [apiKey |-> h, active |-> a]
  BY DEF Stored, Hash
<1> HIDE DEF h, a
<1> QED BY <1>2, <1>3, UpkeepAssumption

LEMMA MeetIsMutual == ASSUME NEW x, NEW y PROVE Meet(x, y) <=> Meet(y, x)
  BY DEF Meet

(* A run begins: it meets others, or takes the file for itself.            *)
LEMMA WriteKeysKeeps ==
    ASSUME KeysInv, NEW t \in Tool, NEW kind, NEW lines \in Seq(KeyLine), NEW step,
           WriteKeys(t, kind, lines, step)
    PROVE  KeysInv'
<1>1. PICK out \in Output, pepper \in Pepper, dry \in BOOLEAN :
         LET x == [step |-> IF dry THEN "done" ELSE step, kind |-> kind, lines |-> lines,
                   out |-> out, pepper |-> pepper, alone |-> TRUE]
             met == {q \in InProgress : Meet(x, tool[q])}
         IN  /\ t \notin InProgress
             /\ toolRuns < MaxTools
             /\ toolRuns' = toolRuns + 1
             /\ made' = made + Len(lines)
             /\ keyFile' = [keyFile EXCEPT ![out] = lines]
             /\ tool' = [q \in Tool |-> IF q = t THEN [x EXCEPT !.alone = met = {}]
                                        ELSE IF q \in met THEN [tool[q] EXCEPT !.alone = FALSE]
                                        ELSE tool[q]]
             /\ issued' = [p \in RegPc |->
                   IF p \in PcsOf(lines) \/ (issued[p] # None /\ issued[p].out = out)
                   THEN None ELSE issued[p]]
             /\ UNCHANGED <<pcInfo, metricDays, today, prunedTo>>
  BY Zenon DEF WriteKeys
<1> USE DEF KeysInv, RunsOK
<1> DEFINE x == [step |-> IF dry THEN "done" ELSE step, kind |-> kind, lines |-> lines,
                 out |-> out, pepper |-> pepper, alone |-> TRUE]
           met == {q \in InProgress : Meet(x, tool[q])}
<1>2. /\ tool'[t].lines = lines /\ tool'[t].out = out /\ tool'[t].alone = (met = {})
      /\ tool'[t].pepper = pepper /\ DOMAIN tool'[t] = RunFields
  BY <1>1 DEF RunFields
<1>3. ASSUME NEW q \in Tool, q # t
      PROVE  /\ tool'[q].lines = tool[q].lines /\ tool'[q].out = tool[q].out
             /\ tool'[q].step = tool[q].step /\ tool'[q].pepper = tool[q].pepper
             /\ tool'[q].alone = (tool[q].alone /\ q \notin met)
             /\ DOMAIN tool'[q] = RunFields
  <2>1. CASE q \in met
    <3>1. tool'[q] = [tool[q] EXCEPT !.alone = FALSE]
      BY <1>1, <1>3, <2>1
    <3> QED BY <2>1, <3>1 DEF RunFields
  <2>2. CASE q \notin met
    <3>1. tool'[q] = tool[q]
      BY <1>1, <1>3, <2>2
    <3> QED BY <2>2, <3>1
  <2> QED BY <2>1, <2>2
<1>4. RunsOK'
  <2>1. \A q \in Tool : DOMAIN tool'[q] = RunFields /\ tool'[q].alone \in BOOLEAN
    BY <1>2, <1>3
  <2>2. made' \in Nat
    BY <1>1
  <2> QED BY <1>1, <2>1, <2>2
<1>5. ASSUME NEW q \in InProgress' PROVE q = t \/ q \in InProgress
  BY <1>3, <1>5 DEF InProgress
<1>6. ASSUME NEW q \in InProgress, q # t PROVE Meet(tool'[t], tool'[q]) <=> q \in met
  <2>1. q \in Tool
    BY <1>6 DEF InProgress
  <2> QED BY <1>2, <1>3, <1>6, <2>1 DEF Meet
<1>7. ASSUME NEW q \in InProgress' PROVE Written(q)' /\ Withheld(q)' /\ OwnFile(q)'
  <2>1. CASE q = t
    <3>1. Written(t)'
      BY <1>1, <1>2 DEF Written, KeyLine
    <3>2. \A p \in RegPc : p \in PcsOf(lines) => issued'[p] = None
      BY <1>1
    <3>3. Withheld(t)'
      <4> HIDE DEF KeysInv
      <4> QED BY <1>2, <3>2 DEF Withheld, PcsOf
    <3>4. OwnFile(t)'
      BY <1>1, <1>2 DEF OwnFile
    <3> QED BY <2>1, <3>1, <3>3, <3>4
  <2>2. CASE q # t
    <3>1. q \in InProgress /\ q \in Tool
      BY <1>5, <2>2 DEF InProgress
    <3>2. Withheld(q)'
      BY <1>1, <1>3, <2>2, <3>1 DEF Withheld
    <3>3. ASSUME tool'[q].alone PROVE keyFile'[tool'[q].out] = tool'[q].lines
      <4>1. tool[q].alone /\ q \notin met
        BY <1>3, <2>2, <3>1, <3>3
      <4>2. tool[q].out # out
        BY <3>1, <4>1 DEF Meet
      <4>3. keyFile'[tool[q].out] = keyFile[tool[q].out]
        BY <1>1, <4>2
      <4> QED BY <1>3, <2>2, <3>1, <4>1, <4>3 DEF OwnFile
    <3>4. Written(q)'
      BY <1>3, <2>2, <3>1 DEF Written, KeyLine
    <3> QED BY <3>2, <3>3, <3>4 DEF OwnFile
  <2> QED BY <2>1, <2>2
<1>8. ASSUME NEW q \in InProgress', NEW u \in InProgress', q # u PROVE Apart(q, u)'
  <2>1. CASE q = t
    <3>1. u \in InProgress /\ u \in Tool /\ u # t
      BY <1>5, <1>8, <2>1 DEF InProgress
    <3> QED BY <1>2, <1>3, <1>6, <2>1, <3>1 DEF Apart
  <2>2. CASE u = t
    <3>1. q \in InProgress /\ q \in Tool /\ q # t
      BY <1>5, <1>8, <2>2 DEF InProgress
    <3>2. Meet(tool'[q], tool'[t]) => ~tool'[t].alone /\ ~tool'[q].alone
      BY <1>2, <1>3, <1>6, <3>1, MeetIsMutual
    <3> QED BY <2>2, <3>2 DEF Apart
  <2>3. CASE q # t /\ u # t
    <3>1. q \in InProgress /\ q \in Tool /\ u \in InProgress /\ u \in Tool
      BY <1>5, <2>3 DEF InProgress
    <3>2. Apart(q, u)
      BY <1>8, <3>1
    <3>3. Meet(tool'[q], tool'[u]) <=> Meet(tool[q], tool[u])
      BY <1>3, <2>3, <3>1 DEF Meet
    <3> QED BY <1>3, <2>3, <3>1, <3>2, <3>3 DEF Apart
  <2> QED BY <2>1, <2>2, <2>3
<1>9. ASSUME NEW p \in RegPc PROVE Known(p)'
  <2> SUFFICES ASSUME issued'[p] # None
               PROVE  /\ LastKey(keyFile'[issued'[p].out], p) = issued'[p].key
                      /\ pcInfo'[p] # None /\ pcInfo'[p].active
                      /\ pcInfo'[p].apiKey = Hash(issued'[p].pepper, issued'[p].key)
    BY DEF Known, LastKey, Hash
  <2>1. issued'[p] = issued[p] /\ issued[p] # None /\ issued[p].out # out
    BY <1>1
  <2>2. keyFile'[issued[p].out] = keyFile[issued[p].out]
    BY <1>1, <2>1
  <2> QED BY <1>1, <2>1, <2>2 DEF Known
<1> QED BY <1>4, <1>7, <1>8, <1>9

(* A run ends, or gets its answer, without another row being touched.      *)
LEMMA StepKeeps ==
    ASSUME KeysInv, NEW t \in Tool, NEW s,
           tool' = [tool EXCEPT ![t].step = s], keyFile' = keyFile,
           s \in {"confirm", "update"} => t \in InProgress
    PROVE  /\ \A q \in InProgress' : q \in InProgress
           /\ \A q \in Tool : /\ tool'[q].lines = tool[q].lines /\ tool'[q].out = tool[q].out
                              /\ tool'[q].alone = tool[q].alone
                              /\ tool'[q].pepper = tool[q].pepper
                              /\ DOMAIN tool'[q] = RunFields
           /\ DOMAIN tool' = Tool
           /\ \A q \in InProgress' : Written(q)' /\ OwnFile(q)'
           /\ \A q, u \in InProgress' : q # u => Apart(q, u)'
<1> USE DEF KeysInv, RunsOK
<1>1. DOMAIN tool' = Tool
  OBVIOUS
<1>2. ASSUME NEW q \in Tool
      PROVE  /\ tool'[q].lines = tool[q].lines /\ tool'[q].out = tool[q].out
             /\ tool'[q].alone = tool[q].alone /\ DOMAIN tool'[q] = RunFields
             /\ tool'[q].pepper = tool[q].pepper
             /\ q # t => tool'[q].step = tool[q].step
             /\ q = t => tool'[q].step = s
  <2>1. CASE q = t
    <3>1. tool'[q] = [tool[q] EXCEPT !.step = s]
      BY <2>1
    <3> QED BY <2>1, <3>1 DEF RunFields
  <2>2. CASE q # t
    <3>1. tool'[q] = tool[q]
      BY <2>2
    <3> QED BY <2>2, <3>1
  <2> QED BY <2>1, <2>2
<1>3. ASSUME NEW q \in InProgress' PROVE q \in InProgress /\ q \in Tool
  BY <1>2, <1>3 DEF InProgress
<1>4. ASSUME NEW q \in InProgress' PROVE Written(q)' /\ OwnFile(q)'
  <2>1. Written(q) /\ OwnFile(q) /\ q \in Tool
    BY <1>3, <1>4
  <2> QED BY <1>2, <2>1 DEF OwnFile, Written, KeyLine
<1>5. ASSUME NEW q \in InProgress', NEW u \in InProgress', q # u PROVE Apart(q, u)'
  <2>1. Apart(q, u) /\ q \in Tool /\ u \in Tool
    BY <1>3, <1>5
  <2> QED BY <1>2, <2>1 DEF Apart, Meet
<1> QED BY <1>1, <1>2, <1>3, <1>4, <1>5

(* The transaction: the row and the file agree, or the row is nobody's.    *)
LEMMA ExecuteKeeps ==
    ASSUME KeysInv, NEW t \in Tool, ExecuteUpdate(t)
    PROVE  KeysInv'
<1> DEFINE x == tool[t]
           s == tool'[t].step
<1>1. PICK commits \in BOOLEAN, told \in BOOLEAN :
         /\ told => commits
         /\ pcInfo' = [p \in RegPc |-> IF commits /\ p \in PcsOf(x.lines) THEN Stored(x, p)
                                       ELSE pcInfo[p]]
         /\ tool' = [tool EXCEPT ![t].step = IF told THEN "done" ELSE "failed"]
         /\ issued' = [p \in RegPc |->
               IF told /\ x.alone /\ p \in PcsOf(x.lines) /\ Stored(x, p).active
               THEN [key |-> LastKey(x.lines, p), pepper |-> x.pepper, out |-> x.out]
               ELSE issued[p]]
  BY Zenon DEF ExecuteUpdate
<1>2. x.step = "update" /\ keyFile' = keyFile /\ t \in InProgress
  BY DEF ExecuteUpdate, InProgress
<1> USE DEF KeysInv, RunsOK
<1> DEFINE e == IF told THEN "done" ELSE "failed"
<1>3. /\ \A q \in InProgress' : q \in InProgress
      /\ \A q \in Tool : /\ tool'[q].lines = tool[q].lines /\ tool'[q].out = tool[q].out
                         /\ tool'[q].alone = tool[q].alone
                         /\ tool'[q].pepper = tool[q].pepper
                         /\ DOMAIN tool'[q] = RunFields
      /\ DOMAIN tool' = Tool
      /\ \A q \in InProgress' : Written(q)' /\ OwnFile(q)'
      /\ \A q, u \in InProgress' : q # u => Apart(q, u)'
  <2>1. tool' = [tool EXCEPT ![t].step = e]
    BY <1>1
  <2>2. e \in {"confirm", "update"} => t \in InProgress
    BY <1>2
  <2> HIDE DEF e
  <2> QED BY <1>2, <2>1, <2>2, StepKeeps
<1>4. RunsOK'
  BY <1>1, <1>2, <1>3 DEF ExecuteUpdate
<1>5. t \notin InProgress'
  <2>1. tool'[t].step \in {"done", "failed"}
    BY <1>1 DEF RunFields
  <2> QED BY <2>1 DEF InProgress
<1>6. ASSUME NEW q \in InProgress' PROVE Withheld(q)'
  <2>1. q \in InProgress /\ q \in Tool /\ q # t
    BY <1>3, <1>5, <1>6 DEF InProgress
  <2>2. Withheld(q) /\ Apart(q, t)
    BY <1>2, <2>1
  <2>3. ASSUME NEW p \in RegPc, p \in PcsOf(tool[q].lines) PROVE issued'[p] = None
    <3>1. x.alone => p \notin PcsOf(x.lines)
      BY <2>2, <2>3 DEF Apart, Meet
    <3>2. issued'[p] = issued[p]
      BY <1>1, <3>1
    <3> QED BY <2>2, <2>3, <3>2 DEF Withheld
  <2> QED BY <1>3, <2>1, <2>3 DEF Withheld
<1>7. ASSUME NEW p \in RegPc PROVE Known(p)'
  <2> SUFFICES ASSUME issued'[p] # None
               PROVE  /\ LastKey(keyFile[issued'[p].out], p) = issued'[p].key
                      /\ pcInfo'[p] # None /\ pcInfo'[p].active
                      /\ pcInfo'[p].apiKey = Hash(issued'[p].pepper, issued'[p].key)
    BY <1>2 DEF Known, LastKey, Hash
  <2>1. CASE told /\ x.alone /\ p \in PcsOf(x.lines) /\ Stored(x, p).active
    <3>1. issued'[p] = [key |-> LastKey(x.lines, p), pepper |-> x.pepper, out |-> x.out]
      BY <1>1, <2>1
    <3>2. pcInfo'[p] = Stored(x, p)
      BY <1>1, <2>1
    <3>3. x.lines \in Seq(KeyLine) /\ x.pepper \in Pepper
      BY <1>2 DEF Written
    <3>4. Stored(x, p) # None
      <4> DEFINE y == x
      <4>1. y.lines \in Seq(KeyLine) /\ y.pepper \in Pepper /\ p \in PcsOf(y.lines)
        BY <2>1, <3>3
      <4> HIDE DEF y
      <4>2. Stored(y, p) # None
        BY <4>1, StoredIsRow
      <4> QED BY <4>2 DEF y
    <3>5. keyFile[x.out] = x.lines
      BY <1>2, <2>1 DEF OwnFile
    <3>6. Stored(x, p).active /\ Stored(x, p).apiKey = Hash(x.pepper, LastKey(x.lines, p))
      BY <2>1 DEF Stored
    <3> QED BY <3>1, <3>2, <3>4, <3>5, <3>6
  <2>2. CASE ~(told /\ x.alone /\ p \in PcsOf(x.lines) /\ Stored(x, p).active)
    <3>1. issued'[p] = issued[p]
      BY <1>1, <2>2
    <3>2. p \notin PcsOf(x.lines)
      BY <1>2, <3>1 DEF Withheld
    <3>3. pcInfo'[p] = pcInfo[p]
      BY <1>1, <3>2
    <3> QED BY <3>1, <3>3 DEF Known
  <2> QED BY <2>1, <2>2
<1> QED BY <1>3, <1>4, <1>6, <1>7
-----------------------------------------------------------------------------
LEMMA ConfirmKeeps ==
    ASSUME KeysInv, NEW t \in Tool, ConfirmOverwrite(t)
    PROVE  KeysInv'
<1>1. PICK answer \in {"update", "aborted"} : tool' = [tool EXCEPT ![t].step = answer]
  BY DEF ConfirmOverwrite
<1>2. /\ t \in InProgress
      /\ UNCHANGED <<pcInfo, keyFile, issued, made>>
  BY DEF ConfirmOverwrite, InProgress
<1>3. /\ \A q \in InProgress' : q \in InProgress
      /\ \A q \in Tool : /\ tool'[q].lines = tool[q].lines /\ tool'[q].out = tool[q].out
                         /\ tool'[q].alone = tool[q].alone
                         /\ DOMAIN tool'[q] = RunFields
      /\ DOMAIN tool' = Tool
      /\ \A q \in InProgress' : Written(q)' /\ OwnFile(q)'
      /\ \A q, u \in InProgress' : q # u => Apart(q, u)'
  BY <1>1, <1>2, StepKeeps
<1>4. \A q \in InProgress' : Withheld(q)'
  <2> SUFFICES ASSUME NEW q \in InProgress' PROVE Withheld(q)'
    OBVIOUS
  <2>1. q \in Tool /\ Withheld(q)
    BY <1>3 DEF InProgress, KeysInv
  <2> QED BY <1>2, <1>3, <2>1 DEF Withheld
<1>5. \A p \in RegPc : Known(p)'
  BY <1>2 DEF KeysInv, Known, LastKey, Hash
<1> QED BY <1>2, <1>3, <1>4, <1>5 DEF KeysInv, RunsOK

(* A PC is revoked, or not: no run in progress is another's.               *)
LEMMA RevokeKeeps ==
    ASSUME KeysInv, NEW t \in Tool, RevokeOne(t) \/ RevokeStale(t)
    PROVE  KeysInv'
<1> DEFINE done == tool'[t]
<1>1. PICK step \in {"done", "failed"} :
         tool' = [tool EXCEPT ![t] = [NoRun EXCEPT !.kind = "revoke", !.step = step]]
  <2>1. CASE RevokeOne(t)
    <3>1. PICK p \in RegPc, works \in BOOLEAN :
             tool' = [tool EXCEPT ![t] = [NoRun EXCEPT !.kind = "revoke",
                                             !.step = IF works THEN "done" ELSE "failed"]]
      BY <2>1 DEF RevokeOne
    <3> DEFINE step == IF works THEN "done" ELSE "failed"
    <3>2. step \in {"done", "failed"}
      OBVIOUS
    <3> QED BY <3>1, <3>2
  <2>2. CASE RevokeStale(t)
    BY <2>2 DEF RevokeStale
  <2> QED BY <2>1, <2>2
<1>2. t \notin InProgress /\ keyFile' = keyFile /\ made' = made
  BY DEF RevokeOne, RevokeStale
<1>3. /\ DOMAIN issued' = RegPc /\ DOMAIN pcInfo' = RegPc
      /\ \A p \in RegPc : \/ issued'[p] = None
                          \/ issued'[p] = issued[p] /\ pcInfo'[p] = pcInfo[p]
  <2>1. CASE RevokeOne(t)
    <3>1. PICK p \in RegPc, works \in BOOLEAN :
             /\ pcInfo' = [pcInfo EXCEPT ![p] = IF works /\ @ # None
                                                THEN [@ EXCEPT !.active = FALSE] ELSE @]
             /\ issued' = [issued EXCEPT ![p] = None]
      BY <2>1 DEF RevokeOne
    <3> QED BY <3>1 DEF KeysInv, RunsOK
  <2>2. CASE RevokeStale(t)
    BY <2>2 DEF RevokeStale, KeysInv, RunsOK
  <2> QED BY <2>1, <2>2
<1>4. /\ DOMAIN done = RunFields /\ done.alone = TRUE /\ done.step \in {"done", "failed"}
      /\ DOMAIN tool' = Tool /\ \A q \in Tool : q # t => tool'[q] = tool[q]
  BY <1>1 DEF KeysInv, RunsOK, NoRun, RunFields
<1>5. ASSUME NEW q \in InProgress' PROVE q \in InProgress /\ q \in Tool /\ tool'[q] = tool[q]
  <2>1. q # t /\ q \in Tool
    BY <1>4, <1>5 DEF InProgress
  <2> QED BY <1>4, <1>5, <2>1 DEF InProgress
<1>6. RunsOK'
  <2>1. ASSUME NEW q \in Tool PROVE DOMAIN tool'[q] = RunFields /\ tool'[q].alone \in BOOLEAN
    BY <1>4 DEF KeysInv, RunsOK
  <2> QED BY <1>2, <1>3, <1>4, <2>1 DEF KeysInv, RunsOK
<1>7. ASSUME NEW q \in InProgress' PROVE Written(q)' /\ Withheld(q)' /\ OwnFile(q)'
  <2>1. Written(q) /\ Withheld(q) /\ OwnFile(q) /\ tool'[q] = tool[q]
    BY <1>5 DEF KeysInv
  <2>2. Written(q)'
    BY <2>1 DEF Written, KeyLine
  <2>3. Withheld(q)'
    BY <1>3, <2>1 DEF Withheld, PcsOf
  <2>4. OwnFile(q)'
    BY <1>2, <2>1 DEF OwnFile
  <2> QED BY <2>2, <2>3, <2>4
<1>8. ASSUME NEW q \in InProgress', NEW u \in InProgress', q # u PROVE Apart(q, u)'
  <2>1. Apart(q, u) /\ tool'[q] = tool[q] /\ tool'[u] = tool[u]
    BY <1>5, <1>8 DEF KeysInv
  <2> QED BY <2>1 DEF Apart, Meet, PcsOf
<1>9. ASSUME NEW p \in RegPc PROVE Known(p)'
  <2>1. Known(p)
    BY DEF KeysInv
  <2> QED BY <1>2, <1>3, <2>1 DEF Known, LastKey, Hash
<1> QED BY <1>6, <1>7, <1>8, <1>9 DEF KeysInv

LEMMA KeysNext == KeysInv /\ [UpkeepNext]_upkeepVars => KeysInv'
<1> SUFFICES ASSUME KeysInv, [UpkeepNext]_upkeepVars PROVE KeysInv'
  OBVIOUS
<1>1. ASSUME NEW t \in Tool, Provision(t) PROVE KeysInv'
  <2>1. PICK pcs \in Batch :
           WriteKeys(t, "provision", [k \in DOMAIN pcs |-> [pc |-> pcs[k], key |-> made + k]],
                     "confirm")
    BY <1>1 DEF Provision
  <2> DEFINE lines == [k \in DOMAIN pcs |-> [pc |-> pcs[k], key |-> made + k]]
             n == Len(pcs)
  <2>2. pcs \in Seq(RegPc) /\ made \in Nat
    BY UpkeepAssumption DEF KeysInv, RunsOK
  <2>3. n \in Nat /\ DOMAIN pcs = 1 .. n
    BY <2>2
  <2>4. \A k \in 1 .. n : [pc |-> pcs[k], key |-> made + k] \in KeyLine
    BY <2>2, <2>3 DEF KeyLine
  <2>5. lines = [k \in 1 .. n |-> [pc |-> pcs[k], key |-> made + k]]
    BY <2>3
  <2>6. lines \in Seq(KeyLine)
    <3> HIDE DEF KeyLine, n
    <3> QED BY <2>3, <2>4, <2>5
  <2>7. WriteKeys(t, "provision", lines, "confirm")
    BY <2>1
  <2> HIDE DEF lines
  <2> QED BY <2>6, <2>7, WriteKeysKeeps
<1>2. ASSUME NEW t \in Tool, Rotate(t) PROVE KeysInv'
  <2>1. PICK p \in RegPc : WriteKeys(t, "rotate", <<[pc |-> p, key |-> made + 1]>>, "update")
    BY <1>2 DEF Rotate
  <2> DEFINE lines == <<[pc |-> p, key |-> made + 1]>>
  <2>2. lines \in Seq(KeyLine)
    BY DEF KeysInv, RunsOK, KeyLine
  <2>3. WriteKeys(t, "rotate", lines, "update")
    BY <2>1
  <2> HIDE DEF lines
  <2> QED BY <2>2, <2>3, WriteKeysKeeps
<1>3. ASSUME UNCHANGED <<pcInfo, keyFile, tool, issued, made>> PROVE KeysInv'
  <2>1. RunsOK'
    BY <1>3 DEF KeysInv, RunsOK
  <2>2. InProgress' = InProgress
    BY <1>3 DEF InProgress
  <2>3. \A t \in InProgress : Written(t)' /\ Withheld(t)' /\ OwnFile(t)'
    BY <1>3 DEF KeysInv, Written, Withheld, OwnFile, PcsOf, KeyLine
  <2>4. ASSUME NEW t \in InProgress, NEW u \in InProgress, t # u PROVE Apart(t, u)'
    <3>1. Apart(t, u)
      BY <2>4 DEF KeysInv
    <3> QED BY <1>3, <3>1 DEF Apart, Meet, PcsOf
  <2>5. \A p \in RegPc : Known(p)'
    BY <1>3 DEF KeysInv, Known, LastKey, Hash
  <2> QED BY <2>1, <2>2, <2>3, <2>4, <2>5 DEF KeysInv
<1>4. CASE StoreMetrics \/ Prune \/ UNCHANGED upkeepVars
  BY <1>3, <1>4 DEF StoreMetrics, Prune, upkeepVars
<1> QED
  BY <1>1, <1>2, <1>4, ConfirmKeeps, ExecuteKeeps, RevokeKeeps DEF UpkeepNext

LEMMA KeysAtFirst == ASSUME UpkeepInit PROVE KeysInv
<1>1. \A t \in Tool : tool[t] = NoRun
  BY DEF UpkeepInit
<1>2. InProgress = {}
  BY <1>1 DEF InProgress, NoRun
<1>3. RunsOK
  BY <1>1, UpkeepAssumption DEF UpkeepInit, RunsOK, NoRun, RunFields
<1>4. \A p \in RegPc : Known(p)
  BY DEF UpkeepInit, Known
<1> QED BY <1>2, <1>3, <1>4 DEF KeysInv

(* However the tools overlap, fail, stop at a question or only try out,    *)
(* the key in the file of a run that reported success alone is the one     *)
(* that the server accepts, until a run touches the PC or the file again   *)
(* (provision_pcs.py, rotate_pc_key.py, revoke_pc.py, ApiKeyAuthFilter).   *)
THEOREM IssuedKeysWork == UpkeepSpec => []IssuedKeyWorks
<1>1. UpkeepInit => KeysInv
  BY KeysAtFirst
<1>2. KeysInv => IssuedKeyWorks
  BY DEF KeysInv, Known, IssuedKeyWorks, Accepted
<1> QED BY <1>1, <1>2, KeysNext, PTL DEF UpkeepSpec
-----------------------------------------------------------------------------
(***************************************************************************)
(* The window and the buffer of a PC are consecutive pieces of what was    *)
(* taken: c[k] is where the k-th of them ends.                             *)
(***************************************************************************)
Piecewise(w, b, t, c) ==
    /\ c \in [0 .. Len(w) -> 0 .. Len(t)]
    /\ \A k \in 1 .. Len(w) :
          c[k - 1] <= c[k] /\ w[k].samples = SubSeq(t, c[k - 1] + 1, c[k])
    /\ Len(w) < AGGREGATE_WINDOW_MAX => c[0] = 0
    /\ b = SubSeq(t, c[Len(w)] + 1, Len(t))

Pieces(w, b, t) == \E c \in [0 .. Len(w) -> 0 .. Len(t)] : Piecewise(w, b, t, c)

(* A sample joins the buffer.                                              *)
LEMMA TakeKeeps ==
    ASSUME NEW S, NEW t \in Seq(S), NEW e \in S, NEW w, Len(w) \in Nat, NEW b, Pieces(w, b, t)
    PROVE  Pieces(w, Append(b, e), Append(t, e))
<1> DEFINE n == Len(w)
           u == Append(t, e)
<1>1. PICK c \in [0 .. n -> 0 .. Len(t)] : Piecewise(w, b, t, c)
  BY DEF Pieces
<1>2. Len(t) \in Nat /\ u \in Seq(S) /\ Len(u) = Len(t) + 1
  OBVIOUS
<1>3. c \in [0 .. n -> 0 .. Len(u)]
  <2>1. \A k \in 0 .. n : c[k] \in 0 .. Len(u)
    BY <1>2
  <2> QED BY <2>1
<1>4. ASSUME NEW i \in 0 .. Len(t), NEW j \in 0 .. Len(t)
      PROVE  SubSeq(u, i + 1, j) = SubSeq(t, i + 1, j)
  BY <1>2, <1>4
<1>5. ASSUME NEW k \in 1 .. n
      PROVE  c[k - 1] <= c[k] /\ w[k].samples = SubSeq(u, c[k - 1] + 1, c[k])
  <2>1. c[k - 1] \in 0 .. Len(t) /\ c[k] \in 0 .. Len(t)
    OBVIOUS
  <2>2. SubSeq(u, c[k - 1] + 1, c[k]) = SubSeq(t, c[k - 1] + 1, c[k])
    BY <1>4, <2>1
  <2> QED BY <1>1, <2>2 DEF Piecewise
<1>6. Append(b, e) = SubSeq(u, c[n] + 1, Len(u))
  <2> DEFINE m == c[n]
  <2>1. m \in 0 .. Len(t) /\ b = SubSeq(t, m + 1, Len(t))
    BY <1>1 DEF Piecewise
  <2> HIDE DEF m
  <2>2. b \in Seq(S) /\ Len(b) = Len(t) - m /\ \A i \in 1 .. Len(t) - m : b[i] = t[m + i]
    BY <1>2, <2>1
  <2> DEFINE x == Append(b, e)
             y == SubSeq(u, m + 1, Len(u))
  <2>3. x \in Seq(S) /\ Len(x) = Len(t) - m + 1
    BY <1>2, <2>1, <2>2
  <2>4. y \in Seq(S) /\ Len(y) = Len(t) - m + 1
    BY <1>2, <2>1
  <2>5. ASSUME NEW i \in 1 .. Len(t) - m + 1 PROVE x[i] = y[i]
    <3>1. y[i] = u[m + i]
      <4>1. \A j \in m + 1 .. Len(u) : u[j] \in S
        BY <1>2, <2>1
      <4>2. m + 1 \in Int /\ Len(u) \in Int /\ i \in 1 .. Len(u) - (m + 1) + 1
            /\ (m + 1) + i - 1 = m + i
        BY <1>2, <2>1
      <4> HIDE DEF u
      <4>3. y[i] = u[(m + 1) + i - 1]
        BY <4>1, <4>2, SubSeqProperties
      <4> HIDE DEF y
      <4> QED BY <4>2, <4>3
    <3>2. CASE i \in 1 .. Len(t) - m
      <4>1. x[i] = b[i] /\ b[i] = t[m + i]
        BY <2>2, <3>2
      <4>2. m + i \in 1 .. Len(t)
        BY <1>2, <2>1, <3>2
      <4>3. u[m + i] = t[m + i]
        BY <4>2
      <4> HIDE DEF x, y, u
      <4> QED BY <3>1, <4>1, <4>3
    <3>3. CASE i = Len(t) - m + 1
      <4>1. x[i] = e
        BY <2>2, <3>3
      <4>2. m + i = Len(t) + 1
        BY <1>2, <2>1, <3>3
      <4>3. u[m + i] = e
        BY <4>2
      <4> HIDE DEF x, y, u
      <4> QED BY <3>1, <4>1, <4>3
    <3>4. i \in 1 .. Len(t) - m \/ i = Len(t) - m + 1
      BY <1>2, <2>1
    <3> HIDE DEF x, y
    <3> QED BY <3>2, <3>3, <3>4
  <2> HIDE DEF x, y
  <2>6. x = y
    BY <2>3, <2>4, <2>5, SeqEqual
  <2> QED BY <2>6 DEF x, y, m
<1> QED BY <1>1, <1>3, <1>5, <1>6 DEF Pieces, Piecewise

(* The buffer is frozen and becomes the newest aggregate, unless it is     *)
(* empty; the oldest is dropped when the window is full.                   *)
LEMMA FreezeKeeps ==
    ASSUME NEW S, NEW t \in Seq(S), NEW A, NEW w \in Seq(A), NEW b,
           [ts |-> b.start, samples |-> b.samples] \in A,
           Len(w) <= AGGREGATE_WINDOW_MAX, Pieces(w, b.samples, t)
    PROVE  Pieces(Freeze(w, b), <<>>, t)
<1> DEFINE n == Len(w)
           M == AGGREGATE_WINDOW_MAX
           a == [ts |-> b.start, samples |-> b.samples]
           x == Append(w, a)
<1>1. PICK c \in [0 .. n -> 0 .. Len(t)] : Piecewise(w, b.samples, t, c)
  BY DEF Pieces
<1>2. n \in Nat /\ Len(t) \in Nat /\ M \in Nat /\ c[n] \in 0 .. Len(t)
  BY WindowAssumption
<1>3. CASE b.samples = <<>>
  <2>1. Freeze(w, b) = w
    BY <1>3 DEF Freeze
  <2> QED BY <1>1, <1>3, <2>1 DEF Pieces
<1>4. CASE b.samples # <<>>
  <2> DEFINE d == [k \in 0 .. n + 1 |-> IF k <= n THEN c[k] ELSE Len(t)]
  <2>1. x \in Seq(A) /\ Len(x) = n + 1 /\ x[n + 1] = a /\ \A k \in 1 .. n : x[k] = w[k]
    BY <1>2
  <2>2. \A k \in 0 .. n + 1 : d[k] \in 0 .. Len(t)
    BY <1>2
  <2>3. d[n + 1] = Len(t) /\ d[n] = c[n] /\ d[0] = c[0]
    BY <1>2
  <2>4. ASSUME NEW k \in 1 .. n + 1
        PROVE  d[k - 1] <= d[k] /\ x[k].samples = SubSeq(t, d[k - 1] + 1, d[k])
    <3>1. CASE k = n + 1
      <4>1. k - 1 = n
        BY <1>2, <3>1
      <4>2. x[k].samples = SubSeq(t, c[n] + 1, Len(t))
        <5>1. b.samples = SubSeq(t, c[n] + 1, Len(t))
          BY <1>1 DEF Piecewise
        <5>2. x[k] = a
          BY <2>1, <3>1
        <5>3. a.samples = b.samples
          OBVIOUS
        <5> HIDE DEF x, a, d
        <5> QED BY <5>1, <5>2, <5>3
      <4>3. d[k - 1] = c[n] /\ d[k] = Len(t)
        BY <2>3, <3>1, <4>1
      <4> HIDE DEF d, x
      <4> QED BY <1>2, <4>2, <4>3
    <3>2. CASE k \in 1 .. n
      <4>1. d[k] = c[k] /\ d[k - 1] = c[k - 1]
        BY <1>2, <3>2
      <4>2. x[k] = w[k]
        BY <2>1, <3>2
      <4> HIDE DEF d, x
      <4> QED BY <1>1, <3>2, <4>1, <4>2 DEF Piecewise
    <3>3. k = n + 1 \/ k \in 1 .. n
      BY <1>2
    <3> HIDE DEF d, x
    <3> QED BY <3>1, <3>2, <3>3
  <2>5. SubSeq(t, d[n + 1] + 1, Len(t)) = <<>>
    <3>1. SubSeq(t, Len(t) + 1, Len(t)) = <<>>
      BY <1>2
    <3> QED BY <2>3, <3>1
  <2>6. CASE n + 1 <= M
    <3>1. Freeze(w, b) = x
      BY <1>2, <1>4, <2>1, <2>6 DEF Freeze, LastOf
    <3>2. n < M /\ c[0] = 0
      BY <1>1, <1>2, <2>6 DEF Piecewise
    <3>3. d \in [0 .. Len(x) -> 0 .. Len(t)]
      BY <2>1, <2>2
    <3> HIDE DEF d, x
    <3>4. Piecewise(x, <<>>, t, d)
      BY <2>1, <2>3, <2>4, <2>5, <3>2, <3>3 DEF Piecewise
    <3> QED BY <3>1, <3>3, <3>4 DEF Pieces
  <2>7. CASE ~(n + 1 <= M)
    <3> DEFINE y == Tail(x)
               f == [k \in 0 .. n |-> d[k + 1]]
    <3>1. Freeze(w, b) = y
      BY <1>2, <1>4, <2>1, <2>7 DEF Freeze, LastOf
    <3>2. Len(y) = n /\ \A k \in 1 .. n : y[k] = x[k + 1]
      BY <1>2, <2>1
    <3>3. f \in [0 .. Len(y) -> 0 .. Len(t)]
      BY <1>2, <2>2, <3>2
    <3>4. ASSUME NEW k \in 1 .. n
          PROVE  f[k - 1] <= f[k] /\ y[k].samples = SubSeq(t, f[k - 1] + 1, f[k])
      <4>1. k + 1 \in 1 .. n + 1 /\ f[k - 1] = d[k] /\ f[k] = d[k + 1] /\ y[k] = x[k + 1]
        BY <1>2, <3>2
      <4>2. (k + 1) - 1 = k
        BY <1>2
      <4> HIDE DEF d, x, y, f
      <4> QED BY <2>4, <4>1, <4>2
    <3>5. f[n] = d[n + 1] /\ ~(n < M)
      BY <1>2, <2>7
    <3> HIDE DEF d, x, y, f
    <3>6. Piecewise(y, <<>>, t, f)
      BY <2>5, <3>2, <3>3, <3>4, <3>5 DEF Piecewise
    <3> QED BY <3>1, <3>3, <3>6 DEF Pieces
  <2> QED BY <2>6, <2>7
<1> QED BY <1>3, <1>4
-----------------------------------------------------------------------------
(* FlattenSeq of the community modules is a recursive function.            *)
Flat(q, g) == g = [i \in 1 .. Len(q) |-> IF i = 1 THEN q[i] ELSE g[i - 1] \o q[i]]

LEMMA FlattenIsFlat ==
    ASSUME NEW q, Len(q) # 0
    PROVE  FlattenSeq(q) = (CHOOSE g : Flat(q, g))[Len(q)]
  BY DEF FlattenSeq, Flat

(* The ends of the pieces are in order.                                    *)
LEMMA EndsRise ==
    ASSUME NEW n \in Nat, NEW m \in Nat, NEW c \in [0 .. n -> 0 .. m],
           \A k \in 1 .. n : c[k - 1] <= c[k]
    PROVE  \A k \in 0 .. n : c[0] <= c[k]
<1> DEFINE Q == {k \in 0 .. n : ~(c[0] <= c[k])}
<1>1. SUFFICES ASSUME Q # {} PROVE FALSE
  OBVIOUS
<1>2. Q \in SUBSET Nat
  OBVIOUS
<1>3. PICK k \in Q : \A j \in Q : k <= j
  <2> HIDE DEF Q
  <2> QED BY <1>1, <1>2, LeastNatural
<1>4. c[0] \in Int /\ c[k] \in Int /\ k \in 0 .. n
  OBVIOUS
<1>5. k # 0
  BY <1>3, <1>4
<1>6. k - 1 \in 0 .. n /\ k - 1 \notin Q /\ k \in 1 .. n
  BY <1>3, <1>4, <1>5
<1>7. c[k - 1] \in Int /\ c[0] <= c[k - 1] /\ c[k - 1] <= c[k]
  BY <1>6
<1>8. c[0] <= c[k]
  BY <1>4, <1>7
<1> QED BY <1>8

LEMMA PiecesJoin ==
    ASSUME NEW S, NEW t \in Seq(S), NEW q, NEW n \in Nat, Len(q) = n,
           NEW c \in [0 .. n -> 0 .. Len(t)],
           \A k \in 1 .. n : c[k - 1] <= c[k] /\ q[k] = SubSeq(t, c[k - 1] + 1, c[k]),
           n # 0
    PROVE  FlattenSeq(q) = SubSeq(t, c[0] + 1, c[n])
<1> DEFINE g == [i \in 1 .. n |-> SubSeq(t, c[0] + 1, c[i])]
<1>1. \A k \in 0 .. n : c[0] <= c[k] /\ c[k] \in 0 .. Len(t)
  <2>1. Len(t) \in Nat
    OBVIOUS
  <2> QED BY <2>1, EndsRise
<1>2. ASSUME NEW i \in 1 .. n, i # 1
      PROVE  SubSeq(t, c[0] + 1, c[i - 1]) \o q[i] = SubSeq(t, c[0] + 1, c[i])
  <2> DEFINE m == c[0] + 1
             k == c[i - 1]
             l == c[i]
  <2>1. i - 1 \in 0 .. n /\ i \in 0 .. n /\ 0 \in 0 .. n
    BY <1>2
  <2>2. m \in 1 .. Len(t) + 1 /\ k \in m - 1 .. Len(t) /\ l \in k .. Len(t)
    <3>1. c[0] \in 0 .. Len(t) /\ k \in 0 .. Len(t) /\ l \in 0 .. Len(t) /\ c[0] <= k /\ k <= l
      BY <1>1, <2>1
    <3> DEFINE z == c[0]
               L == Len(t)
    <3>2. L \in Nat /\ z \in 0 .. L /\ m = z + 1 /\ k \in 0 .. L /\ l \in 0 .. L /\ z <= k /\ k <= l
      BY <3>1
    <3> HIDE DEF m, k, l, z, L
    <3>3. m \in 1 .. L + 1 /\ k \in m - 1 .. L /\ l \in k .. L
      BY <3>2
    <3> QED BY <3>3 DEF L
  <2>3. q[i] = SubSeq(t, k + 1, l)
    OBVIOUS
  <2> HIDE DEF m, k, l
  <2>4. SubSeq(t, m, k) \o SubSeq(t, k + 1, l) = SubSeq(t, m, l)
    BY <2>2, ConcatAdjacentSubSeq
  <2> QED BY <2>3, <2>4 DEF m, k, l
<1>3. Flat(q, g)
  <2>1. ASSUME NEW i \in 1 .. n PROVE g[i] = IF i = 1 THEN q[i] ELSE g[i - 1] \o q[i]
    <3>1. CASE i = 1
      <4>1. q[1] = SubSeq(t, c[0] + 1, c[1])
        <5>1. 1 - 1 = 0 /\ 1 \in 1 .. n
          BY <3>1
        <5>2. q[1] = SubSeq(t, c[1 - 1] + 1, c[1])
          BY <5>1
        <5> QED BY <5>1, <5>2
      <4>2. g[1] = SubSeq(t, c[0] + 1, c[1])
        BY <3>1
      <4> QED BY <3>1, <4>1, <4>2
    <3>2. CASE i # 1
      <4>1. i - 1 \in 1 .. n
        BY <3>2
      <4>2. g[i - 1] = SubSeq(t, c[0] + 1, c[i - 1])
        BY <4>1
      <4> QED BY <1>2, <3>2, <4>2
    <3> QED BY <3>1, <3>2
  <2>2. g = [i \in 1 .. n |-> IF i = 1 THEN q[i] ELSE g[i - 1] \o q[i]]
    BY <2>1
  <2> HIDE DEF g
  <2> QED BY <2>2 DEF Flat
<1>4. ASSUME NEW h, Flat(q, h) PROVE h[n] = g[n]
  <2>1. \A i \in 1 .. n : h[i] = IF i = 1 THEN q[i] ELSE h[i - 1] \o q[i]
    BY <1>4 DEF Flat
  <2>2. \A i \in 1 .. n : g[i] = IF i = 1 THEN q[i] ELSE g[i - 1] \o q[i]
    <3> HIDE DEF g
    <3> QED BY <1>3 DEF Flat
  <2> DEFINE Q == {i \in 1 .. n : h[i] # g[i]}
  <2>0. n \in 1 .. n
    OBVIOUS
  <2>3. SUFFICES ASSUME Q # {} PROVE FALSE
    <3> HIDE DEF g
    <3> QED BY <2>0
  <2>4. Q \in SUBSET Nat
    OBVIOUS
  <2>5. PICK i \in Q : \A j \in Q : i <= j
    <3> HIDE DEF Q
    <3> QED BY <2>3, <2>4, LeastNatural
  <2> HIDE DEF g
  <2>6. i \in 1 .. n /\ h[i] # g[i]
    OBVIOUS
  <2>7. CASE i = 1
    BY <2>1, <2>2, <2>6, <2>7
  <2>8. CASE i # 1
    <3>1. i - 1 \in 1 .. n /\ ~(i <= i - 1)
      BY <2>6, <2>8
    <3>2. h[i - 1] = g[i - 1]
      BY <2>5, <3>1
    <3> QED BY <2>1, <2>2, <2>6, <2>8, <3>2
  <2> QED BY <2>7, <2>8
<1> DEFINE f == CHOOSE h : Flat(q, h)
<1>5. Flat(q, f)
  <2> HIDE DEF g
  <2> QED BY <1>3
<1>6. f[n] = g[n]
  <2> HIDE DEF f, g
  <2> QED BY <1>4, <1>5
<1>7. FlattenSeq(q) = f[n]
  BY FlattenIsFlat
<1>8. g[n] = SubSeq(t, c[0] + 1, c[n])
  <2>1. n \in 1 .. n
    OBVIOUS
  <2> HIDE DEF f
  <2> QED BY <2>1
<1> HIDE DEF f, g
<1> QED BY <1>6, <1>7, <1>8

LEMMA EndIsSuffix ==
    ASSUME NEW S, NEW t \in Seq(S), NEW m \in 0 .. Len(t)
    PROVE  IsSuffix(SubSeq(t, m + 1, Len(t)), t)
<1> DEFINE s == SubSeq(t, m + 1, Len(t))
           l == Len(t)
           n == l - m
<1>1. l \in Nat /\ m \in 0 .. l /\ n \in 0 .. l
  OBVIOUS
<1>2. s \in Seq(S) /\ Len(s) = n /\ \A i \in 1 .. n : s[i] = t[m + i]
  BY <1>1
<1> DEFINE a == Reverse(s)
           b == Reverse(t)
<1>3. Len(a) = n /\ a \in Seq(S) /\ \A i \in 1 .. n : a[i] = s[n - i + 1]
  <2> HIDE DEF s, n
  <2>1. a = [i \in 1 .. n |-> s[n - i + 1]]
    BY <1>2 DEF Reverse
  <2>2. n \in Nat /\ \A i \in 1 .. n : n - i + 1 \in 1 .. n
    BY <1>1
  <2>3. \A i \in 1 .. n : s[n - i + 1] \in S
    BY <1>2, <2>2
  <2> HIDE DEF a
  <2> QED BY <2>1, <2>2, <2>3
<1>4. Len(b) = l /\ b \in Seq(S) /\ \A i \in 1 .. l : b[i] = t[l - i + 1]
  BY <1>1 DEF Reverse
<1>5. ASSUME NEW i \in 1 .. n PROVE a[i] = b[i]
  <2>1. n - i + 1 \in 1 .. n /\ m + (n - i + 1) = l - i + 1 /\ i \in 1 .. l
    BY <1>1
  <2> HIDE DEF a, b, s
  <2>2. a[i] = t[m + (n - i + 1)]
    BY <1>2, <1>3, <2>1
  <2>3. b[i] = t[l - i + 1]
    BY <1>4, <2>1
  <2> QED BY <2>1, <2>2, <2>3
<1> HIDE DEF a, b, s
<1>6. SubSeq(a, 1, n) = SubSeq(b, 1, n)
  <2>1. SubSeq(a, 1, n) \in Seq(S) /\ Len(SubSeq(a, 1, n)) = n
        /\ \A i \in 1 .. n : SubSeq(a, 1, n)[i] = a[i]
    BY <1>1, <1>3
  <2>2. SubSeq(b, 1, n) \in Seq(S) /\ Len(SubSeq(b, 1, n)) = n
        /\ \A i \in 1 .. n : SubSeq(b, 1, n)[i] = b[i]
    BY <1>1, <1>4
  <2> DEFINE x == SubSeq(a, 1, n)
             y == SubSeq(b, 1, n)
  <2>3. x \in Seq(S) /\ y \in Seq(S) /\ Len(x) = n /\ Len(y) = n /\ \A i \in 1 .. n : x[i] = y[i]
    BY <1>5, <2>1, <2>2
  <2> HIDE DEF x, y
  <2>4. x = y
    BY <2>3, SeqEqual
  <2> QED BY <2>4 DEF x, y
<1>7. IsPrefix(a, b)
  BY <1>1, <1>3, <1>4, <1>6 DEF IsPrefix
<1> QED BY <1>7 DEF IsSuffix, a, b, s
-----------------------------------------------------------------------------
(* What the store holds, and what one request at a time makes of it.       *)
Start == {Minute(n) : n \in Nat} \cup {0}
Snap == {Stamped(s, n) : s \in WindowSample, n \in Nat}
MinuteBuf == [start : Start, samples : Seq(Snap)]
Aggregate == [ts : Start, samples : Seq(Snap)]

StoreOK ==
    /\ tick \in Nat /\ raced \in BOOLEAN
    /\ minuteBuf \in MinuteBuf
    /\ aggregates \in Seq(Aggregate) /\ Len(aggregates) <= AGGREGATE_WINDOW_MAX
    /\ taken \in Seq(Snap)
    /\ phase \in [WindowReq -> {"idle", "flush", "store", "judge"}]
    /\ frozen \in [WindowReq -> MinuteBuf]

InMinute(start, samples) == \A i \in DOMAIN samples : Minute(samples[i].at) = start
MinutesOK(w) == \A k \in DOMAIN w : InMinute(w[k].ts, w[k].samples)

SerialOK ==
    /\ \A q, r \in WindowReq : phase[q] # "idle" /\ phase[r] # "idle" => q = r
    /\ \A r \in WindowReq : phase[r] = "store" => frozen[r] = minuteBuf
    /\ Pieces(aggregates, minuteBuf.samples, taken)
    /\ InMinute(minuteBuf.start, minuteBuf.samples)
    /\ MinutesOK(aggregates)

OrderInv == StoreOK /\ (~raced => SerialOK)

LEMMA FreezeTyped ==
    ASSUME NEW w \in Seq(Aggregate), Len(w) <= AGGREGATE_WINDOW_MAX, NEW b \in MinuteBuf
    PROVE  /\ Freeze(w, b) \in Seq(Aggregate) /\ Len(Freeze(w, b)) <= AGGREGATE_WINDOW_MAX
           /\ [ts |-> b.start, samples |-> b.samples] \in Aggregate
           /\ MinutesOK(w) /\ InMinute(b.start, b.samples) => MinutesOK(Freeze(w, b))
<1> DEFINE a == [ts |-> b.start, samples |-> b.samples]
           x == Append(w, a)
           n == Len(w)
           M == AGGREGATE_WINDOW_MAX
<1>1. a \in Aggregate
  BY DEF MinuteBuf, Aggregate
<1>2. n \in Nat /\ M \in Nat /\ n <= M
  BY WindowAssumption
<1>3. a.ts = b.start /\ a.samples = b.samples
  OBVIOUS
<1> HIDE DEF a, M
<1>4. x \in Seq(Aggregate) /\ Len(x) = n + 1 /\ x[n + 1] = a /\ \A k \in 1 .. n : x[k] = w[k]
  BY <1>1, <1>2
<1> HIDE DEF x
<1>5. MinutesOK(w) /\ InMinute(b.start, b.samples) => MinutesOK(x)
  <2> SUFFICES ASSUME MinutesOK(w), InMinute(b.start, b.samples), NEW k \in DOMAIN x
               PROVE  InMinute(x[k].ts, x[k].samples)
    BY DEF MinutesOK
  <2>1. k \in 1 .. n \/ k = n + 1
    BY <1>2, <1>4
  <2>2. CASE k \in 1 .. n
    <3>1. x[k] = w[k] /\ k \in DOMAIN w
      BY <1>4, <2>2
    <3> QED BY <3>1 DEF MinutesOK
  <2>3. CASE k = n + 1
    BY <1>3, <1>4, <2>3
  <2> QED BY <2>1, <2>2, <2>3
<1>6. CASE b.samples = <<>>
  <2>1. Freeze(w, b) = w
    BY <1>6 DEF Freeze
  <2> QED BY <1>1, <1>2, <2>1 DEF a, M
<1>7. CASE b.samples # <<>> /\ n + 1 <= M
  <2>1. Freeze(w, b) = x
    BY <1>2, <1>4, <1>7 DEF Freeze, LastOf, x, a, M
  <2> QED BY <1>1, <1>4, <1>5, <1>7, <2>1 DEF a, M
<1>8. CASE b.samples # <<>> /\ ~(n + 1 <= M)
  <2> DEFINE y == Tail(x)
  <2>1. Freeze(w, b) = y
    BY <1>2, <1>4, <1>8 DEF Freeze, LastOf, x, a, M
  <2>2. y \in Seq(Aggregate) /\ Len(y) = n /\ \A k \in 1 .. n : y[k] = x[k + 1]
    <3>1. x # <<>>
      BY <1>2, <1>4
    <3> QED BY <1>2, <1>4, <3>1, HeadTailProperties
  <2> HIDE DEF y
  <2>3. MinutesOK(x) => MinutesOK(y)
    <3> SUFFICES ASSUME MinutesOK(x), NEW k \in DOMAIN y PROVE InMinute(y[k].ts, y[k].samples)
      BY DEF MinutesOK
    <3>1. k \in 1 .. n /\ k + 1 \in DOMAIN x /\ y[k] = x[k + 1]
      BY <1>2, <1>4, <2>2
    <3> QED BY <3>1 DEF MinutesOK
  <2> QED BY <1>1, <1>2, <1>5, <2>1, <2>2, <2>3 DEF a, M
<1> QED BY <1>2, <1>6, <1>7, <1>8

LEMMA AppendKeeps ==
    ASSUME OrderInv, NEW r \in WindowReq, AppendSnapshot(r)
    PROVE  OrderInv'
<1> USE DEF OrderInv, StoreOK
<1> DEFINE turned == minuteBuf.start # Minute(tick)
           w == IF turned THEN Freeze(aggregates, minuteBuf) ELSE aggregates
           s == IF turned THEN <<>> ELSE minuteBuf.samples
<1>1. PICK z \in WindowSample :
         /\ aggregates' = w
         /\ minuteBuf' = [start |-> Minute(tick), samples |-> Append(s, Stamped(z, tick))]
         /\ taken' = Append(taken, Stamped(z, tick))
  BY DEF AppendSnapshot
<1>2. /\ phase[r] = "idle" /\ phase' = [phase EXCEPT ![r] = "flush"]
      /\ raced' = (raced \/ \E q \in WindowReq \ {r} : phase[q] # "idle")
      /\ tick' = tick /\ frozen' = frozen
  BY DEF AppendSnapshot, Move
<1> DEFINE e == Stamped(z, tick)
<1>3. e \in Snap /\ e.at = tick /\ Minute(tick) \in Start
  <2>1. e \in Snap /\ Minute(tick) \in Start
    BY DEF Snap, Start
  <2>2. e.at = tick
    BY DEF Stamped
  <2> QED BY <2>1, <2>2
<1>4. s \in Seq(Snap) /\ w \in Seq(Aggregate) /\ Len(w) <= AGGREGATE_WINDOW_MAX
  <2>1. minuteBuf.samples \in Seq(Snap) /\ minuteBuf \in MinuteBuf
    BY DEF MinuteBuf
  <2>2. aggregates \in Seq(Aggregate) /\ Len(aggregates) <= AGGREGATE_WINDOW_MAX
    OBVIOUS
  <2> HIDE DEF OrderInv, StoreOK
  <2>3. /\ Freeze(aggregates, minuteBuf) \in Seq(Aggregate)
        /\ Len(Freeze(aggregates, minuteBuf)) <= AGGREGATE_WINDOW_MAX
    BY <2>1, <2>2, FreezeTyped
  <2>4. <<>> \in Seq(Snap)
    OBVIOUS
  <2>5. CASE turned
    BY <2>3, <2>4, <2>5
  <2>6. CASE ~turned
    BY <2>1, <2>2, <2>6
  <2> QED BY <2>5, <2>6
<1> HIDE DEF e, s, w
<1>5. StoreOK'
  <2>1. Append(s, e) \in Seq(Snap) /\ taken' \in Seq(Snap)
    BY <1>1, <1>3, <1>4 DEF e
  <2>2. minuteBuf' \in MinuteBuf
    BY <1>1, <1>3, <2>1 DEF MinuteBuf, e
  <2>3. raced' \in BOOLEAN /\ phase' \in [WindowReq -> {"idle", "flush", "store", "judge"}]
    BY <1>2
  <2>4. aggregates' \in Seq(Aggregate) /\ Len(aggregates') <= AGGREGATE_WINDOW_MAX
    BY <1>1, <1>4
  <2>5. tick' \in Nat /\ frozen' \in [WindowReq -> MinuteBuf]
    BY <1>2
  <2> QED BY <2>1, <2>2, <2>3, <2>4, <2>5
<1>6. ASSUME ~raced' PROVE SerialOK'
  <2>1. SerialOK /\ \A q \in WindowReq : phase[q] = "idle"
    BY <1>2, <1>6
  <2>2. \A q \in WindowReq : phase'[q] = IF q = r THEN "flush" ELSE "idle"
    BY <1>2, <2>1
  <2>3. Pieces(w, s, taken)
    <3>1. CASE turned
      <4>1. Pieces(Freeze(aggregates, minuteBuf), <<>>, taken)
        BY <2>1, FreezeTyped, FreezeKeeps DEF SerialOK
      <4> QED BY <3>1, <4>1 DEF w, s
    <3>2. CASE ~turned
      BY <2>1, <3>2 DEF SerialOK, w, s
    <3> QED BY <3>1, <3>2
  <2>4. Pieces(w, Append(s, e), taken')
    <3>1. Len(w) \in Nat
      BY <1>4
    <3> QED BY <1>1, <1>3, <2>3, <3>1, TakeKeeps DEF e
  <2>5. InMinute(Minute(tick), Append(s, e))
    <3>1. \A i \in DOMAIN s : Minute(s[i].at) = Minute(tick)
      BY <2>1 DEF SerialOK, InMinute, s
    <3> SUFFICES ASSUME NEW i \in DOMAIN Append(s, e)
                 PROVE  Minute(Append(s, e)[i].at) = Minute(tick)
      BY DEF InMinute
    <3>2. i \in 1 .. Len(s) + 1 /\ Len(s) \in Nat
      BY <1>3, <1>4
    <3>3. CASE i \in 1 .. Len(s)
      <4>1. Append(s, e)[i] = s[i] /\ i \in DOMAIN s
        BY <1>4, <3>3
      <4> QED BY <3>1, <4>1
    <3>4. CASE i = Len(s) + 1
      <4>1. Append(s, e)[i] = e
        BY <1>4, <3>4
      <4> QED BY <1>3, <4>1
    <3> QED BY <3>2, <3>3, <3>4
  <2>6. MinutesOK(w)
    BY <2>1, FreezeTyped DEF SerialOK, w
  <2>7. Pieces(aggregates', minuteBuf'.samples, taken')
    BY <1>1, <2>4 DEF e
  <2>8. InMinute(minuteBuf'.start, minuteBuf'.samples) /\ MinutesOK(aggregates')
    BY <1>1, <2>5, <2>6 DEF e
  <2>9. \A q, u \in WindowReq : phase'[q] # "idle" /\ phase'[u] # "idle" => q = u
    BY <2>2
  <2>10. \A q \in WindowReq : phase'[q] # "store"
    BY <2>2
  <2> QED BY <2>7, <2>8, <2>9, <2>10
          DEF SerialOK, Pieces, Piecewise, InMinute, MinutesOK, Minute
<1> QED BY <1>5, <1>6
-----------------------------------------------------------------------------
LEMMA InitKeeps ==
    ASSUME WindowInit
    PROVE  OrderInv
<1> USE DEF WindowInit
<1>1. NoBuffer \in MinuteBuf /\ NoBuffer.samples = <<>>
  BY DEF NoBuffer, MinuteBuf, Start
<1>2. StoreOK
  <2>1. minuteBuf \in MinuteBuf /\ frozen \in [WindowReq -> MinuteBuf]
    BY <1>1
  <2>2. phase \in [WindowReq -> {"idle", "flush", "store", "judge"}] /\ raced \in BOOLEAN
    OBVIOUS
  <2>3. /\ aggregates \in Seq(Aggregate) /\ Len(aggregates) <= AGGREGATE_WINDOW_MAX
        /\ taken \in Seq(Snap) /\ tick \in Nat
    BY WindowAssumption
  <2> HIDE DEF WindowInit
  <2> QED BY <2>1, <2>2, <2>3 DEF StoreOK
<1>3. SerialOK
  <2>1. Pieces(aggregates, minuteBuf.samples, taken)
    <3> DEFINE c == [k \in 0 .. 0 |-> 0]
    <3>1. c \in [0 .. Len(aggregates) -> 0 .. Len(taken)] /\ c[0] = 0 /\ Len(aggregates) = 0
      OBVIOUS
    <3>2. minuteBuf.samples = SubSeq(taken, c[Len(aggregates)] + 1, Len(taken))
      BY <1>1, <3>1
    <3> HIDE DEF c
    <3>3. Piecewise(aggregates, minuteBuf.samples, taken, c)
      BY <3>1, <3>2 DEF Piecewise
    <3> QED BY <3>1, <3>3 DEF Pieces
  <2>2. InMinute(minuteBuf.start, minuteBuf.samples) /\ MinutesOK(aggregates)
    BY <1>1 DEF InMinute, MinutesOK
  <2>3. \A r \in WindowReq : phase[r] = "idle"
    OBVIOUS
  <2> QED BY <2>1, <2>2, <2>3 DEF SerialOK
<1> QED BY <1>2, <1>3 DEF OrderInv

(* The store is left alone: only the request moves.                        *)
LEMMA MoveKeeps ==
    ASSUME OrderInv, NEW r \in WindowReq, phase[r] # "idle",
           UNCHANGED <<tick, minuteBuf, aggregates, raced, taken>>,
           \/ Move(r, "idle") /\ UNCHANGED frozen
           \/ Move(r, "store") /\ frozen' = [frozen EXCEPT ![r] = minuteBuf]
    PROVE  OrderInv'
<1> USE DEF OrderInv, StoreOK, Move
<1>1. StoreOK'
  <2>1. phase' \in [WindowReq -> {"idle", "flush", "store", "judge"}]
    OBVIOUS
  <2>2. frozen' \in [WindowReq -> MinuteBuf]
    OBVIOUS
  <2> QED BY <2>1, <2>2
<1>2. ASSUME ~raced' PROVE SerialOK'
  <2>1. SerialOK
    BY <1>2
  <2>2. \A q \in WindowReq : q # r => phase'[q] = "idle"
    BY <2>1 DEF SerialOK
  <2>3. \A q, u \in WindowReq : phase'[q] # "idle" /\ phase'[u] # "idle" => q = u
    BY <2>2
  <2>4. \A q \in WindowReq : phase'[q] = "store" => frozen'[q] = minuteBuf
    BY <2>2
  <2>5. /\ Pieces(aggregates', minuteBuf'.samples, taken')
        /\ InMinute(minuteBuf'.start, minuteBuf'.samples)
        /\ MinutesOK(aggregates')
    BY <2>1 DEF SerialOK
  <2> QED BY <2>3, <2>4, <2>5 DEF SerialOK, Pieces, Piecewise, InMinute, MinutesOK, Minute
<1> QED BY <1>1, <1>2

LEMMA StoreKeeps ==
    ASSUME OrderInv, NEW r \in WindowReq, StoreAggregate(r)
    PROVE  OrderInv'
<1> USE DEF OrderInv, StoreOK
<1>1. /\ phase[r] = "store" /\ phase' = [phase EXCEPT ![r] = "judge"]
      /\ aggregates' = Freeze(aggregates, frozen[r])
      /\ minuteBuf' = IF frozen[r].samples = <<>> THEN minuteBuf
                      ELSE [minuteBuf EXCEPT !.samples = <<>>]
      /\ frozen' = [frozen EXCEPT ![r] = NoBuffer]
      /\ tick' = tick /\ raced' = raced /\ taken' = taken
  BY DEF StoreAggregate, Move
<1>2. frozen[r] \in MinuteBuf /\ NoBuffer \in MinuteBuf
  BY DEF NoBuffer, MinuteBuf, Start
<1>3. StoreOK'
  <2>1. aggregates' \in Seq(Aggregate) /\ Len(aggregates') <= AGGREGATE_WINDOW_MAX
    BY <1>1, <1>2, FreezeTyped
  <2>2. minuteBuf' \in MinuteBuf
    <3>1. [minuteBuf EXCEPT !.samples = <<>>] \in MinuteBuf
      <4>1. <<>> \in Seq(Snap)
        OBVIOUS
      <4> QED BY <4>1 DEF MinuteBuf
    <3>2. minuteBuf \in MinuteBuf
      OBVIOUS
    <3> HIDE DEF OrderInv, StoreOK
    <3> QED BY <1>1, <3>1, <3>2
  <2>3. phase' \in [WindowReq -> {"idle", "flush", "store", "judge"}]
    BY <1>1
  <2>4. frozen' \in [WindowReq -> MinuteBuf]
    BY <1>1, <1>2
  <2> QED BY <1>1, <2>1, <2>2, <2>3, <2>4
<1>4. ASSUME ~raced' PROVE SerialOK'
  <2>1. SerialOK /\ frozen[r] = minuteBuf
    BY <1>1, <1>4 DEF SerialOK
  <2>2. \A q \in WindowReq : q # r => phase'[q] = "idle"
    BY <1>1, <2>1 DEF SerialOK
  <2>3. \A q, u \in WindowReq : phase'[q] # "idle" /\ phase'[u] # "idle" => q = u
    BY <2>2
  <2>4. \A q \in WindowReq : phase'[q] # "store"
    BY <1>1, <2>2
  <2>5. minuteBuf'.start = minuteBuf.start /\ minuteBuf'.samples = <<>>
    BY <1>1, <2>1 DEF MinuteBuf
  <2>6. Pieces(aggregates', <<>>, taken')
    <3>1. Pieces(aggregates, minuteBuf.samples, taken)
      BY <2>1 DEF SerialOK
    <3>2. [ts |-> minuteBuf.start, samples |-> minuteBuf.samples] \in Aggregate
      BY <1>2, <2>1, FreezeTyped
    <3>3. taken \in Seq(Snap) /\ aggregates \in Seq(Aggregate)
          /\ Len(aggregates) <= AGGREGATE_WINDOW_MAX
      OBVIOUS
    <3> HIDE DEF OrderInv, StoreOK
    <3>4. Pieces(Freeze(aggregates, minuteBuf), <<>>, taken)
      BY <3>1, <3>2, <3>3, FreezeKeeps
    <3> QED BY <1>1, <2>1, <3>4
  <2>7. MinutesOK(aggregates')
    BY <1>1, <1>2, <2>1, FreezeTyped DEF SerialOK
  <2>8. InMinute(minuteBuf'.start, minuteBuf'.samples)
    BY <2>5 DEF InMinute
  <2>9. Pieces(aggregates', minuteBuf'.samples, taken')
    BY <2>5, <2>6
  <2> QED BY <2>3, <2>4, <2>7, <2>8, <2>9
          DEF SerialOK, Pieces, Piecewise, InMinute, MinutesOK, Minute
<1> QED BY <1>3, <1>4

LEMMA WindowNextKeeps ==
    ASSUME OrderInv, [WindowNext]_windowVars
    PROVE  OrderInv'
<1>1. CASE MinuteTick \/ UNCHANGED windowVars
  <2>1. /\ tick \in Nat => tick' \in Nat
        /\ UNCHANGED <<minuteBuf, aggregates, phase, frozen, raced, taken>>
    BY <1>1 DEF MinuteTick, windowVars
  <2>2. StoreOK'
    BY <2>1 DEF OrderInv, StoreOK
  <2>3. SerialOK => SerialOK'
    BY <2>1 DEF SerialOK, Pieces, Piecewise, InMinute, MinutesOK, Minute
  <2> QED BY <2>1, <2>2, <2>3 DEF OrderInv
<1>2. CASE \E r \in WindowReq : AppendSnapshot(r)
  BY <1>2, AppendKeeps
<1>3. CASE \E r \in WindowReq : StoreAggregate(r)
  BY <1>3, StoreKeeps
<1>4. CASE \E r \in WindowReq : AnalysisFails(r) \/ ReadBuffer(r) \/ JudgePatterns(r)
  <2>1. PICK r \in WindowReq : AnalysisFails(r) \/ ReadBuffer(r) \/ JudgePatterns(r)
    BY <1>4
  <2>2. /\ phase[r] # "idle"
        /\ UNCHANGED <<tick, minuteBuf, aggregates, raced, taken>>
        /\ \/ Move(r, "idle") /\ UNCHANGED frozen
           \/ Move(r, "store") /\ frozen' = [frozen EXCEPT ![r] = minuteBuf]
    BY <2>1 DEF AnalysisFails, ReadBuffer, JudgePatterns
  <2> QED BY <2>2, MoveKeeps
<1> QED BY <1>1, <1>2, <1>3, <1>4 DEF WindowNext

LEMMA OrderInvIsOrder ==
    ASSUME OrderInv
    PROVE  WindowInOrder
<1> SUFFICES ASSUME ~raced PROVE WindowInOrder
  BY DEF WindowInOrder
<1>1. SerialOK /\ StoreOK
  BY DEF OrderInv
<1> DEFINE q == [k \in DOMAIN aggregates |-> aggregates[k].samples]
           n == Len(aggregates)
           f == FlattenSeq(q)
           kept == f \o minuteBuf.samples
           l == Len(taken)
<1>2. PICK c \in [0 .. n -> 0 .. l] : Piecewise(aggregates, minuteBuf.samples, taken, c)
  BY <1>1 DEF SerialOK, Pieces
<1>3. /\ n \in Nat /\ l \in Nat /\ Len(q) = n /\ taken \in Seq(Snap)
      /\ \A k \in 1 .. n : q[k] = aggregates[k].samples
  BY <1>1 DEF StoreOK
<1>4. /\ \A k \in 1 .. n : c[k - 1] <= c[k] /\ q[k] = SubSeq(taken, c[k - 1] + 1, c[k])
      /\ n < AGGREGATE_WINDOW_MAX => c[0] = 0
      /\ minuteBuf.samples = SubSeq(taken, c[n] + 1, l)
  BY <1>2, <1>3 DEF Piecewise
<1>5. q = <<>> \/ n # 0
  BY <1>3
<1>6. c[0] \in 0 .. l /\ c[n] \in 0 .. l
  BY <1>2, <1>3
<1> HIDE DEF q, n, l
<1>7. c[0] <= c[n]
  <2>1. \A k \in 1 .. n : c[k - 1] <= c[k]
    BY <1>4
  <2>2. \A k \in 0 .. n : c[0] <= c[k]
    BY <1>2, <1>3, <2>1, EndsRise
  <2>3. n \in 0 .. n
    BY <1>3
  <2> QED BY <2>2, <2>3
<1>8. kept = SubSeq(taken, c[0] + 1, l)
  <2>1. CASE n = 0
    <3>1. f = <<>>
      BY <1>3, <2>1 DEF FlattenSeq
    <3> QED BY <1>4, <2>1, <3>1
  <2>2. CASE n # 0
    <3>1. f = SubSeq(taken, c[0] + 1, c[n])
      BY <1>2, <1>3, <1>4, <2>2, PiecesJoin DEF l
    <3>2. SubSeq(taken, c[0] + 1, c[n]) \o SubSeq(taken, c[n] + 1, l) = SubSeq(taken, c[0] + 1, l)
      <4> DEFINE i == c[0] + 1
                 j == c[n]
                 e == Len(taken)
      <4>1. i \in 1 .. e + 1 /\ j \in i - 1 .. e /\ e \in j .. e
        BY <1>3, <1>6, <1>7 DEF l
      <4>2. taken \in Seq(Snap)
        BY <1>3
      <4> HIDE DEF i, j
      <4>3. SubSeq(taken, i, j) \o SubSeq(taken, j + 1, e) = SubSeq(taken, i, e)
        BY <4>1, <4>2, ConcatAdjacentSubSeq
      <4> QED BY <4>3 DEF i, j, l
    <3> QED BY <1>4, <3>1, <3>2
  <2> QED BY <2>1, <2>2
<1>9. IsSuffix(kept, taken)
  BY <1>3, <1>6, <1>8, EndIsSuffix DEF l
<1>10. n < AGGREGATE_WINDOW_MAX => kept = taken
  <2> SUFFICES ASSUME c[0] = 0 PROVE kept = taken
    BY <1>4
  <2>1. 0 + 1 = 1 /\ SubSeq(taken, 1, l) = taken
    BY <1>3 DEF l
  <2> HIDE DEF kept
  <2> QED BY <1>8, <2>1
<1>11. \A k \in DOMAIN aggregates : \A i \in DOMAIN aggregates[k].samples :
         Minute(aggregates[k].samples[i].at) = aggregates[k].ts
  BY <1>1 DEF SerialOK, MinutesOK, InMinute
<1> QED BY <1>9, <1>10, <1>11 DEF WindowInOrder, q, n

(* Whoever uses the store alone ...                                        *)
THEOREM WindowKeepsOrder == WindowSpec => []WindowInOrder
<1>1. WindowInit => OrderInv
  BY InitKeeps
<1>2. OrderInv /\ [WindowNext]_windowVars => OrderInv'
  BY WindowNextKeeps
<1>3. OrderInv => WindowInOrder
  BY OrderInvIsOrder
<1> QED BY <1>1, <1>2, <1>3, PTL DEF WindowSpec
-----------------------------------------------------------------------------
(* The values of an aggregate are values of its samples.                   *)
LEMMA ValuesAreSampled ==
    ASSUME NEW e, e.samples \in Seq(Snap), NEW f \in {"cpu", "gpu", "idle"}
    PROVE  /\ Values(e, f) \in Seq(Int)
           /\ \A k \in DOMAIN Values(e, f) : \E i \in DOMAIN e.samples :
                 e.samples[i][f] = Values(e, f)[k]
<1> DEFINE s == e.samples
           all == [k \in DOMAIN s |-> s[k][f]]
           T == Range(all)
           S == T \ {None}
           v == Values(e, f)
<1>1. Len(s) \in Nat /\ DOMAIN s = 1 .. Len(s) /\ \A k \in 1 .. Len(s) : s[k] \in Snap
  OBVIOUS
<1>2. \A x \in Snap : x[f] \in Int \cup {None}
  <2> SUFFICES ASSUME NEW z \in WindowSample, NEW n \in Nat
               PROVE  Stamped(z, n)[f] \in Int \cup {None}
    BY DEF Snap
  <2>1. f \in DOMAIN z /\ z[f] \in Int \cup {None} /\ f # "at"
    BY WindowAssumption
  <2> QED BY <2>1 DEF Stamped
<1> HIDE DEF s
<1>3. all \in Seq(T) /\ Len(all) = Len(s)
  <2>1. all \in [1 .. Len(s) -> T]
    BY <1>1 DEF Range
  <2> HIDE DEF T, all
  <2>2. all \in Seq(T)
    BY <1>1, <2>1, SeqDef
  <2> QED BY <1>1, <2>1, <2>2, LenProperties
<1>4. \A x \in T : \E i \in DOMAIN s : s[i][f] = x
  BY <1>1 DEF Range
<1>5. T \subseteq Int \cup {None}
  BY <1>1, <1>2 DEF Range
<1>6. v = KeptUpTo(all, S)[Len(all)]
  BY DEF Values, Filtered, s
<1> HIDE DEF v, S, T, all
<1>7. v \in Seq(T \cap S)
  <2>1. Len(all) \in 0 .. Len(all)
    BY <1>1, <1>3
  <2> QED BY <1>3, <1>6, <2>1, KeptTyped
<1>8. T \cap S \subseteq Int
  BY <1>5 DEF S
<1>9. v \in Seq(Int) /\ \A k \in DOMAIN v : v[k] \in T
  <2> DEFINE C == T \cap S
  <2>1. C \subseteq Int /\ C \subseteq T /\ v \in Seq(C)
    BY <1>7, <1>8
  <2> HIDE DEF C
  <2>2. DOMAIN v = 1 .. Len(v) /\ Len(v) \in Nat /\ \A k \in 1 .. Len(v) : v[k] \in C
    BY <2>1
  <2>3. v \in [1 .. Len(v) -> Int]
    <3>1. v \in [1 .. Len(v) -> C]
      BY <2>1, LenProperties
    <3> QED BY <2>1, <3>1
  <2> QED BY <2>1, <2>2, <2>3, SeqDef
<1> QED BY <1>4, <1>9 DEF v, s

(* The sums of the first values, as the loop makes them.                   *)
Adding(values, n, g) ==
    g = [k \in 0 .. n |-> IF k = 0 THEN 0 ELSE g[k - 1] + values[k]]

LEMMA AddingExists ==
    ASSUME NEW values, NEW n \in Nat
    PROVE  \E g : Adding(values, n, g)
<1> DEFINE Q == {i \in Nat : ~ \E g : Adding(values, i, g)}
<1>1. SUFFICES ASSUME Q # {} PROVE FALSE
  OBVIOUS
<1>2. Q \in SUBSET Nat
  OBVIOUS
<1>3. PICK m \in Q : \A k \in Q : m <= k
  <2> HIDE DEF Q
  <2> QED BY <1>1, <1>2, LeastNatural
<1>4. m \in Nat /\ ~ \E g : Adding(values, m, g)
  OBVIOUS
<1>5. CASE m = 0
  <2> DEFINE h == [k \in 0 .. 0 |-> 0]
  <2>1. h = [k \in 0 .. 0 |-> IF k = 0 THEN 0 ELSE h[k - 1] + values[k]]
    <3>1. \A k \in 0 .. 0 : k = 0
      OBVIOUS
    <3> QED BY <3>1
  <2>2. Adding(values, 0, h)
    <3> HIDE DEF h
    <3> QED BY <2>1 DEF Adding
  <2> QED BY <1>4, <1>5, <2>2
<1>6. CASE m # 0
  <2>1. m - 1 \in Nat /\ ~(m <= m - 1)
    BY <1>4, <1>6
  <2>2. m - 1 \notin Q
    BY <1>3, <2>1
  <2>3. PICK g : Adding(values, m - 1, g)
    BY <2>1, <2>2
  <2> DEFINE last == g[m - 1] + values[m]
             h == [k \in 0 .. m |-> IF k = m THEN last ELSE g[k]]
             step(k) == IF k = 0 THEN 0 ELSE h[k - 1] + values[k]
  <2>4. ASSUME NEW k \in 0 .. m PROVE h[k] = step(k)
    <3>1. CASE k = m
      <4>1. h[m] = last /\ h[m - 1] = g[m - 1]
        BY <1>4, <1>6
      <4> HIDE DEF h
      <4> QED BY <1>6, <3>1, <4>1
    <3>2. CASE k # m
      <4>1. k \in 0 .. m - 1 /\ h[k] = g[k] /\ (k # 0 => h[k - 1] = g[k - 1])
        BY <1>4, <3>2
      <4>2. g[k] = IF k = 0 THEN 0 ELSE g[k - 1] + values[k]
        BY <2>3, <4>1 DEF Adding
      <4> HIDE DEF h
      <4> QED BY <4>1, <4>2
    <3> QED BY <3>1, <3>2
  <2>5. h = [k \in 0 .. m |-> step(k)]
    <3>1. h = [k \in 0 .. m |-> h[k]]
      OBVIOUS
    <3> HIDE DEF h, step
    <3> QED BY <2>4, <3>1
  <2>6. Adding(values, m, h)
    <3> HIDE DEF h
    <3> QED BY <2>5 DEF Adding
  <2> QED BY <1>4, <2>6
<1> QED BY <1>5, <1>6

(* Values that are all under a limit have a mean under it.                 *)
LEMMA LowSum ==
    ASSUME NEW v \in Seq(Int), NEW limit \in Int, \A k \in 1 .. Len(v) : v[k] < limit
    PROVE  \A k \in 0 .. Len(v) :
              AddedUpTo(v)[k] \in Int /\ AddedUpTo(v)[k] + k <= limit * k
<1> DEFINE f == AddedUpTo(v)
           n == Len(v)
           Good(i) == f[i] \in Int /\ f[i] + i <= limit * i
           Q == {i \in 0 .. n : ~Good(i)}
<1>0. n \in Nat /\ \A k \in 1 .. n : v[k] \in Int
  OBVIOUS
<1>1. Adding(v, n, f)
  <2>1. f = CHOOSE g : Adding(v, n, g)
    BY DEF AddedUpTo, Adding
  <2> HIDE DEF f, n
  <2> QED BY <1>0, <2>1, AddingExists
<1> HIDE DEF f, n
<1>2. f[0] = 0 /\ \A k \in 1 .. n : f[k] = f[k - 1] + v[k]
  <2>1. f[0] = 0
    BY <1>0, <1>1 DEF Adding
  <2>2. ASSUME NEW k \in 1 .. n PROVE f[k] = f[k - 1] + v[k]
    <3>1. k \in 0 .. n /\ k # 0
      BY <1>0
    <3>2. f = [j \in 0 .. n |-> IF j = 0 THEN 0 ELSE f[j - 1] + v[j]]
      BY <1>1 DEF Adding
    <3> QED BY <3>1, <3>2, Zenon
  <2> QED BY <2>1, <2>2
<1>3. SUFFICES ASSUME Q # {} PROVE FALSE
  BY DEF f, n
<1>4. Q \in SUBSET Nat
  BY <1>0
<1>5. PICK m \in Q : \A k \in Q : m <= k
  <2> HIDE DEF Q
  <2> QED BY <1>3, <1>4, LeastNatural
<1>6. m \in 0 .. n /\ ~Good(m)
  OBVIOUS
<1>7. m # 0
  <2>1. f[0] + 0 <= limit * 0
    BY <1>2
  <2> QED BY <1>2, <1>6, <2>1
<1>8. m \in 1 .. n /\ m - 1 \in 0 .. n /\ ~(m <= m - 1)
  BY <1>0, <1>6, <1>7
<1>9. Good(m - 1)
  BY <1>5, <1>8
<1>10. f[m] = f[m - 1] + v[m] /\ v[m] \in Int /\ v[m] < limit
  BY <1>0, <1>2, <1>8 DEF n
<1>11. limit * m = limit * (m - 1) + limit
  BY <1>8
<1>12. Good(m)
  <2> DEFINE a == f[m - 1]
             b == v[m]
             c == limit * (m - 1)
             d == limit * m
  <2>1. a \in Int /\ b \in Int /\ c \in Int /\ m \in Int
    BY <1>8, <1>9, <1>10
  <2>2. a + (m - 1) <= c /\ b < limit /\ d = c + limit /\ f[m] = a + b
    BY <1>9, <1>10, <1>11
  <2> HIDE DEF a, b, c, d
  <2>3. a + b \in Int /\ a + b + m <= d
    BY <2>1, <2>2
  <2> QED BY <2>2, <2>3 DEF d
<1> QED BY <1>6, <1>12

LEMMA MeanIsReached ==
    ASSUME NEW v \in Seq(Int), NEW limit \in Nat \ {0},
           Total(v) >= limit * Max({1, Len(v)})
    PROVE  \E k \in DOMAIN v : v[k] >= limit
<1> SUFFICES ASSUME \A k \in DOMAIN v : ~(v[k] >= limit) PROVE FALSE
  OBVIOUS
<1> DEFINE n == Len(v)
           sum == AddedUpTo(v)[n]
<1>1. n \in Nat /\ DOMAIN v = 1 .. n /\ \A k \in 1 .. n : v[k] \in Int
  OBVIOUS
<1>2. \A k \in 1 .. n : v[k] < limit
  BY <1>1
<1>3. sum \in Int /\ sum + n <= limit * n
  <2>1. limit \in Int /\ n \in 0 .. n
    BY <1>1
  <2> QED BY <1>2, <2>1, LowSum
<1>4. Max({1, n}) = IF n = 0 THEN 1 ELSE n
  BY <1>1 DEF Max
<1>5. sum >= limit * (IF n = 0 THEN 1 ELSE n)
  BY <1>4 DEF Total
<1> HIDE DEF sum, n
<1>6. CASE n = 0
  BY <1>3, <1>5, <1>6
<1>7. CASE n # 0
  <2> DEFINE p == limit * n
  <2>1. p \in Int /\ sum + n <= p /\ sum >= p
    BY <1>1, <1>3, <1>5, <1>7
  <2> HIDE DEF p
  <2> QED BY <1>1, <1>3, <1>7, <2>1
<1> QED BY <1>6, <1>7

LEMMA MaxIsReached ==
    ASSUME NEW v \in Seq(Int), NEW limit \in Nat \ {0}, Max({0} \cup Range(v)) >= limit
    PROVE  \E k \in DOMAIN v : v[k] >= limit
<1> SUFFICES ASSUME \A k \in DOMAIN v : ~(v[k] >= limit) PROVE FALSE
  OBVIOUS
<1> DEFINE S == {0} \cup Range(v)
           T == {j \in Nat : limit - 1 - j \in S}
<1>1. \A x \in S : x \in Int /\ x <= limit - 1
  BY DEF Range
<1>2. limit - 1 \in T /\ T \in SUBSET Nat
  OBVIOUS
<1>3. PICK m \in T : \A j \in T : m <= j
  <2> HIDE DEF T
  <2> QED BY <1>2, LeastNatural
<1>4. m \in Nat /\ limit - 1 - m \in S
  OBVIOUS
<1>5. ASSUME NEW y \in S PROVE limit - 1 - m >= y
  <2>1. y \in Int /\ limit - 1 - y \in Nat
    BY <1>1
  <2>2. limit - 1 - (limit - 1 - y) = y
    BY <2>1
  <2>3. limit - 1 - y \in T
    BY <2>1, <2>2
  <2>4. m <= limit - 1 - y
    BY <1>3, <2>3
  <2> QED BY <1>4, <2>1, <2>4
<1> HIDE DEF S
<1>6. Max(S) \in S
  BY <1>4, <1>5 DEF Max
<1>7. Max(S) \in Int /\ Max(S) <= limit - 1 /\ Max(S) >= limit
  BY <1>1, <1>6 DEF S
<1> QED BY <1>7
-----------------------------------------------------------------------------
(* A pattern looks for load where its limits are positive, as those of the *)
(* policy and the defaults are; a limit of zero would be met by nothing.   *)
PositiveLimits ==
    \A p \in DOMAIN Patterns :
        /\ Patterns[p].minutes \in Int
        /\ p \in {"R1", "R3"} => Patterns[p].cpu \in Nat \ {0}
        /\ p \in {"R2", "R3", "R4", "R7", "R8"} => Patterns[p].gpu \in Nat \ {0}
        /\ p \in {"S1", "S3", "S4"} => Patterns[p].load \in Nat \ {0}
        /\ p = "S1" => Patterns[p].idle \in Nat \ {0}

(* A sample of the aggregate is as high as the limit.                      *)
Reached(e, f, limit) ==
    \E i \in DOMAIN e.samples : e.samples[i][f] # None /\ e.samples[i][f] >= limit

LEMMA MeanIsWitnessed ==
    ASSUME NEW e \in Aggregate, NEW f \in {"cpu", "gpu"}, NEW limit \in Nat \ {0},
           MeanAtLeast(e, f, limit)
    PROVE  Reached(e, f, limit)
<1> DEFINE v == Values(e, f)
<1>1. /\ v \in Seq(Int)
      /\ \A k \in DOMAIN v : \E i \in DOMAIN e.samples : e.samples[i][f] = v[k]
  <2>1. e.samples \in Seq(Snap) /\ f \in {"cpu", "gpu", "idle"}
    BY DEF Aggregate
  <2> QED BY <2>1, ValuesAreSampled
<1>2. Total(v) >= limit * Max({1, Len(v)})
  BY DEF MeanAtLeast
<1> HIDE DEF v
<1>3. PICK k \in DOMAIN v : v[k] >= limit
  BY <1>1, <1>2, MeanIsReached
<1>4. v[k] \in Int /\ v[k] # None
  BY <1>1, WindowAssumption
<1> QED BY <1>1, <1>3, <1>4 DEF Reached

LEMMA IdleIsWitnessed ==
    ASSUME NEW e \in Aggregate, NEW limit \in Nat \ {0}, IdleMax(e) >= limit
    PROVE  Reached(e, "idle", limit)
<1> DEFINE v == Values(e, "idle")
<1>1. /\ v \in Seq(Int)
      /\ \A k \in DOMAIN v : \E i \in DOMAIN e.samples : e.samples[i]["idle"] = v[k]
  <2>1. e.samples \in Seq(Snap)
    BY DEF Aggregate
  <2> QED BY <2>1, ValuesAreSampled
<1>2. Max({0} \cup Range(v)) >= limit
  BY DEF IdleMax
<1> HIDE DEF v
<1>3. PICK k \in DOMAIN v : v[k] >= limit
  BY <1>1, <1>2, MaxIsReached
<1>4. v[k] \in Int /\ v[k] # None
  BY <1>1, WindowAssumption
<1> QED BY <1>1, <1>3, <1>4 DEF Reached

(* What the property asks of one aggregate.                                *)
Witnessed(p, e) ==
    /\ p \in {"R1", "R3"} => Reached(e, "cpu", Patterns[p].cpu)
    /\ p \in {"R2", "R3", "R4", "R7", "R8"} => Reached(e, "gpu", Patterns[p].gpu)
    /\ p \in {"S1", "S3", "S4"} =>
           Reached(e, "cpu", Patterns[p].load) \/ Reached(e, "gpu", Patterns[p].load)
    /\ p = "S1" => Reached(e, "idle", Patterns[p].idle)
    /\ p = "N2" => Endpoints(e) # {}

LEMMA FitsIsWitnessed ==
    ASSUME PositiveLimits, NEW e \in Aggregate, NEW p \in DOMAIN Patterns,
           p \in {"R1", "R2", "R3", "R4", "R5", "R7", "R8", "N4", "N5", "S1", "S3", "S4"},
           Fits(p, Patterns[p], e)
    PROVE  Witnessed(p, e)
<1> DEFINE th == Patterns[p]
<1>1. ASSUME p \in {"R1", "R3"} PROVE Reached(e, "cpu", th.cpu)
  <2>1. MeanAtLeast(e, "cpu", th.cpu)
    BY <1>1 DEF Fits, FitsResource
  <2> QED BY <1>1, <2>1, MeanIsWitnessed DEF PositiveLimits
<1>2. ASSUME p \in {"R2", "R3", "R4", "R7", "R8"} PROVE Reached(e, "gpu", th.gpu)
  <2>1. MeanAtLeast(e, "gpu", th.gpu)
    BY <1>2 DEF Fits, FitsResource
  <2> QED BY <1>2, <2>1, MeanIsWitnessed DEF PositiveLimits
<1>3. ASSUME p \in {"S1", "S3", "S4"}
      PROVE  Reached(e, "cpu", th.load) \/ Reached(e, "gpu", th.load)
  <2>1. MeanAtLeast(e, "cpu", th.load) \/ MeanAtLeast(e, "gpu", th.load)
    BY <1>3 DEF Fits, FitsSystem, Busy
  <2> QED BY <1>3, <2>1, MeanIsWitnessed DEF PositiveLimits
<1>4. ASSUME p = "S1" PROVE Reached(e, "idle", th.idle)
  <2>1. IdleMax(e) >= th.idle
    BY <1>4 DEF Fits, FitsSystem
  <2> QED BY <1>4, <2>1, IdleIsWitnessed DEF PositiveLimits
<1> QED BY <1>1, <1>2, <1>3, <1>4 DEF Witnessed

(* The last minutes of a window each say what is sustained.                *)
LEMMA SustainedIsSaid ==
    ASSUME NEW w, Len(w) \in Nat, NEW said, Len(said) = Len(w), NEW minutes \in Int,
           Sustained(said, minutes), NEW k \in Len(w) - minutes + 1 .. Len(w)
    PROVE  k \in 1 .. Len(w) /\ said[k]
<1>1. ~(minutes <= 0)
  OBVIOUS
<1>2. Len(w) >= minutes /\ said[k]
  BY <1>1 DEF Sustained
<1> QED BY <1>2

LEMMA PatternIsWitnessed ==
    ASSUME PositiveLimits, NEW w \in Seq(Aggregate),
           NEW p \in EvaluateResourcePattern(w) \cup EvaluateNetworkPattern(w)
                     \cup EvaluateSystemPattern(w),
           NEW k \in Len(w) - Patterns[p].minutes + 1 .. Len(w)
    PROVE  Witnessed(p, w[k])
<1> DEFINE n == Patterns[p].minutes
           fits == [j \in DOMAIN w |-> Fits(p, Patterns[p], w[j])]
           Rule == p \in {"R1", "R2", "R3", "R4", "R5", "R7", "R8", "N4", "N5", "S1", "S3", "S4"}
           Said(ip) == [j \in DOMAIN w |-> ip \in Endpoints(w[j])]
<1>1. \/ p \in DOMAIN Patterns /\ Rule /\ Sustained(fits, n)
      \/ p \in DOMAIN Patterns /\ p = "N2" /\ SameEndpoint(w, n)
  BY DEF EvaluateResourcePattern, EvaluateNetworkPattern, EvaluateSystemPattern, Triggered
<1>2. n \in Int /\ Len(w) \in Nat /\ DOMAIN w = 1 .. Len(w)
      /\ \A j \in 1 .. Len(w) : w[j] \in Aggregate
  BY <1>1 DEF PositiveLimits
<1>3. CASE p \in DOMAIN Patterns /\ Rule /\ Sustained(fits, n)
  <2>1. Len(fits) = Len(w) /\ \A j \in 1 .. Len(w) : fits[j] = Fits(p, Patterns[p], w[j])
    BY <1>2
  <2> HIDE DEF fits, n
  <2>2. k \in Len(w) - n + 1 .. Len(w)
    BY DEF n
  <2>3. k \in 1 .. Len(w) /\ fits[k]
    BY <1>2, <1>3, <2>1, <2>2, SustainedIsSaid
  <2>4. w[k] \in Aggregate /\ Fits(p, Patterns[p], w[k])
    BY <1>2, <2>1, <2>3
  <2> QED BY <1>3, <2>4, FitsIsWitnessed
<1>4. CASE p = "N2" /\ SameEndpoint(w, n)
  <2>1. PICK ip : Sustained(Said(ip), n)
    BY <1>4 DEF SameEndpoint
  <2> DEFINE said == Said(ip)
  <2>2. Len(said) = Len(w) /\ \A j \in 1 .. Len(w) : said[j] = (ip \in Endpoints(w[j]))
    BY <1>2
  <2>3. Sustained(said, n)
    BY <2>1
  <2> HIDE DEF said, n
  <2>4. k \in Len(w) - n + 1 .. Len(w)
    BY DEF n
  <2>5. k \in 1 .. Len(w) /\ said[k]
    BY <1>2, <2>2, <2>3, <2>4, SustainedIsSaid
  <2>6. ip \in Endpoints(w[k])
    BY <2>2, <2>5
  <2> QED BY <1>4, <2>6 DEF Witnessed
<1> QED BY <1>1, <1>3, <1>4

(* The patterns judged last are those of the window they were judged over. *)
JudgedOK ==
    /\ judged.window \in Seq(Aggregate)
    /\ judged.patterns \subseteq EvaluateResourcePattern(judged.window)
                                 \cup EvaluateNetworkPattern(judged.window)
                                 \cup EvaluateSystemPattern(judged.window)

LEMMA JudgedNext == OrderInv /\ JudgedOK /\ [WindowNext]_windowVars => JudgedOK'
<1> SUFFICES ASSUME OrderInv, JudgedOK, [WindowNext]_windowVars PROVE JudgedOK'
  OBVIOUS
<1>1. ASSUME NEW r \in WindowReq, JudgePatterns(r) PROVE JudgedOK'
  <2>1. /\ judged'.window = aggregates
        /\ judged'.patterns = EvaluateResourcePattern(aggregates)
                              \cup EvaluateNetworkPattern(aggregates)
                              \cup EvaluateSystemPattern(aggregates)
    BY <1>1 DEF JudgePatterns
  <2>2. aggregates \in Seq(Aggregate)
    BY DEF OrderInv, StoreOK
  <2> DEFINE w == judged'.window
             All(x) == EvaluateResourcePattern(x) \cup EvaluateNetworkPattern(x)
                       \cup EvaluateSystemPattern(x)
  <2>3. judged'.patterns = All(w) /\ w \in Seq(Aggregate)
    BY <2>1, <2>2, Zenon
  <2> QED BY <2>3 DEF JudgedOK
<1>2. ASSUME UNCHANGED judged PROVE JudgedOK'
  BY <1>2, Zenon DEF JudgedOK
<1> QED
  BY <1>1, <1>2
     DEF WindowNext, windowVars, MinuteTick, AppendSnapshot, AnalysisFails, ReadBuffer,
         StoreAggregate

(* However requests overlap, a pattern of a high load has in each of the   *)
(* last minutes it is judged over a sample that is as high: a mean of no   *)
(* values, or of low ones alone, never makes one, for positive limits and  *)
(* any samples, window and number of requests.                             *)
THEOREM PatternsHaveWitnesses ==
    ASSUME PositiveLimits PROVE WindowSpec => []PatternsAreWitnessed
<1>1. WindowInit => OrderInv
  BY InitKeeps
<1>2. WindowInit => JudgedOK
  <2> SUFFICES ASSUME WindowInit PROVE JudgedOK
    OBVIOUS
  <2>1. judged.window = <<>> /\ judged.patterns = {}
    BY DEF WindowInit, NotJudged
  <2>2. <<>> \in Seq(Aggregate)
    OBVIOUS
  <2> QED BY <2>1, <2>2 DEF JudgedOK
<1>3. OrderInv /\ [WindowNext]_windowVars => OrderInv'
  BY WindowNextKeeps
<1>4. JudgedOK => PatternsAreWitnessed
  <2> SUFFICES ASSUME JudgedOK, NEW p \in judged.patterns,
                      NEW k \in Len(judged.window) - Patterns[p].minutes + 1 .. Len(judged.window)
               PROVE  Witnessed(p, judged.window[k])
    BY DEF PatternsAreWitnessed, Witnessed, Reached
  <2> QED BY PatternIsWitnessed DEF JudgedOK
<1> QED BY <1>1, <1>2, <1>3, <1>4, JudgedNext, PTL DEF WindowSpec
-----------------------------------------------------------------------------
(* What holds at 0, and at k if at k - 1, holds up to n.                   *)
LEMMA UpTo ==
    ASSUME NEW n \in Nat, NEW S, 0 \in S, \A k \in 1 .. n : k - 1 \in S => k \in S
    PROVE  \A k \in 0 .. n : k \in S
<1> DEFINE Q == {k \in 0 .. n : k \notin S}
<1>1. SUFFICES ASSUME Q # {} PROVE FALSE
  OBVIOUS
<1>2. Q \in SUBSET Nat
  OBVIOUS
<1>3. PICK m \in Q : \A k \in Q : m <= k
  <2> HIDE DEF Q
  <2> QED BY <1>1, <1>2, LeastNatural
<1>4. m \in 1 .. n /\ m \notin S
  OBVIOUS
<1>5. m - 1 \in 0 .. n /\ ~(m <= m - 1)
  BY <1>4
<1>6. m - 1 \in S
  BY <1>3, <1>5
<1> QED BY <1>4, <1>6

(* A product of bounds is a bound of the product.                          *)
LEMMA Scale ==
    ASSUME NEW x \in Int, NEW y \in Int, x <= y, NEW c \in Nat
    PROVE  x * c <= y * c
OBVIOUS

LEMMA SumSteps ==
    ASSUME NEW v \in Seq(Int)
    PROVE  /\ AddedUpTo(v)[0] = 0
           /\ \A k \in 1 .. Len(v) : AddedUpTo(v)[k] = AddedUpTo(v)[k - 1] + v[k]
           /\ \A k \in 0 .. Len(v) : AddedUpTo(v)[k] \in Int
<1> DEFINE f == AddedUpTo(v)
           n == Len(v)
<1>0. n \in Nat /\ \A k \in 1 .. n : v[k] \in Int
  OBVIOUS
<1>1. Adding(v, n, f)
  <2>1. f = CHOOSE g : Adding(v, n, g)
    BY DEF AddedUpTo, Adding
  <2> HIDE DEF f, n
  <2> QED BY <1>0, <2>1, AddingExists
<1> HIDE DEF f, n
<1>2. f[0] = 0
  BY <1>0, <1>1 DEF Adding
<1>3. ASSUME NEW k \in 1 .. n PROVE f[k] = f[k - 1] + v[k]
  <2>1. k \in 0 .. n /\ k # 0
    BY <1>0
  <2>2. f = [j \in 0 .. n |-> IF j = 0 THEN 0 ELSE f[j - 1] + v[j]]
    BY <1>1 DEF Adding
  <2> QED BY <2>1, <2>2, Zenon
<1>4. \A k \in 0 .. n : f[k] \in Int
  <2> DEFINE S == {k \in 0 .. n : f[k] \in Int}
  <2>1. 0 \in S
    BY <1>0, <1>2
  <2>2. ASSUME NEW k \in 1 .. n, k - 1 \in S PROVE k \in S
    BY <1>0, <1>3, <2>2
  <2> HIDE DEF S
  <2>3. \A k \in 0 .. n : k \in S
    BY <1>0, <2>1, <2>2, UpTo
  <2> QED BY <2>3 DEF S
<1> QED BY <1>2, <1>3, <1>4 DEF f, n

(* A sum of values up to b, and a sum of values that r times reach b.      *)
LEMMA SumBelow ==
    ASSUME NEW v \in Seq(Int), NEW b \in Int, NEW n \in 0 .. Len(v),
           \A k \in 1 .. n : v[k] <= b
    PROVE  AddedUpTo(v)[n] <= b * n
<1> DEFINE f == AddedUpTo(v)
           S == {k \in 0 .. n : f[k] <= b * k}
<1>1. /\ Len(v) \in Nat /\ n \in Nat /\ f[0] = 0 /\ \A k \in 1 .. n : v[k] \in Int
      /\ \A k \in 1 .. n : f[k] = f[k - 1] + v[k]
      /\ \A k \in 0 .. n : f[k] \in Int
  BY SumSteps
<1> HIDE DEF f
<1>2. 0 \in S
  BY <1>1
<1>3. ASSUME NEW k \in 1 .. n, k - 1 \in S PROVE k \in S
  <2>1. k \in 0 .. n /\ k - 1 \in 0 .. n /\ f[k - 1] <= b * (k - 1)
    BY <1>1, <1>3
  <2>2. f[k - 1] \in Int /\ v[k] \in Int /\ v[k] <= b /\ f[k] = f[k - 1] + v[k]
    BY <1>1, <2>1
  <2>3. b * k = b * (k - 1) + b /\ b * (k - 1) \in Int
    BY <2>1
  <2> QED BY <2>1, <2>2, <2>3
<1> HIDE DEF S
<1>4. n \in S
  <2>1. n \in 0 .. n
    BY <1>1
  <2>2. \A k \in 0 .. n : k \in S
    BY <1>1, <1>2, <1>3, UpTo
  <2> QED BY <2>1, <2>2
<1> QED BY <1>4 DEF S, f

LEMMA SumReaches ==
    ASSUME NEW v \in Seq(Int), NEW b \in Int, NEW r \in Nat, NEW n \in 0 .. Len(v),
           \A k \in 1 .. n : b <= r * v[k]
    PROVE  b * n <= r * AddedUpTo(v)[n]
<1> DEFINE f == AddedUpTo(v)
           S == {k \in 0 .. n : b * k <= r * f[k]}
<1>1. /\ Len(v) \in Nat /\ n \in Nat /\ f[0] = 0 /\ \A k \in 1 .. n : v[k] \in Int
      /\ \A k \in 1 .. n : f[k] = f[k - 1] + v[k]
      /\ \A k \in 0 .. n : f[k] \in Int
  BY SumSteps
<1> HIDE DEF f
<1>2. 0 \in S
  BY <1>1
<1>3. ASSUME NEW k \in 1 .. n, k - 1 \in S PROVE k \in S
  <2>1. k \in 0 .. n /\ k - 1 \in 0 .. n /\ b * (k - 1) <= r * f[k - 1]
    BY <1>1, <1>3
  <2>2. f[k - 1] \in Int /\ v[k] \in Int /\ b <= r * v[k] /\ f[k] = f[k - 1] + v[k]
    BY <1>1, <2>1
  <2>3. b * k = b * (k - 1) + b /\ b * (k - 1) \in Int
    BY <2>1
  <2>4. r * f[k] = r * f[k - 1] + r * v[k] /\ r * f[k - 1] \in Int /\ r * v[k] \in Int
    <3>1. \A x, y \in Int : r * (x + y) = r * x + r * y /\ r * x \in Int
      OBVIOUS
    <3> QED BY <2>2, <3>1
  <2>5. b * k <= r * f[k]
    <3> DEFINE p == r * f[k - 1]
               q == r * v[k]
               c == b * (k - 1)
    <3>1. /\ p \in Int /\ q \in Int /\ c \in Int /\ c <= p /\ b <= q
          /\ r * f[k] = p + q /\ b * k = c + b
      BY <2>1, <2>2, <2>3, <2>4
    <3> HIDE DEF p, q, c
    <3> QED BY <3>1
  <2> QED BY <2>1, <2>5
<1> HIDE DEF S
<1>4. n \in S
  <2>1. n \in 0 .. n
    BY <1>1
  <2>2. \A k \in 0 .. n : k \in S
    BY <1>1, <1>2, <1>3, UpTo
  <2> QED BY <2>1, <2>2
<1> QED BY <1>4 DEF S, f

(* The sum over a sequence is that of its beginning and that of its end.   *)
LEMMA SumOfParts ==
    ASSUME NEW v \in Seq(Int), NEW w \in Seq(Int), Len(w) <= Len(v),
           \A i \in 1 .. Len(w) : w[i] = v[Len(v) - Len(w) + i]
    PROVE  Total(v) = AddedUpTo(v)[Len(v) - Len(w)] + Total(w)
<1> DEFINE f == AddedUpTo(v)
           g == AddedUpTo(w)
           n == Len(w)
           d == Len(v) - Len(w)
           S == {k \in 0 .. n : f[d + k] = f[d] + g[k]}
<1>1. /\ n \in Nat /\ Len(v) \in Nat /\ d \in Nat /\ d + n = Len(v)
      /\ g[0] = 0 /\ \A k \in 1 .. n : g[k] = g[k - 1] + w[k]
      /\ \A k \in 0 .. n : g[k] \in Int
  BY SumSteps
<1>2. /\ \A k \in 1 .. Len(v) : f[k] = f[k - 1] + v[k]
      /\ \A k \in 0 .. Len(v) : f[k] \in Int
      /\ \A k \in 1 .. Len(v) : v[k] \in Int
      /\ \A i \in 1 .. n : w[i] = v[d + i]
  BY SumSteps
<1> HIDE DEF f, g, n, d
<1>3. 0 \in S
  <2>1. f[d] \in Int /\ d + 0 = d
    BY <1>1, <1>2
  <2> QED BY <1>1, <2>1
<1>4. ASSUME NEW k \in 1 .. n, k - 1 \in S PROVE k \in S
  <2>1. k \in 0 .. n /\ k - 1 \in 0 .. n /\ f[d + (k - 1)] = f[d] + g[k - 1]
    BY <1>1, <1>4
  <2>2. d + k \in 1 .. Len(v) /\ (d + k) - 1 = d + (k - 1) /\ d \in 0 .. Len(v)
    BY <1>1, <2>1
  <2>3. f[d + k] = f[d + (k - 1)] + v[d + k] /\ v[d + k] = w[k] /\ v[d + k] \in Int
    BY <1>2, <2>2
  <2>4. g[k] = g[k - 1] + w[k] /\ g[k - 1] \in Int /\ f[d] \in Int
    BY <1>1, <1>2, <2>1, <2>2
  <2>5. f[d + k] = f[d] + g[k]
    BY <2>1, <2>3, <2>4
  <2> QED BY <2>1, <2>5
<1> HIDE DEF S
<1>5. n \in 0 .. n /\ n \in S
  <2>1. n \in 0 .. n
    BY <1>1
  <2>2. \A k \in 0 .. n : k \in S
    BY <1>1, <1>3, <1>4, UpTo
  <2> QED BY <2>1, <2>2
<1> QED BY <1>1, <1>5 DEF S, f, g, n, d, Total
-----------------------------------------------------------------------------
(* If nothing before it is r times as low, the recent mean is not r times  *)
(* the mean of all: s and b are the recent sum and its highest value, p    *)
(* the sum of what was before.                                             *)
LEMMA NoRise ==
    ASSUME NEW b \in Int, NEW s \in Nat, NEW p \in Int, NEW r \in Nat, r >= 1,
           NEW m \in Nat, NEW n \in Nat, s <= b * n, b * m <= r * p
    PROVE  s * (m + n) <= (r * (p + s)) * n
<1>1. s * m <= (b * n) * m
  BY Scale
<1>2. (b * n) * m = (b * m) * n
  OBVIOUS
<1>3. (b * m) * n <= (r * p) * n
  BY Scale
<1>4. s <= r * s
  <2>1. 1 * s <= r * s
    BY Scale
  <2> QED BY <2>1
<1>5. s * n <= (r * s) * n
  BY <1>4, Scale
<1>6. s * (m + n) = s * m + s * n
  OBVIOUS
<1>7. (r * (p + s)) * n = (r * p) * n + (r * s) * n
  OBVIOUS
<1> DEFINE a1 == s * m
           a2 == s * n
           c1 == (r * p) * n
           c2 == (r * s) * n
<1>8. a1 \in Int /\ a2 \in Int /\ c1 \in Int /\ c2 \in Int /\ a2 <= c2
  BY <1>5
<1>9. a1 <= c1
  <2> DEFINE d == (b * n) * m
             e == (b * m) * n
  <2>1. d \in Int /\ e \in Int /\ a1 <= d /\ d = e /\ e <= c1
    BY <1>1, <1>2, <1>3
  <2> HIDE DEF a1, c1, d, e
  <2> QED BY <1>8, <2>1
<1>10. s * (m + n) = a1 + a2 /\ (r * (p + s)) * n = c1 + c2
  BY <1>6, <1>7
<1> HIDE DEF a1, a2, c1, c2
<1> QED BY <1>8, <1>9, <1>10

(* A mean that is r times one above a floor has a value above twice it.    *)
LEMMA HighAbove ==
    ASSUME NEW b \in Int, NEW s \in Int, NEW t \in Int, NEW r \in Nat, r >= 2,
           NEW floor \in Nat, NEW m \in Nat, NEW n \in Nat,
           s <= b * n, t > floor * m, s * m > (r * t) * n
    PROVE  b > 2 * floor
<1> SUFFICES ASSUME b <= 2 * floor PROVE FALSE
  OBVIOUS
<1>1. s * m <= (b * n) * m
  BY Scale
<1>2. (b * n) * m = b * (n * m) /\ n * m \in Nat
  OBVIOUS
<1>3. b * (n * m) <= (2 * floor) * (n * m)
  BY <1>2, Scale
<1>4. (2 * floor) * (n * m) = (2 * (floor * m)) * n
  OBVIOUS
<1>5. floor * m \in Nat /\ t \in Nat /\ 2 * (floor * m) <= 2 * t
  <2> DEFINE q == floor * m
  <2>1. q \in Nat /\ t > q
    OBVIOUS
  <2> HIDE DEF q
  <2>2. t \in Nat /\ 2 * q <= 2 * t
    BY <2>1
  <2> QED BY <2>1, <2>2 DEF q
<1>6. 2 * t <= r * t
  BY <1>5, Scale
<1>7. (2 * (floor * m)) * n <= (2 * t) * n
  BY <1>5, Scale
<1>8. (2 * t) * n <= (r * t) * n
  BY <1>6, Scale
<1> DEFINE a == s * m
           c == (b * n) * m
           d == (2 * (floor * m)) * n
           e == (2 * t) * n
           g == (r * t) * n
<1>9. a \in Int /\ c \in Int /\ d \in Int /\ e \in Int /\ g \in Int
  OBVIOUS
<1>10. a <= c /\ c <= d /\ d <= e /\ e <= g /\ a > g
  BY <1>1, <1>2, <1>3, <1>4, <1>7, <1>8
<1> HIDE DEF a, c, d, e, g
<1> QED BY <1>9, <1>10

(* What a window remembers of a sample.                                    *)
Entry == [cpu : 0 .. 100, mem : 0 .. 100]

(* The short window is the end of the long one.                            *)
EndsWith(base, recent) ==
    /\ Len(recent) <= Len(base)
    /\ \A i \in 1 .. Len(recent) : recent[i] = base[Len(base) - Len(recent) + i]

LEMMA RiseIsWitnessed ==
    ASSUME NEW base \in Seq(Entry), NEW recent \in Seq(Entry), EndsWith(base, recent),
           NEW r \in Nat, r = settings.hw_degradation_ratio, r >= 2,
           NEW f \in {"cpu", "mem"}, NEW floor \in Nat, Exceeds(recent, base, f, floor)
    PROVE  \E j \in 1 .. Len(recent) :
              /\ recent[j][f] > 2 * floor
              /\ \E i \in 1 .. Len(base) - Len(recent) : r * base[i][f] < recent[j][f]
<1> DEFINE v == [k \in DOMAIN base |-> base[k][f]]
           w == [k \in DOMAIN recent |-> recent[k][f]]
           n == Len(recent)
           m == Len(base) - Len(recent)
           s == Total(w)
           t == Total(v)
           p == AddedUpTo(v)[m]
<1>0. \A x \in 0 .. 100 : x \in Int /\ x \in Nat /\ 0 <= x /\ 100 - x \in Nat
  OBVIOUS
<1>1. /\ n \in Nat /\ m \in Nat /\ Len(base) = m + n /\ Len(base) \in Nat
      /\ \A k \in 1 .. m + n : base[k][f] \in 0 .. 100
      /\ \A k \in 1 .. n : recent[k][f] \in 0 .. 100
      /\ \A k \in 1 .. n : recent[k] = base[m + k]
  <2>1. n \in Nat /\ m \in Nat /\ Len(base) = m + n /\ Len(base) \in Nat
    BY DEF EndsWith
  <2>2. \A x \in Entry : x[f] \in 0 .. 100
    BY DEF Entry
  <2>3. /\ \A k \in 1 .. Len(base) : base[k] \in Entry
        /\ \A k \in 1 .. n : recent[k] \in Entry
    OBVIOUS
  <2> QED BY <2>1, <2>2, <2>3 DEF EndsWith
<1>02. n = Len(recent) /\ m = Len(base) - Len(recent)
  OBVIOUS
<1> HIDE DEF n, m
<1>2. /\ v \in Seq(Int) /\ Len(v) = m + n /\ \A k \in 1 .. m + n : v[k] = base[k][f]
      /\ \A k \in 1 .. m + n : v[k] \in 0 .. 100
  <2>1. DOMAIN base = 1 .. m + n
    BY <1>1, <1>02
  <2> DEFINE N == m + n
             g(k) == base[k][f]
  <2>00. v = [k \in 1 .. N |-> g(k)]
    BY <2>1
  <2>01. \A k \in 1 .. N : g(k) \in Int
    BY <1>0, <1>1
  <2>0. v = [k \in 1 .. N |-> g(k)] /\ \A k \in 1 .. N : g(k) \in Int
    BY <2>00, <2>01
  <2>2. v \in [1 .. m + n -> Int] /\ \A k \in 1 .. m + n : v[k] = base[k][f]
    <3> HIDE DEF N, g, v
    <3>1. v \in [1 .. N -> Int] /\ \A k \in 1 .. N : v[k] = g(k)
      BY <2>0
    <3> QED BY <3>1 DEF N, g
  <2> HIDE DEF v
  <2>3. v \in Seq(Int) /\ Len(v) = m + n
    BY <1>1, <2>2, SeqDef
  <2> QED BY <1>1, <2>2, <2>3
<1>3. /\ w \in Seq(Int) /\ Len(w) = n /\ \A k \in 1 .. n : w[k] = recent[k][f]
      /\ \A k \in 1 .. n : w[k] \in 0 .. 100
  <2>1. DOMAIN recent = 1 .. n
    BY <1>1, <1>02
  <2> DEFINE N == n
             g(k) == recent[k][f]
  <2>00. w = [k \in 1 .. N |-> g(k)]
    BY <2>1
  <2>01. \A k \in 1 .. N : g(k) \in Int
    BY <1>0, <1>1
  <2>0. w = [k \in 1 .. N |-> g(k)] /\ \A k \in 1 .. N : g(k) \in Int
    BY <2>00, <2>01
  <2>2. w \in [1 .. n -> Int] /\ \A k \in 1 .. n : w[k] = recent[k][f]
    <3> HIDE DEF N, g, w
    <3>1. w \in [1 .. N -> Int] /\ \A k \in 1 .. N : w[k] = g(k)
      BY <2>0
    <3> QED BY <3>1 DEF N, g
  <2> HIDE DEF w
  <2>3. w \in Seq(Int) /\ Len(w) = n
    BY <1>1, <2>2, SeqDef
  <2> QED BY <1>1, <2>2, <2>3
<1>4. t > floor * (m + n) /\ s * (m + n) > (r * t) * n
  BY <1>1, <1>02 DEF Exceeds, Sum
<1> HIDE DEF v, w
<1>5. t = p + s
  <2>1. \A i \in 1 .. Len(w) : w[i] = v[Len(v) - Len(w) + i]
    <3>1. Len(v) - Len(w) = m
      BY <1>1, <1>2, <1>3
    <3>2. ASSUME NEW i \in 1 .. n PROVE w[i] = v[m + i]
      <4>1. m + i \in 1 .. m + n
        BY <1>1
      <4> QED BY <1>1, <1>2, <1>3, <4>1
    <3> QED BY <1>3, <3>1, <3>2
  <2>2. Len(w) <= Len(v) /\ Len(v) - Len(w) = m
    BY <1>1, <1>2, <1>3
  <2> QED BY <1>2, <1>3, <2>1, <2>2, SumOfParts
<1>6. s \in Int /\ p \in Int
  <2>1. n \in 0 .. Len(w) /\ m \in 0 .. Len(v)
    BY <1>1, <1>2, <1>3
  <2> QED BY <1>2, <1>3, <2>1, SumSteps DEF Total
<1>7. s \in Nat
  <2>2. n \in 0 .. Len(w) /\ AddedUpTo(w)[n] \in Int
    BY <1>1, <1>3, SumSteps
  <2>3. ASSUME NEW z \in Int, z = 0, NEW o \in Nat, o = 1
        PROVE  z * n <= o * AddedUpTo(w)[n]
    <3>1. ASSUME NEW k \in 1 .. n PROVE z <= o * w[k]
      <4>1. w[k] \in Int /\ 0 <= w[k]
        BY <1>0, <1>3
      <4>2. \A x \in Int : 1 * x = x
        OBVIOUS
      <4> QED BY <2>3, <4>1, <4>2
    <3> QED BY <1>3, <2>2, <3>1, SumReaches
  <2>4. 0 * n <= 1 * AddedUpTo(w)[n]
    BY <2>3
  <2> QED BY <1>1, <1>3, <1>6, <2>2, <2>4 DEF Total
<1>8. n # 0
  <2> SUFFICES ASSUME n = 0 PROVE FALSE
    OBVIOUS
  <2>1. s = 0
    BY <1>3, SumSteps DEF Total
  <2>2. s * (m + n) = 0 /\ (r * t) * n = 0
    BY <1>1, <1>5, <1>6, <2>1
  <2> QED BY <1>4, <2>2
<1>9. PICK j \in 1 .. n : \A k \in 1 .. n : w[k] <= w[j]
  <2> DEFINE T == {x \in Nat : \E k \in 1 .. n : w[k] = 100 - x}
  <2>0. \A x \in 0 .. 100 : 100 - x \in Nat /\ x = 100 - (100 - x)
    OBVIOUS
  <2>1. T # {}
    <3>0. 1 \in 1 .. n
      BY <1>1, <1>8
    <3>1. 1 \in 1 .. n /\ w[1] \in 0 .. 100
      BY <1>3, <3>0
    <3>2. 100 - w[1] \in Nat /\ w[1] = 100 - (100 - w[1])
      BY <2>0, <3>1
    <3> QED BY <3>1, <3>2
  <2>2. PICK x \in T : \A y \in T : x <= y
    <3>1. T \in SUBSET Nat
      OBVIOUS
    <3> HIDE DEF T
    <3> QED BY <2>1, <3>1, LeastNatural
  <2>3. x \in Nat /\ \E k \in 1 .. n : w[k] = 100 - x
    OBVIOUS
  <2>4. PICK k \in 1 .. n : w[k] = 100 - x
    BY <2>3
  <2>5. ASSUME NEW i \in 1 .. n PROVE w[i] <= w[k]
    <3>1. w[i] \in 0 .. 100
      BY <1>1, <1>3
    <3>2. 100 - w[i] \in Nat /\ w[i] = 100 - (100 - w[i])
      BY <2>0, <3>1
    <3>3. 100 - w[i] \in T
      BY <3>2
    <3>4. x <= 100 - w[i]
      BY <2>2, <3>3
    <3>5. w[i] \in Int
      BY <1>0, <3>1
    <3> QED BY <2>3, <2>4, <3>4, <3>5
  <2> QED BY <2>5
<1> DEFINE b == w[j]
<1>10. b \in Int /\ b = recent[j][f]
  BY <1>1, <1>3
<1>11. s <= b * n
  <2>1. n \in 0 .. Len(w)
    BY <1>1, <1>3
  <2>2. \A k \in 1 .. n : w[k] <= b
    BY <1>9
  <2> HIDE DEF b
  <2>3. AddedUpTo(w)[n] <= b * n
    BY <1>3, <1>10, <2>1, <2>2, SumBelow
  <2> QED BY <1>3, <2>3 DEF Total
<1> HIDE DEF s, t, p, b
<1>12. t \in Int
  BY <1>5, <1>6
<1>13. b > 2 * floor
  BY <1>1, <1>4, <1>6, <1>10, <1>11, <1>12, HighAbove
<1>14. \E i \in 1 .. m : r * v[i] < b
  <2> SUFFICES ASSUME \A i \in 1 .. m : ~(r * v[i] < b) PROVE FALSE
    OBVIOUS
  <2>1. \A i \in 1 .. m : b <= r * v[i]
    <3>1. ASSUME NEW i \in 1 .. m PROVE b <= r * v[i]
      <4>1. i \in 1 .. m + n
        BY <1>1
      <4>2. v[i] \in Int
        BY <1>2, <4>1
      <4>3. r * v[i] \in Int
        BY <4>2
      <4> QED BY <1>10, <4>3
    <3> QED BY <3>1
  <2>2. m \in 0 .. Len(v)
    BY <1>1, <1>2
  <2>3. b * m <= r * p
    BY <1>2, <1>10, <2>1, <2>2, SumReaches DEF p
  <2>4. s * (m + n) <= (r * (p + s)) * n
    <3>1. r >= 1
      OBVIOUS
    <3> QED BY <1>1, <1>6, <1>7, <1>10, <1>11, <2>3, <3>1, NoRise
  <2> DEFINE a == s * (m + n)
             c == (r * (p + s)) * n
  <2>5. a \in Int /\ c \in Int /\ a <= c /\ a > c
    BY <1>1, <1>4, <1>5, <1>6, <2>4
  <2> HIDE DEF a, c
  <2> QED BY <2>5
<1>15. \A i \in 1 .. m : v[i] = base[i][f]
  BY <1>1, <1>2
<1> QED BY <1>9, <1>10, <1>13, <1>14, <1>15 DEF n, m
-----------------------------------------------------------------------------
(* Places in a constant sequence, and its quartiles.                       *)
LEMMA SteadyRank ==
    ASSUME NEW v, NEW n \in Nat \ {0}, DOMAIN v = 1 .. n, NEW c \in Int,
           \A j \in 1 .. n : v[j] = c, NEW k \in 1 .. n
    PROVE  Ranked(v, k) = c
<1> DEFINE P(x) == /\ Cardinality({j \in DOMAIN v : v[j] < x}) < k
                   /\ k <= Cardinality({j \in DOMAIN v : v[j] <= x})
<1>1. Range(v) = {c}
  <2>1. 1 \in 1 .. n
    OBVIOUS
  <2> QED BY <2>1 DEF Range
<1>2. P(c)
  <2>1. {j \in DOMAIN v : v[j] < c} = {} /\ {j \in DOMAIN v : v[j] <= c} = 1 .. n
    OBVIOUS
  <2>2. Cardinality({}) = 0 /\ Cardinality(1 .. n) = n
    <3>1. Cardinality({}) = 0
      BY FS_EmptySet
    <3>2. 1 \in Int /\ n \in Int /\ 1 <= n
      OBVIOUS
    <3>3. Cardinality(1 .. n) = n - 1 + 1
      BY <3>2, FS_Interval
    <3> QED BY <3>1, <3>3
  <2>3. 0 < k /\ k <= n
    OBVIOUS
  <2>4. Cardinality({j \in DOMAIN v : v[j] < c}) = 0
        /\ Cardinality({j \in DOMAIN v : v[j] <= c}) = n
    BY <2>1, <2>2
  <2> QED BY <2>3, <2>4
<1>3. Ranked(v, k) = CHOOSE x \in {c} : P(x)
  BY <1>1 DEF Ranked
<1> HIDE DEF P
<1> QED BY <1>2, <1>3

LEMMA SteadyQuartile ==
    ASSUME NEW v, NEW n \in Nat \ {0}, DOMAIN v = 1 .. n, Len(v) = n, NEW c \in Int,
           \A j \in 1 .. n : v[j] = c, NEW q \in {1, 3}
    PROVE  Quartile(v, q) = 4 * c
<1> DEFINE place == (n - 1) * q
           i == place \div 4 + 1
           j == Min({n, place \div 4 + 2})
<1>1. i \in 1 .. n /\ place % 4 \in Int
  <2>1. CASE q = 1
    BY <2>1
  <2>2. CASE q = 3
    BY <2>2
  <2> QED BY <2>1, <2>2
<1>2. j \in 1 .. n
  <2> DEFINE h == place \div 4 + 2
  <2>1. h \in Int /\ h >= 1
    BY <1>1
  <2> HIDE DEF h
  <2>2. Min({n, h}) = IF n <= h THEN n ELSE h
    BY <2>1 DEF Min
  <2> QED BY <2>1, <2>2 DEF h
<1>3. Ranked(v, i) = c /\ Ranked(v, j) = c
  <2> HIDE DEF i, j
  <2> QED BY <1>1, <1>2, SteadyRank
<1>4. Quartile(v, q) = 4 * Ranked(v, i) + (place % 4) * (Ranked(v, j) - Ranked(v, i))
  BY DEF Quartile
<1> DEFINE z == place % 4
<1>5. Quartile(v, q) = 4 * c + z * (c - c) /\ z \in Int
  BY <1>1, <1>3, <1>4
<1> HIDE DEF z
<1>6. c - c = 0 /\ z * 0 = 0
  BY <1>5
<1> QED BY <1>5, <1>6

(* Nothing is an outlier in a constant window.                             *)
LEMMA SteadyIsNoOutlier ==
    ASSUME NEW w \in Seq(Entry), Len(w) >= 2, Cardinality(Range(w)) = 1,
           NEW f \in {"cpu", "mem"}
    PROVE  ~Outlier(w, f)
<1> DEFINE n == Len(w) - 1
           v == [k \in 1 .. Len(w) - 1 |-> w[k][f]]
<1>1. n \in Nat \ {0} /\ Len(w) = n + 1 /\ DOMAIN w = 1 .. n + 1
  OBVIOUS
<1>2. PICK x : Range(w) = {x}
  <2>1. IsFiniteSet(1 .. n + 1)
    <3>1. 1 \in Int /\ n + 1 \in Int
      BY <1>1
    <3> QED BY <3>1, FS_Interval
  <2>2. w \in Surjection(1 .. n + 1, Range(w))
    <3>1. w \in [1 .. n + 1 -> Range(w)]
      BY <1>1 DEF Range
    <3> QED BY <1>1, <3>1 DEF Surjection, Range
  <2>3. IsFiniteSet(Range(w))
    BY <2>1, <2>2, FS_Surjection
  <2> QED BY <2>3, FS_Singleton
<1>3. \A k \in 1 .. n + 1 : w[k] = x
  BY <1>1, <1>2 DEF Range
<1> DEFINE c == x[f]
<1>4. c \in Int
  <2>1. n + 1 \in 1 .. n + 1 /\ w[n + 1] \in Entry
    BY <1>1
  <2>2. x \in Entry
    BY <1>3, <2>1
  <2>3. \A y \in 0 .. 100 : y \in Int
    OBVIOUS
  <2>4. \A y \in Entry : y[f] \in 0 .. 100
    BY DEF Entry
  <2> QED BY <2>2, <2>3, <2>4
<1>5. DOMAIN v = 1 .. n /\ Len(v) = n /\ \A k \in 1 .. n : v[k] = c
  <2>1. \A k \in 1 .. n : k \in 1 .. n + 1
    BY <1>1
  <2> QED BY <1>1, <1>3, <2>1
<1>6. Last(w)[f] = c
  <2>1. Last(w) = w[n + 1] /\ n + 1 \in 1 .. n + 1
    BY <1>1 DEF Last
  <2> QED BY <1>3, <2>1
<1>7. Outlier(w, f) = LET q1 == Quartile(v, 1)
                          q3 == Quartile(v, 3)
                          current == 8 * Last(w)[f]
                      IN  current > 2 * q3 + 3 * (q3 - q1) \/ current < 2 * q1 - 3 * (q3 - q1)
  BY DEF Outlier
<1> HIDE DEF v, n, c
<1>8. Quartile(v, 1) = 4 * c /\ Quartile(v, 3) = 4 * c
  BY <1>1, <1>4, <1>5, SteadyQuartile
<1> DEFINE q1 == Quartile(v, 1)
           q3 == Quartile(v, 3)
           last == Last(w)[f]
<1>9. Outlier(w, f) = (8 * last > 2 * q3 + 3 * (q3 - q1) \/ 8 * last < 2 * q1 - 3 * (q3 - q1))
  BY <1>7
<1>10. q1 = 4 * c /\ q3 = 4 * c /\ last = c
  BY <1>6, <1>8
<1> HIDE DEF q1, q3, last
<1>11. Outlier(w, f) = (8 * c > 2 * (4 * c) + 3 * (4 * c - 4 * c)
                        \/ 8 * c < 2 * (4 * c) - 3 * (4 * c - 4 * c))
  BY <1>9, <1>10
<1>12. ~(8 * c > 2 * (4 * c) + 3 * (4 * c - 4 * c))
       /\ ~(8 * c < 2 * (4 * c) - 3 * (4 * c - 4 * c))
  BY <1>4
<1> QED BY <1>11, <1>12

(* A window that slides keeps its end; the short one stays the end of the  *)
(* long one.                                                               *)
LEMMA SlideKeeps ==
    ASSUME NEW w \in Seq(Entry), NEW size \in Nat \ {0}, NEW x \in Entry
    PROVE  /\ Slide(w, size, x) \in Seq(Entry)
           /\ Len(Slide(w, size, x)) = IF Len(w) >= size THEN Len(w) ELSE Len(w) + 1
           /\ Slide(w, size, x)[Len(Slide(w, size, x))] = x
           /\ \A i \in 1 .. Len(Slide(w, size, x)) - 1 :
                 Slide(w, size, x)[i] = w[i + (Len(w) + 1 - Len(Slide(w, size, x)))]
<1> DEFINE y == Slide(w, size, x)
           n == Len(w)
<1>1. n \in Nat
  OBVIOUS
<1>2. CASE n >= size
  <2>1. w # <<>>
    BY <1>1, <1>2
  <2>2. Tail(w) \in Seq(Entry) /\ Len(Tail(w)) = n - 1
        /\ \A i \in 1 .. n - 1 : Tail(w)[i] = w[i + 1]
    BY <2>1
  <2>3. y = Append(Tail(w), x)
    BY <1>2 DEF Slide
  <2> HIDE DEF y, n
  <2> DEFINE t == Tail(w)
  <2>4. t \in Seq(Entry) /\ Len(t) = n - 1 /\ y = Append(t, x)
    BY <2>2, <2>3
  <2>5. \A i \in 1 .. n - 1 : t[i] = w[i + 1]
    BY <2>2
  <2> HIDE DEF t
  <2>6. y \in Seq(Entry) /\ Len(y) = n /\ y[n] = x /\ \A i \in 1 .. n - 1 : y[i] = t[i]
    BY <1>1, <2>4
  <2>7. n + 1 - n = 1
    BY <1>1
  <2> QED BY <1>2, <2>5, <2>6, <2>7 DEF y, n
<1>3. CASE ~(n >= size)
  <2>1. y = Append(w, x)
    BY <1>3 DEF Slide
  <2>2. y \in Seq(Entry) /\ Len(y) = n + 1 /\ y[n + 1] = x /\ \A i \in 1 .. n : y[i] = w[i]
    BY <1>1, <2>1
  <2> HIDE DEF y, n
  <2>3. n + 1 - (n + 1) = 0 /\ (n + 1) - 1 = n /\ \A i \in 1 .. n : i + 0 = i
    BY <1>1
  <2> QED BY <1>3, <2>2, <2>3 DEF y, n
<1> QED BY <1>2, <1>3

LEMMA SlideEnds ==
    ASSUME NEW base \in Seq(Entry), NEW recent \in Seq(Entry), EndsWith(base, recent),
           NEW s \in Nat \ {0}, NEW t \in Nat \ {0}, s <= t, NEW x \in Entry
    PROVE  EndsWith(Slide(base, t, x), Slide(recent, s, x))
<1> DEFINE b == Slide(base, t, x)
           r == Slide(recent, s, x)
           lb == Len(base)
           lr == Len(recent)
           mb == Len(b)
           mr == Len(r)
<1>1. /\ lb \in Nat /\ lr \in Nat /\ lr <= lb
      /\ \A i \in 1 .. lr : recent[i] = base[lb - lr + i]
  BY DEF EndsWith
<1>2. /\ mb = (IF lb >= t THEN lb ELSE lb + 1) /\ b[mb] = x
      /\ \A i \in 1 .. mb - 1 : b[i] = base[i + (lb + 1 - mb)]
  BY SlideKeeps
<1>3. /\ mr = (IF lr >= s THEN lr ELSE lr + 1) /\ r[mr] = x
      /\ \A i \in 1 .. mr - 1 : r[i] = recent[i + (lr + 1 - mr)]
  BY SlideKeeps
<1> HIDE DEF b, r, lb, lr, mb, mr
<1>4. mb \in Nat /\ mr \in Nat /\ mr <= mb
      /\ (mb = lb \/ mb = lb + 1) /\ (mr = lr \/ mr = lr + 1)
  BY <1>1, <1>2, <1>3
<1>5. ASSUME NEW i \in 1 .. mr PROVE r[i] = b[mb - mr + i]
  <2>1. CASE i = mr
    <3>1. mb - mr + i = mb
      BY <1>4, <2>1
    <3> QED BY <1>2, <1>3, <2>1, <3>1
  <2>2. CASE i # mr
    <3> DEFINE k == i + (lr + 1 - mr)
               l == mb - mr + i
    <3>1. i \in 1 .. mr - 1 /\ k \in 1 .. lr /\ l \in 1 .. mb - 1
      BY <1>1, <1>4, <2>2
    <3>2. l + (lb + 1 - mb) = lb - lr + k
      BY <1>1, <1>4, <3>1
    <3> HIDE DEF l
    <3>3. r[i] = recent[k] /\ b[l] = base[l + (lb + 1 - mb)]
      BY <1>2, <1>3, <3>1
    <3> HIDE DEF k
    <3>4. recent[k] = base[lb - lr + k]
      BY <1>1, <3>1
    <3> QED BY <3>2, <3>3, <3>4 DEF l
  <2> QED BY <2>1, <2>2
<1> QED BY <1>4, <1>5 DEF EndsWith, b, r, mb, mr
-----------------------------------------------------------------------------
(***************************************************************************)
(* The alerts of the detectors, of settings whose ratio is a whole number  *)
(* from 2 on and whose short window is not longer than the long one: the   *)
(* code's defaults are such, and the code demands nothing of the kind.     *)
(***************************************************************************)
Sensible(cfg) ==
    /\ cfg.hw_degradation_ratio \in Nat /\ cfg.hw_degradation_ratio >= 2
    /\ cfg.local_window_size \in Nat \ {0} /\ cfg.hw_baseline_window \in Nat \ {0}
    /\ cfg.local_window_size <= cfg.hw_baseline_window

SensibleSettings ==
    \A found \in SettingsFound, env \in Environment :
        LoadsConfig(found, env) => Sensible(LoadConfig(found, env))

WindowsOK ==
    /\ hwBaseline \in Seq(Entry) /\ localWindow \in Seq(Entry)
    /\ EndsWith(hwBaseline, localWindow)
    /\ sensor \in {"warming", "running"} => Sensible(settings)

AlertInv == WindowsOK /\ AlertNeedsRise

(* AlertNeedsRise, of the windows and what the detectors made of them.     *)
Explained(base, recent, s, ratio) ==
    LET older == SubSeq(base, 1, Len(base) - Len(recent))
    IN  /\ "HW_CPU_DEGRADATION" \in s.alerts =>
              \E a \in Range(older), b \in Range(recent) : ratio * a.cpu < b.cpu /\ b.cpu > 60
        /\ "HW_MEM_DEGRADATION" \notin s.alerts
        /\ Cardinality(Range(recent)) = 1 => ~s.boxplot.cpu /\ ~s.boxplot.mem

LEMMA NothingSensed ==
    /\ <<>> \in Seq(Entry) /\ EndsWith(<<>>, <<>>)
    /\ \A ratio : Explained(<<>>, <<>>, NoSample, ratio)
<1>1. <<>> \in Seq(Entry) /\ Len(<<>>) = 0
  OBVIOUS
<1>2. EndsWith(<<>>, <<>>)
  BY <1>1 DEF EndsWith
<1>3. NoSample.alerts = {} /\ ~NoSample.boxplot.cpu /\ ~NoSample.boxplot.mem
  BY DEF NoSample
<1> QED BY <1>1, <1>2, <1>3 DEF Explained

(* What the alerts and the box plot of the windows promise.                *)
LEMMA SensedIsExplained ==
    ASSUME NEW base \in Seq(Entry), NEW recent \in Seq(Entry), EndsWith(base, recent),
           Sensible(settings), NEW s,
           "HW_CPU_DEGRADATION" \in s.alerts => "HW_CPU_DEGRADATION" \in HwAlerts(recent, base),
           "HW_MEM_DEGRADATION" \in s.alerts => "HW_MEM_DEGRADATION" \in HwAlerts(recent, base),
           s.boxplot = Boxplot(recent)
    PROVE  Explained(base, recent, s, settings.hw_degradation_ratio)
<1> DEFINE m == Len(base) - Len(recent)
           older == SubSeq(base, 1, m)
           ratio == settings.hw_degradation_ratio
<1>1. ratio \in Nat /\ ratio >= 2
  BY DEF Sensible
<1>2. m \in Nat /\ m <= Len(base)
  BY DEF EndsWith
<1>3. \A i \in 1 .. m : base[i] \in Range(older)
  <2> HIDE DEF m
  <2>1. Len(older) = m /\ DOMAIN older = 1 .. m /\ \A i \in 1 .. m : older[i] = base[i]
    BY <1>2
  <2> HIDE DEF older
  <2> QED BY <2>1 DEF Range
<1>4. \A j \in 1 .. Len(recent) : recent[j] \in Range(recent)
  BY DEF Range
<1>5. ASSUME "HW_CPU_DEGRADATION" \in s.alerts
      PROVE  \E a \in Range(older), b \in Range(recent) : ratio * a.cpu < b.cpu /\ b.cpu > 60
  <2>1. Exceeds(recent, base, "cpu", 30)
    BY <1>5 DEF HwAlerts
  <2>2. 30 \in Nat /\ "cpu" \in {"cpu", "mem"} /\ 2 * 30 = 60
    OBVIOUS
  <2>3. PICK j \in 1 .. Len(recent) :
           /\ recent[j]["cpu"] > 2 * 30
           /\ \E i \in 1 .. m : ratio * base[i]["cpu"] < recent[j]["cpu"]
    <3> HIDE DEF ratio
    <3> QED BY <1>1, <2>1, <2>2, RiseIsWitnessed DEF ratio
  <2>4. PICK i \in 1 .. m : ratio * base[i]["cpu"] < recent[j]["cpu"]
    BY <2>3
  <2> HIDE DEF m, older, ratio
  <2>5. base[i] \in Range(older) /\ recent[j] \in Range(recent)
    BY <1>3, <1>4
  <2>6. ratio * base[i].cpu < recent[j].cpu /\ recent[j].cpu > 60
    BY <2>2, <2>3, <2>4
  <2> QED BY <2>5, <2>6
<1>6. "HW_MEM_DEGRADATION" \notin s.alerts
  <2> SUFFICES ASSUME "HW_MEM_DEGRADATION" \in s.alerts PROVE FALSE
    OBVIOUS
  <2>1. Exceeds(recent, base, "mem", 50)
    BY DEF HwAlerts
  <2>2. 50 \in Nat /\ "mem" \in {"cpu", "mem"}
    OBVIOUS
  <2>3. PICK j \in 1 .. Len(recent) : recent[j]["mem"] > 2 * 50
    <3> HIDE DEF ratio
    <3> QED BY <1>1, <2>1, <2>2, RiseIsWitnessed DEF ratio
  <2>4. recent[j] \in Entry
    OBVIOUS
  <2>5. \A y \in 0 .. 100 : ~(y > 2 * 50)
    OBVIOUS
  <2>6. recent[j]["mem"] \in 0 .. 100
    BY <2>4 DEF Entry
  <2> QED BY <2>3, <2>5, <2>6
<1>7. ASSUME Cardinality(Range(recent)) = 1
      PROVE  ~s.boxplot.cpu /\ ~s.boxplot.mem
  <2>1. CASE Len(recent) < MinWindow
    BY <2>1 DEF Boxplot
  <2>2. CASE ~(Len(recent) < MinWindow)
    <3>1. Len(recent) \in Nat /\ MinWindow \in Nat /\ MinWindow >= 2
      BY SensingAssumption
    <3>2. Len(recent) >= 2
      BY <2>2, <3>1
    <3>3. ~Outlier(recent, "cpu") /\ ~Outlier(recent, "mem")
      BY <1>7, <3>2, SteadyIsNoOutlier
    <3>4. s.boxplot = [available |-> TRUE, cpu |-> Outlier(recent, "cpu"),
                            mem |-> Outlier(recent, "mem")]
      BY <2>2 DEF Boxplot
    <3> QED BY <3>3, <3>4
  <2> QED BY <2>1, <2>2
<1> QED BY <1>5, <1>6, <1>7 DEF Explained

LEMMA AlertNext ==
    ASSUME SensibleSettings, AlertInv, [SensingNext]_sensingVars
    PROVE  AlertInv'
<1>1. ASSUME StartClient PROVE AlertInv'
  <2>1. PICK found \in SettingsFound, env \in Environment :
           IF LoadsConfig(found, env)
           THEN sensor' = "warming" /\ settings' = LoadConfig(found, env)
           ELSE sensor' = "dead" /\ UNCHANGED settings
    BY <1>1 DEF StartClient
  <2>2. sensor' \in {"warming", "running"} => Sensible(settings')
    BY <2>1 DEF SensibleSettings
  <2>3. hwBaseline' = <<>> /\ localWindow' = <<>> /\ sample' = NoSample
    BY <1>1 DEF StartClient
  <2>4. WindowsOK'
    BY <2>2, <2>3, NothingSensed DEF WindowsOK
  <2>5. AlertNeedsRise'
    BY <2>3, NothingSensed DEF AlertNeedsRise, Explained
  <2> QED BY <2>4, <2>5 DEF AlertInv
<1>2. ASSUME UNCHANGED <<settings, windowsVars, sample>>,
             sensor' \in {"warming", "running"} => sensor \in {"warming", "running"}
      PROVE  AlertInv'
  BY <1>2 DEF AlertInv, WindowsOK, AlertNeedsRise, windowsVars
<1>3. ASSUME Sense PROVE AlertInv'
  <2>1. sensor = "running" /\ sensor' = sensor /\ settings' = settings
    BY <1>3 DEF Sense
  <2>2. Sensible(settings) /\ Sensible(settings)'
    BY <2>1 DEF AlertInv, WindowsOK
  <2>3. PICK r \in Reading, m \in Moment :
          LET gpu == GpuSample(r).gpu
              entry == [cpu |-> r.cpu, mem |-> r.mem]
          IN  /\ Collects(r)
              /\ localWindow' = Slide(localWindow, settings.local_window_size, entry)
              /\ hwBaseline' = Slide(hwBaseline, settings.hw_baseline_window, entry)
              /\ sample'.alerts = ThresholdAlerts(r, gpu, settings.thresholds[TimeSlot(m)])
                                 \cup AbsoluteAlerts(r, gpu, settings.absolute)
                                 \cup HwAlerts(localWindow', hwBaseline')
              /\ sample'.boxplot = Boxplot(localWindow')
    BY <1>3 DEF Sense
  <2> DEFINE entry == [cpu |-> r.cpu, mem |-> r.mem]
             gpu == GpuSample(r).gpu
             levels == ThresholdAlerts(r, gpu, settings.thresholds[TimeSlot(m)])
             breaches == AbsoluteAlerts(r, gpu, settings.absolute)
  <2>4. entry \in Entry
    <3>1. r.cpu \in 0 .. 100 /\ r.mem \in 0 .. 100
      BY <2>3, SensingAssumption DEF Collects
    <3> QED BY <3>1 DEF Entry
  <2>5. WindowsOK'
    <3> DEFINE s == settings.local_window_size
               t == settings.hw_baseline_window
    <3>1. s \in Nat \ {0} /\ t \in Nat \ {0} /\ s <= t
      BY <2>2 DEF Sensible
    <3>2. localWindow' = Slide(localWindow, s, entry) /\ hwBaseline' = Slide(hwBaseline, t, entry)
      BY <2>3
    <3>3. /\ hwBaseline \in Seq(Entry) /\ localWindow \in Seq(Entry)
          /\ EndsWith(hwBaseline, localWindow)
      BY DEF AlertInv, WindowsOK
    <3> HIDE DEF s, t, entry
    <3>4. localWindow' \in Seq(Entry) /\ hwBaseline' \in Seq(Entry)
      BY <2>4, <3>1, <3>2, <3>3, SlideKeeps
    <3>5. EndsWith(hwBaseline', localWindow')
      BY <2>4, <3>1, <3>2, <3>3, SlideEnds
    <3> QED BY <2>2, <3>4, <3>5 DEF WindowsOK
  <2>6. sample'.alerts = levels \cup breaches \cup HwAlerts(localWindow', hwBaseline')
    BY <2>3
  <2>7. "HW_CPU_DEGRADATION" \notin levels /\ "HW_MEM_DEGRADATION" \notin levels
    <3> HIDE DEF gpu
    <3> QED BY DEF ThresholdAlerts
  <2>8. "HW_CPU_DEGRADATION" \notin breaches /\ "HW_MEM_DEGRADATION" \notin breaches
    <3> HIDE DEF gpu
    <3> QED BY DEF AbsoluteAlerts
  <2> HIDE DEF levels, breaches
  <2>10. /\ "HW_CPU_DEGRADATION" \in (sample').alerts =>
               "HW_CPU_DEGRADATION" \in HwAlerts(localWindow', hwBaseline')
         /\ "HW_MEM_DEGRADATION" \in (sample').alerts =>
               "HW_MEM_DEGRADATION" \in HwAlerts(localWindow', hwBaseline')
    BY <2>6, <2>7, <2>8
  <2>11. (sample').boxplot = Boxplot(localWindow')
    BY <2>3
  <2>12. AlertNeedsRise'
    <3>1. /\ localWindow' \in Seq(Entry) /\ hwBaseline' \in Seq(Entry)
          /\ EndsWith(hwBaseline', localWindow')
      BY <2>5 DEF WindowsOK
    <3>2. Explained(hwBaseline', localWindow', sample', settings.hw_degradation_ratio)
      BY <2>2, <2>10, <2>11, <3>1, SensedIsExplained
    <3> QED BY <2>1, <3>2 DEF AlertNeedsRise, Explained
  <2> QED BY <2>5, <2>12 DEF AlertInv
<1>4. ASSUME Warmup PROVE AlertInv'
  BY <1>2, <1>4 DEF Warmup
<1>5. ASSUME SensingRaises PROVE AlertInv'
  BY <1>2, <1>5 DEF SensingRaises
<1>6. ASSUME UNCHANGED sensingVars PROVE AlertInv'
  BY <1>2, <1>6 DEF sensingVars
<1> QED BY <1>1, <1>3, <1>4, <1>5, <1>6 DEF SensingNext

LEMMA AlertsAtFirst == SensingInit => AlertInv
BY NothingSensed DEF SensingInit, AlertInv, WindowsOK, AlertNeedsRise, Explained

(* Detectors: nothing is called ageing that did not rise above twice what  *)
(* an earlier sample had, memory never is, and a constant window has no    *)
(* outlier; for every size of the windows and every sequence of readings.  *)
THEOREM AlertsNeedRises ==
    ASSUME SensibleSettings
    PROVE  SensingSpec => []AlertNeedsRise
<1>1. SensingInit => AlertInv
  BY AlertsAtFirst
<1>2. AlertInv /\ [SensingNext]_sensingVars => AlertInv'
  BY AlertNext
<1>3. AlertInv => AlertNeedsRise
  BY DEF AlertInv
<1> QED BY <1>1, <1>2, <1>3, PTL DEF SensingSpec
-----------------------------------------------------------------------------
(***************************************************************************)
(* The types of the parts.  What is in force is what a file has been read  *)
(* as, and what is being stored is, too.                                   *)
(***************************************************************************)
Read(v) ==
    \E d \in DocsOf("policy") : Loads("policy", d) /\ v.value = LoadPolicy("policy", d)

ReadOK ==
    /\ cache["policy"] # None => Read(cache["policy"])
    /\ \A r \in PolicyThread : at[r] = "store" /\ which[r] = "policy" => Read(loading[r])

LEMMA ReadNext == PolicyBase /\ ReadOK /\ [PolicyNext]_policyVars => ReadOK'
<1> SUFFICES ASSUME FileOK, ThreadOK, ReadOK, [PolicyNext]_policyVars PROVE ReadOK'
  BY DEF PolicyBase
<1> USE DEF ThreadOK, ReadOK, Files
<1>1. ASSUME NEW v PROVE Read(v)' <=> Read(v)
  BY DEF Read
<1>2. ASSUME NEW r \in PolicyThread, ReadPolicyFile(r) PROVE ReadOK'
  <2> DEFINE d == ReadYaml(which[r]).doc
             v == [value |-> LoadPolicy(which[r], d), edit |-> ReadYaml(which[r]).edit]
  <2>1. /\ Loads(which[r], d) /\ loading' = [loading EXCEPT ![r] = v]
        /\ at' = [at EXCEPT ![r] = "store"] /\ UNCHANGED <<cache, which>>
    BY <1>2 DEF ReadPolicyFile, Step, Take
  <2>2. which[r] \in Files /\ d \in DocsOf(which[r]) /\ v.value = LoadPolicy(which[r], d)
    BY DEF FileOK, ReadYaml
  <2> HIDE DEF v, d
  <2>3. which[r] = "policy" => Read(v)
    BY <2>1, <2>2 DEF Read
  <2> HIDE DEF Read
  <2> QED BY <1>1, <2>1, <2>3
<1>3. ASSUME NEW r \in PolicyThread, StoreCache(r) PROVE ReadOK'
  <2>1. /\ at[r] = "store" /\ cache' = [cache EXCEPT ![which[r]] = loading[r]]
        /\ loading' = [loading EXCEPT ![r] = None]
        /\ at'[r] # "store" /\ \A q \in PolicyThread : q # r => at'[q] = at[q]
        /\ \A q \in PolicyThread : q # r => which'[q] = which[q]
    BY <1>3 DEF StoreCache, Take, Step, Finish
  <2>2. cache'["policy"] = IF which[r] = "policy" THEN loading[r] ELSE cache["policy"]
    BY <2>1
  <2>3. ASSUME NEW q \in PolicyThread, at'[q] = "store", which'[q] = "policy"
        PROVE  Read(loading'[q])
    <3>1. q # r /\ loading'[q] = loading[q] /\ at[q] = "store" /\ which[q] = "policy"
      BY <2>1, <2>3
    <3> QED BY <3>1
  <2> HIDE DEF Read
  <2> QED BY <1>1, <2>1, <2>2, <2>3
<1>4. ASSUME cache' \in {cache, [cache EXCEPT !["policy"] = None], [cache EXCEPT !["allow"] = None]},
             \A r \in PolicyThread :
                at'[r] = "store" => /\ at[r] = "store" /\ loading'[r] = loading[r]
                                    /\ which'[r] = which[r]
      PROVE  ReadOK'
  BY <1>1, <1>4
<1>5. CASE EditFile
  BY <1>4, <1>5 DEF EditFile, policyThreadVars
<1>6. ASSUME NEW r \in PolicyThread, GetPolicy(r) PROVE ReadOK'
  BY <1>4, <1>6 DEF GetPolicy, Step, AfterCheck
<1>7. ASSUME NEW r \in PolicyThread, ReturnCache(r) \/ PolicyRaises(r) PROVE ReadOK'
  BY <1>4, <1>7 DEF ReturnCache, PolicyRaises, Step, Finish
<1>8. ASSUME NEW r \in PolicyThread, BeginReload(r) \/ EmptyAllowList(r) PROVE ReadOK'
  BY <1>4, <1>8 DEF BeginReload, EmptyAllowList, Step
<1>9. CASE UNCHANGED policyVars
  BY <1>4, <1>9 DEF policyVars, policyThreadVars
<1> QED BY <1>2, <1>3, <1>5, <1>6, <1>7, <1>8, <1>9 DEF PolicyNext

(* The larger of two numbers.                                              *)
LEMMA MaxOfTwo ==
    ASSUME NEW a \in Int, NEW b \in Int
    PROVE  Max({a, b}) = IF a >= b THEN a ELSE b
<1> DEFINE m == IF a >= b THEN a ELSE b
<1>1. m \in {a, b} /\ \A y \in {a, b} : m >= y
  OBVIOUS
<1>2. \A x \in {a, b} : (\A y \in {a, b} : x >= y) => x = m
  OBVIOUS
<1> QED BY <1>1, <1>2 DEF Max

LEMMA AtLeast ==
    ASSUME NEW low \in Nat, NEW v \in Int \cup {None, Junk}, NEW otherwise \in Nat
    PROVE  Max({low, Given(v, otherwise)}) >= low
<1> DEFINE g == Given(v, otherwise)
<1>1. g \in Int
  BY DEF Given, Number
<1> HIDE DEF g
<1>2. Max({low, g}) = IF low >= g THEN low ELSE g
  BY <1>1, MaxOfTwo
<1> DEFINE m == Max({low, g})
<1> HIDE DEF m
<1>3. m >= low
  BY <1>1, <1>2 DEF m
<1> QED BY <1>3 DEF m, g

(* Whatever a policy file says that does not raise when it is read,        *)
(* however requests, edits and reloads interleave: the thresholds in force *)
(* are in their order, the caps have their signs, and the numbers of the   *)
(* detection and of the episodes are not below the loader's floors.        *)
THEOREM PolicyTyped == PolicySpec => []PolicyTypeOK
<1>1. PolicyInit => ReadOK
  BY DEF PolicyInit, ReadOK, Files
<1>2. ASSUME NEW d \in DocsOf("policy"), Loads("policy", d), NEW p, p = LoadPolicy("policy", d)
      PROVE  /\ p.thresholds[1] < p.thresholds[2] /\ p.thresholds[2] < p.thresholds[3]
             /\ p.limits[1] >= 0 /\ p.limits[2] <= 0 /\ p.limits[3] <= 0
             /\ p.dos.floor >= 0 /\ p.dos.sustained >= 1
             /\ p.episode.decay >= 0 /\ p.episode.aiCooldown >= 0
  <2>1. d # Unusable /\ ValidateScoringPolicy(d)
    BY <1>2 DEF Loads
  <2>2. /\ p.thresholds = <<d.observe, d.suspicious, d.highRisk>>
        /\ p.limits = <<d.mlCap, d.maxDiscount, d.dangerDiscount>>
        /\ p.dos = BuildDosDetection(d.dos) /\ p.episode = BuildEpisodeDedupe(d.episode)
    BY <1>2 DEF LoadPolicy
  <2>3. /\ p.thresholds[1] < p.thresholds[2] /\ p.thresholds[2] < p.thresholds[3]
        /\ p.limits[1] >= 0 /\ p.limits[2] <= 0 /\ p.limits[3] <= 0
    BY <2>1, <2>2 DEF ValidateScoringPolicy
  <2>4. p.dos.floor >= 0 /\ p.dos.sustained >= 1
    <3>1. CASE d.dos = None
      BY <2>2, <3>1 DEF BuildDosDetection
    <3>2. CASE d.dos # None
      <4>1. d.dos.floor \in Int \cup {None, Junk} /\ d.dos.sustained \in Int \cup {None, Junk}
        BY <2>1, <3>2, PolicyAssumption
      <4>2. Max({0, Given(d.dos.floor, 0)}) >= 0 /\ Max({1, Given(d.dos.sustained, 1)}) >= 1
        BY <4>1, AtLeast
      <4> QED BY <2>2, <3>2, <4>2 DEF BuildDosDetection
    <3> QED BY <3>1, <3>2
  <2>5. p.episode.decay >= 0 /\ p.episode.aiCooldown >= 0
    <3>1. CASE d.episode = None
      BY <2>2, <3>1 DEF BuildEpisodeDedupe
    <3>2. CASE d.episode # None
      <4>1. d.episode.decay \in Int \cup {None, Junk} /\ d.episode.aiCooldown \in Int \cup {None, Junk}
        BY <2>1, <3>2, PolicyAssumption
      <4>2. Max({0, Given(d.episode.decay, 0)}) >= 0 /\ Max({0, Given(d.episode.aiCooldown, 600)}) >= 0
        <5>1. 0 \in Nat /\ 600 \in Nat
          OBVIOUS
        <5>2. Max({0, Given(d.episode.decay, 0)}) >= 0
          BY <4>1, <5>1, AtLeast
        <5>3. Max({0, Given(d.episode.aiCooldown, 600)}) >= 0
          <6>1. \A o \in Nat : Max({0, Given(d.episode.aiCooldown, o)}) >= 0
            BY <4>1, <5>1, AtLeast
          <6> QED BY <5>1, <6>1
        <5> QED BY <5>2, <5>3
      <4> QED BY <2>2, <3>2, <4>2 DEF BuildEpisodeDedupe
    <3> QED BY <3>1, <3>2
  <2> QED BY <2>3, <2>4, <2>5
<1>3. ReadOK => PolicyTypeOK
  <2> SUFFICES ASSUME ReadOK, NEW c \in InForce
               PROVE  LET p == c.value
                      IN  /\ p.thresholds[1] < p.thresholds[2] /\ p.thresholds[2] < p.thresholds[3]
                          /\ p.limits[1] >= 0 /\ p.limits[2] <= 0 /\ p.limits[3] <= 0
                          /\ p.dos.floor >= 0 /\ p.dos.sustained >= 1
                          /\ p.episode.decay >= 0 /\ p.episode.aiCooldown >= 0
    BY DEF PolicyTypeOK
  <2>1. PICK d \in DocsOf("policy") : Loads("policy", d) /\ c.value = LoadPolicy("policy", d)
    BY DEF ReadOK, InForce, Read
  <2> QED BY <1>2, <2>1
<1> QED BY <1>1, <1>3, BaseInit, BaseNext, ReadNext, PTL DEF PolicySpec
-----------------------------------------------------------------------------
(* A minute begins at itself, and an aggregate is made of samples.         *)
LEMMA MinuteOfMinute == ASSUME NEW n \in Nat PROVE Minute(Minute(n)) = Minute(n)
<1> DEFINE q == n \div MinuteTicks
           T == MinuteTicks
<1>1. T \in Nat \ {0} /\ q \in Int
  BY WindowAssumption
<1> HIDE DEF q, T
<1>2. (q * T) \div T = q
  BY <1>1
<1> QED BY <1>2 DEF Minute, q, T

MadeOK ==
    /\ \A k \in DOMAIN aggregates : aggregates[k].samples # <<>>

LEMMA FrozenIsMade ==
    ASSUME NEW w \in Seq(Aggregate), Len(w) <= AGGREGATE_WINDOW_MAX, NEW b \in MinuteBuf,
           \A k \in DOMAIN w : w[k].samples # <<>>
    PROVE  \A k \in DOMAIN Freeze(w, b) : Freeze(w, b)[k].samples # <<>>
<1> DEFINE a == [ts |-> b.start, samples |-> b.samples]
           x == Append(w, a)
           n == Len(w)
           f == Freeze(w, b)
<1>1. CASE b.samples = <<>>
  BY <1>1 DEF Freeze
<1>2. CASE b.samples # <<>>
  <2>1. a \in Aggregate /\ a.samples # <<>>
    BY <1>2 DEF MinuteBuf, Aggregate
  <2>2. f = LastOf(x)
    BY <1>2 DEF Freeze
  <2> HIDE DEF a, f
  <2>3. x \in Seq(Aggregate) /\ n \in Nat /\ Len(x) = n + 1 /\ x[n + 1] = a
        /\ \A k \in 1 .. n : x[k] = w[k]
    BY <2>1
  <2> HIDE DEF x, n
  <2>4. \A k \in DOMAIN x : x[k].samples # <<>>
    <3>1. DOMAIN x = 1 .. n + 1 /\ DOMAIN w = 1 .. n
      BY <2>3 DEF n
    <3>2. \A k \in 1 .. n + 1 : k \in 1 .. n \/ k = n + 1
      BY <2>3
    <3> QED BY <2>1, <2>3, <3>1, <3>2
  <2>5. \A k \in DOMAIN Tail(x) : Tail(x)[k] = x[k + 1] /\ k + 1 \in DOMAIN x
    <3>1. x # <<>>
      BY <2>3
    <3> QED BY <2>3, <3>1, HeadTailProperties
  <2> QED BY <2>2, <2>4, <2>5 DEF LastOf, f
<1> QED BY <1>1, <1>2

LEMMA MadeNext == OrderInv /\ MadeOK /\ [WindowNext]_windowVars => MadeOK'
<1> SUFFICES ASSUME StoreOK, MadeOK, [WindowNext]_windowVars PROVE MadeOK'
  BY DEF OrderInv
<1>1. ASSUME NEW b \in MinuteBuf, aggregates' = Freeze(aggregates, b) PROVE MadeOK'
  BY <1>1, FrozenIsMade DEF MadeOK, StoreOK
<1>2. ASSUME NEW r \in WindowReq, AppendSnapshot(r) PROVE MadeOK'
  <2>1. aggregates' = aggregates \/ aggregates' = Freeze(aggregates, minuteBuf)
    BY <1>2 DEF AppendSnapshot
  <2> QED BY <1>1, <2>1 DEF MadeOK, StoreOK
<1>3. ASSUME NEW r \in WindowReq, StoreAggregate(r) PROVE MadeOK'
  BY <1>1, <1>3 DEF StoreAggregate, StoreOK
<1>4. CASE UNCHANGED aggregates
  BY <1>4 DEF MadeOK
<1> QED BY <1>2, <1>3, <1>4 DEF WindowNext, AnalysisFails, ReadBuffer, JudgePatterns, MinuteTick, windowVars

(* The minutes of a PC, for any number of requests and any window: never   *)
(* more aggregates than the window holds, each of at least one sample and  *)
(* of the start of a minute, also when requests race.                      *)
THEOREM WindowTyped == WindowSpec => []WindowTypeOK
<1>1. ASSUME WindowInit PROVE OrderInv /\ MadeOK
  <2>1. DOMAIN aggregates = {}
    BY <1>1 DEF WindowInit
  <2> QED BY <1>1, <2>1, InitKeeps DEF MadeOK
<1>2. OrderInv /\ [WindowNext]_windowVars => OrderInv'
  BY WindowNextKeeps
<1>3. ASSUME OrderInv, MadeOK PROVE WindowTypeOK
  <2>1. StoreOK
    BY <1>3 DEF OrderInv
  <2>2. \A s \in Start : s = Minute(s)
    <3>1. 0 \in Nat /\ Minute(0) = 0
      BY WindowAssumption DEF Minute
    <3> QED BY <3>1, MinuteOfMinute DEF Start
  <2>3. ASSUME NEW k \in DOMAIN aggregates PROVE aggregates[k].ts \in Start
    <3>1. aggregates[k] \in Aggregate
      BY <2>1 DEF StoreOK
    <3> QED BY <3>1 DEF Aggregate
  <2> QED BY <1>3, <2>1, <2>2, <2>3 DEF StoreOK, MadeOK, WindowTypeOK
<1> QED BY <1>1, <1>2, <1>3, MadeNext, PTL DEF WindowSpec
-----------------------------------------------------------------------------
(***************************************************************************)
(* The bounds of the store: what is left of a deque is not longer than it, *)
(* and an append that makes a deque too long drops its first element.      *)
(***************************************************************************)
LEMMA KeptShorter ==
    ASSUME NEW T, NEW seq \in Seq(T), NEW S
    PROVE  Len(Filtered(seq, S)) \in 0 .. Len(seq)
<1> DEFINE f == KeptUpTo(seq, S)
           n == Len(seq)
           Q == {i \in 0 .. n : f[i] \in Seq(T \cap S) /\ Len(f[i]) <= i}
<1>1. /\ n \in Nat /\ f[0] = <<>>
      /\ \A k \in 1 .. n : f[k] = IF seq[k] \in S THEN Append(f[k - 1], seq[k]) ELSE f[k - 1]
      /\ \A k \in 1 .. n : seq[k] \in T
  BY KeptSteps
<1>0. \A k \in 0 .. n : f[k] \in Seq(T \cap S)
  BY KeptTyped
<1> HIDE DEF f
<1>2. 0 \in Q
  BY <1>0, <1>1
<1>3. ASSUME NEW k \in 1 .. n, k - 1 \in Q PROVE k \in Q
  <2>1. f[k - 1] \in Seq(T \cap S) /\ Len(f[k - 1]) <= k - 1 /\ k \in 0 .. n
    BY <1>1, <1>3
  <2>2. CASE seq[k] \in S
    <3>1. f[k] = Append(f[k - 1], seq[k]) /\ seq[k] \in T \cap S
      BY <1>1, <2>2
    <3>2. Len(f[k]) = Len(f[k - 1]) + 1
      BY <2>1, <3>1
    <3> QED BY <1>0, <1>1, <2>1, <3>2
  <2>3. CASE seq[k] \notin S
    <3>1. f[k] = f[k - 1]
      BY <1>1, <2>3
    <3> QED BY <1>0, <1>1, <2>1, <3>1
  <2> QED BY <2>2, <2>3
<1>4. n \in Q
  <2> HIDE DEF Q, n
  <2>1. n \in Nat /\ n \in 0 .. n
    BY <1>1
  <2> QED BY <1>2, <1>3, <2>1, UpTo
<1>5. Filtered(seq, S) = f[n]
  BY DEF Filtered, f
<1>6. Len(f[n]) \in Nat
  BY <1>4
<1> QED BY <1>1, <1>4, <1>5, <1>6

LEMMA WithoutShorter ==
    ASSUME NEW d, IsSeq(d), NEW p PROVE Len(Without(d, p)) \in 0 .. Len(d)
<1>1. PICK T : d \in Seq(T)
  BY DEF IsSeq
<1> QED BY <1>1, KeptShorter DEF Without

LEMMA AddStaysBounded ==
    ASSUME NEW d, IsSeq(d), Len(d) <= MaxSegments, NEW x
    PROVE  Len(AddBounded(d, x)) <= MaxSegments
<1>1. PICK T : d \in Seq(T)
  BY DEF IsSeq
<1> DEFINE n == Len(d)
<1>2. n \in Nat /\ n <= MaxSegments /\ MaxSegments \in Nat \ {0}
  BY <1>1, FleetAssumption
<1>3. CASE n >= MaxSegments
  <2>1. d # <<>>
    BY <1>1, <1>2, <1>3
  <2> DEFINE t == Tail(d)
  <2>2. t \in Seq(T \cup {x}) /\ Len(t) = n - 1 /\ x \in T \cup {x}
    BY <1>1, <2>1, HeadTailProperties
  <2>3. AddBounded(d, x) = Append(t, x)
    BY <1>3 DEF AddBounded
  <2> HIDE DEF t
  <2>4. Len(Append(t, x)) = Len(t) + 1
    BY <2>2
  <2> QED BY <1>2, <2>2, <2>3, <2>4
<1>4. CASE ~(n >= MaxSegments)
  <2>1. d \in Seq(T \cup {x}) /\ x \in T \cup {x}
    BY <1>1
  <2>2. AddBounded(d, x) = Append(d, x) /\ Len(Append(d, x)) = n + 1
    BY <1>4, <2>1 DEF AddBounded
  <2> QED BY <1>2, <1>4, <2>2
<1> QED BY <1>3, <1>4

(* The score of the evidence is cut to its range.                          *)
LEMMA CutToRange ==
    ASSUME NEW n \in Int PROVE Max({-2, Min({5, n})}) \in -2 .. 5
<1> DEFINE m == Min({5, n})
<1>1. m = IF n < 5 THEN n ELSE 5
  <2> DEFINE v == IF n < 5 THEN n ELSE 5
  <2>1. v \in {5, n} /\ \A y \in {5, n} : v <= y
    OBVIOUS
  <2>2. \A w \in {5, n} : (\A y \in {5, n} : w <= y) => w = v
    OBVIOUS
  <2> QED BY <2>1, <2>2 DEF Min
<1>2. m \in Int /\ m <= 5
  BY <1>1
<1> HIDE DEF m
<1>3. Max({-2, m}) = IF -2 >= m THEN -2 ELSE m
  BY <1>2, MaxOfTwo
<1> QED BY <1>2, <1>3 DEF m

LEMMA ScoreInRange ==
    ASSUME NEW cases, NEW x, NEW mismatch PROVE EvidenceScore(cases, x, mismatch) \in -2 .. 5
<1> DEFINE c == Len(cases) > 0 /\ NearNormal(cases) >= Max({2, (Len(cases) + 1) \div 2})
                /\ ~(x.cpu >= 70 \/ x.gpu >= 70)
           h == CountCases(cases, {"HIGH_RISK"}) > 0
           s == CountCases(cases, {"SUSPICIOUS"}) > 0
           z == Len(cases) = 0
           n == (IF c THEN -2 ELSE 0) + (IF h THEN 3 ELSE 0) + (IF s THEN 2 ELSE 0)
                + (IF z THEN 1 ELSE 0) + (IF mismatch THEN 2 ELSE 0)
<1>1. EvidenceScore(cases, x, mismatch) = Max({-2, Min({5, n})})
  BY DEF EvidenceScore
<1>2. n \in Int
  <2> HIDE DEF c, h, s, z
  <2> QED OBVIOUS
<1> HIDE DEF n
<1> QED BY <1>1, <1>2, CutToRange

(* Every deque is bounded, so is what is put in the place of one, the      *)
(* evidence of a request has a score, and no sample is from the future.    *)
LengthsOK ==
    /\ \A k \in 1 .. InUse : Len(deques[k]) <= MaxSegments
    /\ \A c \in Clearer : clearing[c].stage = "replace" => Len(clearing[c].kept) <= MaxSegments

Scored(e) == "score" \in DOMAIN e /\ e.score \in -2 .. 5
ScoresOK == \A r \in FleetReq : "evidence" \in DOMAIN call[r] /\ Scored(call[r].evidence)

TimesOK == now \in Nat /\ \A p \in Pc : latest[p] # None => latest[p].at \in 0 .. now

LEMMA LengthsNext ==
    StoreInv /\ ForgetInv /\ LengthsOK /\ [FleetNext]_fleetVars => LengthsOK'
<1> SUFFICES ASSUME StoreInv, ForgetInv, LengthsOK, [FleetNext]_fleetVars PROVE LengthsOK'
  OBVIOUS
<1>0. FieldsOK /\ DequesOK /\ HoldsDeque /\ HoldsCopy /\ StoredOK /\ CopyOK
  BY DEF StoreInv, ForgetInv
<1>1. ASSUME UNCHANGED deques,
             \A c \in Clearer : clearing'[c].stage = "replace"
                => clearing[c].stage = "replace" /\ clearing'[c].kept = clearing[c].kept
      PROVE  LengthsOK'
  BY <1>1 DEF LengthsOK, InUse
<1>2. CASE FleetTick \/ UNCHANGED fleetVars
  BY <1>1, <1>2 DEF FleetTick, fleetVars, fleetHistory
<1>3. ASSUME NEW r \in FleetReq, ReportLatest(r) PROVE LengthsOK'
  <2>1. \A c \in Clearer : /\ clearing'[c]["stage"] = clearing[c]["stage"]
                           /\ clearing'[c]["kept"] = clearing[c]["kept"]
    BY <1>0, <1>3, Reporting
  <2>2. UNCHANGED deques
    BY <1>3 DEF ReportLatest
  <2> QED BY <1>1, <2>1, <2>2
<1>4. ASSUME NEW r \in FleetReq,
             \/ Search(r) \/ ComparePeers(r) \/ TakeDeque(r)
             \/ BeginDegradation(r) \/ EndDegradation(r)
      PROVE  LengthsOK'
  <2>1. UNCHANGED <<deques, clearing>>
    BY <1>4 DEF Search, ComparePeers, TakeDeque, BeginDegradation, EndDegradation
  <2> QED BY <1>1, <2>1
<1>5. ASSUME NEW r \in FleetReq, AppendSegment(r) PROVE LengthsOK'
  <2> DEFINE j == call[r].deque
  <2>1. PICK s : deques' = [deques EXCEPT ![j] = AddBounded(deques[j], s)]
    BY <1>5 DEF AppendSegment
  <2>2. j \in 1 .. InUse /\ UNCHANGED clearing
    BY <1>0, <1>5 DEF AppendSegment, HoldsDeque
  <2>3. /\ InUse' = InUse /\ deques'[j] = AddBounded(deques[j], s)
        /\ \A k \in 1 .. InUse : k # j => deques'[k] = deques[k]
    BY <1>0, <2>1, <2>2, ChangedDeque
  <2>4. Len(deques'[j]) <= MaxSegments
    BY <1>0, <2>2, <2>3, AddStaysBounded DEF StoredOK, LengthsOK
  <2> HIDE DEF j
  <2> QED BY <2>2, <2>3, <2>4 DEF LengthsOK
<1>6. ASSUME NEW c \in Clearer, ClearLatest(c) \/ BeginFilter(c) PROVE LengthsOK'
  <2>1. /\ \A d \in Clearer : d # c => clearing'[d] = clearing[d]
        /\ clearing'[c].stage # "replace"
    BY <1>0, <1>6 DEF ClearLatest, BeginFilter, UpdateClear, NoClear, FieldsOK
  <2>2. UNCHANGED deques
    BY <1>6 DEF ClearLatest, BeginFilter
  <2> QED BY <1>1, <2>1, <2>2
<1>7. ASSUME NEW c \in Clearer, EndFilter(c) PROVE LengthsOK'
  <2> DEFINE x == clearing[c]
  <2>1. /\ \A d \in Clearer : d # c => clearing'[d] = clearing[d]
        /\ UNCHANGED deques /\ x.stage = "copy"
        /\ clearing'[c].stage = "replace" => clearing'[c].kept = Without(deques[x.deque], x.pc)
    BY <1>0, <1>7 DEF EndFilter, UpdateClear, Source, FieldsOK
  <2>2. x.deque \in 1 .. InUse
    BY <1>0, <2>1 DEF HoldsCopy
  <2>3. /\ Len(deques[x.deque]) <= MaxSegments
        /\ Len(Without(deques[x.deque], x.pc)) \in 0 .. Len(deques[x.deque])
    BY <1>0, <2>2, WithoutShorter DEF StoredOK, LengthsOK
  <2>4. Len(deques[x.deque]) \in Nat /\ MaxSegments \in Nat
    BY <1>0, <2>2, FleetAssumption DEF StoredOK, IsSeq
  <2>5. Len(Without(deques[x.deque], x.pc)) <= MaxSegments
    BY <2>3, <2>4
  <2> QED BY <2>1, <2>5 DEF LengthsOK, InUse
<1>8. ASSUME NEW c \in Clearer, ReplaceDeque(c) PROVE LengthsOK'
  <2> DEFINE d == clearing[c].kept
  <2>1. /\ deques' = Append(deques, d) /\ clearing[c].stage = "replace"
        /\ clearing' = [clearing EXCEPT ![c] = [clearing[c] EXCEPT !.stage = "done"]]
    BY <1>8 DEF ReplaceDeque, UpdateClear
  <2>2. /\ InUse' = InUse + 1 /\ deques'[InUse + 1] = d /\ InUse \in Nat \ {0}
        /\ \A k \in 1 .. InUse : deques'[k] = deques[k]
    BY <1>0, <2>1, ReplacedDeques DEF DequesOK
  <2>3. /\ \A e \in Clearer : e # c => clearing'[e] = clearing[e]
        /\ clearing'[c].stage # "replace"
    BY <1>0, <2>1 DEF FieldsOK
  <2>4. Len(d) <= MaxSegments
    BY <2>1 DEF LengthsOK
  <2>5. ASSUME NEW k \in 1 .. InUse + 1 PROVE Len(deques'[k]) <= MaxSegments
    <3>1. k = InUse + 1 \/ k \in 1 .. InUse
      BY <2>2
    <3> QED BY <2>2, <2>4, <3>1 DEF LengthsOK
  <2>6. \A k \in 1 .. InUse' : Len(deques'[k]) <= MaxSegments
    BY <2>2, <2>5
  <2>7. \A e \in Clearer : clearing'[e].stage = "replace" => Len(clearing'[e].kept) <= MaxSegments
    BY <2>3 DEF LengthsOK
  <2> HIDE DEF d
  <2> QED BY <2>6, <2>7 DEF LengthsOK
<1> QED BY <1>2, <1>3, <1>4, <1>5, <1>6, <1>7, <1>8 DEF FleetNext

LEMMA ScoresNext == FieldsOK /\ ScoresOK /\ [FleetNext]_fleetVars => ScoresOK'
<1> SUFFICES ASSUME FieldsOK, ScoresOK, [FleetNext]_fleetVars PROVE ScoresOK'
  OBVIOUS
<1> USE DEF FieldsOK, ScoresOK
<1>1. Scored(NoEvidence)
  BY DEF Scored, NoEvidence
<1>2. CASE FleetTick \/ UNCHANGED fleetVars \/ \E c \in Clearer :
             BeginFilter(c) \/ EndFilter(c) \/ ReplaceDeque(c)
  <2>1. UNCHANGED call
    BY <1>2 DEF FleetTick, fleetVars, BeginFilter, EndFilter, ReplaceDeque
  <2> QED BY <2>1 DEF Scored
<1>3. ASSUME NEW r \in FleetReq, ReportLatest(r) PROVE ScoresOK'
  <2>1. PICK x \in Report :
          call' = [q \in FleetReq |->
              IF q = r
              THEN [NoCall EXCEPT
                       !.stage = IF x.shape = None THEN "degradation" ELSE "search",
                       !.pc = x.pc, !.cpu = x.cpu, !.gpu = x.gpu,
                       !.mine = IF x.shape = None THEN None
                                ELSE [pc |-> x.pc, stamp |-> now, shape |-> x.shape],
                       !.beside = {call[o].pc : o \in Calls} \cup {clearing[c].pc : c \in Clearing}]
              ELSE IF q \in Calls THEN [call[q] EXCEPT !.beside = @ \cup {x.pc}] ELSE call[q]]
    BY <1>3 DEF ReportLatest
  <2>2. "evidence" \in DOMAIN call'[r] /\ call'[r].evidence = NoEvidence
    <3> DEFINE side == {call[o].pc : o \in Calls} \cup {clearing[c].pc : c \in Clearing}
               own == IF x.shape = None THEN None
                      ELSE [pc |-> x.pc, stamp |-> now, shape |-> x.shape]
               first == IF x.shape = None THEN "degradation" ELSE "search"
    <3>1. call'[r] = [NoCall EXCEPT !.stage = first, !.pc = x.pc, !.cpu = x.cpu, !.gpu = x.gpu,
                                    !.mine = own, !.beside = side]
      BY <2>1
    <3> HIDE DEF side, own, first
    <3> QED BY <3>1 DEF NoCall
  <2>3. ASSUME NEW q \in FleetReq, q # r
        PROVE  "evidence" \in DOMAIN call'[q] /\ call'[q].evidence = call[q].evidence
    BY <2>1, <2>3
  <2> QED BY <1>1, <2>2, <2>3 DEF Scored
<1>4. ASSUME NEW r \in FleetReq, Search(r) PROVE ScoresOK'
  <2> DEFINE near == Nearest(deques[InUse], call[r].mine)
             know == Cardinality(Reported)
  <2>1. call' = [call EXCEPT ![r] = [call[r] EXCEPT !.evidence.cases = near, !.known = know,
                                                    !.stage = "peers"]]
    BY <1>4 DEF Search, Update
  <2> HIDE DEF near, know
  <2>2. /\ "evidence" \in DOMAIN call'[r] /\ DOMAIN call'[r].evidence = DOMAIN call[r].evidence
        /\ call'[r].evidence["score"] = call[r].evidence["score"]
    BY <2>1 DEF Scored
  <2>3. \A q \in FleetReq : q # r => call'[q] = call[q]
    BY <2>1
  <2> QED BY <2>2, <2>3 DEF Scored
<1>5. ASSUME NEW r \in FleetReq, ComparePeers(r) PROVE ScoresOK'
  <2> DEFINE x == call[r]
             m == PeerMismatch(x.pc, x.cpu)
             s == EvidenceScore(x.evidence.cases, x, m)
             found == [available |-> TRUE, cases |-> x.evidence.cases, mismatch |-> m, score |-> s]
             e == IF Cardinality(Reported) # x.known THEN NoEvidence ELSE found
  <2>1. call' = [call EXCEPT ![r] = [x EXCEPT !.evidence = e, !.stage = "add"]]
    BY <1>5 DEF ComparePeers, Update
  <2>2. Scored(e)
    <3>1. s \in -2 .. 5
      BY ScoreInRange
    <3>2. "score" \in DOMAIN found /\ found.score = s
      OBVIOUS
    <3> HIDE DEF s, found
    <3> QED BY <1>1, <3>1, <3>2 DEF Scored
  <2> HIDE DEF e
  <2>3. "evidence" \in DOMAIN call'[r] /\ call'[r].evidence = e
    BY <2>1
  <2>4. \A q \in FleetReq : q # r => call'[q] = call[q]
    BY <2>1
  <2> QED BY <2>2, <2>3, <2>4
<1>6. ASSUME NEW r \in FleetReq,
             TakeDeque(r) \/ AppendSegment(r) \/ BeginDegradation(r) \/ EndDegradation(r)
      PROVE  ScoresOK'
  <2>1. \A q \in FleetReq :
           "evidence" \in DOMAIN call'[q] /\ call'[q].evidence = call[q].evidence
    <3>1. CASE TakeDeque(r)
      BY <3>1 DEF TakeDeque, Update
    <3>2. CASE AppendSegment(r)
      BY <3>2 DEF AppendSegment, Update
    <3>3. CASE BeginDegradation(r)
      BY <3>3 DEF BeginDegradation, Update
    <3>4. CASE EndDegradation(r)
      BY <3>4 DEF EndDegradation, Update
    <3> QED BY <1>6, <3>1, <3>2, <3>3, <3>4
  <2> QED BY <2>1 DEF Scored
<1>7. ASSUME NEW c \in Clearer, ClearLatest(c) PROVE ScoresOK'
  <2>1. \A q \in FleetReq :
           "evidence" \in DOMAIN call'[q] /\ call'[q].evidence = call[q].evidence
    BY <1>7 DEF ClearLatest
  <2> QED BY <2>1 DEF Scored
<1> QED BY <1>2, <1>3, <1>4, <1>5, <1>6, <1>7 DEF FleetNext

LEMMA TimesNext == Unheard /\ TimesOK /\ [FleetNext]_fleetVars => TimesOK'
<1> SUFFICES ASSUME DOMAIN latest = Pc, TimesOK, [FleetNext]_fleetVars PROVE TimesOK'
  BY DEF Unheard
<1> USE DEF TimesOK
<1>1. CASE UNCHANGED <<now, latest>>
  BY <1>1
<1>2. CASE FleetTick
  BY <1>2 DEF FleetTick
<1>3. ASSUME NEW r \in FleetReq, ReportLatest(r) PROVE TimesOK'
  <2>1. PICK x \in Report :
            latest' = [latest EXCEPT ![x.pc] = [cpu |-> x.cpu, slot |-> x.slot, at |-> now]]
    BY <1>3 DEF ReportLatest
  <2>2. UNCHANGED now
    BY <1>3 DEF ReportLatest
  <2> QED BY <2>1, <2>2
<1>4. ASSUME NEW c \in Clearer, ClearLatest(c) PROVE TimesOK'
  BY <1>4 DEF ClearLatest, DropLatest
<1> QED BY <1>1, <1>2, <1>3, <1>4
        DEF FleetNext, fleetVars, Search, ComparePeers, TakeDeque, AppendSegment,
            BeginDegradation, EndDegradation, BeginFilter, EndFilter, ReplaceDeque

(* For any number of PCs, requests and clears: no deque of segments grows  *)
(* beyond its bound, the score of the evidence stays in its range whatever *)
(* the comparison raises, and the latest samples are not from the future.  *)
THEOREM FleetTyped == FleetSpec => []FleetTypeOK
<1>1. ASSUME FleetInit PROVE ForgetInv /\ LengthsOK /\ ScoresOK /\ TimesOK
  <2>1. ForgetInv
    BY <1>1, ForgetsAtFirst
  <2>2. deques = <<Store0>> /\ InUse = 1 /\ deques[1] = Store0
    BY <1>1 DEF FleetInit, InUse
  <2>3. Len(Store0) <= MaxSegments
    BY FleetAssumption
  <2>4. \A c \in Clearer : clearing[c].stage = "idle"
    BY <1>1 DEF FleetInit, NoClear
  <2>5. LengthsOK
    BY <2>2, <2>3, <2>4 DEF LengthsOK
  <2>6. ScoresOK
    BY <1>1 DEF FleetInit, NoCall, NoEvidence, ScoresOK, Scored
  <2>7. TimesOK
    BY <1>1, FleetAssumption DEF FleetInit, TimesOK
  <2> QED BY <2>1, <2>5, <2>6, <2>7
<1>2. ASSUME StoreInv, ForgetInv, LengthsOK, ScoresOK, TimesOK PROVE FleetTypeOK
  <2>1. DOMAIN deques = 1 .. InUse
    BY <1>2 DEF StoreInv, DequesOK, InUse
  <2>2. \A p \in Reported : p \in Pc /\ latest[p] # None
    BY DEF Reported
  <2> QED BY <1>2, <2>1, <2>2 DEF FleetTypeOK, LengthsOK, ScoresOK, Scored, TimesOK
<1>3. StoreInv => FieldsOK
  BY DEF StoreInv
<1>4. ForgetInv => Unheard
  BY DEF ForgetInv
<1> QED BY <1>1, <1>2, <1>3, <1>4, StoreInit, StoreNext, ForgetNext, LengthsNext, ScoresNext,
           TimesNext, PTL DEF FleetSpec
-----------------------------------------------------------------------------
(***************************************************************************)
(* The types of a client that finds only sensible settings and has such    *)
(* defaults: its windows are bounded and what it measures is not negative. *)
(***************************************************************************)
Measured(s) ==
    /\ s.inbound >= 0 /\ s.disk >= 0
    /\ s.idle.ms # None => s.idle.ms \in 0 .. DWORD - 1

WithinSizes(cfg) ==
    /\ Len(localWindow) <= cfg.local_window_size
    /\ Len(hwBaseline) <= cfg.hw_baseline_window

SizesInv ==
    /\ Sensible(settings) /\ WithinSizes(settings)
    /\ prevDisk \in Nat \cup {None}
    /\ Measured(sample)

LEMMA DeltaIsNatural == ASSUME NEW a \in Int \cup {None}, NEW b \in Int PROVE Delta(a, b) \in Nat
<1>1. CASE a = None
  BY <1>1 DEF Delta
<1>2. CASE a \in Int
  <2> DEFINE d == Delta(a, b)
  <2>1. d = IF b >= a THEN b - a ELSE 0
    BY <1>2, DeltaIsRise
  <2> HIDE DEF d
  <2> QED BY <1>2, <2>1 DEF d
<1> QED BY <1>1, <1>2

LEMMA IdleIsTicks ==
    ASSUME NEW r \in Reading
    PROVE  IdleSample(r).ms # None => IdleSample(r).ms \in 0 .. DWORD - 1
<1>1. CASE r.ticks = None
  BY <1>1 DEF IdleSample
<1>2. CASE r.ticks # None
  <2> DEFINE n == r.ticks.now - r.ticks.input
             m == n % DWORD
  <2>1. n \in Int /\ DWORD \in Nat \ {0}
    BY <1>2, SensingAssumption
  <2>2. IdleSample(r).ms = m
    BY <1>2 DEF IdleSample
  <2> HIDE DEF n
  <2>3. m \in 0 .. DWORD - 1
    BY <2>1
  <2> QED BY <2>2, <2>3
<1> QED BY <1>1, <1>2

LEMMA SizesNext ==
    ASSUME SensibleSettings, TrafficInv, WindowsOK, SizesInv, [SensingNext]_sensingVars
    PROVE  SizesInv'
<1> USE DEF SizesInv
<1>0. Measured(NoSample)
  BY DEF Measured, NoSample
<1>1. CASE StartClient
  <2>1. PICK found \in SettingsFound, env \in Environment :
           IF LoadsConfig(found, env)
           THEN sensor' = "warming" /\ settings' = LoadConfig(found, env)
           ELSE sensor' = "dead" /\ UNCHANGED settings
    BY <1>1 DEF StartClient
  <2>2. Sensible(settings')
    BY <2>1 DEF SensibleSettings
  <2>3. hwBaseline' = <<>> /\ localWindow' = <<>> /\ sample' = NoSample /\ prevDisk' = None
    BY <1>1 DEF StartClient
  <2>4. WithinSizes(settings)'
    BY <2>2, <2>3 DEF WithinSizes, Sensible
  <2> QED BY <1>0, <2>2, <2>3, <2>4 DEF Measured, Sensible
<1>2. ASSUME UNCHANGED <<settings, windowsVars, sample>>, prevDisk' \in Nat \cup {None}
      PROVE  SizesInv'
  BY <1>2 DEF WithinSizes, Measured, Sensible, windowsVars
<1>3. ASSUME NEW r \in Reading, CollectCounters(r), Collects(r)
      PROVE  prevDisk' \in Nat \cup {None} /\ netCount' \in Nat
  <2>1. prevDisk' = r.disk /\ r.disk \in Nat \cup {None}
    BY <1>3, SensingAssumption DEF CollectCounters
  <2>2. netCount \in Nat /\ r.received \in Nat
    BY <1>3, SensingAssumption DEF TrafficInv, CountersOK, Collects
  <2>3. netCount' = IF r.reset THEN r.received ELSE netCount + r.received
    BY <1>3 DEF CollectCounters
  <2> QED BY <2>1, <2>2, <2>3
<1>4. CASE Sense
  <2>1. settings' = settings
    BY <1>4 DEF Sense
  <2>2. PICK r \in Reading :
          LET entry == [cpu |-> r.cpu, mem |-> r.mem]
          IN  /\ Collects(r) /\ CollectCounters(r)
              /\ localWindow' = Slide(localWindow, settings.local_window_size, entry)
              /\ hwBaseline' = Slide(hwBaseline, settings.hw_baseline_window, entry)
              /\ (sample').inbound = Delta(prevNet, netCount')
              /\ (sample').disk = (IF r.disk = None THEN 0 ELSE Delta(prevDisk, r.disk))
              /\ (sample').idle = IdleSample(r)
    BY <1>4 DEF Sense
  <2> DEFINE entry == [cpu |-> r.cpu, mem |-> r.mem]
             s == settings.local_window_size
             t == settings.hw_baseline_window
  <2>3. entry \in Entry
    <3>1. r.cpu \in 0 .. 100 /\ r.mem \in 0 .. 100
      BY <2>2, SensingAssumption DEF Collects
    <3> QED BY <3>1 DEF Entry
  <2>4. s \in Nat \ {0} /\ t \in Nat \ {0}
    BY DEF Sensible
  <2>5. /\ localWindow' = Slide(localWindow, s, entry) /\ hwBaseline' = Slide(hwBaseline, t, entry)
        /\ localWindow \in Seq(Entry) /\ hwBaseline \in Seq(Entry)
        /\ Len(localWindow) <= s /\ Len(hwBaseline) <= t
    BY <2>2 DEF WithinSizes, WindowsOK
  <2> HIDE DEF entry, s, t
  <2>6. Len(localWindow') <= s
    <3>1. Len(localWindow') = IF Len(localWindow) >= s THEN Len(localWindow)
                              ELSE Len(localWindow) + 1
      BY <2>3, <2>4, <2>5, SlideKeeps
    <3>2. Len(localWindow) \in Nat
      BY <2>5
    <3> QED BY <2>4, <2>5, <3>1, <3>2
  <2>7. Len(hwBaseline') <= t
    <3>1. Len(hwBaseline') = IF Len(hwBaseline) >= t THEN Len(hwBaseline) ELSE Len(hwBaseline) + 1
      BY <2>3, <2>4, <2>5, SlideKeeps
    <3>2. Len(hwBaseline) \in Nat
      BY <2>5
    <3> QED BY <2>4, <2>5, <3>1, <3>2
  <2>8. WithinSizes(settings)'
    BY <2>1, <2>6, <2>7 DEF WithinSizes, s, t
  <2>9. netCount' \in Nat /\ prevDisk' \in Nat \cup {None} /\ prevNet \in Int \cup {None}
    BY <1>3, <2>2 DEF TrafficInv, CountersOK
  <2>10. Delta(prevNet, netCount') \in Nat
    <3>1. netCount' \in Int
      BY <2>9
    <3> QED BY <2>9, <3>1, DeltaIsNatural
  <2>11. r.disk # None => Delta(prevDisk, r.disk) \in Nat
    <3>1. r.disk \in Nat \cup {None} /\ prevDisk \in Int \cup {None}
      BY SensingAssumption
    <3>2. r.disk # None => r.disk \in Int
      BY <3>1
    <3> QED BY <3>1, <3>2, DeltaIsNatural
  <2>12. Measured(sample)'
    <3>1. (sample').inbound >= 0 /\ (sample').disk >= 0
      BY <2>2, <2>10, <2>11
    <3>2. (sample').idle.ms # None => (sample').idle.ms \in 0 .. DWORD - 1
      BY <2>2, IdleIsTicks
    <3> QED BY <3>1, <3>2 DEF Measured
  <2> QED BY <2>1, <2>8, <2>9, <2>12 DEF Sensible
<1>5. CASE Warmup
  <2>1. PICK r \in Reading : Collects(r) /\ CollectCounters(r)
    BY <1>5 DEF Warmup
  <2> QED BY <1>2, <1>3, <1>5, <2>1 DEF Warmup
<1>6. CASE SensingRaises
  BY <1>2, <1>6 DEF SensingRaises
<1>7. CASE UNCHANGED sensingVars
  BY <1>2, <1>7 DEF sensingVars
<1> QED BY <1>1, <1>4, <1>5, <1>6, <1>7 DEF SensingNext

(* What the client holds of the PC, over any number of cycles and starts,  *)
(* with settings and defaults that are sensible: the windows have at most  *)
(* their sizes, the short one is the end of the long one, no traffic is    *)
(* negative although counters fall, and idle times survive a wrapped tick. *)
THEOREM SensingTyped ==
    ASSUME SensibleSettings, Sensible(DefaultSettings)
    PROVE  SensingSpec => []SensingTypeOK
<1>1. SensingInit => TrafficInv /\ AlertInv /\ SizesInv
  <2> SUFFICES ASSUME SensingInit PROVE TrafficInv /\ AlertInv /\ SizesInv
    OBVIOUS
  <2>1. Sensible(settings) /\ localWindow = <<>> /\ hwBaseline = <<>> /\ sample = NoSample
        /\ prevDisk = None
    BY DEF SensingInit, Sensible
  <2>2. WithinSizes(settings)
    BY <2>1 DEF WithinSizes, Sensible
  <2>3. Measured(sample)
    BY <2>1 DEF Measured, NoSample
  <2> QED BY <2>1, <2>2, <2>3, AlertsAtFirst, TrafficAtFirst DEF SizesInv
<1>2. TrafficInv /\ AlertInv /\ SizesInv /\ [SensingNext]_sensingVars
      => TrafficInv' /\ AlertInv' /\ SizesInv'
  BY TrafficNext, AlertNext, SizesNext DEF AlertInv
<1>3. AlertInv /\ SizesInv => SensingTypeOK
  <2> SUFFICES ASSUME WindowsOK, SizesInv PROVE SensingTypeOK
    BY DEF AlertInv
  <2> DEFINE m == Len(hwBaseline) - Len(localWindow)
             s == SubSeq(hwBaseline, m + 1, Len(hwBaseline))
  <2>1. /\ hwBaseline \in Seq(Entry) /\ localWindow \in Seq(Entry)
        /\ Len(localWindow) <= Len(hwBaseline)
        /\ \A i \in 1 .. Len(localWindow) : localWindow[i] = hwBaseline[m + i]
    BY DEF WindowsOK, EndsWith
  <2>2. m \in 0 .. Len(hwBaseline)
    BY <2>1
  <2>3. IsSuffix(s, hwBaseline)
    BY <2>1, <2>2, EndIsSuffix
  <2>4. s = localWindow
    <3> DEFINE l == Len(hwBaseline)
               k == Len(localWindow)
    <3>1. l \in Nat /\ k \in Nat /\ m = l - k /\ m \in 0 .. l
      BY <2>1, <2>2
    <3>2. s \in Seq(Entry) /\ Len(s) = k /\ \A i \in 1 .. k : s[i] = hwBaseline[m + i]
      <4> HIDE DEF m, k
      <4> QED BY <2>1, <3>1
    <3> HIDE DEF m, l, s
    <3> QED BY <2>1, <3>2
  <2> HIDE DEF s
  <2> QED BY <2>3, <2>4 DEF SensingTypeOK, SizesInv, WithinSizes, Measured
<1> QED BY <1>1, <1>2, <1>3, PTL DEF SensingSpec
-----------------------------------------------------------------------------
(***************************************************************************)
(* The rows of the PCs.  A key that a tool has made is of one PC, be it in *)
(* its row or in the lines of a run in progress; the keys of before are    *)
(* where they were.                                                        *)
(***************************************************************************)
RowOK(row) ==
    DOMAIN row = {"apiKey", "active"} /\ row.active \in BOOLEAN /\ row.apiKey[2] \in Int

HasKey(p, n) ==
    \/ pcInfo[p] # None /\ pcInfo[p].apiKey[2] = n
    \/ \E t \in InProgress : \E k \in DOMAIN tool[t].lines :
          tool[t].lines[k].pc = p /\ tool[t].lines[k].key = n

(* Keys are counted from 1, so that those of before are at most 0.         *)
RowsInv ==
    /\ \A p \in RegPc : pcInfo[p] # None => RowOK(pcInfo[p])
    /\ \A p \in RegPc, n \in Int : HasKey(p, n) => n <= made
    /\ \A p, q \in RegPc, n \in Nat \ {0} : HasKey(p, n) /\ HasKey(q, n) => p = q
    /\ \A p \in RegPc : pcInfo[p] # None /\ pcInfo[p].apiKey[2] <= 0
                        => Pc0[p] # None /\ pcInfo[p].apiKey = Pc0[p].apiKey
    /\ \A t \in InProgress : \A k \in DOMAIN tool[t].lines : tool[t].lines[k].key # 0

(* The key that a transaction stores is of one of the run's lines.         *)
LEMMA LastKeyIsOfALine ==
    ASSUME NEW lines \in Seq(KeyLine), NEW p \in PcsOf(lines)
    PROVE  \E k \in DOMAIN lines : lines[k].pc = p /\ LastKey(lines, p) = lines[k].key
<1> DEFINE S == {k \in DOMAIN lines : lines[k].pc = p}
           n == Len(lines)
<1>1. n \in Nat /\ S \in SUBSET (1 .. n) /\ S # {}
  BY DEF PcsOf
<1>2. Max(S) \in S
  <2> HIDE DEF S, n
  <2> QED BY <1>1, BoundedMax
<1> QED BY <1>2 DEF LastKey

(* A step that makes no key and gives none to another PC.                  *)
LEMMA NoNewKey ==
    ASSUME RowsInv, made' = made,
           \A t \in InProgress' : t \in InProgress /\ tool'[t].lines = tool[t].lines,
           \A p \in RegPc : pcInfo'[p] # None =>
              /\ RowOK(pcInfo'[p]) /\ HasKey(p, pcInfo'[p].apiKey[2])
              /\ pcInfo'[p].apiKey[2] <= 0
                 => pcInfo[p] # None /\ pcInfo'[p].apiKey = pcInfo[p].apiKey
    PROVE  RowsInv'
<1>1. ASSUME NEW p \in RegPc, NEW n, HasKey(p, n)' PROVE HasKey(p, n)
  <2>1. CASE pcInfo'[p] # None /\ pcInfo'[p].apiKey[2] = n
    BY <2>1
  <2>2. ASSUME NEW t \in InProgress', NEW k \in DOMAIN tool'[t].lines,
               tool'[t].lines[k].pc = p, tool'[t].lines[k].key = n
        PROVE  HasKey(p, n)
    <3>1. t \in InProgress /\ tool'[t].lines = tool[t].lines
      OBVIOUS
    <3> QED BY <2>2, <3>1 DEF HasKey
  <2> QED BY <1>1, <2>1, <2>2 DEF HasKey
<1>2. ASSUME NEW p \in RegPc, NEW q \in RegPc, NEW n \in Nat \ {0}, HasKey(p, n)', HasKey(q, n)'
      PROVE  p = q
  BY <1>1, <1>2 DEF RowsInv
<1>3. ASSUME NEW p \in RegPc, NEW n \in Int, HasKey(p, n)' PROVE n <= made'
  BY <1>1, <1>3 DEF RowsInv
<1>4. ASSUME NEW p \in RegPc, pcInfo'[p] # None
      PROVE  RowOK(pcInfo'[p])
  BY <1>4
<1>5. ASSUME NEW p \in RegPc, pcInfo'[p] # None, pcInfo'[p].apiKey[2] <= 0
      PROVE  Pc0[p] # None /\ pcInfo'[p].apiKey = Pc0[p].apiKey
  <2>1. pcInfo[p] # None /\ pcInfo'[p].apiKey = pcInfo[p].apiKey
    BY <1>5
  <2> QED BY <1>5, <2>1 DEF RowsInv
<1>6. \A t \in InProgress' : \A k \in DOMAIN tool'[t].lines : tool'[t].lines[k].key # 0
  BY DEF RowsInv
<1> QED BY <1>2, <1>3, <1>4, <1>5, <1>6 DEF RowsInv, RowOK

(* A run's keys are fresh: of no row, of no other run, of one line each.   *)
LEMMA WrittenKeysAreFresh ==
    ASSUME KeysInv, RowsInv, NEW t \in Tool, NEW kind, NEW lines \in Seq(KeyLine), NEW step,
           \A k \in DOMAIN lines : lines[k].key = made + k,
           WriteKeys(t, kind, lines, step)
    PROVE  RowsInv'
<1>1. PICK out \in Output, pepper \in Pepper, dry \in BOOLEAN :
         LET x == [step |-> IF dry THEN "done" ELSE step, kind |-> kind, lines |-> lines,
                   out |-> out, pepper |-> pepper, alone |-> TRUE]
             met == {q \in InProgress : Meet(x, tool[q])}
         IN  /\ t \notin InProgress
             /\ toolRuns < MaxTools
             /\ toolRuns' = toolRuns + 1
             /\ made' = made + Len(lines)
             /\ keyFile' = [keyFile EXCEPT ![out] = lines]
             /\ tool' = [q \in Tool |-> IF q = t THEN [x EXCEPT !.alone = met = {}]
                                        ELSE IF q \in met THEN [tool[q] EXCEPT !.alone = FALSE]
                                        ELSE tool[q]]
             /\ issued' = [p \in RegPc |->
                   IF p \in PcsOf(lines) \/ (issued[p] # None /\ issued[p].out = out)
                   THEN None ELSE issued[p]]
             /\ UNCHANGED <<pcInfo, metricDays, today, prunedTo>>
  BY Zenon DEF WriteKeys
<1> DEFINE x == [step |-> IF dry THEN "done" ELSE step, kind |-> kind, lines |-> lines,
                 out |-> out, pepper |-> pepper, alone |-> TRUE]
           met == {q \in InProgress : Meet(x, tool[q])}
           l == Len(lines)
<1>2. tool'[t].lines = lines
  BY <1>1
<1>3. ASSUME NEW q \in Tool, q # t
      PROVE  tool'[q].lines = tool[q].lines /\ tool'[q].step = tool[q].step
  <2>1. DOMAIN tool[q] = RunFields
    BY DEF KeysInv, RunsOK
  <2>2. CASE q \in met
    <3>1. tool'[q] = [tool[q] EXCEPT !.alone = FALSE]
      BY <1>1, <1>3, <2>2
    <3> QED BY <2>1, <3>1 DEF RunFields
  <2>3. CASE q \notin met
    <3>1. tool'[q] = tool[q]
      BY <1>1, <1>3, <2>3
    <3> QED BY <3>1
  <2> QED BY <2>2, <2>3
<1>4. made \in Nat /\ l \in Nat /\ DOMAIN lines = 1 .. l /\ made' = made + l
  BY <1>1 DEF KeysInv, RunsOK
<1>5. pcInfo' = pcInfo
  BY <1>1
<1> DEFINE New(p, n) == \E k \in 1 .. l : lines[k].pc = p /\ n = made + k
<1>6. ASSUME NEW p \in RegPc, NEW n, HasKey(p, n)' PROVE HasKey(p, n) \/ New(p, n)
  <2>1. CASE pcInfo'[p] # None /\ pcInfo'[p].apiKey[2] = n
    BY <1>5, <2>1 DEF HasKey
  <2>2. ASSUME NEW q \in InProgress', NEW k \in DOMAIN tool'[q].lines,
               tool'[q].lines[k].pc = p, tool'[q].lines[k].key = n
        PROVE  HasKey(p, n) \/ New(p, n)
    <3>1. CASE q = t
      BY <1>2, <1>4, <2>2, <3>1
    <3>2. CASE q # t
      <4>1. q \in Tool /\ q \in InProgress
        BY <1>3, <3>2 DEF InProgress
      <4>2. tool'[q].lines = tool[q].lines
        BY <1>3, <3>2, <4>1
      <4> QED BY <2>2, <4>1, <4>2 DEF HasKey
    <3> QED BY <3>1, <3>2
  <2> QED BY <1>6, <2>1, <2>2 DEF HasKey
<1>7. ASSUME NEW p \in RegPc, NEW n \in Int, HasKey(p, n)
      PROVE  n <= made
  BY <1>7 DEF RowsInv
<1>8. ASSUME NEW p \in RegPc, NEW n \in Int, HasKey(p, n)' PROVE n <= made'
  <2>1. CASE HasKey(p, n)
    BY <1>4, <1>7, <2>1
  <2>2. CASE New(p, n)
    BY <1>4, <2>2
  <2> QED BY <1>6, <1>8, <2>1, <2>2
<1>9. ASSUME NEW p \in RegPc, NEW q \in RegPc, NEW n \in Nat \ {0}, HasKey(p, n)', HasKey(q, n)'
      PROVE  p = q
  <2>1. CASE HasKey(p, n) /\ HasKey(q, n)
    BY <2>1 DEF RowsInv
  <2>2. ASSUME NEW r \in RegPc, New(r, n) PROVE \A s \in RegPc : ~HasKey(s, n)
    <3>1. n > made /\ n \in Int
      BY <1>4, <2>2
    <3>2. ~(n <= made)
      BY <1>4, <3>1
    <3> QED BY <1>7, <3>1, <3>2
  <2>3. CASE New(p, n) /\ New(q, n)
    <3>1. PICK i \in 1 .. l : lines[i].pc = p /\ n = made + i
      BY <2>3
    <3>2. PICK j \in 1 .. l : lines[j].pc = q /\ n = made + j
      BY <2>3
    <3>3. i = j
      BY <1>4, <3>1, <3>2
    <3> QED BY <3>1, <3>2, <3>3
  <2> HIDE DEF New
  <2> QED BY <1>6, <1>9, <2>1, <2>2, <2>3
<1>10. /\ \A p \in RegPc : pcInfo'[p] # None => RowOK(pcInfo'[p])
       /\ \A p \in RegPc : pcInfo'[p] # None /\ pcInfo'[p].apiKey[2] <= 0
                           => Pc0[p] # None /\ pcInfo'[p].apiKey = Pc0[p].apiKey
  BY <1>5 DEF RowsInv
<1>11. ASSUME NEW q \in InProgress', NEW k \in DOMAIN tool'[q].lines
       PROVE  tool'[q].lines[k].key # 0
  <2>1. CASE q = t
    <3>1. k \in 1 .. l /\ tool'[q].lines[k].key = made + k
      BY <1>2, <1>4, <1>11, <2>1
    <3> QED BY <1>4, <3>1
  <2>2. CASE q # t
    <3>1. q \in Tool /\ q \in InProgress
      BY <1>3, <2>2 DEF InProgress
    <3> QED BY <1>3, <1>11, <2>2, <3>1 DEF RowsInv
  <2> QED BY <2>1, <2>2
<1> HIDE DEF x, met, l
<1> QED BY <1>8, <1>9, <1>10, <1>11 DEF RowsInv, RowOK

LEMMA RowsExecute ==
    ASSUME KeysInv, RowsInv, NEW t \in Tool, ExecuteUpdate(t)
    PROVE  RowsInv'
<1> DEFINE x == tool[t]
<1>1. PICK commits \in BOOLEAN, told \in BOOLEAN :
         /\ pcInfo' = [p \in RegPc |-> IF commits /\ p \in PcsOf(x.lines) THEN Stored(x, p)
                                       ELSE pcInfo[p]]
         /\ tool' = [tool EXCEPT ![t].step = IF told THEN "done" ELSE "failed"]
  BY Zenon DEF ExecuteUpdate
<1>2. x.step = "update" /\ made' = made /\ t \in InProgress
  BY DEF ExecuteUpdate, InProgress
<1>3. x.lines \in Seq(KeyLine)
  BY <1>2 DEF KeysInv, Written
<1>4. ASSUME NEW q \in InProgress'
      PROVE  q \in InProgress /\ tool'[q].lines = tool[q].lines
  <2>1. q \in Tool /\ DOMAIN tool = Tool /\ DOMAIN tool[t] = RunFields
    BY <1>4 DEF KeysInv, RunsOK, InProgress
  <2> DEFINE e == IF told THEN "done" ELSE "failed"
  <2>2. tool' = [tool EXCEPT ![t].step = e] /\ e \notin {"confirm", "update"}
    BY <1>1
  <2> HIDE DEF e
  <2>3. tool'[t].step = e
    BY <2>1, <2>2 DEF RunFields
  <2>4. q # t
    BY <1>4, <2>2, <2>3 DEF InProgress
  <2>5. tool'[q] = tool[q]
    BY <2>1, <2>2, <2>4
  <2> QED BY <1>4, <2>1, <2>5 DEF InProgress
<1>5. ASSUME NEW p \in RegPc, p \in PcsOf(x.lines)
      PROVE  /\ RowOK(Stored(x, p)) /\ Stored(x, p).apiKey[2] \in Nat \ {0}
             /\ HasKey(p, Stored(x, p).apiKey[2])
  <2> DEFINE n == LastKey(x.lines, p)
             a == (x.kind = "provision" \/ pcInfo[p].active)
  <2>1. PICK k \in DOMAIN x.lines : x.lines[k].pc = p /\ n = x.lines[k].key
    <3> DEFINE y == x.lines
    <3>1. y \in Seq(KeyLine) /\ p \in PcsOf(y)
      BY <1>3, <1>5
    <3> HIDE DEF y
    <3>2. \E k \in DOMAIN y : y[k].pc = p /\ LastKey(y, p) = y[k].key
      BY <3>1, LastKeyIsOfALine
    <3> QED BY <3>2 DEF y
  <2>2. HasKey(p, n)
    BY <1>2, <2>1 DEF HasKey
  <2>3. n \in Nat \ {0}
    <3>1. x.lines[k] \in KeyLine
      <4> DEFINE y == x.lines
      <4>1. y \in Seq(KeyLine) /\ k \in DOMAIN y
        BY <1>3
      <4> HIDE DEF y, KeyLine
      <4>2. y[k] \in KeyLine
        BY <4>1
      <4> QED BY <4>2 DEF y
    <3>2. n \in Nat
      BY <2>1, <3>1 DEF KeyLine
    <3> QED BY <1>2, <2>1, <3>2 DEF RowsInv
  <2>4. Stored(x, p) = [apiKey |-> <<x.pepper, n>>, active |-> a] /\ a \in BOOLEAN
    BY DEF Stored, Hash
  <2> HIDE DEF n, a
  <2> QED BY <2>2, <2>3, <2>4 DEF RowOK
<1>6. ASSUME NEW p \in RegPc, pcInfo'[p] # None
      PROVE  /\ RowOK(pcInfo'[p]) /\ HasKey(p, pcInfo'[p].apiKey[2])
             /\ pcInfo'[p].apiKey[2] <= 0
                => pcInfo[p] # None /\ pcInfo'[p].apiKey = pcInfo[p].apiKey
  <2>1. CASE p \in PcsOf(x.lines) /\ commits
    <3>1. pcInfo'[p] = Stored(x, p)
      BY <1>1, <2>1
    <3> DEFINE n == Stored(x, p).apiKey[2]
    <3>2. n \in Nat \ {0}
      BY <1>5, <2>1
    <3> HIDE DEF n
    <3>3. ~(n <= 0)
      BY <3>2
    <3> QED BY <1>5, <2>1, <3>1, <3>3 DEF n
  <2>2. CASE ~(p \in PcsOf(x.lines) /\ commits)
    <3>1. pcInfo'[p] = pcInfo[p]
      BY <1>1, <2>2
    <3> QED BY <1>6, <3>1 DEF RowsInv, HasKey
  <2> QED BY <2>1, <2>2
<1> QED BY <1>2, <1>4, <1>6, NoNewKey

LEMMA RowsNext == KeysInv /\ RowsInv /\ [UpkeepNext]_upkeepVars => RowsInv'
<1> SUFFICES ASSUME KeysInv, RowsInv, [UpkeepNext]_upkeepVars PROVE RowsInv'
  OBVIOUS
<1>1. ASSUME NEW t \in Tool, Provision(t) PROVE RowsInv'
  <2>1. PICK pcs \in Batch :
           WriteKeys(t, "provision", [k \in DOMAIN pcs |-> [pc |-> pcs[k], key |-> made + k]],
                     "confirm")
    BY <1>1 DEF Provision
  <2> DEFINE lines == [k \in DOMAIN pcs |-> [pc |-> pcs[k], key |-> made + k]]
             n == Len(pcs)
  <2>2. pcs \in Seq(RegPc) /\ made \in Nat
    BY UpkeepAssumption DEF KeysInv, RunsOK
  <2>3. n \in Nat /\ DOMAIN pcs = 1 .. n
    BY <2>2
  <2>4. \A k \in 1 .. n : [pc |-> pcs[k], key |-> made + k] \in KeyLine
    BY <2>2, <2>3 DEF KeyLine
  <2>5. lines = [k \in 1 .. n |-> [pc |-> pcs[k], key |-> made + k]]
    BY <2>3
  <2>6. lines \in Seq(KeyLine)
    <3> HIDE DEF KeyLine, n
    <3> QED BY <2>3, <2>4, <2>5
  <2>7. WriteKeys(t, "provision", lines, "confirm") /\ \A k \in DOMAIN lines : lines[k].key = made + k
    BY <2>1
  <2> HIDE DEF lines
  <2> QED BY <2>6, <2>7, WrittenKeysAreFresh
<1>2. ASSUME NEW t \in Tool, Rotate(t) PROVE RowsInv'
  <2>1. PICK p \in RegPc : WriteKeys(t, "rotate", <<[pc |-> p, key |-> made + 1]>>, "update")
    BY <1>2 DEF Rotate
  <2> DEFINE lines == <<[pc |-> p, key |-> made + 1]>>
  <2>2. lines \in Seq(KeyLine) /\ \A k \in DOMAIN lines : lines[k].key = made + k
    BY DEF KeysInv, RunsOK, KeyLine
  <2>3. WriteKeys(t, "rotate", lines, "update")
    BY <2>1
  <2> HIDE DEF lines
  <2> QED BY <2>2, <2>3, WrittenKeysAreFresh
<1>3. ASSUME UNCHANGED <<pcInfo, made>>,
             \A t \in InProgress' : t \in InProgress /\ tool'[t].lines = tool[t].lines
      PROVE  RowsInv'
  <2>1. \A p \in RegPc : pcInfo'[p] # None =>
           /\ RowOK(pcInfo'[p]) /\ HasKey(p, pcInfo'[p].apiKey[2])
           /\ pcInfo'[p].apiKey[2] <= 0
              => pcInfo[p] # None /\ pcInfo'[p].apiKey = pcInfo[p].apiKey
    BY <1>3 DEF RowsInv, HasKey
  <2> QED BY <1>3, <2>1, NoNewKey
<1>4. ASSUME NEW t \in Tool, ConfirmOverwrite(t) PROVE RowsInv'
  <2>1. PICK answer \in {"update", "aborted"} : tool' = [tool EXCEPT ![t].step = answer]
    BY <1>4 DEF ConfirmOverwrite
  <2>2. t \in InProgress /\ UNCHANGED <<pcInfo, made, keyFile>>
    BY <1>4 DEF ConfirmOverwrite, InProgress
  <2>3. \A q \in InProgress' : q \in InProgress /\ q \in Tool
    BY <2>1, <2>2, StepKeeps DEF InProgress
  <2>4. \A q \in Tool : tool'[q].lines = tool[q].lines
    BY <2>1, <2>2, StepKeeps
  <2> QED BY <1>3, <2>2, <2>3, <2>4
<1>5. ASSUME NEW t \in Tool, NEW step \in {"done", "failed"},
             tool' = [tool EXCEPT ![t] = [NoRun EXCEPT !.kind = "revoke", !.step = step]]
      PROVE  \A q \in InProgress' : q \in InProgress /\ tool'[q].lines = tool[q].lines
  <2>1. DOMAIN tool = Tool
    BY DEF KeysInv, RunsOK
  <2>2. tool'[t].step = step /\ \A q \in Tool : q # t => tool'[q] = tool[q]
    BY <1>5, <2>1 DEF NoRun
  <2> QED BY <2>2 DEF InProgress
<1>6. ASSUME NEW t \in Tool, RevokeOne(t) PROVE RowsInv'
  <2>1. PICK p \in RegPc, works \in BOOLEAN :
           /\ pcInfo' = [pcInfo EXCEPT ![p] = IF works /\ @ # None THEN [@ EXCEPT !.active = FALSE]
                                              ELSE @]
           /\ tool' = [tool EXCEPT ![t] = [NoRun EXCEPT !.kind = "revoke",
                                              !.step = IF works THEN "done" ELSE "failed"]]
    BY <1>6 DEF RevokeOne
  <2>2. made' = made /\ DOMAIN pcInfo = RegPc
    BY <1>6 DEF RevokeOne, KeysInv, RunsOK
  <2>3. \A q \in InProgress' : q \in InProgress /\ tool'[q].lines = tool[q].lines
    <3> DEFINE step == IF works THEN "done" ELSE "failed"
    <3>1. step \in {"done", "failed"}
      OBVIOUS
    <3> QED BY <1>5, <2>1, <3>1
  <2>4. ASSUME NEW q \in RegPc, pcInfo'[q] # None
        PROVE  /\ RowOK(pcInfo'[q]) /\ HasKey(q, pcInfo'[q].apiKey[2])
               /\ pcInfo'[q].apiKey[2] <= 0
                  => pcInfo[q] # None /\ pcInfo'[q].apiKey = pcInfo[q].apiKey
    <3>1. pcInfo[q] # None /\ pcInfo'[q] \in {pcInfo[q], [pcInfo[q] EXCEPT !.active = FALSE]}
      BY <2>1, <2>2, <2>4
    <3>2. RowOK(pcInfo[q])
      BY <3>1 DEF RowsInv
    <3>3. RowOK(pcInfo'[q]) /\ pcInfo'[q].apiKey = pcInfo[q].apiKey
      BY <3>1, <3>2 DEF RowOK
    <3>4. HasKey(q, pcInfo[q].apiKey[2])
      BY <3>1 DEF HasKey
    <3> QED BY <3>1, <3>3, <3>4
  <2> QED BY <2>2, <2>3, <2>4, NoNewKey
<1>7. ASSUME NEW t \in Tool, RevokeStale(t) PROVE RowsInv'
  <2>1. tool' = [tool EXCEPT ![t] = [NoRun EXCEPT !.kind = "revoke", !.step = "failed"]]
        /\ UNCHANGED <<pcInfo, made>>
    BY <1>7 DEF RevokeStale
  <2> QED BY <1>3, <1>5, <2>1
<1>8. CASE StoreMetrics \/ Prune \/ UNCHANGED upkeepVars
  <2>1. UNCHANGED <<pcInfo, made, tool>>
    BY <1>8 DEF StoreMetrics, Prune, upkeepVars
  <2> QED BY <1>3, <2>1 DEF InProgress
<1> QED BY <1>1, <1>2, <1>4, <1>6, <1>7, <1>8, RowsExecute DEF UpkeepNext

(* No two PCs share a hash, however many tools run beside each other and   *)
(* also when one of them lists a PC twice: every key is made for one PC,   *)
(* and a row only ever has a key that was made for its PC.                 *)
THEOREM UpkeepTyped == UpkeepSpec => []UpkeepTypeOK
<1>1. UpkeepInit => RowsInv
  <2> SUFFICES ASSUME UpkeepInit PROVE RowsInv
    OBVIOUS
  <2>1. pcInfo = Pc0 /\ made = 0 /\ \A t \in Tool : tool[t] = NoRun
    BY DEF UpkeepInit
  <2>2. InProgress = {}
    BY <2>1 DEF InProgress, NoRun
  <2>3. ASSUME NEW p \in RegPc, Pc0[p] # None PROVE RowOK(Pc0[p]) /\ Pc0[p].apiKey[2] <= 0
    BY <2>3, UpkeepAssumption DEF RowOK
  <2>4. ASSUME NEW p \in RegPc, NEW n, HasKey(p, n) PROVE n <= 0
    BY <2>1, <2>2, <2>3, <2>4 DEF HasKey
  <2>5. \A n \in Nat \ {0} : ~(n <= 0)
    OBVIOUS
  <2> QED BY <2>1, <2>2, <2>3, <2>4, <2>5 DEF RowsInv
<1>2. ASSUME RowsInv PROVE UpkeepTypeOK
  <2>1. ASSUME NEW p \in RegPc, NEW q \in RegPc, p # q, pcInfo[p] # None, pcInfo[q] # None,
               pcInfo[p].apiKey = pcInfo[q].apiKey
        PROVE  FALSE
    <3> DEFINE n == pcInfo[p].apiKey[2]
    <3>1. n \in Int /\ HasKey(p, n) /\ HasKey(q, n)
      BY <1>2, <2>1 DEF RowsInv, RowOK, HasKey
    <3>2. CASE n <= 0
      <4>1. /\ Pc0[p] # None /\ pcInfo[p].apiKey = Pc0[p].apiKey
            /\ Pc0[q] # None /\ pcInfo[q].apiKey = Pc0[q].apiKey
        BY <1>2, <2>1, <3>2 DEF RowsInv
      <4> QED BY <2>1, <4>1, UpkeepAssumption
    <3>3. CASE ~(n <= 0)
      <4> HIDE DEF n
      <4>1. n \in Nat \ {0}
        BY <3>1, <3>3
      <4> QED BY <1>2, <2>1, <3>1, <4>1 DEF RowsInv
    <3> QED BY <3>2, <3>3
  <2>2. \A p \in RegPc : pcInfo[p] # None => pcInfo[p].active \in BOOLEAN
    BY <1>2 DEF RowsInv, RowOK
  <2> QED BY <2>1, <2>2 DEF UpkeepTypeOK
<1> QED BY <1>1, <1>2, KeysAtFirst, KeysNext, RowsNext, PTL DEF UpkeepSpec
-----------------------------------------------------------------------------
(* A step of one part is no step of the others, so that a behaviour of all *)
(* of them together is one of each: what is proved of a part alone holds   *)
(* of the composition.                                                     *)
THEOREM PartsStandAlone ==
    PartsSpec => /\ QueueSpec /\ SensingSpec /\ UpkeepSpec
                 /\ WindowSpec /\ PolicySpec /\ FleetSpec
<1>1. PartsInit => /\ QueueInit /\ SensingInit /\ UpkeepInit
                   /\ WindowInit /\ PolicyInit /\ FleetInit
  BY DEF PartsInit
<1>2. ASSUME [PartsNext]_partsVars
      PROVE  /\ [QueueNext]_queueVars /\ [SensingNext]_sensingVars /\ [UpkeepNext]_upkeepVars
             /\ [WindowNext]_windowVars /\ [PolicyNext]_policyVars /\ [FleetNext]_fleetVars
  BY <1>2 DEF PartsNext, partsVars
<1> QED BY <1>1, <1>2, PTL DEF PartsSpec, QueueSpec, SensingSpec, UpkeepSpec, WindowSpec,
                               PolicySpec, FleetSpec

(* Every part keeps its types and bounds in the composition, for every     *)
(* value of the constants with sensible settings of the client.            *)
THEOREM PartsTyped ==
    ASSUME SensibleSettings, Sensible(DefaultSettings)
    PROVE  PartsSpec => []PartsTypeOK
<1>1. SensingSpec => []SensingTypeOK
  BY SensingTyped
<1>2. QueueTypeOK /\ SensingTypeOK /\ UpkeepTypeOK /\ WindowTypeOK /\ PolicyTypeOK /\ FleetTypeOK
      => PartsTypeOK
  BY DEF PartsTypeOK
<1> QED BY <1>1, <1>2, PartsStandAlone, QueueMirrored, UpkeepTyped, WindowTyped, PolicyTyped,
           FleetTyped, PTL
=============================================================================
