-------------------------------- MODULE Upkeep --------------------------------
(***************************************************************************)
(* The upkeep of the database: the operator's tools that register PCs      *)
(* (tools/provision_pcs.py), replace a key (rotate_pc_key.py) and revoke   *)
(* PCs (revoke_pc.py), several of which may run at the same time, and the  *)
(* nightly MetricsTtlJob.  A tool writes its keys to a file before it      *)
(* touches the database.  The server knows a key only by its hash.         *)
(***************************************************************************)
EXTENDS Optional, Integers, Sequences, FiniteSetsExt

CONSTANTS
    RegPc,          (* PCs                                                   *)
    Tool,           (* tools that run at the same time                       *)
    Batch,          (* the lists of PCs that provision_pcs is given          *)
    Output,         (* paths given as --output                               *)
    Pepper,         (* API_KEY_PEPPER as a tool may see it                   *)
    ServerPepper,   (* and as the server has it                              *)
    Pc0,            (* pc_info when the model starts                         *)
    RETENTION_DAYS,
    MaxTools, MaxDays   (* bounds: runs of a tool, the calendar              *)

ASSUME UpkeepAssumption ==
    /\ Batch \subseteq Seq(RegPc)
    /\ DOMAIN Pc0 = RegPc
    /\ \A p \in RegPc : Pc0[p] # None =>
          /\ DOMAIN Pc0[p] = {"apiKey", "active"} /\ Pc0[p].active \in BOOLEAN
          /\ Pc0[p].apiKey[2] \in Int /\ Pc0[p].apiKey[2] <= 0   (* made before *)
          /\ \A q \in RegPc \ {p} : Pc0[q] # None => Pc0[q].apiKey # Pc0[p].apiKey
    /\ None \notin [apiKey : Pepper \X Nat, active : BOOLEAN]

VARIABLES
    pcInfo,     (* pc_info: None or [apiKey, active]                         *)
    metricDays, (* metrics_history: the days with a row                      *)
    keyFile,    (* the files: lines [pc, key]                                *)
    tool,       (* the runs of the tools                                     *)
    today,      (* the calendar                                              *)
    prunedTo,   (* the cutoff of the last night                              *)
    issued,     (* history: the key that a PC was last given, None when some *)
                (* run has touched the PC or the file since                  *)
    made,       (* history: keys generated                                   *)
    toolRuns    (* history: runs                                             *)

upkeepVars == <<pcInfo, metricDays, keyFile, tool, today, prunedTo, issued, made, toolRuns>>
-----------------------------------------------------------------------------
(* The tables that the migrations create.                                  *)
Tables == {"pc_info", "metrics_history", "anomaly_history", "ai_judgment_history"}

(* hash_api_key and ApiKeyHasher.hash.                                     *)
Hash(pepper, key) == <<pepper, key>>

(* ApiKeyAuthFilter: findByApiKey and is_active.                           *)
Accepted(p, key) ==
    pcInfo[p] # None /\ pcInfo[p].active /\ pcInfo[p].apiKey = Hash(ServerPepper, key)

PcsOf(lines) == {lines[k].pc : k \in DOMAIN lines}
LastKey(lines, p) == lines[Max({k \in DOMAIN lines : lines[k].pc = p})].key

NoRun == [step |-> "idle", kind |-> "none", lines |-> <<>>, out |-> None, pepper |-> None,
          alone |-> TRUE]
InProgress == {t \in Tool : tool[t].step \in {"confirm", "update"}}
Meet(x, y) == x.out = y.out \/ PcsOf(x.lines) \cap PcsOf(y.lines) # {}

UpkeepInit ==
    /\ pcInfo = Pc0
    /\ metricDays = {}
    /\ keyFile = [o \in Output |-> <<>>]
    /\ tool = [t \in Tool |-> NoRun]
    /\ today = 0 /\ prunedTo = 0
    /\ issued = [p \in RegPc |-> None]
    /\ made = 0 /\ toolRuns = 0

(* A run writes its file, even a dry one, which then ends.                 *)
WriteKeys(t, kind, lines, next) ==
    \E out \in Output, pepper \in Pepper, dry \in BOOLEAN :
        LET x == [step |-> IF dry THEN "done" ELSE next, kind |-> kind, lines |-> lines,
                  out |-> out, pepper |-> pepper, alone |-> TRUE]
            met == {q \in InProgress : Meet(x, tool[q])}
        IN  /\ t \notin InProgress
            /\ toolRuns < MaxTools
            /\ toolRuns' = toolRuns + 1
            /\ made' = made + Len(lines)
            /\ keyFile' = [keyFile EXCEPT ![out] = lines]
            /\ tool' = [q \in Tool |-> IF q = t THEN [x EXCEPT !.alone = met = {}]
                                       ELSE IF q \in met THEN [tool[q] EXCEPT !.alone = FALSE]
                                       ELSE tool[q]]
            /\ issued' = [p \in RegPc |->
                  IF p \in PcsOf(lines) \/ (issued[p] # None /\ issued[p].out = out)
                  THEN None ELSE issued[p]]
            /\ UNCHANGED <<pcInfo, metricDays, today, prunedTo>>

(* provision_pcs: a fresh key for each line, also of a PC listed twice.    *)
Provision(t) ==
    \E pcs \in Batch :
        WriteKeys(t, "provision", [k \in DOMAIN pcs |-> [pc |-> pcs[k], key |-> made + k]],
                  "confirm")

(* rotate_pc_key, of a PC that is registered, revoked or not.              *)
Rotate(t) ==
    \E p \in RegPc :
        pcInfo[p] # None /\ WriteKeys(t, "rotate", <<[pc |-> p, key |-> made + 1]>>, "update")

(* confirm_overwrite: only PCs that it finds registered need a yes.        *)
ConfirmOverwrite(t) ==
    /\ tool[t].step = "confirm"
    /\ \E answer \in {"update", "aborted"} :
          /\ answer = "aborted" => \E p \in PcsOf(tool[t].lines) : pcInfo[p] # None
          /\ tool' = [tool EXCEPT ![t].step = answer]
    /\ UNCHANGED <<pcInfo, metricDays, keyFile, today, prunedTo, issued, made, toolRuns>>

(* The row of a PC after the transaction.                                  *)
FirstKey(lines, p) == lines[Min({k \in DOMAIN lines : lines[k].pc = p})].key

(* A faulty upsert: the first line of a PC wins.                            *)
StoredFirst(x, p) ==
    [apiKey |-> Hash(x.pepper, FirstKey(x.lines, p)),
     active |-> x.kind = "provision" \/ pcInfo[p].active]

Stored(x, p) ==
    [apiKey |-> Hash(x.pepper, LastKey(x.lines, p)),
     active |-> x.kind = "provision" \/ pcInfo[p].active]

(* execute: one transaction.  It may fail, also after its commit.          *)
ExecuteUpdate(t) ==
    LET x == tool[t]
    IN  /\ x.step = "update"
        /\ \E commits, reports \in BOOLEAN :
              /\ reports => commits
              /\ pcInfo' = [p \in RegPc |-> IF commits /\ p \in PcsOf(x.lines) THEN Stored(x, p)
                                            ELSE pcInfo[p]]
              /\ tool' = [tool EXCEPT ![t].step = IF reports THEN "done" ELSE "failed"]
              /\ issued' = [p \in RegPc |->
                    IF reports /\ x.alone /\ p \in PcsOf(x.lines) /\ Stored(x, p).active
                    THEN [key |-> LastKey(x.lines, p), pepper |-> x.pepper, out |-> x.out]
                    ELSE issued[p]]
        /\ UNCHANGED <<metricDays, keyFile, today, prunedTo, made, toolRuns>>

(* revoke_one: one update, of nothing when the PC is not registered.       *)
RevokeOne(t) ==
    /\ t \notin InProgress /\ toolRuns < MaxTools
    /\ toolRuns' = toolRuns + 1
    /\ \E p \in RegPc, works \in BOOLEAN :
          /\ pcInfo' = [pcInfo EXCEPT ![p] = IF works /\ @ # None THEN [@ EXCEPT !.active = FALSE]
                                             ELSE @]
          /\ issued' = [issued EXCEPT ![p] = None]
          /\ tool' = [tool EXCEPT ![t] = [NoRun EXCEPT !.kind = "revoke",
                                             !.step = IF works THEN "done" ELSE "failed"]]
    /\ UNCHANGED <<metricDays, keyFile, today, prunedTo, made>>

(* revoke_stale selects from a table that the migrations do not create, so *)
(* that it fails before it comes to its update.                            *)
RevokeStale(t) ==
    /\ t \notin InProgress /\ toolRuns < MaxTools
    /\ "metric_data" \notin Tables
    /\ toolRuns' = toolRuns + 1
    /\ tool' = [tool EXCEPT ![t] = [NoRun EXCEPT !.kind = "revoke", !.step = "failed"]]
    /\ UNCHANGED <<pcInfo, metricDays, keyFile, today, prunedTo, issued, made>>

StoreMetrics ==
    /\ metricDays' = metricDays \cup {today}
    /\ UNCHANGED <<pcInfo, keyFile, tool, today, prunedTo, issued, made, toolRuns>>

(* deleteBatch is called on this, past the proxy that begins transactions: *)
(* its update raises, prune catches that and the night is over.            *)
Prune ==
    /\ today < MaxDays
    /\ today' = today + 1
    /\ prunedTo' = Max({0, today' - RETENTION_DAYS})
    /\ UNCHANGED <<pcInfo, metricDays, keyFile, tool, issued, made, toolRuns>>

UpkeepNext ==
    \/ StoreMetrics \/ Prune
    \/ \E t \in Tool :
          \/ Provision(t) \/ Rotate(t) \/ ConfirmOverwrite(t) \/ ExecuteUpdate(t)
          \/ RevokeOne(t) \/ RevokeStale(t)

UpkeepSpec == UpkeepInit /\ [][UpkeepNext]_upkeepVars
-----------------------------------------------------------------------------
(* No two PCs share a hash.                                                *)
UpkeepTypeOK ==
    /\ \A p \in RegPc : pcInfo[p] # None => pcInfo[p].active \in BOOLEAN
    /\ \A p, q \in RegPc :
           p # q /\ pcInfo[p] # None /\ pcInfo[q] # None => pcInfo[p].apiKey # pcInfo[q].apiKey

(* The file of a run that reported success, with the server's pepper and   *)
(* no other run beside it, has the key that the server accepts: failed,    *)
(* aborted, dry and overlapping runs of other tools cannot part the two.   *)
(* Left out is a revoked PC whose key is rotated: it stays revoked.        *)
IssuedKeyWorks ==
    \A p \in RegPc :
        issued[p] # None =>
            /\ LastKey(keyFile[issued[p].out], p) = issued[p].key
            /\ issued[p].pepper = ServerPepper => Accepted(p, issued[p].key)

(* MetricsTtlJob.java: "Deletes rows older than RETENTION_DAYS days".      *)
ExpiredIsDeleted == \A d \in metricDays : d >= prunedTo
=============================================================================
