----------------------------- MODULE PolicyReload -----------------------------
(***************************************************************************)
(* policy/loader.py and validation.py: two files, each with a cache that   *)
(* the first reader fills and that POST /admin/reload-policy empties and   *)
(* fills again, without a lock between it and the readers.  A file is a    *)
(* record of raw values: numbers, None for what is missing, Junk for what  *)
(* is not of its kind; it is Unusable when it is absent or no mapping.     *)
(***************************************************************************)
EXTENDS Optional, Integers, FiniteSetsExt

CONSTANTS
    Junk, Unusable,
    PolicyThread,   (* threads that read the policies or reload them         *)
    PolicyDocs,     (* what scoring_policy.yaml can be                       *)
    AllowDocs,      (* what allowlist.yaml can be                            *)
    GoodDocs,       (* both files when the server starts                     *)
    Tokens,         (* what a request can have in X-Admin-Token              *)
    AdminToken,     (* RADA_ADMIN_TOKEN, None if it is empty                 *)
    MaxEdits, MaxGets, MaxReloads   (* bounds: what happens how often        *)

Files == {"policy", "allow"}
-----------------------------------------------------------------------------
Number(v) == v \notin {None, Junk}
Given(v, otherwise) == IF Number(v) THEN v ELSE otherwise

(* validate_scoring_policy                                                 *)
ValidateScoringPolicy(d) ==
    /\ d.version = "text"
    /\ \A v \in {d.observe, d.suspicious, d.highRisk} : Number(v)
    /\ d.observe < d.suspicious /\ d.suspicious < d.highRisk
    /\ \A v \in {d.mlCap, d.maxDiscount, d.dangerDiscount} : Number(v)
    /\ d.mlCap >= 0 /\ d.maxDiscount <= 0 /\ d.dangerDiscount <= 0
    /\ \A v \in d.scores \cup d.discounts : Number(v)
    /\ \A v \in d.discounts : v <= 0

(* The optional sections: what is missing or unreadable has a default.     *)
BuildDosDetection(raw) ==
    IF raw = None THEN [floor |-> 0, sustained |-> 1]
    ELSE [floor |-> Max({0, Given(raw.floor, 0)}), sustained |-> Max({1, Given(raw.sustained, 1)})]

BuildEpisodeDedupe(raw) ==
    IF raw = None THEN [decay |-> 0, alertCooldown |-> 0, aiCooldown |-> 600]
    ELSE [ decay |-> Max({0, Given(raw.decay, 0)}),
           alertCooldown |-> Max({0, Given(raw.alertCooldown, 0)}),
           aiCooldown |-> Max({0, Given(raw.aiCooldown, 600)}) ]

(* Of promotion_gating, only what is missing: an unreadable number raises. *)
PromotionParses(raw) ==
    raw # None => Junk \notin {raw.mediumSignals, raw.mediumCategories,
                               raw.highSignals, raw.highCategories}
BuildPromotionGating(raw) ==
    IF raw = None THEN [enabled |-> FALSE, medium |-> <<0, 0>>, high |-> <<0, 0>>]
    ELSE [ enabled |-> raw.enabled,
           medium |-> <<Given(raw.mediumSignals, 0), Given(raw.mediumCategories, 0)>>,
           high |-> <<Given(raw.highSignals, 0), Given(raw.highCategories, 0)>> ]

Loads(w, d) ==
    /\ d # Unusable
    /\ w = "policy" => ValidateScoringPolicy(d) /\ PromotionParses(d.promotion)
    /\ w = "allow" => d.version = "text" /\ \A v \in d.lists : v # Junk

(* load_scoring_policy and load_allowlist, of a file that loads.           *)
LoadPolicy(w, d) ==
    CASE w = "policy" ->
           [ thresholds |-> <<d.observe, d.suspicious, d.highRisk>>,
             limits |-> <<d.mlCap, d.maxDiscount, d.dangerDiscount>>,
             dos |-> BuildDosDetection(d.dos),
             episode |-> BuildEpisodeDedupe(d.episode),
             promotion |-> BuildPromotionGating(d.promotion) ]
      [] w = "allow" -> [ names |-> d.lists \ {None} ]

(* What is loaded is something, and so is the absence of an answer.        *)
DocsOf(w) == {GoodDocs[w]} \cup IF w = "policy" THEN PolicyDocs ELSE AllowDocs
ASSUME PolicyAssumption ==
    /\ MaxEdits \in Nat
    /\ None \notin {"nothing", "raised"}
    /\ \A w \in Files : \A d \in DocsOf(w) : \A e \in 0 .. MaxEdits :
           Loads(w, d) => None # [value |-> LoadPolicy(w, d), edit |-> e]
    /\ \A d \in DocsOf("policy") \ {Unusable} :
          /\ d.dos # None => {d.dos.floor, d.dos.sustained} \subseteq Int \cup {None, Junk}
          /\ d.episode # None =>
                {d.episode.decay, d.episode.aiCooldown} \subseteq Int \cup {None, Junk}

(* require_admin_token                                                     *)
Admitted(token) == AdminToken = None \/ token = AdminToken
-----------------------------------------------------------------------------
VARIABLES
    file,       (* both files: [doc, edit |-> the edit it comes from]        *)
    cache,      (* _scoring_policy_cache and _allowlist_cache                *)
    job,        (* what a thread does: "none", "get", "reload"               *)
    at,         (* where it is                                               *)
    which,      (* the file it is at                                         *)
    loading,    (* what it has loaded from that file                         *)
    got,        (* the answer of its last get: the policy, None or "raised"  *)
    interrupted, (* history: a reload ran while it was at its job            *)
    outrun,     (* history: a load had its file when a reload began          *)
    began,      (* history: the edits of the files when a reload began       *)
    fresh,      (* history: those of the last reload that ended              *)
    edits, gets, reloads

policyThreadVars == <<job, at, which, loading, got, interrupted>>
policyHistoryVars == <<outrun, fresh, began>>
policyVars == <<file, cache, policyThreadVars, policyHistoryVars, edits, gets, reloads>>

Working == {r \in PolicyThread : job[r] # "none"}
Reloading == {r \in PolicyThread : job[r] = "reload"}

PolicyInit ==
    /\ file = [w \in Files |-> [doc |-> GoodDocs[w], edit |-> 0]]
    /\ cache = [w \in Files |-> None]
    /\ job = [r \in PolicyThread |-> "none"]
    /\ at = [r \in PolicyThread |-> "idle"]
    /\ which = [r \in PolicyThread |-> "policy"]
    /\ loading = [r \in PolicyThread |-> None]
    /\ got = [r \in PolicyThread |-> "nothing"]
    /\ interrupted = [r \in PolicyThread |-> FALSE]
    /\ outrun = FALSE
    /\ began = [w \in Files |-> 0] /\ fresh = [w \in Files |-> 0]
    /\ edits = 0 /\ gets = 0 /\ reloads = 0

Step(r, s) == at' = [at EXCEPT ![r] = s]
Take(r, value) == loading' = [loading EXCEPT ![r] = value]
Finish(r) == job' = [job EXCEPT ![r] = "none"]

EditFile ==
    /\ edits < MaxEdits
    /\ edits' = edits + 1
    /\ \E w \in Files : \E d \in IF w = "policy" THEN PolicyDocs ELSE AllowDocs :
           file' = [file EXCEPT ![w] = [doc |-> d, edit |-> edits + 1]]
    /\ UNCHANGED <<cache, policyThreadVars, policyHistoryVars, gets, reloads>>

(* A faulty getter: the cache is taken for granted.                         *)
AfterCheckBlind(w) == "return"

(* get_scoring_policy or get_allowlist: is there a cache?                  *)
AfterCheck(w) == IF cache[w] = None THEN "load" ELSE "return"
GetPolicy(r) ==
    /\ job[r] = "none" /\ gets < MaxGets
    /\ gets' = gets + 1
    /\ \E w \in Files :
           /\ which' = [which EXCEPT ![r] = w]
           /\ Step(r, AfterCheck(w))
    /\ job' = [job EXCEPT ![r] = "get"]
    /\ got' = [got EXCEPT ![r] = "nothing"]
    /\ interrupted' = [interrupted EXCEPT ![r] = Reloading # {}]
    /\ UNCHANGED <<file, cache, loading, policyHistoryVars, edits, reloads>>

(* It was there: now it is returned.                                       *)
ReturnCache(r) ==
    /\ at[r] = "return"
    /\ got' = [got EXCEPT ![r] = cache[which[r]]]
    /\ Finish(r) /\ Step(r, "idle")
    /\ UNCHANGED <<file, cache, which, loading, interrupted, policyHistoryVars,
                   edits, gets, reloads>>

(* reload_policies: both caches are emptied.                               *)
BeginReload(r) ==
    /\ job[r] = "none" /\ reloads < MaxReloads
    /\ \E token \in Tokens : Admitted(token)
    /\ reloads' = reloads + 1
    /\ job' = [job EXCEPT ![r] = "reload"]
    /\ cache' = [cache EXCEPT !["policy"] = None]
    /\ outrun' = (outrun \/ \E q \in PolicyThread : at[q] = "store")
    /\ began' = [w \in Files |-> file[w].edit]
    /\ interrupted' = [q \in PolicyThread |-> q \in Working \/ interrupted[q]]
    /\ Step(r, "empty")
    /\ UNCHANGED <<file, which, loading, got, fresh, edits, gets>>

EmptyAllowList(r) ==
    /\ at[r] = "empty"
    /\ cache' = [cache EXCEPT !["allow"] = None]
    /\ which' = [which EXCEPT ![r] = "policy"]
    /\ Step(r, "load")
    /\ UNCHANGED <<file, job, loading, got, interrupted, policyHistoryVars,
                   edits, gets, reloads>>

(* A faulty read: it is memoized.                                           *)
ReadYamlOnce(w) == [doc |-> GoodDocs[w], edit |-> 0]

(* _read_yaml                                                              *)
ReadYaml(w) == file[w]

(* The file is read and checked ...                                        *)
ReadPolicyFile(r) ==
    LET w == which[r]
    IN  /\ at[r] = "load"
        /\ Loads(w, ReadYaml(w).doc)
        /\ Take(r, [value |-> LoadPolicy(w, ReadYaml(w).doc), edit |-> ReadYaml(w).edit])
        /\ Step(r, "store")
        /\ UNCHANGED <<file, cache, job, which, got, interrupted, policyHistoryVars,
                       edits, gets, reloads>>

(* ... or raises, in a reader as in a reload: the cache stays empty.       *)
PolicyRaises(r) ==
    /\ at[r] = "load"
    /\ ~Loads(which[r], ReadYaml(which[r]).doc)
    /\ got' = [got EXCEPT ![r] = "raised"]
    /\ Finish(r) /\ Step(r, "idle")
    /\ UNCHANGED <<file, cache, which, loading, interrupted, policyHistoryVars,
                   edits, gets, reloads>>

(* The cache is set; a reload goes on with the other file, or ends.        *)
StoreCache(r) ==
    LET more == job[r] = "reload" /\ which[r] = "policy"
    IN  /\ at[r] = "store"
        /\ cache' = [cache EXCEPT ![which[r]] = loading[r]]
        /\ got' = IF job[r] = "get" THEN [got EXCEPT ![r] = loading[r]] ELSE got
        /\ fresh' = IF job[r] = "reload" /\ ~more THEN began ELSE fresh
        /\ Take(r, None)
        /\ IF more
           THEN /\ which' = [which EXCEPT ![r] = "allow"]
                /\ Step(r, "load") /\ UNCHANGED job
           ELSE Finish(r) /\ Step(r, "idle") /\ UNCHANGED which
        /\ UNCHANGED <<file, interrupted, outrun, began, edits, gets, reloads>>

PolicyNext ==
    \/ EditFile
    \/ \E r \in PolicyThread :
          \/ GetPolicy(r) \/ ReturnCache(r)
          \/ BeginReload(r) \/ EmptyAllowList(r)
          \/ ReadPolicyFile(r) \/ PolicyRaises(r) \/ StoreCache(r)

PolicySpec == PolicyInit /\ [][PolicyNext]_policyVars
-----------------------------------------------------------------------------
InForce == {cache["policy"]} \ {None}

(* Whatever the files say and however loads and reloads interleave, the    *)
(* scoring policy in force orders its thresholds, never rewards a context, *)
(* and asks for at least one burst.                                        *)
PolicyTypeOK ==
    \A c \in InForce :
        LET p == c.value
        IN  /\ p.thresholds[1] < p.thresholds[2] /\ p.thresholds[2] < p.thresholds[3]
            /\ p.limits[1] >= 0 /\ p.limits[2] <= 0 /\ p.limits[3] <= 0
            /\ p.dos.floor >= 0 /\ p.dos.sustained >= 1
            /\ p.episode.decay >= 0 /\ p.episode.aiCooldown >= 0

(* A reader gets no policy at all only when a reload empties the cache     *)
(* between its check and its return; the file may raise at any time.       *)
MissNeedsReload == \A r \in PolicyThread : got[r] = None => interrupted[r]

(* A reload takes effect: unless a load had read its file and not yet      *)
(* stored it when the reload began, nothing older than the last reload     *)
(* that ended is in force.                                                 *)
ReloadTakesEffect ==
    ~outrun => \A w \in Files : cache[w] # None => cache[w].edit >= fresh[w]
=============================================================================
