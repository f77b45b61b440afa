------------------------------ MODULE SampleFate ------------------------------
(***************************************************************************)
(* What the client promises for every sample it collects: the sample waits *)
(* until it is stored by the server or given up by a counted decision, one *)
(* sample at a time, and that is the end of it.  Only a death of the       *)
(* client makes samples vanish, at most AtRisk of them.                    *)
(***************************************************************************)
EXTENDS Naturals, FiniteSets

CONSTANTS
    Sample,
    AtRisk   (* the samples one death may cost                               *)

VARIABLES
    fate,    (* of each sample                                               *)
    deaths   (* of the client                                                *)

Fates == {"future", "waiting", "stored", "givenUp", "vanished"}

Init ==
    /\ fate = [s \in Sample |-> "future"]
    /\ deaths = 0

Produce(s) ==
    /\ fate[s] = "future"
    /\ fate' = [fate EXCEPT ![s] = "waiting"]
    /\ UNCHANGED deaths

Settle(s) ==
    /\ fate[s] = "waiting"
    /\ \E f \in {"stored", "givenUp"} : fate' = [fate EXCEPT ![s] = f]
    /\ UNCHANGED deaths

(* What the process held in its hands is stored anyway, or gone.           *)
Die ==
    /\ \E S \in SUBSET Sample :
          /\ Cardinality(S) <= AtRisk
          /\ \A s \in S : fate[s] = "waiting"
          /\ \E f \in [S -> {"stored", "vanished"}] :
                fate' = [s \in Sample |-> IF s \in S THEN f[s] ELSE fate[s]]
    /\ deaths' = deaths + 1

Next == Die \/ \E s \in Sample : Produce(s) \/ Settle(s)

Spec == Init /\ [][Next]_<<fate, deaths>>
=============================================================================
