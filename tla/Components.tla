------------------------------ MODULE Components ------------------------------
(* The components that share no state with each other, each on its own:    *)
(* a behaviour is one of one part, and the others keep their first state.  *)
EXTENDS LocalQueue, ClientSensing, Upkeep, MinuteWindow, PolicyReload, Fleet

CONSTANTS
    Parts,       (* the parts that this run looks at                         *)
    MaxDropped,  (* bound: payloads dropped by one process of the queue      *)
    MaxSkipped,  (* bound: damaged lines skipped by one process of it        *)
    MaxCalls     (* bound: requests and clears of the fleet together         *)

VARIABLE part

partsVars == <<part, queueVars, sensingVars, upkeepVars, windowVars, policyVars, fleetVars>>

(* The counters of the queue are bounded: nothing depends on their values. *)
CountersBounded == dropped <= MaxDropped /\ skipped <= MaxSkipped

(* The two requests meet one clear, or the two clears meet one request.    *)
CallsBounded == reports + clears <= MaxCalls

PartsInit ==
    /\ part \in Parts
    /\ QueueInit /\ SensingInit /\ UpkeepInit /\ WindowInit /\ PolicyInit /\ FleetInit
    /\ part # "fleet" => latest = CHOOSE l \in Latest0 : TRUE

PartsNext ==
    \/ /\ part = "queue" /\ QueueNext /\ CountersBounded'
       /\ UNCHANGED <<part, sensingVars, upkeepVars, windowVars, policyVars, fleetVars>>
    \/ /\ part = "sensing" /\ SensingNext
       /\ UNCHANGED <<part, queueVars, upkeepVars, windowVars, policyVars, fleetVars>>
    \/ /\ part = "upkeep" /\ UpkeepNext
       /\ UNCHANGED <<part, queueVars, sensingVars, windowVars, policyVars, fleetVars>>
    \/ /\ part = "window" /\ WindowNext
       /\ UNCHANGED <<part, queueVars, sensingVars, upkeepVars, policyVars, fleetVars>>
    \/ /\ part = "policy" /\ PolicyNext
       /\ UNCHANGED <<part, queueVars, sensingVars, upkeepVars, windowVars, fleetVars>>
    \/ /\ part = "fleet" /\ FleetNext /\ CallsBounded'
       /\ UNCHANGED <<part, queueVars, sensingVars, upkeepVars, windowVars, policyVars>>

PartsSpec == PartsInit /\ [][PartsNext]_partsVars

(* Each part keeps its types and bounds.                                   *)
PartsTypeOK ==
    /\ QueueTypeOK /\ SensingTypeOK /\ UpkeepTypeOK
    /\ WindowTypeOK /\ PolicyTypeOK /\ FleetTypeOK
===============================================================================
