--------------------------- MODULE MCSpringIngest ---------------------------
(* The instances of SpringIngest that TLC checks.                          *)
EXTENDS SpringIngest

MCTask == {"forward", "touch"} \X Request

CONSTANT Earlier  (* a request that has been answered already               *)

(* The ML server is slow: the forward of an earlier request, accepted at   *)
(* time 0 and answered 202, still runs when the others arrive.             *)
BusyInit ==
    /\ workers = 1
    /\ running = {<<"forward", Earlier>>}
    /\ queue = <<>>
    /\ now = 0
    /\ stage = [r \in Request |-> IF r = Earlier THEN "done" ELSE "new"]
    /\ pcId \in [Request -> Pc \cup {None}]
    /\ \A r \in Request : pcId[r] # None <=> r = Earlier
    /\ body = [r \in Request |-> IF r = Earlier THEN "whole" ELSE None]
    /\ stamp = [r \in Request |-> 0]
    /\ status = [r \in Request |-> IF r = Earlier THEN 202 ELSE None]
    /\ seen = [p \in Pc |-> IF p = pcId[Earlier] THEN 0 ELSE None]
    /\ lastSeen = seen
    /\ rows = {Earlier}
    /\ judged = {}
    /\ skipped = {}
    /\ lost = {}
    /\ dbFaults = 0
    /\ restarts = 0

MCFairSpec == BusyInit /\ [][Next]_vars /\ Fairness
=============================================================================
