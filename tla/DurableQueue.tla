----------------------------- MODULE DurableQueue -----------------------------
(***************************************************************************)
(* What the client's queue promises: a bounded sequence that, when it has  *)
(* a file, neither a death nor a start of its process changes.  A payload  *)
(* that finds it full takes the place of the oldest one.                   *)
(***************************************************************************)
EXTENDS Naturals, Sequences

CONSTANTS
    Payload,
    MaxSize,  (* payloads the queue holds                                    *)
    Durable   (* it outlives its process                                     *)

VARIABLES
    queue,    (* the payloads not yet sent, oldest first                     *)
    up        (* there is a process to use it                                *)

Init == queue = <<>> /\ up = TRUE

Enqueue(p) ==
    /\ up
    /\ queue' = Append(IF Len(queue) < MaxSize THEN queue ELSE Tail(queue), p)
    /\ UNCHANGED up

(* The oldest one is taken, or given up for the limit on the file.         *)
Dequeue ==
    /\ up
    /\ queue # <<>>
    /\ queue' = Tail(queue)
    /\ UNCHANGED up

TakeAll == up /\ queue' = <<>> /\ UNCHANGED up

Die ==
    /\ up
    /\ up' = FALSE
    /\ queue' = IF Durable THEN queue ELSE <<>>

Start == ~up /\ up' = TRUE /\ UNCHANGED queue

Next == Dequeue \/ TakeAll \/ Die \/ Start \/ \E p \in Payload : Enqueue(p)

Spec == Init /\ [][Next]_<<queue, up>>
=============================================================================
