------------------------------ MODULE Filtering ------------------------------
(***************************************************************************)
(* A copy of a sequence that leaves out some of its elements, as a loop    *)
(* makes it: from the first element to the last.                           *)
(***************************************************************************)
EXTENDS Naturals, Sequences

(* What the first k rounds keep.                                           *)
KeptUpTo(seq, S) ==
    LET kept[k \in 0 .. Len(seq)] ==
            IF k = 0 THEN <<>>
            ELSE IF seq[k] \in S THEN Append(kept[k - 1], seq[k]) ELSE kept[k - 1]
    IN  kept

Filtered(seq, S) == KeptUpTo(seq, S)[Len(seq)]
=============================================================================
