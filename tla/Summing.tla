------------------------------- MODULE Summing -------------------------------
(***************************************************************************)
(* A sum as a loop makes it: from the first value to the last.             *)
(***************************************************************************)
EXTENDS Integers, Sequences

(* The sums after the first k values.                                      *)
AddedUpTo(values) ==
    LET sum[k \in 0 .. Len(values)] == IF k = 0 THEN 0 ELSE sum[k - 1] + values[k]
    IN  sum

Total(values) == AddedUpTo(values)[Len(values)]
=============================================================================
