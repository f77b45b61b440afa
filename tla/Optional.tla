------------------------------- MODULE Optional -------------------------------
(* Python's None, Java's null: the absence of a value.                     *)
CONSTANT None
=============================================================================
