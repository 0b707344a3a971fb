-------------------------- MODULE EntryOperationsMC --------------------------
(***************************************************************************)
(* Three calls: a request, its repetition, and one that reuses the         *)
(* operation id for another input; a fourth belongs to another operation.  *)
(***************************************************************************)
EXTENDS EntryOperations

CONSTANTS c1, c2, c3, c4, o1, o2

AllCalls == {c1, c2, c3, c4}
AllOperations == {o1, o2}
MCOperationOf == [c \in Calls |-> IF c = c4 THEN o2 ELSE o1]
MCHashOf == [c \in Calls |-> IF c = c3 THEN "edited" ELSE "as saved"]
=============================================================================
