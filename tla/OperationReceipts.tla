-------------------------- MODULE OperationReceipts --------------------------
(***************************************************************************)
(* What the server promises about writes that carry an operation id, and   *)
(* what a device's queue relies on: an operation is applied once, with one *)
(* input, and every answer a device gets tells the truth about it.         *)
(***************************************************************************)
EXTENDS Naturals

CONSTANTS
  Calls,         \* requests that reach the server, copies included
  Operations,    \* operation ids, in the scope of one person and workspace
  OperationOf,   \* Calls -> Operations
  HashOf,        \* Calls -> what the call asks for
  None

Answers == {"ok", "reused", "refused", "error", "lost"}

VARIABLES
  receipts,      \* Operations -> the input it was applied with, or None
  effects,       \* Operations -> how often its effect is in the database
  answer         \* Calls -> what the caller got

receiptVars == <<receipts, effects, answer>>

Init ==
  /\ receipts = [o \in Operations |-> None]
  /\ effects = [o \in Operations |-> 0]
  /\ answer = [c \in Calls |-> None]

Apply(c) ==
  /\ receipts[OperationOf[c]] = None
  /\ receipts' = [receipts EXCEPT ![OperationOf[c]] = HashOf[c]]
  /\ effects' = [effects EXCEPT ![OperationOf[c]] = @ + 1]
  /\ UNCHANGED answer

(* Success is said only of the input that was applied, a reused id only of *)
(* another one, and a refusal on the merits only while nothing was applied. *)
Truthful(c, a) ==
  /\ a = "ok" => receipts[OperationOf[c]] = HashOf[c]
  /\ a = "reused" => receipts[OperationOf[c]] \notin {None, HashOf[c]}
  /\ a = "refused" => receipts[OperationOf[c]] = None

Reply(c, a) ==
  /\ answer[c] = None
  /\ Truthful(c, a)
  /\ answer' = [answer EXCEPT ![c] = a]
  /\ UNCHANGED <<receipts, effects>>

Next == \E c \in Calls : Apply(c) \/ \E a \in Answers : Reply(c, a)

Spec == Init /\ [][Next]_receiptVars
=============================================================================
