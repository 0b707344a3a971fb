---------------------------- MODULE EntryLedger ----------------------------
(***************************************************************************)
(* What the durable queue and the server's operation receipts together     *)
(* promise a person about the writes they make: a saved write is owed      *)
(* until it has taken effect or the person withdraws it, it takes effect   *)
(* at most once, and a write that was saved behind another one of its      *)
(* timer takes effect only after it, unless the person took that one back. *)
(***************************************************************************)
EXTENDS Sequences

CONSTANT Writes

VARIABLES
  behind,   \* saved writes -> the writes each one must follow
  owed,     \* saved and neither taken effect, as far as the device knows, nor withdrawn
  withdrawn,
  done      \* effects in order

ledgerVars == <<behind, owed, withdrawn, done>>

Effects == {done[n] : n \in DOMAIN done}

Init ==
  /\ behind = [w \in Writes |-> Writes]
  /\ owed = {}
  /\ withdrawn = {}
  /\ done = <<>>

(* An unsaved write follows everything, itself included: it can do nothing. *)
Saved == {w \in Writes : w \notin behind[w]}

Save(w) ==
  /\ w \notin Saved
  /\ \E before \in SUBSET Saved : behind' = [behind EXCEPT ![w] = before]
  /\ owed' = owed \cup {w}
  /\ UNCHANGED <<withdrawn, done>>

TakeEffect(w) ==
  /\ w \in Saved
  /\ w \notin Effects
  /\ behind[w] \subseteq Effects \cup withdrawn
  /\ done' = Append(done, w)
  /\ UNCHANGED <<behind, owed, withdrawn>>

Settle(w) ==
  /\ w \in owed \cap Effects
  /\ owed' = owed \ {w}
  /\ UNCHANGED <<behind, withdrawn, done>>

Withdraw(ws) ==
  /\ ws \subseteq owed
  /\ owed' = owed \ ws
  /\ withdrawn' = withdrawn \cup ws
  /\ UNCHANGED <<behind, done>>

Next ==
  \/ \E w \in Writes : Save(w) \/ TakeEffect(w) \/ Settle(w)
  \/ \E ws \in SUBSET Writes : Withdraw(ws)

Spec == Init /\ [][Next]_ledgerVars
=============================================================================
