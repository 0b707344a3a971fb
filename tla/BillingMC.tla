----------------------------- MODULE BillingMC -----------------------------
EXTENDS Billing, TLC

CONSTANTS a1, a2, e1, e2, p1, p2

Requesters == {a1, a2}
TrackedTime == {e1, e2}
RequestIds == {p1, p2}

(* Time, its review and its invoices; or one invoice from its first day.   *)
OfTime == {"put", "submit", "bill", "withdraw", "approve", "reject", "reopen", "configure", "remove", "status"}
OfMoney == {"bill", "status", "record", "credit", "remind"}
BothTopics == {OfTime, OfMoney}
MoneyOnly == {OfMoney}

Symmetry == Permutations(Requesters) \cup Permutations(TrackedTime) \cup Permutations(RequestIds)
=============================================================================
