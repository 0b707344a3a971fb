--------------------------- MODULE InvoiceLedger ---------------------------
(***************************************************************************)
(* What follows an issued invoice: payments, refunds and their reversals,  *)
(* one credit, and the reminders mailed while money is owed                *)
(* (packages/server/src/services/invoice-follow-through.ts and             *)
(* packages/shared/src/invoice-follow-through.ts). All of it lies in the   *)
(* invoice's own document; amounts are whole units of its currency.        *)
(* Replacements of a credited invoice are left out.                        *)
(***************************************************************************)
EXTENDS Integers, FiniteSetsExt

CONSTANTS
  Payments,    \* requestIds a person's device makes up
  Totals,      \* what an invoice may ask for
  Stages,      \* the reminders, by the days they are due after
  None

ASSUME LedgerAssumption == Totals \subseteq Nat /\ Stages \subseteq Nat \ {0}

Amounts == UNION {1..t : t \in Totals}

Records ==
  [kind : {"pay", "refund"}, amount : Amounts]
    \cup [kind : {"reverse"}, amount : Amounts, reverses : Payments]

ASSUME RecordAssumption == None \notin Records

Ledgers ==
  [total : Totals,                \* the invoice's own field
   payments : [Payments -> {None} \cup Records],
   settled : BOOLEAN,             \* legacySettledMinor: paid before there was a ledger
   credit : BOOLEAN,
   reminders : BOOLEAN,           \* enabled
   sent : SUBSET Stages,          \* sentDays and skippedDays
   claim : BOOLEAN]

EmptyLedger(total) ==
  [total |-> total, payments |-> [p \in Payments |-> None], settled |-> FALSE,
   credit |-> FALSE, reminders |-> FALSE, sent |-> {}, claim |-> FALSE]

Recorded(l) == {p \in Payments : l.payments[p] # None}

Increases(l, p) ==
  \/ l.payments[p].kind = "pay"
  \/ l.payments[p].kind = "reverse" /\ l.payments[l.payments[p].reverses].kind = "refund"

LegacySettled(status, l) == l.settled \/ (status = "paid" /\ Recorded(l) = {})

(* invoiceBalance.                                                         *)
Paid(status, l) ==
  (IF LegacySettled(status, l) THEN l.total ELSE 0)
    + MapThenSumSet(LAMBDA p : IF Increases(l, p) THEN l.payments[p].amount ELSE -l.payments[p].amount,
                    Recorded(l))

Outstanding(status, l) ==
  IF l.credit \/ Paid(status, l) > l.total THEN 0 ELSE l.total - Paid(status, l)

RefundDue(status, l) == IF l.credit THEN Paid(status, l) ELSE 0

(* The guards of a new payment, refund or reversal (appendInvoicePayment). *)
Acceptable(status, l, new) ==
  CASE new.kind = "pay" -> ~l.credit /\ new.amount <= Outstanding(status, l)
    [] new.kind = "refund" -> l.credit /\ new.amount <= RefundDue(status, l)
    [] new.kind = "reverse" ->
         /\ new.reverses \in Recorded(l)
         /\ new.amount = l.payments[new.reverses].amount
         /\ CASE l.payments[new.reverses].kind = "pay" -> new.amount <= Paid(status, l)
              [] l.payments[new.reverses].kind = "refund" ->
                   l.credit /\ Paid(status, l) + new.amount <= l.total
              [] OTHER -> FALSE
         /\ \A p \in Recorded(l) :
              l.payments[p].kind = "reverse" => l.payments[p].reverses # new.reverses

(* Debts end reminders.                                                    *)
Settling(status, l) ==
  [l EXCEPT !.reminders = @ /\ Outstanding(status, l) > 0]

(* appendInvoicePayment: at most one ledger; a repetition leaves it as is. *)
AppendPayment(status, l, id, new) ==
  IF l.payments[id] # None THEN {k \in {l} : l.payments[id] = new}
  ELSE IF status # "draft" /\ Acceptable(status, l, new)
  THEN {Settling(status, [l EXCEPT !.payments[id] = new, !.settled = LegacySettled(status, l)])}
  ELSE {}

(* creditInvoice.                                                          *)
CreditInvoice(status, l) ==
  IF l.credit THEN {l}
  ELSE IF status = "draft" THEN {}
  ELSE {[l EXCEPT !.credit = TRUE, !.settled = LegacySettled(status, l), !.reminders = FALSE]}

(* setReminders; a claim is not carried over.                              *)
SetReminders(status, l, enabled) ==
  IF enabled => status # "draft" /\ ~l.credit /\ Outstanding(status, l) > 0
  THEN {[l EXCEPT !.reminders = enabled, !.claim = FALSE]}
  ELSE {}

(* changeFollowThrough: the status that goes with the ledger.              *)
StatusAfter(status, l) ==
  CASE l.credit \/ status = "draft" -> status
    [] OTHER -> IF Outstanding(status, l) = 0 THEN "paid" ELSE "sent"

(* nextReminderDay at a day of stage `due`, 0 before the first: the latest *)
(* stage alone is mailed.                                                  *)
Due(status, l, due) ==
  /\ l.reminders /\ due \in Stages \ l.sent
  /\ ~l.credit /\ status # "draft" /\ Outstanding(status, l) > 0

(* What records a mail: earlier stages count as skipped.                   *)
Mailed(l, due) ==
  [l EXCEPT !.sent = @ \cup {s \in Stages : s <= due}, !.claim = FALSE]
=============================================================================
