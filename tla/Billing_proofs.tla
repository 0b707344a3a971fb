--------------------------- MODULE Billing_proofs ---------------------------
(***************************************************************************)
(* What Billing promises, for any requests, entries and invoices. The      *)
(* argument: a request that was not overtaken has read what the database   *)
(* still holds of everything it writes (SnapshotInv), so a commit makes of *)
(* the database what its operation makes of one database (Applied), and    *)
(* each promise is a fact about one operation on one database.             *)
(* BilledAsTracked is inductive beside UnusedInv; ApprovedAsSeen needs the *)
(* reviewer's row beside the record (ViewInv) and beside the approval that *)
(* was asked for from it (ApproveInv). SettledAsPaid is a fact about one   *)
(* invoice and its ledger (Balanced), kept by each of the ledger's         *)
(* operations; what is paid is a fold over the payments, so the lemmas on  *)
(* Sum first say what such a fold comes to, whichever order it takes them. *)
(***************************************************************************)
EXTENDS Billing, FiniteSetTheorems, WellFoundedInduction, TLAPS

(* A set of numbers that has a member has a least one.                     *)
LEMMA Smallest ==
  ASSUME NEW S \in SUBSET Nat, S # {}
  PROVE  \E i \in S : \A j \in S : i <= j
<1>1. PICK i \in S : \A j \in S : <<j, i>> \notin OpToRel(<, Nat)
  BY NatLessThanWellFounded, WFMin
<1>2. \A j \in S : ~(j < i)
  BY <1>1 DEF OpToRel
<1> QED
  BY <1>2

(* The next number is one that is not taken.                               *)
LEMMA Numbered ==
  ASSUME NEW d \in Databases, Unused(d) # {}
  PROVE  NextNumber(d) \in Unused(d) /\ NextNumber(d) \in Invoices
<1>1. Unused(d) \in SUBSET Nat
  BY BillingAssumption DEF Unused
<1>2. \E i \in Unused(d) : \A j \in Unused(d) : i <= j
  BY <1>1, Smallest
<1>3. NextNumber(d) \in Unused(d)
  BY <1>2 DEF NextNumber
<1> QED
  BY <1>3 DEF Unused

(* What a request makes of a database is a database.                       *)
LEMMA PutType ==
  ASSUME NEW d \in Databases, NEW r \in Requests, r.op = "put", NEW n \in Put(d, r)
  PROVE  n \in Databases
<1>1. r.entry \in Entries /\ r.span \in Spans \cup {Absent}
  BY DEF Requests
<1>2. n = [d EXCEPT !.span[r.entry] = r.span]
  BY DEF Put, Refused
<1> QED
  BY <1>1, <1>2 DEF Databases

LEMMA ActedType ==
  ASSUME NEW d \in Databases, NEW week \in {"draft", "submitted", "approved", "rejected"}, NEW n \in Acted(d, week)
  PROVE  n \in Databases
<1>1. d.sheet \in Sheets /\ d.sheet.revision + 1 \in Nat
  BY DEF Databases, Sheets
<1> DEFINE next == d.sheet.revision + 1
<1> HIDE DEF next
<1>2. [d.sheet EXCEPT !.week = week, !.revision = next] \in Sheets
  BY <1>1 DEF Sheets, next
<1>3. n = [d EXCEPT !.sheet.week = week, !.sheet.revision = next]
  BY DEF Acted, next
<1> QED
  BY <1>2, <1>3 DEF Databases

LEMMA ConfigureType ==
  ASSUME NEW d \in Databases, NEW r \in Requests, r.op = "configure", NEW n \in Configure(d, r)
  PROVE  n \in Databases
<1>1. r.enabled \in BOOLEAN /\ r.required \in BOOLEAN
  BY DEF Requests
<1>2. n = [d EXCEPT !.sheet.enabled = r.enabled, !.sheet.required = r.required]
  BY DEF Configure, Refused
<1> QED
  BY <1>1, <1>2 DEF Databases, Sheets

LEMMA BillType ==
  ASSUME NEW d \in Databases, NEW n \in Bill(d)
  PROVE  n \in Databases
<1>1. NextNumber(d) \in Invoices
  BY Numbered DEF Bill, Refused
<1>2. {<<e, d.span[e]>> : e \in Billable(d)} \in SUBSET (Entries \X Spans)
  BY DEF Databases, Billable, Ended, Spans, Absent
<1>3. [e \in Entries |-> IF e \in Billable(d) THEN NextNumber(d) ELSE d.invoice[e]] \in [Entries -> Invoices \cup {None}]
  BY <1>1 DEF Databases
<1>4. n = [d EXCEPT !.status[NextNumber(d)] = "draft",
                  !.bills[NextNumber(d)] = {<<e, d.span[e]>> : e \in Billable(d)},
                  !.invoice = [e \in Entries |-> IF e \in Billable(d) THEN NextNumber(d) ELSE d.invoice[e]]]
  BY DEF Bill, Refused
<1> QED
  BY <1>1, <1>2, <1>3, <1>4 DEF Databases

LEMMA RemoveType ==
  ASSUME NEW d \in Databases, NEW r \in Requests, r.op = "remove", NEW n \in Remove(d, r)
  PROVE  n \in Databases
<1>1. r.invoice \in Invoices
  BY DEF Requests
<1>2. [e \in Entries |-> IF e \in Billed(d, r.invoice) THEN None ELSE d.invoice[e]] \in [Entries -> Invoices \cup {None}]
  BY DEF Databases
<1>3. n = [d EXCEPT !.status[r.invoice] = "removed", !.bills[r.invoice] = {},
                  !.invoice = [e \in Entries |-> IF e \in Billed(d, r.invoice) THEN None ELSE d.invoice[e]]]
  BY DEF Remove, Refused
<1> QED
  BY <1>1, <1>2, <1>3 DEF Databases

LEMMA StatusType ==
  ASSUME NEW d \in Databases, NEW r \in Requests, r.op = "status", NEW n \in UpdateStatus(d, r)
  PROVE  n \in Databases
<1>1. r.invoice \in Invoices /\ r.status \in {"draft", "sent", "paid"}
  BY DEF Requests
<1>2. n = [d EXCEPT !.status[r.invoice] = r.status,
                  !.ledger[r.invoice].reminders = @ /\ r.status # "paid"]
  BY DEF UpdateStatus, Refused
<1> DEFINE on == d.ledger[r.invoice].reminders /\ r.status # "paid"
<1>3. on \in BOOLEAN
  OBVIOUS
<1>4. d.ledger[r.invoice] \in Ledgers
  BY <1>1 DEF Databases
<1> HIDE DEF on
<1>5. [d.ledger[r.invoice] EXCEPT !.reminders = on] \in Ledgers
  BY <1>3, <1>4 DEF Ledgers
<1> QED
  BY <1>1, <1>2, <1>5 DEF Databases, on

(* The ledger's operations make ledgers.                                   *)
LEMMA LedgerType ==
  ASSUME NEW status, NEW l \in Ledgers
  PROVE  /\ \A id \in Payments, new \in Records : AppendPayment(status, l, id, new) \in SUBSET Ledgers
         /\ CreditInvoice(status, l) \in SUBSET Ledgers
         /\ \A b \in BOOLEAN : SetReminders(status, l, b) \in SUBSET Ledgers
<1>1. LegacySettled(status, l) \in BOOLEAN
  BY DEF LegacySettled, Ledgers
<1>2. ASSUME NEW id \in Payments, NEW new \in Records
      PROVE  AppendPayment(status, l, id, new) \in SUBSET Ledgers
  <2>1. [l EXCEPT !.payments[id] = new, !.settled = LegacySettled(status, l)] \in Ledgers
    BY <1>1 DEF Ledgers
  <2>2. ASSUME NEW k \in Ledgers PROVE Settling(status, k) \in Ledgers
    BY DEF Settling, Ledgers
  <2> QED
    BY <2>1, <2>2 DEF AppendPayment
<1>3. CreditInvoice(status, l) \in SUBSET Ledgers
  BY <1>1 DEF CreditInvoice, Ledgers
<1>4. ASSUME NEW b \in BOOLEAN PROVE SetReminders(status, l, b) \in SUBSET Ledgers
  BY DEF SetReminders, Ledgers
<1> QED
  BY <1>2, <1>3, <1>4

LEMMA FollowThroughType ==
  ASSUME NEW d \in Databases, NEW r, r.invoice \in Invoices, NEW ls \in SUBSET Ledgers, NEW n \in FollowThrough(d, r, ls)
  PROVE  n \in Databases
<1>1. PICK l \in ls : n = [d EXCEPT !.ledger[r.invoice] = l, !.status[r.invoice] = StatusAfter(@, l)]
  BY DEF FollowThrough, Refused
<1>2. StatusAfter(d.status[r.invoice], l) \in {"unused", "draft", "sent", "paid", "removed"}
  BY DEF StatusAfter, Databases
<1> QED
  BY <1>1, <1>2 DEF Databases

LEMMA OutcomeType ==
  ASSUME NEW d \in Databases, NEW r \in Requests, NEW n \in Outcome(d, r)
  PROVE  n \in Databases
<1>1. CASE r.op = "put"
  BY <1>1, PutType DEF Outcome
<1>2. CASE r.op = "submit"
  <2>1. n \in Acted(d, "submitted")
    BY <1>2 DEF Outcome, Submit, Acted, Refused
  <2> QED
    BY <2>1, ActedType
<1>3. CASE r.op \in {"approve", "withdraw", "reject", "reopen"}
  <2>1. \E week \in {"approved", "draft", "rejected"} : n \in Acted(d, week)
    BY <1>3 DEF Outcome, Approve, Withdraw, Reject, Reopen, Act, Refused
  <2> QED
    BY <2>1, ActedType
<1>4. CASE r.op = "configure"
  BY <1>4, ConfigureType DEF Outcome
<1>5. CASE r.op = "bill"
  BY <1>5, BillType DEF Outcome
<1>6. CASE r.op = "remove"
  BY <1>6, RemoveType DEF Outcome
<1>7. CASE r.op = "status"
  BY <1>7, StatusType DEF Outcome
<1>8. CASE r.op \in {"record", "credit", "remind"}
  <2>1. r.invoice \in Invoices /\ d.ledger[r.invoice] \in Ledgers
    BY <1>8 DEF Requests, Databases
  <2>2. CASE r.op = "record"
    <3>1. r.id \in Payments /\ r.payment \in Records
      BY <2>2 DEF Requests
    <3> QED
      BY <2>1, <2>2, <3>1, LedgerType, FollowThroughType DEF Outcome
  <2>3. CASE r.op = "credit"
    BY <2>1, <2>3, LedgerType, FollowThroughType DEF Outcome
  <2>4. CASE r.op = "remind"
    <3>1. r.enabled \in BOOLEAN
      BY <2>4 DEF Requests
    <3> QED
      BY <2>1, <2>4, <3>1, LedgerType, FollowThroughType DEF Outcome
  <2> QED
    BY <1>8, <2>2, <2>3, <2>4
<1> QED
  BY <1>1, <1>2, <1>3, <1>4, <1>5, <1>6, <1>7, <1>8 DEF Requests

(* What two databases have in common: tracked time and its review, and one *)
(* invoice.                                                                *)
SameTime(d, e) == d.span = e.span /\ d.invoice = e.invoice /\ d.sheet = e.sheet

SameInvoice(d, e, i) == d.status[i] = e.status[i] /\ d.bills[i] = e.bills[i] /\ d.ledger[i] = e.ledger[i]

(* A request changes what it writes, and nothing else.                     *)
LEMMA OutcomeFrame ==
  ASSUME NEW d \in Databases, NEW r \in Requests, NEW n \in Outcome(d, r)
  PROVE  /\ InvoicesWritten(d, r) \subseteq Invoices
         /\ ~Transactional(r) => SameTime(d, n)
         /\ \A i \in Invoices \ InvoicesWritten(d, r) : SameInvoice(d, n, i)
<1>1. CASE r.op = "put"
  <2>1. n = [d EXCEPT !.span[r.entry] = r.span]
    BY <1>1 DEF Outcome, Put, Refused
  <2> QED
    BY <1>1, <2>1 DEF Databases, InvoicesWritten, Transactional, SameInvoice, OnInvoice
<1>2. CASE r.op \in {"submit", "approve", "withdraw", "reject", "reopen"}
  <2>1. \E week : n \in Acted(d, week)
    BY <1>2 DEF Outcome, Submit, Acted, Approve, Withdraw, Reject, Reopen, Act, Refused
  <2>2. n.status = d.status /\ n.bills = d.bills /\ n.ledger = d.ledger
    BY <2>1 DEF Acted, Databases
  <2> QED
    BY <1>2, <2>2 DEF InvoicesWritten, Transactional, SameInvoice, OnInvoice
<1>3. CASE r.op = "configure"
  <2>1. n = [d EXCEPT !.sheet.enabled = r.enabled, !.sheet.required = r.required]
    BY <1>3 DEF Outcome, Configure, Refused
  <2> QED
    BY <1>3, <2>1 DEF Databases, InvoicesWritten, Transactional, SameInvoice, OnInvoice
<1>4. CASE r.op = "bill"
  <2>1. NextNumber(d) \in Invoices
    BY <1>4, Numbered DEF Outcome, Bill, Refused
  <2>2. \E bills, invoice :
          n = [d EXCEPT !.status[NextNumber(d)] = "draft", !.bills[NextNumber(d)] = bills, !.invoice = invoice]
    BY <1>4 DEF Outcome, Bill, Refused
  <2>3. \A i \in Invoices \ {NextNumber(d)} : SameInvoice(d, n, i)
    BY <2>1, <2>2 DEF Databases, SameInvoice
  <2> QED
    BY <1>4, <2>1, <2>3 DEF InvoicesWritten, Transactional, OnInvoice
<1>5. CASE r.op = "remove"
  <2>1. r.invoice \in Invoices
    BY <1>5 DEF Requests
  <2>2. n = [d EXCEPT !.status[r.invoice] = "removed", !.bills[r.invoice] = {},
                  !.invoice = [e \in Entries |-> IF e \in Billed(d, r.invoice) THEN None ELSE d.invoice[e]]]
    BY <1>5 DEF Outcome, Remove, Refused
  <2> QED
    BY <1>5, <2>1, <2>2 DEF Databases, InvoicesWritten, Transactional, SameInvoice, OnInvoice
<1>6. CASE r.op = "status"
  <2>1. r.invoice \in Invoices
    BY <1>6 DEF Requests
  <2>2. n = [d EXCEPT !.status[r.invoice] = r.status,
                  !.ledger[r.invoice].reminders = @ /\ r.status # "paid"]
    BY <1>6 DEF Outcome, UpdateStatus, Refused
  <2> QED
    BY <1>6, <2>1, <2>2 DEF Databases, InvoicesWritten, SameInvoice, SameTime, OnInvoice
<1>7. CASE r.op \in {"record", "credit", "remind"}
  <2>1. r.invoice \in Invoices
    BY <1>7 DEF Requests
  <2>2. \E l : n = [d EXCEPT !.ledger[r.invoice] = l, !.status[r.invoice] = StatusAfter(@, l)]
    BY <1>7 DEF Outcome, FollowThrough, Refused
  <2> QED
    BY <1>7, <2>1, <2>2 DEF Databases, InvoicesWritten, SameInvoice, SameTime, OnInvoice
<1> QED
  BY <1>1, <1>2, <1>3, <1>4, <1>5, <1>6, <1>7 DEF Requests

-----------------------------------------------------------------------------
(* A job that was not overtaken has read what the database still holds.    *)
SnapshotInv ==
  \A a \in Actors : job[a] # None =>
    /\ Fence \notin job[a].overtaken => SameTime(job[a].seen, db)
    /\ \A i \in Invoices \ job[a].overtaken : SameInvoice(job[a].seen, db, i)

(* Merging a sheet field by field gives a sheet.                           *)
LEMMA ChangedSheet ==
  ASSUME NEW now \in Sheets, NEW seen, NEW new \in Sheets
  PROVE  /\ Changed(now, seen, new) \in Sheets
         /\ seen = now => Changed(now, seen, new) = new
         /\ seen = new => Changed(now, seen, new) = now
<1>1. DOMAIN now = {"week", "revision", "enabled", "required"}
  BY DEF Sheets
<1>2. Changed(now, seen, new) \in Sheets
  BY <1>1 DEF Sheets, Changed
<1>3. seen = now => Changed(now, seen, new) = new
  BY <1>1 DEF Sheets, Changed
<1>4. seen = new => Changed(now, seen, new) = now
  BY <1>1 DEF Sheets, Changed
<1> QED
  BY <1>2, <1>3, <1>4

(* What a commit of new, made from seen, leaves of both.                   *)
LEMMA Merges ==
  ASSUME db \in Databases, NEW seen \in Databases, NEW new \in Databases, db' = Committed(seen, new)
  PROVE  /\ db' \in Databases
         /\ SameTime(seen, db) => SameTime(new, db')
         /\ SameTime(seen, new) => SameTime(db, db')
         /\ \A i \in Invoices : SameInvoice(seen, db, i) => SameInvoice(new, db', i)
         /\ \A i \in Invoices : SameInvoice(seen, new, i) => SameInvoice(db, db', i)
<1>1. DOMAIN db = {"span", "invoice", "sheet", "status", "bills", "ledger"}
  BY DEF Databases
<1>2. db' = [part \in {"span", "invoice", "sheet", "status", "bills", "ledger"} |-> Changed(db[part], seen[part], new[part])]
  BY <1>1 DEF Committed
<1>3. /\ db'.span = Changed(db.span, seen.span, new.span)
      /\ db'.invoice = Changed(db.invoice, seen.invoice, new.invoice)
      /\ db'.sheet = Changed(db.sheet, seen.sheet, new.sheet)
      /\ db'.status = Changed(db.status, seen.status, new.status)
      /\ db'.bills = Changed(db.bills, seen.bills, new.bills)
      /\ db'.ledger = Changed(db.ledger, seen.ledger, new.ledger)
  BY <1>2
<1>4. /\ db'.span \in [Entries -> Spans \cup {Absent}]
      /\ SameTime(seen, db) => db'.span = new.span
      /\ SameTime(seen, new) => db'.span = db.span
  <2>1. db.span \in [Entries -> Spans \cup {Absent}] /\ new.span \in [Entries -> Spans \cup {Absent}]
    BY DEF Databases
  <2> QED
    BY <1>3, <2>1 DEF SameTime, Changed
<1>5. /\ db'.invoice \in [Entries -> Invoices \cup {None}]
      /\ SameTime(seen, db) => db'.invoice = new.invoice
      /\ SameTime(seen, new) => db'.invoice = db.invoice
  <2>1. db.invoice \in [Entries -> Invoices \cup {None}] /\ new.invoice \in [Entries -> Invoices \cup {None}]
    BY DEF Databases
  <2> QED
    BY <1>3, <2>1 DEF SameTime, Changed
<1>6. /\ db'.sheet \in Sheets
      /\ SameTime(seen, db) => db'.sheet = new.sheet
      /\ SameTime(seen, new) => db'.sheet = db.sheet
  BY <1>3, ChangedSheet DEF Databases, SameTime
<1>7. /\ db'.status \in [Invoices -> {"unused", "draft", "sent", "paid", "removed"}]
      /\ \A i \in Invoices : db'.status[i] = IF new.status[i] # seen.status[i] THEN new.status[i] ELSE db.status[i]
  <2>1. db.status \in [Invoices -> {"unused", "draft", "sent", "paid", "removed"}] /\ new.status \in [Invoices -> {"unused", "draft", "sent", "paid", "removed"}]
    BY DEF Databases
  <2> QED
    BY <1>3, <2>1 DEF Changed
<1>8. /\ db'.bills \in [Invoices -> SUBSET (Entries \X Spans)]
      /\ \A i \in Invoices : db'.bills[i] = IF new.bills[i] # seen.bills[i] THEN new.bills[i] ELSE db.bills[i]
  <2>1. db.bills \in [Invoices -> SUBSET (Entries \X Spans)] /\ new.bills \in [Invoices -> SUBSET (Entries \X Spans)]
    BY DEF Databases
  <2> QED
    BY <1>3, <2>1 DEF Changed
<1>9. /\ db'.ledger \in [Invoices -> Ledgers]
      /\ \A i \in Invoices : db'.ledger[i] = IF new.ledger[i] # seen.ledger[i] THEN new.ledger[i] ELSE db.ledger[i]
  <2>1. db.ledger \in [Invoices -> Ledgers] /\ new.ledger \in [Invoices -> Ledgers]
    BY DEF Databases
  <2> QED
    BY <1>3, <2>1 DEF Changed
<1>10. db' \in Databases
  BY <1>2, <1>4, <1>5, <1>6, <1>7, <1>8, <1>9 DEF Databases
<1> QED
  BY <1>4, <1>5, <1>6, <1>7, <1>8, <1>9, <1>10 DEF SameTime, SameInvoice

(* A commit makes of the database what its request made of the snapshot.   *)
Applied(a, new) ==
  LET r == job[a].request
      seen == job[a].seen
  IN  /\ r \in Requests /\ seen \in Databases /\ new \in Outcome(seen, r) /\ new \in Databases
      /\ db' \in Databases
      /\ InvoicesWritten(seen, r) \subseteq Invoices
      /\ Transactional(r) => SameTime(seen, db) /\ SameTime(new, db')
      /\ ~Transactional(r) => SameTime(db, db')
      /\ \A i \in InvoicesWritten(seen, r) : SameInvoice(seen, db, i) /\ SameInvoice(new, db', i)
      /\ \A i \in Invoices \ InvoicesWritten(seen, r) : SameInvoice(db, db', i)

(* Not overtaken, a request writes over what it has read.                  *)
LEMMA CommitApplies ==
  ASSUME TypeOK, SnapshotInv, NEW a \in Actors, Commit(a)
  PROVE  \E new : Applied(a, new)
<1> DEFINE r == job[a].request
           seen == job[a].seen
<1>1. job[a] # None /\ Written(seen, r) \cap job[a].overtaken = {}
  BY DEF Commit, Overtaken
<1>2. r \in Requests /\ seen \in Databases /\ db \in Databases
  BY <1>1 DEF TypeOK
<1>3. PICK new \in Outcome(seen, r) : db' = Committed(seen, new)
  BY DEF Commit
<1> HIDE DEF r, seen
<1>4. new \in Databases
  BY <1>2, <1>3, OutcomeType
<1>5. /\ InvoicesWritten(seen, r) \subseteq Invoices
      /\ ~Transactional(r) => SameTime(seen, new)
      /\ \A i \in Invoices \ InvoicesWritten(seen, r) : SameInvoice(seen, new, i)
  BY <1>2, <1>3, OutcomeFrame
<1>6. Transactional(r) => SameTime(seen, db)
  BY <1>1 DEF SnapshotInv, Written, Fenced, r, seen
<1>7. \A i \in InvoicesWritten(seen, r) : SameInvoice(seen, db, i)
  BY <1>1, <1>5 DEF SnapshotInv, Written, r, seen
<1>8. /\ db' \in Databases
      /\ SameTime(seen, db) => SameTime(new, db')
      /\ SameTime(seen, new) => SameTime(db, db')
      /\ \A i \in Invoices : SameInvoice(seen, db, i) => SameInvoice(new, db', i)
      /\ \A i \in Invoices : SameInvoice(seen, new, i) => SameInvoice(db, db', i)
  BY <1>2, <1>3, <1>4, Merges
<1>9. Applied(a, new)
  BY <1>2, <1>3, <1>4, <1>5, <1>6, <1>7, <1>8 DEF Applied, r, seen
<1> QED
  BY <1>9

-----------------------------------------------------------------------------
(* What is left of an invoice that is not there.                           *)
UnusedInv == \A i \in Invoices : db.status[i] \in {"unused", "removed"} => db.bills[i] = {}

AsSeen(time) ==
  \A e \in Entries : db.span[e] # time[e] => ~Intersects(db.span[e]) /\ ~Intersects(time[e])

(* A row on screen is of the record's present revision, with the week's    *)
(* time as its total, or of a former one.                                  *)
ViewInv ==
  view # None =>
    /\ view.revision <= db.sheet.revision
    /\ view.revision = db.sheet.revision =>
         db.sheet.week = "submitted" /\ (view.time # None => AsSeen(view.time))

ApproveInv ==
  \A a \in Actors : job[a] # None /\ job[a].request.op = "approve" =>
    view # None /\ view.time # None /\ view.revision = job[a].request.revision

IInv == TypeOK /\ SnapshotInv /\ BilledAsTracked /\ UnusedInv /\ ViewInv /\ ApproveInv

(* Which requests change which parts.                                      *)
LEMMA OutcomeParts ==
  ASSUME NEW d \in Databases, NEW r \in Requests, NEW n \in Outcome(d, r)
  PROVE  /\ r.op # "put" => n.span = d.span
         /\ r.op \notin {"bill", "remove"} => n.invoice = d.invoice /\ n.bills = d.bills
         /\ r.op \notin {"submit", "approve", "withdraw", "reject", "reopen", "configure"} => n.sheet = d.sheet
         /\ r.op \in {"submit", "approve", "withdraw", "reject", "reopen"} => n.sheet.revision = d.sheet.revision + 1
         /\ r.op = "configure" => n.sheet.revision = d.sheet.revision /\ n.sheet.week = d.sheet.week
<1>1. CASE r.op = "put"
  <2>1. n = [d EXCEPT !.span[r.entry] = r.span]
    BY <1>1 DEF Outcome, Put, Refused
  <2> QED
    BY <1>1, <2>1 DEF Databases
<1>2. CASE r.op \in {"submit", "approve", "withdraw", "reject", "reopen"}
  <2>1. PICK week : n \in Acted(d, week)
    BY <1>2 DEF Outcome, Submit, Acted, Approve, Withdraw, Reject, Reopen, Act, Refused
  <2>2. n.span = d.span /\ n.invoice = d.invoice /\ n.bills = d.bills
    BY <2>1 DEF Acted, Databases
  <2>3. n.sheet.revision = d.sheet.revision + 1
    <3>1. n = [d EXCEPT !.sheet = [d.sheet EXCEPT !.week = week, !.revision = d.sheet.revision + 1]]
      BY <2>1 DEF Acted
    <3>2. n.sheet = [d.sheet EXCEPT !.week = week, !.revision = d.sheet.revision + 1]
      BY <3>1 DEF Databases
    <3>3. DOMAIN d.sheet = {"week", "revision", "enabled", "required"}
      BY DEF Databases, Sheets
    <3> QED
      BY <3>2, <3>3
  <2> QED
    BY <1>2, <2>2, <2>3
<1>3. CASE r.op = "configure"
  <2>1. n = [d EXCEPT !.sheet.enabled = r.enabled, !.sheet.required = r.required]
    BY <1>3 DEF Outcome, Configure, Refused
  <2>2. n.span = d.span /\ n.invoice = d.invoice /\ n.bills = d.bills
    BY <2>1 DEF Databases
  <2>3. n.sheet.revision = d.sheet.revision /\ n.sheet.week = d.sheet.week
    BY <2>1 DEF Databases, Sheets
  <2> QED
    BY <1>3, <2>2, <2>3
<1>4. CASE r.op = "bill"
  <2>1. \E bills, invoice :
          n = [d EXCEPT !.status[NextNumber(d)] = "draft", !.bills[NextNumber(d)] = bills, !.invoice = invoice]
    BY <1>4 DEF Outcome, Bill, Refused
  <2>2. n.span = d.span /\ n.sheet = d.sheet
    BY <2>1 DEF Databases
  <2> QED
    BY <1>4, <2>2
<1>5. CASE r.op = "remove"
  <2>1. \E invoice :
          n = [d EXCEPT !.status[r.invoice] = "removed", !.bills[r.invoice] = {}, !.invoice = invoice]
    BY <1>5 DEF Outcome, Remove, Refused
  <2>2. n.span = d.span /\ n.sheet = d.sheet
    BY <2>1 DEF Databases
  <2> QED
    BY <1>5, <2>2
<1>6. CASE r.op = "status"
  <2>1. n = [d EXCEPT !.status[r.invoice] = r.status,
                  !.ledger[r.invoice].reminders = @ /\ r.status # "paid"]
    BY <1>6 DEF Outcome, UpdateStatus, Refused
  <2> QED
    BY <1>6, <2>1 DEF Databases
<1>7. CASE r.op \in {"record", "credit", "remind"}
  <2>1. \E l : n = [d EXCEPT !.ledger[r.invoice] = l, !.status[r.invoice] = StatusAfter(@, l)]
    BY <1>7 DEF Outcome, FollowThrough, Refused
  <2> QED
    BY <1>7, <2>1 DEF Databases
<1> QED
  BY <1>1, <1>2, <1>3, <1>4, <1>5, <1>6, <1>7 DEF Requests

(* A commit keeps invoices and entries in step.                            *)
LEMMA BilledStep ==
  ASSUME TypeOK, BilledAsTracked, UnusedInv, NEW a \in Actors, NEW new, Applied(a, new)
  PROVE  BilledAsTracked'
<1> DEFINE r == job[a].request
           seen == job[a].seen
<1>1. /\ r \in Requests /\ seen \in Databases /\ new \in Outcome(seen, r) /\ new \in Databases
      /\ db' \in Databases
      /\ InvoicesWritten(seen, r) \subseteq Invoices
      /\ Transactional(r) => SameTime(seen, db) /\ SameTime(new, db')
      /\ ~Transactional(r) => SameTime(db, db')
      /\ \A i \in InvoicesWritten(seen, r) : SameInvoice(seen, db, i) /\ SameInvoice(new, db', i)
      /\ \A i \in Invoices \ InvoicesWritten(seen, r) : SameInvoice(db, db', i)
  BY DEF Applied
<1> HIDE DEF r, seen
<1>2. db \in Databases
  BY DEF TypeOK
<1>3. CASE r.op \notin {"put", "bill", "remove"}
  <2>1. db'.span = db.span /\ db'.invoice = db.invoice
    BY <1>1, <1>3, OutcomeParts DEF SameTime
  <2>2. \A i \in Invoices : db'.bills[i] = db.bills[i]
    BY <1>1, <1>3, OutcomeParts DEF SameInvoice
  <2> QED
    BY <2>1, <2>2 DEF BilledAsTracked, Billed
<1>4. CASE r.op = "put"
  <2>1. Transactional(r) /\ InvoicesWritten(seen, r) = {}
    BY <1>4 DEF Transactional, InvoicesWritten, OnInvoice
  <2>2. \A i \in Invoices : db'.bills[i] = db.bills[i]
    BY <1>1, <2>1 DEF SameInvoice
  <2>3. db'.invoice = db.invoice
    BY <1>1, <1>4, <2>1, OutcomeParts DEF SameTime
  <2>4. new = [seen EXCEPT !.span[r.entry] = r.span] /\ seen.invoice[r.entry] = None
    BY <1>1, <1>4 DEF Outcome, Put, Refused
  <2>5. \A e \in Entries : db.invoice[e] # None => db'.span[e] = db.span[e]
    BY <1>1, <2>1, <2>4 DEF SameTime, Databases
  <2> QED
    BY <1>2, <2>2, <2>3, <2>5, BillingAssumption DEF BilledAsTracked, Billed
<1>5. CASE r.op = "bill"
  <2> DEFINE k == NextNumber(seen)
             claimed == Billable(seen)
  <2>1. Transactional(r) /\ InvoicesWritten(seen, r) = {k}
    BY <1>5 DEF Transactional, InvoicesWritten, OnInvoice
  <2>2. k \in Invoices /\ seen.status[k] = "unused"
    BY <1>1, <1>5, Numbered DEF Outcome, Bill, Refused, Unused
  <2>3. new = [seen EXCEPT !.status[k] = "draft",
                  !.bills[k] = {<<e, seen.span[e]>> : e \in claimed},
                  !.invoice = [e \in Entries |-> IF e \in claimed THEN k ELSE seen.invoice[e]]]
    BY <1>1, <1>5 DEF Outcome, Bill, Refused
  <2>4. claimed \subseteq {e \in Entries : seen.invoice[e] = None}
    BY DEF Billable
  <2>5. db'.span = db.span /\ seen.span = db.span
    BY <1>1, <1>5, <2>1, OutcomeParts DEF SameTime
  <2> DEFINE bill == {<<e, seen.span[e]>> : e \in claimed}
             carried == [e \in Entries |-> IF e \in claimed THEN k ELSE seen.invoice[e]]
  <2>6. \A e \in Entries : db'.invoice[e] = IF e \in claimed THEN k ELSE db.invoice[e]
    <3>1. \A e \in Entries : carried[e] = IF e \in claimed THEN k ELSE seen.invoice[e]
      OBVIOUS
    <3> HIDE DEF k, claimed, bill, carried
    <3>2. new.invoice = carried
      BY <1>1, <2>3 DEF Databases, bill, carried
    <3> QED
      BY <1>1, <2>1, <3>1, <3>2 DEF SameTime
  <2>7. db'.bills[k] = {<<e, db.span[e]>> : e \in claimed}
    <3> HIDE DEF k, claimed, bill, carried
    <3>1. new = [seen EXCEPT !.status[k] = "draft", !.bills[k] = bill, !.invoice = carried]
      BY <2>3 DEF bill, carried
    <3>2. new.bills[k] = bill
      BY <1>1, <2>2, <3>1 DEF Databases
    <3>3. db'.bills[k] = bill
      BY <1>1, <2>1, <3>2 DEF SameInvoice
    <3> QED
      BY <2>5, <3>3 DEF bill
  <2> HIDE DEF k, claimed
  <2>8. Billed(db, k) = {}
    <3>1. db.bills[k] = {}
      BY <1>1, <2>1, <2>2 DEF SameInvoice, UnusedInv
    <3>2. \A e \in Billed(db, k) : <<e, db.span[e]>> \in db.bills[k]
      BY <2>2 DEF BilledAsTracked
    <3> QED
      BY <3>1, <3>2
  <2>9. Billed(db', k) = claimed
    BY <2>4, <2>6, <2>8 DEF Billed
  <2>10. \A i \in Invoices \ {k} : Billed(db', i) = Billed(db, i) /\ db'.bills[i] = db.bills[i]
    BY <1>1, <2>1, <2>4, <2>6, BillingAssumption DEF Billed, SameInvoice, SameTime
  <2> QED
    BY <2>5, <2>7, <2>9, <2>10 DEF BilledAsTracked
<1>6. CASE r.op = "remove"
  <2> DEFINE k == r.invoice
             released == Billed(seen, k)
  <2>1. Transactional(r) /\ InvoicesWritten(seen, r) = {k} /\ k \in Invoices
    BY <1>1, <1>6 DEF Transactional, InvoicesWritten, OnInvoice, Requests
  <2>2. new = [seen EXCEPT !.status[k] = "removed", !.bills[k] = {},
                  !.invoice = [e \in Entries |-> IF e \in released THEN None ELSE seen.invoice[e]]]
    BY <1>1, <1>6 DEF Outcome, Remove, Refused
  <2>3. released = {e \in Entries : seen.invoice[e] = k}
    BY DEF Billed
  <2> DEFINE carried == [e \in Entries |-> IF e \in released THEN None ELSE seen.invoice[e]]
  <2> HIDE DEF k, released
  <2>4. db'.span = db.span
    BY <1>1, <1>6, <2>1, OutcomeParts DEF SameTime
  <2>5. \A e \in Entries : db'.invoice[e] = IF e \in released THEN None ELSE db.invoice[e]
    <3>1. \A e \in Entries : carried[e] = IF e \in released THEN None ELSE seen.invoice[e]
      OBVIOUS
    <3> HIDE DEF carried
    <3>2. new.invoice = carried
      BY <1>1, <2>2 DEF Databases, carried
    <3> QED
      BY <1>1, <2>1, <3>1, <3>2 DEF SameTime
  <2>6. db'.bills[k] = {} /\ Billed(db', k) = {}
    <3> HIDE DEF carried
    <3>1. new = [seen EXCEPT !.status[k] = "removed", !.bills[k] = {}, !.invoice = carried]
      BY <2>2 DEF carried
    <3>2. new.bills[k] = {}
      BY <1>1, <2>1, <3>1 DEF Databases
    <3>3. db'.bills[k] = {}
      BY <1>1, <2>1, <3>2 DEF SameInvoice
    <3>4. Billed(db', k) = {}
      BY <1>1, <2>1, <2>3, <2>5, BillingAssumption DEF SameTime, Billed
    <3> QED
      BY <3>3, <3>4
  <2>7. \A i \in Invoices \ {k} : Billed(db', i) = Billed(db, i) /\ db'.bills[i] = db.bills[i]
    BY <1>1, <2>1, <2>3, <2>5, BillingAssumption DEF Billed, SameInvoice, SameTime
  <2> QED
    BY <2>4, <2>6, <2>7 DEF BilledAsTracked
<1> QED
  BY <1>3, <1>4, <1>5, <1>6

(* A commit leaves nothing on an invoice that is not there.                *)
LEMMA UnusedStep ==
  ASSUME TypeOK, UnusedInv, NEW a \in Actors, NEW new, Applied(a, new)
  PROVE  UnusedInv'
<1> DEFINE r == job[a].request
           seen == job[a].seen
<1>1. /\ r \in Requests /\ seen \in Databases /\ new \in Outcome(seen, r)
      /\ InvoicesWritten(seen, r) \subseteq Invoices
      /\ \A i \in InvoicesWritten(seen, r) : SameInvoice(seen, db, i) /\ SameInvoice(new, db', i)
      /\ \A i \in Invoices \ InvoicesWritten(seen, r) : SameInvoice(db, db', i)
  BY DEF Applied
<1> HIDE DEF r, seen
<1>2. SUFFICES ASSUME NEW i \in InvoicesWritten(seen, r), new.status[i] \in {"unused", "removed"}
               PROVE  new.bills[i] = {}
  BY <1>1 DEF UnusedInv, SameInvoice
<1>3. i \in Invoices
  BY <1>1
<1>4. CASE r.op = "bill"
  <2>1. i = NextNumber(seen)
    BY <1>2, <1>4 DEF InvoicesWritten, OnInvoice
  <2>2. \E bills, invoice : new = [seen EXCEPT !.status[i] = "draft", !.bills[i] = bills, !.invoice = invoice]
    BY <1>1, <1>4, <2>1 DEF Outcome, Bill, Refused
  <2> QED
    BY <1>1, <1>2, <1>3, <2>2 DEF Databases
<1>5. CASE r.op = "remove"
  <2>1. i = r.invoice
    BY <1>2, <1>5 DEF InvoicesWritten, OnInvoice
  <2>2. \E invoice : new = [seen EXCEPT !.status[i] = "removed", !.bills[i] = {}, !.invoice = invoice]
    BY <1>1, <1>5, <2>1 DEF Outcome, Remove, Refused
  <2> QED
    BY <1>1, <1>3, <2>2 DEF Databases
<1>6. CASE r.op = "status"
  <2>1. i = r.invoice
    BY <1>2, <1>6 DEF InvoicesWritten, OnInvoice
  <2>2. r.status \in {"draft", "sent", "paid"}
    BY <1>1, <1>6 DEF Requests
  <2>3. new = [seen EXCEPT !.status[i] = r.status, !.ledger[i].reminders = @ /\ r.status # "paid"]
    BY <1>1, <1>6, <2>1 DEF Outcome, UpdateStatus, Refused
  <2> QED
    BY <1>1, <1>2, <1>3, <2>2, <2>3 DEF Databases
<1>7. CASE r.op \in {"record", "credit", "remind"}
  <2>1. i = r.invoice
    BY <1>2, <1>7 DEF InvoicesWritten, OnInvoice
  <2>2. /\ seen.status[i] \in {"draft", "sent", "paid"}
        /\ \E l : new = [seen EXCEPT !.ledger[i] = l, !.status[i] = StatusAfter(@, l)]
    BY <1>1, <1>7, <2>1 DEF Outcome, FollowThrough, Refused
  <2>3. new.status[i] \in {"draft", "sent", "paid"}
    BY <1>1, <1>3, <2>2 DEF Databases, StatusAfter
  <2> QED
    BY <1>2, <2>3
<1>8. CASE r.op \notin {"bill", "remove", "status", "record", "credit", "remind"}
  BY <1>2, <1>8 DEF InvoicesWritten, OnInvoice
<1> QED
  BY <1>4, <1>5, <1>6, <1>7, <1>8

(* What a commit changes of the time of a week and of its review.          *)
LEMMA ReviewStep ==
  ASSUME TypeOK, NEW a \in Actors, NEW new, Applied(a, new)
  PROVE  /\ Locked(db) => \A e \in Entries : db'.span[e] # db.span[e] =>
                ~Intersects(db.span[e]) /\ ~Intersects(db'.span[e])
         /\ db.sheet.week = "approved" /\ ~Locked(db') =>
                \A e \in Entries : Intersects(db.span[e]) => db.invoice[e] = None
         /\ db.sheet.revision <= db'.sheet.revision
         /\ db.sheet.revision = db'.sheet.revision => db'.sheet.week = db.sheet.week
         /\ db.sheet.week # "approved" /\ db'.sheet.week = "approved" =>
                /\ job[a].request.op = "approve" /\ job[a].request.revision = db.sheet.revision
                /\ db'.span = db.span
<1> DEFINE r == job[a].request
           seen == job[a].seen
<1>1. /\ r \in Requests /\ seen \in Databases /\ new \in Outcome(seen, r)
      /\ Transactional(r) => SameTime(seen, db) /\ SameTime(new, db')
      /\ ~Transactional(r) => SameTime(db, db')
  BY DEF Applied
<1> HIDE DEF r, seen
<1>2. db \in Databases /\ db.sheet.revision \in Nat
  BY DEF TypeOK, Databases, Sheets
<1>3. CASE ~Transactional(r)
  BY <1>1, <1>2, <1>3 DEF SameTime, Locked
<1>4. CASE r.op = "put"
  <2>1. SameTime(seen, db) /\ SameTime(new, db')
    BY <1>1, <1>4 DEF Transactional
  <2>2. new = [seen EXCEPT !.span[r.entry] = r.span] /\ new.sheet = seen.sheet
    BY <1>1, <1>4, OutcomeParts DEF Outcome, Put, Refused
  <2>3. Writable(seen, seen.span[r.entry]) /\ Writable(seen, r.span) /\ r.entry \in Entries
    BY <1>1, <1>4 DEF Outcome, Put, Refused, Requests
  <2>4. \A e \in Entries : new.span[e] = IF e = r.entry THEN r.span ELSE seen.span[e]
    BY <1>1, <2>2, <2>3 DEF Databases
  <2> QED
    BY <1>2, <2>1, <2>2, <2>3, <2>4 DEF SameTime, Locked, Writable
<1>5. CASE r.op \in {"bill", "remove", "configure"}
  <2>1. SameTime(seen, db) /\ SameTime(new, db')
    BY <1>1, <1>5 DEF Transactional
  <2>2. new.span = seen.span /\ new.sheet.revision = seen.sheet.revision /\ new.sheet.week = seen.sheet.week
    BY <1>1, <1>5, OutcomeParts
  <2> QED
    BY <1>2, <2>1, <2>2 DEF SameTime, Locked
<1>6. CASE r.op \in {"submit", "approve", "withdraw", "reject", "reopen"}
  <2>1. SameTime(seen, db) /\ SameTime(new, db')
    BY <1>1, <1>6 DEF Transactional
  <2>2. new.span = seen.span /\ new.sheet.revision = seen.sheet.revision + 1
    BY <1>1, <1>6, OutcomeParts
  <2> DEFINE week == IF r.op = "submit" THEN "submitted" ELSE IF r.op = "approve" THEN "approved"
                     ELSE IF r.op = "reject" THEN "rejected" ELSE "draft"
  <2>3. /\ new \in Acted(seen, week)
        /\ r.op = "submit" => ~Locked(seen)
        /\ r.op = "approve" => seen.sheet.revision = r.revision
        /\ r.op \in {"approve", "withdraw", "reject"} => seen.sheet.week = "submitted"
        /\ r.op = "reopen" => \A e \in Entries : Intersects(seen.span[e]) => seen.invoice[e] = None
    <3>1. CASE r.op = "submit"
      BY <1>1, <3>1 DEF Outcome, Submit, Acted, Refused
    <3>2. CASE r.op \in {"approve", "withdraw", "reject"}
      BY <1>1, <3>2 DEF Outcome, Approve, Withdraw, Reject, Act, Refused
    <3>3. CASE r.op = "reopen"
      BY <1>1, <3>3 DEF Outcome, Reopen, Act, Refused
    <3> QED
      BY <1>6, <3>1, <3>2, <3>3
  <2>4. new.sheet.week = week
    <3>1. new = [seen EXCEPT !.sheet = [seen.sheet EXCEPT !.week = week, !.revision = seen.sheet.revision + 1]]
      BY <2>3 DEF Acted
    <3>2. new.sheet = [seen.sheet EXCEPT !.week = week, !.revision = seen.sheet.revision + 1]
      BY <1>1, <3>1 DEF Databases
    <3>3. DOMAIN seen.sheet = {"week", "revision", "enabled", "required"}
      BY <1>1 DEF Databases, Sheets
    <3> QED
      BY <3>2, <3>3
  <2> HIDE DEF week
  <2>5. db'.span = db.span /\ db'.sheet.revision = db.sheet.revision + 1 /\ db'.sheet.week = week
    BY <2>1, <2>2, <2>4 DEF SameTime
  <2>6. db.sheet.week = "approved" /\ ~Locked(db') =>
          \A e \in Entries : Intersects(db.span[e]) => db.invoice[e] = None
    BY <1>6, <2>1, <2>3, <2>5 DEF SameTime, Locked, week
  <2>7. db.sheet.week # "approved" /\ db'.sheet.week = "approved" =>
          r.op = "approve" /\ r.revision = db.sheet.revision
    BY <1>6, <2>1, <2>3, <2>5 DEF SameTime, week
  <2> QED
    BY <1>2, <2>5, <2>6, <2>7 DEF r
<1> QED
  BY <1>1, <1>3, <1>4, <1>5, <1>6 DEF Requests, Transactional

(* What a commit leaves of an invoice that was sent, and of any ledger.    *)
Kept(i) ==
  /\ db.status[i] \in {"sent", "paid"} => db'.status[i] \in {"sent", "paid"} /\ db'.bills[i] = db.bills[i]
  /\ \A p \in Recorded(db.ledger[i]) : db'.ledger[i].payments[p] = db.ledger[i].payments[p]
  /\ db.ledger[i].credit => db'.ledger[i].credit
  /\ db.ledger[i].sent \subseteq db'.ledger[i].sent

(* What the ledger's operations keep of what was recorded.                 *)
LEMMA PaymentKeeps ==
  ASSUME NEW status, NEW l \in Ledgers, NEW id \in Payments, NEW new \in Records, NEW k \in AppendPayment(status, l, id, new)
  PROVE  /\ \A p \in Recorded(l) : k.payments[p] = l.payments[p]
         /\ k.credit = l.credit /\ k.sent = l.sent
<1>1. CASE k = l
  BY <1>1
<1>2. CASE k # l
  <2> DEFINE m == [l EXCEPT !.payments[id] = new, !.settled = LegacySettled(status, l)]
  <2>1. k = Settling(status, m) /\ l.payments[id] = None
    BY <1>2 DEF AppendPayment
  <2>2. m.credit = l.credit /\ m.sent = l.sent /\ m.payments = [l.payments EXCEPT ![id] = new]
    BY DEF Ledgers
  <2>3. DOMAIN m = {"total", "payments", "settled", "credit", "reminders", "sent", "claim"}
    BY DEF Ledgers
  <2> HIDE DEF m
  <2>4. k.credit = m.credit /\ k.sent = m.sent /\ k.payments = m.payments
    BY <2>1, <2>3 DEF Settling
  <2>5. \A p \in Recorded(l) : p # id /\ p \in Payments
    BY <2>1 DEF Recorded
  <2> QED
    BY <2>2, <2>4, <2>5 DEF Ledgers
<1> QED
  BY <1>1, <1>2

LEMMA CreditKeeps ==
  ASSUME NEW status, NEW l \in Ledgers, NEW k \in CreditInvoice(status, l)
  PROVE  k.payments = l.payments /\ k.credit /\ k.sent = l.sent
<1>1. DOMAIN l = {"total", "payments", "settled", "credit", "reminders", "sent", "claim"} /\ l.credit \in BOOLEAN
  BY DEF Ledgers
<1> QED
  BY <1>1 DEF CreditInvoice

LEMMA ConsentKeeps ==
  ASSUME NEW status, NEW l \in Ledgers, NEW b \in BOOLEAN, NEW k \in SetReminders(status, l, b)
  PROVE  k.payments = l.payments /\ k.credit = l.credit /\ k.sent = l.sent
<1>1. DOMAIN l = {"total", "payments", "settled", "credit", "reminders", "sent", "claim"}
  BY DEF Ledgers
<1> QED
  BY <1>1 DEF SetReminders

(* A commit keeps sent invoices and recorded entries of ledgers.           *)
LEMMA KeptStep ==
  ASSUME TypeOK, NEW a \in Actors, NEW new, Applied(a, new)
  PROVE  \A i \in Invoices : Kept(i)
<1> DEFINE r == job[a].request
           seen == job[a].seen
<1>1. /\ r \in Requests /\ seen \in Databases /\ new \in Outcome(seen, r)
      /\ InvoicesWritten(seen, r) \subseteq Invoices
      /\ \A i \in InvoicesWritten(seen, r) : SameInvoice(seen, db, i) /\ SameInvoice(new, db', i)
      /\ \A i \in Invoices \ InvoicesWritten(seen, r) : SameInvoice(db, db', i)
  BY DEF Applied
<1> HIDE DEF r, seen
<1>2. \A i \in Invoices \ InvoicesWritten(seen, r) : Kept(i)
  BY <1>1 DEF Kept, SameInvoice
<1>3. SUFFICES
        ASSUME NEW i \in InvoicesWritten(seen, r)
        PROVE  /\ seen.status[i] \in {"sent", "paid"} => new.status[i] \in {"sent", "paid"} /\ new.bills[i] = seen.bills[i]
               /\ \A p \in Recorded(seen.ledger[i]) : new.ledger[i].payments[p] = seen.ledger[i].payments[p]
               /\ seen.ledger[i].credit => new.ledger[i].credit
               /\ seen.ledger[i].sent \subseteq new.ledger[i].sent
  BY <1>1, <1>2 DEF Kept, SameInvoice
<1>4. i \in Invoices /\ seen.ledger[i] \in Ledgers
  BY <1>1 DEF Databases
<1>5. CASE r.op = "bill"
  <2>1. i = NextNumber(seen)
    BY <1>3, <1>5 DEF InvoicesWritten, OnInvoice
  <2>2. seen.status[i] = "unused"
    BY <1>1, <1>5, <2>1, Numbered DEF Outcome, Bill, Refused, Unused
  <2>3. \E bills, invoice : new = [seen EXCEPT !.status[i] = "draft", !.bills[i] = bills, !.invoice = invoice]
    BY <1>1, <1>5, <2>1 DEF Outcome, Bill, Refused
  <2>4. new.ledger = seen.ledger
    BY <1>1, <2>3 DEF Databases
  <2> QED
    BY <2>2, <2>4
<1>6. CASE r.op = "remove"
  <2>1. i = r.invoice
    BY <1>3, <1>6 DEF InvoicesWritten, OnInvoice
  <2>2. /\ seen.status[i] = "draft"
        /\ \E invoice : new = [seen EXCEPT !.status[i] = "removed", !.bills[i] = {}, !.invoice = invoice]
    BY <1>1, <1>6, <2>1 DEF Outcome, Remove, Refused
  <2>3. new.ledger = seen.ledger
    BY <1>1, <2>2 DEF Databases
  <2> QED
    BY <2>2, <2>3
<1>7. CASE r.op = "status"
  <2>1. i = r.invoice
    BY <1>3, <1>7 DEF InvoicesWritten, OnInvoice
  <2>2. <<seen.status[i], r.status>> \in Transitions
    BY <1>1, <1>7, <2>1 DEF Outcome, UpdateStatus, Refused
  <2>3. PICK on : new = [seen EXCEPT !.status[i] = r.status, !.ledger[i].reminders = on]
    BY <1>1, <1>7, <2>1 DEF Outcome, UpdateStatus, Refused
  <2>4. new.status[i] = r.status /\ new.bills = seen.bills /\ new.ledger[i] = [seen.ledger[i] EXCEPT !.reminders = on]
    BY <1>1, <1>4, <2>3 DEF Databases
  <2>5. seen.status[i] \in {"sent", "paid"} => r.status \in {"sent", "paid"}
    BY <2>2 DEF Transitions
  <2>6. DOMAIN seen.ledger[i] = {"total", "payments", "settled", "credit", "reminders", "sent", "claim"}
    BY <1>4 DEF Ledgers
  <2>7. /\ new.ledger[i].payments = seen.ledger[i].payments
        /\ new.ledger[i].credit = seen.ledger[i].credit
        /\ new.ledger[i].sent = seen.ledger[i].sent
    BY <2>4, <2>6
  <2> QED
    BY <2>4, <2>5, <2>7
<1>8. CASE r.op \in {"record", "credit", "remind"}
  <2> DEFINE ledgers == CASE r.op = "record" -> AppendPayment(seen.status[i], seen.ledger[i], r.id, r.payment)
                          [] r.op = "credit" -> CreditInvoice(seen.status[i], seen.ledger[i])
                          [] r.op = "remind" -> SetReminders(seen.status[i], seen.ledger[i], r.enabled)
  <2>1. i = r.invoice
    BY <1>3, <1>8 DEF InvoicesWritten, OnInvoice
  <2>2. PICK l \in ledgers : new = [seen EXCEPT !.ledger[i] = l, !.status[i] = StatusAfter(@, l)]
    BY <1>1, <1>8, <2>1 DEF Outcome, FollowThrough, Refused
  <2>3. /\ \A p \in Recorded(seen.ledger[i]) : l.payments[p] = seen.ledger[i].payments[p]
        /\ seen.ledger[i].credit => l.credit
        /\ seen.ledger[i].sent \subseteq l.sent
    <3>1. CASE r.op = "record"
      <4>1. r.id \in Payments /\ r.payment \in Records
        BY <1>1, <3>1 DEF Requests
      <4>2. l \in AppendPayment(seen.status[i], seen.ledger[i], r.id, r.payment)
        BY <2>2, <3>1
      <4> HIDE DEF ledgers
      <4>3. /\ \A p \in Recorded(seen.ledger[i]) : l.payments[p] = seen.ledger[i].payments[p]
            /\ l.credit = seen.ledger[i].credit /\ l.sent = seen.ledger[i].sent
        BY SMTT(30), <1>4, <4>1, <4>2, PaymentKeeps
      <4> QED
        BY <4>3
    <3>2. CASE r.op = "credit"
      <4>1. l \in CreditInvoice(seen.status[i], seen.ledger[i])
        BY <2>2, <3>2
      <4> HIDE DEF ledgers
      <4>2. l.payments = seen.ledger[i].payments /\ l.credit /\ l.sent = seen.ledger[i].sent
        BY <1>4, <4>1, CreditKeeps
      <4> QED
        BY <4>2
    <3>3. CASE r.op = "remind"
      <4>1. r.enabled \in BOOLEAN
        BY <1>1, <3>3 DEF Requests
      <4>2. l \in SetReminders(seen.status[i], seen.ledger[i], r.enabled)
        BY <2>2, <3>3
      <4> HIDE DEF ledgers
      <4> QED
        BY <1>4, <4>1, <4>2, ConsentKeeps
    <3> QED
      BY <1>8, <3>1, <3>2, <3>3
  <2> HIDE DEF ledgers
  <2>4. new.ledger[i] = l /\ new.bills = seen.bills /\ new.status[i] = StatusAfter(seen.status[i], l)
    BY <1>1, <1>4, <2>2 DEF Databases
  <2>5. seen.status[i] \in {"sent", "paid"} => new.status[i] \in {"sent", "paid"}
    BY <2>4 DEF StatusAfter
  <2> QED
    BY <2>3, <2>4, <2>5
<1>9. CASE r.op \notin {"bill", "remove", "status", "record", "credit", "remind"}
  BY <1>3, <1>9 DEF InvoicesWritten, OnInvoice
<1> QED
  BY <1>5, <1>6, <1>7, <1>8, <1>9

-----------------------------------------------------------------------------
(* The induction hypothesis holds at first.                                *)
LEMMA InitInv == Init => IInv
<1> SUFFICES ASSUME Init PROVE IInv
  OBVIOUS
<1>1. \A total \in Totals : EmptyLedger(total) \in Ledgers
  BY DEF EmptyLedger, Ledgers
<1>2. PICK enabled, required \in BOOLEAN, total \in Totals :
       db = [span |-> [e \in Entries |-> "inside"], invoice |-> [e \in Entries |-> None],
             sheet |-> [week |-> "none", revision |-> 0, enabled |-> enabled, required |-> required],
             status |-> [i \in Invoices |-> "unused"], bills |-> [i \in Invoices |-> {}],
             ledger |-> [i \in Invoices |-> EmptyLedger(total)]]
  BY DEF Init
<1>3. db \in Databases
  BY <1>1, <1>2 DEF Databases, Sheets, Spans
<1>4. TypeOK
  <2>1. job \in [Actors -> {None} \cup [request : Requests, seen : Databases, overtaken : SUBSET ({Fence} \cup Invoices)]]
    BY DEF Init
  <2>2. mailed \in [Invoices \X Stages -> 0..2]
    BY DEF Init
  <2>3. begun \in 0..MaxRequests /\ topic \in Topics /\ view = None /\ runner = None /\ day = 0 /\ crashed = FALSE
    BY BillingAssumption DEF Init
  <2> QED
    BY <1>3, <2>1, <2>2, <2>3 DEF TypeOK
<1>5. BilledAsTracked /\ UnusedInv
  BY <1>2, BillingAssumption DEF BilledAsTracked, UnusedInv, Billed
<1>6. SnapshotInv /\ ViewInv /\ ApproveInv
  BY DEF Init, SnapshotInv, ViewInv, ApproveInv
<1> QED
  BY <1>4, <1>5, <1>6 DEF IInv

(* A write of the reminder job touches one ledger.                         *)
LEMMA WriteMakes ==
  ASSUME TypeOK, NEW i \in Invoices, NEW l \in Ledgers, Write(i, l)
  PROVE  /\ db' \in Databases /\ SameTime(db, db')
         /\ db'.status = db.status /\ db'.bills = db.bills
         /\ \A j \in Invoices : db'.ledger[j] = IF j = i THEN l ELSE db.ledger[j]
<1>1. db \in Databases
  BY DEF TypeOK
<1>2. db' = [db EXCEPT !.ledger[i] = l]
  BY DEF Write
<1>3. db' \in Databases
  BY <1>1, <1>2 DEF Databases
<1>4. db'.ledger = [db.ledger EXCEPT ![i] = l] /\ db'.status = db.status /\ db'.bills = db.bills
  BY <1>1, <1>2 DEF Databases
<1>5. SameTime(db, db')
  BY <1>1, <1>2 DEF Databases, SameTime
<1> QED
  BY <1>1, <1>3, <1>4, <1>5 DEF Databases

(* What other requests learn of a write: the documents, and no more.       *)
LEMMA ToldType ==
  ASSUME TypeOK, NEW done, NEW documents \in SUBSET ({Fence} \cup Invoices)
  PROVE  /\ Told(done, documents) \in [Actors -> {None} \cup [request : Requests, seen : Databases,
                                                            overtaken : SUBSET ({Fence} \cup Invoices)]]
         /\ \A a \in Actors : Told(done, documents)[a] # None =>
              /\ job[a] # None
              /\ Told(done, documents)[a].request = job[a].request
              /\ Told(done, documents)[a].seen = job[a].seen
              /\ Told(done, documents)[a].overtaken = job[a].overtaken \cup documents
<1>1. ASSUME NEW a \in Actors, job[a] # None
      PROVE  job[a] \in [request : Requests, seen : Databases, overtaken : SUBSET ({Fence} \cup Invoices)]
  BY <1>1 DEF TypeOK
<1>2. ASSUME NEW a \in Actors, job[a] # None
      PROVE  LET j == [job[a] EXCEPT !.overtaken = @ \cup documents]
             IN  /\ j \in [request : Requests, seen : Databases, overtaken : SUBSET ({Fence} \cup Invoices)]
                 /\ j.request = job[a].request /\ j.seen = job[a].seen
                 /\ j.overtaken = job[a].overtaken \cup documents
  BY <1>1, <1>2
<1> QED
  BY <1>2 DEF Told

(* A commit writes documents.                                              *)
LEMMA WrittenType ==
  ASSUME TypeOK, NEW a \in Actors, NEW new, Applied(a, new)
  PROVE  Written(job[a].seen, job[a].request) \in SUBSET ({Fence} \cup Invoices)
  BY DEF Applied, Written, Fenced

Jobs == [request : Requests, seen : Databases, overtaken : SUBSET ({Fence} \cup Invoices)]

Runners ==
  [at : {"found", "claimed", "sending", "sent", "failed", "cancelled"},
   invoice : Invoices, stage : Stages, changed : BOOLEAN]

(* Each step keeps the types: first the ones with a request.               *)
LEMMA StartType ==
  ASSUME TypeOK, NEW a \in Actors, NEW j \in Jobs \cup {None}, job' = [job EXCEPT ![a] = j],
         UNCHANGED <<db, view, topic, mailer>>, begun' \in 0..MaxRequests
  PROVE  TypeOK'
<1>1. job' \in [Actors -> {None} \cup Jobs]
  BY DEF TypeOK, Jobs
<1> QED
  BY <1>1 DEF TypeOK, Jobs, mailer

LEMMA CommitType ==
  ASSUME TypeOK, SnapshotInv, NEW a \in Actors, Commit(a)
  PROVE  TypeOK'
<1>1. PICK new : Applied(a, new)
  BY CommitApplies
<1>2. db' \in Databases
  BY <1>1 DEF Applied
<1>3. job' \in [Actors -> {None} \cup Jobs]
  BY <1>1, WrittenType, ToldType DEF Commit, Jobs
<1>4. runner' \in {None} \cup Runners
  <2>1. CASE runner # None /\ runner' = [runner EXCEPT !.changed = TRUE]
    <3>1. runner \in Runners
      BY <2>1 DEF TypeOK, Runners
    <3> QED
      BY <2>1, <3>1 DEF Runners
  <2>2. CASE runner' = runner
    BY <2>2 DEF TypeOK, Runners
  <2> QED
    BY <2>1, <2>2 DEF Commit
<1> QED
  BY <1>2, <1>3, <1>4 DEF TypeOK, Commit, Jobs, Runners

LEMMA WriteType ==
  ASSUME TypeOK, NEW i \in Invoices, NEW l \in Ledgers, Write(i, l), runner' \in {None} \cup Runners,
         UNCHANGED <<topic, day, mailed, crashed>>
  PROVE  TypeOK'
<1>1. db' \in Databases
  BY WriteMakes
<1>2. job' \in [Actors -> {None} \cup Jobs]
  <2>1. {i} \in SUBSET ({Fence} \cup Invoices) /\ job' = Told({}, {i})
    BY DEF Write
  <2> QED
    BY <2>1, ToldType DEF Jobs
<1> QED
  BY <1>1, <1>2 DEF TypeOK, Write, Jobs, Runners

(* The writes of the job are of ledgers.                                   *)
LEMMA JobWrites ==
  ASSUME TypeOK, runner # None
  PROVE  /\ runner \in Runners /\ Ledger \in Ledgers
         /\ [Ledger EXCEPT !.claim = TRUE] \in Ledgers /\ [Ledger EXCEPT !.claim = FALSE] \in Ledgers
         /\ [Ledger EXCEPT !.claim = FALSE, !.reminders = FALSE] \in Ledgers
         /\ Mailed(Ledger, runner.stage) \in Ledgers
<1>1. runner \in Runners /\ Ledger \in Ledgers
  BY DEF TypeOK, Runners, Databases, Ledger
<1>2. [Ledger EXCEPT !.claim = TRUE] \in Ledgers /\ [Ledger EXCEPT !.claim = FALSE] \in Ledgers
  BY <1>1 DEF Ledgers
<1>3. [Ledger EXCEPT !.claim = FALSE, !.reminders = FALSE] \in Ledgers
  BY <1>1 DEF Ledgers
<1>4. Mailed(Ledger, runner.stage) \in Ledgers
  BY <1>1 DEF Ledgers, Mailed
<1> QED
  BY <1>1, <1>2, <1>3, <1>4

(* Each step keeps the types.                                              *)
LEMMA TypeStep == TypeOK /\ SnapshotInv /\ [Next]_vars => TypeOK'
<1> SUFFICES ASSUME TypeOK, SnapshotInv, [Next]_vars PROVE TypeOK'
  OBVIOUS
<1>1. ASSUME NEW a \in Actors, NEW r \in Requests, Begin(a, r) PROVE TypeOK'
  <2>1. Job(r) \in Jobs
    BY DEF Job, Jobs, TypeOK
  <2>2. begun' \in 0..MaxRequests
    BY <1>1, BillingAssumption DEF Begin, TypeOK
  <2> QED
    BY <1>1, <2>1, <2>2, StartType DEF Begin
<1>2. ASSUME NEW a \in Actors, Commit(a) PROVE TypeOK'
  BY <1>2, CommitType
<1>3. ASSUME NEW a \in Actors, StartOver(a) PROVE TypeOK'
  <2>1. job[a].request \in Requests
    BY <1>3 DEF StartOver, TypeOK
  <2>2. Job(job[a].request) \in Jobs
    BY <2>1 DEF Job, Jobs, TypeOK
  <2>3. \E j \in Jobs \cup {None} : job' = [job EXCEPT ![a] = j]
    BY <1>3, <2>2 DEF StartOver
  <2>4. begun' \in 0..MaxRequests /\ UNCHANGED <<db, view, topic, mailer>>
    BY <1>3 DEF StartOver, TypeOK
  <2> QED
    BY <2>3, <2>4, StartType
<1>4. CASE LookAtRow
  <2>1. db.sheet.revision \in Nat
    BY DEF TypeOK, Databases, Sheets
  <2> QED
    BY <1>4, <2>1 DEF LookAtRow, TypeOK, mailer
<1>5. CASE LookAtTotal
  <2>1. db.span \in [Entries -> Spans \cup {Absent}]
    BY DEF TypeOK, Databases
  <2>2. view \in [revision : Nat, time : {None} \cup [Entries -> Spans \cup {Absent}]]
    BY <1>5 DEF LookAtTotal, TypeOK
  <2>3. view' \in [revision : Nat, time : {None} \cup [Entries -> Spans \cup {Absent}]]
    BY <1>5, <2>1, <2>2 DEF LookAtTotal
  <2> QED
    BY <1>5, <2>3 DEF LookAtTotal, TypeOK, mailer
<1>6. CASE NextDay
  BY <1>6 DEF NextDay, TypeOK, people
<1>7. ASSUME NEW i \in Invoices, Find(i) PROVE TypeOK'
  <2>1. runner' \in Runners
    BY <1>7 DEF Find, DueNow, Due, Runners, TypeOK
  <2> QED
    BY <1>7, <2>1 DEF Find, TypeOK, Runners, people
<1>8. CASE Claim
  <2>1. CASE runner.changed
    BY <1>8, <2>1 DEF Claim, TypeOK, people
  <2>2. CASE ~runner.changed
    <3>1. runner \in Runners /\ [Ledger EXCEPT !.claim = TRUE] \in Ledgers
      BY <1>8, JobWrites DEF Claim
    <3>2. runner.invoice \in Invoices /\ runner' \in Runners
      BY <1>8, <2>2, <3>1 DEF Claim, Runners
    <3> QED
      BY <1>8, <2>2, <3>1, <3>2, WriteType DEF Claim
  <2> QED
    BY <2>1, <2>2
<1>9. CASE Recheck
  <2>1. runner' \in Runners
    BY <1>9, JobWrites DEF Recheck, Runners
  <2> QED
    BY <1>9, <2>1 DEF Recheck, TypeOK, Runners, people
<1>10. CASE Send
  <2>1. runner \in Runners
    BY <1>10, JobWrites DEF Send
  <2>2. runner' \in Runners
    BY <1>10, <2>1 DEF Send, Runners
  <2>3. mailed' \in [Invoices \X Stages -> 0..2]
    BY <1>10, <2>1 DEF Send, Runners, TypeOK
  <2> QED
    BY <1>10, <2>2, <2>3 DEF Send, TypeOK, Runners, people
<1>11. CASE Record
  <2>1. CASE UNCHANGED people
    BY <1>11, <2>1 DEF Record, TypeOK, people
  <2>2. CASE ~UNCHANGED people
    <3>1. runner.invoice \in Invoices
      BY <1>11, JobWrites DEF Record, Runners
    <3>2. \E l \in Ledgers : Write(runner.invoice, l)
      BY <1>11, <2>2, JobWrites DEF Record
    <3> QED
      BY <1>11, <3>1, <3>2, WriteType DEF Record
  <2> QED
    BY <2>1, <2>2
<1>12. CASE Release
  <2>1. CASE UNCHANGED people
    BY <1>12, <2>1 DEF Release, TypeOK, people
  <2>2. CASE ~UNCHANGED people
    <3>1. runner.invoice \in Invoices
      BY <1>12, JobWrites DEF Release, Runners
    <3>2. \E l \in Ledgers : Write(runner.invoice, l)
      BY <1>12, <2>2, JobWrites DEF Release
    <3> QED
      BY <1>12, <3>1, <3>2, WriteType DEF Release
  <2> QED
    BY <2>1, <2>2
<1>13. CASE Crash
  BY <1>13 DEF Crash, TypeOK, people
<1>14. CASE UNCHANGED vars
  BY <1>14 DEF vars, people, mailer, TypeOK
<1> QED
  BY <1>1, <1>2, <1>3, <1>4, <1>5, <1>6, <1>7, <1>8, <1>9, <1>10, <1>11, <1>12, <1>13, <1>14 DEF Next

-----------------------------------------------------------------------------
LEMMA ToldNext ==
  ASSUME TypeOK, NEW done, NEW documents \in SUBSET ({Fence} \cup Invoices), job' = Told(done, documents)
  PROVE  \A a \in Actors : job'[a] # None =>
           /\ job[a] # None /\ job'[a].request = job[a].request /\ job'[a].seen = job[a].seen
           /\ job'[a].overtaken = job[a].overtaken \cup documents
BY ToldType

(* A write of the reminder job keeps what is recorded.                     *)
Writes(i, l) ==
  /\ i \in Invoices /\ l \in Ledgers /\ Write(i, l)
  /\ l.payments = db.ledger[i].payments /\ l.credit = db.ledger[i].credit
  /\ db.ledger[i].sent \subseteq l.sent
  /\ l.settled = db.ledger[i].settled /\ (l.reminders => db.ledger[i].reminders)
  /\ l.total = db.ledger[i].total

(* Each part of the hypothesis, by what the step does.                     *)
LEMMA WriteInv ==
  ASSUME IInv, NEW i, NEW l, Writes(i, l)
  PROVE  (SnapshotInv /\ BilledAsTracked /\ UnusedInv /\ ViewInv /\ ApproveInv)'
<1>1. i \in Invoices /\ l \in Ledgers /\ Write(i, l) /\ TypeOK
  BY DEF Writes, IInv
<1>2. /\ SameTime(db, db') /\ db'.status = db.status /\ db'.bills = db.bills
      /\ \A j \in Invoices : db'.ledger[j] = IF j = i THEN l ELSE db.ledger[j]
  BY <1>1, WriteMakes
<1>3. job' = Told({}, {i}) /\ view' = view /\ {i} \in SUBSET ({Fence} \cup Invoices)
  BY <1>1 DEF Write
<1>4. \A a \in Actors : job'[a] # None =>
        /\ job[a] # None /\ job'[a].request = job[a].request /\ job'[a].seen = job[a].seen
        /\ job'[a].overtaken = job[a].overtaken \cup {i}
  BY <1>1, <1>3, ToldNext, Zenon
<1>5. SnapshotInv'
  BY <1>2, <1>4 DEF IInv, SnapshotInv, SameTime, SameInvoice
<1>6. BilledAsTracked' /\ UnusedInv'
  BY <1>2 DEF IInv, BilledAsTracked, UnusedInv, Billed, SameTime
<1>7. ViewInv'
  BY <1>2, <1>3 DEF IInv, ViewInv, AsSeen, SameTime
<1>8. ApproveInv'
  BY <1>3, <1>4 DEF IInv, ApproveInv
<1> QED
  BY <1>5, <1>6, <1>7, <1>8

LEMMA StartInv ==
  ASSUME IInv, NEW a \in Actors, UNCHANGED <<db, view>>,
         NEW j, job' = [job EXCEPT ![a] = j],
         j # None => \E r : /\ j = Job(r)
                            /\ r.op = "approve" => /\ view # None /\ view.time # None
                                                   /\ view.revision = r.revision
  PROVE  (SnapshotInv /\ BilledAsTracked /\ UnusedInv /\ ViewInv /\ ApproveInv)'
<1>1. BilledAsTracked' /\ UnusedInv' /\ ViewInv'
  BY DEF IInv, BilledAsTracked, UnusedInv, ViewInv, Billed, AsSeen
<1>2. \A b \in Actors : job'[b] = IF b = a THEN j ELSE job[b]
  BY DEF IInv, TypeOK
<1>3. j # None => j.seen = db /\ j.overtaken = {}
  BY DEF Job
<1>4. SnapshotInv'
  BY <1>2, <1>3 DEF IInv, SnapshotInv, SameTime, SameInvoice
<1>5. j # None /\ j.request.op = "approve" => view # None /\ view.time # None /\ view.revision = j.request.revision
  BY DEF Job
<1>6. ApproveInv'
  BY <1>2, <1>5 DEF IInv, ApproveInv
<1> QED
  BY <1>1, <1>4, <1>6

LEMMA CommitInv ==
  ASSUME IInv, NEW a \in Actors, Commit(a)
  PROVE  (SnapshotInv /\ BilledAsTracked /\ UnusedInv /\ ViewInv /\ ApproveInv)'
<1> DEFINE r == job[a].request
           seen == job[a].seen
<1>1. TypeOK /\ SnapshotInv
  BY DEF IInv
<1>2. PICK new : Applied(a, new)
  BY <1>1, CommitApplies
<1>3. BilledAsTracked' /\ UnusedInv'
  BY <1>2, BilledStep, UnusedStep DEF IInv
<1>4. job' = Told({a}, Written(seen, r)) /\ view' = view
  BY DEF Commit
<1>5. \A b \in Actors : job'[b] # None =>
        /\ job[b] # None /\ job'[b].request = job[b].request /\ job'[b].seen = job[b].seen
        /\ job'[b].overtaken = job[b].overtaken \cup Written(seen, r)
  <2>1. Written(seen, r) \in SUBSET ({Fence} \cup Invoices)
    BY <1>1, <1>2, WrittenType
  <2> HIDE DEF r, seen
  <2> QED
    BY <1>1, <1>4, <2>1, ToldNext, Zenon
<1>6. ApproveInv'
  BY <1>4, <1>5 DEF IInv, ApproveInv
<1>7. SnapshotInv'
  <2>1. Fence \notin Written(seen, r) => SameTime(db, db')
    BY <1>2 DEF Applied, Written, Fenced
  <2>2. \A i \in Invoices \ Written(seen, r) : SameInvoice(db, db', i)
    BY <1>2 DEF Applied, Written
  <2> HIDE DEF r, seen
  <2> QED
    BY <1>1, <1>5, <2>1, <2>2 DEF SnapshotInv, SameTime, SameInvoice
<1>8. ViewInv'
  <2>1. /\ Locked(db) => \A e \in Entries : db'.span[e] # db.span[e] =>
                ~Intersects(db.span[e]) /\ ~Intersects(db'.span[e])
        /\ db.sheet.revision <= db'.sheet.revision
        /\ db.sheet.revision = db'.sheet.revision => db'.sheet.week = db.sheet.week
    BY <1>1, <1>2, ReviewStep
  <2>2. db.sheet.revision \in Nat /\ db'.sheet.revision \in Nat
    BY <1>1, <1>2 DEF TypeOK, Applied, Databases, Sheets
  <2>3. view # None => view.revision \in Nat
    BY <1>1 DEF TypeOK
  <2>4. SUFFICES ASSUME view # None, view.revision = db'.sheet.revision
                 PROVE  /\ db'.sheet.week = "submitted"
                        /\ view.time # None => AsSeen(view.time)'
    BY <1>4, <2>1, <2>2, <2>3 DEF IInv, ViewInv, AsSeen
  <2>5. /\ db.sheet.week = "submitted" /\ db'.sheet.week = "submitted"
        /\ view.time # None => AsSeen(view.time)
    BY <2>1, <2>2, <2>3, <2>4 DEF IInv, ViewInv
  <2> QED
    BY <1>4, <2>1, <2>5 DEF AsSeen, Locked
<1> QED
  BY <1>3, <1>6, <1>7, <1>8

(* The reminder job writes a ledger or nothing.                            *)
LEMMA JobSteps ==
  ASSUME IInv, Claim \/ Record \/ Release
  PROVE  (\E i, l : Writes(i, l)) \/ UNCHANGED <<db, job, view>>
<1>1. TypeOK
  BY DEF IInv
<1>2. SUFFICES ASSUME ~UNCHANGED people
               PROVE  \E i, l : Writes(i, l)
  BY DEF people
<1>3. runner # None
  BY DEF Claim, Record, Release
<1>4. runner \in Runners /\ Ledger \in Ledgers /\ runner.invoice \in Invoices
  BY <1>1, <1>3, JobWrites DEF Runners
<1>5. DOMAIN Ledger = {"total", "payments", "settled", "credit", "reminders", "sent", "claim"}
  BY <1>4 DEF Ledgers
<1>6. CASE Claim
  <2> DEFINE l == [Ledger EXCEPT !.claim = TRUE]
  <2>1. Write(runner.invoice, l)
    BY <1>2, <1>6 DEF Claim
  <2>2. l \in Ledgers
    BY <1>1, <1>3, JobWrites
  <2>3. /\ l.payments = Ledger.payments /\ l.credit = Ledger.credit /\ l.sent = Ledger.sent
        /\ l.settled = Ledger.settled /\ l.reminders = Ledger.reminders /\ l.total = Ledger.total
    BY <1>5
  <2> HIDE DEF l
  <2> QED
    BY <1>4, <2>1, <2>2, <2>3 DEF Writes, Ledger
<1>7. CASE Release
  <2> DEFINE l == [Ledger EXCEPT !.claim = FALSE]
  <2>1. Write(runner.invoice, l)
    BY <1>2, <1>7 DEF Release
  <2>2. l \in Ledgers
    BY <1>1, <1>3, JobWrites
  <2>3. /\ l.payments = Ledger.payments /\ l.credit = Ledger.credit /\ l.sent = Ledger.sent
        /\ l.settled = Ledger.settled /\ l.reminders = Ledger.reminders /\ l.total = Ledger.total
    BY <1>5
  <2> HIDE DEF l
  <2> QED
    BY <1>4, <2>1, <2>2, <2>3 DEF Writes, Ledger
<1>8. CASE Record
  <2>1. PICK l \in {Mailed(Ledger, runner.stage), [Ledger EXCEPT !.claim = FALSE],
                    [Ledger EXCEPT !.claim = FALSE, !.reminders = FALSE]} : Write(runner.invoice, l)
    BY <1>2, <1>8 DEF Record
  <2>2. l \in Ledgers
    BY <1>1, <1>3, <2>1, JobWrites
  <2>3. /\ l.payments = Ledger.payments /\ l.credit = Ledger.credit /\ Ledger.sent \subseteq l.sent
        /\ l.settled = Ledger.settled /\ (l.reminders => Ledger.reminders) /\ l.total = Ledger.total
    BY <1>5, <2>1 DEF Mailed
  <2> QED
    BY <1>4, <2>1, <2>2, <2>3 DEF Writes, Ledger
<1> QED
  BY <1>6, <1>7, <1>8

(* What a step does to the database: it commits a request, writes a        *)
(* ledger, or leaves it alone.                                             *)
LEMMA Steps ==
  ASSUME IInv, [Next]_vars
  PROVE  \/ \E a \in Actors : Commit(a)
         \/ \E i, l : Writes(i, l)
         \/ UNCHANGED db
<1>1. CASE Claim \/ Record \/ Release
  BY <1>1, JobSteps
<1> QED
  BY <1>1 DEF Next, vars, Begin, StartOver, LookAtRow, LookAtTotal, NextDay, Find, Recheck, Send, Crash, people

(* The induction hypothesis is kept by every step.                         *)
LEMMA InvStep == IInv /\ [Next]_vars => IInv'
<1> SUFFICES ASSUME IInv, [Next]_vars PROVE IInv'
  OBVIOUS
<1>1. TypeOK'
  BY TypeStep DEF IInv
<1>2. SUFFICES (SnapshotInv /\ BilledAsTracked /\ UnusedInv /\ ViewInv /\ ApproveInv)'
  BY <1>1 DEF IInv
<1>3. CASE \E a \in Actors : Commit(a)
  BY <1>3, CommitInv
<1>4. CASE \E i, l : Writes(i, l)
  BY <1>4, WriteInv
<1>5. CASE UNCHANGED <<db, job, view>>
  BY <1>5 DEF IInv, SnapshotInv, BilledAsTracked, UnusedInv, ViewInv, ApproveInv, Billed, AsSeen
<1>6. CASE \E a \in Actors, r \in Requests : Begin(a, r)
  <2>1. PICK a \in Actors, r \in Requests : Begin(a, r)
    BY <1>6
  <2>2. UNCHANGED <<db, view>> /\ job' = [job EXCEPT ![a] = Job(r)]
    BY <2>1 DEF Begin
  <2>3. r.op = "approve" => view # None /\ view.time # None /\ view.revision = r.revision
    BY <2>1 DEF Begin
  <2> QED
    BY <2>2, <2>3, StartInv
<1>7. CASE \E a \in Actors : StartOver(a)
  <2>1. PICK a \in Actors : StartOver(a)
    BY <1>7
  <2> DEFINE r == job[a].request
  <2>2. /\ UNCHANGED <<db, view>> /\ job[a] # None
        /\ job' = [job EXCEPT ![a] = Job(r)] \/ job' = [job EXCEPT ![a] = None]
    BY <2>1 DEF StartOver
  <2>3. r.op = "approve" => view # None /\ view.time # None /\ view.revision = r.revision
    BY <2>2 DEF IInv, ApproveInv
  <2> HIDE DEF r
  <2>4. CASE job' = [job EXCEPT ![a] = Job(r)]
    BY <2>2, <2>3, <2>4, StartInv
  <2>5. CASE job' = [job EXCEPT ![a] = None]
    BY <2>2, <2>5, StartInv
  <2> QED
    BY <2>2, <2>4, <2>5
<1>8. CASE LookAtRow
  <2>1. /\ UNCHANGED <<db, job>> /\ db.sheet.week = "submitted"
        /\ view' = [revision |-> db.sheet.revision, time |-> None]
        /\ \A a \in Actors : job[a] # None => job[a].request.op # "approve"
    BY <1>8 DEF LookAtRow
  <2>2. db.sheet.revision \in Nat
    BY DEF IInv, TypeOK, Databases, Sheets
  <2>3. ViewInv'
    BY <2>1, <2>2 DEF ViewInv
  <2>4. ApproveInv'
    BY <2>1 DEF ApproveInv
  <2> QED
    BY <2>1, <2>3, <2>4 DEF IInv, SnapshotInv, BilledAsTracked, UnusedInv, Billed
<1>9. CASE LookAtTotal
  <2>1. /\ UNCHANGED <<db, job>> /\ view # None /\ view.time = None
        /\ view' = [view EXCEPT !.time = db.span]
    BY <1>9 DEF LookAtTotal
  <2>2. view \in [revision : Nat, time : {None} \cup [Entries -> Spans \cup {Absent}]]
    BY <2>1 DEF IInv, TypeOK
  <2>3. view'.revision = view.revision /\ view'.time = db.span
    BY <2>1, <2>2
  <2>4. ViewInv'
    BY <2>1, <2>3 DEF IInv, ViewInv, AsSeen
  <2>5. ApproveInv'
    BY <2>1 DEF IInv, ApproveInv
  <2> QED
    BY <2>1, <2>4, <2>5 DEF IInv, SnapshotInv, BilledAsTracked, UnusedInv, Billed
<1>10. \/ UNCHANGED <<db, job, view>> \/ LookAtRow \/ LookAtTotal
       \/ \E a \in Actors : Commit(a) \/ StartOver(a) \/ \E r \in Requests : Begin(a, r)
       \/ \E i, l : Writes(i, l)
  <2>1. CASE Claim \/ Record \/ Release
    BY <2>1, JobSteps
  <2> QED
    BY <2>1 DEF Next, vars, people, NextDay, Find, Recheck, Send, Crash
<1> QED
  BY <1>3, <1>4, <1>5, <1>6, <1>7, <1>8, <1>9, <1>10

LEMMA Invariance == Spec => []IInv
BY InitInv, InvStep, PTL DEF Spec

-----------------------------------------------------------------------------
(* Every state is of the types declared: numbers, revisions and amounts    *)
(* among them, whatever requests are run again after whichever others.     *)
THEOREM TypeCorrect == Spec => []TypeOK
<1>1. IInv => TypeOK
  BY DEF IInv
<1> QED
  BY <1>1, Invariance, PTL

(* An invoice bills exactly the entries that carry its number, at the      *)
(* spans they have: edits, creations and removals exclude each other on    *)
(* the workspace's fence.                                                  *)
THEOREM InvoicesMatch == Spec => []BilledAsTracked
<1>1. IInv => BilledAsTracked
  BY DEF IInv
<1> QED
  BY <1>1, Invariance, PTL

(* What every commit does, from the lemmas of the sections above.          *)
LEMMA CommitSteps ==
  ASSUME IInv, NEW a \in Actors, Commit(a)
  PROVE  \E new : Applied(a, new)
BY CommitApplies DEF IInv

(* The time of a submitted or approved week stands, and an approved week   *)
(* is opened only while none of it is billed.                              *)
THEOREM Review == Spec => ReviewHolds
<1> DEFINE Holds == Locked(db) =>
              /\ \A e \in Entries : db'.span[e] # db.span[e] =>
                   ~Intersects(db.span[e]) /\ ~Intersects(db'.span[e])
              /\ db.sheet.week = "approved" /\ ~Locked(db)' =>
                   \A e \in Entries : Intersects(db.span[e]) => db.invoice[e] = None
<1>1. IInv /\ [Next]_vars => [Holds]_vars
  <2> SUFFICES ASSUME IInv, [Next]_vars PROVE Holds
    OBVIOUS
  <2>1. CASE \E a \in Actors : Commit(a)
    <3>1. PICK a \in Actors : \E new : Applied(a, new)
      BY <2>1, CommitSteps
    <3>2. PICK new : Applied(a, new)
      BY <3>1
    <3> QED
      BY <3>2, ReviewStep DEF IInv, Locked
  <2>2. CASE \E i, l : Writes(i, l)
    <3>1. SameTime(db, db')
      BY <2>2, WriteMakes DEF Writes, IInv
    <3> QED
      BY <3>1 DEF SameTime, Locked
  <2>3. CASE UNCHANGED db
    BY <2>3 DEF Locked
  <2> QED
    BY <2>1, <2>2, <2>3, Steps
<1> QED
  BY <1>1, Invariance, PTL DEF Spec, ReviewHolds

(* What is approved is the time the reviewer's total was computed from:    *)
(* the revision sent with the approval is the record's, and no time of a   *)
(* submitted week has changed since.                                       *)
THEOREM Approved == Spec => ApprovedAsSeen
<1> DEFINE Seen == db.sheet.week # "approved" /\ db'.sheet.week = "approved" =>
              \A e \in Entries : db.span[e] # view.time[e] =>
                ~Intersects(db.span[e]) /\ ~Intersects(view.time[e])
<1>1. IInv /\ [Next]_vars => [Seen]_vars
  <2> SUFFICES ASSUME IInv, [Next]_vars, db.sheet.week # "approved", db'.sheet.week = "approved"
               PROVE  AsSeen(view.time)
    BY DEF AsSeen
  <2>1. CASE \E a \in Actors : Commit(a)
    <3>1. PICK a \in Actors : Commit(a)
      BY <2>1
    <3>2. PICK new : Applied(a, new)
      BY <3>1, CommitSteps
    <3>3. job[a].request.op = "approve" /\ job[a].request.revision = db.sheet.revision
      BY <3>2, ReviewStep DEF IInv
    <3>4. job[a] # None
      BY <3>1 DEF Commit
    <3>5. view # None /\ view.time # None /\ view.revision = db.sheet.revision
      BY <3>3, <3>4 DEF IInv, ApproveInv
    <3> QED
      BY <3>5 DEF IInv, ViewInv
  <2>2. CASE \E i, l : Writes(i, l)
    <3>1. SameTime(db, db')
      BY <2>2, WriteMakes DEF Writes, IInv
    <3> QED
      BY <3>1 DEF SameTime
  <2> QED
    BY <2>1, <2>2, Steps
<1> QED
  BY <1>1, Invariance, PTL DEF Spec, ApprovedAsSeen

(* Every step keeps sent invoices and recorded entries of ledgers.         *)
LEMMA KeptAlways ==
  ASSUME IInv, [Next]_vars
  PROVE  \A i \in Invoices : Kept(i)
<1>1. CASE \E a \in Actors : Commit(a)
  <2>1. PICK a \in Actors : \E new : Applied(a, new)
    BY <1>1, CommitSteps
  <2>2. PICK new : Applied(a, new)
    BY <2>1
  <2> QED
    BY <2>2, KeptStep DEF IInv
<1>2. CASE \E i, l : Writes(i, l)
  <2>1. PICK i, l : Writes(i, l)
    BY <1>2
  <2>2. /\ db'.status = db.status /\ db'.bills = db.bills
        /\ \A j \in Invoices : db'.ledger[j] = IF j = i THEN l ELSE db.ledger[j]
    BY <2>1, WriteMakes DEF Writes, IInv
  <2>3. /\ l.payments = db.ledger[i].payments /\ l.credit = db.ledger[i].credit
        /\ db.ledger[i].sent \subseteq l.sent
    BY <2>1 DEF Writes
  <2> QED
    BY <2>2, <2>3 DEF Kept
<1>3. CASE UNCHANGED db
  BY <1>3 DEF Kept
<1> QED
  BY <1>1, <1>2, <1>3, Steps

(* An invoice that was sent is not taken back, and goes on billing the     *)
(* same time.                                                              *)
THEOREM Sent == Spec => SentStays
<1> DEFINE Stays == \A i \in Invoices : db.status[i] \in {"sent", "paid"} =>
              db'.status[i] \in {"sent", "paid"} /\ db'.bills[i] = db.bills[i]
<1>1. IInv /\ [Next]_vars => [Stays]_vars
  BY KeptAlways DEF Kept
<1> QED
  BY <1>1, Invariance, PTL DEF Spec, SentStays

(* What is recorded in an invoice's ledger stays, though every writer      *)
(* writes the whole ledger it made of what it had read.                    *)
THEOREM LedgerKept == Spec => LedgerStands
<1> DEFINE Stands ==
      \A i \in Invoices :
        /\ \A p \in Recorded(db.ledger[i]) : db'.ledger[i].payments[p] = db.ledger[i].payments[p]
        /\ db.ledger[i].credit => db'.ledger[i].credit
        /\ db.ledger[i].sent \subseteq db'.ledger[i].sent
<1>1. IInv /\ [Next]_vars => [Stands]_vars
  BY KeptAlways DEF Kept
<1> QED
  BY <1>1, Invariance, PTL DEF Spec, LedgerStands

-----------------------------------------------------------------------------
(* Sums over payments.                                                     *)

(* A family of finite sets has a member with no member below it.           *)
LEMMA Least ==
  ASSUME NEW S, IsFiniteSet(S), NEW Family \in SUBSET SUBSET S, Family # {}
  PROVE  \E s \in Family : \A t \in Family : t \subseteq s => t = s
<1> DEFINE Sizes == {Cardinality(s) : s \in Family}
<1>1. \A s \in Family : IsFiniteSet(s) /\ Cardinality(s) \in Nat
  BY FS_Subset, FS_CardinalityType
<1>2. Sizes \in SUBSET Nat /\ Sizes # {}
  BY <1>1
<1>3. PICK n \in Sizes : \A m \in Sizes : n <= m
  <2> HIDE DEF Sizes
  <2> QED
    BY <1>2, Smallest
<1>4. PICK s \in Family : Cardinality(s) = n
  BY <1>3
<1>5. ASSUME NEW t \in Family, t \subseteq s PROVE t = s
  <2>1. Cardinality(t) <= Cardinality(s) /\ (Cardinality(s) = Cardinality(t) => s = t)
    BY <1>1, <1>5, FS_Subset
  <2>2. Cardinality(s) <= Cardinality(t)
    BY <1>3, <1>4
  <2> QED
    BY <1>1, <2>1, <2>2
<1> QED
  BY <1>5

(* What a payment adds to what is paid, and the sum of a set of them as    *)
(* the model computes it: a function on the subsets, one payment at a time.*)
Worth(l, p) == IF Increases(l, p) THEN l.payments[p].amount ELSE -l.payments[p].amount
First(s) == CHOOSE p \in s : TRUE
Adds(l, S, h) == h = [s \in SUBSET S |-> IF s = {} THEN 0 ELSE Worth(l, First(s)) + h[s \ {First(s)}]]
Adding(l, S) == CHOOSE h : Adds(l, S, h)
Sum(l, S) == Adding(l, S)[S]

LEMMA PaidSum ==
  ASSUME NEW status, NEW l
  PROVE  Paid(status, l) = (IF LegacySettled(status, l) THEN l.total ELSE 0) + Sum(l, Recorded(l))
BY DEF Paid, MapThenSumSet, MapThenFoldSet, Sum, Adding, Adds, Worth, First

LEMMA FirstIn ==
  ASSUME NEW s, s # {}
  PROVE  First(s) \in s
BY DEF First

(* There is but one such function, and it is the same for ledgers that     *)
(* agree on what the payments are worth.                                   *)
LEMMA AddsAgree ==
  ASSUME NEW S, IsFiniteSet(S), NEW l, NEW k, \A p \in S : Worth(l, p) = Worth(k, p),
         NEW T, S \subseteq T, NEW U, S \subseteq U,
         NEW f, Adds(l, T, f), NEW g, Adds(k, U, g)
  PROVE  f[S] = g[S]
<1> DEFINE Differ == {s \in SUBSET S : f[s] # g[s]}
<1>1. SUFFICES ASSUME Differ # {} PROVE FALSE
  OBVIOUS
<1>2. PICK s \in Differ : \A t \in Differ : t \subseteq s => t = s
  <2> HIDE DEF Differ
  <2>1. Differ \in SUBSET SUBSET S
    BY DEF Differ
  <2> QED
    BY <1>1, <2>1, Least
<1>3. s \in SUBSET S /\ s \in SUBSET T /\ s \in SUBSET U /\ f[s] # g[s]
  BY <1>2
<1>4. /\ f[s] = IF s = {} THEN 0 ELSE Worth(l, First(s)) + f[s \ {First(s)}]
      /\ g[s] = IF s = {} THEN 0 ELSE Worth(k, First(s)) + g[s \ {First(s)}]
  BY <1>3 DEF Adds
<1>5. s # {}
  BY <1>3, <1>4
<1>6. First(s) \in s
  BY <1>5, FirstIn
<1>7. f[s \ {First(s)}] = g[s \ {First(s)}]
  BY <1>2, <1>3, <1>6
<1>8. Worth(l, First(s)) = Worth(k, First(s))
  BY <1>3, <1>6
<1> QED
  BY <1>3, <1>4, <1>5, <1>7, <1>8

(* And there is one.                                                       *)
LEMMA AddsExist ==
  ASSUME NEW l, NEW S, IsFiniteSet(S)
  PROVE  Adds(l, S, Adding(l, S))
<1> DEFINE Without == {s \in SUBSET S : ~Adds(l, s, Adding(l, s))}
<1>1. SUFFICES ASSUME Without # {} PROVE FALSE
  BY DEF Adding
<1>2. PICK s \in Without : \A t \in Without : t \subseteq s => t = s
  <2> HIDE DEF Without
  <2>1. Without \in SUBSET SUBSET S
    BY DEF Without
  <2> QED
    BY <1>1, <2>1, Least
<1>3. s \in SUBSET S /\ ~Adds(l, s, Adding(l, s))
  BY <1>2
<1>4. \A t \in SUBSET s : t # s => Adds(l, t, Adding(l, t))
  BY <1>2
<1> HIDE DEF Without
<1> DEFINE rest(t) == t \ {First(t)}
           h == [t \in SUBSET s |-> IF t = {} THEN 0 ELSE Worth(l, First(t)) + Adding(l, rest(t))[rest(t)]]
<1>5. \A t \in SUBSET s : t # {} => rest(t) \in SUBSET s /\ rest(t) # s /\ rest(t) # t
  BY FirstIn
<1>6. \A t \in SUBSET s : t # s => Adding(l, t)[t] = h[t]
  <2> SUFFICES ASSUME NEW t \in SUBSET s, t # s PROVE Adding(l, t)[t] = h[t]
    OBVIOUS
  <2>1. Adds(l, t, Adding(l, t))
    BY <1>4
  <2>2. Adding(l, t)[t] = IF t = {} THEN 0 ELSE Worth(l, First(t)) + Adding(l, t)[rest(t)]
    BY <2>1 DEF Adds
  <2>3. t # {} => Adding(l, t)[rest(t)] = Adding(l, rest(t))[rest(t)]
    <3> SUFFICES ASSUME t # {} PROVE Adding(l, t)[rest(t)] = Adding(l, rest(t))[rest(t)]
      OBVIOUS
    <3>1. Adds(l, rest(t), Adding(l, rest(t)))
      BY <1>4, <1>5
    <3>2. IsFiniteSet(rest(t)) /\ rest(t) \subseteq t
      BY <1>3, FS_Subset
    <3> HIDE DEF rest
    <3> QED
      BY <2>1, <3>1, <3>2, AddsAgree
  <2> QED
    BY <2>2, <2>3
<1>7. Adds(l, s, h)
  <2>1. \A t \in SUBSET s : h[t] = IF t = {} THEN 0 ELSE Worth(l, First(t)) + h[t \ {First(t)}]
    <3> SUFFICES ASSUME NEW t \in SUBSET s PROVE h[t] = IF t = {} THEN 0 ELSE Worth(l, First(t)) + h[rest(t)]
      OBVIOUS
    <3>1. h[t] = IF t = {} THEN 0 ELSE Worth(l, First(t)) + Adding(l, rest(t))[rest(t)]
      OBVIOUS
    <3>2. t # {} => Adding(l, rest(t))[rest(t)] = h[rest(t)]
      <4> HIDE DEF h, rest
      <4> QED
        BY <1>5, <1>6
    <3> HIDE DEF h, rest
    <3> QED
      BY <3>1, <3>2
  <2>2. h = [t \in SUBSET s |-> h[t]]
    OBVIOUS
  <2> HIDE DEF h
  <2>3. [t \in SUBSET s |-> h[t]] = [t \in SUBSET s |-> IF t = {} THEN 0 ELSE Worth(l, First(t)) + h[t \ {First(t)}]]
    BY <2>1
  <2> QED
    BY <2>2, <2>3 DEF Adds
<1> HIDE DEF h
<1> QED
  BY <1>3, <1>7 DEF Adding

LEMMA SumAgrees ==
  ASSUME NEW S, IsFiniteSet(S), NEW l, NEW k, \A p \in S : Worth(l, p) = Worth(k, p)
  PROVE  Sum(l, S) = Sum(k, S)
BY AddsExist, AddsAgree DEF Sum

(* The sum of a part of a set is what the function on the set says it is.  *)
LEMMA SumPart ==
  ASSUME NEW l, NEW S, IsFiniteSet(S), NEW s \in SUBSET S
  PROVE  /\ Sum(l, s) = Adding(l, S)[s]
         /\ Sum(l, s) = IF s = {} THEN 0 ELSE Worth(l, First(s)) + Sum(l, s \ {First(s)})
<1>1. Adds(l, S, Adding(l, S))
  BY AddsExist
<1>2. ASSUME NEW t \in SUBSET S PROVE Sum(l, t) = Adding(l, S)[t]
  <2>1. IsFiniteSet(t)
    BY FS_Subset
  <2>2. Adds(l, t, Adding(l, t))
    BY <2>1, AddsExist
  <2> QED
    BY <1>1, <2>1, <2>2, AddsAgree DEF Sum
<1>3. Adding(l, S)[s] = IF s = {} THEN 0 ELSE Worth(l, First(s)) + Adding(l, S)[s \ {First(s)}]
  BY <1>1 DEF Adds
<1>4. s \ {First(s)} \in SUBSET S
  OBVIOUS
<1> QED
  BY <1>2, <1>3, <1>4

LEMMA SumType ==
  ASSUME NEW l, NEW S, IsFiniteSet(S), \A p \in S : Worth(l, p) \in Int
  PROVE  Sum(l, S) \in Int
<1> DEFINE Strange == {s \in SUBSET S : Sum(l, s) \notin Int}
<1>1. SUFFICES ASSUME Strange # {} PROVE FALSE
  OBVIOUS
<1>2. PICK s \in Strange : \A t \in Strange : t \subseteq s => t = s
  <2> HIDE DEF Strange
  <2>1. Strange \in SUBSET SUBSET S
    BY DEF Strange
  <2> QED
    BY <1>1, <2>1, Least
<1>3. s \in SUBSET S /\ Sum(l, s) \notin Int
  BY <1>2
<1>4. Sum(l, s) = IF s = {} THEN 0 ELSE Worth(l, First(s)) + Sum(l, s \ {First(s)})
  BY <1>3, SumPart
<1>5. s # {} /\ First(s) \in s
  BY <1>3, <1>4, FirstIn
<1>6. Sum(l, s \ {First(s)}) \in Int
  BY <1>2, <1>3, <1>5
<1> QED
  BY <1>3, <1>4, <1>5, <1>6

(* Any payment of a set may be counted first.                              *)
LEMMA SumAny ==
  ASSUME NEW l, NEW S, IsFiniteSet(S), \A p \in S : Worth(l, p) \in Int, NEW q \in S
  PROVE  Sum(l, S) = Worth(l, q) + Sum(l, S \ {q})
<1> DEFINE Wrong == {s \in SUBSET S : \E p \in s : Sum(l, s) # Worth(l, p) + Sum(l, s \ {p})}
<1>1. SUFFICES ASSUME Wrong # {} PROVE FALSE
  OBVIOUS
<1>2. PICK s \in Wrong : \A t \in Wrong : t \subseteq s => t = s
  <2> HIDE DEF Wrong
  <2>1. Wrong \in SUBSET SUBSET S
    BY DEF Wrong
  <2> QED
    BY <1>1, <2>1, Least
<1>3. PICK p \in s : Sum(l, s) # Worth(l, p) + Sum(l, s \ {p})
  BY <1>2
<1>4. s \in SUBSET S
  BY <1>2
<1>5. \A t \in SUBSET s : t # s => \A o \in t : Sum(l, t) = Worth(l, o) + Sum(l, t \ {o})
  BY <1>2, <1>4
<1> HIDE DEF Wrong
<1> DEFINE f == First(s)
<1>6. f \in s /\ Sum(l, s) = Worth(l, f) + Sum(l, s \ {f})
  BY <1>4, FirstIn, SumPart
<1> HIDE DEF f
<1>7. f # p
  BY <1>3, <1>6
<1>8. Sum(l, s \ {f}) = Worth(l, p) + Sum(l, (s \ {f}) \ {p})
  <2>1. s \ {f} \in SUBSET s /\ s \ {f} # s /\ p \in s \ {f}
    BY <1>6, <1>7
  <2> QED
    BY <1>5, <2>1
<1>9. Sum(l, s \ {p}) = Worth(l, f) + Sum(l, (s \ {p}) \ {f})
  <2>1. s \ {p} \in SUBSET s /\ s \ {p} # s /\ f \in s \ {p}
    BY <1>6, <1>7
  <2> QED
    BY <1>5, <2>1
<1>10. (s \ {f}) \ {p} = (s \ {p}) \ {f}
  OBVIOUS
<1>11. Sum(l, (s \ {f}) \ {p}) \in Int
  <2>1. (s \ {f}) \ {p} \in SUBSET S
    BY <1>4
  <2>2. IsFiniteSet((s \ {f}) \ {p})
    BY <2>1, FS_Subset
  <2> QED
    BY <2>1, <2>2, SumType
<1>12. Worth(l, f) \in Int /\ Worth(l, p) \in Int
  BY <1>4, <1>6
<1> DEFINE both == Sum(l, (s \ {f}) \ {p})
           wf == Worth(l, f)
           wp == Worth(l, p)
<1>13. Sum(l, s) = wf + (wp + both) /\ Sum(l, s \ {p}) = wf + both
  BY <1>6, <1>8, <1>9, <1>10
<1>14. wf + (wp + both) = wp + (wf + both)
  <2> HIDE DEF wf, wp, both
  <2>1. wf \in Int /\ wp \in Int /\ both \in Int
    BY <1>11, <1>12 DEF wf, wp, both
  <2> QED
    BY <2>1
<1>15. Sum(l, s) # wp + Sum(l, s \ {p})
  BY <1>3
<1> HIDE DEF wf, wp, both
<1> QED
  BY <1>13, <1>14, <1>15

LEMMA SumAdd ==
  ASSUME NEW l, NEW S, IsFiniteSet(S), NEW q, q \notin S, \A p \in S \cup {q} : Worth(l, p) \in Int
  PROVE  Sum(l, S \cup {q}) = Sum(l, S) + Worth(l, q)
<1>1. IsFiniteSet(S \cup {q})
  BY FS_AddElement
<1>2. (S \cup {q}) \ {q} = S
  OBVIOUS
<1>3. Sum(l, S \cup {q}) = Worth(l, q) + Sum(l, (S \cup {q}) \ {q})
  BY <1>1, SumAny
<1>4. Sum(l, S) \in Int /\ Worth(l, q) \in Int
  BY SumType
<1>5. Sum(l, S \cup {q}) = Worth(l, q) + Sum(l, S)
  BY <1>2, <1>3
<1> DEFINE rest == Sum(l, S)
           w == Worth(l, q)
<1>6. w + rest = rest + w
  <2> HIDE DEF w, rest
  <2>1. w \in Int /\ rest \in Int
    BY <1>4 DEF w, rest
  <2> QED
    BY <2>1
<1> QED
  BY <1>5, <1>6

-----------------------------------------------------------------------------
(* An invoice and its ledger: reversals are of payments that are there,    *)
(* nothing is recorded before the invoice is issued, what was paid before  *)
(* the ledger is noted with its first record or the credit; and the        *)
(* invoice is settled as it is paid.                                       *)
Settles(status, l) ==
  /\ status \in {"sent", "paid"} => Paid(status, l) \in 0..l.total
  /\ status \in {"sent", "paid"} /\ ~l.credit =>
       /\ status = "paid" => Outstanding(status, l) = 0
       /\ Outstanding(status, l) = 0 /\ l.total > 0 => status = "paid"
  /\ l.reminders => status = "sent" /\ Outstanding(status, l) > 0

Balanced(status, l) ==
  /\ IsFiniteSet(Recorded(l))
  /\ \A p \in Recorded(l) : l.payments[p].kind = "reverse" => l.payments[p].reverses \in Recorded(l)
  /\ status \in {"unused", "draft", "removed"} => Recorded(l) = {} /\ ~l.settled /\ ~l.credit
  /\ l.settled /\ Recorded(l) = {} => l.credit
  /\ Settles(status, l)

Statuses == {"unused", "draft", "sent", "paid", "removed"}

LEMMA WorthType ==
  ASSUME NEW l \in Ledgers, NEW p \in Recorded(l)
  PROVE  l.payments[p] \in Records /\ l.payments[p].amount \in Amounts /\ Worth(l, p) \in Int
<1>1. l.payments[p] \in Records
  BY DEF Ledgers, Recorded
<1>2. PICK t \in Totals : l.payments[p].amount \in 1..t /\ t \in Nat
  BY <1>1, LedgerAssumption DEF Records, Amounts
<1> QED
  BY <1>1, <1>2 DEF Worth, Amounts, Records

LEMMA TotalType ==
  ASSUME NEW l \in Ledgers
  PROVE  l.total \in Nat
BY LedgerAssumption DEF Ledgers

LEMMA PaidType ==
  ASSUME NEW status, NEW l \in Ledgers, IsFiniteSet(Recorded(l))
  PROVE  Paid(status, l) \in Int
<1>1. Sum(l, Recorded(l)) \in Int
  BY WorthType, SumType
<1> QED
  BY <1>1, PaidSum, TotalType

(* Ledgers with the same payments and the same before them are paid alike. *)
LEMMA PaidAlike ==
  ASSUME NEW l, IsFiniteSet(Recorded(l)), NEW k, k.payments = l.payments,
         k.total = l.total, NEW s, NEW t, LegacySettled(s, l) = LegacySettled(t, k)
  PROVE  /\ Recorded(k) = Recorded(l)
         /\ Paid(t, k) = Paid(s, l)
         /\ k.credit = l.credit => Outstanding(t, k) = Outstanding(s, l)
<1>1. Recorded(k) = Recorded(l)
  BY DEF Recorded
<1>2. \A p \in Recorded(l) : Worth(l, p) = Worth(k, p)
  BY DEF Worth, Increases
<1>3. Sum(l, Recorded(l)) = Sum(k, Recorded(k))
  BY <1>1, <1>2, SumAgrees
<1>4. Paid(t, k) = Paid(s, l)
  BY <1>3, PaidSum
<1> QED
  BY <1>1, <1>4 DEF Outstanding

(* A new record adds what it is worth.                                     *)
LEMMA PaidAdds ==
  ASSUME NEW l \in Ledgers, NEW s, Balanced(s, l), NEW id \in Payments \ Recorded(l), NEW new \in Records,
         NEW k \in Ledgers, k.payments = [l.payments EXCEPT ![id] = new], k.settled = LegacySettled(s, l),
         k.total = l.total, NEW t
  PROVE  /\ Recorded(k) = Recorded(l) \cup {id} /\ IsFiniteSet(Recorded(k))
         /\ Paid(t, k) = Paid(s, l) + Worth(k, id)
<1>1. \A p \in Payments : k.payments[p] = IF p = id THEN new ELSE l.payments[p]
  BY DEF Ledgers
<1>2. Recorded(k) = Recorded(l) \cup {id}
  BY <1>1, RecordAssumption DEF Recorded
<1>3. IsFiniteSet(Recorded(l)) /\ IsFiniteSet(Recorded(k))
  BY <1>2, FS_AddElement DEF Balanced
<1>4. \A p \in Recorded(l) : Worth(l, p) = Worth(k, p)
  <2> SUFFICES ASSUME NEW p \in Recorded(l) PROVE Worth(l, p) = Worth(k, p)
    OBVIOUS
  <2>1. p \in Payments /\ p # id /\ k.payments[p] = l.payments[p]
    BY <1>1 DEF Recorded
  <2>2. l.payments[p].kind = "reverse" => k.payments[l.payments[p].reverses] = l.payments[l.payments[p].reverses]
    BY <1>1 DEF Balanced, Recorded
  <2> QED
    BY <2>1, <2>2 DEF Worth, Increases
<1>5. Sum(k, Recorded(k)) = Sum(k, Recorded(l)) + Worth(k, id)
  <2>1. \A p \in Recorded(l) \cup {id} : Worth(k, p) \in Int
    BY <1>2, WorthType
  <2> QED
    BY <1>2, <1>3, <2>1, SumAdd
<1>6. Sum(k, Recorded(l)) = Sum(l, Recorded(l))
  BY <1>3, <1>4, SumAgrees
<1>7. LegacySettled(t, k) = LegacySettled(s, l)
  BY <1>2 DEF LegacySettled, Ledgers
<1> DEFINE sum == Sum(l, Recorded(l))
           w == Worth(k, id)
           before == IF LegacySettled(s, l) THEN l.total ELSE 0
<1>8. Paid(t, k) = before + (sum + w) /\ Paid(s, l) = before + sum
  BY <1>5, <1>6, <1>7, PaidSum
<1>9. sum \in Int /\ w \in Int /\ before \in Int
  BY <1>2, <1>3, WorthType, SumType, TotalType
<1> HIDE DEF sum, w, before
<1>10. before + (sum + w) = (before + sum) + w
  BY <1>9
<1> QED
  BY <1>2, <1>3, <1>8, <1>10 DEF w

(* What does not touch the money leaves the invoice balanced.              *)
LEMMA BalancedKept ==
  ASSUME NEW status \in Statuses, NEW l, Balanced(status, l), NEW k, k.payments = l.payments,
         k.total = l.total, k.settled = l.settled, k.credit = l.credit,
         k.reminders => status = "sent" /\ Outstanding(status, l) > 0
  PROVE  Balanced(status, k)
<1>1. IsFiniteSet(Recorded(l)) /\ LegacySettled(status, l) = LegacySettled(status, k)
  BY DEF Balanced, LegacySettled, Recorded
<1>2. Recorded(k) = Recorded(l) /\ Paid(status, k) = Paid(status, l) /\ Outstanding(status, k) = Outstanding(status, l)
  BY <1>1, PaidAlike
<1> QED
  BY <1>2 DEF Balanced, Settles

(* The status that goes with a balanced ledger leaves it balanced: it is   *)
(* the one it has, unless nothing was asked for.                           *)
LEMMA StatusTaken ==
  ASSUME NEW status \in {"draft", "sent", "paid"}, NEW k \in Ledgers, Balanced(status, k)
  PROVE  Balanced(StatusAfter(status, k), k)
<1>1. CASE StatusAfter(status, k) = status
  BY <1>1
<1>2. CASE StatusAfter(status, k) # status
  <2>1. status \in {"sent", "paid"} /\ ~k.credit
    BY <1>2 DEF StatusAfter
  <2>2. status = "paid" => Outstanding(status, k) = 0
    BY <2>1 DEF Balanced, Settles
  <2>3. StatusAfter(status, k) = IF Outstanding(status, k) = 0 THEN "paid" ELSE "sent"
    BY <2>1 DEF StatusAfter
  <2>4. status = "sent" /\ StatusAfter(status, k) = "paid" /\ Outstanding(status, k) = 0
    BY <1>2, <2>1, <2>2, <2>3
  <2>5. k.total = 0
    BY <2>1, <2>4, TotalType DEF Balanced, Settles
  <2>6. Paid("paid", k) = Paid(status, k)
    BY <2>5, PaidSum
  <2>7. Outstanding("paid", k) = 0 /\ ~k.reminders
    BY <2>4, <2>6 DEF Outstanding, Balanced, Settles
  <2> QED
    BY <2>1, <2>4, <2>6, <2>7 DEF Balanced, Settles
<1> QED
  BY <1>1, <1>2

(* setReminders.                                                           *)
LEMMA RemindersBalanced ==
  ASSUME NEW status \in {"draft", "sent", "paid"}, NEW l \in Ledgers, Balanced(status, l), NEW b \in BOOLEAN,
         NEW k \in SetReminders(status, l, b)
  PROVE  Balanced(StatusAfter(status, k), k)
<1>1. /\ b => status # "draft" /\ ~l.credit /\ Outstanding(status, l) > 0
      /\ k = [l EXCEPT !.reminders = b, !.claim = FALSE]
  BY DEF SetReminders
<1>2. /\ k \in Ledgers /\ k.total = l.total
      /\ k.payments = l.payments /\ k.settled = l.settled /\ k.credit = l.credit /\ k.reminders = b
  BY <1>1 DEF Ledgers
<1>3. k.reminders => status = "sent" /\ Outstanding(status, l) > 0
  BY <1>1, <1>2 DEF Balanced, Settles
<1>4. Balanced(status, k)
  BY <1>2, <1>3, BalancedKept DEF Statuses
<1> QED
  BY <1>2, <1>4, StatusTaken

(* creditInvoice: what was paid is kept, nothing is owed any more.         *)
LEMMA CreditBalanced ==
  ASSUME NEW status \in {"draft", "sent", "paid"}, NEW l \in Ledgers, Balanced(status, l),
         NEW k \in CreditInvoice(status, l)
  PROVE  Balanced(StatusAfter(status, k), k)
<1>1. CASE k = l
  BY <1>1, StatusTaken
<1>2. CASE k # l
  <2>1. /\ status \in {"sent", "paid"}
        /\ k = [l EXCEPT !.credit = TRUE, !.settled = LegacySettled(status, l), !.reminders = FALSE]
    BY <1>2 DEF CreditInvoice
  <2>2. /\ k.total = l.total /\ k.payments = l.payments /\ k.credit = TRUE /\ k.settled = LegacySettled(status, l)
        /\ k.reminders = FALSE
    BY <2>1 DEF Ledgers
  <2>3. LegacySettled(status, l) = LegacySettled(status, k)
    BY <2>2 DEF LegacySettled, Recorded, Ledgers
  <2>4. Recorded(k) = Recorded(l) /\ Paid(status, k) = Paid(status, l)
    BY <2>2, <2>3, PaidAlike DEF Balanced
  <2>5. StatusAfter(status, k) = status
    BY <2>2 DEF StatusAfter
  <2>6. Balanced(status, k)
    BY <2>1, <2>2, <2>4 DEF Balanced, Settles
  <2> QED
    BY <2>5, <2>6
<1> QED
  BY <1>1, <1>2

(* appendInvoicePayment: a payment within what is owed, a refund within    *)
(* what was paid, a reversal of either.                                    *)
LEMMA PaymentBalanced ==
  ASSUME NEW status \in {"draft", "sent", "paid"}, NEW l \in Ledgers, Balanced(status, l),
         NEW id \in Payments, NEW new \in Records, NEW k \in AppendPayment(status, l, id, new)
  PROVE  Balanced(StatusAfter(status, k), k)
<1>1. CASE l.payments[id] # None
  <2>1. k = l
    BY <1>1 DEF AppendPayment
  <2> QED
    BY <2>1, StatusTaken
<1>2. CASE l.payments[id] = None
  <2> DEFINE m == [l EXCEPT !.payments[id] = new, !.settled = LegacySettled(status, l)]
  <2>1. status \in {"sent", "paid"} /\ Acceptable(status, l, new) /\ k = Settling(status, m)
    BY <1>2 DEF AppendPayment
  <2>2. id \in Payments \ Recorded(l) /\ LegacySettled(status, l) \in BOOLEAN
    BY <1>2 DEF Recorded, LegacySettled, Ledgers
  <2>3. /\ m \in Ledgers /\ m.payments = [l.payments EXCEPT ![id] = new] /\ m.settled = LegacySettled(status, l)
        /\ m.credit = l.credit /\ m.reminders = l.reminders /\ m.total = l.total
    BY <2>2 DEF Ledgers
  <2> HIDE DEF m
  <2>4. /\ k.payments = m.payments /\ k.settled = m.settled /\ k.credit = m.credit /\ k.total = l.total
        /\ k.reminders = (l.reminders /\ Outstanding(status, m) > 0)
    BY <2>1, <2>3 DEF Settling, Ledgers
  <2>5. \A t : /\ Recorded(m) = Recorded(l) \cup {id} /\ IsFiniteSet(Recorded(m))
               /\ Paid(t, m) = Paid(status, l) + Worth(m, id)
    BY <2>2, <2>3, PaidAdds
  <2>6. \A p \in Payments : m.payments[p] = IF p = id THEN new ELSE l.payments[p]
    BY <2>3 DEF Ledgers
  <2>7. Paid(status, l) \in 0..l.total /\ l.total \in Nat
    BY <2>1, TotalType DEF Balanced, Settles
  <2>8. new.kind = "reverse" => new.reverses \in Recorded(l)
    BY <2>1 DEF Acceptable
  <2>9. Paid(status, l) + Worth(m, id) \in 0..l.total
    <3>1. Worth(m, id) = IF Increases(m, id) THEN new.amount ELSE -new.amount
      BY <2>6 DEF Worth
    <3>2. PICK t \in Nat : new.amount \in 1..t
      BY LedgerAssumption DEF Records, Amounts
    <3>3. CASE new.kind = "pay"
      <4>1. Increases(m, id)
        BY <2>6, <3>3 DEF Increases
      <4>2. ~l.credit /\ new.amount <= Outstanding(status, l)
        BY <2>1, <3>3 DEF Acceptable
      <4>3. Outstanding(status, l) = l.total - Paid(status, l)
        BY <2>7, <4>2 DEF Outstanding
      <4> QED
        BY <2>7, <3>1, <3>2, <4>1, <4>2, <4>3
    <3>4. CASE new.kind = "refund"
      <4>1. ~Increases(m, id)
        BY <2>6, <3>4 DEF Increases
      <4>2. new.amount <= Paid(status, l)
        BY <2>1, <3>4 DEF Acceptable, RefundDue
      <4> QED
        BY <2>7, <3>1, <3>2, <4>1, <4>2
    <3>5. CASE new.kind = "reverse"
      <4> DEFINE old == l.payments[new.reverses]
      <4>1. m.payments[new.reverses] = old
        BY <2>2, <2>6, <2>8, <3>5 DEF Recorded
      <4>2. Increases(m, id) <=> old.kind = "refund"
        BY <2>6, <3>5, <4>1 DEF Increases
      <4>3. \/ old.kind = "pay" /\ new.amount <= Paid(status, l)
            \/ old.kind = "refund" /\ Paid(status, l) + new.amount <= l.total
        BY <2>1, <3>5 DEF Acceptable
      <4> QED
        BY <2>7, <3>1, <3>2, <4>2, <4>3
    <3> QED
      BY <3>3, <3>4, <3>5 DEF Records
  <2> DEFINE after == StatusAfter(status, k)
  <2>10. \A t : LegacySettled(t, k) = LegacySettled(t, m)
    BY <2>4 DEF LegacySettled, Recorded
  <2>11. \A t : Recorded(k) = Recorded(m) /\ Paid(t, k) = Paid(t, m) /\ Outstanding(t, k) = Outstanding(t, m)
    BY <2>3, <2>4, <2>5, <2>10, PaidAlike
  <2>12. \A t : Paid(t, k) \in 0..l.total /\ Outstanding(t, k) = Outstanding(status, m)
    BY <2>3, <2>4, <2>5, <2>9, <2>11 DEF Outstanding
  <2>13. after \in {"sent", "paid"} /\ (~k.credit => (after = "paid") = (Outstanding(after, k) = 0))
    BY <2>1, <2>12 DEF StatusAfter
  <2>14. k.reminders => after = "sent" /\ Outstanding(after, k) > 0
    <3> SUFFICES ASSUME k.reminders PROVE after = "sent" /\ Outstanding(after, k) > 0
      OBVIOUS
    <3>1. l.reminders /\ Outstanding(status, m) > 0
      BY <2>4
    <3>2. status = "sent"
      BY <3>1 DEF Balanced, Settles
    <3>3. ~k.credit
      BY <2>4, <3>1 DEF Outstanding
    <3> QED
      BY <2>12, <2>13, <3>1, <3>3
  <2>15. \A p \in Recorded(k) : k.payments[p].kind = "reverse" => k.payments[p].reverses \in Recorded(k)
    BY <2>4, <2>5, <2>6, <2>8, <2>11 DEF Balanced, Recorded
  <2>16. IsFiniteSet(Recorded(k)) /\ Recorded(k) # {}
    BY <2>5, <2>11
  <2> HIDE DEF after
  <2> QED
    BY <2>4, <2>12, <2>13, <2>14, <2>15, <2>16 DEF Balanced, Settles, after
<1> QED
  BY <1>1, <1>2

(* updateStatus: an invoice with no ledger yet is issued, or settled.      *)
LEMMA StatusBalanced ==
  ASSUME NEW status \in Statuses, NEW l \in Ledgers, Balanced(status, l), ~l.credit,
         NEW next, Recorded(l) # {} => next = status, <<status, next>> \in Transitions,
         NEW k, k = [l EXCEPT !.reminders = @ /\ next # "paid"]
  PROVE  Balanced(next, k)
<1>1. /\ k.total = l.total /\ k.payments = l.payments /\ k.settled = l.settled /\ k.credit = l.credit
      /\ k.reminders = (l.reminders /\ next # "paid")
  BY DEF Ledgers
<1>2. IsFiniteSet(Recorded(l)) /\ Recorded(k) = Recorded(l)
  BY <1>1 DEF Balanced, Recorded
<1>3. CASE next = status
  <2>1. k.reminders => status = "sent" /\ Outstanding(status, l) > 0
    BY <1>1 DEF Balanced, Settles
  <2> QED
    BY <1>1, <1>3, <2>1, BalancedKept
<1>4. CASE next # status
  <2>1. Recorded(k) = {} /\ ~k.settled /\ ~k.credit /\ next \in {"sent", "paid"}
    BY <1>1, <1>2, <1>4 DEF Balanced, Transitions
  <2>2. Sum(k, {}) = 0
    BY FS_EmptySet, SumPart
  <2>3. Paid(next, k) = IF next = "paid" THEN k.total ELSE 0
    <3>1. LegacySettled(next, k) <=> next = "paid"
      BY <2>1 DEF LegacySettled
    <3>2. Paid(next, k) = (IF LegacySettled(next, k) THEN k.total ELSE 0) + Sum(k, Recorded(k))
      BY PaidSum
    <3> QED
      BY <1>1, <2>1, <2>2, <3>1, <3>2, TotalType
  <2>4. /\ next = "paid" => Outstanding(next, k) = 0
        /\ Outstanding(next, k) = 0 /\ k.total > 0 => next = "paid"
        /\ Paid(next, k) \in 0..k.total
    <3>1. k.total \in Nat
      BY <1>1, TotalType
    <3> QED
      BY <2>1, <2>3, <3>1 DEF Outstanding
  <2>5. k.reminders => next = "sent" /\ Outstanding(next, k) > 0
    <3>1. k.reminders => status = "sent" /\ next = "paid"
      BY <1>1, <1>4 DEF Balanced, Settles, Transitions
    <3> QED
      BY <1>1, <3>1
  <2> QED
    BY <1>2, <2>1, <2>4, <2>5 DEF Balanced, Settles
<1> QED
  BY <1>3, <1>4

-----------------------------------------------------------------------------
(* Every invoice is balanced: by whom its ledger is written is one who has *)
(* read it as it is.                                                       *)
BalancedInv == \A i \in Invoices : Balanced(db.status[i], db.ledger[i])

LEMMA BalancedStart == Init => BalancedInv
<1> SUFFICES ASSUME Init, NEW i \in Invoices PROVE Balanced(db.status[i], db.ledger[i])
  BY DEF BalancedInv
<1>1. PICK total \in Totals : db.status[i] = "unused" /\ db.ledger[i] = EmptyLedger(total)
  BY DEF Init
<1>2. Recorded(EmptyLedger(total)) = {}
  BY DEF Recorded, EmptyLedger
<1>3. ~EmptyLedger(total).settled /\ ~EmptyLedger(total).credit /\ ~EmptyLedger(total).reminders
  BY DEF EmptyLedger
<1>4. IsFiniteSet(Recorded(EmptyLedger(total)))
  BY <1>2, FS_EmptySet
<1> QED
  BY <1>1, <1>2, <1>3, <1>4 DEF Balanced, Settles

(* A request makes a balanced invoice of a balanced one.                   *)
LEMMA OutcomeBalanced ==
  ASSUME NEW d \in Databases, NEW r \in Requests, NEW n \in Outcome(d, r), NEW i \in InvoicesWritten(d, r),
         i \in Invoices, Balanced(d.status[i], d.ledger[i])
  PROVE  Balanced(n.status[i], n.ledger[i])
<1>1. d.status[i] \in Statuses /\ d.ledger[i] \in Ledgers
  BY DEF Databases, Statuses
<1>2. CASE r.op = "bill"
  <2>1. i = NextNumber(d)
    BY <1>2 DEF InvoicesWritten, OnInvoice
  <2>2. d.status[i] = "unused"
    BY <1>2, <2>1, Numbered DEF Outcome, Bill, Refused, Unused
  <2>3. \E bills, invoice : n = [d EXCEPT !.status[i] = "draft", !.bills[i] = bills, !.invoice = invoice]
    BY <1>2, <2>1 DEF Outcome, Bill, Refused
  <2>4. n.status[i] = "draft" /\ n.ledger[i] = d.ledger[i]
    BY <2>3 DEF Databases
  <2> QED
    BY <2>2, <2>4 DEF Balanced, Settles
<1>3. CASE r.op = "remove"
  <2>1. i = r.invoice
    BY <1>3 DEF InvoicesWritten, OnInvoice
  <2>2. /\ d.status[i] = "draft"
        /\ \E invoice : n = [d EXCEPT !.status[i] = "removed", !.bills[i] = {}, !.invoice = invoice]
    BY <1>3, <2>1 DEF Outcome, Remove, Refused
  <2>3. n.status[i] = "removed" /\ n.ledger[i] = d.ledger[i]
    BY <2>2 DEF Databases
  <2> QED
    BY <2>2, <2>3 DEF Balanced, Settles
<1>4. CASE r.op = "status"
  <2>1. i = r.invoice
    BY <1>4 DEF InvoicesWritten, OnInvoice
  <2> DEFINE l == [d.ledger[i] EXCEPT !.reminders = @ /\ r.status # "paid"]
  <2>2. /\ ~d.ledger[i].credit
        /\ Recorded(d.ledger[i]) # {} => r.status = d.status[i]
        /\ <<d.status[i], r.status>> \in Transitions
        /\ n = [d EXCEPT !.status[i] = r.status, !.ledger[i].reminders = @ /\ r.status # "paid"]
    BY <1>4, <2>1 DEF Outcome, UpdateStatus, Refused
  <2>3. n.status[i] = r.status /\ n.ledger[i] = l
    BY <2>2 DEF Databases
  <2> HIDE DEF l
  <2>4. Balanced(r.status, l)
    BY <1>1, <2>2, StatusBalanced DEF l
  <2> QED
    BY <2>3, <2>4
<1>5. CASE r.op \in {"record", "credit", "remind"}
  <2>1. i = r.invoice
    BY <1>5 DEF InvoicesWritten, OnInvoice
  <2> DEFINE status == d.status[i]
             l == d.ledger[i]
  <2>2. PICK k :
          /\ \/ k \in AppendPayment(status, l, r.id, r.payment) /\ r.id \in Payments /\ r.payment \in Records
             \/ k \in CreditInvoice(status, l)
             \/ k \in SetReminders(status, l, r.enabled) /\ r.enabled \in BOOLEAN
          /\ status \in {"draft", "sent", "paid"}
          /\ n = [d EXCEPT !.ledger[i] = k, !.status[i] = StatusAfter(@, k)]
    <3>1. CASE r.op = "record"
      BY <2>1, <3>1 DEF Outcome, FollowThrough, Refused, Requests
    <3>2. CASE r.op = "credit"
      BY <2>1, <3>2 DEF Outcome, FollowThrough, Refused
    <3>3. CASE r.op = "remind"
      BY <2>1, <3>3 DEF Outcome, FollowThrough, Refused, Requests
    <3> QED
      BY <1>5, <3>1, <3>2, <3>3
  <2>3. n.status[i] = StatusAfter(status, k) /\ n.ledger[i] = k
    BY <2>2 DEF Databases
  <2> HIDE DEF status, l
  <2>4. l \in Ledgers /\ Balanced(status, l)
    BY <1>1 DEF status, l
  <2>5. Balanced(StatusAfter(status, k), k)
    BY <2>2, <2>4, PaymentBalanced, CreditBalanced, RemindersBalanced
  <2> QED
    BY <2>3, <2>5
<1>6. CASE r.op \notin {"bill", "remove", "status", "record", "credit", "remind"}
  BY <1>6 DEF InvoicesWritten, OnInvoice
<1> QED
  BY <1>2, <1>3, <1>4, <1>5, <1>6

LEMMA BalancedStep == IInv /\ BalancedInv /\ [Next]_vars => BalancedInv'
<1> SUFFICES ASSUME IInv, BalancedInv, [Next]_vars, NEW i \in Invoices
             PROVE  Balanced(db'.status[i], db'.ledger[i])
  BY DEF BalancedInv
<1>1. Balanced(db.status[i], db.ledger[i])
  BY DEF BalancedInv
<1>2. CASE \E a \in Actors : Commit(a)
  <2>1. PICK a \in Actors : \E new : Applied(a, new)
    BY <1>2, CommitSteps
  <2>2. PICK new : Applied(a, new)
    BY <2>1
  <2> DEFINE r == job[a].request
             seen == job[a].seen
  <2>3. /\ r \in Requests /\ seen \in Databases /\ new \in Outcome(seen, r)
        /\ i \in InvoicesWritten(seen, r) => SameInvoice(seen, db, i) /\ SameInvoice(new, db', i)
        /\ i \notin InvoicesWritten(seen, r) => SameInvoice(db, db', i)
    BY <2>2 DEF Applied
  <2> HIDE DEF r, seen
  <2>4. CASE i \in InvoicesWritten(seen, r)
    <3>1. Balanced(seen.status[i], seen.ledger[i])
      BY <1>1, <2>3, <2>4 DEF SameInvoice
    <3>2. Balanced(new.status[i], new.ledger[i])
      BY <2>3, <2>4, <3>1, OutcomeBalanced
    <3> QED
      BY <2>3, <2>4, <3>2 DEF SameInvoice
  <2>5. CASE i \notin InvoicesWritten(seen, r)
    BY <1>1, <2>3, <2>5 DEF SameInvoice
  <2> QED
    BY <2>4, <2>5
<1>3. CASE \E j, l : Writes(j, l)
  <2>1. PICK j, l : Writes(j, l)
    BY <1>3
  <2>2. db'.status = db.status /\ db'.ledger[i] = IF i = j THEN l ELSE db.ledger[i]
    BY <2>1, WriteMakes DEF Writes, IInv
  <2>3. db.status[i] \in Statuses
    BY DEF IInv, TypeOK, Databases, Statuses
  <2>4. CASE i = j
    <3>1. /\ l.total = db.ledger[i].total /\ l.payments = db.ledger[i].payments /\ l.settled = db.ledger[i].settled
          /\ l.credit = db.ledger[i].credit
          /\ l.reminders => db.status[i] = "sent" /\ Outstanding(db.status[i], db.ledger[i]) > 0
      BY <1>1, <2>1, <2>4 DEF Writes, Balanced, Settles
    <3> QED
      BY <1>1, <2>2, <2>3, <2>4, <3>1, BalancedKept
  <2>5. CASE i # j
    BY <1>1, <2>2, <2>5
  <2> QED
    BY <2>4, <2>5
<1>4. CASE UNCHANGED db
  BY <1>1, <1>4
<1> QED
  BY <1>2, <1>3, <1>4, Steps

(* An issued invoice that is "paid" owes nothing, and one that owes nothing *)
(* is paid unless it asks for nothing; it is never paid more than its      *)
(* total nor refunded more than was paid, and is only reminded of while it *)
(* is owed: for any totals, payments and requests, run again after         *)
(* whichever others.                                                       *)
THEOREM PaidInFull == Spec => []SettledAsPaid
<1>1. Spec => []BalancedInv
  BY BalancedStart, BalancedStep, Invariance, PTL DEF Spec
<1>2. BalancedInv => SettledAsPaid
  BY DEF BalancedInv, Balanced, Settles, SettledAsPaid
<1> QED
  BY <1>1, <1>2, PTL
=============================================================================
