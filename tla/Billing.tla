------------------------------ MODULE Billing ------------------------------
(***************************************************************************)
(* Tracked time, the weekly timesheet that freezes it and the invoices     *)
(* that bill it (packages/server/src/services/entries/crud.ts,             *)
(* services/approvals/, trpc/routers/invoices.ts), for one author, one     *)
(* week and one client, on a database with transactions; and what follows  *)
(* an issued invoice, with the job that mails reminders                    *)
(* (services/invoice-follow-through.ts,                                    *)
(* services/scheduler/invoice-reminders.ts).                               *)
(*                                                                         *)
(* A request reads at one instant and writes at a later one. A transaction *)
(* works on the snapshot of its first read; it is run again when another   *)
(* has written, since, a document it writes. Every transaction that writes *)
(* time, its approval or its policy also writes the workspace's fence      *)
(* (services/business-transaction.ts). A change of an invoice's status or  *)
(* ledger is no transaction: it writes that invoice if its revision is     *)
(* still the one it read. A transaction, and a change of a ledger, starts  *)
(* over when another was first; a change of status is refused.             *)
(***************************************************************************)
EXTENDS InvoiceLedger

CONSTANTS
  Actors,        \* requests in progress, at most one each
  Entries,
  Invoices,      \* as many as can be created, by number
  Topics,        \* bound: the sets of operations a behaviour may draw from
  MaxRequests    \* bound: requests in a behaviour

ASSUME BillingAssumption == MaxRequests \in Nat /\ Invoices \subseteq Nat \ {0} /\ None \notin Invoices

(* Where an entry lies: in the week, across one of its ends, out of it, or *)
(* in it and still running. A deleted entry is not there.                  *)
Spans == {"inside", "across", "outside", "running"}
Absent == "absent"

Intersects(span) == span \in {"inside", "across", "running"}
Ended(span) == span \in {"inside", "across", "outside"}

Sheets ==
  [week : {"none", "draft", "submitted", "approved", "rejected"}, revision : Nat,
   enabled : BOOLEAN, required : BOOLEAN]

Databases ==
  [span : [Entries -> Spans \cup {Absent}], invoice : [Entries -> Invoices \cup {None}],
   sheet : Sheets, status : [Invoices -> {"unused", "draft", "sent", "paid", "removed"}],
   bills : [Invoices -> SUBSET (Entries \X Spans)], ledger : [Invoices -> Ledgers]]

(* The documents transactions contend on: the fence and the invoices.      *)
Fence == 0

Requests ==
  [op : {"put"}, entry : Entries, span : Spans \cup {Absent}]
    \cup [op : {"submit", "bill"}]
    \cup [op : {"withdraw", "approve", "reject", "reopen"}, revision : 1..MaxRequests]
    \cup [op : {"configure"}, enabled : BOOLEAN, required : BOOLEAN]
    \cup [op : {"remove", "credit"}, invoice : Invoices]
    \cup [op : {"status"}, invoice : Invoices, status : {"draft", "sent", "paid"}]
    \cup [op : {"record"}, invoice : Invoices, id : Payments, payment : Records]
    \cup [op : {"remind"}, invoice : Invoices, enabled : BOOLEAN]

VARIABLES
  db,       \* what is committed
  job,      \* Actors -> None or a request, the snapshot it has, what others wrote since
  begun,    \* requests so far
  topic,    \* the operations asked for in this behaviour
  view,     \* the reviewer's row: None, or its revision and the time its total is of
  runner,   \* the job that mails reminders: None, or where it is with an invoice
  day,      \* the stage the calendar has reached, 0 before the first
  mailed,   \* reminders the customer got, counted to 2
  crashed   \* the process of the job has died once

people == <<db, job, begun, view>>
mailer == <<runner, day, mailed, crashed>>
vars == <<people, topic, mailer>>

TypeOK ==
  /\ db \in Databases
  /\ job \in [Actors -> {None} \cup [request : Requests, seen : Databases,
                                     overtaken : SUBSET ({Fence} \cup Invoices)]]
  /\ begun \in 0..MaxRequests
  /\ topic \in Topics
  /\ view \in {None} \cup [revision : Nat, time : {None} \cup [Entries -> Spans \cup {Absent}]]
  /\ runner \in {None} \cup [at : {"found", "claimed", "sending", "sent", "failed", "cancelled"},
                            invoice : Invoices, stage : Stages, changed : BOOLEAN]
  /\ day \in {0} \cup Stages
  /\ mailed \in [Invoices \X Stages -> 0..2]
  /\ crashed \in BOOLEAN

Init ==
  /\ \E enabled, required \in BOOLEAN, total \in Totals :
       /\ required => enabled
       /\ db = [span |-> [e \in Entries |-> "inside"], invoice |-> [e \in Entries |-> None],
                sheet |-> [week |-> "none", revision |-> 0, enabled |-> enabled, required |-> required],
                status |-> [i \in Invoices |-> "unused"], bills |-> [i \in Invoices |-> {}],
                ledger |-> [i \in Invoices |-> EmptyLedger(total)]]
  /\ job = [a \in Actors |-> None]
  /\ begun = 0
  /\ topic \in Topics
  /\ view = None
  /\ runner = None /\ day = 0 /\ crashed = FALSE
  /\ mailed = [m \in Invoices \X Stages |-> 0]

-----------------------------------------------------------------------------
(* What a request makes of the database d it read: a set of one, or of     *)
(* none if it is refused.                                                  *)

Refused == {}

Locked(d) == d.sheet.week \in {"submitted", "approved"}

(* assertEntriesWritable without an invoice change.                        *)
Writable(d, span) == ~(Locked(d) /\ Intersects(span))

(* An edit, a new entry (from Absent) or a delete (to it).                 *)
Put(d, r) ==
  IF /\ d.invoice[r.entry] = None
     /\ d.span[r.entry] # r.span
     /\ Writable(d, d.span[r.entry]) /\ Writable(d, r.span)
  THEN {[d EXCEPT !.span[r.entry] = r.span]} ELSE Refused

Submit(d) ==
  IF /\ d.sheet.enabled /\ ~Locked(d)
     /\ \A e \in Entries : d.span[e] \notin {"running", "across"}
  THEN {[d EXCEPT !.sheet.week = "submitted", !.sheet.revision = @ + 1]} ELSE Refused

Acted(d, week) == {[d EXCEPT !.sheet.week = week, !.sheet.revision = @ + 1]}

Act(d, r, expected, week) ==
  IF d.sheet.week = expected /\ d.sheet.revision = r.revision THEN Acted(d, week) ELSE Refused

\* A mutant: what is submitted is approved, whichever revision was on screen.
ApproveAny(d, r) == IF d.sheet.week = "submitted" THEN Acted(d, "approved") ELSE Refused

Approve(d, r) == Act(d, r, "submitted", "approved")
Reject(d, r) == Act(d, r, "submitted", "rejected")
Withdraw(d, r) == Act(d, r, "submitted", "draft")

Reopen(d, r) ==
  IF \A e \in Entries : Intersects(d.span[e]) => d.invoice[e] = None
  THEN Act(d, r, "approved", "draft") ELSE Refused

Configure(d, r) ==
  IF (r.required => r.enabled) /\ (r.enabled \/ ~Locked(d))
  THEN {[d EXCEPT !.sheet.enabled = r.enabled, !.sheet.required = r.required]} ELSE Refused

(* invoiceApprovalEligibility; the claim's guard asks it again.            *)
Eligible(d, e) ==
  /\ d.sheet.week = "submitted" => ~Intersects(d.span[e])
  /\ d.sheet.required => d.sheet.week = "approved" /\ d.span[e] = "inside"

Billable(d) == {e \in Entries : Ended(d.span[e]) /\ d.invoice[e] = None /\ Eligible(d, e)}

Unused(d) == {i \in Invoices : d.status[i] = "unused"}

NextNumber(d) == CHOOSE i \in Unused(d) : \A j \in Unused(d) : i <= j

(* create: the invoice takes the next number and claims its entries.       *)
Bill(d) ==
  IF Billable(d) # {} /\ Unused(d) # {}
  THEN {[d EXCEPT !.status[NextNumber(d)] = "draft",
                  !.bills[NextNumber(d)] = {<<e, d.span[e]>> : e \in Billable(d)},
                  !.invoice = [e \in Entries |-> IF e \in Billable(d) THEN NextNumber(d) ELSE @[e]]]}
  ELSE Refused

Billed(d, i) == {e \in Entries : d.invoice[e] = i}

(* remove: entries of a week that waits for its review are not released.   *)
Remove(d, r) ==
  IF /\ d.status[r.invoice] = "draft"
     /\ d.sheet.week = "submitted" => \A e \in Billed(d, r.invoice) : ~Intersects(d.span[e])
  THEN {[d EXCEPT !.status[r.invoice] = "removed", !.bills[r.invoice] = {},
                  !.invoice = [e \in Entries |-> IF e \in Billed(d, r.invoice) THEN None ELSE @[e]]]}
  ELSE Refused

Transitions == {<<"draft", "draft">>, <<"draft", "sent">>, <<"sent", "sent">>, <<"sent", "paid">>, <<"paid", "paid">>}

UpdateStatus(d, r) ==
  IF /\ ~d.ledger[r.invoice].credit
     /\ Recorded(d.ledger[r.invoice]) # {} => r.status = d.status[r.invoice]
     /\ <<d.status[r.invoice], r.status>> \in Transitions
  THEN {[d EXCEPT !.status[r.invoice] = r.status,
                  !.ledger[r.invoice].reminders = @ /\ r.status # "paid"]}
  ELSE Refused

(* changeFollowThrough.                                                    *)
FollowThrough(d, r, ledgers) ==
  IF d.status[r.invoice] \in {"draft", "sent", "paid"}
  THEN {[d EXCEPT !.ledger[r.invoice] = l,
                  !.status[r.invoice] = StatusAfter(@, l)] : l \in ledgers}
  ELSE Refused

Outcome(d, r) ==
  CASE r.op = "put" -> Put(d, r)
    [] r.op = "submit" -> Submit(d)
    [] r.op = "approve" -> Approve(d, r)
    [] r.op = "withdraw" -> Withdraw(d, r)
    [] r.op = "reject" -> Reject(d, r)
    [] r.op = "reopen" -> Reopen(d, r)
    [] r.op = "configure" -> Configure(d, r)
    [] r.op = "bill" -> Bill(d)
    [] r.op = "remove" -> Remove(d, r)
    [] r.op = "status" -> UpdateStatus(d, r)
    [] r.op = "record" ->
         FollowThrough(d, r, AppendPayment(d.status[r.invoice], d.ledger[r.invoice], r.id, r.payment))
    [] r.op = "credit" -> FollowThrough(d, r, CreditInvoice(d.status[r.invoice], d.ledger[r.invoice]))
    [] r.op = "remind" ->
         FollowThrough(d, r, SetReminders(d.status[r.invoice], d.ledger[r.invoice], r.enabled))

-----------------------------------------------------------------------------
(* Requests.                                                               *)

OnInvoice == {"remove", "status", "record", "credit", "remind"}

Transactional(r) == r.op \notin {"status", "record", "credit", "remind"}

\* A mutant: an edit of an entry does not write the fence.
FencedButPut(r) == IF r.op = "put" THEN {} ELSE IF Transactional(r) THEN {Fence} ELSE {}

\* A mutant: a submission does not write the fence.
FencedButSubmit(r) == IF r.op = "submit" THEN {} ELSE IF Transactional(r) THEN {Fence} ELSE {}

Fenced(r) == IF Transactional(r) THEN {Fence} ELSE {}

\* A mutant: an invoice is removed without a write to its document first.
InvoicesClaimed(seen, r) ==
  CASE r.op = "bill" -> {NextNumber(seen)} [] r.op \in OnInvoice \ {"remove"} -> {r.invoice} [] OTHER -> {}

\* A mutant: a payment is written whatever the revision has become.
InvoicesUnrevised(seen, r) ==
  CASE r.op = "bill" -> {NextNumber(seen)} [] r.op \in OnInvoice \ {"record"} -> {r.invoice} [] OTHER -> {}

\* A mutant: a change of status is written whatever the revision has become.
InvoicesUnguarded(seen, r) ==
  CASE r.op = "bill" -> {NextNumber(seen)} [] r.op \in OnInvoice \ {"status"} -> {r.invoice} [] OTHER -> {}

(* Written, and so compared with what others have written since.           *)
InvoicesWritten(seen, r) ==
  CASE r.op = "bill" -> {NextNumber(seen)} [] r.op \in OnInvoice -> {r.invoice} [] OTHER -> {}

Written(seen, r) == Fenced(r) \cup InvoicesWritten(seen, r)

(* What a request changed of its snapshot, and all else as it now is.      *)
Changed(now, seen, new) == [x \in DOMAIN now |-> IF new[x] # seen[x] THEN new[x] ELSE now[x]]
Committed(seen, new) == [part \in DOMAIN db |-> Changed(db[part], seen[part], new[part])]

(* Jobs other than those of `done`, once the documents are written.        *)
Told(done, documents) ==
  [a \in Actors |-> IF job[a] = None \/ a \in done THEN None
                    ELSE [job[a] EXCEPT !.overtaken = @ \cup documents]]

Job(r) == [request |-> r, seen |-> db, overtaken |-> {}]

(* A request that is refused changes nothing: only the others begin. The   *)
(* reviewer approves the row on screen, once it has its total.             *)
Begin(a, r) ==
  /\ job[a] = None /\ begun < MaxRequests /\ r.op \in topic
  /\ r.op = "approve" => view # None /\ view.time # None /\ r.revision = view.revision
  /\ Outcome(db, r) # Refused
  /\ job' = [job EXCEPT ![a] = Job(r)]
  /\ begun' = begun + 1
  /\ UNCHANGED <<db, view, topic, mailer>>

Overtaken(a) == Written(job[a].seen, job[a].request) \cap job[a].overtaken # {}

Commit(a) ==
  /\ job[a] # None /\ ~Overtaken(a)
  /\ \E new \in Outcome(job[a].seen, job[a].request) : db' = Committed(job[a].seen, new)
  /\ job' = Told({a}, Written(job[a].seen, job[a].request))
  /\ runner' = IF runner # None /\ runner.invoice \in InvoicesWritten(job[a].seen, job[a].request)
               THEN [runner EXCEPT !.changed = TRUE] ELSE runner
  /\ UNCHANGED <<begun, view, topic, day, mailed, crashed>>

(* The request may be refused by now. (changeFollowThrough starts over 12  *)
(* times; not counted here.)                                               *)
StartOver(a) ==
  /\ job[a] # None /\ Overtaken(a)
  /\ job' = [job EXCEPT ![a] = IF @.request.op # "status" /\ Outcome(db, @.request) # Refused
                               THEN Job(@.request) ELSE None]
  /\ UNCHANGED <<db, begun, view, topic, mailer>>

(* reviewQueue: the row of the record, then its total, from two reads. The *)
(* row an approval was asked for stays until it is answered.               *)
LookAtRow ==
  /\ db.sheet.week = "submitted"
  /\ \A a \in Actors : job[a] # None => job[a].request.op # "approve"
  /\ view' = [revision |-> db.sheet.revision, time |-> None]
  /\ UNCHANGED <<db, job, begun, topic, mailer>>

LookAtTotal ==
  /\ view # None /\ view.time = None
  /\ view' = [view EXCEPT !.time = db.span]
  /\ UNCHANGED <<db, job, begun, topic, mailer>>

-----------------------------------------------------------------------------
(* The job that mails reminders, run by one process at a time.             *)

NextDay ==
  /\ "remind" \in topic
  /\ \E s \in Stages :
       /\ s > day /\ \A t \in Stages : t > day => s <= t
       /\ day' = s
  /\ UNCHANGED <<people, topic, runner, mailed, crashed>>

DueNow(i, stage) == stage = day /\ Due(db.status[i], db.ledger[i], stage)

(* A claim that is there belongs to a run that died, and lapses.           *)
Find(i) ==
  /\ runner = None /\ day > 0 /\ DueNow(i, day)
  /\ runner' = [at |-> "found", invoice |-> i, stage |-> day, changed |-> FALSE]
  /\ UNCHANGED <<people, topic, day, mailed, crashed>>

Write(i, l) ==
  /\ db' = [db EXCEPT !.ledger[i] = l]
  /\ job' = Told({}, {i})
  /\ UNCHANGED <<begun, view>>

Ledger == db.ledger[runner.invoice]

Claim ==
  /\ runner # None /\ runner.at = "found"
  /\ IF runner.changed THEN runner' = None /\ UNCHANGED people
     ELSE /\ runner' = [runner EXCEPT !.at = "claimed"]
          /\ Write(runner.invoice, [Ledger EXCEPT !.claim = TRUE])
  /\ UNCHANGED <<topic, day, mailed, crashed>>

(* The consent and the debt are read again; so is the membership of who    *)
(* consented, which may have ended.                                        *)
Recheck ==
  /\ runner # None /\ runner.at = "claimed"
  /\ \E next \in {"sending", "cancelled"} :
       /\ next = "sending" => Ledger.claim /\ DueNow(runner.invoice, runner.stage)
       /\ runner' = [runner EXCEPT !.at = next]
  /\ UNCHANGED <<people, topic, day, mailed, crashed>>

Send ==
  /\ runner # None /\ runner.at = "sending"
  /\ \/ /\ runner' = [runner EXCEPT !.at = "sent"]
        /\ mailed' = [mailed EXCEPT ![<<runner.invoice, runner.stage>>] = IF @ < 2 THEN @ + 1 ELSE @]
     \/ /\ runner' = [runner EXCEPT !.at = "failed"]
        /\ UNCHANGED mailed
  /\ UNCHANGED <<people, topic, day, crashed>>

(* What became of it, if the claim is still there.                         *)
Record ==
  /\ runner # None /\ runner.at \in {"sent", "failed", "cancelled"}
  /\ IF ~Ledger.claim THEN UNCHANGED people
     ELSE Write(runner.invoice,
                CASE runner.at = "sent" -> Mailed(Ledger, runner.stage)
                  [] runner.at = "failed" -> [Ledger EXCEPT !.claim = FALSE]
                  [] runner.at = "cancelled" -> [Ledger EXCEPT !.claim = FALSE, !.reminders = FALSE])
  /\ runner' = None
  /\ UNCHANGED <<topic, day, mailed, crashed>>

(* A shutdown before the mail gives the claim back.                        *)
Release ==
  /\ runner # None /\ runner.at = "claimed"
  /\ IF Ledger.claim THEN Write(runner.invoice, [Ledger EXCEPT !.claim = FALSE]) ELSE UNCHANGED people
  /\ runner' = None
  /\ UNCHANGED <<topic, day, mailed, crashed>>

Crash ==
  /\ runner # None /\ ~crashed
  /\ runner' = None
  /\ crashed' = TRUE
  /\ UNCHANGED <<people, topic, day, mailed>>

Next ==
  \/ \E a \in Actors : (\E r \in Requests : Begin(a, r)) \/ Commit(a) \/ StartOver(a)
  \/ LookAtRow \/ LookAtTotal
  \/ NextDay
  \/ \E i \in Invoices : Find(i)
  \/ Claim \/ Recheck \/ Send \/ Record \/ Release \/ Crash

Spec == Init /\ [][Next]_vars

-----------------------------------------------------------------------------
(* Properties.                                                             *)

(* An invoice that exists bills exactly the entries that carry its number, *)
(* at the spans they still have, and no entry is left on another.          *)
(* (crud.ts refuses to change billed time, create claims under the fence.) *)
BilledAsTracked ==
  \A i \in Invoices : db.bills[i] = {<<e, db.span[e]>> : e \in Billed(db, i)}

(* While a week is submitted or approved no time in it changes, appears,   *)
(* or goes; and an approved week is opened again only when none of it is   *)
(* billed. (docs/timesheet-approvals.md, Workflow and invariants.)         *)
ReviewHolds ==
  [][Locked(db) =>
       /\ \A e \in Entries : db'.span[e] # db.span[e] =>
            ~Intersects(db.span[e]) /\ ~Intersects(db'.span[e])
       /\ db.sheet.week = "approved" /\ ~Locked(db)' =>
            \A e \in Entries : Intersects(db.span[e]) => db.invoice[e] = None]_vars

(* The time of a week that becomes approved is the time its total was      *)
(* computed from when the reviewer saw the row. (actOnTimesheet's          *)
(* revision.)                                                              *)
ApprovedAsSeen ==
  [][db.sheet.week # "approved" /\ db'.sheet.week = "approved" =>
       \A e \in Entries : db.span[e] # view.time[e] =>
         ~Intersects(db.span[e]) /\ ~Intersects(view.time[e])]_vars

(* An invoice that was sent stays, with the time it bills.                 *)
SentStays ==
  [][\A i \in Invoices : db.status[i] \in {"sent", "paid"} =>
       db'.status[i] \in {"sent", "paid"} /\ db'.bills[i] = db.bills[i]]_vars

(* An issued invoice that was not credited owes nothing if it is "paid",   *)
(* and is "paid" if it owes nothing, unless it asks for nothing: such a    *)
(* one, sent by updateStatus, stays "sent" until it is marked. Payments    *)
(* never come to more than the total, refunds never to more than was paid, *)
(* and reminders are on only while something is owed.                      *)
(* (changeFollowThrough's revision, shared with updateStatus.)             *)
SettledAsPaid ==
  \A i \in Invoices :
    LET l == db.ledger[i] status == db.status[i]
    IN  /\ status \in {"sent", "paid"} => Paid(status, l) \in 0..l.total
        /\ status \in {"sent", "paid"} /\ ~l.credit =>
             /\ status = "paid" => Outstanding(status, l) = 0
             /\ Outstanding(status, l) = 0 /\ l.total > 0 => status = "paid"
        /\ l.reminders => status = "sent" /\ Outstanding(status, l) > 0

(* A payment, a credit and a mailed stage, once recorded, stay as they     *)
(* were recorded, whatever is written beside them. (The followThrough      *)
(* subdocument is read, changed and written as a whole.)                   *)
LedgerStands ==
  [][\A i \in Invoices :
       /\ \A p \in Recorded(db.ledger[i]) : db'.ledger[i].payments[p] = db.ledger[i].payments[p]
       /\ db.ledger[i].credit => db'.ledger[i].credit
       /\ db.ledger[i].sent \subseteq db'.ledger[i].sent]_vars

(* Each stage is mailed once, unless the process dies between the mail and *)
(* its record. (nextReminderDay: "earlier stages are skipped, never       *)
(* replayed"; setReminders: "Preserve the finite delivery history".)     *)
OneMailPerStage ==
  ~crashed => \A m \in Invoices \X Stages : mailed[m] <= 1
=============================================================================
