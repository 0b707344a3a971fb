---------------------------- MODULE OfflineQueue ----------------------------
(***************************************************************************)
(* The durable queue of entry writes a device keeps                        *)
(* (packages/core/src/offline-queue.ts, offline-ops.ts, offline-recovery.ts *)
(* and durable-entry.ts, with the web client's packages/client/src/lib/    *)
(* offline.ts and hooks/use-offline-queue.ts on top of it).                *)
(*                                                                         *)
(* Every entry write is saved on the device before it is sent.  The tabs   *)
(* of one browser share the stored queue under an exclusive lock; a flush  *)
(* replays it in order, keeping the rows it may not send and the rows      *)
(* chained to them, and persists after every answer.  A tab may die, a     *)
(* request may time out and still be under way, an answer may be lost.     *)
(*                                                                         *)
(* The stored array is a function from row numbers to rows: rows are only  *)
(* ever appended, removed, or changed in place, so the array order is the  *)
(* order of the row numbers.  The lock is held for a whole submit or flush, *)
(* so a tab's in-memory copy differs from the stored array only between an *)
(* answer and the write that follows it; a crash there is Abandon.         *)
(*                                                                         *)
(* One account and one server: the owner and server stamps are the same on *)
(* every row and are left out.                                             *)
(***************************************************************************)
EXTENDS Integers, FiniteSets

CONSTANTS
  Tabs,        \* contexts that share the stored queue (browser tabs)
  Chains,      \* optimistic ("temp") ids of timers started on this device
  Workspaces,  \* workspaces the account may belong to
  None,        \* absent value
  MaxRows,     \* bound: rows saved in a behaviour
  MaxEdits,    \* bound: edits of one row's input
  MaxFaults,   \* bound: abandoned attempts (crash, timeout, failed write)
  MaxEvents    \* bound: rows saved and attempts abandoned, together

ASSUME QueueAssumption ==
  /\ MaxRows \in Nat \ {0}
  /\ MaxEdits \in Nat
  /\ MaxFaults \in Nat
  /\ MaxEvents \in Nat
  /\ None \notin Tabs
  /\ None \notin Chains
  /\ None \notin Workspaces

Ids == 1..MaxRows

(* What a queued row asks for.  `paired' records, for the properties only, *)
(* that the chain's start was still in the queue when the row was saved.   *)
Ops == {"start", "stop", "create"}
Intents == [op: Ops, chain: Chains \cup {None}, ws: Workspaces, paired: BOOLEAN]

(* An input: which edit of the payload it carries, and whether it carries  *)
(* the id of the entry the chain's start created.                          *)
Inputs == [edit: 0..MaxEdits, named: BOOLEAN]

(* HOLD_RELEASE by what ends the hold: "manual" is refused and stale-stop, *)
(* "server" is unknown-procedure and server-too-old.                       *)
Holds == {"none", "manual", "server"}
Rows == [input: Inputs, submitted: Inputs \cup {None}, hold: Holds]

Requests == [id: Ids, input: Inputs, attempt: 0..MaxFaults]
Answers == {"ok", "refused", "procedure", "notFound", "later"}

TabStates ==
  [mode: {"idle", "asked", "submit", "flush"},
   step: {"scan", "saved", "frozen", "awaiting"},
   at: 0..MaxRows,                       \* row at work, or last passed
   members: SUBSET Workspaces,           \* membership list this flush asked for
   due: SUBSET Ids,                      \* server holds this flush asks about again
   stranded: SUBSET (Workspaces \X Chains),
   attempt: 0..MaxFaults,
   answer: Answers \cup {None}]

ASSUME NoneAssumption ==
  None \notin Inputs /\ None \notin Rows /\ None \notin Intents /\ None \notin Answers

VARIABLES
  saved,      \* number of rows ever appended
  intent,     \* Ids -> what the row asks for
  queue,      \* Ids -> the stored row, or None
  holder,     \* tab that owns the queue lock
  tab,        \* Tabs -> what the tab is doing with the queue
  wire,       \* requests sent and not yet answered
  faults,     \* abandoned attempts so far
  chosen,     \* rows a person is about to discard
  withdrawn   \* rows a person removed

queueVars == <<saved, intent, queue, holder, tab, wire, faults, chosen, withdrawn>>

Idle == [mode |-> "idle", step |-> "scan", at |-> 0, members |-> {},
         due |-> {}, stranded |-> {}, attempt |-> 0, answer |-> None]

QueueInit ==
  /\ saved = 0
  /\ intent = [i \in Ids |-> None]
  /\ queue = [i \in Ids |-> None]
  /\ holder = None
  /\ tab = [t \in Tabs |-> Idle]
  /\ wire = {}
  /\ faults = 0
  /\ chosen = {}
  /\ withdrawn = {}

Queued == {i \in Ids : queue[i] # None}

-----------------------------------------------------------------------------
(* Temp-id chains.                                                         *)

Link(i) == <<intent[i].ws, intent[i].chain>>
Chained(i) == intent[i].chain # None

(* The rows recovered or discarded together with row i.                    *)
Chain(i) == IF Chained(i) THEN {j \in Queued : Chained(j) /\ Link(j) = Link(i)}
                          ELSE {i}

(* A row is held with its whole chain.                                     *)
HeldInChain(i) == \E j \in Chain(i) : queue[j].hold # "none"

StartQueued(c, w) ==
  \E j \in Queued : intent[j].op = "start" /\ intent[j].chain = c /\ intent[j].ws = w

-----------------------------------------------------------------------------
(* Saving a write.                                                         *)

(* What a person can ask for now: a start mints a temp id, and a stop that *)
(* is chained to a temp id follows its start and is pressed once.          *)
Askable(x) ==
  /\ x \in Intents
  /\ x.op = "start" => /\ x.chain # None
                       /\ \A j \in 1..saved : intent[j].chain # x.chain
                       /\ ~x.paired
  /\ x.op = "stop" => /\ \E j \in 1..saved : /\ intent[j].op = "start"
                                             /\ intent[j].chain = x.chain
                                             /\ intent[j].ws = x.ws
                      /\ \A j \in 1..saved : ~ /\ intent[j].op = "stop"
                                               /\ intent[j].chain = x.chain
                      /\ x.paired = StartQueued(x.chain, x.ws)
  /\ x.op = "create" => x.chain = None /\ ~x.paired

FreshRow(named) ==
  [input |-> [edit |-> 0, named |-> named], submitted |-> None, hold |-> "none"]

(* A device knows the entry to stop once the start's answer reached it; a  *)
(* tab that has not noticed yet still asks with the temp id alone.         *)
MayName(x) ==
  /\ x.op = "stop"
  /\ \E j \in 1..saved : /\ intent[j].op = "start"
                         /\ intent[j].chain = x.chain
                         /\ queue[j] = None
                         /\ j \notin withdrawn

Save(x, named) ==
  /\ saved < MaxRows /\ saved + faults < MaxEvents
  /\ Askable(x)
  /\ named => MayName(x)
  /\ saved' = saved + 1
  /\ intent' = [intent EXCEPT ![saved + 1] = x]
  /\ queue' = [queue EXCEPT ![saved + 1] = FreshRow(named)]

(* enqueue: save for the next flush.                                       *)
Enqueue(x, named) ==
  /\ holder = None
  /\ Save(x, named)
  /\ UNCHANGED <<holder, tab, wire, faults, chosen, withdrawn>>

(* A fault the checks must notice: a new write leapfrogs the waiting ones. *)
SubmitLeapfrogging(t, x, named) ==
  /\ holder = None
  /\ tab[t].mode = "idle"
  /\ Save(x, named)
  /\ holder' = t
  /\ tab' = [tab EXCEPT ![t] =
       [Idle EXCEPT !.mode = "submit", !.step = "saved", !.at = saved + 1]]
  /\ UNCHANGED <<wire, faults, chosen, withdrawn>>

(* submit, its first half: the row is saved; any earlier row keeps it from *)
(* being sent now, else the tab goes on under the lock.                    *)
Submit(t, x, named) ==
  /\ holder = None
  /\ tab[t].mode = "idle"
  /\ Save(x, named)
  /\ IF Queued # {}
       THEN UNCHANGED <<holder, tab>>
       ELSE /\ holder' = t
            /\ tab' = [tab EXCEPT ![t] =
                 [Idle EXCEPT !.mode = "submit", !.step = "saved", !.at = saved + 1]]
  /\ UNCHANGED <<wire, faults, chosen, withdrawn>>

-----------------------------------------------------------------------------
(* Replaying the queue.                                                    *)

(* The flush asks which workspaces the account is in before it takes the   *)
(* lock; the answer is as old as that moment.                              *)
AskMembers(t, members) ==
  /\ tab[t].mode = "idle"
  /\ Queued # {}
  /\ tab' = [tab EXCEPT ![t] = [Idle EXCEPT !.mode = "asked", !.members = members]]
  /\ UNCHANGED <<saved, intent, queue, holder, wire, faults, chosen, withdrawn>>

(* A row this flush may send: not held for a person, in a workspace of the *)
(* list, and its server hold, if any, due.                                 *)
Wanted(s, i) ==
  /\ queue[i].hold # "manual"
  /\ intent[i].ws \in s.members
  /\ queue[i].hold = "server" => i \in s.due

(* A fault: each row is judged alone, its chain is not looked at.          *)
FlushBeginUnchained(t, due) ==
  /\ holder = None
  /\ tab[t].mode = "asked"
  /\ due \subseteq {i \in Queued : queue[i].hold = "server"}
  /\ holder' = t
  /\ tab' = [tab EXCEPT ![t].mode = "flush", ![t].due = due]
  /\ UNCHANGED <<saved, intent, queue, wire, faults, chosen, withdrawn>>

(* The flush owns the lock.  A server hold is due by its own clock, by the *)
(* server's level, or because this is the first flush since the launch.  A *)
(* chain with a row this flush may not send is left whole.                 *)
FlushBegin(t, due) ==
  /\ holder = None
  /\ tab[t].mode = "asked"
  /\ due \subseteq {i \in Queued : queue[i].hold = "server"}
  /\ holder' = t
  /\ LET s == [tab[t] EXCEPT !.mode = "flush", !.due = due]
     IN tab' = [tab EXCEPT ![t] =
          [s EXCEPT !.stranded = {Link(i) : i \in {j \in Queued : Chained(j) /\ ~Wanted(s, j)}}]]
  /\ UNCHANGED <<saved, intent, queue, wire, faults, chosen, withdrawn>>

(* Rows the flush leaves where they are.                                   *)
PassedOver(s, i) == ~Wanted(s, i) \/ (Chained(i) /\ Link(i) \in s.stranded)

Scanning(t) == tab[t].mode = "flush" /\ tab[t].step = "scan"

(* The next row to send: everything between the last row and it stays.     *)
NextToSend(s, i) ==
  /\ i > s.at
  /\ ~PassedOver(s, i)
  /\ \A j \in Queued : j > s.at /\ j < i => PassedOver(s, j)

(* The exact input is written before anything is sent and never changes.   *)
Frozen(row) == [row EXCEPT !.submitted = IF @ = None THEN row.input ELSE @]

FreezeNext(t, i) ==
  /\ Scanning(t)
  /\ i \in Queued
  /\ NextToSend(tab[t], i)
  /\ queue' = [queue EXCEPT ![i] = Frozen(@)]
  /\ tab' = [tab EXCEPT ![t].step = "frozen", ![t].at = i]
  /\ UNCHANGED <<saved, intent, holder, wire, faults, chosen, withdrawn>>

FreezeSubmitted(t) ==
  /\ tab[t].mode = "submit"
  /\ tab[t].step = "saved"
  /\ queue' = [queue EXCEPT ![tab[t].at] = Frozen(@)]
  /\ tab' = [tab EXCEPT ![t].step = "frozen"]
  /\ UNCHANGED <<saved, intent, holder, wire, faults, chosen, withdrawn>>

Send(t) ==
  /\ tab[t].step = "frozen"
  /\ wire' = wire \cup {[id |-> tab[t].at, input |-> queue[tab[t].at].submitted, attempt |-> faults]}
  /\ tab' = [tab EXCEPT ![t].step = "awaiting", ![t].attempt = faults, ![t].answer = None]
  /\ UNCHANGED <<saved, intent, queue, holder, faults, chosen, withdrawn>>

(* The answer to request r, a, reaches the tab that still waits for it.    *)
Awaits(t, r) ==
  /\ tab[t].step = "awaiting"
  /\ tab[t].answer = None
  /\ tab[t].at = r.id
  /\ tab[t].attempt = r.attempt

Answer(r, a) ==
  /\ r \in wire
  /\ wire' = wire \ {r}
  /\ tab' = [t \in Tabs |-> IF Awaits(t, r) THEN [tab[t] EXCEPT !.answer = a] ELSE tab[t]]

(* The tab puts the lock down.                                             *)
Leave(t) ==
  /\ tab' = [tab EXCEPT ![t] = Idle]
  /\ holder' = None

(* Row i stays, held for h; its chain waits with it.                       *)
Hold(t, i, h) ==
  /\ queue' = [queue EXCEPT ![i].hold = h]
  /\ tab' = [tab EXCEPT ![t].step = "scan", ![t].attempt = 0, ![t].answer = None,
                        ![t].stranded = IF Chained(i) THEN @ \cup {Link(i)} ELSE @]
  /\ UNCHANGED <<saved, intent, holder, wire, faults, chosen, withdrawn>>

(* The runner's own verdicts, before anything is sent: the server is older *)
(* than the row, or a stop that names no entry is too old to guess for.    *)
HoldUnsent(t, h) ==
  /\ tab[t].mode = "flush"
  /\ tab[t].step = "frozen"
  /\ h = "manual" => /\ intent[tab[t].at].op = "stop"
                     /\ ~queue[tab[t].at].submitted.named
  /\ h # "none"
  /\ Hold(t, tab[t].at, h)

(* A fault: the stop behind an applied start does not learn its entry.     *)
ResolvesNothing(i, j) == FALSE

(* The rows that learn the entry an applied start created.                 *)
Resolves(i, j) ==
  /\ intent[i].op = "start"
  /\ j > i
  /\ intent[j].op = "stop"
  /\ Chained(i)
  /\ Link(j) = Link(i)

(* A fault: a refused row is dropped like an applied one.                  *)
FlushDroppingRefused(t) ==
  /\ tab[t].mode = "flush"
  /\ tab[t].answer \in {"ok", "refused"}
  /\ queue' = [queue EXCEPT ![tab[t].at] = None]
  /\ tab' = [tab EXCEPT ![t].step = "scan", ![t].attempt = 0, ![t].answer = None]
  /\ UNCHANGED <<saved, intent, holder, wire, faults, chosen, withdrawn>>

(* The checkpoint after an applied row: the row is dropped and the later   *)
(* rows of its chain learn their entry.                                    *)
FlushApplied(t) ==
  /\ tab[t].mode = "flush"
  /\ tab[t].answer = "ok"
  /\ queue' = [j \in Ids |->
       IF j = tab[t].at THEN None
       ELSE IF j \in Queued /\ Resolves(tab[t].at, j) THEN [queue[j] EXCEPT !.input.named = TRUE]
       ELSE queue[j]]
  /\ tab' = [tab EXCEPT ![t].step = "scan", ![t].attempt = 0, ![t].answer = None]
  /\ UNCHANGED <<saved, intent, holder, wire, faults, chosen, withdrawn>>

(* classifyReplayOutcome: a missing procedure waits for the server; a      *)
(* refusal on the merits waits for the person; NOT_FOUND is one only while *)
(* `members', asked again now, still has the workspace.                    *)
FlushHeld(t, members) ==
  /\ tab[t].mode = "flush"
  /\ \/ /\ tab[t].answer = "procedure"
        /\ Hold(t, tab[t].at, "server")
     \/ /\ \/ tab[t].answer = "refused"
           \/ tab[t].answer = "notFound" /\ intent[tab[t].at].ws \in members
        /\ Hold(t, tab[t].at, "manual")

(* A fault: a refusal stops the flush at its row every time.               *)
FlushStoppedByRefusal(t, members) ==
  /\ tab[t].mode = "flush"
  /\ tab[t].answer \in {"later", "refused", "notFound"}
  /\ Leave(t)
  /\ UNCHANGED <<saved, intent, queue, wire, faults, chosen, withdrawn>>

FlushStopped(t, members) ==
  /\ tab[t].mode = "flush"
  /\ \/ tab[t].answer = "later"
     \/ tab[t].answer = "notFound" /\ intent[tab[t].at].ws \notin members
  /\ Leave(t)
  /\ UNCHANGED <<saved, intent, queue, wire, faults, chosen, withdrawn>>

FlushEnd(t) ==
  /\ Scanning(t)
  /\ \A i \in Queued : i > tab[t].at => PassedOver(tab[t], i)
  /\ Leave(t)
  /\ UNCHANGED <<saved, intent, queue, wire, faults, chosen, withdrawn>>

(* submit, its second half: only an applied row is dropped.                *)
SubmitDone(t) ==
  /\ tab[t].mode = "submit"
  /\ tab[t].answer # None
  /\ queue' = [queue EXCEPT ![tab[t].at] = IF tab[t].answer = "ok" THEN None ELSE @]
  /\ Leave(t)
  /\ UNCHANGED <<saved, intent, wire, faults, chosen, withdrawn>>

(* The tab dies, its request times out after 30 s or loses its answer, or  *)
(* a write to the store fails: the lock is free, the store is as last      *)
(* written, and a request already sent stays under way.                    *)
Abandon(t) ==
  /\ tab[t].mode \in {"submit", "flush"}
  /\ faults < MaxFaults /\ saved + faults < MaxEvents
  /\ faults' = faults + 1
  /\ Leave(t)
  /\ UNCHANGED <<saved, intent, queue, wire, chosen, withdrawn>>

-----------------------------------------------------------------------------
(* What a person does to waiting rows, each under the lock.                *)

(* amendQueuedStart: an unsent start is corrected in place.                *)
Amend(i) ==
  /\ holder = None
  /\ i \in Queued
  /\ intent[i].op = "start"
  /\ queue[i].submitted = None
  /\ queue[i].input.edit < MaxEdits
  /\ queue' = [queue EXCEPT ![i].input.edit = @ + 1]
  /\ UNCHANGED <<saved, intent, holder, tab, wire, faults, chosen, withdrawn>>

Remove(rows) ==
  /\ queue' = [j \in Ids |-> IF j \in rows THEN None ELSE queue[j]]
  /\ withdrawn' = withdrawn \cup rows
  /\ UNCHANGED <<saved, intent, holder, tab, wire, faults>>

(* cancelQueuedForTemp: a deleted temp entry takes its rows with it unless *)
(* one of them may have been sent.                                         *)
Cancel(i) ==
  /\ holder = None
  /\ i \in Queued
  /\ Chained(i)
  /\ \A j \in Chain(i) : queue[j].submitted = None
  /\ Remove(Chain(i))
  /\ UNCHANGED chosen

(* discardForeignQueued reads the queue, and works out the chains it will  *)
(* remove, before it asks for the lock to remove them.                     *)
MayDiscard(i, members) == HeldInChain(i) \/ intent[i].ws \notin members

Choose(i, members) ==
  /\ holder = None
  /\ chosen = {}
  /\ i \in Queued
  /\ MayDiscard(i, members)
  /\ chosen' = Chain(i)
  /\ UNCHANGED <<saved, intent, queue, holder, tab, wire, faults, withdrawn>>

Discard(members) ==
  /\ holder = None
  /\ chosen # {}
  /\ Remove({j \in chosen \cap Queued : MayDiscard(j, members)})
  /\ chosen' = {}

(* discardRecoveryRow: the chain is worked out under the lock.             *)
DiscardChain(i) ==
  /\ holder = None
  /\ i \in Queued
  /\ Remove(Chain(i))
  /\ UNCHANGED chosen

(* A row as the person sends it on: no hold, and an edit if one was made,  *)
(* which may give a stop the id of its entry.                              *)
Repaired(row, edited, named) ==
  [row EXCEPT !.hold = "none",
              !.input.edit = IF edited THEN @ + 1 ELSE @,
              !.input.named = @ \/ named]

(* A fault: the editor replaces an input that was already sent.            *)
RetryReplacing(i, members, edited, named) ==
  /\ holder = None
  /\ i \in Queued
  /\ HeldInChain(i)
  /\ edited
  /\ queue[i].input.edit < MaxEdits
  /\ queue' = [queue EXCEPT ![i].hold = "none", ![i].input.edit = @ + 1, ![i].submitted = None]
  /\ UNCHANGED <<saved, intent, holder, tab, wire, faults, chosen, withdrawn>>

(* retryRecoveryRow: the holds of the whole chain end together.  A sent    *)
(* input may not be edited, and a stop needs its entry or its start.       *)
Retry(i, members, edited, named) ==
  /\ holder = None
  /\ i \in Queued
  /\ HeldInChain(i)
  /\ intent[i].ws \in members
  /\ edited => queue[i].submitted = None /\ queue[i].input.edit < MaxEdits
  /\ named => edited /\ MayName(intent[i])
  /\ \A j \in Chain(i) :
       intent[j].op = "stop" =>
         \/ IF queue[j].submitted = None THEN queue[j].input.named ELSE queue[j].submitted.named
         \/ j = i /\ named
         \/ \E k \in Chain(i) : intent[k].op = "start"
  /\ queue' = [j \in Ids |->
       IF j \in Chain(i)
         THEN Repaired(queue[j], j = i /\ edited, j = i /\ named)
         ELSE queue[j]]
  /\ UNCHANGED <<saved, intent, holder, tab, wire, faults, chosen, withdrawn>>
=============================================================================
