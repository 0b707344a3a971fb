--------------------------- MODULE DurableEntries ---------------------------
(***************************************************************************)
(* A device's durable queue (OfflineQueue) against the server that applies *)
(* its writes: entries.applyOperation (packages/server/src/trpc/routers/   *)
(* entries.ts) under withEntryOperation (services/entries/operation.ts).   *)
(* A request's receipt and its effect commit in one transaction, so one    *)
(* request is answered in one step here; EntryOperations opens that step.  *)
(*                                                                         *)
(* The person's running timer is the effect that matters to the queue: a   *)
(* start ends whatever runs, a stop that names its entry ends that entry,  *)
(* and a stop that names none ends whatever runs.  Another device starts   *)
(* and stops timers of its own.                                            *)
(***************************************************************************)
EXTENDS OfflineQueue, Sequences

CONSTANT Elsewhere   \* the entry another device's timer runs for

ASSUME ServerAssumption == Elsewhere \notin Ids /\ Elsewhere # None /\ None \notin Ids

VARIABLES
  members,    \* workspaces the account belongs to now
  receipt,    \* Ids -> the input the server applied for it, or None
  ledger,     \* effects in the order they were committed
  running,    \* entry of the one running timer: the id of its start, or Elsewhere
  ended       \* Ids -> the entry this stop ended, or None

serverVars == <<members, receipt, ledger, running, ended>>
vars == <<saved, intent, queue, holder, tab, wire, faults, chosen, withdrawn,
          members, receipt, ledger, running, ended>>

Init ==
  /\ QueueInit
  /\ members = Workspaces
  /\ receipt = [i \in Ids |-> None]
  /\ ledger = <<>>
  /\ running = None
  /\ ended = [i \in Ids |-> None]

-----------------------------------------------------------------------------
(* The device: the queue's own steps.                                      *)

Device ==
  /\ \/ \E x \in Intents, named \in BOOLEAN : Enqueue(x, named)
     \/ \E t \in Tabs, x \in Intents, named \in BOOLEAN : Submit(t, x, named)
     \/ \E t \in Tabs : AskMembers(t, members)
     \/ \E t \in Tabs, due \in SUBSET Ids : FlushBegin(t, due)
     \/ \E t \in Tabs, i \in Ids : FreezeNext(t, i)
     \/ \E t \in Tabs : FreezeSubmitted(t)
     \/ \E t \in Tabs : Send(t)
     \/ \E t \in Tabs, h \in Holds : HoldUnsent(t, h)
     \/ \E t \in Tabs : FlushApplied(t)
     \/ \E t \in Tabs : FlushHeld(t, members)
     \/ \E t \in Tabs : FlushStopped(t, members)
     \/ \E t \in Tabs : FlushEnd(t)
     \/ \E t \in Tabs : SubmitDone(t)
     \/ \E t \in Tabs : Abandon(t)
     \/ \E i \in Ids : Amend(i)
     \/ \E i \in Ids : Cancel(i)
     \/ \E i \in Ids, known \in SUBSET Workspaces : Choose(i, known)
     \/ \E known \in SUBSET Workspaces : Discard(known)
     \/ \E i \in Ids : DiscardChain(i)
     \/ \E i \in Ids, known \in SUBSET Workspaces, edited, named \in BOOLEAN :
          Retry(i, known, edited, named)
  /\ UNCHANGED serverVars

-----------------------------------------------------------------------------
(* The server.                                                             *)

(* The workspace of the request is resolved first; it is not the account's. *)
ServeStranger(r) ==
  /\ intent[r.id].ws \notin members
  /\ Answer(r, "notFound")
  /\ UNCHANGED serverVars

(* A committed receipt answers a repeated request: with its result when    *)
(* the input is the one it was given for, else OPERATION_ID_REUSED.        *)
ServeAgain(r) ==
  /\ intent[r.id].ws \in members
  /\ receipt[r.id] # None
  /\ Answer(r, IF receipt[r.id] = r.input THEN "ok" ELSE "refused")
  /\ UNCHANGED serverVars

(* The entry a stop ends, None when there is nothing for it to end.        *)
StopTarget(r) ==
  IF r.input.named
    THEN IF \E j \in Ids : j = running /\ intent[j].op = "start" /\ Link(j) = Link(r.id)
           THEN running ELSE None
    ELSE running

(* A fault: the server does not look for a receipt.                        *)
FreshUnread(r) == intent[r.id].ws \in members

Fresh(r) == intent[r.id].ws \in members /\ receipt[r.id] = None

Commit(r) ==
  /\ receipt' = [receipt EXCEPT ![r.id] = r.input]
  /\ ledger' = Append(ledger, r.id)
  /\ UNCHANGED members

ServeStart(r) ==
  /\ Fresh(r)
  /\ intent[r.id].op = "start"
  /\ Commit(r)
  /\ running' = r.id
  /\ Answer(r, "ok")
  /\ UNCHANGED ended

ServeStop(r) ==
  /\ Fresh(r)
  /\ intent[r.id].op = "stop"
  /\ StopTarget(r) # None
  /\ Commit(r)
  /\ running' = None
  /\ ended' = [ended EXCEPT ![r.id] = StopTarget(r)]
  /\ Answer(r, "ok")

ServeCreate(r) ==
  /\ Fresh(r)
  /\ intent[r.id].op = "create"
  /\ Commit(r)
  /\ Answer(r, "ok")
  /\ UNCHANGED <<running, ended>>

(* The write is refused on its merits: a locked period, an entry that is   *)
(* gone or already ended, a bad reference.  The transaction aborts.  A     *)
(* NOT_FOUND looks to the device like one about the workspace.             *)
ServeRefused(r) ==
  /\ Fresh(r)
  /\ \E a \in {"refused", "notFound"} : Answer(r, a)
  /\ UNCHANGED serverVars

(* A server that predates entries.applyOperation.                          *)
ServeOldServer(r) ==
  /\ Answer(r, "procedure")
  /\ UNCHANGED serverVars

Serve(r) ==
  \/ ServeStranger(r)
  \/ ServeAgain(r)
  \/ ServeStart(r)
  \/ ServeStop(r)
  \/ ServeCreate(r)
  \/ ServeRefused(r)
  \/ ServeOldServer(r)

Server == /\ \E r \in wire : Serve(r)
          /\ UNCHANGED <<saved, intent, queue, holder, faults, chosen, withdrawn>>

(* 5xx, 429, 401 or a proxy's page: nothing committed, no verdict.  It     *)
(* counts as a fault, like a request that never answers.                   *)
ServerUnavailable ==
  /\ faults < MaxFaults /\ saved + faults < MaxEvents
  /\ \E r \in wire : /\ \E t \in Tabs : Awaits(t, r)
                     /\ Answer(r, "later")
  /\ faults' = faults + 1
  /\ UNCHANGED <<saved, intent, queue, holder, chosen, withdrawn>>
  /\ UNCHANGED serverVars

-----------------------------------------------------------------------------
(* The rest of the world.                                                  *)

OtherDeviceStarts ==
  /\ running # Elsewhere
  /\ running' = Elsewhere
  /\ UNCHANGED queueVars
  /\ UNCHANGED <<members, receipt, ledger, ended>>

OtherDeviceStops ==
  /\ running # None
  /\ running' = None
  /\ UNCHANGED queueVars
  /\ UNCHANGED <<members, receipt, ledger, ended>>

MembershipChanges ==
  /\ \E w \in Workspaces :
       members' = IF w \in members THEN members \ {w} ELSE members \cup {w}
  /\ UNCHANGED queueVars
  /\ UNCHANGED <<receipt, ledger, running, ended>>

World == OtherDeviceStarts \/ OtherDeviceStops \/ MembershipChanges

Next == Device \/ Server \/ ServerUnavailable \/ World

Spec == Init /\ [][Next]_vars

-----------------------------------------------------------------------------
(* Properties.                                                             *)

(* Every variable keeps its type.                                          *)
TypeOK ==
  /\ saved \in 0..MaxRows
  /\ intent \in [Ids -> Intents \cup {None}]
  /\ queue \in [Ids -> Rows \cup {None}]
  /\ holder \in Tabs \cup {None}
  /\ tab \in [Tabs -> TabStates]
  /\ wire \subseteq Requests
  /\ faults \in 0..MaxFaults
  /\ chosen \subseteq Ids
  /\ withdrawn \subseteq Ids
  /\ members \subseteq Workspaces
  /\ receipt \in [Ids -> Inputs \cup {None}]
  /\ ledger \in Seq(Ids)
  /\ running \in Ids \cup {Elsewhere, None}
  /\ ended \in [Ids -> Ids \cup {Elsewhere, None}]

(* A write a person made is never lost: a saved row leaves the device only *)
(* after the server committed it or because the person removed it, however *)
(* requests, answers, tabs and writes fail in between.                     *)
NothingLost ==
  \A i \in 1..saved : queue[i] = None => receipt[i] # None \/ i \in withdrawn

(* A write takes effect at most once: neither a late request, nor a retry  *)
(* after a lost answer, nor a second tab's flush commits it again.         *)
AppliedOnce ==
  \A m, n \in 1..Len(ledger) : ledger[m] = ledger[n] => m = n

(* Every copy of a write asks for the same thing: requests under way, the  *)
(* saved submission and the server's receipt agree, so no retry is ever    *)
(* answered OPERATION_ID_REUSED and no edit made after sending is lost.    *)
OneInput ==
  \A r \in wire :
    /\ queue[r.id] # None => queue[r.id].submitted = r.input
    /\ receipt[r.id] # None => receipt[r.id] = r.input
    /\ \A q \in wire : q.id = r.id => q.input = r.input

(* The starts a stop may be chained to.                                    *)
Starts(i) == {j \in 1..saved : intent[j].op = "start" /\ Link(j) = Link(i)}

(* A stop saved behind its queued start ends that start's entry and never  *)
(* whatever else runs by the time it is replayed - another device's timer, *)
(* say - while the person has not taken the start back.                    *)
StopEndsItsOwnEntry ==
  \A i \in Ids :
    (ended[i] # None /\ intent[i].paired) =>
      ended[i] \in Starts(i) \/ Starts(i) \subseteq withdrawn

(* The queue's own rule (offline-queue.ts:242), with no exception: rows    *)
(* that share a temp id stand or fall together, for a stop replayed        *)
(* without its start would end whatever is running.                        *)
ChainStandsTogether ==
  \A i \in Ids : (ended[i] # None /\ intent[i].paired) => ended[i] \in Starts(i)

(* What a flush must leave, as the code's comments say it.                 *)
MayBeLeft(s, i) ==
  \/ queue[i].hold # "none"
  \/ intent[i].ws \notin s.members
  \/ Chained(i) /\ \E j \in Chain(i) : queue[j].hold # "none"

(* The queue is FIFO up to the rows a flush must leave: a live write is    *)
(* sent only when nothing waits, and a flush sends a row only when every   *)
(* earlier one is held, in a workspace it was not told of, or chained to   *)
(* such a row.                                                             *)
SentInOrder ==
  [][\A t \in Tabs : Send(t) =>
       \A i \in Queued : i < tab[t].at => tab[t].mode = "flush" /\ MayBeLeft(tab[t], i)]_vars

(* Nothing of a chain that waits for a person is sent until the person     *)
(* retries it: neither the start of a held stop nor the stop of a held     *)
(* start.                                                                  *)
HeldChainNotSent ==
  [][\A t \in Tabs : Send(t) =>
       \A j \in Chain(tab[t].at) : queue[j].hold # "manual"]_vars

(* The writes that must have taken effect before write i may.              *)
Follows(i) ==
  IF i <= saved THEN {j \in Starts(i) : intent[i].paired} ELSE Ids

Ledger == INSTANCE EntryLedger
  WITH Writes <- Ids, behind <- [i \in Ids |-> Follows(i)], owed <- Queued, done <- ledger

(* The device and the server together keep the promise of EntryLedger: a   *)
(* stop saved behind its queued start follows it.                          *)
KeepsLedger == Ledger!Spec

-----------------------------------------------------------------------------
(* Liveness.                                                               *)

(* What runs by itself once begun: a tab's own steps under the lock.       *)
TabStep(t) ==
  /\ \/ \E i \in Ids : FreezeNext(t, i)
     \/ FreezeSubmitted(t)
     \/ Send(t)
     \/ FlushApplied(t)
     \/ FlushHeld(t, members)
     \/ FlushStopped(t, members)
     \/ FlushEnd(t)
     \/ SubmitDone(t)
  /\ UNCHANGED serverVars

(* Flush triggers recur: a reconnecting socket, the network coming back,   *)
(* the app resuming, a page load or sign-in.  An awaited request is        *)
(* answered unless it is one of the MaxFaults that are not.                *)
Fairness ==
  /\ \A t \in Tabs : /\ WF_vars(TabStep(t))
                     /\ WF_vars(AskMembers(t, members) /\ UNCHANGED serverVars)
                     /\ WF_vars((\E due \in SUBSET Ids : FlushBegin(t, due)) /\ UNCHANGED serverVars)
  /\ WF_vars(/\ \E r \in wire : (\E t \in Tabs : Awaits(t, r)) /\ Serve(r)
             /\ UNCHANGED <<saved, intent, queue, holder, faults, chosen, withdrawn>>)

FairSpec == Spec /\ Fairness

(* Row i is gone, or waits for somebody else.                              *)
Settled(i) == queue[i] = None \/ HeldInChain(i) \/ intent[i].ws \notin members

(* No saved write waits for ever on its own, once workspaces stop being    *)
(* left and joined: it is applied, or held until the person or the server  *)
(* changes, or its workspace is gone.  A row that is always refused never  *)
(* blocks the unrelated rows behind it.                                    *)
EventuallySettled ==
  \/ []<><<MembershipChanges>>_vars
  \/ \A i \in Ids : []<>Settled(i)
=============================================================================
