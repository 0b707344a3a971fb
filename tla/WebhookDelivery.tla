-------------------------- MODULE WebhookDelivery --------------------------
(***************************************************************************)
(* The webhook deliveries of one subscription (packages/server/src/        *)
(* services/webhooks): an event writes a pending row (emit.ts), sweeps of  *)
(* the server processes lease rows that are due in a batch (sweeper.ts,    *)
(* claimDueDeliveries), send them one after the other (deliverWebhook) and *)
(* record what came of it; its creator switches the subscription on and    *)
(* off or removes it (trpc/routers/webhooks.ts).                           *)
(*                                                                         *)
(* nextAttemptAt is the time left until then: 0 is due, Never is null.     *)
(* Requests to the database are shorter than a tick, so time passes only   *)
(* while targets are resolved or asked, or nothing is under way.           *)
(***************************************************************************)
EXTENDS Integers, Sequences, FiniteSets

CONSTANTS
  Procs,          \* server processes, each with a sweeper
  Deliveries,     \* ids of rows
  None,
  Timeout,        \* a resolver's limit and WEBHOOK_REQUEST_TIMEOUT_MS, in ticks
  Lease,          \* WEBHOOK_CLAIM_LEASE_MS
  Batch,          \* WEBHOOK_SWEEP_BATCH
  Backoff,        \* delay after 1, 2, .. attempts: WEBHOOK_BACKOFF_MS without its first 0
  DisableAfter,   \* WEBHOOK_AUTO_DISABLE_AFTER
  MaxFaults       \* bound: events and answers to writes that are lost, writes that fail,
                  \* and processes that die, in a behaviour

ASSUME WebhookAssumption ==
  /\ {Timeout, Lease, Batch, DisableAfter} \subseteq Nat \ {0}
  /\ Backoff \in Seq(Nat) /\ \A k \in DOMAIN Backoff : Backoff[k] > Timeout
  /\ MaxFaults \in Nat
  /\ IsFiniteSet(Deliveries)

Never == -1

MaxAttempts == Len(Backoff) + 1

Rows == [status : {"pending", "delivered", "failed", "skipped"}, attempt : Nat, due : Int]

Steps == {"idle", "claim", "next", "attempt", "look", "resolve", "post", "record", "reset", "count", "disable"}

\* What an attempt came to, as it will be recorded: "failure" is the status
\* of an answer; "error" is a blocked target, or whatever deliverWebhook caught.
Outcomes == {"delivered", "failure", "error", "undeliverable", "skipped"}

Failures == {"failure", "error"}

Sweeps == [step : Steps, batch : Seq(Deliveries), made : Nat, age : 0..Timeout,
           outcome : Outcomes \cup {None}]

ASSUME NoneAssumption == None \notin Deliveries \cup Outcomes /\ None \notin Rows

VARIABLES
  row,        \* Deliveries -> its row, None before it is inserted and after it is deleted
  emitting,   \* deliveries whose event found the subscription enabled
  sub,        \* the subscription: there, enabled, consecutiveFailures
  removing,   \* remove deleted the subscription and not yet its deliveries
  visible,    \* its creator is a member and may see the events
  sweep,      \* Procs -> its pass
  started,    \* Deliveries -> history: attempts claimed so far
  faults

vars == <<row, emitting, sub, removing, visible, sweep, started, faults>>
endpointVars == <<sub, removing, visible>>

Asleep == [step |-> "idle", batch |-> <<>>, made |-> 0, age |-> 0, outcome |-> None]

Init ==
  /\ row = [d \in Deliveries |-> None]
  /\ emitting = {}
  /\ sub = [there |-> TRUE, enabled |-> TRUE, failures |-> 0]
  /\ removing = FALSE
  /\ visible = TRUE
  /\ sweep = [p \in Procs |-> Asleep]
  /\ started = [d \in Deliveries |-> 0]
  /\ faults = 0

-----------------------------------------------------------------------------
(* An event.                                                               *)

New == [status |-> "pending", attempt |-> 0, due |-> 0]

(* emitWebhookEvent finds the subscription enabled; it is not awaited.     *)
Emit(d) ==
  /\ row[d] = None /\ started[d] = 0 /\ d \notin emitting
  /\ sub.there /\ sub.enabled
  /\ emitting' = emitting \cup {d}
  /\ UNCHANGED <<row, sweep, started, faults>> /\ UNCHANGED endpointVars

Insert(d) ==
  /\ d \in emitting
  /\ emitting' = emitting \ {d}
  /\ row' = [row EXCEPT ![d] = New]
  /\ UNCHANGED <<sweep, started, faults>> /\ UNCHANGED endpointVars

(* The process dies, or the insert fails, between the two.                 *)
LoseEvent(d) ==
  /\ d \in emitting /\ faults < MaxFaults
  /\ emitting' = emitting \ {d}
  /\ faults' = faults + 1
  /\ UNCHANGED <<row, sweep, started>> /\ UNCHANGED endpointVars

-----------------------------------------------------------------------------
(* A pass of a sweeper.                                                    *)

Pending(d) == row[d] # None /\ row[d].status = "pending"

\* A mutant: a sweep takes what another one has leased.
DueAnyTime(d) == Pending(d)

Due(d) == Pending(d) /\ row[d].due = 0

Goto(p, s) == sweep' = [sweep EXCEPT ![p].step = s]

(* One pass at a time in a process. A pass that finds nothing is no step.  *)
SweepBegins(p) ==
  /\ sweep[p].step = "idle"
  /\ \E d \in Deliveries : Due(d)
  /\ Goto(p, "claim")
  /\ UNCHANGED <<row, emitting, started, faults>> /\ UNCHANGED endpointVars

\* Mutants: a lease for one request, and one that never lapses.
LeaseUntilTimeout == Timeout

LeaseUntilNever == Never

LeaseUntil == Lease

ClaimNext(p, d) ==
  /\ sweep[p].step = "claim" /\ Len(sweep[p].batch) < Batch
  /\ Due(d)
  /\ row' = [row EXCEPT ![d].due = LeaseUntil]
  /\ sweep' = [sweep EXCEPT ![p].batch = Append(@, d)]
  /\ UNCHANGED <<emitting, started, faults>> /\ UNCHANGED endpointVars

ClaimsEnd(p) ==
  /\ sweep[p].step = "claim"
  /\ Len(sweep[p].batch) = Batch \/ \A d \in Deliveries : ~Due(d)
  /\ Goto(p, "next")
  /\ UNCHANGED <<row, emitting, started, faults>> /\ UNCHANGED endpointVars

At(p) == Head(sweep[p].batch)

(* The pass is over, or goes on to the next row of its batch.              *)
Done(p) == sweep' = [sweep EXCEPT ![p] = [Asleep EXCEPT !.step = "next", !.batch = Tail(sweep[p].batch)]]

SweepEnds(p) ==
  /\ sweep[p].step = "next" /\ sweep[p].batch = <<>>
  /\ sweep' = [sweep EXCEPT ![p] = Asleep]
  /\ UNCHANGED <<row, emitting, started, faults>> /\ UNCHANGED endpointVars

(* deliverWebhook reads the row, whatever became of it since its claim.    *)
ReadRow(p) ==
  /\ sweep[p].step = "next" /\ sweep[p].batch # <<>>
  /\ IF Pending(At(p))
       THEN sweep' = [sweep EXCEPT ![p].step = "attempt", ![p].made = row[At(p)].attempt + 1]
       ELSE Done(p)
  /\ UNCHANGED <<row, emitting, started, faults>> /\ UNCHANGED endpointVars

(* It claims the attempt, if the row is as it read it.                     *)
AttemptFree(p) == Pending(At(p)) /\ row[At(p)].attempt + 1 = sweep[p].made

ClaimAttempt(p) ==
  /\ sweep[p].step = "attempt"
  /\ IF AttemptFree(p)
       THEN /\ row' = [row EXCEPT ![At(p)].attempt = sweep[p].made]
            /\ started' = [started EXCEPT ![At(p)] = @ + 1]
            /\ Goto(p, "look")
       ELSE Done(p) /\ UNCHANGED <<row, started>>
  /\ UNCHANGED <<emitting, faults>> /\ UNCHANGED endpointVars

Outcome(p, o) == sweep' = [sweep EXCEPT ![p].step = "record", ![p].outcome = o]

(* It reads the subscription and its creator's live view.                  *)
Look(p) ==
  /\ sweep[p].step = "look"
  /\ \/ ~(sub.there /\ sub.enabled) /\ Outcome(p, "undeliverable")
     \/ sub.there /\ sub.enabled /\ ~visible /\ Outcome(p, "skipped")
     \/ sub.there /\ sub.enabled /\ visible /\ Goto(p, "resolve")
  /\ UNCHANGED <<row, emitting, started, faults>> /\ UNCHANGED endpointVars

(* It resolves the target, which may take time and turn out blocked.       *)
Resolve(p) ==
  /\ sweep[p].step = "resolve"
  /\ Goto(p, "post") \/ Outcome(p, "error")
  /\ UNCHANGED <<row, emitting, started, faults>> /\ UNCHANGED endpointVars

(* The endpoint answers, or the request fails or is given up.              *)
Answer(p) ==
  /\ sweep[p].step = "post"
  /\ \E o \in {"delivered", "failure", "error"} : Outcome(p, o)
  /\ UNCHANGED <<row, emitting, started, faults>> /\ UNCHANGED endpointVars

-----------------------------------------------------------------------------
(* What came of an attempt, written by the row's id alone.                 *)

Exhausted(made) == made \notin DOMAIN Backoff

\* From the instant the attempt began, which may be past by now.
RetryIn(made, age) == IF Backoff[made] > age THEN Backoff[made] - age ELSE 0

\* A mutant: a failed attempt is not counted.
RecordedForFree(r, s) ==
  IF s.outcome \in Failures /\ ~Exhausted(s.made)
    THEN [status |-> "pending", attempt |-> s.made - 1, due |-> RetryIn(s.made, s.age)]
    ELSE [status |-> IF s.outcome \in {"delivered", "skipped"} THEN s.outcome ELSE "failed",
          attempt |-> s.made, due |-> Never]

Recorded(r, s) ==
  CASE s.outcome = "delivered" -> [status |-> "delivered", attempt |-> s.made, due |-> Never]
    [] s.outcome = "skipped" -> [status |-> "skipped", attempt |-> r.attempt, due |-> Never]
    [] s.outcome = "undeliverable" -> [status |-> "failed", attempt |-> s.made, due |-> Never]
    [] s.outcome \in Failures ->
         IF Exhausted(s.made)
           THEN [status |-> "failed", attempt |-> s.made, due |-> Never]
           ELSE [status |-> "pending", attempt |-> s.made, due |-> RetryIn(s.made, s.age)]

\* A mutant: every failed attempt counts.
CountsAsDeadAlways(s) == s.outcome \in Failures

CountsAsDead(s) == s.outcome \in Failures /\ Exhausted(s.made)

\* What each of the writes does when it is applied.
WritesRow(p) == row' = [row EXCEPT ![At(p)] = IF @ = None THEN None ELSE Recorded(@, sweep[p])]

WritesSub(new) == sub' = IF sub.there THEN new ELSE sub

Cleared == [sub EXCEPT !.failures = 0]
Counted == [sub EXCEPT !.failures = @ + 1]
Disabled == [sub EXCEPT !.enabled = FALSE]

Record(p) ==
  /\ sweep[p].step = "record"
  /\ WritesRow(p)
  /\ CASE sweep[p].outcome = "delivered" -> Goto(p, "reset")
       [] CountsAsDead(sweep[p]) -> Goto(p, "count")
       [] OTHER -> Done(p)
  /\ UNCHANGED <<emitting, started, faults>> /\ UNCHANGED endpointVars

(* recordSuccess clears the endpoint's streak.                             *)
Reset(p) ==
  /\ sweep[p].step = "reset"
  /\ WritesSub(Cleared)
  /\ Done(p)
  /\ UNCHANGED <<row, emitting, removing, visible, started, faults>>

(* recordFailure counts a delivery that is exhausted, and disables the     *)
(* endpoint by a second update if what the first returned says so.         *)
Count(p) ==
  /\ sweep[p].step = "count"
  /\ WritesSub(Counted)
  /\ IF sub.there /\ sub.failures + 1 >= DisableAfter /\ sub.enabled
       THEN Goto(p, "disable")
       ELSE Done(p)
  /\ UNCHANGED <<row, emitting, removing, visible, started, faults>>

Disable(p) ==
  /\ sweep[p].step = "disable"
  /\ WritesSub(Disabled)
  /\ Done(p)
  /\ UNCHANGED <<row, emitting, removing, visible, started, faults>>

\* The write of the step p is at, applied.
Written(p) ==
  \/ sweep[p].step = "record" /\ WritesRow(p) /\ UNCHANGED sub
  \/ sweep[p].step = "reset" /\ WritesSub(Cleared) /\ UNCHANGED row
  \/ sweep[p].step = "count" /\ WritesSub(Counted) /\ UNCHANGED row
  \/ sweep[p].step = "disable" /\ WritesSub(Disabled) /\ UNCHANGED row

(* A write of an outcome fails, or is applied and its answer is lost. The  *)
(* catch around the request is also that of what is recorded of its        *)
(* answer, and records an error instead; an error that cannot be recorded  *)
(* ends the pass.                                                          *)
Stumble(p) ==
  /\ sweep[p].step \in {"record", "reset", "count", "disable"} /\ faults < MaxFaults
  /\ Written(p) \/ UNCHANGED <<row, sub>>
  /\ IF sweep[p].outcome \in {"delivered", "failure"}
       THEN Outcome(p, "error")
       ELSE sweep' = [sweep EXCEPT ![p] = Asleep]
  /\ faults' = faults + 1
  /\ UNCHANGED <<emitting, removing, visible, started>>

(* A process dies in a pass; another one is started in its place.          *)
Die(p) ==
  /\ sweep[p].step # "idle" /\ faults < MaxFaults
  /\ sweep' = [sweep EXCEPT ![p] = Asleep]
  /\ faults' = faults + 1
  /\ UNCHANGED <<row, emitting, started>> /\ UNCHANGED endpointVars

-----------------------------------------------------------------------------
(* Its creator, and the workspace.                                         *)

(* update: switching on clears the streak.                                 *)
Switch ==
  /\ sub.there
  /\ \/ sub' = [sub EXCEPT !.enabled = FALSE]
     \/ sub' = [sub EXCEPT !.enabled = TRUE, !.failures = 0]
  /\ UNCHANGED <<row, emitting, removing, visible, sweep, started, faults>>

(* remove deletes the subscription, then its delivery log.                 *)
Remove ==
  /\ sub.there
  /\ sub' = [sub EXCEPT !.there = FALSE]
  /\ removing' = TRUE
  /\ UNCHANGED <<row, emitting, visible, sweep, started, faults>>

RemoveLog ==
  /\ removing
  /\ row' = [d \in Deliveries |-> None]
  /\ removing' = FALSE
  /\ UNCHANGED <<emitting, sub, visible, sweep, started, faults>>

(* The creator leaves, joins, or is shown or denied the events.            *)
ViewChanges ==
  /\ visible' = ~visible
  /\ UNCHANGED <<row, emitting, sub, removing, sweep, started, faults>>

\* Under way outside the database.
Away(p) == sweep[p].step \in {"resolve", "post"}

(* Time passes: no request to the database is under way, and no resolver   *)
(* or endpoint has had its time.                                           *)
Tick ==
  /\ \A p \in Procs : sweep[p].step = "idle" \/ (Away(p) /\ sweep[p].age < Timeout)
  /\ row' = [d \in Deliveries |->
               IF row[d] # None /\ row[d].due > 0 THEN [row[d] EXCEPT !.due = @ - 1] ELSE row[d]]
  /\ sweep' = [p \in Procs |->
                IF Away(p) THEN [sweep[p] EXCEPT !.age = @ + 1] ELSE sweep[p]]
  /\ UNCHANGED <<emitting, started, faults>> /\ UNCHANGED endpointVars

-----------------------------------------------------------------------------
Pass(p) ==
  \/ SweepBegins(p) \/ (\E d \in Deliveries : ClaimNext(p, d)) \/ ClaimsEnd(p) \/ SweepEnds(p)
  \/ ReadRow(p) \/ ClaimAttempt(p) \/ Look(p) \/ Resolve(p) \/ Answer(p)
  \/ Record(p) \/ Reset(p) \/ Count(p) \/ Disable(p)

Next ==
  \/ \E d \in Deliveries : Emit(d) \/ Insert(d) \/ LoseEvent(d)
  \/ \E p \in Procs : Pass(p) \/ Stumble(p) \/ Die(p)
  \/ Switch \/ Remove \/ RemoveLog \/ ViewChanges
  \/ Tick

Spec == Init /\ [][Next]_vars

(* Processes run their passes, and resolvers and endpoints answer or are   *)
(* given up.                                                               *)
Fairness ==
  /\ \A p \in Procs : WF_vars(Pass(p))
  /\ \A d \in Deliveries : WF_vars(Insert(d))
  /\ WF_vars(RemoveLog)
  /\ WF_vars(Tick)

FairSpec == Spec /\ Fairness

-----------------------------------------------------------------------------
(* Properties.                                                             *)

(* Every variable keeps its type.                                          *)
TypeOK ==
  /\ row \in [Deliveries -> Rows \cup {None}]
  /\ emitting \subseteq Deliveries
  /\ sub \in [there : BOOLEAN, enabled : BOOLEAN, failures : Nat]
  /\ removing \in BOOLEAN /\ visible \in BOOLEAN
  /\ sweep \in [Procs -> Sweeps]
  /\ started \in [Deliveries -> Nat]
  /\ faults \in 0..MaxFaults

\* From the attempt's claim until its outcome is recorded.
InAttempt(p, d) == sweep[p].step \in {"look", "resolve", "post", "record"} /\ At(p) = d

(* Two sweeps never have one delivery under way at once: the claim of a    *)
(* row lasts as long as its batch takes (delivery.ts:9, 47).               *)
OneAttemptAtATime ==
  \A p, q \in Procs, d \in Deliveries : InAttempt(p, d) /\ InAttempt(q, d) => p = q

(* What was recorded of a delivery that is over stands until the row is    *)
(* deleted with its subscription, and nothing delivered is sent again: no  *)
(* late answer reopens it. Only its own attempt may record an error over   *)
(* it, when a write after it failed or its answer was lost: a delivery     *)
(* that was received is then sent again (delivery.ts:489).                 *)
OutcomeStands ==
  [][\A d \in Deliveries :
       row[d] # None /\ ~Pending(d) =>
         /\ started'[d] = started[d]
         /\ \/ row'[d] \in {row[d], None}
            \/ \E p \in Procs : /\ sweep[p].step = "record" /\ sweep[p].outcome = "error"
                               /\ At(p) = d /\ sweep[p].made = row[d].attempt /\ faults > 0]_vars

(* A delivery is given up after its attempts, and one more for each fault, *)
(* such as a death before the last one was recorded (delivery.ts:278).     *)
GivesUp == \A d \in Deliveries : started[d] <= MaxAttempts + faults

\* Deliveries that were given up.
Dead == {d \in Deliveries : row[d] # None /\ row[d].status = "failed"}

(* The streak an endpoint is disabled by counts no attempt of a delivery   *)
(* that goes on, and a dead one only once, but for a write of an outcome   *)
(* that failed or whose answer was lost: the catch may then count the dead *)
(* delivery again (delivery.ts:299, 490), though "the auto-disable         *)
(* threshold counts dead deliveries" (delivery.ts:272).                    *)
StreakJustified == sub.there => sub.failures <= Cardinality(Dead) + faults

(* Every delivery ends, whatever dies, answers late or is switched off.    *)
EventuallyOver == \A d \in Deliveries : []<>~Pending(d)
=============================================================================
