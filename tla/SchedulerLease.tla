--------------------------- MODULE SchedulerLease ---------------------------
(***************************************************************************)
(* The server processes' background scheduler (packages/server/src/        *)
(* services/scheduler/scheduler.ts) over the row of one recurring job      *)
(* (services/scheduler/lease.ts, models/ScheduledJob.ts).                  *)
(*                                                                         *)
(* At each poll a process makes sure the row exists, pulls a far next run  *)
(* back, and claims the run with one conditional update. It renews the     *)
(* lease while the handler runs, asks the handler to stop when the lease   *)
(* may be lost, and gives the job back at the end. Every request to the    *)
(* database carries instants the process read before it sent it; requests  *)
(* take up to OpLimit, fail, or are applied with their answer lost, and    *)
(* processes die, stop and start again at any point.                       *)
(*                                                                         *)
(* Time is a counter, the clocks of the processes agree, and timers are    *)
(* not late: the clock does not pass an instant at which one is due.       *)
(***************************************************************************)
EXTENDS Integers

CONSTANTS
  Procs,        \* server processes
  None,
  Interval,     \* Procs -> intervalMs: builds of a rolling deploy may differ
  Lease,        \* leaseMs
  RenewEvery,   \* delay of the renewal timer, min(30 s, leaseMs / 3)
  OpLimit,      \* timeoutMS of a request to the database
  MaxTime,      \* bound: instants a behaviour reaches
  MaxFaults     \* bound: failed requests and deaths in a behaviour

ASSUME ScheduleAssumption ==
  /\ Interval \in [Procs -> Nat \ {0}]
  /\ Lease \in Nat \ {0}
  /\ RenewEvery \in Nat \ {0}
  /\ OpLimit \in Nat
  /\ MaxTime \in Nat \ {0}
  /\ MaxFaults \in Nat

Times == 0..MaxTime

(* Each run of a process has an owner name of its own; its tick identifies it. *)
Owners == [proc : Procs, tick : Times]

(* Instant 0 stands for a null lockedUntil and a null lastRunAt.           *)
Jobs == [nextRunAt : Nat, lockedBy : Owners \cup {None}, lockedUntil : Nat, lastRunAt : Times]

Steps == {"idle", "insert", "pull", "ensured", "claim", "held", "handle", "drain", "release"}

ASSUME NoneAssumption == None \notin Owners /\ None \notin Jobs

VARIABLES
  clock,
  job,         \* the row of the job, None before a process inserts it
  life,        \* Procs -> "up", "stopping" or "down"
  step,        \* Procs -> how far its run of the job is
  now,         \* Procs -> the instant of the tick the run belongs to
  until,       \* Procs -> when the armed expiry timer fires
  lost,        \* Procs -> the run's leaseLost
  renewal,     \* Procs -> its renewal: off, timer armed, sent, or answered
  renewAt,     \* Procs -> when the timer fires, then the renewal's instant
  faults

runVars == <<step, now, until, lost, renewal, renewAt>>
vars == <<clock, job, life, step, now, until, lost, renewal, renewAt, faults>>

Init ==
  /\ clock = 1
  /\ job = None
  /\ life = [p \in Procs |-> "up"]
  /\ step = [p \in Procs |-> "idle"]
  /\ now = [p \in Procs |-> 0]
  /\ until = [p \in Procs |-> 0]
  /\ lost = [p \in Procs |-> FALSE]
  /\ renewal = [p \in Procs |-> "off"]
  /\ renewAt = [p \in Procs |-> 0]
  /\ faults = 0

Owner(p) == [proc |-> p, tick |-> now[p]]

Goto(p, s) == step' = [step EXCEPT ![p] = s]

Fault == faults < MaxFaults /\ faults' = faults + 1

Working(p) == step[p] = "handle"

(* A renewal is under way: asked for, or answered and not yet noted.       *)
Asked == {"sent", "renewed", "refused"}

-----------------------------------------------------------------------------
(* One pass over the job: tick and runOne                                  *)

Tick(p) ==
  /\ life[p] = "up"
  /\ step[p] = "idle"
  /\ now[p] < clock
  /\ Goto(p, "insert")
  /\ now' = [now EXCEPT ![p] = clock]
  /\ UNCHANGED <<clock, job, life, until, lost, renewal, renewAt, faults>>

(* The upsert of ensureScheduledJob: due now if the row is new.            *)
EnsureInsert(p) ==
  /\ step[p] = "insert"
  /\ job' = IF job = None
              THEN [nextRunAt |-> now[p], lockedBy |-> None, lockedUntil |-> 0, lastRunAt |-> 0]
              ELSE job
  /\ Goto(p, "pull")
  /\ UNCHANGED <<clock, life, now, until, lost, renewal, renewAt, faults>>

Earlier(a, b) == IF a < b THEN a ELSE b

(* Its second update pulls a far-future run back.                          *)
EnsurePull(p) ==
  /\ step[p] = "pull"
  /\ job' = [job EXCEPT !.nextRunAt = Earlier(@, now[p] + Interval[p])]
  /\ Goto(p, "ensured")
  /\ UNCHANGED <<clock, life, now, until, lost, renewal, renewAt, faults>>

(* A process that began to stop claims nothing more.                       *)
SendClaim(p) ==
  /\ step[p] = "ensured"
  /\ Goto(p, IF life[p] = "up" THEN "claim" ELSE "idle")
  /\ UNCHANGED <<clock, job, life, now, until, lost, renewal, renewAt, faults>>

(* A mutant: whoever still runs is not looked at.                          *)
DueUnleased(p) == job.nextRunAt <= now[p]

Due(p) == job.nextRunAt <= now[p] /\ job.lockedUntil <= now[p]

(* A mutant: the next run is left where it was.                            *)
ClaimedStillDue(p) ==
  [nextRunAt   |-> job.nextRunAt,
   lockedBy    |-> Owner(p),
   lockedUntil |-> now[p] + Lease,
   lastRunAt   |-> now[p]]

(* The claim moves the next run on at once: a run happens once per         *)
(* interval, not once per free moment.                                     *)
Claimed(p) ==
  [nextRunAt   |-> now[p] + Interval[p],
   lockedBy    |-> Owner(p),
   lockedUntil |-> now[p] + Lease,
   lastRunAt   |-> now[p]]

Claim(p) ==
  /\ step[p] = "claim"
  /\ Due(p)
  /\ job' = Claimed(p)
  /\ Goto(p, "held")
  /\ UNCHANGED <<clock, life, now, until, lost, renewal, renewAt, faults>>

NotClaimed(p) ==
  /\ step[p] = "claim"
  /\ ~Due(p)
  /\ Goto(p, "idle")
  /\ UNCHANGED <<clock, job, life, now, until, lost, renewal, renewAt, faults>>

(* The claim's answer arrives. The handler does not start under a lease    *)
(* that lapsed on the way, nor in a process that began to stop.            *)
Start(p) ==
  /\ step[p] = "held"
  /\ IF clock >= now[p] + Lease \/ life[p] # "up"
       THEN Goto(p, "release") /\ UNCHANGED <<until, renewal, renewAt>>
       ELSE /\ Goto(p, "handle")
            /\ until' = [until EXCEPT ![p] = now[p] + Lease]
            /\ renewal' = [renewal EXCEPT ![p] = "timer"]
            /\ renewAt' = [renewAt EXCEPT ![p] = clock + RenewEvery]
  /\ UNCHANGED <<clock, job, life, now, lost, faults>>

(* armExpiry's timer.                                                      *)
Expire(p) ==
  /\ Working(p)
  /\ ~lost[p]
  /\ clock >= until[p]
  /\ lost' = [lost EXCEPT ![p] = TRUE]
  /\ UNCHANGED <<clock, job, life, step, now, until, renewal, renewAt, faults>>

(* The timers are the run's own: they end with its handler.                *)
ForgetLease(p) ==
  /\ until' = [until EXCEPT ![p] = 0]
  /\ lost' = [lost EXCEPT ![p] = FALSE]

NoRenewal(p) ==
  /\ renewal' = [renewal EXCEPT ![p] = "off"]
  /\ renewAt' = [renewAt EXCEPT ![p] = 0]

(* A mutant: the answer to a renewal is not waited for.                    *)
HandlerEndsAtOnce(p) ==
  /\ Working(p)
  /\ Goto(p, "release")
  /\ IF renewal[p] \in Asked THEN UNCHANGED <<renewal, renewAt>> ELSE NoRenewal(p)
  /\ ForgetLease(p)
  /\ UNCHANGED <<clock, job, life, now, faults>>

(* The handler returns or throws, by itself or because it was asked to stop. *)
HandlerEnds(p) ==
  /\ Working(p)
  /\ Goto(p, IF renewal[p] \in Asked THEN "drain" ELSE "release")
  /\ IF renewal[p] \in Asked THEN UNCHANGED <<renewal, renewAt>> ELSE NoRenewal(p)
  /\ ForgetLease(p)
  /\ UNCHANGED <<clock, job, life, now, faults>>

(* A mutant: whoever holds the job by now loses it.                        *)
ReleasedAnyones(p) == [job EXCEPT !.lockedBy = None, !.lockedUntil = 0]

(* Filtered on the owner: a successor's lease is not this run's to clear.  *)
Released(p) ==
  IF job.lockedBy = Owner(p) THEN [job EXCEPT !.lockedBy = None, !.lockedUntil = 0] ELSE job

Release(p) ==
  /\ step[p] = "release"
  /\ job' = Released(p)
  /\ Goto(p, "idle")
  /\ UNCHANGED <<clock, life, now, until, lost, renewal, renewAt, faults>>

-----------------------------------------------------------------------------
(* Renewals, beside the handler                                            *)

SendRenewal(p) ==
  /\ Working(p)
  /\ renewal[p] = "timer"
  /\ clock >= renewAt[p]
  /\ renewal' = [renewal EXCEPT ![p] = "sent"]
  /\ renewAt' = [renewAt EXCEPT ![p] = clock]
  /\ UNCHANGED <<clock, job, life, step, now, until, lost, faults>>

(* Only its own claim, and only while that was live at the instant given.  *)
Renewable(p) == job.lockedBy = Owner(p) /\ job.lockedUntil > renewAt[p]

(* A mutant: each renewal adds a lease to what is left of the last one.    *)
RenewedPastEnd(p) == job.lockedUntil + Lease

RenewedUntil(p) == renewAt[p] + Lease

Renew(p) ==
  /\ renewal[p] = "sent"
  /\ job' = IF Renewable(p) THEN [job EXCEPT !.lockedUntil = RenewedUntil(p)] ELSE job
  /\ renewal' = [renewal EXCEPT ![p] = IF Renewable(p) THEN "renewed" ELSE "refused"]
  /\ UNCHANGED <<clock, life, step, now, until, lost, renewAt, faults>>

(* scheduleRenewal arms no timer for a run that ended or lost its lease.   *)
RenewAgain(p, gone) ==
  IF Working(p) /\ ~gone
    THEN /\ renewal' = [renewal EXCEPT ![p] = "timer"]
         /\ renewAt' = [renewAt EXCEPT ![p] = clock + RenewEvery]
    ELSE NoRenewal(p)

(* A mutant: nothing wakes the run that waits.                             *)
DrainedNever(p) == UNCHANGED step

(* A run that waited for this answer goes on to release.                   *)
Drained(p) == step' = [step EXCEPT ![p] = IF @ = "drain" THEN "release" ELSE @]

Renewed(p) ==
  /\ renewal[p] = "renewed"
  /\ until' = [until EXCEPT ![p] = IF Working(p) /\ ~lost[p] THEN renewAt[p] + Lease ELSE @]
  /\ RenewAgain(p, lost[p])
  /\ Drained(p)
  /\ UNCHANGED <<clock, job, life, now, lost, faults>>

(* Refused, or no answer: either way the lease may be gone.                *)
GiveUpLease(p) ==
  /\ lost' = [lost EXCEPT ![p] = Working(p)]
  /\ RenewAgain(p, TRUE)
  /\ Drained(p)
  /\ UNCHANGED <<clock, job, life, now, until>>

RenewalRefused(p) == renewal[p] = "refused" /\ GiveUpLease(p) /\ UNCHANGED faults

(* A fault, before or after the database applied it.                       *)
RenewalFails(p) == renewal[p] \in Asked /\ GiveUpLease(p) /\ Fault

-----------------------------------------------------------------------------
(* Failures, shutdown and the clock                                        *)

(* A request of the pass fails, or its answer is lost: the pass is over.   *)
(* A claim that was applied stays until its lease lapses.                  *)
RequestFails(p) ==
  /\ step[p] \in {"insert", "pull", "claim", "held", "release"}
  /\ Goto(p, "idle")
  /\ Fault
  /\ UNCHANGED <<clock, job, life, now, until, lost, renewal, renewAt>>

(* stop: no new passes, the handlers are asked to end, and it returns when *)
(* every pass is over.                                                     *)
Stop(p) ==
  /\ life[p] = "up"
  /\ life' = [life EXCEPT ![p] = "stopping"]
  /\ UNCHANGED <<clock, job, step, now, until, lost, renewal, renewAt, faults>>

StopReturns(p) ==
  /\ life[p] = "stopping"
  /\ step[p] = "idle"
  /\ life' = [life EXCEPT ![p] = "down"]
  /\ UNCHANGED <<clock, job, step, now, until, lost, renewal, renewAt, faults>>

(* A fault: the process dies, or its shutdown is forced after 28 s.        *)
Die(p) ==
  /\ life[p] # "down"
  /\ life' = [life EXCEPT ![p] = "down"]
  /\ Goto(p, "idle")
  /\ ForgetLease(p)
  /\ NoRenewal(p)
  /\ Fault
  /\ UNCHANGED <<clock, job, now>>

Boot(p) ==
  /\ life[p] = "down"
  /\ life' = [life EXCEPT ![p] = "up"]
  /\ UNCHANGED <<clock, job, step, now, until, lost, renewal, renewAt, faults>>

(* A request of the pass is answered, or given up, in time; a timer fires  *)
(* when it is due.                                                         *)
InTime(p) ==
  /\ step[p] = "insert" => clock < now[p] + OpLimit
  /\ step[p] \in {"pull", "ensured"} => clock < now[p] + 2 * OpLimit
  /\ step[p] \in {"claim", "held"} => clock < now[p] + 3 * OpLimit
  /\ renewal[p] \in Asked => clock < renewAt[p] + OpLimit
  /\ Working(p) /\ renewal[p] = "timer" => clock < renewAt[p]
  /\ Working(p) /\ ~lost[p] => clock < until[p]

Advance ==
  /\ clock < MaxTime
  /\ \A p \in Procs : InTime(p)
  /\ clock' = clock + 1
  /\ UNCHANGED <<job, life, runVars, faults>>

Pass(p) ==
  \/ Tick(p)
  \/ EnsureInsert(p)
  \/ EnsurePull(p)
  \/ SendClaim(p)
  \/ Claim(p)
  \/ NotClaimed(p)
  \/ Start(p)
  \/ Expire(p)
  \/ HandlerEnds(p)
  \/ Release(p)
  \/ SendRenewal(p)
  \/ Renew(p)
  \/ Renewed(p)
  \/ RenewalRefused(p)

Next ==
  \/ \E p \in Procs :
       \/ Pass(p)
       \/ RenewalFails(p)
       \/ RequestFails(p)
       \/ Stop(p)
       \/ StopReturns(p)
       \/ Die(p)
       \/ Boot(p)
  \/ Advance

Spec == Init /\ [][Next]_vars

(* A process that lives gets on with its pass, and its handler ends.       *)
Fairness ==
  \A p \in Procs :
    /\ WF_vars(HandlerEnds(p))
    /\ WF_vars(Renew(p) \/ Renewed(p) \/ RenewalRefused(p))
    /\ WF_vars(Pass(p) \/ StopReturns(p))

FairSpec == Spec /\ Fairness

-----------------------------------------------------------------------------

(* Every variable keeps its type.                                          *)
TypeOK ==
  /\ clock \in Times
  /\ job \in Jobs \cup {None}
  /\ life \in [Procs -> {"up", "stopping", "down"}]
  /\ step \in [Procs -> Steps]
  /\ now \in [Procs -> Times]
  /\ until \in [Procs -> Nat]
  /\ lost \in [Procs -> BOOLEAN]
  /\ renewal \in [Procs -> {"off", "timer", "sent", "renewed", "refused"}]
  /\ renewAt \in [Procs -> Nat]
  /\ faults \in 0..MaxFaults

(* The handler runs and its expiry timer has not fired.                    *)
Live(p) == Working(p) /\ ~lost[p] /\ clock < until[p]

(* Two handlers never both work under a lease they take for live: what     *)
(* keeps a slow run from getting a second one beside it.                   *)
OneLiveRun == \A p, q \in Procs : Live(p) /\ Live(q) => p = q

(* A live lease is taken from its owner by nobody: not by a late release   *)
(* or renewal of the run before it, and not by another claim.              *)
LeaseRespected ==
  [][(job # None /\ job.lockedBy # None /\ clock < job.lockedUntil)
       => \/ job'.lockedBy = job.lockedBy /\ job'.lockedUntil >= job.lockedUntil
          \/ \E p \in Procs : job.lockedBy = Owner(p) /\ step[p] = "release"]_vars

(* Runs follow each other by an interval, up to the age a process's        *)
(* instant may have when its update of the next run is applied.            *)
OncePerInterval ==
  [][\A p \in Procs :
       (step[p] = "claim" /\ step'[p] = "held" /\ job.lastRunAt > 0)
         => \E q \in Procs : now[p] + 2 * OpLimit >= job.lastRunAt + Interval[q]]_vars

(* Whatever dies or fails, the job is free for its next run within one     *)
(* lease and due within one interval of every instant.                     *)
NeverBlockedLong ==
  job # None => /\ job.lockedUntil <= clock + Lease
                /\ \E p \in Procs : job.nextRunAt <= clock + Interval[p]

(* A pass that is over has left no renewal on its way: what a stopped      *)
(* scheduler promises before the database connection is closed.            *)
NothingLeftBehind ==
  \A p \in Procs : step[p] \notin {"handle", "drain"} => renewal[p] = "off"

(* stop returns.                                                           *)
StopEnds == \A p \in Procs : []<>(life[p] # "stopping")

=============================================================================
