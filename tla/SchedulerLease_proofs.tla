----------------------- MODULE SchedulerLease_proofs -----------------------
(***************************************************************************)
(* Safety of the scheduler's lease, for any number of processes, any       *)
(* lengths of interval, lease, renewal delay and request timeout, and any  *)
(* number of faults.                                                       *)
(***************************************************************************)
EXTENDS SchedulerLease, TLAPS

(* Where a run stands in time. A process renews only while its handler     *)
(* works or waits; a pass is bounded by the timeouts of its requests.      *)
RunInv ==
  \A p \in Procs :
    /\ now[p] <= clock
    /\ step[p] \notin {"idle", "insert"} => job # None
    /\ step[p] = "drain" => renewal[p] \in Asked
    /\ step[p] \notin {"handle", "drain"} => renewal[p] = "off"
    /\ step[p] = "insert" => clock <= now[p] + OpLimit
    /\ step[p] = "pull" => clock <= now[p] + 2 * OpLimit
    /\ until[p] <= clock + Lease
    /\ renewal[p] \in Asked => renewAt[p] <= clock /\ until[p] <= renewAt[p] + Lease

(* The row is never far ahead of the clock, names an owner that existed,   *)
(* and keeps the next run about an interval behind the last one.           *)
JobInv ==
  job # None =>
    /\ job.lockedUntil <= clock + Lease
    /\ \E q \in Procs : job.nextRunAt <= clock + Interval[q]
    /\ job.lastRunAt <= clock
    /\ job.lockedBy # None => job.lockedBy.tick <= now[job.lockedBy.proc]
    /\ job.lastRunAt > 0 => \E q \in Procs : job.nextRunAt + 2 * OpLimit >= job.lastRunAt + Interval[q]

(* What a run believes of its lease is what the row says, as long as the   *)
(* lease can be live: after the claim, while the handler works, and when a *)
(* renewal was applied. A renewal never shortens what it renews.           *)
LeaseInv ==
  \A p \in Procs :
    /\ step[p] = "held" /\ clock < now[p] + Lease
         => job.lockedBy = Owner(p) /\ job.lockedUntil >= now[p] + Lease
    /\ Live(p) => job.lockedBy = Owner(p) /\ job.lockedUntil >= until[p]
    /\ renewal[p] = "renewed" /\ clock < renewAt[p] + Lease
         => job.lockedBy = Owner(p) /\ job.lockedUntil >= renewAt[p] + Lease
    /\ renewal[p] = "sent" /\ job.lockedBy = Owner(p)
         => job.lockedUntil <= renewAt[p] + Lease

IInv ==
  /\ TypeOK
  /\ RunInv
  /\ JobInv
  /\ LeaseInv

LEMMA TickInv == ASSUME IInv, NEW p \in Procs, Tick(p) PROVE IInv'
<1> USE ScheduleAssumption, NoneAssumption
<1>1. TypeOK'
  BY DEF IInv, TypeOK, Tick, Goto, Times, Steps, Jobs, Owners, Owner, RunInv
<1>2. RunInv'
  BY DEF IInv, TypeOK, RunInv, Tick, Goto, Working, Asked, Times
<1>3. JobInv'
  BY DEF IInv, TypeOK, RunInv, JobInv, Tick, Goto, Times, Jobs, Owners, Owner
<1>4. LeaseInv'
  BY DEF IInv, TypeOK, RunInv, JobInv, LeaseInv, Tick, Goto, Live, Working, Asked, Owner, Times, Jobs, Owners
<1> QED BY <1>1, <1>2, <1>3, <1>4 DEF IInv

LEMMA EnsureInsertInv == ASSUME IInv, NEW p \in Procs, EnsureInsert(p) PROVE IInv'
<1> USE ScheduleAssumption, NoneAssumption
<1>1. TypeOK'
  BY DEF IInv, TypeOK, EnsureInsert, Goto, Times, Steps, Jobs, Owners, Owner, RunInv
<1>j. job' # None /\ (job # None => job' = job)
  BY DEF IInv, TypeOK, EnsureInsert, Jobs, Times
<1>2. RunInv'
  BY <1>j DEF IInv, TypeOK, RunInv, EnsureInsert, Goto, Working, Asked, Times
<1>3. JobInv'
  <2>1. CASE job # None
    BY <1>j, <2>1 DEF IInv, JobInv, EnsureInsert
  <2>2. CASE job = None
    <3>1. now[p] \in Nat /\ now[p] <= clock /\ clock \in Nat /\ Interval[p] \in Nat
      BY DEF IInv, TypeOK, RunInv, Times
    <3>2. /\ job'.nextRunAt = now[p] /\ job'.lockedBy = None /\ job'.lockedUntil = 0 /\ job'.lastRunAt = 0
          /\ clock' = clock
      BY <2>2 DEF EnsureInsert
    <3> QED BY <3>1, <3>2 DEF JobInv
  <2> QED BY <2>1, <2>2
<1>4. LeaseInv'
  BY DEF IInv, TypeOK, RunInv, JobInv, LeaseInv, EnsureInsert, Goto, Live, Working, Asked, Owner, Times, Jobs, Owners
<1> QED BY <1>1, <1>2, <1>3, <1>4 DEF IInv

LEMMA EnsurePullInv == ASSUME IInv, NEW p \in Procs, EnsurePull(p) PROVE IInv'
<1> USE ScheduleAssumption, NoneAssumption
<1>j. /\ job \in Jobs /\ job' \in Jobs
      /\ job'.nextRunAt = Earlier(job.nextRunAt, now[p] + Interval[p])
      /\ job'.lockedBy = job.lockedBy /\ job'.lockedUntil = job.lockedUntil /\ job'.lastRunAt = job.lastRunAt
  <2>1. job \in Jobs /\ now[p] \in Nat
    BY DEF IInv, TypeOK, RunInv, EnsurePull, Times
  <2>2. job' = [job EXCEPT !.nextRunAt = Earlier(job.nextRunAt, now[p] + Interval[p])]
    BY <2>1 DEF EnsurePull, Jobs
  <2>3. Earlier(job.nextRunAt, now[p] + Interval[p]) \in Nat
    BY <2>1 DEF Earlier, Jobs
  <2> QED BY <2>1, <2>2, <2>3 DEF Jobs
<1>n. job # None /\ job' # None
  BY <1>j
<1>1. TypeOK'
  BY <1>j DEF IInv, TypeOK, EnsurePull, Goto, Steps
<1>2. RunInv'
  BY <1>n DEF IInv, TypeOK, RunInv, EnsurePull, Goto, Working, Asked, Times
<1>3. JobInv'
  <2>1. /\ now[p] \in Nat /\ now[p] <= clock /\ clock <= now[p] + 2 * OpLimit /\ clock \in Nat
        /\ Interval[p] \in Nat /\ clock' = clock /\ now' = now
    BY DEF IInv, TypeOK, RunInv, Times, EnsurePull
  <2>2. job'.nextRunAt = job.nextRunAt \/ job'.nextRunAt = now[p] + Interval[p]
    BY <1>j DEF Earlier
  <2>3. JobInv /\ job.lastRunAt \in Nat /\ job.nextRunAt \in Nat
    BY <1>j DEF IInv, Jobs, Times
  <2> QED BY <1>j, <1>n, <2>1, <2>2, <2>3 DEF JobInv
<1>4. LeaseInv'
  BY DEF IInv, TypeOK, RunInv, JobInv, LeaseInv, EnsurePull, Goto, Earlier, Live, Working, Asked, Owner, Times, Jobs, Owners
<1> QED BY <1>1, <1>2, <1>3, <1>4 DEF IInv

LEMMA SendClaimInv == ASSUME IInv, NEW p \in Procs, SendClaim(p) PROVE IInv'
<1> USE ScheduleAssumption, NoneAssumption
<1>1. TypeOK'
  BY DEF IInv, TypeOK, SendClaim, Goto, Times, Steps, Jobs, Owners, Owner, RunInv
<1>2. RunInv'
  BY DEF IInv, TypeOK, RunInv, SendClaim, Goto, Working, Asked, Times
<1>3. JobInv'
  BY DEF IInv, TypeOK, RunInv, JobInv, SendClaim, Goto, Times, Jobs, Owners, Owner
<1>4. LeaseInv'
  BY DEF IInv, TypeOK, RunInv, JobInv, LeaseInv, SendClaim, Goto, Live, Working, Asked, Owner, Times, Jobs, Owners
<1> QED BY <1>1, <1>2, <1>3, <1>4 DEF IInv

LEMMA ClaimInv == ASSUME IInv, NEW p \in Procs, Claim(p) PROVE IInv'
<1> USE ScheduleAssumption, NoneAssumption
<1>j. /\ job' \in Jobs /\ job' # None /\ Owner(p) \in Owners
      /\ job'.nextRunAt = now[p] + Interval[p] /\ job'.lockedBy = Owner(p)
      /\ job'.lockedUntil = now[p] + Lease /\ job'.lastRunAt = now[p]
  <2>1. now[p] \in Times /\ Owner(p) \in Owners
    BY DEF IInv, TypeOK, Owner, Owners
  <2>2. job' = Claimed(p)
    BY DEF Claim
  <2>3. Claimed(p) \in Jobs
    BY <2>1 DEF Claimed, Jobs, Times
  <2> QED BY <2>1, <2>2, <2>3 DEF Claimed
<1>1. TypeOK'
  BY <1>j DEF IInv, TypeOK, Claim, Goto, Steps
<1>2. RunInv'
  BY <1>j DEF IInv, TypeOK, RunInv, Claim, Goto, Working, Asked, Times
<1>3. JobInv'
  <2>1. /\ now[p] \in Nat /\ now[p] <= clock /\ clock \in Nat /\ Interval[p] \in Nat
        /\ clock' = clock /\ now' = now
    BY DEF IInv, TypeOK, RunInv, Times, Claim
  <2> QED BY <1>j, <2>1 DEF JobInv, Owner
<1>4. LeaseInv'
  BY DEF IInv, TypeOK, RunInv, JobInv, LeaseInv, Claim, Goto, Due, Claimed, Owner, Live, Working, Asked, Times, Jobs, Owners
<1> QED BY <1>1, <1>2, <1>3, <1>4 DEF IInv

LEMMA NotClaimedInv == ASSUME IInv, NEW p \in Procs, NotClaimed(p) PROVE IInv'
<1> USE ScheduleAssumption, NoneAssumption
<1>1. TypeOK'
  BY DEF IInv, TypeOK, NotClaimed, Goto, Times, Steps, Jobs, Owners, Owner, RunInv
<1>2. RunInv'
  BY DEF IInv, TypeOK, RunInv, NotClaimed, Goto, Working, Asked, Times
<1>3. JobInv'
  BY DEF IInv, TypeOK, RunInv, JobInv, NotClaimed, Goto, Times, Jobs, Owners, Owner
<1>4. LeaseInv'
  BY DEF IInv, TypeOK, RunInv, JobInv, LeaseInv, NotClaimed, Goto, Live, Working, Asked, Owner, Times, Jobs, Owners
<1> QED BY <1>1, <1>2, <1>3, <1>4 DEF IInv

LEMMA StartInv == ASSUME IInv, NEW p \in Procs, Start(p) PROVE IInv'
<1> USE ScheduleAssumption, NoneAssumption
<1>1. TypeOK'
  BY DEF IInv, TypeOK, Start, Goto, Times, Steps, Jobs, Owners, Owner, RunInv
<1>2. RunInv'
  BY DEF IInv, TypeOK, RunInv, Start, Goto, Working, Asked, Times
<1>3. JobInv'
  BY DEF IInv, TypeOK, RunInv, JobInv, Start, Goto, Times, Jobs, Owners, Owner
<1>4. LeaseInv'
  BY DEF IInv, TypeOK, RunInv, JobInv, LeaseInv, Start, Goto, Live, Working, Asked, Owner, Times, Jobs, Owners
<1> QED BY <1>1, <1>2, <1>3, <1>4 DEF IInv

LEMMA ExpireInv == ASSUME IInv, NEW p \in Procs, Expire(p) PROVE IInv'
<1> USE ScheduleAssumption, NoneAssumption
<1>1. TypeOK'
  BY DEF IInv, TypeOK, Expire, Working, Times, Steps, Jobs, Owners, Owner, RunInv
<1>2. RunInv'
  BY DEF IInv, TypeOK, RunInv, Expire, Working, Asked, Times
<1>3. JobInv'
  BY DEF IInv, TypeOK, RunInv, JobInv, Expire, Working, Times, Jobs, Owners, Owner
<1>4. LeaseInv'
  BY DEF IInv, TypeOK, RunInv, JobInv, LeaseInv, Expire, Working, Live, Asked, Owner, Times, Jobs, Owners
<1> QED BY <1>1, <1>2, <1>3, <1>4 DEF IInv

LEMMA HandlerEndsInv == ASSUME IInv, NEW p \in Procs, HandlerEnds(p) PROVE IInv'
<1> USE ScheduleAssumption, NoneAssumption
<1>1. TypeOK'
  BY DEF IInv, TypeOK, HandlerEnds, Goto, Working, Asked, NoRenewal, ForgetLease, Times, Steps, Jobs, Owners, Owner, RunInv
<1>2. RunInv'
  BY DEF IInv, TypeOK, RunInv, HandlerEnds, Goto, Working, Asked, NoRenewal, ForgetLease, Times
<1>3. JobInv'
  BY DEF IInv, TypeOK, RunInv, JobInv, HandlerEnds, Goto, Working, Asked, NoRenewal, ForgetLease, Times, Jobs, Owners, Owner
<1>4. LeaseInv'
  BY DEF IInv, TypeOK, RunInv, JobInv, LeaseInv, HandlerEnds, Goto, Working, Asked, NoRenewal, ForgetLease, Live, Owner, Times, Jobs, Owners
<1> QED BY <1>1, <1>2, <1>3, <1>4 DEF IInv

LEMMA ReleaseInv == ASSUME IInv, NEW p \in Procs, Release(p) PROVE IInv'
<1> USE ScheduleAssumption, NoneAssumption
<1>j. job' # None
  <2>1. job \in Jobs
    BY DEF IInv, TypeOK, RunInv, Release
  <2>2. job' = job \/ job' = [job EXCEPT !.lockedBy = None, !.lockedUntil = 0]
    BY DEF Release, Released
  <2>3. [job EXCEPT !.lockedBy = None, !.lockedUntil = 0] \in Jobs
    BY <2>1 DEF Jobs
  <2> QED BY <2>1, <2>2, <2>3
<1>1. TypeOK'
  BY DEF IInv, TypeOK, Release, Goto, Released, Times, Steps, Jobs, Owners, Owner, RunInv
<1>2. RunInv'
  BY <1>j DEF IInv, TypeOK, RunInv, Release, Goto, Released, Working, Asked, Times
<1>3. JobInv'
  BY DEF IInv, TypeOK, RunInv, JobInv, Release, Goto, Released, Times, Jobs, Owners, Owner
<1>4. LeaseInv'
  BY DEF IInv, TypeOK, RunInv, JobInv, LeaseInv, Release, Goto, Released, Live, Working, Asked, Owner, Times, Jobs, Owners
<1> QED BY <1>1, <1>2, <1>3, <1>4 DEF IInv

LEMMA SendRenewalInv == ASSUME IInv, NEW p \in Procs, SendRenewal(p) PROVE IInv'
<1> USE ScheduleAssumption, NoneAssumption
<1>1. TypeOK'
  BY DEF IInv, TypeOK, SendRenewal, Working, Times, Steps, Jobs, Owners, Owner, RunInv
<1>2. RunInv'
  BY DEF IInv, TypeOK, RunInv, SendRenewal, Working, Asked, Times
<1>3. JobInv'
  BY DEF IInv, TypeOK, RunInv, JobInv, SendRenewal, Working, Times, Jobs, Owners, Owner
<1>4. LeaseInv'
  BY DEF IInv, TypeOK, RunInv, JobInv, LeaseInv, SendRenewal, Working, Live, Asked, Owner, Times, Jobs, Owners
<1> QED BY <1>1, <1>2, <1>3, <1>4 DEF IInv

LEMMA RenewInv == ASSUME IInv, NEW p \in Procs, Renew(p) PROVE IInv'
<1> USE ScheduleAssumption, NoneAssumption
<1>j. job' # None
  BY DEF IInv, TypeOK, RunInv, Renew, Renewable, RenewedUntil, Owner, Asked, Jobs, Times
<1>1. TypeOK'
  BY DEF IInv, TypeOK, Renew, Renewable, RenewedUntil, Times, Steps, Jobs, Owners, Owner, RunInv
<1>2. RunInv'
  BY <1>j DEF IInv, TypeOK, RunInv, Renew, Renewable, RenewedUntil, Working, Asked, Times
<1>3. JobInv'
  <2>1. CASE ~Renewable(p)
    BY <2>1 DEF IInv, JobInv, Renew
  <2>2. CASE Renewable(p)
    <3>1. job \in Jobs /\ renewAt[p] \in Nat /\ renewAt[p] <= clock /\ clock \in Nat
      BY DEF IInv, TypeOK, RunInv, Asked, Renew, Times
    <3>2. /\ job'.nextRunAt = job.nextRunAt /\ job'.lockedBy = job.lockedBy
          /\ job'.lockedUntil = renewAt[p] + Lease /\ job'.lastRunAt = job.lastRunAt
          /\ clock' = clock /\ now' = now
      BY <2>2, <3>1 DEF Renew, RenewedUntil, Jobs
    <3> QED BY <3>1, <3>2 DEF IInv, JobInv
  <2> QED BY <2>1, <2>2
<1>4. LeaseInv'
  BY DEF IInv, TypeOK, RunInv, JobInv, LeaseInv, Renew, Renewable, RenewedUntil, Live, Working, Asked, Owner, Times, Jobs, Owners
<1> QED BY <1>1, <1>2, <1>3, <1>4 DEF IInv

LEMMA RenewedInv == ASSUME IInv, NEW p \in Procs, Renewed(p) PROVE IInv'
<1> USE ScheduleAssumption, NoneAssumption
<1>1. TypeOK'
  BY DEF IInv, TypeOK, Renewed, Working, RenewAgain, NoRenewal, Drained, Times, Steps, Jobs, Owners, Owner, RunInv
<1>2. RunInv'
  BY DEF IInv, TypeOK, RunInv, Renewed, Working, RenewAgain, NoRenewal, Drained, Asked, Times
<1>3. JobInv'
  BY DEF IInv, TypeOK, RunInv, JobInv, Renewed, Working, RenewAgain, NoRenewal, Drained, Times, Jobs, Owners, Owner
<1>4. LeaseInv'
  BY DEF IInv, TypeOK, RunInv, JobInv, LeaseInv, Renewed, Working, RenewAgain, NoRenewal, Drained, Live, Asked, Owner, Times, Jobs, Owners
<1> QED BY <1>1, <1>2, <1>3, <1>4 DEF IInv

LEMMA RenewalRefusedInv == ASSUME IInv, NEW p \in Procs, RenewalRefused(p) PROVE IInv'
<1> USE ScheduleAssumption, NoneAssumption
<1>1. TypeOK'
  BY DEF IInv, TypeOK, RenewalRefused, GiveUpLease, Working, RenewAgain, NoRenewal, Drained, Times, Steps, Jobs, Owners, Owner, RunInv
<1>2. RunInv'
  BY DEF IInv, TypeOK, RunInv, RenewalRefused, GiveUpLease, Working, RenewAgain, NoRenewal, Drained, Asked, Times
<1>3. JobInv'
  BY DEF IInv, TypeOK, RunInv, JobInv, RenewalRefused, GiveUpLease, Working, RenewAgain, NoRenewal, Drained, Times, Jobs, Owners, Owner
<1>4. LeaseInv'
  BY DEF IInv, TypeOK, RunInv, JobInv, LeaseInv, RenewalRefused, GiveUpLease, Working, RenewAgain, NoRenewal, Drained, Live, Asked, Owner, Times, Jobs, Owners
<1> QED BY <1>1, <1>2, <1>3, <1>4 DEF IInv

LEMMA RenewalFailsInv == ASSUME IInv, NEW p \in Procs, RenewalFails(p) PROVE IInv'
<1> USE ScheduleAssumption, NoneAssumption
<1>1. TypeOK'
  BY DEF IInv, TypeOK, RenewalFails, GiveUpLease, Working, RenewAgain, NoRenewal, Drained, Fault, Times, Steps, Jobs, Owners, Owner, RunInv
<1>2. RunInv'
  BY DEF IInv, TypeOK, RunInv, RenewalFails, GiveUpLease, Working, RenewAgain, NoRenewal, Drained, Fault, Asked, Times
<1>3. JobInv'
  BY DEF IInv, TypeOK, RunInv, JobInv, RenewalFails, GiveUpLease, Working, RenewAgain, NoRenewal, Drained, Fault, Times, Jobs, Owners, Owner
<1>4. LeaseInv'
  BY DEF IInv, TypeOK, RunInv, JobInv, LeaseInv, RenewalFails, GiveUpLease, Working, RenewAgain, NoRenewal, Drained, Fault, Live, Asked, Owner, Times, Jobs, Owners
<1> QED BY <1>1, <1>2, <1>3, <1>4 DEF IInv

LEMMA RequestFailsInv == ASSUME IInv, NEW p \in Procs, RequestFails(p) PROVE IInv'
<1> USE ScheduleAssumption, NoneAssumption
<1>1. TypeOK'
  BY DEF IInv, TypeOK, RequestFails, Goto, Fault, Times, Steps, Jobs, Owners, Owner, RunInv
<1>2. RunInv'
  BY DEF IInv, TypeOK, RunInv, RequestFails, Goto, Fault, Working, Asked, Times
<1>3. JobInv'
  BY DEF IInv, TypeOK, RunInv, JobInv, RequestFails, Goto, Fault, Times, Jobs, Owners, Owner
<1>4. LeaseInv'
  BY DEF IInv, TypeOK, RunInv, JobInv, LeaseInv, RequestFails, Goto, Fault, Live, Working, Asked, Owner, Times, Jobs, Owners
<1> QED BY <1>1, <1>2, <1>3, <1>4 DEF IInv

LEMMA StopInv == ASSUME IInv, NEW p \in Procs, Stop(p) PROVE IInv'
<1> USE ScheduleAssumption, NoneAssumption
<1>1. TypeOK'
  BY DEF IInv, TypeOK, Stop, Times, Steps, Jobs, Owners, Owner, RunInv
<1>2. RunInv'
  BY DEF IInv, TypeOK, RunInv, Stop, Working, Asked, Times
<1>3. JobInv'
  BY DEF IInv, TypeOK, RunInv, JobInv, Stop, Times, Jobs, Owners, Owner
<1>4. LeaseInv'
  BY DEF IInv, TypeOK, RunInv, JobInv, LeaseInv, Stop, Live, Working, Asked, Owner, Times, Jobs, Owners
<1> QED BY <1>1, <1>2, <1>3, <1>4 DEF IInv

LEMMA StopReturnsInv == ASSUME IInv, NEW p \in Procs, StopReturns(p) PROVE IInv'
<1> USE ScheduleAssumption, NoneAssumption
<1>1. TypeOK'
  BY DEF IInv, TypeOK, StopReturns, Times, Steps, Jobs, Owners, Owner, RunInv
<1>2. RunInv'
  BY DEF IInv, TypeOK, RunInv, StopReturns, Working, Asked, Times
<1>3. JobInv'
  BY DEF IInv, TypeOK, RunInv, JobInv, StopReturns, Times, Jobs, Owners, Owner
<1>4. LeaseInv'
  BY DEF IInv, TypeOK, RunInv, JobInv, LeaseInv, StopReturns, Live, Working, Asked, Owner, Times, Jobs, Owners
<1> QED BY <1>1, <1>2, <1>3, <1>4 DEF IInv

LEMMA DieInv == ASSUME IInv, NEW p \in Procs, Die(p) PROVE IInv'
<1> USE ScheduleAssumption, NoneAssumption
<1>1. TypeOK'
  BY DEF IInv, TypeOK, Die, Goto, ForgetLease, NoRenewal, Fault, Times, Steps, Jobs, Owners, Owner, RunInv
<1>2. RunInv'
  BY DEF IInv, TypeOK, RunInv, Die, Goto, ForgetLease, NoRenewal, Fault, Working, Asked, Times
<1>3. JobInv'
  BY DEF IInv, TypeOK, RunInv, JobInv, Die, Goto, ForgetLease, NoRenewal, Fault, Times, Jobs, Owners, Owner
<1>4. LeaseInv'
  BY DEF IInv, TypeOK, RunInv, JobInv, LeaseInv, Die, Goto, ForgetLease, NoRenewal, Fault, Live, Working, Asked, Owner, Times, Jobs, Owners
<1> QED BY <1>1, <1>2, <1>3, <1>4 DEF IInv

LEMMA BootInv == ASSUME IInv, NEW p \in Procs, Boot(p) PROVE IInv'
<1> USE ScheduleAssumption, NoneAssumption
<1>1. TypeOK'
  BY DEF IInv, TypeOK, Boot, Times, Steps, Jobs, Owners, Owner, RunInv
<1>2. RunInv'
  BY DEF IInv, TypeOK, RunInv, Boot, Working, Asked, Times
<1>3. JobInv'
  BY DEF IInv, TypeOK, RunInv, JobInv, Boot, Times, Jobs, Owners, Owner
<1>4. LeaseInv'
  BY DEF IInv, TypeOK, RunInv, JobInv, LeaseInv, Boot, Live, Working, Asked, Owner, Times, Jobs, Owners
<1> QED BY <1>1, <1>2, <1>3, <1>4 DEF IInv

LEMMA AdvanceInv == ASSUME IInv, Advance PROVE IInv'
<1> USE ScheduleAssumption, NoneAssumption
<1>1. TypeOK'
  BY DEF IInv, TypeOK, Advance, runVars, Times
<1>2. RunInv'
  BY DEF IInv, TypeOK, RunInv, Advance, runVars, InTime, Asked, Times
<1>3. JobInv'
  BY DEF IInv, TypeOK, JobInv, Advance, runVars, Times, Jobs
<1>4. LeaseInv'
  BY DEF IInv, TypeOK, RunInv, LeaseInv, Advance, runVars, InTime, Live, Working, Asked, Owner, Times, Jobs
<1> QED BY <1>1, <1>2, <1>3, <1>4 DEF IInv

LEMMA InitInv == Init => IInv
<1> USE ScheduleAssumption DEF Init
<1>1. Init => TypeOK
  BY DEF TypeOK, Times, Steps
<1>2. Init => RunInv /\ JobInv
  BY DEF RunInv, JobInv, Asked
<1>3. Init => LeaseInv
  BY DEF LeaseInv, Live, Working
<1> QED BY <1>1, <1>2, <1>3 DEF IInv

LEMMA StepInv == IInv /\ [Next]_vars => IInv'
<1> SUFFICES ASSUME IInv, [Next]_vars PROVE IInv'
  OBVIOUS
<1>1. CASE UNCHANGED vars
  BY <1>1 DEF vars, IInv, TypeOK, RunInv, JobInv, LeaseInv, Live, Working, Owner
<1>2. ASSUME NEW p \in Procs, Pass(p) PROVE IInv'
  BY <1>2, TickInv, EnsureInsertInv, EnsurePullInv, SendClaimInv, ClaimInv, NotClaimedInv, StartInv,
     ExpireInv, HandlerEndsInv, ReleaseInv, SendRenewalInv, RenewInv, RenewedInv, RenewalRefusedInv
     DEF Pass
<1> QED
  BY <1>1, <1>2, RenewalFailsInv, RequestFailsInv, StopInv, StopReturnsInv, DieInv, BootInv, AdvanceInv
     DEF Next

THEOREM Invariance == Spec => []IInv
<1>1. Init => IInv
  BY InitInv
<1>2. IInv /\ [Next]_vars => IInv'
  BY StepInv
<1> QED BY <1>1, <1>2, PTL DEF Spec

(* Every variable keeps its type.                                          *)
THEOREM TypeCorrect == Spec => []TypeOK
BY Invariance, PTL DEF IInv

(* No two runs work under leases they take for live: the owner named in    *)
(* the row is one run of one process.                                      *)
THEOREM Exclusive == Spec => []OneLiveRun
<1>1. IInv => OneLiveRun
  <2> SUFFICES ASSUME IInv, NEW p \in Procs, NEW q \in Procs, Live(p), Live(q) PROVE p = q
    BY DEF OneLiveRun
  <2>1. Owner(p) = Owner(q)
    BY DEF IInv, LeaseInv
  <2> QED BY <2>1 DEF Owner
<1> QED BY <1>1, Invariance, PTL

(* No step of the row blocks the job beyond one lease or one interval.     *)
THEOREM Unblocked == Spec => []NeverBlockedLong
<1>1. IInv => NeverBlockedLong
  BY DEF IInv, JobInv, NeverBlockedLong
<1> QED BY <1>1, Invariance, PTL

(* No renewal outlives the run it belongs to.                              *)
THEOREM RenewalsDrained == Spec => []NothingLeftBehind
<1>1. IInv => NothingLeftBehind
  BY DEF IInv, RunInv, NothingLeftBehind
<1> QED BY <1>1, Invariance, PTL

(* A live lease ends by its owner's release only.                          *)
THEOREM LeaseKept == Spec => LeaseRespected
<1> DEFINE Ends == \E p \in Procs : job.lockedBy = Owner(p) /\ step[p] = "release"
           Kept == (job # None /\ job.lockedBy # None /\ clock < job.lockedUntil)
                     => (job'.lockedBy = job.lockedBy /\ job'.lockedUntil >= job.lockedUntil) \/ Ends
<1>1. IInv /\ [Next]_vars => [Kept]_vars
  <2> SUFFICES ASSUME IInv, Next, job # None, job.lockedBy # None, clock < job.lockedUntil, ~Ends
               PROVE  job'.lockedBy = job.lockedBy /\ job'.lockedUntil >= job.lockedUntil
    OBVIOUS
  <2> USE ScheduleAssumption, NoneAssumption
  <2>1. /\ job \in Jobs /\ clock \in Nat
        /\ \A p \in Procs : now[p] \in Nat /\ renewAt[p] \in Nat /\ now[p] <= clock
    BY DEF IInv, TypeOK, RunInv, Times
  <2>2. CASE job' = job
    BY <2>1, <2>2 DEF Jobs
  <2>3. ASSUME NEW p \in Procs, EnsurePull(p) PROVE job'.lockedBy = job.lockedBy /\ job'.lockedUntil >= job.lockedUntil
    BY <2>1, <2>3 DEF EnsurePull, Jobs
  <2>4. ASSUME NEW p \in Procs, Claim(p) PROVE FALSE
    BY <2>1, <2>4 DEF Claim, Due, Jobs
  <2>5. ASSUME NEW p \in Procs, Release(p) PROVE job' = job
    BY <2>5 DEF Release, Released
  <2>6. ASSUME NEW p \in Procs, Renew(p) PROVE job'.lockedBy = job.lockedBy /\ job'.lockedUntil >= job.lockedUntil
    BY <2>1, <2>6 DEF Renew, Renewable, RenewedUntil, IInv, LeaseInv, Jobs
  <2>7. ASSUME NEW p \in Procs, EnsureInsert(p) PROVE job' = job
    BY <2>7 DEF EnsureInsert
  <2>8. \/ job' = job
        \/ \E p \in Procs : EnsureInsert(p) \/ EnsurePull(p) \/ Claim(p) \/ Release(p) \/ Renew(p)
    BY DEF Next, Pass, Tick, SendClaim, NotClaimed, Start, Expire, HandlerEnds, SendRenewal, Renewed,
           RenewalRefused, RenewalFails, GiveUpLease, RequestFails, Stop, StopReturns, Die, Boot, Advance
  <2> HIDE DEF Ends
  <2> QED BY <2>2, <2>3, <2>4, <2>5, <2>6, <2>7, <2>8
<1> QED BY <1>1, Invariance, PTL DEF Spec, LeaseRespected

(* A run is claimed an interval after the last one, up to the age of the   *)
(* instants the row was written with.                                      *)
THEOREM Spaced == Spec => OncePerInterval
<1> DEFINE Apart == \A p \in Procs :
                      (step[p] = "claim" /\ step'[p] = "held" /\ job.lastRunAt > 0)
                        => \E q \in Procs : now[p] + 2 * OpLimit >= job.lastRunAt + Interval[q]
<1>1. IInv /\ [Next]_vars => [Apart]_vars
  <2> SUFFICES ASSUME IInv, Next, NEW p \in Procs, step[p] = "claim", step'[p] = "held", job.lastRunAt > 0
               PROVE  \E q \in Procs : now[p] + 2 * OpLimit >= job.lastRunAt + Interval[q]
    OBVIOUS
  <2>1. job \in Jobs /\ now[p] \in Nat /\ job # None
    BY DEF IInv, TypeOK, RunInv, Times
  <2>2. Claim(p)
    <3>1. step \in [Procs -> Steps] /\ step' # step
      BY DEF IInv, TypeOK
    <3>2. ASSUME NEW q \in Procs, NEW s, Goto(q, s) PROVE q = p /\ s = "held"
      BY <3>1, <3>2 DEF Goto
    <3>3. ASSUME NEW q \in Procs PROVE ~Drained(q)
      BY <3>1 DEF Drained
    <3>4. PICK q \in Procs : Pass(q) \/ RenewalFails(q) \/ RequestFails(q) \/ Die(q)
      BY <3>1 DEF Next, Stop, StopReturns, Boot, Advance, runVars
    <3>5. ~RenewalFails(q) /\ ~RenewalRefused(q) /\ ~Renewed(q)
      BY <3>3 DEF RenewalFails, RenewalRefused, GiveUpLease, Renewed
    <3>6. ~RequestFails(q) /\ ~Die(q)
      BY <3>2 DEF RequestFails, Die
    <3>7. ~Tick(q) /\ ~EnsureInsert(q) /\ ~EnsurePull(q) /\ ~NotClaimed(q) /\ ~Release(q)
      BY <3>2 DEF Tick, EnsureInsert, EnsurePull, NotClaimed, Release
    <3>8. ~SendClaim(q) /\ ~Start(q) /\ ~HandlerEnds(q)
      BY <3>2 DEF SendClaim, Start, HandlerEnds, Working
    <3>9. ~Expire(q) /\ ~SendRenewal(q) /\ ~Renew(q)
      BY <3>1 DEF Expire, SendRenewal, Renew
    <3>10. Claim(q)
      BY <3>4, <3>5, <3>6, <3>7, <3>8, <3>9 DEF Pass
    <3> QED BY <3>2, <3>10 DEF Claim
  <2>3. job.nextRunAt <= now[p]
    BY <2>2 DEF Claim, Due
  <2>4. PICK q \in Procs : job.nextRunAt + 2 * OpLimit >= job.lastRunAt + Interval[q]
    BY <2>1 DEF IInv, JobInv
  <2>5. now[p] + 2 * OpLimit >= job.lastRunAt + Interval[q]
    BY <2>1, <2>3, <2>4, ScheduleAssumption DEF Jobs, Times
  <2> QED BY <2>5
<1> QED BY <1>1, Invariance, PTL DEF Spec, OncePerInterval
=============================================================================
