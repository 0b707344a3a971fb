-------------------------- MODULE SchedulerLeaseMC --------------------------
(***************************************************************************)
(* Two processes of a rolling deploy that shortened the job's interval. A  *)
(* lease is shorter than an interval, so only renewals cover a slow run; a *)
(* request may take so long that a claim is answered when it has lapsed.   *)
(***************************************************************************)
EXTENDS SchedulerLease

CONSTANTS old, new

TwoBuilds == {old, new}
MCInterval == [p \in Procs |-> IF p = old THEN 4 ELSE 3]
=============================================================================
