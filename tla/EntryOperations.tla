--------------------------- MODULE EntryOperations ---------------------------
(***************************************************************************)
(* withEntryOperation (packages/server/src/services/entries/operation.ts)  *)
(* over withBusinessTransaction (services/business-transaction.ts), step   *)
(* by step: a call reads the operation's receipt in its snapshot, claims   *)
(* the operation by inserting one, does the work, and commits both at once. *)
(* The driver runs the transaction again after a transient error, commits  *)
(* again when it cannot tell whether it did, and the process may die.      *)
(* Publications wait for the commit.                                       *)
(*                                                                         *)
(* Several calls of one operation overlap: a device gives up on a request  *)
(* after 30 s and sends it again while the first one is still at work.     *)
(***************************************************************************)
EXTENDS Naturals

CONSTANTS
  Calls,          \* requests that reach the server, copies included
  Operations,     \* operation ids, in the scope of one person and workspace
  OperationOf,    \* Calls -> Operations
  HashOf,         \* Calls -> canonical hash of what the call asks for
  None,
  MaxConflicts    \* bound: transient errors in a behaviour

ASSUME OperationsAssumption ==
  /\ OperationOf \in [Calls -> Operations]
  /\ \A c \in Calls : HashOf[c] # None
  /\ None \notin Calls
  /\ MaxConflicts \in Nat

Answers == {"ok", "reused", "refused", "error", "lost"}

Steps == {"unsent", "waiting", "begun", "claimed", "worked", "committed",
          "uncertain", "duplicate", "answered"}

VARIABLES
  receipts,    \* Operations -> committed requestHash, or None
  effects,     \* Operations -> committed entry changes
  claimant,    \* Operations -> call with an uncommitted receipt, or None
  step,        \* Calls -> where the call is
  seen,        \* Calls -> the receipt in this attempt's snapshot
  deferred,    \* Calls -> publications this attempt queued
  published,   \* Operations -> publications made
  answer,      \* Calls -> what the caller got
  conflicts    \* transient errors so far

vars == <<receipts, effects, claimant, step, seen, deferred, published, answer, conflicts>>

Op(c) == OperationOf[c]

Init ==
  /\ receipts = [o \in Operations |-> None]
  /\ effects = [o \in Operations |-> 0]
  /\ claimant = [o \in Operations |-> None]
  /\ step = [c \in Calls |-> "unsent"]
  /\ seen = [c \in Calls |-> None]
  /\ deferred = [c \in Calls |-> 0]
  /\ published = [o \in Operations |-> 0]
  /\ answer = [c \in Calls |-> None]
  /\ conflicts = 0

Goto(c, s) == step' = [step EXCEPT ![c] = s]

Finish(c, a) ==
  /\ Goto(c, "answered")
  /\ answer' = [answer EXCEPT ![c] = a]

(* The transaction ends without a commit: its claim is gone.               *)
Released(c) == [claimant EXCEPT ![Op(c)] = IF @ = c THEN None ELSE @]

-----------------------------------------------------------------------------

Arrive(c) ==
  /\ step[c] = "unsent"
  /\ Goto(c, "waiting")
  /\ UNCHANGED <<receipts, effects, claimant, seen, deferred, published, answer, conflicts>>

(* A fault: publications of an attempt that aborted are still queued.      *)
BeginAgain(c) ==
  /\ step[c] = "waiting"
  /\ Goto(c, "begun")
  /\ seen' = [seen EXCEPT ![c] = receipts[Op(c)]]
  /\ UNCHANGED <<receipts, effects, claimant, deferred, published, answer, conflicts>>

(* An attempt: a new snapshot, in which the receipt is looked up, and new  *)
(* attempt-local state.                                                    *)
Begin(c) ==
  /\ step[c] = "waiting"
  /\ Goto(c, "begun")
  /\ seen' = [seen EXCEPT ![c] = receipts[Op(c)]]
  /\ deferred' = [deferred EXCEPT ![c] = 0]
  /\ UNCHANGED <<receipts, effects, claimant, published, answer, conflicts>>

(* A committed receipt: its result when it was given for this input.       *)
Recall(c) ==
  /\ step[c] = "begun"
  /\ seen[c] # None
  /\ Finish(c, IF seen[c] = HashOf[c] THEN "ok" ELSE "reused")
  /\ UNCHANGED <<receipts, effects, claimant, seen, deferred, published, conflicts>>

(* A fault: the receipt is written at the end and not claimed up front, so *)
(* that nothing notices a commit that came after the snapshot.             *)
ClaimBlindly(c) ==
  /\ step[c] = "begun"
  /\ seen[c] = None
  /\ Goto(c, "claimed")
  /\ UNCHANGED <<receipts, effects, claimant, seen, deferred, published, answer, conflicts>>

(* The receipt is inserted before any entry is touched.                    *)
Claim(c) ==
  /\ step[c] = "begun"
  /\ seen[c] = None
  /\ claimant[Op(c)] = None
  /\ receipts[Op(c)] = None
  /\ claimant' = [claimant EXCEPT ![Op(c)] = c]
  /\ Goto(c, "claimed")
  /\ UNCHANGED <<receipts, effects, seen, deferred, published, answer, conflicts>>

(* Another call of the operation has the key: the insert is a write        *)
(* conflict and the driver starts over, or, once that one has committed,   *)
(* a duplicate key.                                                        *)
ClaimLost(c) ==
  /\ step[c] = "begun"
  /\ seen[c] = None
  /\ \/ claimant[Op(c)] # None /\ Goto(c, "waiting")
     \/ receipts[Op(c)] # None /\ (Goto(c, "waiting") \/ Goto(c, "duplicate"))
  /\ UNCHANGED <<receipts, effects, claimant, seen, deferred, published, answer, conflicts>>

(* The entry's own change, and the publications it queues.                 *)
Work(c) ==
  /\ step[c] = "claimed"
  /\ Goto(c, "worked")
  /\ deferred' = [deferred EXCEPT ![c] = @ + 1]
  /\ UNCHANGED <<receipts, effects, claimant, seen, published, answer, conflicts>>

(* A fault: the refused call's claim is left behind.                       *)
RefuseKeepingClaim(c) ==
  /\ step[c] \in {"claimed", "worked"}
  /\ Finish(c, "refused")
  /\ UNCHANGED <<receipts, effects, claimant, seen, deferred, published, conflicts>>

(* The work, or a check made just before the commit, refuses the write.    *)
Refuse(c) ==
  /\ step[c] \in {"claimed", "worked"}
  /\ claimant' = Released(c)
  /\ Finish(c, "refused")
  /\ UNCHANGED <<receipts, effects, seen, deferred, published, conflicts>>

(* The work met a unique index of its own: the duplicate key is taken for  *)
(* a lost claim.                                                           *)
WorkCollides(c) ==
  /\ step[c] = "claimed"
  /\ claimant' = Released(c)
  /\ Goto(c, "duplicate")
  /\ UNCHANGED <<receipts, effects, seen, deferred, published, answer, conflicts>>

(* A fault: a duplicate key is success, without another look.              *)
DuplicateIsSuccess(c) ==
  /\ step[c] = "duplicate"
  /\ Finish(c, "ok")
  /\ UNCHANGED <<receipts, effects, claimant, seen, deferred, published, conflicts>>

(* Only a committed matching receipt turns a duplicate key into success.   *)
Duplicate(c) ==
  /\ step[c] = "duplicate"
  /\ Finish(c, IF receipts[Op(c)] = None THEN "error"
               ELSE IF receipts[Op(c)] = HashOf[c] THEN "ok" ELSE "reused")
  /\ UNCHANGED <<receipts, effects, claimant, seen, deferred, published, conflicts>>

(* A transient transaction error aborts the attempt; the driver starts     *)
(* over, or gives up when its time is over.                                *)
Transient(c) ==
  /\ step[c] \in {"begun", "claimed", "worked"}
  /\ conflicts < MaxConflicts
  /\ conflicts' = conflicts + 1
  /\ claimant' = Released(c)
  /\ \/ Goto(c, "waiting") /\ UNCHANGED answer
     \/ Finish(c, "error")
  /\ UNCHANGED <<receipts, effects, seen, deferred, published>>

(* Receipt and entry change become visible together.  The driver may not   *)
(* learn that they did.                                                    *)
Commit(c) ==
  /\ step[c] = "worked"
  /\ receipts' = [receipts EXCEPT ![Op(c)] = HashOf[c]]
  /\ effects' = [effects EXCEPT ![Op(c)] = @ + 1]
  /\ claimant' = Released(c)
  /\ Goto(c, "committed") \/ Goto(c, "uncertain")
  /\ UNCHANGED <<seen, deferred, published, answer, conflicts>>

(* It commits again, which changes nothing, or gives up: the caller gets   *)
(* an error for a write that took effect, and nothing is published.        *)
CommitAgain(c) ==
  /\ step[c] = "uncertain"
  /\ \/ Goto(c, "committed") /\ UNCHANGED answer
     \/ Finish(c, "error")
  /\ UNCHANGED <<receipts, effects, claimant, seen, deferred, published, conflicts>>

(* After the commit; a publication that fails does not fail the write.     *)
Publish(c) ==
  /\ step[c] = "committed"
  /\ \E n \in {0, deferred[c]} :
       published' = [published EXCEPT ![Op(c)] = @ + n]
  /\ Finish(c, "ok")
  /\ UNCHANGED <<receipts, effects, claimant, seen, deferred, conflicts>>

(* The process serving the call dies: an open transaction is rolled back,  *)
(* a committed one is not published.                                       *)
Die(c) ==
  /\ step[c] \notin {"unsent", "answered"}
  /\ claimant' = Released(c)
  /\ Finish(c, "lost")
  /\ UNCHANGED <<receipts, effects, seen, deferred, published, conflicts>>

Serve(c) ==
  \/ Begin(c)
  \/ Recall(c)
  \/ Claim(c)
  \/ ClaimLost(c)
  \/ Work(c)
  \/ Refuse(c)
  \/ WorkCollides(c)
  \/ Duplicate(c)
  \/ Commit(c)
  \/ CommitAgain(c)
  \/ Publish(c)

Next == \E c \in Calls : Arrive(c) \/ Serve(c) \/ Transient(c) \/ Die(c)

Spec == Init /\ [][Next]_vars

(* A call that is being served goes on being served.                       *)
FairSpec == Spec /\ \A c \in Calls : WF_vars(Serve(c))

-----------------------------------------------------------------------------

Hashes == {HashOf[c] : c \in Calls}

(* Every variable keeps its type.                                          *)
TypeOK ==
  /\ receipts \in [Operations -> Hashes \cup {None}]
  /\ effects \in [Operations -> Nat]
  /\ claimant \in [Operations -> Calls \cup {None}]
  /\ step \in [Calls -> Steps]
  /\ seen \in [Calls -> Hashes \cup {None}]
  /\ deferred \in [Calls -> Nat]
  /\ published \in [Operations -> Nat]
  /\ answer \in [Calls -> Answers \cup {None}]
  /\ conflicts \in 0..MaxConflicts

(* The work of one operation is never in the database twice, however its   *)
(* calls overlap and whatever the driver repeats; and never without its    *)
(* receipt, by which the next copy recognises it.                          *)
EffectOnce ==
  \A o \in Operations : effects[o] = (IF receipts[o] = None THEN 0 ELSE 1)

(* Nobody hears of a change that was rolled back, nor twice of one that    *)
(* was tried twice.                                                        *)
PublishedOnce ==
  \A o \in Operations : published[o] <= effects[o]

(* Step by step, the transactions keep the promise a device relies on: the *)
(* input applied never changes, and ok, reused and refused are true when   *)
(* they are said.                                                          *)
Receipts == INSTANCE OperationReceipts

KeepsReceipts == Receipts!Spec

(* Overlapping calls of one operation do not hold each other up for ever.  *)
EventuallyAnswered ==
  \A c \in Calls : (step[c] = "waiting") ~> (step[c] = "answered")
=============================================================================
