------------------------ MODULE EntryOperations_proofs ------------------------
(***************************************************************************)
(* The operation receipts are right for every number of calls, operations  *)
(* and transient errors: an operation takes effect once, is published at   *)
(* most once, and the transactions implement OperationReceipts.            *)
(***************************************************************************)
EXTENDS EntryOperations, TLAPS

Claimed == {"claimed", "worked"}
Pending == {"committed", "uncertain"}

(* The claim on an operation is held by a call that is at work on it, and  *)
(* nothing has been committed for an operation that is claimed.            *)
ClaimsInv ==
  /\ \A o \in Operations, c \in Calls :
       claimant[o] = c <=> Op(c) = o /\ step[c] \in Claimed
  /\ \A o \in Operations : claimant[o] # None => receipts[o] = None

(* Receipts are for ever: what a call has seen or committed still stands.  *)
ReceiptsInv ==
  /\ \A c \in Calls : seen[c] # None => receipts[Op(c)] = seen[c]
  /\ \A c \in Calls : step[c] \in Pending => receipts[Op(c)] = HashOf[c]

(* An attempt has queued one publication once its work is done.            *)
DeferredInv ==
  /\ \A c \in Calls : step[c] \in {"begun", "claimed"} => deferred[c] = 0
  /\ \A c \in Calls : step[c] \in Pending \cup {"worked"} => deferred[c] = 1

(* Only one call has the publications of an operation still to make, and   *)
(* then none has been made.                                                *)
PublicationInv ==
  /\ PublishedOnce
  /\ \A c \in Calls : step[c] \in Pending => published[Op(c)] = 0
  /\ \A c, d \in Calls :
       step[c] \in Pending /\ step[d] \in Pending /\ Op(c) = Op(d) => c = d

AnsweredInv == \A c \in Calls : answer[c] # None => step[c] = "answered"

IInv ==
  /\ TypeOK
  /\ EffectOnce
  /\ ClaimsInv
  /\ ReceiptsInv
  /\ DeferredInv
  /\ PublicationInv
  /\ AnsweredInv

-----------------------------------------------------------------------------

LEMMA InitInv == Init => IInv
BY OperationsAssumption DEF Init, IInv, TypeOK, EffectOnce, ClaimsInv, ReceiptsInv, DeferredInv,
  PublicationInv, PublishedOnce, AnsweredInv, Claimed, Pending, Steps, Op

LEMMA StepInv == IInv /\ [Next]_vars => IInv'
<1> SUFFICES ASSUME IInv, [Next]_vars PROVE IInv'
  OBVIOUS
<1> USE OperationsAssumption
        DEF IInv, TypeOK, Goto, Finish, Released, Op, Claimed, Pending, Steps, Answers, Hashes
<1>u. CASE UNCHANGED vars
  BY <1>u DEF vars, EffectOnce, ClaimsInv, ReceiptsInv, DeferredInv, PublicationInv, PublishedOnce,
              AnsweredInv
<1>1. ASSUME NEW c \in Calls, Arrive(c) PROVE IInv'
  BY <1>1 DEF Arrive, EffectOnce, ClaimsInv, ReceiptsInv, DeferredInv, PublicationInv, PublishedOnce,
               AnsweredInv
<1>2. ASSUME NEW c \in Calls, Begin(c) PROVE IInv'
  BY <1>2 DEF Begin, EffectOnce, ClaimsInv, ReceiptsInv, DeferredInv, PublicationInv, PublishedOnce,
               AnsweredInv
<1>3. ASSUME NEW c \in Calls, Recall(c) PROVE IInv'
  BY <1>3 DEF Recall, EffectOnce, ClaimsInv, ReceiptsInv, DeferredInv, PublicationInv, PublishedOnce,
               AnsweredInv
<1>4. ASSUME NEW c \in Calls, Claim(c) PROVE IInv'
  BY <1>4 DEF Claim, EffectOnce, ClaimsInv, ReceiptsInv, DeferredInv, PublicationInv, PublishedOnce,
               AnsweredInv
<1>5. ASSUME NEW c \in Calls, ClaimLost(c) PROVE IInv'
  BY <1>5 DEF ClaimLost, EffectOnce, ClaimsInv, ReceiptsInv, DeferredInv, PublicationInv, PublishedOnce,
               AnsweredInv
<1>6. ASSUME NEW c \in Calls, Work(c) PROVE IInv'
  BY <1>6 DEF Work, EffectOnce, ClaimsInv, ReceiptsInv, DeferredInv, PublicationInv, PublishedOnce,
               AnsweredInv
<1>7. ASSUME NEW c \in Calls, Refuse(c) PROVE IInv'
  BY <1>7 DEF Refuse, EffectOnce, ClaimsInv, ReceiptsInv, DeferredInv, PublicationInv, PublishedOnce,
               AnsweredInv
<1>8. ASSUME NEW c \in Calls, WorkCollides(c) PROVE IInv'
  BY <1>8 DEF WorkCollides, EffectOnce, ClaimsInv, ReceiptsInv, DeferredInv, PublicationInv, PublishedOnce,
               AnsweredInv
<1>9. ASSUME NEW c \in Calls, Duplicate(c) PROVE IInv'
  BY <1>9 DEF Duplicate, EffectOnce, ClaimsInv, ReceiptsInv, DeferredInv, PublicationInv, PublishedOnce,
               AnsweredInv
<1>10. ASSUME NEW c \in Calls, Transient(c) PROVE IInv'
  <2> USE <1>10 DEF Transient
  <2>1. TypeOK'
    OBVIOUS
  <2>2. EffectOnce'
    BY DEF EffectOnce, ClaimsInv
  <2>3. ClaimsInv'
    BY DEF ClaimsInv
  <2>4. ReceiptsInv'
    BY DEF ReceiptsInv, ClaimsInv
  <2>5. DeferredInv'
    BY DEF DeferredInv
  <2>6. PublicationInv'
    BY DEF PublicationInv, PublishedOnce, EffectOnce, ReceiptsInv, DeferredInv, ClaimsInv
  <2>7. AnsweredInv'
    BY DEF AnsweredInv
  <2> QED BY <2>1, <2>2, <2>3, <2>4, <2>5, <2>6, <2>7
<1>11. ASSUME NEW c \in Calls, Commit(c) PROVE IInv'
  <2> USE <1>11 DEF Commit
  <2>1. TypeOK'
    OBVIOUS
  <2>2. EffectOnce'
    BY DEF EffectOnce, ClaimsInv
  <2>3. ClaimsInv'
    BY DEF ClaimsInv
  <2>4. ReceiptsInv'
    BY DEF ReceiptsInv, ClaimsInv
  <2>5. DeferredInv'
    BY DEF DeferredInv
  <2>6. PublicationInv'
    BY DEF PublicationInv, PublishedOnce, EffectOnce, ReceiptsInv, DeferredInv, ClaimsInv
  <2>7. AnsweredInv'
    BY DEF AnsweredInv
  <2> QED BY <2>1, <2>2, <2>3, <2>4, <2>5, <2>6, <2>7
<1>12. ASSUME NEW c \in Calls, CommitAgain(c) PROVE IInv'
  <2> USE <1>12 DEF CommitAgain
  <2>1. TypeOK'
    OBVIOUS
  <2>2. EffectOnce'
    BY DEF EffectOnce, ClaimsInv
  <2>3. ClaimsInv'
    BY DEF ClaimsInv
  <2>4. ReceiptsInv'
    BY DEF ReceiptsInv, ClaimsInv
  <2>5. DeferredInv'
    BY DEF DeferredInv
  <2>6. PublicationInv'
    BY DEF PublicationInv, PublishedOnce, EffectOnce, ReceiptsInv, DeferredInv, ClaimsInv
  <2>7. AnsweredInv'
    BY DEF AnsweredInv
  <2> QED BY <2>1, <2>2, <2>3, <2>4, <2>5, <2>6, <2>7
<1>13. ASSUME NEW c \in Calls, Publish(c) PROVE IInv'
  <2> USE <1>13 DEF Publish
  <2>1. TypeOK'
    OBVIOUS
  <2>2. EffectOnce'
    BY DEF EffectOnce, ClaimsInv
  <2>3. ClaimsInv'
    BY DEF ClaimsInv
  <2>4. ReceiptsInv'
    BY DEF ReceiptsInv, ClaimsInv
  <2>5. DeferredInv'
    BY DEF DeferredInv
  <2>6. PublicationInv'
    BY DEF PublicationInv, PublishedOnce, EffectOnce, ReceiptsInv, DeferredInv, ClaimsInv
  <2>7. AnsweredInv'
    BY DEF AnsweredInv
  <2> QED BY <2>1, <2>2, <2>3, <2>4, <2>5, <2>6, <2>7
<1>14. ASSUME NEW c \in Calls, Die(c) PROVE IInv'
  BY <1>14 DEF Die, EffectOnce, ClaimsInv, ReceiptsInv, DeferredInv, PublicationInv, PublishedOnce,
               AnsweredInv
<1> QED BY <1>u, <1>1, <1>2, <1>3, <1>4, <1>5, <1>6, <1>7, <1>8, <1>9, <1>10,
           <1>11, <1>12, <1>13, <1>14 DEF Next, Serve

LEMMA Invariance == Spec => []IInv
BY InitInv, StepInv, PTL DEF Spec

(* Every variable keeps its type in every behaviour of                     *)
(* withEntryOperation's calls.                                             *)
THEOREM TypeCorrect == Spec => []TypeOK
BY Invariance, PTL DEF IInv

(* However many calls of one operation overlap, and however often the      *)
(* driver repeats an attempt, its work is committed once, with its receipt. *)
THEOREM EffectsOnce == Spec => []EffectOnce
BY Invariance, PTL DEF IInv

(* A publication deferred to the commit (business-transaction.ts) is made  *)
(* at most once, and never for an attempt that was rolled back.            *)
THEOREM PublicationsOnce == Spec => []PublishedOnce
<1>1. IInv => PublishedOnce
  BY DEF IInv, PublicationInv
<1> QED BY <1>1, Invariance, PTL

-----------------------------------------------------------------------------
(* The refinement: a commit applies the operation, every answer is a reply, *)
(* and everything else is invisible.                                       *)

LEMMA InitRefines == Init => Receipts!Init
BY DEF Init, Receipts!Init

LEMMA StepRefines == IInv /\ [Next]_vars => [Receipts!Next]_(Receipts!receiptVars)
<1> SUFFICES ASSUME IInv, [Next]_vars PROVE [Receipts!Next]_(Receipts!receiptVars)
  OBVIOUS
<1> USE OperationsAssumption
        DEF IInv, TypeOK, Goto, Finish, Op, Receipts!receiptVars
<1>u. CASE UNCHANGED vars
  BY <1>u DEF vars
<1>apply. ASSUME NEW c \in Calls, Receipts!Apply(c) PROVE Receipts!Next
  BY <1>apply DEF Receipts!Next
<1>reply. ASSUME NEW c \in Calls, NEW a \in Answers, Receipts!Reply(c, a) PROVE Receipts!Next
  BY <1>reply DEF Receipts!Next, Receipts!Answers, Answers
<1>quiet. ASSUME NEW c \in Calls,
                 Arrive(c) \/ Begin(c) \/ Claim(c) \/ ClaimLost(c) \/ Work(c) \/ WorkCollides(c)
          PROVE UNCHANGED Receipts!receiptVars
  BY <1>quiet DEF Arrive, Begin, Claim, ClaimLost, Work, WorkCollides
<1>commit. ASSUME NEW c \in Calls, Commit(c) PROVE Receipts!Apply(c)
  BY <1>commit DEF Commit, ClaimsInv, Claimed, Receipts!Apply
<1>recall. ASSUME NEW c \in Calls, Recall(c) PROVE Receipts!Next
  <2>1. Receipts!Reply(c, IF seen[c] = HashOf[c] THEN "ok" ELSE "reused")
    BY <1>recall DEF Recall, ReceiptsInv, AnsweredInv, Receipts!Reply, Receipts!Truthful
  <2> QED BY <2>1, <1>reply DEF Answers
<1>duplicate. ASSUME NEW c \in Calls, Duplicate(c) PROVE Receipts!Next
  <2>1. Receipts!Reply(c, IF receipts[Op(c)] = None THEN "error"
                          ELSE IF receipts[Op(c)] = HashOf[c] THEN "ok" ELSE "reused")
    BY <1>duplicate DEF Duplicate, AnsweredInv, Receipts!Reply, Receipts!Truthful
  <2> QED BY <2>1, <1>reply DEF Answers
<1>refuse. ASSUME NEW c \in Calls, Refuse(c) PROVE Receipts!Next
  <2>1. Receipts!Reply(c, "refused")
    BY <1>refuse DEF Refuse, ClaimsInv, Claimed, AnsweredInv, Receipts!Reply, Receipts!Truthful
  <2> QED BY <2>1, <1>reply DEF Answers
<1>transient. ASSUME NEW c \in Calls, Transient(c) PROVE [Receipts!Next]_(Receipts!receiptVars)
  <2>1. UNCHANGED Receipts!receiptVars \/ Receipts!Reply(c, "error")
    BY <1>transient DEF Transient, AnsweredInv, Receipts!Reply, Receipts!Truthful
  <2> QED BY <2>1, <1>reply DEF Answers
<1>again. ASSUME NEW c \in Calls, CommitAgain(c) PROVE [Receipts!Next]_(Receipts!receiptVars)
  <2>1. UNCHANGED Receipts!receiptVars \/ Receipts!Reply(c, "error")
    BY <1>again DEF CommitAgain, AnsweredInv, Receipts!Reply, Receipts!Truthful
  <2> QED BY <2>1, <1>reply DEF Answers
<1>publish. ASSUME NEW c \in Calls, Publish(c) PROVE Receipts!Next
  <2>1. Receipts!Reply(c, "ok")
    BY <1>publish DEF Publish, ReceiptsInv, Pending, AnsweredInv, Receipts!Reply, Receipts!Truthful
  <2> QED BY <2>1, <1>reply DEF Answers
<1>die. ASSUME NEW c \in Calls, Die(c) PROVE Receipts!Next
  <2>1. Receipts!Reply(c, "lost")
    BY <1>die DEF Die, AnsweredInv, Receipts!Reply, Receipts!Truthful
  <2> QED BY <2>1, <1>reply DEF Answers
<1> QED BY <1>u, <1>apply, <1>quiet, <1>commit, <1>recall, <1>duplicate, <1>refuse, <1>transient,
           <1>again, <1>publish, <1>die DEF Next, Serve

(* The step-by-step transactions keep the promise of OperationReceipts:    *)
(* the input applied never changes, and ok, reused and refused are true    *)
(* when they are said.                                                     *)
THEOREM ReceiptsKept == Spec => KeepsReceipts
BY InitRefines, StepRefines, Invariance, PTL DEF Spec, KeepsReceipts, Receipts!Spec
===============================================================================
