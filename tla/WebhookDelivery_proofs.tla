----------------------- MODULE WebhookDelivery_proofs -----------------------
(***************************************************************************)
(* Proofs about WebhookDelivery. The invariant is Sound (types, and a pass *)
(* in step with its batch) and Rest: a row is in one batch, once, and is   *)
(* leased for as long as its turn can take; its attempts are those that    *)
(* were made; what it says while an attempt goes on; the dead deliveries   *)
(* that the streak has counted, and the faults that let it count one more. *)
(*                                                                         *)
(* Rest stands on BatchesFit: each batch can be sent before its lease      *)
(* ends. The code's constants (20 rows, 10 s each and what resolving its   *)
(* target takes, a lease of 60 s) give it for batches of up to 5 rows; a   *)
(* longer one breaks OneAttemptAtATime, which the run webhook_backlog      *)
(* shows.                                                                  *)
(***************************************************************************)
EXTENDS WebhookDelivery, FiniteSetTheorems, TLAPS

(* The time k requests may take one after the other.                       *)
Slot(k) == k * Timeout

(* Every batch is sent, and recorded, before its lease ends.               *)
BatchesFit == \A p \in Procs : Slot(Len(sweep[p].batch)) < Lease

Trying == {"look", "resolve", "post", "record", "reset", "count", "disable"}
Active(p, d) == sweep[p].step \in Trying /\ At(p) = d

(* A pass that does something has a batch to do it with.                   *)
PassInv ==
  \A p \in Procs :
    /\ sweep[p].step = "idle" => sweep[p].batch = <<>>
    /\ sweep[p].step \in Trying \cup {"attempt"} => sweep[p].batch # <<>>
    /\ sweep[p].step \in {"record", "reset", "count", "disable"} => sweep[p].outcome # None

(* A row is in one batch, once, and leased for as long as its turn takes.  *)
BatchInv ==
  /\ \A p, q \in Procs : \A k \in 1..Len(sweep[p].batch), l \in 1..Len(sweep[q].batch) :
       sweep[p].batch[k] = sweep[q].batch[l] => p = q /\ k = l
  /\ \A p \in Procs : \A k \in 1..Len(sweep[p].batch) :
       Pending(sweep[p].batch[k]) => row[sweep[p].batch[k]].due > Slot(k) - sweep[p].age

(* A row is inserted once: a row that is gone went with its subscription.  *)
EmitInv ==
  /\ removing => ~sub.there
  /\ \A d \in emitting : /\ row[d] = None /\ started[d] = 0
                         /\ \A p \in Procs : \A k \in 1..Len(sweep[p].batch) : sweep[p].batch[k] # d
  /\ sub.there => \A p \in Procs : \A k \in 1..Len(sweep[p].batch) : row[sweep[p].batch[k]] # None

(* A row counts the attempts that were made, and is due only while it is   *)
(* pending.                                                                *)
RowInv ==
  \A d \in Deliveries : row[d] # None =>
    /\ started[d] = row[d].attempt
    /\ ~Pending(d) => row[d].due = Never

(* What the row of an attempt says while the attempt goes on.              *)
TryAt(p, d) ==
  (Active(p, d) /\ row[d] # None) =>
    /\ row[d].attempt = sweep[p].made
    /\ sweep[p].step \in {"look", "resolve", "post"} => Pending(d)
    /\ sweep[p].step = "record" => Pending(d) \/ (sweep[p].outcome = "error" /\ faults > 0)
    /\ sweep[p].step = "record" /\ row[d].status = "failed" => Exhausted(sweep[p].made)
    /\ sweep[p].step = "reset" => row[d].status = "delivered"
    /\ sweep[p].step \in {"count", "disable"} =>
         row[d].status = "failed" /\ sweep[p].outcome \in Failures /\ Exhausted(sweep[p].made)

TryInv == \A p \in Procs, d \in Deliveries : TryAt(p, d)

(* An attempt is begun only while there is one left, or the last one was   *)
(* not recorded.                                                           *)
GiveAt(d) ==
  /\ started[d] <= MaxAttempts + faults
  /\ Pending(d) /\ (\A p \in Procs : ~Active(p, d)) => started[d] <= Len(Backoff) + faults

GiveInv == \A d \in Deliveries : GiveAt(d)

(* Deliveries whose death, if they are dead, is yet to be counted.         *)
Uncounted == {d \in Deliveries : \E p \in Procs : sweep[p].step \in {"record", "count"} /\ At(p) = d}

CountInv == sub.there => sub.failures <= Cardinality(Dead \ Uncounted) + faults

Sound == TypeOK /\ PassInv

Rest ==
  /\ BatchInv
  /\ EmitInv
  /\ RowInv
  /\ TryInv
  /\ GiveInv
  /\ CountInv

-----------------------------------------------------------------------------
(* Lengths of time.                                                        *)
LEMMA SlotFacts ==
  /\ \A k \in Nat : Slot(k) \in Int /\ Slot(k + 1) = Slot(k) + Timeout
  /\ \A k \in Nat \ {0} : Slot(k) >= Timeout
<1>0. Timeout \in Nat \ {0}
  BY WebhookAssumption
<1>1. ASSUME NEW k \in Nat PROVE k * Timeout \in Int /\ (k + 1) * Timeout = k * Timeout + Timeout
  BY <1>0
<1>2. ASSUME NEW k \in Nat \ {0} PROVE k * Timeout >= Timeout
  BY <1>0
<1> QED BY <1>1, <1>2 DEF Slot

LEMMA SweepFacts ==
  ASSUME TypeOK, NEW p \in Procs
  PROVE  /\ sweep[p] \in Sweeps /\ sweep[p].batch \in Seq(Deliveries) /\ Len(sweep[p].batch) \in Nat
         /\ sweep[p].age \in 0..Timeout /\ sweep[p].age \in Nat /\ sweep[p].made \in Nat
         /\ sweep[p].step \in Steps /\ sweep[p].outcome \in Outcomes \cup {None}
         /\ \A k \in 1..Len(sweep[p].batch) : sweep[p].batch[k] \in Deliveries
         /\ sweep[p].batch # <<>> => /\ 1 \in 1..Len(sweep[p].batch)
                                     /\ At(p) = sweep[p].batch[1] /\ At(p) \in Deliveries
                                     /\ Len(Tail(sweep[p].batch)) = Len(sweep[p].batch) - 1
                                     /\ Tail(sweep[p].batch) \in Seq(Deliveries)
                                     /\ \A k \in 1..Len(Tail(sweep[p].batch)) :
                                          /\ k + 1 \in 1..Len(sweep[p].batch)
                                          /\ Tail(sweep[p].batch)[k] = sweep[p].batch[k + 1]
<1>1. sweep[p] \in Sweeps
  BY DEF TypeOK
<1>2. /\ sweep[p].batch \in Seq(Deliveries) /\ sweep[p].age \in 0..Timeout /\ sweep[p].made \in Nat
      /\ sweep[p].step \in Steps /\ sweep[p].outcome \in Outcomes \cup {None}
  BY <1>1 DEF Sweeps
<1>3. sweep[p].age \in Nat
  BY <1>2, WebhookAssumption
<1> DEFINE b == sweep[p].batch
<1>4. b \in Seq(Deliveries)
  BY <1>2
<1>at. At(p) = Head(b)
  BY DEF At
<1> HIDE DEF b
<1>5. Len(b) \in Nat /\ \A k \in 1..Len(b) : b[k] \in Deliveries
  BY <1>4
<1>6. b # <<>> => /\ 1 \in 1..Len(b) /\ Head(b) = b[1] /\ b[1] \in Deliveries
                  /\ Len(Tail(b)) = Len(b) - 1
                  /\ Tail(b) \in Seq(Deliveries)
                  /\ \A k \in 1..Len(Tail(b)) : k + 1 \in 1..Len(b) /\ Tail(b)[k] = b[k + 1]
  BY <1>4
<1> QED BY <1>1, <1>2, <1>3, <1>5, <1>6, <1>at DEF b

(* How a pass goes on.                                                     *)
LEMMA GotoFacts ==
  ASSUME TypeOK, NEW p \in Procs, NEW s \in Steps, Goto(p, s)
  PROVE  /\ sweep' \in [Procs -> Sweeps]
         /\ \A q \in Procs \ {p} : sweep'[q] = sweep[q]
         /\ sweep'[p].step = s /\ sweep'[p].batch = sweep[p].batch /\ sweep'[p].age = sweep[p].age
         /\ sweep'[p].made = sweep[p].made /\ sweep'[p].outcome = sweep[p].outcome
BY DEF Goto, TypeOK, Sweeps

LEMMA OutcomeFacts ==
  ASSUME TypeOK, NEW p \in Procs, NEW o \in Outcomes, Outcome(p, o)
  PROVE  /\ sweep' \in [Procs -> Sweeps]
         /\ \A q \in Procs \ {p} : sweep'[q] = sweep[q]
         /\ sweep'[p].step = "record" /\ sweep'[p].batch = sweep[p].batch /\ sweep'[p].age = sweep[p].age
         /\ sweep'[p].made = sweep[p].made /\ sweep'[p].outcome = o
<1>1. sweep[p] \in Sweeps /\ sweep \in [Procs -> Sweeps]
  BY DEF TypeOK
<1>2. sweep' = [sweep EXCEPT ![p] = [sweep[p] EXCEPT !.step = "record", !.outcome = o]]
  BY <1>1 DEF Outcome, Sweeps
<1>3. [sweep[p] EXCEPT !.step = "record", !.outcome = o] \in Sweeps
  BY <1>1 DEF Sweeps, Steps
<1> QED BY <1>1, <1>2, <1>3 DEF Sweeps

LEMMA SleepFacts ==
  ASSUME TypeOK, NEW p \in Procs, sweep' = [sweep EXCEPT ![p] = Asleep]
  PROVE  /\ sweep' \in [Procs -> Sweeps]
         /\ \A q \in Procs \ {p} : sweep'[q] = sweep[q]
         /\ sweep'[p].step = "idle" /\ sweep'[p].batch = <<>> /\ sweep'[p].age = 0 /\ sweep'[p].outcome = None
<1>1. Asleep \in Sweeps
  BY WebhookAssumption DEF Asleep, Sweeps, Steps
<1> QED BY <1>1 DEF TypeOK, Asleep

LEMMA DoneFacts ==
  ASSUME TypeOK, NEW p \in Procs, sweep[p].batch # <<>>, Done(p)
  PROVE  /\ sweep' \in [Procs -> Sweeps]
         /\ \A q \in Procs \ {p} : sweep'[q] = sweep[q]
         /\ sweep'[p].step = "next" /\ sweep'[p].batch = Tail(sweep[p].batch) /\ sweep'[p].age = 0
         /\ sweep'[p].outcome = None
<1> DEFINE b == Tail(sweep[p].batch)
           s == [Asleep EXCEPT !.step = "next", !.batch = b]
<1>1. b \in Seq(Deliveries)
  BY SweepFacts
<1> HIDE DEF b
<1>a. Asleep \in Sweeps /\ Asleep.age = 0 /\ Asleep.outcome = None
  BY WebhookAssumption DEF Asleep, Sweeps, Steps
<1>2. s \in Sweeps /\ s.step = "next" /\ s.batch = b /\ s.age = 0 /\ s.outcome = None
  <2> HIDE DEF Asleep
  <2> QED BY <1>1, <1>a DEF Sweeps, Steps
<1>3. sweep' = [sweep EXCEPT ![p] = s]
  BY DEF Done, b, s
<1> QED BY <1>2, <1>3 DEF TypeOK, b

-----------------------------------------------------------------------------
(* A batch stays, loses its first row, or is dropped; what is pending of   *)
(* it is leased as it was.                                                 *)
Same(p) == sweep'[p].batch = sweep[p].batch /\ sweep'[p].age = sweep[p].age
Shorter(p) == sweep[p].batch # <<>> /\ sweep'[p].batch = Tail(sweep[p].batch) /\ sweep'[p].age = 0
Shrunk(p) == Same(p) \/ Shorter(p) \/ sweep'[p].batch = <<>>

\* The row at k of the batch was at i.
Came(p, k, i) ==
  /\ sweep'[p].batch[k] = sweep[p].batch[i]
  /\ (i = k /\ Same(p)) \/ (i = k + 1 /\ Shorter(p))

LEMMA Members ==
  ASSUME TypeOK, NEW p \in Procs, Shrunk(p), NEW k \in 1..Len(sweep'[p].batch)
  PROVE  k \in Nat /\ \E i \in 1..Len(sweep[p].batch) : Came(p, k, i)
<1>1. CASE Same(p)
  BY <1>1, SweepFacts DEF Same, Came
<1>2. CASE Shorter(p)
  <2>1. /\ Len(Tail(sweep[p].batch)) = Len(sweep[p].batch) - 1 /\ Len(sweep[p].batch) \in Nat
        /\ \A j \in 1..Len(Tail(sweep[p].batch)) :
             j + 1 \in 1..Len(sweep[p].batch) /\ Tail(sweep[p].batch)[j] = sweep[p].batch[j + 1]
    BY <1>2, SweepFacts DEF Shorter
  <2>2. k \in 1..Len(Tail(sweep[p].batch)) /\ sweep'[p].batch[k] = Tail(sweep[p].batch)[k]
    BY <1>2 DEF Shorter
  <2>3. k \in Nat
    BY <2>1, <2>2
  <2> QED BY <1>2, <2>1, <2>2, <2>3 DEF Came
<1>3. CASE sweep'[p].batch = <<>>
  BY <1>3
<1> QED BY <1>1, <1>2, <1>3 DEF Shrunk

LEMMA OneOrigin ==
  ASSUME TypeOK, NEW p \in Procs, NEW k \in Nat, NEW l \in Nat, NEW i \in Int, Came(p, k, i), Came(p, l, i)
  PROVE  k = l
<1>1. ASSUME Same(p), Shorter(p) PROVE FALSE
  <2>1. sweep[p].batch # <<>> /\ sweep[p].batch = Tail(sweep[p].batch)
    BY <1>1 DEF Same, Shorter
  <2>2. Len(Tail(sweep[p].batch)) = Len(sweep[p].batch) - 1 /\ Len(sweep[p].batch) \in Nat
    BY <2>1, SweepFacts
  <2>3. Len(sweep[p].batch) = Len(sweep[p].batch) - 1
    BY <2>1, <2>2
  <2> QED BY <2>2, <2>3
<1> QED BY <1>1 DEF Came

LEMMA BatchKeeps ==
  ASSUME TypeOK, BatchInv, \A q \in Procs : Shrunk(q),
         \A q \in Procs : \A k \in 1..Len(sweep'[q].batch) :
           LET d == sweep'[q].batch[k]
           IN row'[d] # None /\ row'[d].status = "pending" => Pending(d) /\ row'[d].due = row[d].due
  PROVE  BatchInv'
<1>1. ASSUME NEW p \in Procs, NEW q \in Procs, NEW k \in 1..Len(sweep'[p].batch), NEW l \in 1..Len(sweep'[q].batch),
             sweep'[p].batch[k] = sweep'[q].batch[l]
      PROVE  p = q /\ k = l
  <2>1. k \in Nat /\ \E i \in 1..Len(sweep[p].batch) : Came(p, k, i)
    BY Members
  <2>2. l \in Nat /\ \E i \in 1..Len(sweep[q].batch) : Came(q, l, i)
    BY Members
  <2>i. PICK i \in 1..Len(sweep[p].batch) : Came(p, k, i)
    BY <2>1
  <2>j. PICK j \in 1..Len(sweep[q].batch) : Came(q, l, j)
    BY <2>2
  <2>3. sweep[p].batch[i] = sweep[q].batch[j]
    BY <1>1, <2>i, <2>j DEF Came
  <2>4. p = q /\ i = j
    BY <2>3 DEF BatchInv
  <2>5. i \in Int
    BY SweepFacts
  <2> QED BY <2>1, <2>2, <2>i, <2>j, <2>4, <2>5, OneOrigin
<1>2. ASSUME NEW p \in Procs, NEW k \in 1..Len(sweep'[p].batch),
             row'[sweep'[p].batch[k]] # None, row'[sweep'[p].batch[k]].status = "pending"
      PROVE  row'[sweep'[p].batch[k]].due > Slot(k) - sweep'[p].age
  <2> DEFINE d == sweep'[p].batch[k]
  <2>1. Pending(d) /\ row'[d].due = row[d].due
    BY <1>2
  <2>2. k \in Nat /\ \E i \in 1..Len(sweep[p].batch) : Came(p, k, i)
    BY Members
  <2>i. PICK i \in 1..Len(sweep[p].batch) : Came(p, k, i)
    BY <2>2
  <2>3. d = sweep[p].batch[i] /\ Pending(sweep[p].batch[i])
    BY <2>i, <2>1 DEF Came
  <2>4. row[d].due > Slot(i) - sweep[p].age
    BY <2>3 DEF BatchInv
  <2>5. d \in Deliveries /\ sweep[p].age \in 0..Timeout
    BY <2>3, SweepFacts
  <2>6. row[d].due \in Int
    BY <2>1, <2>5 DEF TypeOK, Pending, Rows
  <2>7. Slot(k) \in Int /\ Slot(k + 1) = Slot(k) + Timeout /\ Timeout \in Nat
    BY <2>2, SlotFacts, WebhookAssumption
  <2> HIDE DEF d
  <2>8. row[d].due > Slot(k) - sweep'[p].age
    <3>1. CASE i = k /\ Same(p)
      BY <3>1, <2>4 DEF Same
    <3>2. CASE i = k + 1 /\ Shorter(p)
      BY <3>2, <2>4, <2>5, <2>6, <2>7 DEF Shorter
    <3> QED BY <3>1, <3>2, <2>i DEF Came
  <2> QED BY <2>1, <2>8 DEF d
<1> QED BY <1>1, <1>2 DEF BatchInv, Pending

LEMMA EmitKeeps ==
  ASSUME TypeOK, EmitInv, \A q \in Procs : Shrunk(q), emitting' \subseteq emitting, UNCHANGED removing, sub'.there = sub.there,
         \A d \in emitting' : row'[d] = row[d] /\ started'[d] = started[d],
         \A d \in Deliveries : row[d] # None => row'[d] # None
  PROVE  EmitInv'
<1>1. ASSUME NEW d \in emitting', NEW p \in Procs, NEW k \in 1..Len(sweep'[p].batch)
      PROVE  sweep'[p].batch[k] # d
  <2>1. \E i \in 1..Len(sweep[p].batch) : Came(p, k, i)
    BY Members
  <2> QED BY <2>1 DEF EmitInv, Came
<1>2. ASSUME sub.there, NEW p \in Procs, NEW k \in 1..Len(sweep'[p].batch)
      PROVE  row'[sweep'[p].batch[k]] # None
  <2>1. \E i \in 1..Len(sweep[p].batch) : Came(p, k, i)
    BY Members
  <2>i. PICK i \in 1..Len(sweep[p].batch) : Came(p, k, i)
    BY <2>1
  <2>2. sweep'[p].batch[k] = sweep[p].batch[i] /\ sweep[p].batch[i] \in Deliveries
    BY <2>i, SweepFacts DEF Came
  <2>3. row[sweep[p].batch[i]] # None
    BY <1>2 DEF EmitInv
  <2> QED BY <2>2, <2>3
<1>3. \A d \in emitting' : row'[d] = None /\ started'[d] = 0
  BY DEF EmitInv
<1>4. removing' => ~sub'.there
  BY DEF EmitInv
<1> QED BY <1>1, <1>2, <1>3, <1>4 DEF EmitInv

-----------------------------------------------------------------------------
LEMMA DeadFinite == IsFiniteSet(Dead) /\ IsFiniteSet(Dead \ Uncounted)
<1>1. Dead \in SUBSET Deliveries /\ Dead \ Uncounted \in SUBSET Deliveries
  BY DEF Dead
<1> QED BY <1>1, WebhookAssumption, FS_Subset

LEMMA CountKeeps ==
  ASSUME TypeOK, TypeOK', CountInv, sub'.there = sub.there, sub'.failures <= sub.failures, faults' >= faults,
         (Dead \ Uncounted) \subseteq (Dead' \ Uncounted')
  PROVE  CountInv'
<1>0. Dead' \ Uncounted' \in SUBSET Deliveries
  BY DEF Dead
<1>1. IsFiniteSet(Dead' \ Uncounted')
  BY <1>0, WebhookAssumption, FS_Subset
<1> DEFINE cu == Cardinality(Dead \ Uncounted)
           cu1 == Cardinality(Dead' \ Uncounted')
<1>2. cu <= cu1 /\ cu \in Nat /\ cu1 \in Nat
  BY <1>1, DeadFinite, FS_Subset, FS_CardinalityType
<1>3. sub.failures \in Nat /\ sub'.failures \in Nat /\ faults \in Nat /\ faults' \in Nat
  BY WebhookAssumption DEF TypeOK
<1>4. sub.there => sub.failures <= cu + faults
  BY DEF CountInv
<1> HIDE DEF cu, cu1
<1>5. sub.there => sub'.failures <= cu1 + faults'
  BY <1>2, <1>3, <1>4
<1> QED BY <1>5 DEF CountInv, cu1

(* A fault makes up for one more on the streak, or for one delivery that   *)
(* is to be counted again.                                                 *)
LEMMA CountFault ==
  ASSUME TypeOK, TypeOK', CountInv, sub'.there = sub.there, faults' = faults + 1, NEW a,
         \/ sub'.failures <= sub.failures + 1 /\ (Dead \ Uncounted) \subseteq (Dead' \ Uncounted')
         \/ sub'.failures <= sub.failures /\ (Dead \ Uncounted) \ {a} \subseteq (Dead' \ Uncounted')
  PROVE  CountInv'
<1>0. Dead' \ Uncounted' \in SUBSET Deliveries
  BY DEF Dead
<1>1. IsFiniteSet(Dead' \ Uncounted')
  BY <1>0, WebhookAssumption, FS_Subset
<1> DEFINE S == Dead \ Uncounted
           cu == Cardinality(S)
           cm == Cardinality(S \ {a})
           cu1 == Cardinality(Dead' \ Uncounted')
<1>2. IsFiniteSet(S)
  BY DeadFinite
<1>3. cu \in Nat /\ cu1 \in Nat /\ cm \in Nat /\ cm >= cu - 1
  <2> HIDE DEF S
  <2>1. IsFiniteSet(S \ {a}) /\ Cardinality(S \ {a}) = IF a \in S THEN Cardinality(S) - 1 ELSE Cardinality(S)
    BY <1>2, FS_RemoveElement
  <2>2. cu \in Nat /\ cu1 \in Nat /\ cm \in Nat
    BY <1>1, <1>2, <2>1, FS_CardinalityType
  <2> QED BY <2>1, <2>2
<1>4. S \subseteq (Dead' \ Uncounted') => cu <= cu1
  BY <1>1, FS_Subset
<1>5. S \ {a} \subseteq (Dead' \ Uncounted') => cm <= cu1
  BY <1>1, FS_Subset
<1>6. sub.failures \in Nat /\ sub'.failures \in Nat /\ faults \in Nat /\ faults' \in Nat
  BY WebhookAssumption DEF TypeOK
<1>7. sub.there => sub.failures <= cu + faults
  BY DEF CountInv
<1>8. \/ sub'.failures <= sub.failures + 1 /\ cu <= cu1
      \/ sub'.failures <= sub.failures /\ cm <= cu1
  BY <1>4, <1>5
<1> HIDE DEF S, cu, cu1, cm
<1>9. sub.there => sub'.failures <= cu1 + faults'
  BY <1>3, <1>6, <1>7, <1>8
<1> QED BY <1>9 DEF CountInv, cu1

-----------------------------------------------------------------------------
LEMMA RetryFacts ==
  ASSUME NEW made \in Nat, NEW age \in 0..Timeout, ~Exhausted(made)
  PROVE  /\ RetryIn(made, age) \in Int /\ made <= Len(Backoff)
         /\ RetryIn(made, age) > Timeout - age
<1>1. Backoff \in Seq(Nat) /\ made \in 1..Len(Backoff) /\ made \in DOMAIN Backoff
  BY WebhookAssumption DEF Exhausted
<1>3. Backoff[made] > Timeout /\ Timeout \in Nat
  BY <1>1, WebhookAssumption
<1> HIDE DEF Exhausted
<1>2. Backoff[made] \in Nat /\ Len(Backoff) \in Nat
  BY <1>1
<1> QED BY <1>1, <1>2, <1>3 DEF RetryIn

LEMMA RecordedFacts ==
  ASSUME NEW r \in Rows, NEW s \in Sweeps, s.outcome # None
  PROVE  /\ Recorded(r, s) \in Rows
         /\ Recorded(r, s).attempt = IF s.outcome = "skipped" THEN r.attempt ELSE s.made
         /\ Recorded(r, s).status # "pending" => Recorded(r, s).due = Never
         /\ Recorded(r, s).status = "pending" => /\ s.outcome \in Failures /\ ~Exhausted(s.made)
                                                 /\ Recorded(r, s).due = RetryIn(s.made, s.age)
         /\ s.outcome = "delivered" => Recorded(r, s).status = "delivered"
         /\ Recorded(r, s).status = "failed" => s.outcome = "undeliverable" \/ CountsAsDead(s)
         /\ CountsAsDead(s) => Recorded(r, s).status = "failed"
<1>0. s.made \in Nat /\ s.age \in 0..Timeout /\ s.outcome \in Outcomes
  BY WebhookAssumption DEF Sweeps
<1>1. CASE s.outcome = "delivered"
  BY <1>0, <1>1 DEF Recorded, Rows, Never, Failures, CountsAsDead
<1>2. CASE s.outcome = "skipped"
  <2>1. r.attempt \in Nat
    BY DEF Rows
  <2> QED BY <1>0, <1>2, <2>1 DEF Recorded, Rows, Never, Failures, CountsAsDead
<1>3. CASE s.outcome = "undeliverable"
  BY <1>0, <1>3 DEF Recorded, Rows, Never, Failures, CountsAsDead
<1>4. CASE s.outcome \in Failures /\ Exhausted(s.made)
  <2>1. Recorded(r, s) = [status |-> "failed", attempt |-> s.made, due |-> Never]
    BY <1>4 DEF Recorded, Failures
  <2> QED BY <1>0, <1>4, <2>1 DEF Rows, Never, Failures, CountsAsDead
<1>5. CASE s.outcome \in Failures /\ ~Exhausted(s.made)
  <2>1. Recorded(r, s) = [status |-> "pending", attempt |-> s.made, due |-> RetryIn(s.made, s.age)]
    BY <1>5 DEF Recorded, Failures
  <2>2. RetryIn(s.made, s.age) \in Int
    BY <1>0, <1>5, RetryFacts
  <2> QED BY <1>0, <1>5, <2>1, <2>2 DEF Rows, Never, Failures, CountsAsDead
<1> QED BY <1>0, <1>1, <1>2, <1>3, <1>4, <1>5 DEF Outcomes, Failures

-----------------------------------------------------------------------------
(* Every action keeps the types, and a pass in step with its batch.        *)
LEMMA OnePass ==
  ASSUME Sound, NEW p \in Procs, sweep' \in [Procs -> Sweeps], \A q \in Procs \ {p} : sweep'[q] = sweep[q],
         sweep'[p].step = "idle" => sweep'[p].batch = <<>>,
         sweep'[p].step \in Trying \cup {"attempt"} => sweep'[p].batch # <<>>,
         sweep'[p].step \in {"record", "reset", "count", "disable"} => sweep'[p].outcome # None
  PROVE  PassInv'
BY DEF Sound, PassInv

LEMMA TypeRest ==
  ASSUME TypeOK, UNCHANGED <<row, emitting, started>>, sub' \in [there : BOOLEAN, enabled : BOOLEAN, failures : Nat],
         removing' \in BOOLEAN, visible' \in BOOLEAN, sweep' \in [Procs -> Sweeps], faults' \in 0..MaxFaults
  PROVE  TypeOK'
BY DEF TypeOK

LEMMA RowTyped ==
  ASSUME TypeOK, NEW d \in Deliveries, NEW r \in Rows \cup {None}
  PROVE  [row EXCEPT ![d] = r] \in [Deliveries -> Rows \cup {None}]
BY DEF TypeOK

LEMMA PendingTyped ==
  ASSUME TypeOK, NEW d \in Deliveries
  PROVE  /\ row[d] # None => row[d] \in Rows /\ row[d].attempt \in Nat /\ row[d].due \in Int
         /\ Pending(d) => row[d] # None
         /\ started[d] \in Nat
BY DEF TypeOK, Pending, Rows

LEMMA FaultTyped ==
  ASSUME TypeOK, faults < MaxFaults
  PROVE  faults + 1 \in 0..MaxFaults
BY WebhookAssumption DEF TypeOK

LEMMA SoundEvent ==
  ASSUME Sound, NEW d \in Deliveries, Emit(d) \/ Insert(d) \/ LoseEvent(d)
  PROVE  Sound'
<1>1. CASE Emit(d)
  BY <1>1 DEF Sound, Emit, endpointVars, TypeOK, PassInv
<1>2. CASE Insert(d)
  <2>1. New \in Rows
    BY DEF New, Rows
  <2>2. row' \in [Deliveries -> Rows \cup {None}]
    BY <1>2, <2>1, RowTyped DEF Insert, Sound
  <2> QED BY <1>2, <2>2 DEF Sound, Insert, endpointVars, TypeOK, PassInv
<1>3. CASE LoseEvent(d)
  <2>1. faults' \in 0..MaxFaults
    BY <1>3, FaultTyped DEF LoseEvent, Sound
  <2> QED BY <1>3, <2>1 DEF Sound, LoseEvent, endpointVars, TypeOK, PassInv
<1> QED BY <1>1, <1>2, <1>3

LEMMA SoundCreator ==
  ASSUME Sound, Switch \/ Remove \/ RemoveLog \/ ViewChanges
  PROVE  Sound'
<1>1. CASE Switch
  <2>0. sub \in [there : BOOLEAN, enabled : BOOLEAN, failures : Nat]
    BY DEF Sound, TypeOK
  <2>1. sub' \in [there : BOOLEAN, enabled : BOOLEAN, failures : Nat]
    <3>1. CASE sub' = [sub EXCEPT !.enabled = FALSE]
      BY <2>0, <3>1
    <3>2. CASE sub' = [sub EXCEPT !.enabled = TRUE, !.failures = 0]
      BY <2>0, <3>2
    <3> QED BY <1>1, <3>1, <3>2 DEF Switch
  <2> QED BY <1>1, <2>1 DEF Sound, Switch, TypeOK, PassInv
<1>2. CASE Remove
  BY <1>2 DEF Sound, Remove, TypeOK, PassInv
<1>3. CASE RemoveLog
  BY <1>3 DEF Sound, RemoveLog, TypeOK, PassInv
<1>4. CASE ViewChanges
  BY <1>4 DEF Sound, ViewChanges, TypeOK, PassInv
<1> QED BY <1>1, <1>2, <1>3, <1>4

LEMMA SoundTick ==
  ASSUME Sound, Tick
  PROVE  Sound'
<1>1. ASSUME NEW d \in Deliveries PROVE row'[d] \in Rows \cup {None}
  BY PendingTyped DEF Tick, Sound, Rows, TypeOK
<1>2. row' \in [Deliveries -> Rows \cup {None}]
  BY <1>1 DEF Tick
<1>3. ASSUME NEW p \in Procs
      PROVE  /\ sweep'[p] \in Sweeps
             /\ sweep'[p].step = sweep[p].step /\ sweep'[p].batch = sweep[p].batch /\ sweep'[p].outcome = sweep[p].outcome
  <2>0. sweep[p] \in Sweeps
    BY DEF Sound, TypeOK
  <2>1. CASE Away(p)
    <3>1. sweep[p].age \in 0..Timeout /\ sweep[p].age < Timeout /\ Timeout \in Nat
      BY <2>0, <2>1, WebhookAssumption DEF Tick, Sweeps, Away
    <3>2. sweep[p].age + 1 \in 0..Timeout
      BY <3>1
    <3>3. sweep'[p] = [sweep[p] EXCEPT !.age = @ + 1]
      BY <2>1 DEF Tick
    <3> QED BY <2>0, <3>2, <3>3 DEF Sweeps
  <2>2. CASE ~Away(p)
    BY <2>0, <2>2 DEF Tick
  <2> QED BY <2>1, <2>2
<1>4. sweep' \in [Procs -> Sweeps]
  BY <1>3 DEF Tick
<1>5. PassInv'
  BY <1>3 DEF PassInv, Sound
<1> QED BY <1>2, <1>4, <1>5 DEF Sound, TypeOK, Tick, endpointVars

LEMMA SoundSweep ==
  ASSUME Sound, NEW p \in Procs, SweepBegins(p) \/ ClaimsEnd(p) \/ SweepEnds(p) \/ ReadRow(p)
  PROVE  Sound'
<1>0. TypeOK
  BY DEF Sound
<1>1. CASE SweepBegins(p)
  <2>1. Goto(p, "claim") /\ "claim" \in Steps
    BY <1>1 DEF SweepBegins, Steps
  <2>2. /\ sweep' \in [Procs -> Sweeps] /\ \A q \in Procs \ {p} : sweep'[q] = sweep[q]
        /\ sweep'[p].step = "claim"
    BY <1>0, <2>1, GotoFacts
  <2>3. PassInv'
    BY <2>2, OnePass DEF Trying
  <2>4. TypeOK'
    BY <1>0, <1>1, <2>2 DEF SweepBegins, endpointVars, TypeOK
  <2> QED BY <2>3, <2>4 DEF Sound
<1>2. CASE ClaimsEnd(p)
  <2>1. Goto(p, "next") /\ "next" \in Steps
    BY <1>2 DEF ClaimsEnd, Steps
  <2>2. /\ sweep' \in [Procs -> Sweeps] /\ \A q \in Procs \ {p} : sweep'[q] = sweep[q]
        /\ sweep'[p].step = "next"
    BY <1>0, <2>1, GotoFacts
  <2>3. PassInv'
    BY <2>2, OnePass DEF Trying
  <2>4. TypeOK'
    BY <1>0, <1>2, <2>2 DEF ClaimsEnd, endpointVars, TypeOK
  <2> QED BY <2>3, <2>4 DEF Sound
<1>3. CASE SweepEnds(p)
  <2>1. sweep' = [sweep EXCEPT ![p] = Asleep]
    BY <1>3 DEF SweepEnds
  <2> QED BY <1>0, <1>3, <2>1, SleepFacts, OnePass, TypeRest DEF Sound, SweepEnds, endpointVars, TypeOK, Trying
<1>4. CASE ReadRow(p)
  <2>1. CASE Pending(At(p))
    <3> DEFINE s == [sweep[p] EXCEPT !.step = "attempt", !.made = row[At(p)].attempt + 1]
    <3>1. sweep' = [sweep EXCEPT ![p] = s] /\ sweep[p].batch # <<>>
      BY <1>0, <1>4, <2>1 DEF ReadRow, TypeOK, Sweeps
    <3>2. At(p) \in Deliveries /\ row[At(p)].attempt + 1 \in Nat
      BY <1>0, <2>1, <3>1, SweepFacts, PendingTyped
    <3>3. s \in Sweeps /\ s.step = "attempt" /\ s.batch = sweep[p].batch
      BY <1>0, <3>2 DEF TypeOK, Sweeps, Steps
    <3> HIDE DEF s
    <3>4. sweep' \in [Procs -> Sweeps] /\ sweep'[p] = s /\ \A q \in Procs \ {p} : sweep'[q] = sweep[q]
      BY <1>0, <3>1, <3>3 DEF TypeOK
    <3>5. PassInv'
      BY <3>1, <3>3, <3>4, OnePass
    <3> QED BY <1>0, <1>4, <3>4, <3>5, TypeRest DEF Sound, ReadRow, endpointVars, TypeOK
  <2>2. CASE ~Pending(At(p))
    <3>1. Done(p) /\ sweep[p].batch # <<>>
      BY <1>4, <2>2 DEF ReadRow
    <3> QED BY <1>0, <1>4, <3>1, DoneFacts, OnePass, TypeRest DEF Sound, ReadRow, endpointVars, TypeOK, Trying
  <2> QED BY <2>1, <2>2
<1> QED BY <1>1, <1>2, <1>3, <1>4

LEMMA SoundClaimNext ==
  ASSUME Sound, NEW p \in Procs, NEW d \in Deliveries, ClaimNext(p, d)
  PROVE  Sound'
<1>0. TypeOK
  BY DEF Sound
<1> DEFINE s == [sweep[p] EXCEPT !.batch = Append(@, d)]
<1>1. sweep' = [sweep EXCEPT ![p] = s]
  BY <1>0 DEF ClaimNext, TypeOK, Sweeps
<1>2. Append(sweep[p].batch, d) \in Seq(Deliveries) /\ Append(sweep[p].batch, d) # <<>>
  <2>1. sweep[p].batch \in Seq(Deliveries)
    BY <1>0, SweepFacts
  <2>2. ASSUME NEW b \in Seq(Deliveries) PROVE Append(b, d) \in Seq(Deliveries) /\ Append(b, d) # <<>>
    <3>1. Append(b, d) \in Seq(Deliveries) /\ Len(Append(b, d)) = Len(b) + 1 /\ Len(b) \in Nat
      OBVIOUS
    <3>2. Len(Append(b, d)) # 0
      BY <3>1
    <3>3. Len(<<>>) = 0
      OBVIOUS
    <3> QED BY <3>1, <3>2, <3>3
  <2> QED BY <2>1, <2>2
<1>3. s \in Sweeps /\ s.step = "claim" /\ s.batch # <<>>
  BY <1>0, <1>2 DEF TypeOK, Sweeps, ClaimNext
<1> HIDE DEF s
<1>4. sweep' \in [Procs -> Sweeps] /\ sweep'[p] = s /\ \A q \in Procs \ {p} : sweep'[q] = sweep[q]
  BY <1>0, <1>1, <1>3 DEF TypeOK
<1>5. PassInv'
  BY <1>3, <1>4, OnePass
<1>6. [row[d] EXCEPT !.due = LeaseUntil] \in Rows
  <2>1. Lease \in Int
    BY WebhookAssumption
  <2> QED BY <1>0, <2>1, PendingTyped DEF ClaimNext, Due, LeaseUntil, Rows
<1>7. row' = [row EXCEPT ![d] = [row[d] EXCEPT !.due = LeaseUntil]]
  BY <1>0 DEF ClaimNext, TypeOK
<1>8. row' \in [Deliveries -> Rows \cup {None}]
  BY <1>0, <1>6, <1>7, RowTyped
<1> QED BY <1>0, <1>4, <1>5, <1>8 DEF Sound, TypeOK, ClaimNext, endpointVars

LEMMA SoundClaimAttempt ==
  ASSUME Sound, NEW p \in Procs, ClaimAttempt(p)
  PROVE  Sound'
<1>0. TypeOK /\ sweep[p].batch # <<>>
  BY DEF Sound, PassInv, ClaimAttempt
<1>a. At(p) \in Deliveries /\ sweep[p].made \in Nat
  BY <1>0, SweepFacts
<1>1. CASE AttemptFree(p)
  <2>1. Goto(p, "look") /\ "look" \in Steps
    BY <1>1 DEF ClaimAttempt, Steps
  <2>2. PassInv' /\ sweep' \in [Procs -> Sweeps]
    BY <1>0, <2>1, GotoFacts, OnePass
  <2>3. row' = [row EXCEPT ![At(p)] = [row[At(p)] EXCEPT !.attempt = sweep[p].made]]
    BY <1>1 DEF ClaimAttempt
  <2>4. [row[At(p)] EXCEPT !.attempt = sweep[p].made] \in Rows
    BY <1>0, <1>1, <1>a, PendingTyped DEF AttemptFree, Rows
  <2>5. row' \in [Deliveries -> Rows \cup {None}]
    BY <1>0, <1>a, <2>3, <2>4, RowTyped
  <2>6. started' = [started EXCEPT ![At(p)] = @ + 1] /\ started[At(p)] \in Nat
    BY <1>0, <1>1, <1>a, PendingTyped DEF ClaimAttempt
  <2>7. started' \in [Deliveries -> Nat]
    <3>1. started \in [Deliveries -> Nat] /\ started[At(p)] + 1 \in Nat
      BY <1>0, <2>6 DEF TypeOK
    <3> QED BY <1>a, <2>6, <3>1
  <2> QED BY <1>0, <2>2, <2>5, <2>7 DEF Sound, TypeOK, ClaimAttempt, endpointVars
<1>2. CASE ~AttemptFree(p)
  <2>1. Done(p) /\ UNCHANGED <<row, started>>
    BY <1>2 DEF ClaimAttempt
  <2> QED BY <1>0, <2>1, DoneFacts, OnePass, TypeRest DEF Sound, ClaimAttempt, endpointVars, TypeOK, Trying
<1> QED BY <1>1, <1>2

LEMMA SoundOutcome ==
  ASSUME Sound, NEW p \in Procs, Look(p) \/ Resolve(p) \/ Answer(p)
  PROVE  /\ Sound'
         /\ (\E g \in {"resolve", "post"} : Goto(p, g)) \/ \E o \in Outcomes : Outcome(p, o)
<1>0. TypeOK /\ sweep[p].batch # <<>>
  BY DEF Sound, PassInv, Look, Resolve, Answer, Trying
<1>1. (\E g \in {"resolve", "post"} : Goto(p, g)) \/ \E o \in Outcomes : Outcome(p, o)
  <2>1. CASE Look(p)
    BY <2>1 DEF Look, Outcomes
  <2>2. CASE Resolve(p) \/ Answer(p)
    BY <2>2 DEF Resolve, Answer, Outcomes
  <2> QED BY <2>1, <2>2
<1>2. UNCHANGED <<row, emitting, started, faults, sub, removing, visible>>
  BY DEF Look, Resolve, Answer, endpointVars
<1>3. CASE \E g \in {"resolve", "post"} : Goto(p, g)
  <2>1. {"resolve", "post"} \subseteq Steps
    BY DEF Steps
  <2> QED BY <1>0, <1>1, <1>2, <1>3, <2>1, GotoFacts, OnePass, TypeRest DEF Sound, TypeOK
<1>4. CASE \E o \in Outcomes : Outcome(p, o)
  <2>1. PICK o \in Outcomes : Outcome(p, o)
    BY <1>4
  <2>2. o # None
    BY NoneAssumption
  <2> QED BY <1>0, <1>1, <1>2, <2>1, <2>2, OutcomeFacts, OnePass, TypeRest DEF Sound, TypeOK
<1> QED BY <1>1, <1>3, <1>4

(* What the writes of an outcome do when they are applied.                 *)
LEMMA RowWritten ==
  ASSUME Sound, NEW p \in Procs, WritesRow(p), sweep[p].batch # <<>>, sweep[p].outcome # None
  PROVE  row' \in [Deliveries -> Rows \cup {None}]
<1>0. TypeOK /\ At(p) \in Deliveries /\ sweep[p] \in Sweeps
  BY SweepFacts DEF Sound
<1>1. ASSUME row[At(p)] # None PROVE Recorded(row[At(p)], sweep[p]) \in Rows
  BY <1>0, <1>1, PendingTyped, RecordedFacts
<1> DEFINE r == IF row[At(p)] = None THEN None ELSE Recorded(row[At(p)], sweep[p])
<1>2. r \in Rows \cup {None}
  BY <1>1
<1>3. row' = [row EXCEPT ![At(p)] = r]
  BY DEF WritesRow
<1> HIDE DEF r
<1> QED BY <1>0, <1>2, <1>3, RowTyped

LEMMA SubWritten ==
  ASSUME TypeOK, WritesSub(Cleared) \/ WritesSub(Counted) \/ WritesSub(Disabled) \/ UNCHANGED sub
  PROVE  /\ sub' \in [there : BOOLEAN, enabled : BOOLEAN, failures : Nat] /\ sub'.there = sub.there
         /\ sub'.failures <= sub.failures + 1
<1>1. sub \in [there : BOOLEAN, enabled : BOOLEAN, failures : Nat] /\ sub.failures \in Nat
  BY DEF TypeOK
<1>2. CASE WritesSub(Cleared)
  BY <1>1, <1>2 DEF WritesSub, Cleared
<1>3. CASE WritesSub(Counted)
  BY <1>1, <1>3 DEF WritesSub, Counted
<1>4. CASE WritesSub(Disabled)
  <2>1. [sub EXCEPT !.enabled = FALSE] \in [there : BOOLEAN, enabled : BOOLEAN, failures : Nat]
    BY <1>1
  <2>2. [sub EXCEPT !.enabled = FALSE].there = sub.there /\ [sub EXCEPT !.enabled = FALSE].failures = sub.failures
    BY <1>1
  <2>3. sub' \in {sub, [sub EXCEPT !.enabled = FALSE]}
    BY <1>4 DEF WritesSub, Disabled
  <2>4. CASE sub' = sub
    BY <1>1, <2>4
  <2>5. CASE sub' = [sub EXCEPT !.enabled = FALSE]
    <3>1. sub' \in [there : BOOLEAN, enabled : BOOLEAN, failures : Nat] /\ sub'.there = sub.there
      BY <2>1, <2>2, <2>5
    <3>2. sub'.failures = sub.failures
      BY <2>2, <2>5
    <3> QED BY <1>1, <3>1, <3>2
  <2> QED BY <2>3, <2>4, <2>5
<1>5. CASE UNCHANGED sub
  BY <1>1, <1>5
<1> QED BY <1>2, <1>3, <1>4, <1>5

LEMMA SoundRecord ==
  ASSUME Sound, NEW p \in Procs, Record(p)
  PROVE  Sound'
<1>0. TypeOK /\ sweep[p].batch # <<>> /\ sweep[p].outcome # None
  BY DEF Sound, PassInv, Record, Trying
<1>1. sweep' \in [Procs -> Sweeps] /\ PassInv'
  <2>1. CASE Goto(p, "reset")
    <3>1. "reset" \in Steps
      BY DEF Steps
    <3> QED BY <1>0, <2>1, <3>1, GotoFacts, OnePass
  <2>2. CASE Goto(p, "count")
    <3>1. "count" \in Steps
      BY DEF Steps
    <3> QED BY <1>0, <2>2, <3>1, GotoFacts, OnePass
  <2>3. CASE Done(p)
    BY <1>0, <2>3, DoneFacts, OnePass DEF Trying
  <2> QED BY <2>1, <2>2, <2>3 DEF Record
<1>2. row' \in [Deliveries -> Rows \cup {None}]
  BY <1>0, RowWritten DEF Record
<1> QED BY <1>0, <1>1, <1>2 DEF Sound, TypeOK, Record, endpointVars

LEMMA SoundStreak ==
  ASSUME Sound, NEW p \in Procs, Reset(p) \/ Count(p) \/ Disable(p)
  PROVE  Sound'
<1>0. TypeOK /\ sweep[p].batch # <<>> /\ sweep[p].outcome # None
  BY DEF Sound, PassInv, Reset, Count, Disable, Trying
<1>1. sub' \in [there : BOOLEAN, enabled : BOOLEAN, failures : Nat]
  BY <1>0, SubWritten DEF Reset, Count, Disable
<1>2. Done(p) \/ Goto(p, "disable")
  BY DEF Reset, Count, Disable
<1>3. sweep' \in [Procs -> Sweeps] /\ PassInv'
  <2>1. CASE Goto(p, "disable")
    <3>1. "disable" \in Steps
      BY DEF Steps
    <3> QED BY <1>0, <2>1, <3>1, GotoFacts, OnePass
  <2>2. CASE Done(p)
    BY <1>0, <2>2, DoneFacts, OnePass DEF Trying
  <2> QED BY <1>2, <2>1, <2>2
<1> QED BY <1>0, <1>1, <1>3 DEF Sound, TypeOK, Reset, Count, Disable

LEMMA SoundStumble ==
  ASSUME Sound, NEW p \in Procs, Stumble(p) \/ Die(p)
  PROVE  Sound'
<1>0. TypeOK
  BY DEF Sound
<1>1. /\ faults' \in 0..MaxFaults /\ UNCHANGED <<emitting, started, removing, visible>>
      /\ (Stumble(p) /\ Outcome(p, "error")) \/ sweep' = [sweep EXCEPT ![p] = Asleep]
  BY <1>0, FaultTyped DEF Stumble, Die, endpointVars
<1>2. sweep' \in [Procs -> Sweeps] /\ PassInv'
  <2>1. CASE Stumble(p) /\ Outcome(p, "error")
    <3>1. "error" \in Outcomes /\ "error" # None
      BY NoneAssumption DEF Outcomes
    <3>2. sweep[p].batch # <<>>
      BY <2>1 DEF Sound, PassInv, Stumble, Trying
    <3> QED BY <1>0, <2>1, <3>1, <3>2, OutcomeFacts, OnePass
  <2>2. CASE sweep' = [sweep EXCEPT ![p] = Asleep]
    BY <1>0, <2>2, SleepFacts, OnePass DEF Trying
  <2> QED BY <1>1, <2>1, <2>2
<1>3. row' \in [Deliveries -> Rows \cup {None}] /\ sub' \in [there : BOOLEAN, enabled : BOOLEAN, failures : Nat]
  <2>1. CASE UNCHANGED <<row, sub>>
    BY <1>0, <2>1 DEF TypeOK
  <2>2. CASE Written(p) /\ Stumble(p)
    <3>1. sweep[p].batch # <<>> /\ sweep[p].outcome # None
      BY <2>2 DEF Sound, PassInv, Stumble, Trying
    <3>2. WritesRow(p) \/ UNCHANGED row
      BY <2>2 DEF Written
    <3>3. row' \in [Deliveries -> Rows \cup {None}]
      BY <1>0, <3>1, <3>2, RowWritten DEF TypeOK
    <3> QED BY <1>0, <2>2, <3>3, SubWritten DEF Written
  <2> QED BY <2>1, <2>2 DEF Stumble, Die, endpointVars
<1> QED BY <1>0, <1>1, <1>2, <1>3 DEF Sound, TypeOK

LEMMA SoundStep == Sound /\ [Next]_vars => Sound'
<1> SUFFICES ASSUME Sound, [Next]_vars PROVE Sound'
  OBVIOUS
<1>1. CASE \E d \in Deliveries : Emit(d) \/ Insert(d) \/ LoseEvent(d)
  BY <1>1, SoundEvent
<1>2. ASSUME NEW p \in Procs, Pass(p) PROVE Sound'
  BY <1>2, SoundSweep, SoundClaimNext, SoundClaimAttempt, SoundOutcome, SoundRecord, SoundStreak DEF Pass
<1>3. ASSUME NEW p \in Procs, Stumble(p) \/ Die(p) PROVE Sound'
  BY <1>3, SoundStumble
<1>4. CASE Switch \/ Remove \/ RemoveLog \/ ViewChanges
  BY <1>4, SoundCreator
<1>5. CASE Tick
  BY <1>5, SoundTick
<1>6. CASE UNCHANGED vars
  BY <1>6 DEF Sound, TypeOK, PassInv, vars
<1> QED BY <1>1, <1>2, <1>3, <1>4, <1>5, <1>6 DEF Next

LEMMA SoundInit == Init => Sound
<1> SUFFICES ASSUME Init PROVE Sound
  OBVIOUS
<1>1. Asleep \in Sweeps /\ Asleep.step = "idle" /\ Asleep.batch = <<>>
  BY WebhookAssumption DEF Asleep, Sweeps, Steps
<1>2. sweep \in [Procs -> Sweeps] /\ \A p \in Procs : sweep[p] = Asleep
  BY <1>1 DEF Init
<1>3. PassInv
  BY <1>1, <1>2 DEF PassInv, Trying
<1>4. 0 \in 0..MaxFaults
  BY WebhookAssumption
<1> QED BY <1>2, <1>3, <1>4 DEF Init, Sound, TypeOK

(* Every variable keeps its type, whatever the lease.                      *)
THEOREM TypeCorrect == Spec => []TypeOK
<1>1. Sound => TypeOK
  BY DEF Sound
<1> QED BY <1>1, SoundInit, SoundStep, PTL DEF Spec

-----------------------------------------------------------------------------
LEMMA Finite == MaxAttempts \in Nat /\ Len(Backoff) \in Nat /\ MaxAttempts = Len(Backoff) + 1
BY WebhookAssumption DEF MaxAttempts

LEMMA AtOnce ==
  ASSUME Sound, BatchInv, NEW p \in Procs, NEW q \in Procs, sweep[p].batch # <<>>,
         NEW k \in 1..Len(sweep[q].batch), sweep[q].batch[k] = At(p)
  PROVE  p = q /\ k = 1
<1>1. 1 \in 1..Len(sweep[p].batch) /\ At(p) = sweep[p].batch[1]
  BY SweepFacts DEF Sound
<1>2. sweep[p].batch[1] = sweep[q].batch[k]
  BY <1>1
<1>3. p = q /\ 1 = k
  BY <1>1, <1>2 DEF BatchInv
<1> QED BY <1>3

LEMMA OtherAt ==
  ASSUME Sound, BatchInv, NEW p \in Procs, NEW q \in Procs, p # q,
         sweep[p].batch # <<>>, sweep[q].batch # <<>>
  PROVE  At(p) # At(q)
<1>1. 1 \in 1..Len(sweep[q].batch) /\ At(q) = sweep[q].batch[1]
  BY SweepFacts DEF Sound
<1> QED BY <1>1, AtOnce

LEMMA ActiveOnce ==
  ASSUME Sound, BatchInv, NEW p \in Procs, NEW q \in Procs, NEW d, Active(p, d), Active(q, d)
  PROVE  p = q
BY OtherAt DEF Sound, PassInv, Active

(* What a step of one pass leaves of the others.                           *)
Only(p) == \A q \in Procs \ {p} : sweep'[q] = sweep[q]

LEMMA OnlyFacts ==
  ASSUME NEW p \in Procs, Only(p), NEW q \in Procs \ {p}
  PROVE  At(q)' = At(q) /\ sweep'[q].step = sweep[q].step /\ Same(q) /\ \A d : Active(q, d)' = Active(q, d)
BY DEF Only, At, Same, Active

LEMMA TryKeeps ==
  ASSUME TypeOK, TryInv, NEW p \in Procs, Only(p),
         \A q \in Procs \ {p} : \A d \in Deliveries : Active(q, d) => row'[d] \in {row[d], None},
         faults' \in Nat, faults' >= faults,
         \A d \in Deliveries : TryAt(p, d)'
  PROVE  TryInv'
<1>1. ASSUME NEW q \in Procs \ {p}, NEW d \in Deliveries PROVE TryAt(q, d)'
  <2> SUFFICES ASSUME Active(q, d)', row'[d] # None PROVE TryAt(q, d)'
    BY DEF TryAt
  <2>1. Active(q, d) /\ sweep'[q] = sweep[q]
    BY OnlyFacts DEF Only
  <2>2. row'[d] = row[d] /\ row[d] # None
    BY <2>1
  <2>3. TryAt(q, d)
    BY DEF TryInv
  <2>4. faults > 0 => faults' > 0
    BY DEF TypeOK
  <2> QED BY <2>1, <2>2, <2>3, <2>4 DEF TryAt, Pending
<1> QED BY <1>1 DEF TryInv

LEMMA GiveKeeps ==
  ASSUME TypeOK, GiveInv, UNCHANGED started, faults' \in Nat, faults' >= faults,
         \A d \in Deliveries :
           Pending(d)' /\ (\A p \in Procs : ~Active(p, d)') =>
             \/ Pending(d) /\ (\A p \in Procs : ~Active(p, d))
             \/ started[d] <= Len(Backoff) + faults'
  PROVE  GiveInv'
<1>1. ASSUME NEW d \in Deliveries PROVE GiveAt(d)'
  <2>1. GiveAt(d) /\ started[d] \in Nat /\ faults \in Nat
    BY WebhookAssumption DEF GiveInv, TypeOK
  <2>2. started[d] <= MaxAttempts + faults'
    BY <2>1, Finite DEF GiveAt
  <2>3. ASSUME Pending(d)', \A p \in Procs : ~Active(p, d)' PROVE started[d] <= Len(Backoff) + faults'
    <3>1. Pending(d) /\ (\A p \in Procs : ~Active(p, d)) => started[d] <= Len(Backoff) + faults
      BY <2>1 DEF GiveAt
    <3>2. \/ Pending(d) /\ (\A p \in Procs : ~Active(p, d))
          \/ started[d] <= Len(Backoff) + faults'
      BY <2>3
    <3>3. started[d] <= Len(Backoff) + faults => started[d] <= Len(Backoff) + faults'
      BY <2>1, Finite
    <3> QED BY <3>1, <3>2, <3>3
  <2> QED BY <2>2, <2>3 DEF GiveAt, MaxAttempts
<1> QED BY <1>1 DEF GiveInv

LEMMA RowKeeps ==
  ASSUME RowInv, UNCHANGED <<row, started>>
  PROVE  RowInv'
BY DEF RowInv, Pending

(* A pass goes on, or goes out, with no attempt under way.                 *)
LEMMA Leaves ==
  ASSUME Sound, Sound', Rest, NEW p \in Procs, Only(p), Shrunk(p), sweep'[p].step \notin Trying,
         UNCHANGED <<row, emitting, started, removing>>, sub'.there = sub.there, faults' >= faults,
         \A d \in Deliveries : Active(p, d) /\ Pending(d) => started[d] <= Len(Backoff) + faults'
  PROVE  (sub'.failures <= sub.failures \/ CountInv') => Rest'
<1>0. TypeOK /\ TypeOK' /\ faults' \in Nat
  BY WebhookAssumption DEF Sound, TypeOK
<1>1. \A q \in Procs : Shrunk(q)
  BY OnlyFacts DEF Shrunk
<1>2. BatchInv'
  BY <1>0, <1>1, BatchKeeps DEF Rest, Pending
<1>3. EmitInv'
  BY <1>0, <1>1, EmitKeeps DEF Rest
<1>4. RowInv'
  BY RowKeeps DEF Rest
<1>5. \A d \in Deliveries : ~Active(p, d)'
  BY DEF Active
<1>6. TryInv'
  BY <1>0, <1>5, TryKeeps DEF Rest, TryAt
<1>7. GiveInv'
  <2>1. ASSUME NEW d \in Deliveries, Pending(d)', \A q \in Procs : ~Active(q, d)', ~(started[d] <= Len(Backoff) + faults')
        PROVE  Pending(d) /\ \A q \in Procs : ~Active(q, d)
    BY <2>1, OnlyFacts DEF Pending
  <2> QED BY <1>0, <2>1, GiveKeeps DEF Rest
<1>8. ASSUME sub'.failures <= sub.failures PROVE CountInv'
  <2>1. Dead' = Dead
    BY DEF Dead
  <2>2. Uncounted' \subseteq Uncounted
    BY OnlyFacts DEF Uncounted, Trying
  <2> QED BY <1>0, <1>8, <2>1, <2>2, CountKeeps DEF Rest
<1> QED BY <1>2, <1>3, <1>4, <1>6, <1>7, <1>8 DEF Rest

(* An attempt goes on.                                                     *)
LEMMA Stays ==
  ASSUME Sound, Sound', Rest, NEW p \in Procs, Only(p), Same(p), sweep[p].step \in Trying,
         sweep'[p].step \in Trying,
         UNCHANGED <<row, emitting, started, removing>>, sub'.there = sub.there, faults' >= faults,
         \A d \in Deliveries : TryAt(p, d)',
         (sub' = sub /\ At(p) \notin Dead) \/ CountInv'
  PROVE  Rest'
<1>0. TypeOK /\ TypeOK' /\ faults' \in Nat
  BY WebhookAssumption DEF Sound, TypeOK
<1>1. \A q \in Procs : Shrunk(q)
  BY OnlyFacts DEF Shrunk
<1>2. BatchInv'
  BY <1>0, <1>1, BatchKeeps DEF Rest, Pending
<1>3. EmitInv'
  BY <1>0, <1>1, EmitKeeps DEF Rest
<1>4. RowInv'
  BY RowKeeps DEF Rest
<1>6. TryInv'
  BY <1>0, TryKeeps DEF Rest
<1>a. At(p)' = At(p) /\ \A d : Active(p, d)' = Active(p, d)
  BY DEF At, Same, Active
<1>7. GiveInv'
  <2>1. \A d \in Deliveries : \A q \in Procs : Active(q, d)' = Active(q, d)
    BY <1>a, OnlyFacts
  <2>2. \A d \in Deliveries : Pending(d)' => Pending(d)
    BY DEF Pending
  <2> QED BY <1>0, <2>1, <2>2, GiveKeeps DEF Rest
<1>8. ASSUME sub' = sub, At(p) \notin Dead PROVE CountInv'
  <2>1. Dead' = Dead
    BY DEF Dead
  <2>2. ASSUME NEW d \in Dead \ Uncounted, d \in Uncounted' PROVE FALSE
    <3>1. PICK q \in Procs : sweep'[q].step \in {"record", "count"} /\ At(q)' = d
      BY <2>2 DEF Uncounted
    <3>2. q = p
      BY <2>2, <3>1, OnlyFacts DEF Uncounted, Dead
    <3> QED BY <1>8, <1>a, <3>1, <3>2
  <2>3. sub'.failures <= sub.failures
    BY <1>0, <1>8 DEF TypeOK
  <2> QED BY <1>0, <1>8, <2>1, <2>2, <2>3, CountKeeps DEF Rest
<1> QED BY <1>2, <1>3, <1>4, <1>6, <1>7, <1>8 DEF Rest

(* Nothing moves but the subscription, events and faults.                  *)
LEMMA Still ==
  ASSUME Sound, Sound', Rest, UNCHANGED <<row, started, sweep>>, faults' >= faults, EmitInv',
         ~sub'.there \/ (sub'.there = sub.there /\ sub'.failures <= sub.failures)
  PROVE  Rest'
<1>0. TypeOK /\ TypeOK' /\ faults' \in Nat /\ faults \in Nat
  BY WebhookAssumption DEF Sound, TypeOK
<1>1. BatchInv'
  BY DEF BatchInv, Rest, Pending
<1>2. RowInv'
  BY RowKeeps DEF Rest
<1>3. \A p \in Procs : \A d : Active(p, d)' = Active(p, d)
  BY DEF Active, At
<1>4. TryInv'
  <2>1. ASSUME NEW p \in Procs, NEW d \in Deliveries PROVE TryAt(p, d)'
    <3>1. TryAt(p, d)
      BY DEF Rest, TryInv
    <3>2. faults > 0 => faults' > 0
      BY <1>0
    <3> QED BY <1>3, <3>1, <3>2 DEF TryAt, Pending
  <2> QED BY <2>1 DEF TryInv
<1>5. GiveInv'
  <2>1. \A d \in Deliveries : Pending(d)' = Pending(d)
    BY DEF Pending
  <2> QED BY <1>0, <1>3, <2>1, GiveKeeps DEF Rest
<1>6. CountInv'
  <2>1. CASE ~sub'.there
    BY <2>1 DEF CountInv
  <2>2. CASE sub'.there = sub.there /\ sub'.failures <= sub.failures
    <3>1. Dead' = Dead /\ Uncounted' = Uncounted
      BY DEF Dead, Uncounted, At
    <3> QED BY <1>0, <2>2, <3>1, CountKeeps DEF Rest
  <2> QED BY <2>1, <2>2
<1> QED BY <1>1, <1>2, <1>4, <1>5, <1>6 DEF Rest

-----------------------------------------------------------------------------
LEMMA GotoMoves ==
  ASSUME TypeOK, NEW p \in Procs, NEW s \in Steps, Goto(p, s)
  PROVE  Only(p) /\ Same(p) /\ Shrunk(p) /\ sweep'[p].step = s
BY GotoFacts DEF Only, Same, Shrunk

LEMMA DoneMoves ==
  ASSUME TypeOK, NEW p \in Procs, sweep[p].batch # <<>>, Done(p)
  PROVE  Only(p) /\ Shorter(p) /\ Shrunk(p) /\ sweep'[p].step = "next"
BY DoneFacts DEF Only, Shorter, Shrunk

LEMMA SleepMoves ==
  ASSUME TypeOK, NEW p \in Procs, sweep' = [sweep EXCEPT ![p] = Asleep]
  PROVE  Only(p) /\ Shrunk(p) /\ sweep'[p].step = "idle"
BY SleepFacts DEF Only, Shrunk

LEMMA SameSub ==
  ASSUME TypeOK, UNCHANGED sub
  PROVE  sub'.there = sub.there /\ sub'.failures <= sub.failures /\ faults >= faults
BY WebhookAssumption DEF TypeOK

(* A pass that is not at an attempt.                                       *)
LEMMA RestSweep ==
  ASSUME Sound, Sound', Rest, NEW p \in Procs,
         SweepBegins(p) \/ ClaimsEnd(p) \/ SweepEnds(p) \/ ReadRow(p) \/ (ClaimAttempt(p) /\ ~AttemptFree(p))
  PROVE  Rest'
<1>0. TypeOK
  BY DEF Sound
<1>1. UNCHANGED <<row, emitting, started, removing, sub, faults>>
  BY DEF SweepBegins, ClaimsEnd, SweepEnds, ReadRow, ClaimAttempt, endpointVars
<1>2. sub'.there = sub.there /\ sub'.failures <= sub.failures /\ faults' >= faults
  BY <1>0, <1>1, SameSub
<1>3. \A d : ~Active(p, d)
  BY DEF Active, SweepBegins, ClaimsEnd, SweepEnds, ReadRow, ClaimAttempt, Trying
<1>4. Only(p) /\ Shrunk(p) /\ sweep'[p].step \notin Trying
  <2>1. CASE SweepBegins(p)
    <3>1. Goto(p, "claim") /\ "claim" \in Steps
      BY <2>1 DEF SweepBegins, Steps
    <3> QED BY <1>0, <3>1, GotoMoves DEF Trying
  <2>2. CASE ClaimsEnd(p)
    <3>1. Goto(p, "next") /\ "next" \in Steps
      BY <2>2 DEF ClaimsEnd, Steps
    <3> QED BY <1>0, <3>1, GotoMoves DEF Trying
  <2>3. CASE SweepEnds(p)
    BY <1>0, <2>3, SleepMoves DEF SweepEnds, Trying
  <2>4. CASE ReadRow(p) /\ Pending(At(p))
    <3>1. sweep' = [sweep EXCEPT ![p].step = "attempt", ![p].made = row[At(p)].attempt + 1]
      BY <2>4 DEF ReadRow
    <3>2. sweep' \in [Procs -> Sweeps] /\ sweep \in [Procs -> Sweeps]
      BY DEF Sound, TypeOK
    <3>3. sweep'[p].step = "attempt" /\ Same(p) /\ Only(p)
      BY <3>1, <3>2 DEF Same, Only, Sweeps
    <3> QED BY <3>3 DEF Shrunk, Trying
  <2>5. CASE (ReadRow(p) /\ ~Pending(At(p))) \/ (ClaimAttempt(p) /\ ~AttemptFree(p))
    <3>1. Done(p) /\ sweep[p].batch # <<>>
      BY <2>5 DEF ReadRow, ClaimAttempt, Sound, PassInv
    <3> QED BY <1>0, <3>1, DoneMoves DEF Trying
  <2> QED BY <2>1, <2>2, <2>3, <2>4, <2>5
<1> QED BY <1>1, <1>2, <1>3, <1>4, Leaves

(* A pass that dies, or gives up its batch.                                *)
LEMMA RestSleep ==
  ASSUME Sound, Sound', Rest, NEW p \in Procs, sweep' = [sweep EXCEPT ![p] = Asleep], faults' = faults + 1,
         UNCHANGED <<row, emitting, started, removing>>, UNCHANGED sub \/ (sub'.there = sub.there /\ CountInv')
  PROVE  Rest'
<1>0. TypeOK /\ faults \in Nat
  BY WebhookAssumption DEF Sound, TypeOK
<1>1. Only(p) /\ Shrunk(p) /\ sweep'[p].step \notin Trying
  BY <1>0, SleepMoves DEF Trying
<1>2. sub'.there = sub.there /\ (sub'.failures <= sub.failures \/ CountInv') /\ faults' >= faults
  BY <1>0, SameSub
<1>3. ASSUME NEW d \in Deliveries PROVE started[d] <= Len(Backoff) + faults'
  <2>1. started[d] <= MaxAttempts + faults /\ started[d] \in Nat
    BY DEF Rest, GiveInv, GiveAt, Sound, TypeOK
  <2> QED BY <1>0, <2>1, Finite
<1> QED BY <1>1, <1>2, <1>3, Leaves

(* What it learns of the subscription or of the endpoint.                  *)
LEMMA RestOutcome ==
  ASSUME Sound, Sound', Rest, NEW p \in Procs, Look(p) \/ Resolve(p) \/ Answer(p)
  PROVE  Rest'
<1>0. TypeOK /\ sweep[p].step \in {"look", "resolve", "post"}
  BY DEF Sound, Look, Resolve, Answer
<1>1. UNCHANGED <<row, emitting, started, removing, sub, faults>>
  BY DEF Look, Resolve, Answer, endpointVars
<1>2. sub'.there = sub.there /\ sub'.failures <= sub.failures /\ faults' >= faults
  BY <1>0, <1>1, SameSub
<1>3. Only(p) /\ Same(p) /\ sweep'[p].step \in {"resolve", "post", "record"} /\ sweep'[p].made = sweep[p].made
  <2>1. ASSUME NEW g \in {"resolve", "post"}, Goto(p, g) PROVE <1>3!:
    <3>1. g \in Steps
      BY DEF Steps
    <3> QED BY <1>0, <2>1, <3>1, GotoFacts DEF Only, Same
  <2>2. ASSUME NEW o \in Outcomes, Outcome(p, o) PROVE <1>3!:
    BY <1>0, <2>2, OutcomeFacts DEF Only, Same
  <2> QED BY <2>1, <2>2, SoundOutcome
<1>4. ASSUME NEW d \in Deliveries, Active(p, d), row[d] # None PROVE Pending(d) /\ row[d].attempt = sweep[p].made
  BY <1>0, <1>4 DEF Rest, TryInv, TryAt
<1>5. ASSUME NEW d \in Deliveries PROVE TryAt(p, d)'
  <2>1. Active(p, d)' = Active(p, d)
    BY <1>0, <1>3 DEF Active, At, Same, Trying
  <2> QED BY <1>1, <1>3, <1>4, <2>1 DEF TryAt, Pending
<1>6. At(p) \notin Dead
  BY <1>0, <1>4 DEF Dead, Active, Trying, Pending
<1> QED BY <1>0, <1>1, <1>2, <1>3, <1>5, <1>6, Stays DEF Trying

(* How a pass goes on from a write that failed or whose answer was lost.   *)
LEMMA StumbleMoves ==
  ASSUME Sound, NEW p \in Procs, Stumble(p)
  PROVE  /\ Only(p) /\ Shrunk(p) /\ At(p) \in Deliveries
         /\ faults \in Nat /\ faults' = faults + 1 /\ faults' \in Nat
         /\ sub'.there = sub.there
         /\ \/ /\ sweep[p].outcome \in {"delivered", "failure"}
               /\ Outcome(p, "error") /\ Same(p) /\ sweep'[p].step = "record"
               /\ sweep'[p].made = sweep[p].made /\ sweep'[p].outcome = "error"
            \/ /\ sweep' = [sweep EXCEPT ![p] = Asleep] /\ sweep'[p].batch = <<>> /\ sweep'[p].step = "idle"
<1>0. TypeOK /\ faults \in Nat /\ faults' = faults + 1 /\ sweep[p].batch # <<>>
  BY WebhookAssumption DEF Sound, Stumble, TypeOK, PassInv, Trying
<1>1. "error" \in Outcomes /\ At(p) \in Deliveries /\ faults' \in Nat
  BY <1>0, SweepFacts DEF Outcomes
<1>2. sub'.there = sub.there
  BY <1>0, SubWritten DEF Stumble, Written
<1>3. CASE sweep[p].outcome \in {"delivered", "failure"} /\ Outcome(p, "error")
  BY <1>0, <1>1, <1>2, <1>3, OutcomeFacts DEF Only, Same, Shrunk
<1>4. CASE sweep' = [sweep EXCEPT ![p] = Asleep]
  BY <1>0, <1>1, <1>2, <1>4, SleepMoves, SleepFacts
<1> QED BY <1>3, <1>4 DEF Stumble

LEMMA StumbleCount ==
  ASSUME Sound, Sound', Rest, NEW p \in Procs, Stumble(p)
  PROVE  CountInv'
<1> SUFFICES ASSUME sub.there PROVE CountInv'
  BY StumbleMoves DEF CountInv
<1>0. /\ TypeOK /\ TypeOK' /\ Only(p) /\ sub'.there = sub.there /\ faults' = faults + 1
      /\ sweep[p].step \in {"record", "reset", "count", "disable"} /\ At(p) \in Deliveries
  BY StumbleMoves DEF Sound, Stumble
<1>p. PICK a \in Deliveries : a = At(p)
  BY <1>0
<1>1. \A d \in Deliveries \ {a} : row'[d] = row[d]
  BY <1>0, <1>p DEF Stumble, Written, WritesRow, TypeOK
<1>2. ASSUME NEW d \in Uncounted' PROVE d = a \/ d \in Uncounted
  <2>1. PICK q \in Procs : sweep'[q].step \in {"record", "count"} /\ At(q)' = d
    BY <1>2 DEF Uncounted
  <2>2. CASE q = p
    <3>1. Same(p)
      BY <2>1, <2>2, StumbleMoves
    <3> QED BY <1>p, <2>1, <2>2, <3>1 DEF At, Same
  <2>3. CASE q # p
    BY <1>0, <1>2, <2>1, <2>3, OnlyFacts DEF Uncounted
  <2> QED BY <2>2, <2>3
<1>3. (Dead \ Uncounted) \ {a} \subseteq (Dead' \ Uncounted')
  BY <1>1, <1>2 DEF Dead
<1>4. CASE sweep[p].step = "count"
  <2>1. a \in Uncounted
    BY <1>p, <1>4 DEF Uncounted
  <2>2. (Dead \ Uncounted) \subseteq (Dead' \ Uncounted')
    BY <1>3, <2>1
  <2>3. sub'.failures <= sub.failures + 1
    BY <1>0, SubWritten DEF Stumble, Written
  <2> QED BY <1>0, <2>2, <2>3, CountFault DEF Rest
<1>5. CASE sweep[p].step # "count"
  <2>1. sub'.failures <= sub.failures
    <3>1. sub \in [there : BOOLEAN, enabled : BOOLEAN, failures : Nat] /\ sub.failures \in Nat
      BY <1>0 DEF TypeOK
    <3>2. WritesSub(Cleared) \/ WritesSub(Disabled) \/ UNCHANGED sub
      BY <1>5 DEF Stumble, Written
    <3> QED BY <3>1, <3>2 DEF WritesSub, Cleared, Disabled
  <2> QED BY <1>0, <1>3, <2>1, CountFault DEF Rest
<1> QED BY <1>4, <1>5

(* A write that fails, or is not one of the row, where the catch around    *)
(* the request has it.                                                     *)
LEMMA RestError ==
  ASSUME Sound, Sound', Rest, NEW p \in Procs, Stumble(p), Outcome(p, "error"), UNCHANGED row
  PROVE  Rest'
<1>0. TypeOK /\ faults \in Nat /\ faults' = faults + 1 /\ faults' >= faults
  BY WebhookAssumption DEF Sound, Stumble, TypeOK
<1>1. UNCHANGED <<row, emitting, started, removing>> /\ sweep[p].step \in {"record", "reset", "count", "disable"}
  BY DEF Stumble
<1>3. Only(p) /\ Same(p) /\ sweep'[p].step = "record" /\ sweep'[p].made = sweep[p].made /\ sweep'[p].outcome = "error"
  <2>1. "error" \in Outcomes
    BY DEF Outcomes
  <2> QED BY <1>0, <2>1, OutcomeFacts DEF Only, Same
<1>4. ASSUME NEW d \in Deliveries PROVE TryAt(p, d)'
  <2>1. Active(p, d)' = Active(p, d)
    BY <1>1, <1>3 DEF Active, At, Same, Trying
  <2>2. TryAt(p, d)
    BY DEF Rest, TryInv
  <2>3. faults' > 0
    BY <1>0
  <2> QED BY <1>1, <1>3, <2>1, <2>2, <2>3 DEF TryAt, Pending
<1> QED BY <1>0, <1>1, <1>3, <1>4, StumbleMoves, StumbleCount, Stays DEF Trying

(* The streak is cleared, or the endpoint is disabled.                     *)
LEMMA RestReset ==
  ASSUME Sound, Sound', Rest, NEW p \in Procs, Reset(p) \/ Disable(p)
  PROVE  Rest'
<1>0. TypeOK /\ sweep[p].batch # <<>>
  BY DEF Sound, PassInv, Reset, Disable, Trying
<1>1. UNCHANGED <<row, emitting, started, removing, faults>> /\ Done(p) /\ sweep[p].step \in {"reset", "disable"}
  BY DEF Reset, Disable
<1>2. sub'.there = sub.there /\ sub'.failures <= sub.failures /\ faults' >= faults
  <2>1. sub \in [there : BOOLEAN, enabled : BOOLEAN, failures : Nat] /\ faults \in Int
    BY <1>0, WebhookAssumption DEF TypeOK
  <2>2. CASE Reset(p)
    BY <1>1, <2>1, <2>2 DEF Reset, WritesSub, Cleared
  <2>3. CASE Disable(p)
    BY <1>1, <2>1, <2>3 DEF Disable, WritesSub, Disabled
  <2> QED BY <2>2, <2>3
<1>3. ASSUME NEW d \in Deliveries, Active(p, d), Pending(d) PROVE FALSE
  <2>1. TryAt(p, d)
    BY DEF Rest, TryInv
  <2> QED BY <1>1, <1>3, <2>1 DEF TryAt, Pending
<1>4. Only(p) /\ Shrunk(p) /\ sweep'[p].step \notin Trying
  BY <1>0, <1>1, DoneMoves DEF Trying
<1> QED BY <1>1, <1>2, <1>3, <1>4, Leaves

-----------------------------------------------------------------------------
LEMMA RestCount ==
  ASSUME Sound, Sound', Rest, NEW p \in Procs, Count(p)
  PROVE  Rest'
<1>0. TypeOK /\ TypeOK' /\ sweep[p].batch # <<>> /\ sweep[p].step = "count"
  BY DEF Sound, PassInv, Count, Trying
<1>1. /\ UNCHANGED <<row, emitting, started, removing, faults>>
      /\ Done(p) \/ Goto(p, "disable")
      /\ sub.there => /\ sub'.failures = sub.failures + 1
                      /\ Goto(p, "disable") => TRUE
      /\ sub'.there = sub.there
  BY <1>0 DEF Count, WritesSub, Counted, TypeOK
<1>2. faults' >= faults
  BY <1>0, <1>1, WebhookAssumption DEF TypeOK
<1>d. At(p) \in Deliveries
  BY <1>0, SweepFacts
<1>3. "disable" \in Steps
  BY DEF Steps
<1>4. Only(p) /\ Shrunk(p) /\ sweep'[p].step \in {"next", "disable"}
  BY <1>0, <1>1, <1>3, GotoMoves, DoneMoves
<1>5. CountInv'
  <2> SUFFICES ASSUME sub.there PROVE CountInv'
    BY <1>1 DEF CountInv
  <2>1. At(p) \in Dead
    <3>1. TryAt(p, At(p))
      BY <1>d DEF Rest, TryInv
    <3>2. row[At(p)] # None
      BY <1>0, SweepFacts DEF Rest, EmitInv
    <3> QED BY <1>0, <1>d, <3>1, <3>2 DEF TryAt, Active, Trying, Dead
  <2>2. At(p) \in Uncounted
    BY <1>0, <1>d DEF Uncounted
  <2>3. Dead' = Dead
    BY <1>1 DEF Dead
  <2>4. ASSUME NEW d \in Uncounted' PROVE d \in Uncounted /\ d # At(p)
    <3>1. PICK q \in Procs : sweep'[q].step \in {"record", "count"} /\ At(q)' = d
      BY DEF Uncounted
    <3>2. q # p
      BY <1>4, <3>1
    <3>3. sweep[q].step \in {"record", "count"} /\ At(q) = d
      BY <1>4, <3>1, <3>2, OnlyFacts
    <3>4. sweep[q].batch # <<>>
      BY <3>3 DEF Sound, PassInv, Trying
    <3>5. At(q) # At(p)
      BY <1>0, <3>2, <3>4, OtherAt DEF Rest
    <3> QED BY <3>3, <3>5, SweepFacts, <1>0, <3>4 DEF Uncounted
  <2> DEFINE S == Dead \ Uncounted
  <2>5. IsFiniteSet(S) /\ IsFiniteSet(Dead) /\ At(p) \notin S
    BY <2>2, DeadFinite
  <2>6. Cardinality(S \cup {At(p)}) = Cardinality(S) + 1 /\ IsFiniteSet(S \cup {At(p)})
    BY <2>5, FS_AddElement
  <2>7. S \cup {At(p)} \subseteq Dead' \ Uncounted'
    BY <2>1, <2>3, <2>4
  <2>8. IsFiniteSet(Dead' \ Uncounted')
    BY <2>3, <2>5, FS_Subset
  <2> DEFINE cu == Cardinality(S)
             cu1 == Cardinality(Dead' \ Uncounted')
  <2>9. cu + 1 <= cu1 /\ cu \in Nat /\ cu1 \in Nat
    BY <2>5, <2>6, <2>7, <2>8, FS_Subset, FS_CardinalityType
  <2>10. sub.failures <= cu + faults
    BY DEF Rest, CountInv
  <2>11. sub.failures \in Nat /\ faults \in Nat
    BY <1>0, WebhookAssumption DEF TypeOK
  <2> HIDE DEF S, cu, cu1
  <2>12. sub'.failures <= cu1 + faults'
    BY <1>1, <2>9, <2>10, <2>11
  <2> QED BY <2>12 DEF CountInv, cu1
<1>6. CASE Done(p)
  <2>1. ASSUME NEW d \in Deliveries, Active(p, d), Pending(d) PROVE FALSE
    <3>1. TryAt(p, d)
      BY DEF Rest, TryInv
    <3> QED BY <1>0, <2>1, <3>1 DEF TryAt, Pending
  <2>2. sweep'[p].step \notin Trying
    BY <1>0, <1>6, DoneMoves DEF Trying
  <2> QED BY <1>1, <1>2, <1>4, <1>5, <2>1, <2>2, Leaves
<1>7. CASE Goto(p, "disable")
  <2>1. Same(p) /\ sweep'[p].step = "disable" /\ sweep'[p].made = sweep[p].made /\ sweep'[p].outcome = sweep[p].outcome
    BY <1>0, <1>3, <1>7, GotoFacts DEF Same
  <2>2. ASSUME NEW d \in Deliveries PROVE TryAt(p, d)'
    <3>1. TryAt(p, d)
      BY DEF Rest, TryInv
    <3>2. Active(p, d)' = Active(p, d)
      BY <1>0, <2>1 DEF Active, At, Same, Trying
    <3> QED BY <1>0, <1>1, <2>1, <3>1, <3>2 DEF TryAt, Pending
  <2> QED BY <1>0, <1>1, <1>2, <1>4, <1>5, <2>1, <2>2, Stays DEF Trying
<1> QED BY <1>1, <1>6, <1>7

LEMMA RestEvent ==
  ASSUME Sound, Sound', Rest, NEW d \in Deliveries, Emit(d) \/ LoseEvent(d)
  PROVE  Rest'
<1>0. TypeOK /\ faults \in Nat
  BY WebhookAssumption DEF Sound, TypeOK
<1>1. UNCHANGED <<row, started, sweep, sub, removing>> /\ faults' >= faults
  BY <1>0 DEF Emit, LoseEvent, endpointVars
<1>2. sub'.there = sub.there /\ sub'.failures <= sub.failures
  BY <1>0, <1>1, SameSub
<1>3. EmitInv'
  <2>1. ASSUME Emit(d), NEW p \in Procs, NEW k \in 1..Len(sweep[p].batch) PROVE sweep[p].batch[k] # d
    BY <2>1 DEF Rest, EmitInv, Emit
  <2>2. CASE Emit(d)
    BY <1>1, <2>1, <2>2 DEF Rest, EmitInv, Emit
  <2>3. CASE LoseEvent(d)
    BY <1>1, <2>3 DEF Rest, EmitInv, LoseEvent
  <2> QED BY <2>2, <2>3
<1> QED BY <1>1, <1>2, <1>3, Still

LEMMA RestCreator ==
  ASSUME Sound, Sound', Rest, Switch \/ Remove \/ ViewChanges
  PROVE  Rest'
<1>0. TypeOK /\ faults \in Nat
  BY WebhookAssumption DEF Sound, TypeOK
<1>1. UNCHANGED <<row, emitting, started, sweep>> /\ faults' >= faults
  BY <1>0 DEF Switch, Remove, ViewChanges
<1>t. sub \in [there : BOOLEAN, enabled : BOOLEAN, failures : Nat]
  BY <1>0 DEF TypeOK
<1>2. ~sub'.there \/ (sub'.there = sub.there /\ sub'.failures <= sub.failures /\ removing' = removing)
  <2>1. CASE Switch
    <3>0. sub.failures \in Nat
      BY <1>t
    <3>1. sub'.there = sub.there /\ sub'.failures \in {0, sub.failures}
      BY <1>t, <2>1 DEF Switch
    <3>2. sub'.failures <= sub.failures
      BY <3>0, <3>1
    <3> QED BY <2>1, <3>1, <3>2 DEF Switch
  <2>2. CASE Remove
    BY <1>t, <2>2 DEF Remove
  <2>3. CASE ViewChanges
    BY <1>0, <2>3, SameSub DEF ViewChanges
  <2> QED BY <2>1, <2>2, <2>3
<1>3. EmitInv'
  BY <1>1, <1>2 DEF Rest, EmitInv
<1> QED BY <1>1, <1>2, <1>3, Still

LEMMA RestInsert ==
  ASSUME Sound, Sound', Rest, NEW d \in Deliveries, Insert(d)
  PROVE  Rest'
<1>0. TypeOK /\ TypeOK' /\ faults \in Nat /\ faults' = faults
  BY WebhookAssumption DEF Sound, TypeOK, Insert
<1>1. UNCHANGED <<started, sweep, sub, removing>>
  BY DEF Insert, endpointVars
<1>2. row' = [row EXCEPT ![d] = New] /\ row \in [Deliveries -> Rows \cup {None}] /\ New \in Rows /\ New # None
  <2>1. New \in Rows
    BY DEF New, Rows
  <2> QED BY <1>0, <2>1, NoneAssumption DEF Insert, TypeOK
<1>3. row'[d] = New /\ \A e \in Deliveries \ {d} : row'[e] = row[e]
  BY <1>2
<1>4. row[d] = None /\ started[d] = 0 /\ \A p \in Procs : \A k \in 1..Len(sweep[p].batch) : sweep[p].batch[k] # d
  BY DEF Rest, EmitInv, Insert
<1>5. New.status = "pending" /\ New.attempt = 0
  BY DEF New
<1>s. \A q \in Procs : Shrunk(q)
  BY <1>1 DEF Shrunk, Same
<1>6. BatchInv'
  <2>1. \A q \in Procs : \A k \in 1..Len(sweep'[q].batch) : row'[sweep'[q].batch[k]] = row[sweep'[q].batch[k]]
    BY <1>0, <1>1, <1>3, <1>4, SweepFacts
  <2> QED BY <1>0, <1>s, <2>1, BatchKeeps DEF Rest, Pending
<1>7. EmitInv'
  <2>1. emitting' = emitting \ {d} /\ emitting \subseteq Deliveries
    BY <1>0 DEF Insert, TypeOK
  <2> QED BY <1>0, <1>1, <1>2, <1>3, <1>4, <1>s, <2>1, EmitKeeps DEF Rest
<1>8. RowInv'
  BY <1>1, <1>3, <1>4, <1>5 DEF Rest, RowInv, Pending
<1>9. \A p \in Procs : ~Active(p, d)
  BY <1>0, <1>4, SweepFacts DEF Active, Sound, PassInv
<1>10. \A p \in Procs : \A e : Active(p, e)' = Active(p, e)
  BY <1>1 DEF Active, At
<1>11. TryInv'
  <2>1. ASSUME NEW p \in Procs, NEW e \in Deliveries PROVE TryAt(p, e)'
    <3>1. TryAt(p, e)
      BY DEF Rest, TryInv
    <3> QED BY <1>0, <1>1, <1>3, <1>9, <1>10, <3>1 DEF TryAt, Pending
  <2> QED BY <2>1 DEF TryInv
<1>12. GiveInv'
  <2>1. \A e \in Deliveries \ {d} : Pending(e)' => Pending(e)
    BY <1>3 DEF Pending
  <2>2. started[d] <= Len(Backoff) + faults'
    BY <1>0, <1>4, Finite
  <2>3. faults' \in Nat /\ faults' >= faults
    BY <1>0
  <2> QED BY <1>0, <1>1, <1>10, <2>1, <2>2, <2>3, GiveKeeps DEF Rest
<1>13. CountInv'
  <2>1. Dead' = Dead
    BY <1>2, <1>3, <1>4, <1>5 DEF Dead
  <2>2. Uncounted' = Uncounted
    BY <1>1 DEF Uncounted, At
  <2>3. sub'.there = sub.there /\ sub'.failures <= sub.failures
    BY <1>0, <1>1, SameSub
  <2> QED BY <1>0, <1>1, <2>1, <2>2, <2>3, CountKeeps DEF Rest
<1> QED BY <1>6, <1>7, <1>8, <1>11, <1>12, <1>13 DEF Rest

LEMMA RestRemoveLog ==
  ASSUME Sound, Sound', Rest, RemoveLog
  PROVE  Rest'
<1>0. TypeOK /\ TypeOK' /\ faults \in Nat /\ faults' = faults
  BY WebhookAssumption DEF Sound, TypeOK, RemoveLog
<1>1. UNCHANGED <<started, sweep, sub, emitting>> /\ ~removing' /\ ~sub.there
  BY DEF RemoveLog, Rest, EmitInv
<1>2. \A d \in Deliveries : row'[d] = None
  BY DEF RemoveLog
<1>3. BatchInv'
  <2>1. \A q \in Procs : \A k \in 1..Len(sweep[q].batch) : row'[sweep[q].batch[k]] = None
    BY <1>0, <1>2, SweepFacts
  <2> QED BY <1>1, <2>1 DEF Rest, BatchInv, Pending
<1>4. EmitInv'
  <2>1. emitting \subseteq Deliveries
    BY <1>0 DEF TypeOK
  <2> QED BY <1>1, <1>2, <2>1 DEF Rest, EmitInv
<1>5. RowInv'
  BY <1>2 DEF RowInv
<1>6. TryInv'
  BY <1>2 DEF TryInv, TryAt
<1>7. GiveInv'
  <2>1. \A d \in Deliveries : ~Pending(d)'
    BY <1>2 DEF Pending
  <2>2. faults' >= faults /\ faults' \in Nat
    BY <1>0
  <2> QED BY <1>0, <1>1, <2>1, <2>2, GiveKeeps DEF Rest
<1>8. CountInv'
  BY <1>1 DEF CountInv
<1> QED BY <1>3, <1>4, <1>5, <1>6, <1>7, <1>8 DEF Rest

-----------------------------------------------------------------------------
LEMMA RestTick ==
  ASSUME Sound, Sound', Rest, Tick
  PROVE  Rest'
<1>0. TypeOK /\ TypeOK' /\ faults \in Nat /\ faults' = faults
  BY WebhookAssumption DEF Sound, TypeOK, Tick
<1>1. UNCHANGED <<started, emitting, sub, removing>>
  BY DEF Tick, endpointVars
<1>2. ASSUME NEW d \in Deliveries
      PROVE  /\ row'[d] = None <=> row[d] = None
             /\ row[d] # None => /\ row'[d].status = row[d].status /\ row'[d].attempt = row[d].attempt
                                 /\ row[d].due \in Int /\ row'[d].due >= row[d].due - 1
                                 /\ row[d].due <= 0 => row'[d].due = row[d].due
  <2>1. row'[d] = IF row[d] # None /\ row[d].due > 0 THEN [row[d] EXCEPT !.due = @ - 1] ELSE row[d]
    BY DEF Tick
  <2>2. row[d] # None => row[d] \in Rows /\ row[d].due \in Int
    BY <1>0, PendingTyped
  <2>3. CASE row[d] # None /\ row[d].due > 0
    <3>1. row'[d] = [row[d] EXCEPT !.due = row[d].due - 1]
      BY <2>1, <2>3
    <3>2. row'[d] \in Rows /\ row'[d].due = row[d].due - 1 /\ row'[d].status = row[d].status /\ row'[d].attempt = row[d].attempt
      BY <2>2, <2>3, <3>1 DEF Rows
    <3>3. row'[d] # None
      BY <3>2, NoneAssumption
    <3> QED BY <2>2, <2>3, <3>2, <3>3
  <2>4. CASE ~(row[d] # None /\ row[d].due > 0)
    BY <2>1, <2>2, <2>4
  <2> QED BY <2>3, <2>4
<1>3. ASSUME NEW p \in Procs
      PROVE  /\ sweep'[p].step = sweep[p].step /\ sweep'[p].batch = sweep[p].batch /\ sweep'[p].outcome = sweep[p].outcome
             /\ sweep'[p].made = sweep[p].made
             /\ Away(p) => sweep'[p].age = sweep[p].age + 1
             /\ ~Away(p) => sweep[p].step = "idle"
  BY <1>0 DEF Tick, TypeOK, Sweeps
<1>4. ASSUME NEW d \in Deliveries PROVE Pending(d)' = Pending(d)
  BY <1>2 DEF Pending
<1>5. \A p \in Procs : \A d : Active(p, d)' = Active(p, d)
  BY <1>3 DEF Active, At
<1>6. BatchInv'
  <2>1. ASSUME NEW p \in Procs, NEW k \in 1..Len(sweep[p].batch),
             row'[sweep[p].batch[k]] # None, row'[sweep[p].batch[k]].status = "pending"
        PROVE  row'[sweep[p].batch[k]].due > Slot(k) - sweep'[p].age
    <3> DEFINE d == sweep[p].batch[k]
    <3>1. d \in Deliveries /\ sweep[p].age \in Nat /\ k \in Nat
      BY <1>0, SweepFacts
    <3>2. Pending(d) /\ row[d] # None
      BY <1>2, <2>1, <3>1 DEF Pending
    <3>3. row[d].due > Slot(k) - sweep[p].age
      BY <3>2 DEF Rest, BatchInv
    <3>4. sweep'[p].age = sweep[p].age + 1
      BY <1>3, <2>1 DEF Sound, PassInv
    <3>5. row[d].due \in Int /\ row'[d].due >= row[d].due - 1
      BY <1>2, <3>1, <3>2
    <3>6. row'[d].due \in Int
      BY <1>0, <1>2, <3>1, <3>2, PendingTyped, <2>1 DEF TypeOK, Rows
    <3>7. Slot(k) \in Int
      BY <3>1, SlotFacts
    <3> HIDE DEF d
    <3>8. row'[d].due > Slot(k) - sweep'[p].age
      BY <3>1, <3>3, <3>4, <3>5, <3>6, <3>7
    <3> QED BY <3>8 DEF d
  <2>2. \A p \in Procs : sweep'[p].batch = sweep[p].batch
    BY <1>3
  <2>3. \A p \in Procs : \A k \in 1..Len(sweep'[p].batch) :
          row'[sweep'[p].batch[k]] # None /\ row'[sweep'[p].batch[k]].status = "pending" => row'[sweep'[p].batch[k]].due > Slot(k) - sweep'[p].age
    BY <2>1, <2>2
  <2>4. ASSUME NEW p \in Procs, NEW q \in Procs, NEW k \in 1..Len(sweep'[p].batch), NEW l \in 1..Len(sweep'[q].batch),
               sweep'[p].batch[k] = sweep'[q].batch[l]
        PROVE  p = q /\ k = l
    <3>1. k \in 1..Len(sweep[p].batch) /\ l \in 1..Len(sweep[q].batch) /\ sweep[p].batch[k] = sweep[q].batch[l]
      BY <2>2, <2>4
    <3> QED BY <3>1 DEF Rest, BatchInv
  <2> QED BY <2>3, <2>4 DEF BatchInv, Pending
<1>7. EmitInv'
  <2>1. emitting \subseteq Deliveries
    BY <1>0 DEF TypeOK
  <2>2. \A p \in Procs : \A k \in 1..Len(sweep[p].batch) : sweep[p].batch[k] \in Deliveries
    BY <1>0, SweepFacts
  <2>3. \A p \in Procs : sweep'[p].batch = sweep[p].batch
    BY <1>3
  <2> QED BY <1>1, <1>2, <2>1, <2>2, <2>3 DEF Rest, EmitInv
<1>8. RowInv'
  <2>1. ASSUME NEW d \in Deliveries, row'[d] # None
        PROVE  started'[d] = row'[d].attempt /\ (~Pending(d)' => row'[d].due = Never)
    <3>1. row[d] # None /\ started[d] = row[d].attempt /\ (~Pending(d) => row[d].due = Never)
      BY <1>2, <2>1 DEF Rest, RowInv
    <3>2. row[d].due = Never => row[d].due <= 0
      BY DEF Never
    <3> QED BY <1>1, <1>2, <1>4, <3>1, <3>2
  <2> QED BY <2>1 DEF RowInv
<1>9. TryInv'
  <2>1. ASSUME NEW p \in Procs, NEW d \in Deliveries PROVE TryAt(p, d)'
    <3>1. TryAt(p, d)
      BY DEF Rest, TryInv
    <3> QED BY <1>0, <1>2, <1>3, <1>4, <1>5, <3>1 DEF TryAt
  <2> QED BY <2>1 DEF TryInv
<1>10. GiveInv'
  <2>1. faults' >= faults /\ faults' \in Nat
    BY <1>0
  <2> QED BY <1>0, <1>1, <1>4, <1>5, <2>1, GiveKeeps DEF Rest
<1>11. CountInv'
  <2>1. Dead' = Dead
    BY <1>2 DEF Dead
  <2>2. Uncounted' = Uncounted
    BY <1>3 DEF Uncounted, At
  <2>3. sub'.there = sub.there /\ sub'.failures <= sub.failures
    BY <1>0, <1>1, SameSub
  <2> QED BY <1>0, <2>1, <2>2, <2>3, CountKeeps DEF Rest
<1> QED BY <1>6, <1>7, <1>8, <1>9, <1>10, <1>11 DEF Rest

LEMMA RestClaimAttempt ==
  ASSUME Sound, Sound', Rest, NEW p \in Procs, ClaimAttempt(p), AttemptFree(p)
  PROVE  Rest'
<1>0. TypeOK /\ TypeOK' /\ faults \in Nat /\ faults' = faults /\ sweep[p].batch # <<>> /\ sweep[p].step = "attempt"
  BY WebhookAssumption DEF Sound, TypeOK, ClaimAttempt, PassInv, endpointVars
<1>p. PICK a \in Deliveries : a = At(p)
  BY <1>0, SweepFacts
<1>a. a \in Deliveries /\ Pending(a) /\ row[a].attempt + 1 = sweep[p].made /\ row[a] # None /\ row[a] \in Rows /\ sweep[p].made \in Nat
  BY <1>0, <1>p, SweepFacts, PendingTyped DEF AttemptFree
<1>1. UNCHANGED <<emitting, sub, removing>>
  BY DEF ClaimAttempt, endpointVars
<1>2. /\ row' = [row EXCEPT ![a] = [row[a] EXCEPT !.attempt = sweep[p].made]]
      /\ started' = [started EXCEPT ![a] = started[a] + 1]
      /\ Goto(p, "look") /\ "look" \in Steps
  BY <1>p DEF ClaimAttempt, Steps
<1>3. /\ row'[a] = [row[a] EXCEPT !.attempt = sweep[p].made] /\ \A d \in Deliveries \ {a} : row'[d] = row[d]
      /\ started'[a] = started[a] + 1 /\ \A d \in Deliveries \ {a} : started'[d] = started[d]
  BY <1>0, <1>a, <1>2 DEF TypeOK
<1>4. row'[a].attempt = sweep[p].made /\ row'[a].status = row[a].status /\ row'[a].due = row[a].due /\ row'[a] # None
  <2>1. row'[a] \in Rows
    BY <1>a, <1>3 DEF Rows
  <2> QED BY <1>a, <1>3, <2>1, NoneAssumption DEF Rows
<1>5. \A d \in Deliveries : Pending(d)' = Pending(d)
  BY <1>3, <1>4, <1>a DEF Pending
<1>6. Only(p) /\ Same(p) /\ Shrunk(p) /\ sweep'[p].step = "look" /\ sweep'[p].made = sweep[p].made
  BY <1>0, <1>2, GotoMoves, GotoFacts
<1>7. At(p)' = a
  BY <1>p, <1>6 DEF At, Same
<1>s. \A q \in Procs : Shrunk(q)
  BY <1>6, OnlyFacts DEF Shrunk
<1>8. \A q \in Procs \ {p} : ~Active(q, a)
  BY <1>0, <1>p, OtherAt DEF Rest, Active, Sound, PassInv
<1>9. BatchInv'
  <2>1. \A q \in Procs : \A k \in 1..Len(sweep'[q].batch) : sweep'[q].batch[k] \in Deliveries
    BY <1>0, <1>s, Members, SweepFacts DEF Came
  <2>2. \A d \in Deliveries : row'[d] # None /\ row'[d].status = "pending" => Pending(d) /\ row'[d].due = row[d].due
    BY <1>a, <1>3, <1>4 DEF Pending
  <2> QED BY <1>0, <1>s, <2>1, <2>2, BatchKeeps DEF Rest
<1>10. EmitInv'
  <2>1. a \notin emitting
    BY <1>a DEF Rest, EmitInv
  <2>2. \A d \in emitting' : row'[d] = row[d] /\ started'[d] = started[d]
    BY <1>0, <1>1, <1>3, <2>1 DEF TypeOK
  <2>3. \A d \in Deliveries : row[d] # None => row'[d] # None
    BY <1>3, <1>4
  <2> QED BY <1>0, <1>1, <1>s, <2>2, <2>3, EmitKeeps DEF Rest
<1>11. RowInv'
  <2>1. started[a] = row[a].attempt
    BY <1>a DEF Rest, RowInv
  <2>2. ASSUME NEW d \in Deliveries, row'[d] # None
        PROVE  started'[d] = row'[d].attempt /\ (~Pending(d)' => row'[d].due = Never)
    <3>1. CASE d = a
      BY <1>a, <1>3, <1>4, <1>5, <2>1, <3>1
    <3>2. CASE d # a
      BY <1>3, <1>5, <2>2, <3>2 DEF Rest, RowInv
    <3> QED BY <3>1, <3>2
  <2> QED BY <2>2 DEF RowInv
<1>12. TryInv'
  <2>1. ASSUME NEW d \in Deliveries PROVE TryAt(p, d)'
    BY <1>6, <1>7, <1>4, <1>5, <1>a DEF TryAt, Active
  <2>2. \A q \in Procs \ {p} : \A d \in Deliveries : Active(q, d) => row'[d] \in {row[d], None}
    BY <1>3, <1>8
  <2>3. faults' \in Nat /\ faults' >= faults
    BY <1>0
  <2> QED BY <1>0, <1>6, <2>1, <2>2, <2>3, TryKeeps DEF Rest
<1>13. GiveInv'
  <2>1. ASSUME NEW d \in Deliveries PROVE GiveAt(d)'
    <3>0. GiveAt(d) /\ started[d] \in Nat
      BY <1>0, PendingTyped DEF Rest, GiveInv
    <3>1. CASE d = a
      <4>1. \A q \in Procs : ~Active(q, a)
        BY <1>0, <1>8 DEF Active, Trying
      <4>2. started[a] <= Len(Backoff) + faults
        BY <1>a, <3>0, <3>1, <4>1 DEF GiveAt
      <4>3. started'[a] <= MaxAttempts + faults'
        BY <1>0, <1>3, <3>0, <3>1, <4>2, Finite
      <4>4. Active(p, a)'
        BY <1>6, <1>7 DEF Active, Trying
      <4> QED BY <3>1, <4>3, <4>4 DEF GiveAt, MaxAttempts
    <3>2. CASE d # a
      <4>1. \A q \in Procs : ~Active(q, d)' => ~Active(q, d)
        BY <1>0, <1>6, OnlyFacts DEF Active, Trying
      <4> QED BY <1>0, <1>3, <1>5, <3>0, <3>2, <4>1 DEF GiveAt, MaxAttempts
    <3> QED BY <3>1, <3>2
  <2> QED BY <2>1 DEF GiveInv
<1>14. CountInv'
  <2>1. Dead' = Dead
    BY <1>3, <1>4, <1>a DEF Dead, Pending
  <2>2. Uncounted' \subseteq Uncounted
    BY <1>6, OnlyFacts DEF Uncounted
  <2>4. sub'.there = sub.there /\ sub'.failures <= sub.failures
    BY <1>0, <1>1, SameSub
  <2> QED BY <1>0, <2>1, <2>2, <2>4, CountKeeps DEF Rest
<1> QED BY <1>9, <1>10, <1>11, <1>12, <1>13, <1>14 DEF Rest

-----------------------------------------------------------------------------
(* The first row is no row of what follows it.                             *)
LEMMA OneOriginOfFirst ==
  ASSUME TypeOK, NEW p \in Procs, NEW k \in 1..Len(sweep'[p].batch), k \in Nat, Came(p, k, 1)
  PROVE  ~Shorter(p)
<1> SUFFICES ASSUME Shorter(p) PROVE FALSE
  OBVIOUS
<1>1. Same(p)
  <2>1. k = 0 => FALSE
    <3>1. Len(Tail(sweep[p].batch)) \in Int
      BY SweepFacts DEF Shorter
    <3>2. k \in 1..Len(Tail(sweep[p].batch))
      BY DEF Shorter
    <3> QED BY <3>1, <3>2
  <2> QED BY <2>1 DEF Came
<1>2. sweep[p].batch = Tail(sweep[p].batch) /\ sweep[p].batch # <<>>
  BY <1>1 DEF Same, Shorter
<1>3. Len(Tail(sweep[p].batch)) = Len(sweep[p].batch) - 1 /\ Len(sweep[p].batch) \in Nat
  BY <1>2, SweepFacts
<1>4. Len(sweep[p].batch) = Len(sweep[p].batch) - 1
  BY <1>2, <1>3
<1> QED BY <1>3, <1>4

(* How a pass goes on from the write of its row: with the endpoint, with   *)
(* the next row, with an error to be recorded, or not at all.              *)
Recorder(p) ==
  \/ /\ sweep[p].outcome = "delivered" /\ Same(p) /\ sweep'[p].step = "reset"
     /\ sweep'[p].made = sweep[p].made /\ sweep'[p].outcome = sweep[p].outcome
  \/ /\ CountsAsDead(sweep[p]) /\ Same(p) /\ sweep'[p].step = "count"
     /\ sweep'[p].made = sweep[p].made /\ sweep'[p].outcome = sweep[p].outcome
  \/ sweep[p].outcome # "delivered" /\ ~CountsAsDead(sweep[p]) /\ Shorter(p) /\ sweep'[p].step = "next"
  \/ /\ sweep[p].outcome \in {"delivered", "failure"}
     /\ Same(p) /\ sweep'[p].step = "record" /\ sweep'[p].outcome = "error"
     /\ sweep'[p].made = sweep[p].made /\ faults' > 0
  \/ sweep'[p].batch = <<>> /\ sweep'[p].step = "idle"

\* What an attempt that counts as dead, or one whose row is dead, recorded.
LEMMA RowRecorded ==
  ASSUME Sound, Rest, NEW p \in Procs, WritesRow(p), sweep[p].step = "record", NEW a \in Deliveries, a = At(p)
  PROVE  /\ \A d \in Deliveries \ {a} : row'[d] = row[d]
         /\ row[a] = None => row'[a] = None
         /\ row[a] # None =>
               /\ row'[a] \in Rows /\ row'[a] # None
               /\ row'[a].attempt = sweep[p].made
               /\ row'[a].status # "pending" => row'[a].due = Never
               /\ row'[a].status = "pending" => /\ sweep[p].outcome \in Failures /\ ~Exhausted(sweep[p].made)
                                                /\ row'[a].due = RetryIn(sweep[p].made, sweep[p].age)
               /\ sweep[p].outcome = "delivered" => row'[a].status = "delivered"
               /\ row'[a].status = "failed" => sweep[p].outcome = "undeliverable" \/ CountsAsDead(sweep[p])
               /\ CountsAsDead(sweep[p]) => row'[a].status = "failed"
         /\ Dead \subseteq Dead'
<1>0. /\ TypeOK /\ sweep[p].batch # <<>> /\ sweep[p].outcome # None /\ sweep[p] \in Sweeps
  BY DEF Sound, PassInv, Trying, TypeOK
<1>1. /\ row'[a] = IF row[a] = None THEN None ELSE Recorded(row[a], sweep[p])
      /\ \A d \in Deliveries \ {a} : row'[d] = row[d]
  BY <1>0 DEF WritesRow, TypeOK
<1>2. TryAt(p, a) /\ Active(p, a)
  BY DEF Rest, TryInv, Active, Trying
<1>3. ASSUME row[a] # None
      PROVE  /\ row'[a] \in Rows /\ row'[a] # None
             /\ row'[a].attempt = sweep[p].made
             /\ row'[a].status # "pending" => row'[a].due = Never
             /\ row'[a].status = "pending" => /\ sweep[p].outcome \in Failures /\ ~Exhausted(sweep[p].made)
                                              /\ row'[a].due = RetryIn(sweep[p].made, sweep[p].age)
             /\ sweep[p].outcome = "delivered" => row'[a].status = "delivered"
             /\ row'[a].status = "failed" => sweep[p].outcome = "undeliverable" \/ CountsAsDead(sweep[p])
             /\ CountsAsDead(sweep[p]) => row'[a].status = "failed"
  <2>1. row[a] \in Rows /\ row'[a] = Recorded(row[a], sweep[p])
    BY <1>0, <1>1, <1>3, PendingTyped
  <2>2. row[a].attempt = sweep[p].made
    BY <1>2, <1>3 DEF TryAt
  <2> QED BY <1>0, <2>1, <2>2, RecordedFacts, NoneAssumption
<1>4. Dead \subseteq Dead'
  <2>1. ASSUME row[a] # None, row[a].status = "failed" PROVE row'[a] # None /\ row'[a].status = "failed"
    <3>1. sweep[p].outcome = "error" /\ Exhausted(sweep[p].made)
      BY <1>2, <2>1 DEF TryAt, Pending
    <3>2. CountsAsDead(sweep[p])
      BY <3>1 DEF CountsAsDead, Failures
    <3> QED BY <1>3, <2>1, <3>2
  <2> QED BY <1>1, <2>1 DEF Dead
<1> QED BY <1>1, <1>3, <1>4

LEMMA RestRow ==
  ASSUME Sound, Sound', Rest, NEW p \in Procs, sweep[p].step = "record", WritesRow(p),
         Only(p), Shrunk(p), Recorder(p), CountInv',
         UNCHANGED <<emitting, removing, started>>, sub'.there = sub.there, faults' >= faults
  PROVE  Rest'
<1>0. /\ TypeOK /\ TypeOK' /\ faults \in Nat /\ faults' \in Nat /\ faults' >= faults
      /\ sweep[p].batch # <<>> /\ sweep[p].outcome # None
      /\ sweep[p] \in Sweeps /\ sweep[p].made \in Nat /\ sweep[p].age \in 0..Timeout
  BY WebhookAssumption, SweepFacts DEF Sound, TypeOK, PassInv, Trying
<1>p. PICK a \in Deliveries : a = At(p)
  BY <1>0, SweepFacts
<1>1. UNCHANGED <<emitting, removing, started>> /\ sub'.there = sub.there
  OBVIOUS
<1>2. /\ row[a] = None => row'[a] = None
      /\ \A d \in Deliveries \ {a} : row'[d] = row[d]
  BY <1>p, RowRecorded
<1>4. Only(p) /\ Shrunk(p) /\ Recorder(p)
  OBVIOUS
<1>s. \A q \in Procs : Shrunk(q)
  BY <1>4, OnlyFacts DEF Shrunk
<1>5. TryAt(p, a) /\ Active(p, a)
  BY <1>0, <1>p DEF Rest, TryInv, Active, Trying
<1>6. row[a] # None =>
        /\ row'[a] \in Rows /\ row'[a] # None
        /\ row'[a].attempt = sweep[p].made
        /\ row'[a].status # "pending" => row'[a].due = Never
        /\ row'[a].status = "pending" => /\ sweep[p].outcome \in Failures /\ ~Exhausted(sweep[p].made)
                                         /\ row'[a].due = RetryIn(sweep[p].made, sweep[p].age)
        /\ sweep[p].outcome = "delivered" => row'[a].status = "delivered"
        /\ row'[a].status = "failed" => sweep[p].outcome = "undeliverable" \/ CountsAsDead(sweep[p])
        /\ CountsAsDead(sweep[p]) => row'[a].status = "failed"
  BY <1>p, RowRecorded
<1>7. \A q \in Procs \ {p} : ~Active(q, a)
  BY <1>0, <1>p, OtherAt DEF Rest, Active, Sound, PassInv
<1>8. BatchInv'
  <2>1. ASSUME NEW q \in Procs, NEW r \in Procs, NEW k \in 1..Len(sweep'[q].batch), NEW l \in 1..Len(sweep'[r].batch),
               sweep'[q].batch[k] = sweep'[r].batch[l]
        PROVE  q = r /\ k = l
    <3>1. k \in Nat /\ l \in Nat /\ (\E i \in 1..Len(sweep[q].batch) : Came(q, k, i)) /\ \E j \in 1..Len(sweep[r].batch) : Came(r, l, j)
      BY <1>0, <1>s, Members
    <3>2. PICK i \in 1..Len(sweep[q].batch), j \in 1..Len(sweep[r].batch) : Came(q, k, i) /\ Came(r, l, j)
      BY <3>1
    <3>3. sweep[q].batch[i] = sweep[r].batch[j]
      BY <2>1, <3>2 DEF Came
    <3>4. q = r /\ i = j
      BY <3>3 DEF Rest, BatchInv
    <3>5. i \in Int
      BY <1>0, SweepFacts
    <3> QED BY <1>0, <3>1, <3>2, <3>4, <3>5, OneOrigin
  <2>2. ASSUME NEW q \in Procs, NEW k \in 1..Len(sweep'[q].batch),
               row'[sweep'[q].batch[k]] # None, row'[sweep'[q].batch[k]].status = "pending"
        PROVE  row'[sweep'[q].batch[k]].due > Slot(k) - sweep'[q].age
    <3>1. k \in Nat /\ \E i \in 1..Len(sweep[q].batch) : Came(q, k, i)
      BY <1>0, <1>s, Members
    <3>2. PICK i \in 1..Len(sweep[q].batch) : Came(q, k, i)
      BY <3>1
    <3>3. PICK d \in Deliveries : d = sweep'[q].batch[k] /\ d = sweep[q].batch[i]
      BY <1>0, <3>2, SweepFacts DEF Came
    <3>4. CASE d = a
      <4>1. p = q /\ i = 1
        BY <1>0, <1>p, <3>3, <3>4, AtOnce DEF Rest
      <4>2. ~Shorter(p)
        BY <1>0, <3>1, <3>2, <4>1, OneOriginOfFirst
      <4>3. k = 1 /\ Same(p)
        BY <3>2, <4>1, <4>2 DEF Came
      <4>4. row[a] # None /\ row'[a].status = "pending"
        BY <1>2, <2>2, <3>3, <3>4
      <4>5. row'[a].due = RetryIn(sweep[p].made, sweep[p].age) /\ ~Exhausted(sweep[p].made)
        BY <1>6, <4>4
      <4>6. row'[a].due \in Int /\ row'[a].due > Timeout - sweep[p].age
        BY <1>0, <4>5, RetryFacts
      <4>7. Slot(1) = Timeout /\ sweep'[p].age = sweep[p].age
        BY <4>3, WebhookAssumption DEF Slot, Same
      <4> QED BY <3>3, <3>4, <4>1, <4>3, <4>6, <4>7
    <3>5. CASE d # a
      <4>1. row'[d] = row[d] /\ Pending(d) /\ row[d].due \in Int
        BY <1>0, <1>2, <2>2, <3>3, <3>5, PendingTyped DEF Pending
      <4>2. row[d].due > Slot(i) - sweep[q].age
        BY <3>3, <4>1 DEF Rest, BatchInv
      <4>3. Slot(k) \in Int /\ Slot(k + 1) = Slot(k) + Timeout /\ Timeout \in Nat /\ sweep[q].age \in 0..Timeout
        BY <1>0, <3>1, SlotFacts, SweepFacts, WebhookAssumption
      <4>4. CASE i = k /\ Same(q)
        BY <3>3, <4>1, <4>2, <4>4 DEF Same
      <4>5. CASE i = k + 1 /\ Shorter(q)
        <5>1. sweep'[q].age = 0
          BY <4>5 DEF Shorter
        <5> QED BY <3>3, <4>1, <4>2, <4>3, <4>5, <5>1
      <4> QED BY <3>2, <4>4, <4>5 DEF Came
    <3> QED BY <3>4, <3>5
  <2> QED BY <2>1, <2>2 DEF BatchInv, Pending
<1>9. EmitInv'
  <2>1. \A d \in emitting' : row'[d] = row[d] /\ started'[d] = started[d]
    BY <1>0, <1>1, <1>2 DEF Rest, EmitInv, TypeOK
  <2>2. \A d \in Deliveries : row[d] # None => row'[d] # None
    BY <1>2, <1>6
  <2> QED BY <1>0, <1>1, <1>s, <2>1, <2>2, EmitKeeps DEF Rest
<1>10. RowInv'
  <2>1. ASSUME NEW d \in Deliveries, row'[d] # None
        PROVE  started'[d] = row'[d].attempt /\ (row'[d].status # "pending" => row'[d].due = Never)
    <3>1. CASE d = a
      <4>1. row[a] # None
        BY <1>2, <2>1, <3>1
      <4>2. started[a] = sweep[p].made
        BY <1>5, <4>1 DEF Rest, RowInv, TryAt
      <4> QED BY <1>1, <1>6, <3>1, <4>1, <4>2
    <3>2. CASE d # a
      BY <1>1, <1>2, <2>1, <3>2 DEF Rest, RowInv, Pending
    <3> QED BY <3>1, <3>2
  <2> QED BY <2>1 DEF RowInv, Pending
<1>11. TryInv'
  <2>1. ASSUME NEW d \in Deliveries PROVE TryAt(p, d)'
    <3> SUFFICES ASSUME Active(p, d)', row'[d] # None PROVE TryAt(p, d)'
      BY DEF TryAt
    <3>1. sweep'[p].step \in {"reset", "count", "record"} /\ Same(p)
      BY <1>4 DEF Active, Trying, Recorder
    <3>2. d = a
      BY <1>p, <3>1 DEF Active, At, Same
    <3>3. row[a] # None
      BY <1>2, <3>2
    <3>4. CountsAsDead(sweep[p]) => sweep[p].outcome \in Failures /\ Exhausted(sweep[p].made)
      BY DEF CountsAsDead
    <3>5. row'[d].status = "failed" => CountsAsDead(sweep[p]) \/ sweep[p].outcome = "undeliverable"
      BY <1>6, <3>2, <3>3
    <3>6. sweep'[p].step = "record" /\ row'[d].status = "failed" => Exhausted(sweep[p].made)
      BY <1>4, <3>4, <3>5 DEF Recorder
    <3> QED BY <1>4, <1>6, <3>1, <3>2, <3>3, <3>4, <3>6 DEF TryAt, Recorder
  <2>2. \A q \in Procs \ {p} : \A d \in Deliveries : Active(q, d) => row'[d] \in {row[d], None}
    BY <1>2, <1>7
  <2> QED BY <1>0, <1>4, <2>1, <2>2, TryKeeps DEF Rest
<1>12. GiveInv'
  <2>1. ASSUME NEW d \in Deliveries, Pending(d)', \A q \in Procs : ~Active(q, d)'
        PROVE  (Pending(d) /\ \A q \in Procs : ~Active(q, d)) \/ started[d] <= Len(Backoff) + faults'
    <3>1. CASE d = a
      <4>1. row'[a] # None /\ row[a] # None /\ row'[a].status = "pending"
        BY <1>2, <2>1, <3>1 DEF Pending
      <4>2. ~Exhausted(sweep[p].made) /\ sweep[p].made \in Nat /\ sweep[p].age \in 0..Timeout
        BY <1>0, <1>6, <4>1
      <4>3. sweep[p].made <= Len(Backoff)
        BY <4>2, RetryFacts
      <4>4. started[a] = sweep[p].made
        BY <1>5, <4>1 DEF Rest, RowInv, TryAt
      <4> QED BY <1>0, <3>1, <4>2, <4>3, <4>4, Finite
    <3>2. CASE d # a
      <4>1. Pending(d)
        BY <1>2, <2>1, <3>2 DEF Pending
      <4>2. ~Active(p, d)
        BY <1>p, <3>2 DEF Active
      <4>3. \A q \in Procs \ {p} : ~Active(q, d)
        BY <1>4, <2>1, OnlyFacts
      <4> QED BY <4>1, <4>2, <4>3
    <3> QED BY <3>1, <3>2
  <2> QED BY <1>0, <1>1, <2>1, GiveKeeps DEF Rest
<1> QED BY <1>8, <1>9, <1>10, <1>11, <1>12 DEF Rest

LEMMA RestRecord ==
  ASSUME Sound, Sound', Rest, NEW p \in Procs, Record(p)
  PROVE  Rest'
<1>0. /\ TypeOK /\ TypeOK' /\ faults' >= faults /\ sweep[p].step = "record" /\ sweep[p].batch # <<>>
      /\ UNCHANGED <<emitting, sub, removing, started>> /\ WritesRow(p)
  BY WebhookAssumption DEF Sound, TypeOK, Record, PassInv, Trying, endpointVars
<1>p. PICK a \in Deliveries : a = At(p)
  BY <1>0, SweepFacts
<1>1. \/ sweep[p].outcome = "delivered" /\ Goto(p, "reset") /\ "reset" \in Steps
      \/ CountsAsDead(sweep[p]) /\ Goto(p, "count") /\ "count" \in Steps
      \/ sweep[p].outcome # "delivered" /\ ~CountsAsDead(sweep[p]) /\ Done(p)
  BY DEF Record, Steps
<1>2. Only(p) /\ Shrunk(p) /\ Recorder(p) /\ sweep'[p].step # "record"
  BY <1>0, <1>1, GotoMoves, GotoFacts, DoneMoves DEF Recorder
<1>3. CountInv'
  <2>1. a \in Uncounted
    BY <1>0, <1>p DEF Uncounted
  <2>2. ASSUME NEW d \in Uncounted' PROVE d \in Uncounted
    <3>1. PICK q \in Procs : sweep'[q].step \in {"record", "count"} /\ At(q)' = d
      BY DEF Uncounted
    <3>2. CASE q = p
      <4>1. Same(p)
        BY <1>2, <3>1, <3>2 DEF Recorder
      <4> QED BY <1>p, <2>1, <3>1, <3>2, <4>1 DEF At, Same
    <3>3. CASE q # p
      BY <1>2, <3>1, <3>3, OnlyFacts DEF Uncounted
    <3> QED BY <3>2, <3>3
  <2>3. (Dead \ Uncounted) \subseteq (Dead' \ Uncounted')
    BY <1>0, <1>p, <2>2, RowRecorded
  <2>4. sub'.there = sub.there /\ sub'.failures <= sub.failures
    BY <1>0, SameSub
  <2> QED BY <1>0, <2>3, <2>4, CountKeeps DEF Rest
<1> QED BY <1>0, <1>2, <1>3, RestRow

(* The answer to a write of an outcome is lost, or the write fails.        *)
LEMMA RestStumble ==
  ASSUME Sound, Sound', Rest, NEW p \in Procs, Stumble(p)
  PROVE  Rest'
<1>0. CountInv' /\ sub'.there = sub.there /\ faults \in Nat /\ faults' = faults + 1
  BY StumbleCount, StumbleMoves
<1>1. CASE UNCHANGED row
  <2>1. CASE Outcome(p, "error")
    BY <1>1, <2>1, RestError
  <2>2. CASE sweep' = [sweep EXCEPT ![p] = Asleep]
    BY <1>0, <1>1, <2>2, RestSleep DEF Stumble
  <2> QED BY <2>1, <2>2 DEF Stumble
<1>2. CASE sweep[p].step = "record" /\ WritesRow(p)
  <2>1. faults' > 0 /\ faults' >= faults
    BY <1>0
  <2>2. Only(p) /\ Shrunk(p) /\ Recorder(p)
    BY <2>1, StumbleMoves DEF Recorder, Stumble
  <2> QED BY <1>0, <1>2, <2>1, <2>2, RestRow DEF Stumble
<1> QED BY <1>1, <1>2 DEF Stumble, Written

-----------------------------------------------------------------------------
LEMMA AppendFacts ==
  ASSUME NEW b \in Seq(Deliveries), NEW d \in Deliveries
  PROVE  /\ Len(b) \in Nat /\ Len(Append(b, d)) = Len(b) + 1
         /\ \A k \in 1..Len(Append(b, d)) :
              k \in Nat /\ ((k \in 1..Len(b) /\ Append(b, d)[k] = b[k]) \/ (k = Len(b) + 1 /\ Append(b, d)[k] = d))
<1>1. Len(b) \in Nat /\ Len(Append(b, d)) = Len(b) + 1
  OBVIOUS
<1>2. ASSUME NEW k \in 1..Len(Append(b, d))
      PROVE  k \in Nat /\ ((k \in 1..Len(b) /\ Append(b, d)[k] = b[k]) \/ (k = Len(b) + 1 /\ Append(b, d)[k] = d))
  <2>1. k \in 1..(Len(b) + 1)
    BY <1>1
  <2>2. CASE k = Len(b) + 1
    BY <1>1, <2>2
  <2>3. CASE k # Len(b) + 1
    BY <1>1, <2>1, <2>3
  <2> QED BY <2>2, <2>3
<1> QED BY <1>1, <1>2

LEMMA RestClaimNext ==
  ASSUME Sound, Sound', Rest, BatchesFit', NEW p \in Procs, NEW d \in Deliveries, ClaimNext(p, d)
  PROVE  Rest'
<1>0. /\ TypeOK /\ TypeOK' /\ faults \in Nat /\ faults' = faults /\ faults' >= faults
      /\ sweep[p].step = "claim" /\ Due(d)
  BY WebhookAssumption DEF Sound, TypeOK, ClaimNext
<1>1. UNCHANGED <<emitting, sub, removing, started>>
  BY DEF ClaimNext, endpointVars
<1> DEFINE b == sweep[p].batch
<1>2. /\ sweep'[p].step = "claim" /\ sweep'[p].batch = Append(b, d) /\ sweep'[p].age = sweep[p].age /\ Only(p)
  BY <1>0 DEF ClaimNext, TypeOK, Sweeps, Only
<1>b. b \in Seq(Deliveries)
  BY <1>0, SweepFacts
<1>3. row[d] # None /\ row[d] \in Rows /\ row[d].due = 0 /\ row[d].status = "pending"
  BY <1>0, PendingTyped DEF Due, Pending
<1>4. row'[d] = [row[d] EXCEPT !.due = Lease] /\ \A e \in Deliveries \ {d} : row'[e] = row[e]
  BY <1>0 DEF ClaimNext, TypeOK, LeaseUntil
<1>5. row'[d].status = "pending" /\ row'[d].attempt = row[d].attempt /\ row'[d].due = Lease /\ row'[d] # None
  <2>1. row'[d] \in Rows
    <3>1. Lease \in Int
      BY WebhookAssumption
    <3> QED BY <1>3, <1>4, <3>1 DEF Rows
  <2> QED BY <1>3, <1>4, <2>1, NoneAssumption DEF Rows
<1>6. ASSUME NEW q \in Procs, NEW k \in 1..Len(sweep[q].batch), sweep[q].batch[k] = d PROVE FALSE
  <2>1. row[d].due > Slot(k) - sweep[q].age
    BY <1>0, <1>6 DEF Rest, BatchInv, Due
  <2>2. sweep[q].age \in 0..Timeout /\ Len(sweep[q].batch) \in Nat
    BY <1>0, SweepFacts
  <2>3. k \in Nat \ {0}
    BY <2>2
  <2>4. Slot(k) >= Timeout /\ Slot(k) \in Int /\ Timeout \in Nat
    BY <2>3, SlotFacts, WebhookAssumption
  <2> QED BY <1>3, <2>1, <2>2, <2>4
<1>7. ASSUME NEW q \in Procs, NEW k \in 1..Len(sweep'[q].batch)
      PROVE  /\ k \in Nat
             /\ \/ k \in 1..Len(sweep[q].batch) /\ sweep'[q].batch[k] = sweep[q].batch[k] /\ sweep[q].batch[k] # d
                \/ q = p /\ k = Len(b) + 1 /\ sweep'[q].batch[k] = d
             /\ sweep'[q].age = sweep[q].age
  <2>1. CASE q = p
    BY <1>2, <1>6, <1>b, <2>1, AppendFacts
  <2>2. CASE q # p
    <3>1. sweep'[q] = sweep[q] /\ Len(sweep[q].batch) \in Nat
      BY <1>0, <1>2, <2>2, SweepFacts DEF Only
    <3> QED BY <1>6, <3>1
  <2> QED BY <2>1, <2>2
<1> HIDE DEF b
<1>8. \A e \in Deliveries : Pending(e)' = Pending(e)
  BY <1>3, <1>4, <1>5 DEF Pending
<1>9. BatchInv'
  <2>1. ASSUME NEW q \in Procs, NEW r \in Procs, NEW k \in 1..Len(sweep'[q].batch), NEW l \in 1..Len(sweep'[r].batch),
               sweep'[q].batch[k] = sweep'[r].batch[l]
        PROVE  q = r /\ k = l
    <3>1. CASE sweep'[q].batch[k] = d
      BY <1>7, <2>1, <3>1
    <3>2. CASE sweep'[q].batch[k] # d
      <4>1. /\ k \in 1..Len(sweep[q].batch) /\ l \in 1..Len(sweep[r].batch)
            /\ sweep[q].batch[k] = sweep[r].batch[l]
        BY <1>7, <2>1, <3>2
      <4> QED BY <4>1 DEF Rest, BatchInv
    <3> QED BY <3>1, <3>2
  <2>2. ASSUME NEW q \in Procs, NEW k \in 1..Len(sweep'[q].batch),
               row'[sweep'[q].batch[k]] # None, row'[sweep'[q].batch[k]].status = "pending"
        PROVE  row'[sweep'[q].batch[k]].due > Slot(k) - sweep'[q].age
    <3>1. CASE sweep'[q].batch[k] = d
      <4>1. q = p /\ k = Len(b) + 1 /\ k \in Nat
        BY <1>7, <3>1
      <4>2. Len(sweep'[p].batch) = k
        BY <1>2, <1>b, <4>1, AppendFacts DEF b
      <4>3. Slot(k) < Lease
        BY <4>2 DEF BatchesFit
      <4>4. Slot(k) \in Int /\ Lease \in Nat /\ sweep'[q].age \in Nat
        BY <1>0, <1>7, <4>1, SlotFacts, SweepFacts, WebhookAssumption
      <4>5. Lease > Slot(k) - sweep'[q].age
        BY <4>3, <4>4
      <4> QED BY <1>5, <3>1, <4>5
    <3>2. CASE sweep'[q].batch[k] # d
      <4>1. /\ k \in 1..Len(sweep[q].batch) /\ sweep'[q].batch[k] = sweep[q].batch[k]
            /\ sweep'[q].age = sweep[q].age /\ sweep[q].batch[k] \in Deliveries \ {d}
        BY <1>0, <1>7, <3>2, SweepFacts
      <4>2. row'[sweep[q].batch[k]] = row[sweep[q].batch[k]]
        BY <1>4, <4>1
      <4>3. Pending(sweep[q].batch[k])
        BY <2>2, <4>1, <4>2 DEF Pending
      <4>4. row[sweep[q].batch[k]].due > Slot(k) - sweep[q].age
        BY <4>1, <4>3 DEF Rest, BatchInv
      <4> QED BY <4>1, <4>2, <4>4
    <3> QED BY <3>1, <3>2
  <2> QED BY <2>1, <2>2 DEF BatchInv, Pending
<1>10. EmitInv'
  <2>1. \A e \in emitting : row'[e] = None /\ e # d
    BY <1>0, <1>3, <1>4 DEF Rest, EmitInv, TypeOK
  <2>2. ASSUME NEW e \in emitting, NEW q \in Procs, NEW k \in 1..Len(sweep'[q].batch) PROVE sweep'[q].batch[k] # e
    BY <1>7, <2>1 DEF Rest, EmitInv
  <2>3. ASSUME sub.there, NEW q \in Procs, NEW k \in 1..Len(sweep'[q].batch) PROVE row'[sweep'[q].batch[k]] # None
    <3>1. CASE sweep'[q].batch[k] = d
      BY <1>5, <3>1
    <3>2. CASE sweep'[q].batch[k] # d
      <4>1. /\ k \in 1..Len(sweep[q].batch) /\ sweep'[q].batch[k] = sweep[q].batch[k]
            /\ sweep[q].batch[k] \in Deliveries \ {d}
        BY <1>0, <1>7, <3>2, SweepFacts
      <4> QED BY <1>4, <2>3, <4>1 DEF Rest, EmitInv
    <3> QED BY <3>1, <3>2
  <2> QED BY <1>1, <2>1, <2>2, <2>3 DEF Rest, EmitInv
<1>11. RowInv'
  <2>1. ASSUME NEW e \in Deliveries, row'[e] # None
        PROVE  started'[e] = row'[e].attempt /\ (~Pending(e)' => row'[e].due = Never)
    <3>1. CASE e = d
      BY <1>0, <1>1, <1>3, <1>5, <1>8, <3>1 DEF Rest, RowInv, Due
    <3>2. CASE e # d
      BY <1>1, <1>4, <1>8, <2>1, <3>2 DEF Rest, RowInv
    <3> QED BY <3>1, <3>2
  <2> QED BY <2>1 DEF RowInv
<1>12. \A q \in Procs : \A e : Active(q, e)' = Active(q, e)
  BY <1>0, <1>2, OnlyFacts DEF Active, Trying
<1>13. TryInv'
  <2>1. \A e \in Deliveries : TryAt(p, e)'
    BY <1>2 DEF TryAt, Active, Trying
  <2>2. ASSUME NEW q \in Procs \ {p} PROVE ~Active(q, d)
    BY <1>0, <1>6, SweepFacts DEF Active, Sound, PassInv
  <2>3. \A q \in Procs \ {p} : \A e \in Deliveries : Active(q, e) => row'[e] \in {row[e], None}
    BY <1>4, <2>2
  <2> QED BY <1>0, <1>2, <2>1, <2>3, TryKeeps DEF Rest
<1>14. GiveInv'
  BY <1>0, <1>1, <1>8, <1>12, GiveKeeps DEF Rest
<1>15. CountInv'
  <2>1. Dead' = Dead
    BY <1>3, <1>4, <1>5 DEF Dead
  <2>2. Uncounted' \subseteq Uncounted
    BY <1>2, OnlyFacts DEF Uncounted
  <2>4. sub'.there = sub.there /\ sub'.failures <= sub.failures
    BY <1>0, <1>1, SameSub
  <2> QED BY <1>0, <2>1, <2>2, <2>4, CountKeeps DEF Rest
<1> QED BY <1>9, <1>10, <1>11, <1>13, <1>14, <1>15 DEF Rest

-----------------------------------------------------------------------------
LEMMA RestStep ==
  ASSUME Sound, Rest, BatchesFit', [Next]_vars
  PROVE  Rest'
<1>0. Sound' /\ TypeOK /\ TypeOK'
  BY SoundStep DEF Sound
<1>1. ASSUME NEW d \in Deliveries, Emit(d) \/ Insert(d) \/ LoseEvent(d) PROVE Rest'
  BY <1>0, <1>1, RestEvent, RestInsert
<1>2. ASSUME NEW p \in Procs, Pass(p) PROVE Rest'
  BY <1>0, <1>2, RestSweep, RestClaimNext, RestClaimAttempt, RestOutcome, RestRecord, RestReset, RestCount DEF Pass
<1>3. ASSUME NEW p \in Procs, Stumble(p) \/ Die(p) PROVE Rest'
  <2>1. CASE Stumble(p)
    BY <1>0, <2>1, RestStumble
  <2>2. CASE Die(p)
    BY <1>0, <2>2, RestSleep DEF Die, endpointVars
  <2> QED BY <1>3, <2>1, <2>2
<1>4. CASE Switch \/ Remove \/ RemoveLog \/ ViewChanges
  BY <1>0, <1>4, RestCreator, RestRemoveLog
<1>5. CASE Tick
  BY <1>0, <1>5, RestTick
<1>6. CASE UNCHANGED vars
  <2>1. EmitInv'
    BY <1>6 DEF vars, Rest, EmitInv
  <2>2. sub'.there = sub.there /\ sub'.failures <= sub.failures /\ faults' >= faults
    BY <1>0, <1>6, SameSub DEF vars
  <2> QED BY <1>0, <1>6, <2>1, <2>2, Still DEF vars
<1> QED BY <1>1, <1>2, <1>3, <1>4, <1>5, <1>6 DEF Next

LEMMA RestInit ==
  ASSUME Init
  PROVE  Rest
<1>0. Sound
  BY SoundInit
<1>1. \A p \in Procs : sweep[p].step = "idle" /\ sweep[p].batch = <<>>
  BY DEF Init, Asleep
<1>2. \A d \in Deliveries : row[d] = None /\ started[d] = 0
  BY DEF Init
<1>3. BatchInv /\ EmitInv /\ RowInv
  BY <1>1, <1>2 DEF Init, BatchInv, EmitInv, RowInv
<1>4. TryInv
  BY <1>2 DEF TryInv, TryAt
<1>5. GiveInv
  <2>1. faults = 0 /\ 0 <= MaxAttempts + 0 /\ 0 <= Len(Backoff) + 0
    BY Finite DEF Init
  <2> QED BY <1>2, <2>1 DEF GiveInv, GiveAt
<1>6. CountInv
  <2>1. Dead = {}
    BY <1>2 DEF Dead
  <2>2. Dead \ Uncounted = {} /\ Cardinality({}) = 0
    BY <2>1, FS_EmptySet
  <2>3. sub.failures = 0
    BY DEF Init
  <2> QED BY <2>2, <2>3 DEF CountInv, Init
<1> QED BY <1>3, <1>4, <1>5, <1>6 DEF Rest

-----------------------------------------------------------------------------
WInv == Sound /\ Rest

LEMMA Always == Spec /\ []BatchesFit => []WInv
<1>1. Init => WInv
  BY SoundInit, RestInit DEF WInv
<1>2. WInv /\ BatchesFit' /\ [Next]_vars => WInv'
  BY SoundStep, RestStep DEF WInv
<1> QED BY <1>1, <1>2, PTL DEF Spec

(* Two sweeps never have one delivery under way at once (claimDueDeliveries *)
(* and the claim of the attempt in deliverWebhook).                        *)
THEOREM OneAtATime == Spec /\ []BatchesFit => []OneAttemptAtATime
<1>1. WInv => OneAttemptAtATime
  <2> SUFFICES ASSUME WInv, NEW p \in Procs, NEW q \in Procs, NEW d \in Deliveries, InAttempt(p, d), InAttempt(q, d)
               PROVE  p = q
    BY DEF OneAttemptAtATime
  <2>1. Active(p, d) /\ Active(q, d)
    BY DEF InAttempt, Active, Trying
  <2> QED BY <2>1, ActiveOnce DEF WInv, Rest
<1> QED BY <1>1, Always, PTL

(* A delivery is given up after its attempts, and one for each lost write. *)
THEOREM AttemptsEnd == Spec /\ []BatchesFit => []GivesUp
<1>1. WInv => GivesUp
  BY DEF WInv, Rest, GiveInv, GiveAt, GivesUp
<1> QED BY <1>1, Always, PTL

(* The streak recordFailure keeps counts dead deliveries, each once but    *)
(* for the writes of outcomes that failed or whose answers were lost.      *)
THEOREM StreakHolds == Spec /\ []BatchesFit => []StreakJustified
<1>1. WInv => StreakJustified
  <2> SUFFICES ASSUME WInv, sub.there PROVE sub.failures <= Cardinality(Dead) + faults
    BY DEF StreakJustified
  <2> DEFINE x == Cardinality(Dead \ Uncounted)
             y == Cardinality(Dead)
  <2>1. x <= y
    BY DeadFinite, FS_Subset
  <2>2. x \in Nat /\ y \in Nat /\ sub.failures \in Nat /\ faults \in Nat
    BY DeadFinite, FS_CardinalityType, WebhookAssumption DEF WInv, Sound, TypeOK
  <2>3. sub.failures <= x + faults
    BY DEF WInv, Rest, CountInv
  <2> HIDE DEF x, y
  <2>4. sub.failures <= y + faults
    BY <2>1, <2>2, <2>3
  <2> QED BY <2>4 DEF y
<1> QED BY <1>1, Always, PTL

LEMMA StandsStep ==
  ASSUME WInv, [Next]_vars, NEW d \in Deliveries, row[d] # None, ~Pending(d)
  PROVE  /\ started'[d] = started[d]
         /\ \/ row'[d] \in {row[d], None}
            \/ \E p \in Procs : /\ sweep[p].step = "record" /\ sweep[p].outcome = "error"
                               /\ At(p) = d /\ sweep[p].made = row[d].attempt /\ faults > 0
<1>0. TypeOK /\ row[d] \in Rows /\ row[d].due = Never
  BY PendingTyped DEF WInv, Sound, Rest, RowInv
<1>1. CASE \E e \in Deliveries : Emit(e) \/ Insert(e) \/ LoseEvent(e)
  <2>1. ASSUME NEW e \in Deliveries, Insert(e) PROVE row'[d] = row[d] /\ started' = started
    <3>1. e # d
      BY <2>1 DEF WInv, Rest, EmitInv, Insert
    <3> QED BY <1>0, <2>1, <3>1 DEF Insert, TypeOK
  <2> QED BY <1>1, <2>1 DEF Emit, LoseEvent
<1>2. ASSUME NEW p \in Procs, SweepBegins(p) \/ ClaimsEnd(p) \/ SweepEnds(p) \/ ReadRow(p) \/ Look(p) \/ Resolve(p) \/ Answer(p)
                             \/ Reset(p) \/ Count(p) \/ Disable(p) \/ Die(p)
      PROVE  row' = row /\ started' = started
  BY <1>2 DEF SweepBegins, ClaimsEnd, SweepEnds, ReadRow, Look, Resolve, Answer, Reset, Count, Disable, Die
<1>3. ASSUME NEW p \in Procs, NEW e \in Deliveries, ClaimNext(p, e) PROVE row'[d] = row[d] /\ started' = started
  <2>1. e # d
    BY <1>3 DEF ClaimNext, Due
  <2> QED BY <1>0, <1>3, <2>1 DEF ClaimNext, TypeOK
<1>4. ASSUME NEW p \in Procs, ClaimAttempt(p) PROVE row'[d] = row[d] /\ started'[d] = started[d]
  <2>1. CASE AttemptFree(p)
    <3>1. At(p) # d
      BY <2>1 DEF AttemptFree
    <3> QED BY <1>0, <1>4, <2>1, <3>1 DEF ClaimAttempt, TypeOK
  <2>2. CASE ~AttemptFree(p)
    BY <1>4, <2>2 DEF ClaimAttempt
  <2> QED BY <2>1, <2>2
<1>5. ASSUME NEW p \in Procs, Record(p) \/ Stumble(p)
      PROVE  /\ started' = started
             /\ \/ row'[d] = row[d]
                \/ /\ sweep[p].step = "record" /\ sweep[p].outcome = "error"
                   /\ At(p) = d /\ sweep[p].made = row[d].attempt /\ faults > 0
  <2>1. CASE At(p) = d
    <3>1. TryAt(p, d)
      BY DEF WInv, Rest, TryInv
    <3>2. started' = started /\ (UNCHANGED row \/ sweep[p].step = "record")
      BY <1>5 DEF Record, Stumble, Written
    <3> QED BY <2>1, <3>1, <3>2 DEF TryAt, Active, Trying
  <2>2. CASE At(p) # d
    BY <1>0, <1>5, <2>2 DEF Record, Stumble, Written, WritesRow, TypeOK
  <2> QED BY <2>1, <2>2
<1>6. CASE Switch \/ Remove \/ RemoveLog \/ ViewChanges
  BY <1>6 DEF Switch, Remove, RemoveLog, ViewChanges
<1>7. CASE Tick
  <2>1. ~(row[d].due > 0)
    BY <1>0 DEF Never
  <2> QED BY <1>7, <2>1 DEF Tick
<1>8. CASE UNCHANGED vars
  BY <1>8 DEF vars
<1> QED
  <2>1. ASSUME NEW p \in Procs, Pass(p) \/ Stumble(p) \/ Die(p)
        PROVE  /\ started'[d] = started[d]
               /\ \/ row'[d] = row[d]
                  \/ /\ sweep[p].step = "record" /\ sweep[p].outcome = "error"
                     /\ At(p) = d /\ sweep[p].made = row[d].attempt /\ faults > 0
    <3>1. CASE \E e \in Deliveries : ClaimNext(p, e)
      BY <1>3, <3>1
    <3>2. CASE ClaimAttempt(p)
      BY <1>4, <3>2
    <3>3. CASE Record(p) \/ Stumble(p)
      BY <1>5, <3>3
    <3>4. CASE /\ ~ClaimAttempt(p) /\ ~Record(p) /\ ~Stumble(p) /\ ~\E e \in Deliveries : ClaimNext(p, e)
      <4>1. row' = row /\ started' = started
        BY <1>2, <2>1, <3>4 DEF Pass
      <4> QED BY <4>1
    <3> QED BY <3>1, <3>2, <3>3, <3>4
  <2> QED BY <1>1, <1>6, <1>7, <1>8, <2>1 DEF Next

(* What deliverWebhook recorded of a delivery that is over stands.         *)
THEOREM RecordStands == Spec /\ []BatchesFit => OutcomeStands
<1> DEFINE A == \A d \in Deliveries :
       row[d] # None /\ ~Pending(d) =>
         /\ started'[d] = started[d]
         /\ \/ row'[d] \in {row[d], None}
            \/ \E p \in Procs : /\ sweep[p].step = "record" /\ sweep[p].outcome = "error"
                               /\ At(p) = d /\ sweep[p].made = row[d].attempt /\ faults > 0
<1>1. WInv /\ [Next]_vars => [A]_vars
  BY StandsStep
<1> QED BY <1>1, Always, PTL DEF Spec, OutcomeStands
=============================================================================
