----------------------- MODULE DurableEntries_chains -----------------------
(***************************************************************************)
(* Chains in the durable queue: what a flush sends, in which order, what a *)
(* stop behind its start ends, and that queue and server together          *)
(* implement EntryLedger - for any number of tabs, chains, rows, edits and *)
(* faults.  The argument runs on IInv of DurableEntries_proofs and on CInv *)
(* below: a flush knows every chain it must leave (FlushOK), so nothing of *)
(* a stop leaves the device before its start is settled (PairInv).         *)
(***************************************************************************)
EXTENDS DurableEntries_proofs

(* A start opens its chain, a chain has one start and one stop, and the    *)
(* stop is saved behind the start, in its workspace.                       *)
IntentInv ==
  /\ \A i \in 1..saved :
       /\ intent[i].op # "stop" => ~intent[i].paired
       /\ intent[i].op = "start" => Chained(i)
       /\ intent[i].op = "stop" => Starts(i) # {} /\ \A j \in Starts(i) : j < i
       /\ intent[i].op = "create" => ~Chained(i)
  /\ \A i, j \in 1..saved :
       /\ intent[i].op = "start" /\ intent[j].op = "start" /\ intent[i].chain = intent[j].chain => i = j
       /\ intent[i].op = "stop" /\ intent[j].op = "stop" /\ intent[i].chain = intent[j].chain => i = j

(* Nothing of a paired stop has left the device while its start is queued; *)
(* once the start has been applied, every copy of the stop names its entry.*)
PairInv ==
  \A i \in 1..saved : intent[i].paired => \A s \in Starts(i) :
    /\ s \in Queued =>
         /\ i \in Queued => queue[i].submitted = None
         /\ \A r \in wire : r.id # i
    /\ s \notin Queued /\ s \notin withdrawn =>
         /\ i \in Queued => /\ queue[i].input.named
                            /\ queue[i].submitted # None => queue[i].submitted.named
         /\ \A r \in wire : r.id = i => r.input.named

(* A flush leaves the chain of every row it may not send.                  *)
ChainLeft(s, i) == Chained(i) => Link(i) \in s.stranded
Waits(s, i) == queue[i].hold # "none" \/ intent[i].ws \notin s.members

FlushOK(s) ==
  /\ \A j \in Queued : ~Wanted(s, j) => ChainLeft(s, j)
  /\ \A j \in Queued : (j < s.at \/ (j = s.at /\ s.step = "scan")) =>
       ChainLeft(s, j) /\ (Chained(j) \/ Waits(s, j))
  /\ \A l \in s.stranded : \E k \in Queued : Chained(k) /\ Link(k) = l /\ Waits(s, k)
  /\ s.step # "scan" => ~PassedOver(s, s.at)

FlushInv == \A t \in Tabs : tab[t].mode = "flush" => FlushOK(tab[t])

(* A write sent at once is the only one waiting.                           *)
SubmitInv ==
  \A t \in Tabs : tab[t].mode = "submit" => Queued = {tab[t].at} /\ queue[tab[t].at].hold = "none"

(* A flush looks at the queue from its first row.                          *)
RestInv == \A t \in Tabs : tab[t].mode \in {"idle", "asked"} => tab[t].at = 0

(* Only saved starts run, and only saved stops end anything.               *)
EndedInv ==
  /\ running \in Ids => running <= saved
  /\ \A i \in Ids : ended[i] # None => i <= saved /\ intent[i].op = "stop"

CInv ==
  /\ IntentInv
  /\ PairInv
  /\ FlushInv
  /\ SubmitInv
  /\ RestInv
  /\ EndedInv
  /\ StopEndsItsOwnEntry

-----------------------------------------------------------------------------

(* The intents of saved rows, and what a paired stop's start is.           *)
LEMMA SavedIntents ==
  ASSUME IInv
  PROVE  \A i \in 1..saved : i \in Ids /\ i \in Nat /\ intent[i] \in Intents /\ intent[i] # None
BY QueueAssumption DEF IInv, SavedInv, TypeOK, Ids

LEMMA PairedStop ==
  ASSUME IInv, IntentInv, NEW i \in 1..saved, intent[i].paired
  PROVE  /\ intent[i].op = "stop"
         /\ Starts(i) # {}
         /\ \A s \in Starts(i) : s \in 1..saved /\ s < i /\ intent[s].op = "start" /\ Link(s) = Link(i)
         /\ \A s, z \in Starts(i) : s = z
<1>1. intent[i].op = "stop" /\ Starts(i) # {} /\ \A s \in Starts(i) : s < i
  BY DEF IntentInv
<1>2. \A s \in Starts(i) : s \in 1..saved /\ intent[s].op = "start" /\ Link(s) = Link(i)
  BY DEF Starts
<1>3. \A s \in Starts(i) : intent[s].chain = intent[i].chain
  BY <1>2 DEF Link
<1> QED BY <1>1, <1>2, <1>3 DEF IntentInv

LEMMA IntentSame ==
  ASSUME IntentInv, UNCHANGED <<saved, intent>>
  PROVE  IntentInv'
BY DEF IntentInv, Starts, Chained, Link

(* Rows are only held, edited, named or withdrawn, requests only answered. *)
LEMMA PairKeeps ==
  ASSUME IInv, IntentInv, PairInv, UNCHANGED <<saved, intent>>, wire' \subseteq wire, withdrawn \subseteq withdrawn',
         \A j \in Ids : queue'[j] # None =>
           /\ queue[j] # None /\ queue'[j].submitted = queue[j].submitted
           /\ queue[j].input.named => queue'[j].input.named,
         \A j \in Ids : queue[j] # None /\ queue'[j] = None => j \in withdrawn'
  PROVE  PairInv'
<1> SUFFICES ASSUME NEW i \in 1..saved, intent[i].paired, NEW s \in Starts(i)
             PROVE  /\ s \in Queued' =>
                         /\ i \in Queued' => queue'[i].submitted = None
                         /\ \A r \in wire' : r.id # i
                    /\ s \notin Queued' /\ s \notin withdrawn' =>
                         /\ i \in Queued' => /\ queue'[i].input.named
                                             /\ queue'[i].submitted # None => queue'[i].submitted.named
                         /\ \A r \in wire' : r.id = i => r.input.named
  BY DEF PairInv, Starts, Link
<1>1. i \in Ids /\ s \in Ids
  BY SavedIntents DEF Starts
<1> QED BY <1>1 DEF PairInv, Queued

LEMMA EndedKeeps ==
  ASSUME IInv, EndedInv, StopEndsItsOwnEntry, UNCHANGED <<saved, intent, ended>>,
         running' \in {running, None, Elsewhere}, withdrawn \subseteq withdrawn'
  PROVE  EndedInv' /\ StopEndsItsOwnEntry'
BY ServerAssumption DEF EndedInv, StopEndsItsOwnEntry, Starts, Link

(* Nobody owns the lock.                                                   *)
LEMMA FreeLock ==
  ASSUME IInv', holder' = None
  PROVE  FlushInv' /\ SubmitInv'
BY NoneAssumption, QueueAssumption DEF IInv, LockInv, FlushInv, SubmitInv

(* The flush of tab t goes on with what it knew.                           *)
LEMMA FlushKeeps ==
  ASSUME NEW t \in Tabs, FlushOK(tab[t]), intent' = intent,
         \A j \in Ids : queue'[j] = None <=> queue[j] = None,
         \A j \in Ids : queue'[j] # None => queue'[j].hold = queue[j].hold,
         tab[t].step = "scan" \/ tab[t].at \in Queued,
         tab'[t].at = tab[t].at, tab'[t].members = tab[t].members, tab'[t].due = tab[t].due,
         tab'[t].stranded = tab[t].stranded, tab'[t].step = "scan" <=> tab[t].step = "scan"
  PROVE  FlushOK(tab[t])'
<1>1. Queued' = Queued /\ \A j \in Queued : queue'[j].hold = queue[j].hold
  BY DEF Queued
<1>2. \A j \in Queued : /\ Wanted(tab[t], j)' <=> Wanted(tab[t], j)
                        /\ ChainLeft(tab[t], j)' <=> ChainLeft(tab[t], j)
                        /\ Waits(tab[t], j)' <=> Waits(tab[t], j)
                        /\ PassedOver(tab[t], j)' <=> PassedOver(tab[t], j)
                        /\ Chained(j)' <=> Chained(j)
                        /\ Link(j)' = Link(j)
  BY <1>1 DEF Wanted, ChainLeft, Waits, PassedOver, Chained, Link
<1>3. tab'[t].step # "scan" => ~PassedOver(tab[t], tab[t].at)'
  BY <1>1 DEF FlushOK, PassedOver, Wanted, Chained, Link
<1> QED BY <1>1, <1>2, <1>3 DEF FlushOK

-----------------------------------------------------------------------------

LEMMA SaveIntents ==
  ASSUME IInv, IntentInv, NEW x \in Intents, NEW named \in BOOLEAN, Save(x, named),
         NEW n, n = saved + 1
  PROVE  /\ IntentInv'
         /\ saved' = saved + 1 /\ intent'[n] = x
         /\ \A i \in 1..saved : intent'[i] = intent[i] /\ Link(i)' = Link(i)
         /\ \A i \in 1..saved : intent[i].op = "stop" => Starts(i)' = Starts(i)
         /\ x.op = "stop" => Starts(n)' \subseteq 1..saved
<1>1. saved \in Nat /\ n \in Ids /\ saved' = saved + 1 /\ intent'[n] = x
  BY QueueAssumption DEF Save, IInv, TypeOK, Ids
<1>2. \A i \in 1..saved : intent'[i] = intent[i] /\ Link(i)' = Link(i) /\ i \in Ids /\ Chained(i)' = Chained(i)
  BY <1>1, SavedIntents DEF Save, IInv, TypeOK, Link, Chained
<1>3. 1..saved' = 1..saved \cup {n}
  BY <1>1
<1>4. /\ x.op = "start" => x.chain # None /\ (\A j \in 1..saved : intent[j].chain # x.chain) /\ ~x.paired
      /\ x.op = "stop" => /\ \E j \in 1..saved : /\ intent[j].op = "start"
                                                 /\ intent[j].chain = x.chain
                                                 /\ intent[j].ws = x.ws
                          /\ \A j \in 1..saved : ~ /\ intent[j].op = "stop"
                                                   /\ intent[j].chain = x.chain
      /\ x.op = "create" => x.chain = None /\ ~x.paired
      /\ x.op \in Ops
  BY DEF Save, Askable, Intents
<1>5. \A i \in 1..saved : intent[i].op = "stop" => Starts(i)' = Starts(i)
  <2>1. SUFFICES ASSUME NEW i \in 1..saved, intent[i].op = "stop"
                 PROVE  Starts(i)' = Starts(i)
    OBVIOUS
  <2>2. x.op = "start" => Link(n)' # Link(i)
    <3>1. x.op = "start" => x.chain # intent[i].chain
      BY <1>4
    <3> QED BY <1>1, <3>1 DEF Link
  <2>3. Link(i)' = Link(i)
    BY <1>2
  <2>4. \A j \in 1..saved : j \in Starts(i)' <=> j \in Starts(i)
    BY <1>2, <1>3, <2>3 DEF Starts
  <2>5. n \notin Starts(i)' /\ n \notin Starts(i)
    BY <1>1, <2>2, <2>3 DEF Starts
  <2>6. Starts(i)' \subseteq 1..saved' /\ Starts(i) \subseteq 1..saved'
    BY <1>3 DEF Starts
  <2> QED BY <1>3, <2>4, <2>5, <2>6
<1>6. x.op = "stop" => Starts(n)' \subseteq 1..saved /\ Starts(n)' # {}
  <2> SUFFICES ASSUME x.op = "stop"
               PROVE  Starts(n)' \subseteq 1..saved /\ Starts(n)' # {}
    OBVIOUS
  <2>1. PICK j \in 1..saved : intent[j].op = "start" /\ intent[j].chain = x.chain /\ intent[j].ws = x.ws
    BY <1>4
  <2>2. j \in 1..saved' /\ intent'[j].op = "start" /\ Link(j)' = Link(n)'
    <3>1. Link(j)' = <<x.ws, x.chain>>
      BY <1>2, <2>1 DEF Link
    <3>2. Link(n)' = <<x.ws, x.chain>>
      BY <1>1 DEF Link
    <3> QED BY <1>2, <1>3, <2>1, <3>1, <3>2
  <2>3. j \in Starts(n)'
    BY <2>2 DEF Starts
  <2>4. n \notin Starts(n)'
    BY <1>1 DEF Starts
  <2>5. Starts(n)' \subseteq 1..saved
    BY <1>3, <2>4 DEF Starts
  <2> QED BY <2>3, <2>5
<1>7. \A i \in 1..saved' :
        /\ intent'[i].op # "stop" => ~intent'[i].paired
        /\ intent'[i].op = "start" => Chained(i)'
        /\ intent'[i].op = "stop" => Starts(i)' # {} /\ \A j \in Starts(i)' : j < i
        /\ intent'[i].op = "create" => ~Chained(i)'
  <2>1. ASSUME NEW i \in 1..saved
        PROVE  /\ intent'[i].op # "stop" => ~intent'[i].paired
               /\ intent'[i].op = "start" => Chained(i)'
               /\ intent'[i].op = "stop" => Starts(i)' # {} /\ \A j \in Starts(i)' : j < i
               /\ intent'[i].op = "create" => ~Chained(i)'
    BY <1>2, <1>5 DEF IntentInv
  <2>2. \A j \in 1..saved : j < n
    BY <1>1
  <2>3. /\ x.op # "stop" => ~x.paired
        /\ x.op = "start" => Chained(n)'
        /\ x.op = "stop" => Starts(n)' # {} /\ \A j \in Starts(n)' : j < n
        /\ x.op = "create" => ~Chained(n)'
    <3>1. /\ x.op # "stop" => ~x.paired
          /\ x.op = "start" => Chained(n)'
          /\ x.op = "create" => ~Chained(n)'
      BY <1>1, <1>4 DEF Chained, Ops
    <3>2. x.op = "stop" => Starts(n)' # {} /\ \A j \in Starts(n)' : j < n
      BY <1>6, <2>2
    <3> QED BY <3>1, <3>2
  <2>4. SUFFICES ASSUME NEW i \in 1..saved'
                 PROVE  /\ intent'[i].op # "stop" => ~intent'[i].paired
                        /\ intent'[i].op = "start" => Chained(i)'
                        /\ intent'[i].op = "stop" => Starts(i)' # {} /\ \A j \in Starts(i)' : j < i
                        /\ intent'[i].op = "create" => ~Chained(i)'
    OBVIOUS
  <2>5. CASE i \in 1..saved
    BY <2>1, <2>5
  <2>6. CASE i = n
    BY <1>1, <2>3, <2>6 DEF Starts, Chained, Link
  <2> QED BY <1>3, <2>5, <2>6
<1>8. \A i, j \in 1..saved' :
        /\ intent'[i].op = "start" /\ intent'[j].op = "start" /\ intent'[i].chain = intent'[j].chain => i = j
        /\ intent'[i].op = "stop" /\ intent'[j].op = "stop" /\ intent'[i].chain = intent'[j].chain => i = j
  BY <1>1, <1>2, <1>3, <1>4 DEF IntentInv
<1>9. IntentInv'
  BY <1>7, <1>8 DEF IntentInv
<1> QED BY <1>1, <1>2, <1>5, <1>6, <1>9

LEMMA SavePair ==
  ASSUME IInv, IInv', IntentInv, PairInv, NEW x \in Intents, NEW named \in BOOLEAN, Save(x, named),
         UNCHANGED <<wire, withdrawn>>,
         NEW n, n = saved + 1
  PROVE  PairInv'
<1>1. saved \in Nat /\ n \in Ids /\ Ids \subseteq Nat
  BY QueueAssumption DEF IInv, TypeOK, Ids, Save
<1>2. /\ saved' = saved + 1 /\ intent'[n] = x
      /\ \A i \in 1..saved : intent'[i] = intent[i] /\ Link(i)' = Link(i)
      /\ \A i \in 1..saved : intent[i].op = "stop" => Starts(i)' = Starts(i)
      /\ x.op = "stop" => Starts(n)' \subseteq 1..saved
      /\ IntentInv'
  BY SaveIntents
<1>3. /\ \A j \in Ids \ {n} : queue'[j] = queue[j]
      /\ queue'[n] = FreshRow(named)
      /\ FreshRow(named) # None /\ FreshRow(named).submitted = None /\ FreshRow(named).input.named = named
  <2>1. FreshRow(named) \in Rows
    BY QueueAssumption DEF FreshRow, Rows, Inputs, Holds
  <2> QED BY <1>1, <2>1, NoneAssumption DEF FreshRow, Save, IInv, TypeOK
<1>4. \A r \in wire : r.id <= saved /\ r.id \in Nat
  BY <1>1 DEF IInv, SavedInv, TypeOK, Requests
<1> SUFFICES ASSUME NEW i \in 1..saved', intent'[i].paired, NEW s \in Starts(i)'
             PROVE  /\ s \in Queued' =>
                         /\ i \in Queued' => queue'[i].submitted = None
                         /\ \A r \in wire : r.id # i
                    /\ s \notin Queued' /\ s \notin withdrawn =>
                         /\ i \in Queued' => /\ queue'[i].input.named
                                             /\ queue'[i].submitted # None => queue'[i].submitted.named
                         /\ \A r \in wire : r.id = i => r.input.named
  BY DEF PairInv
<1>5. CASE i \in 1..saved
  <2>1. intent[i].paired /\ intent[i].op = "stop" /\ s \in Starts(i) /\ s \in 1..saved
    BY <1>2, <1>5, PairedStop
  <2>2. i \in Ids \ {n} /\ s \in Ids \ {n}
    BY <1>1, <1>5, <2>1, SavedIntents
  <2>3. (i \in Queued' <=> i \in Queued) /\ (s \in Queued' <=> s \in Queued) /\ queue'[i] = queue[i]
    BY <1>3, <2>2 DEF Queued
  <2> QED BY <1>5, <2>1, <2>3 DEF PairInv
<1>6. CASE i = n
  <2>1. x.paired /\ x.op = "stop" /\ x.paired = StartQueued(x.chain, x.ws)
    BY <1>2, <1>6, PairedStop DEF Save, Askable, IntentInv
  <2>2. PICK k \in Queued : intent[k].op = "start" /\ intent[k].chain = x.chain /\ intent[k].ws = x.ws
    BY <2>1 DEF StartQueued
  <2>3. k \in 1..saved
    BY <1>1 DEF Queued, IInv, SavedInv, Ids
  <2>4. s \in 1..saved /\ intent[s].op = "start" /\ Link(s) = <<x.ws, x.chain>>
    <3>1. s \in 1..saved
      BY <1>2, <1>6, <2>1 DEF Starts
    <3>2. intent'[s].op = "start" /\ Link(s)' = Link(i)' /\ Link(i)' = <<x.ws, x.chain>>
      BY <1>2, <1>6 DEF Starts, Link
    <3> QED BY <1>2, <3>1, <3>2
  <2>5. s = k
    BY <2>2, <2>3, <2>4 DEF IntentInv, Link
  <2>6. s \in Queued'
    BY <1>1, <1>3, <2>2, <2>3, <2>5 DEF Queued
  <2> QED BY <1>1, <1>3, <1>4, <1>6, <2>6
<1> QED BY <1>1, <1>2, <1>5, <1>6

LEMMA SaveEnded ==
  ASSUME IInv, IntentInv, EndedInv, StopEndsItsOwnEntry, NEW x \in Intents, NEW named \in BOOLEAN, Save(x, named),
         UNCHANGED <<ended, running, withdrawn>>
  PROVE  EndedInv' /\ StopEndsItsOwnEntry'
<1>1. saved \in Nat /\ Ids \subseteq Nat /\ \A i \in Ids : i <= saved <=> i \in 1..saved
  BY QueueAssumption DEF IInv, TypeOK, Ids
<1>2. /\ saved' = saved + 1
      /\ \A i \in 1..saved : intent'[i] = intent[i]
      /\ \A i \in 1..saved : intent[i].op = "stop" => Starts(i)' = Starts(i)
  <2>1. PICK n : n = saved + 1
    OBVIOUS
  <2> QED BY <2>1, SaveIntents
<1>3. EndedInv'
  <2>1. ASSUME running \in Ids PROVE running <= saved + 1
    <3>1. running \in Nat /\ saved \in Nat
      BY <1>1, <2>1
    <3>2. running <= saved
      BY <2>1 DEF EndedInv
    <3> QED BY <3>1, <3>2
  <2>2. ASSUME NEW i \in Ids, ended[i] # None PROVE i <= saved + 1 /\ intent'[i].op = "stop"
    <3>1. i \in 1..saved /\ intent[i].op = "stop"
      BY <1>1, <2>2 DEF EndedInv
    <3> QED BY <1>1, <1>2, <3>1
  <2> QED BY <1>2, <2>1, <2>2 DEF EndedInv
<1>4. StopEndsItsOwnEntry'
  BY <1>1, <1>2 DEF EndedInv, StopEndsItsOwnEntry
<1> QED BY <1>3, <1>4

-----------------------------------------------------------------------------
(* What a flush may send: nothing of its chain waits, and nothing before   *)
(* it could have been sent.                                                *)
LEMMA FlushFacts ==
  ASSUME IInv, FlushInv, NEW t \in Tabs, tab[t].mode = "flush"
  PROVE  /\ FlushOK(tab[t])
         /\ tab[t] \in TabStates /\ tab[t].at \in Nat /\ tab[t].stranded \subseteq Workspaces \X Chains
         /\ holder = t
         /\ tab[t].step # "scan" => tab[t].at \in Queued
         /\ Queued \subseteq 1..saved /\ Queued \subseteq Nat /\ Queued \subseteq Ids
BY QueueAssumption DEF IInv, LockInv, WorkInv, TypeOK, TabStates, FlushInv, Queued, SavedInv, Ids

(* When a flush picks a row of a chain, the chain's other rows are behind. *)
LEMMA ChainAhead ==
  ASSUME IInv, FlushInv, NEW t \in Tabs, tab[t].mode = "flush", tab[t].step = "scan",
         NEW i \in Queued, NextToSend(tab[t], i), Chained(i), NEW s \in Queued, s < i, Chained(s), Link(s) = Link(i)
  PROVE  FALSE
<1>1. FlushOK(tab[t]) /\ tab[t].at \in Nat /\ s \in Nat /\ i \in Nat
  BY FlushFacts
<1>2. Wanted(tab[t], i) /\ Link(i) \notin tab[t].stranded
  BY DEF NextToSend, PassedOver
<1>3. CASE s <= tab[t].at
  BY <1>1, <1>2, <1>3 DEF FlushOK, ChainLeft
<1>4. CASE s > tab[t].at
  BY <1>1, <1>2, <1>4 DEF NextToSend, PassedOver, FlushOK, ChainLeft
<1> QED BY <1>1, <1>3, <1>4

(* A row is frozen: a paired stop's start is no longer waiting then.       *)
LEMMA FreezePair ==
  ASSUME IInv, IntentInv, PairInv, NEW i \in Queued, queue' = [queue EXCEPT ![i] = Frozen(@)],
         UNCHANGED <<saved, intent, wire, withdrawn>>,
         intent[i].paired => \A s \in Starts(i) : s \notin Queued
  PROVE  PairInv'
<1>1. i \in Ids /\ queue[i] \in Rows /\ queue[i] # None
  BY DEF IInv, Queued, TypeOK
<1>2. /\ Frozen(queue[i]) # None /\ Frozen(queue[i]).input = queue[i].input
      /\ \/ Frozen(queue[i]).submitted = queue[i].submitted
         \/ Frozen(queue[i]).submitted = queue[i].input
  <2>1. Frozen(queue[i]) \in Rows /\ Frozen(queue[i]).input = queue[i].input
    BY <1>1 DEF Frozen, Rows
  <2>2. \/ Frozen(queue[i]).submitted = queue[i].submitted
        \/ Frozen(queue[i]).submitted = queue[i].input
    BY <1>1 DEF Frozen, Rows
  <2> QED BY <2>1, <2>2, NoneAssumption
<1>3. /\ queue'[i] = Frozen(queue[i])
      /\ \A j \in Ids \ {i} : queue'[j] = queue[j]
  BY <1>1 DEF IInv, TypeOK
<1>4. Queued' = Queued
  BY <1>1, <1>2, <1>3 DEF Queued
<1> SUFFICES ASSUME NEW k \in 1..saved, intent[k].paired, NEW s \in Starts(k)
             PROVE  /\ s \in Queued =>
                         /\ k \in Queued => queue'[k].submitted = None
                         /\ \A r \in wire : r.id # k
                    /\ s \notin Queued /\ s \notin withdrawn =>
                         /\ k \in Queued => /\ queue'[k].input.named
                                            /\ queue'[k].submitted # None => queue'[k].submitted.named
                         /\ \A r \in wire : r.id = k => r.input.named
  BY <1>4 DEF PairInv, Starts, Link
<1>5. /\ s \in Queued =>
           /\ k \in Queued => queue[k].submitted = None
           /\ \A r \in wire : r.id # k
      /\ s \notin Queued /\ s \notin withdrawn =>
           /\ k \in Queued => /\ queue[k].input.named
                              /\ queue[k].submitted # None => queue[k].submitted.named
           /\ \A r \in wire : r.id = k => r.input.named
  BY DEF PairInv
<1>6. CASE k = i
  BY <1>1, <1>2, <1>3, <1>5, <1>6
<1>7. CASE k # i
  BY <1>3, <1>5, <1>7 DEF Queued
<1> QED BY <1>6, <1>7

(* A frozen row is sent.                                                   *)
LEMMA SendPair ==
  ASSUME IInv, IntentInv, PairInv, NEW t \in Tabs, Send(t)
  PROVE  PairInv'
<1> DEFINE i == tab[t].at
           q == [id |-> i, input |-> queue[i].submitted, attempt |-> faults]
<1>1. i \in Queued /\ queue[i].submitted # None
  BY DEF IInv, WorkInv, Send
<1>2. wire' = wire \cup {q} /\ q.id = i /\ q.input = queue[i].submitted
      /\ UNCHANGED <<saved, intent, queue, withdrawn>>
  BY DEF Send
<1> HIDE DEF q, i
<1>3. Queued' = Queued
  BY <1>2 DEF Queued
<1> SUFFICES ASSUME NEW k \in 1..saved, intent[k].paired, NEW s \in Starts(k)
             PROVE  /\ s \in Queued =>
                         /\ k \in Queued => queue[k].submitted = None
                         /\ \A r \in wire' : r.id # k
                    /\ s \notin Queued /\ s \notin withdrawn =>
                         /\ k \in Queued => /\ queue[k].input.named
                                            /\ queue[k].submitted # None => queue[k].submitted.named
                         /\ \A r \in wire' : r.id = k => r.input.named
  BY <1>2, <1>3 DEF PairInv, Starts, Link
<1>5. /\ s \in Queued =>
           /\ k \in Queued => queue[k].submitted = None
           /\ \A r \in wire : r.id # k
      /\ s \notin Queued /\ s \notin withdrawn =>
           /\ k \in Queued => /\ queue[k].input.named
                              /\ queue[k].submitted # None => queue[k].submitted.named
           /\ \A r \in wire : r.id = k => r.input.named
  BY DEF PairInv
<1> QED BY <1>1, <1>2, <1>5

(* An applied row leaves the queue: a start teaches its stop its entry.    *)
LEMMA AppliedPair ==
  ASSUME IInv, IntentInv, PairInv, NEW i \in Queued, i \in 1..saved,
         \A j \in Ids : queue'[j] # None =>
           /\ queue[j] # None /\ queue'[j].submitted = queue[j].submitted
           /\ queue[j].input.named \/ Resolves(i, j) => queue'[j].input.named,
         \A j \in Ids \ {i} : queue[j] # None => queue'[j] # None,
         UNCHANGED <<saved, intent, wire, withdrawn>>
  PROVE  PairInv'
<1> SUFFICES ASSUME NEW k \in 1..saved, intent[k].paired, NEW s \in Starts(k)
             PROVE  /\ s \in Queued' =>
                         /\ k \in Queued' => queue'[k].submitted = None
                         /\ \A r \in wire : r.id # k
                    /\ s \notin Queued' /\ s \notin withdrawn =>
                         /\ k \in Queued' => /\ queue'[k].input.named
                                             /\ queue'[k].submitted # None => queue'[k].submitted.named
                         /\ \A r \in wire : r.id = k => r.input.named
  BY DEF PairInv, Starts, Link
<1>1. /\ s \in Queued =>
           /\ k \in Queued => queue[k].submitted = None
           /\ \A r \in wire : r.id # k
      /\ s \notin Queued /\ s \notin withdrawn =>
           /\ k \in Queued => /\ queue[k].input.named
                              /\ queue[k].submitted # None => queue[k].submitted.named
           /\ \A r \in wire : r.id = k => r.input.named
  BY DEF PairInv
<1>2. /\ intent[k].op = "stop" /\ s \in 1..saved /\ s < k /\ intent[s].op = "start" /\ Link(s) = Link(k)
      /\ s \in Ids /\ k \in Ids
  BY PairedStop, SavedIntents
<1>3. Chained(s)
  BY <1>2 DEF IntentInv
<1>4. CASE s = i
  <2>1. Resolves(i, k)
    BY <1>2, <1>3, <1>4, SavedIntents DEF Resolves
  <2> QED BY <1>1, <1>2, <1>4, <2>1 DEF Queued
<1>5. CASE s # i
  BY <1>1, <1>2, <1>5 DEF Queued
<1> QED BY <1>4, <1>5

-----------------------------------------------------------------------------
(* Only the owner of the lock works on the queue.                          *)
LEMMA OneOwner ==
  ASSUME IInv', NEW t \in Tabs, holder' = t
  PROVE  /\ tab'[t].mode = "submit" => (SubmitInv' <=> (Queued' = {tab'[t].at} /\ queue'[tab'[t].at].hold = "none"))
                                       /\ FlushInv'
         /\ tab'[t].mode = "flush" => (FlushInv' <=> FlushOK(tab[t])') /\ SubmitInv'
<1>1. \A u \in Tabs \ {t} : tab'[u].mode \notin {"submit", "flush"}
  BY DEF IInv, LockInv
<1> QED BY <1>1 DEF SubmitInv, FlushInv

LEMMA FreezeFlush ==
  ASSUME IInv, IInv', FlushInv, NEW t \in Tabs, NEW i \in Queued, FreezeNext(t, i)
  PROVE  FlushInv' /\ SubmitInv'
<1>1. tab[t].mode = "flush" /\ tab[t].step = "scan" /\ NextToSend(tab[t], i)
  BY DEF FreezeNext, Scanning
<1>2. FlushOK(tab[t]) /\ tab[t] \in TabStates /\ tab[t].at \in Nat /\ holder = t /\ Queued \subseteq Nat /\ i \in Ids
  BY <1>1, FlushFacts
<1>3. tab' = [tab EXCEPT ![t] = [tab[t] EXCEPT !.step = "frozen", !.at = i]] /\ UNCHANGED <<intent, holder>>
  BY <1>2 DEF FreezeNext, IInv, TypeOK, TabStates
<1>4. /\ tab'[t].mode = "flush" /\ tab'[t].step = "frozen" /\ tab'[t].at = i /\ tab'[t].members = tab[t].members
      /\ tab'[t].due = tab[t].due /\ tab'[t].stranded = tab[t].stranded
  BY <1>1, <1>2, <1>3 DEF IInv, TypeOK, TabStates
<1>5. /\ queue[i] \in Rows /\ queue[i] # None
      /\ Frozen(queue[i]) \in Rows /\ Frozen(queue[i]).hold = queue[i].hold
  BY <1>2 DEF IInv, TypeOK, Queued, Rows, Frozen
<1>6. Queued' = Queued /\ \A j \in Queued : queue'[j].hold = queue[j].hold
  <2>1. queue' = [queue EXCEPT ![i] = Frozen(queue[i])]
    BY DEF FreezeNext
  <2> QED BY <1>2, <1>5, <2>1, NoneAssumption DEF Queued, IInv, TypeOK
<1>7. \A j \in Queued : /\ Wanted(tab[t], j)' <=> Wanted(tab[t], j)
                        /\ ChainLeft(tab[t], j)' <=> ChainLeft(tab[t], j)
                        /\ Waits(tab[t], j)' <=> Waits(tab[t], j)
                        /\ PassedOver(tab[t], j)' <=> PassedOver(tab[t], j)
                        /\ Chained(j)' <=> Chained(j)
                        /\ Link(j)' = Link(j)
  BY <1>3, <1>4, <1>6 DEF Wanted, ChainLeft, Waits, PassedOver, Chained, Link
<1>8. ASSUME NEW j \in Queued, j < i
      PROVE  ChainLeft(tab[t], j) /\ (Chained(j) \/ Waits(tab[t], j))
  <2>1. CASE j <= tab[t].at
    BY <1>1, <1>2, <2>1 DEF FlushOK
  <2>2. CASE j > tab[t].at
    BY <1>1, <1>2, <1>8, <2>2 DEF FlushOK, NextToSend, PassedOver, ChainLeft, Wanted, Waits
  <2>3. j \in Nat /\ tab[t].at \in Nat
    BY <1>2
  <2> QED BY <2>1, <2>2, <2>3
<1>9. ~PassedOver(tab[t], tab[t].at)'
  BY <1>1, <1>3, <1>4, <1>6 DEF NextToSend, PassedOver, Wanted, Chained, Link
<1>10. FlushOK(tab[t])'
  BY <1>2, <1>4, <1>6, <1>7, <1>8, <1>9 DEF FlushOK
<1> QED BY <1>2, <1>3, <1>4, <1>10, OneOwner

LEMMA BeginFlush ==
  ASSUME IInv, IInv', RestInv, NEW t \in Tabs, NEW due \in SUBSET Ids, FlushBegin(t, due)
  PROVE  FlushInv' /\ SubmitInv'
<1> DEFINE b == [tab[t] EXCEPT !.mode = "flush", !.due = due]
           x == {Link(i) : i \in {j \in Queued : Chained(j) /\ ~Wanted(b, j)}}
<1>m. tab[t].mode = "asked"
  BY DEF FlushBegin
<1>1. tab[t] \in TabStates /\ tab[t].step = "scan" /\ tab[t].at = 0
  BY <1>m DEF IInv, TypeOK, WorkInv, RestInv
<1>2. tab' = [tab EXCEPT ![t] = [b EXCEPT !.stranded = x]] /\ holder' = t /\ UNCHANGED <<intent, queue>>
  BY DEF FlushBegin
<1>3. b.members = tab[t].members /\ b.due = due /\ b.mode = "flush" /\ b.step = "scan" /\ b.at = tab[t].at /\ b \in TabStates
  <2>1. b.members = tab[t].members /\ b.due = due /\ b.mode = "flush" /\ b.step = "scan" /\ b.at = tab[t].at
    BY <1>1 DEF TabStates
  <2> DEFINE z == [tab[t] EXCEPT !.mode = "flush"]
  <2>2. z \in TabStates
    BY <1>1, TabField
  <2>3. b = [z EXCEPT !.due = due]
    OBVIOUS
  <2> HIDE DEF b, z
  <2>4. [z EXCEPT !.due = due] \in TabStates
    BY <2>2, TabField
  <2> QED BY <2>1, <2>3, <2>4
<1> HIDE DEF b
<1>4. /\ tab'[t].mode = "flush" /\ tab'[t].step = "scan" /\ tab'[t].at = tab[t].at /\ tab'[t].members = b.members
      /\ tab'[t].due = b.due /\ tab'[t].stranded = x
  <2> HIDE DEF x
  <2> QED BY <1>2, <1>3 DEF IInv, TypeOK, TabStates
<1>5. \A j \in Queued : /\ Wanted(tab[t], j)' <=> Wanted(b, j)
                        /\ ChainLeft(tab[t], j)' <=> (Chained(j) => Link(j) \in x)
                        /\ Waits(tab[t], j)' <=> (queue[j].hold # "none" \/ intent[j].ws \notin b.members)
                        /\ Chained(j)' <=> Chained(j)
                        /\ Link(j)' = Link(j)
  BY <1>2, <1>4 DEF Wanted, ChainLeft, Waits, Chained, Link
<1>6. Queued' = Queued /\ \A j \in Queued : j > 0
  BY <1>2 DEF Queued, Ids
<1>7. \A l \in x : \E k \in Queued : Chained(k) /\ Link(k) = l /\ (queue[k].hold # "none" \/ intent[k].ws \notin b.members)
  BY DEF Wanted
<1>8. FlushOK(tab[t])'
  <2>1. \A j \in Queued : ~Wanted(b, j) => (Chained(j) => Link(j) \in x)
    OBVIOUS
  <2>2. \A j \in Queued : ~(j < 0 \/ j = 0)
    BY <1>6 DEF Queued, Ids
  <2> HIDE DEF x
  <2> QED BY <1>1, <1>4, <1>5, <1>6, <1>7, <2>1, <2>2 DEF FlushOK
<1> QED BY <1>2, <1>4, <1>8, OneOwner

LEMMA HoldFlush ==
  ASSUME IInv, IInv', FlushInv, NEW t \in Tabs, tab[t].mode = "flush", tab[t].step # "scan",
         NEW h \in Holds, h # "none",
         NEW i, i = tab[t].at, Hold(t, i, h)
  PROVE  FlushInv' /\ SubmitInv'
<1> DEFINE x == IF Chained(i) THEN tab[t].stranded \cup {Link(i)} ELSE tab[t].stranded
<1>1. /\ FlushOK(tab[t]) /\ tab[t] \in TabStates /\ i \in Nat /\ holder = t /\ i \in Queued
      /\ Queued \subseteq Nat /\ Queued \subseteq Ids
  BY FlushFacts
<1>2. /\ queue[i] \in Rows /\ queue[i] # None
      /\ [queue[i] EXCEPT !.hold = h] \in Rows /\ [queue[i] EXCEPT !.hold = h].hold = h
  <2>1. queue[i] \in Rows /\ queue[i] # None
    BY <1>1 DEF Queued, IInv, TypeOK
  <2> QED BY <2>1 DEF Rows
<1>3. /\ tab'[t].mode = "flush" /\ tab'[t].step = "scan" /\ tab'[t].at = i /\ tab'[t].members = tab[t].members
      /\ tab'[t].due = tab[t].due /\ tab'[t].stranded = x
  BY <1>1 DEF Hold, IInv, TypeOK, TabStates
<1>4. holder' = t /\ UNCHANGED intent /\ queue' = [queue EXCEPT ![i] = [queue[i] EXCEPT !.hold = h]]
  BY <1>1, <1>2 DEF Hold
<1>5. ~PassedOver(tab[t], i)
  BY <1>1 DEF FlushOK
<1>6. /\ Queued' = Queued /\ queue'[i].hold = h
      /\ \A j \in Queued \ {i} : queue'[j].hold = queue[j].hold
  <2> DEFINE row == [queue[i] EXCEPT !.hold = h]
  <2>1. queue \in [Ids -> Rows \cup {None}] /\ i \in Ids
    BY <1>1 DEF IInv, TypeOK
  <2>2. queue' = [queue EXCEPT ![i] = row] /\ row # None /\ row.hold = h
    BY <1>2, <1>4, NoneAssumption
  <2> HIDE DEF row
  <2> QED BY <1>2, <2>1, <2>2 DEF Queued
<1>7. \A j \in Queued : /\ ChainLeft(tab[t], j)' <=> (Chained(j) => Link(j) \in x)
                        /\ Chained(j)' <=> Chained(j)
                        /\ Link(j)' = Link(j)
                        /\ Waits(tab[t], j) => Waits(tab[t], j)'
                        /\ ~Wanted(tab[t], j)' => ~Wanted(tab[t], j) \/ j = i
  <2> HIDE DEF x
  <2> QED BY <1>3, <1>4, <1>6 DEF Wanted, ChainLeft, Waits, Chained, Link
<1>8. Waits(tab[t], i)' /\ (Chained(i) => Link(i) \in x) /\ tab[t].stranded \subseteq x
  BY <1>1, <1>6 DEF Waits
<1>9. \A j \in Queued : ~Wanted(tab[t], j)' => ChainLeft(tab[t], j)'
  <2> HIDE DEF x
  <2> QED BY <1>1, <1>7, <1>8 DEF FlushOK, ChainLeft
<1>10. \A j \in Queued : j < i \/ j = i => ChainLeft(tab[t], j)' /\ (Chained(j) \/ Waits(tab[t], j)')
  <2>1. ASSUME NEW j \in Queued, j < i
        PROVE  ChainLeft(tab[t], j) /\ (Chained(j) \/ Waits(tab[t], j))
    BY <1>1, <2>1 DEF FlushOK
  <2> HIDE DEF x
  <2> QED BY <1>1, <1>7, <1>8, <2>1 DEF ChainLeft
<1>11. \A l \in x : \E k \in Queued : Chained(k)' /\ Link(k)' = l /\ Waits(tab[t], k)'
  <2>1. ASSUME NEW l \in tab[t].stranded
        PROVE  \E k \in Queued : Chained(k)' /\ Link(k)' = l /\ Waits(tab[t], k)'
    <3>1. PICK k \in Queued : Chained(k) /\ Link(k) = l /\ Waits(tab[t], k)
      BY <1>1 DEF FlushOK
    <3> HIDE DEF x
    <3> QED BY <1>7, <3>1
  <2>2. Chained(i) => \E k \in Queued : Chained(k)' /\ Link(k)' = Link(i) /\ Waits(tab[t], k)'
    BY <1>1, <1>7, <1>8
  <2> QED BY <2>1, <2>2
<1>12. FlushOK(tab[t])'
  <2> HIDE DEF x
  <2>1. tab'[t].step = "scan" /\ tab'[t].at = i /\ tab'[t].stranded = x /\ Queued' = Queued
    BY <1>3, <1>6
  <2>2. \A j \in Queued : (Chained(j) <=> Chained(j)')
    BY <1>7
  <2> QED BY <1>9, <1>10, <1>11, <2>1, <2>2 DEF FlushOK
<1> QED BY <1>3, <1>4, <1>12, OneOwner

LEMMA AppliedFlush ==
  ASSUME IInv, IInv', FlushInv, NEW t \in Tabs, FlushApplied(t)
  PROVE  FlushInv' /\ SubmitInv'
<1> DEFINE i == tab[t].at
<1>m. tab[t].mode = "flush" /\ tab[t].step # "scan"
  BY NoneAssumption DEF FlushApplied, IInv, WorkInv, Answers
<1>1. /\ FlushOK(tab[t]) /\ tab[t] \in TabStates /\ i \in Nat /\ holder = t /\ i \in Queued
      /\ Queued \subseteq Nat /\ Queued \subseteq Ids
  BY <1>m, FlushFacts
<1>3. /\ tab'[t].mode = "flush" /\ tab'[t].step = "scan" /\ tab'[t].at = i /\ tab'[t].members = tab[t].members
      /\ tab'[t].due = tab[t].due /\ tab'[t].stranded = tab[t].stranded
      /\ holder' = t /\ UNCHANGED intent
  BY <1>1, <1>m DEF FlushApplied, IInv, TypeOK, TabStates
<1>5. ~PassedOver(tab[t], i)
  BY <1>1, <1>m DEF FlushOK
<1>6. Queued' = Queued \ {i} /\ \A j \in Queued' : queue'[j].hold = queue[j].hold
  <2>1. \A j \in Queued : /\ [queue[j] EXCEPT !.input.named = TRUE] # None
                          /\ [queue[j] EXCEPT !.input.named = TRUE].hold = queue[j].hold
    <3>1. \A j \in Queued : queue[j] \in Rows
      BY DEF Queued, IInv, TypeOK
    <3>2. \A j \in Queued : /\ [queue[j] EXCEPT !.input.named = TRUE] \in Rows
                            /\ [queue[j] EXCEPT !.input.named = TRUE].hold = queue[j].hold
      BY <3>1, ZenonT(30) DEF Rows, Inputs
    <3> QED BY <3>2, NoneAssumption
  <2> HIDE DEF i
  <2>2. queue' = [j \in Ids |->
          IF j = i THEN None
          ELSE IF j \in Queued /\ Resolves(i, j) THEN [queue[j] EXCEPT !.input.named = TRUE]
          ELSE queue[j]]
    BY DEF i, FlushApplied
  <2> QED BY <1>1, <2>1, <2>2 DEF Queued
<1> HIDE DEF i
<1>7. \A j \in Queued' : /\ Wanted(tab[t], j)' <=> Wanted(tab[t], j)
                         /\ ChainLeft(tab[t], j)' <=> ChainLeft(tab[t], j)
                         /\ Waits(tab[t], j)' <=> Waits(tab[t], j)
                         /\ Chained(j)' <=> Chained(j)
                         /\ Link(j)' = Link(j)
  BY <1>3, <1>6 DEF Wanted, ChainLeft, Waits, Chained, Link
<1>8. \A j \in Queued' : ~Wanted(tab[t], j)' => ChainLeft(tab[t], j)'
  BY <1>1, <1>6, <1>7 DEF FlushOK
<1>9. \A j \in Queued' : j < i \/ j = i => ChainLeft(tab[t], j)' /\ (Chained(j)' \/ Waits(tab[t], j)')
  <2>1. \A j \in Queued : j < i => ChainLeft(tab[t], j) /\ (Chained(j) \/ Waits(tab[t], j))
    BY <1>1 DEF FlushOK, i
  <2> QED BY <1>6, <1>7, <2>1
<1>10. \A l \in tab[t].stranded : \E k \in Queued' : Chained(k)' /\ Link(k)' = l /\ Waits(tab[t], k)'
  <2> SUFFICES ASSUME NEW l \in tab[t].stranded
               PROVE  \E k \in Queued' : Chained(k)' /\ Link(k)' = l /\ Waits(tab[t], k)'
    OBVIOUS
  <2>1. PICK k \in Queued : Chained(k) /\ Link(k) = l /\ Waits(tab[t], k)
    BY <1>1 DEF FlushOK
  <2>2. k # i
    BY <1>5, <2>1 DEF PassedOver
  <2> QED BY <1>6, <1>7, <2>1, <2>2
<1>11. FlushOK(tab[t])'
  BY <1>3, <1>8, <1>9, <1>10 DEF FlushOK
<1> QED BY <1>3, <1>11, OneOwner

(* The submitting tab freezes its row, the only one there is.              *)
LEMMA FreezeSubmit ==
  ASSUME IInv, IInv', SubmitInv, NEW t \in Tabs, FreezeSubmitted(t)
  PROVE  FlushInv' /\ SubmitInv'
<1> DEFINE i == tab[t].at
<1>1. /\ tab[t].mode = "submit" /\ tab[t] \in TabStates /\ holder = t /\ i \in Queued /\ i \in Ids
      /\ Queued = {i} /\ queue[i].hold = "none"
  BY DEF FreezeSubmitted, IInv, TypeOK, LockInv, WorkInv, SubmitInv, Queued
<1>2. tab'[t].mode = "submit" /\ tab'[t].at = i /\ holder' = t
  BY <1>1 DEF FreezeSubmitted, IInv, TypeOK, TabStates
<1>3. /\ queue[i] \in Rows /\ queue[i] # None
      /\ Frozen(queue[i]) \in Rows /\ Frozen(queue[i]).hold = queue[i].hold
  BY SMTT(30), <1>1 DEF IInv, TypeOK, Queued, Rows, Frozen
<1>4. queue' = [queue EXCEPT ![i] = Frozen(queue[i])]
  BY DEF FreezeSubmitted
<1> HIDE DEF i
<1>5. Queued' = {i} /\ queue'[i].hold = "none"
  BY <1>1, <1>3, <1>4, NoneAssumption DEF Queued, IInv, TypeOK
<1> QED BY <1>2, <1>5, OneOwner

(* A row saved by a tab that goes on to send it is alone.                  *)
LEMMA SaveSubmit ==
  ASSUME IInv, IInv', holder = None, NEW x \in Intents, NEW named \in BOOLEAN, Save(x, named),
         \/ UNCHANGED <<holder, tab>>
         \/ \E t \in Tabs :
              /\ Queued = {}
              /\ holder' = t
              /\ tab' = [tab EXCEPT ![t] =
                   [Idle EXCEPT !.mode = "submit", !.step = "saved", !.at = saved + 1]]
  PROVE  FlushInv' /\ SubmitInv'
<1>1. CASE UNCHANGED <<holder, tab>>
  BY <1>1, FreeLock
<1>2. ASSUME NEW t \in Tabs, Queued = {}, holder' = t,
             tab' = [tab EXCEPT ![t] =
                   [Idle EXCEPT !.mode = "submit", !.step = "saved", !.at = saved + 1]]
      PROVE  FlushInv' /\ SubmitInv'
  <2>1. tab'[t].mode = "submit" /\ tab'[t].at = saved + 1
    BY <1>2 DEF IInv, TypeOK, Idle
  <2>2. saved + 1 \in Ids
    BY QueueAssumption DEF IInv, TypeOK, Ids, Save
  <2>3. FreshRow(named) \in Rows /\ FreshRow(named).hold = "none"
    BY QueueAssumption DEF FreshRow, Rows, Inputs, Holds
  <2>4. queue' = [queue EXCEPT ![saved + 1] = FreshRow(named)] /\ queue \in [Ids -> Rows \cup {None}]
    BY DEF Save, IInv, TypeOK
  <2>5. Queued' = {tab'[t].at} /\ queue'[tab'[t].at].hold = "none"
    BY <1>2, <2>1, <2>2, <2>3, <2>4, NoneAssumption DEF Queued
  <2> QED BY <1>2, <2>1, <2>5, OneOwner
<1> QED BY <1>1, <1>2

(* The owner of the lock goes on with an unchanged queue.                  *)
LEMMA LockKeeps ==
  ASSUME IInv, IInv', FlushInv, SubmitInv, UNCHANGED <<intent, queue, holder>>,
         \A u \in Tabs : tab[u].mode \in {"submit", "flush"} =>
           /\ tab'[u].mode = tab[u].mode /\ tab'[u].at = tab[u].at /\ tab'[u].members = tab[u].members
           /\ tab'[u].due = tab[u].due /\ tab'[u].stranded = tab[u].stranded
           /\ tab'[u].step = "scan" <=> tab[u].step = "scan"
  PROVE  FlushInv' /\ SubmitInv'
<1>1. \A u \in Tabs : tab'[u].mode \in {"submit", "flush"} => tab[u].mode \in {"submit", "flush"}
  BY DEF IInv, LockInv
<1>2. SubmitInv'
  BY <1>1 DEF SubmitInv, Queued
<1>3. FlushInv'
  <2> SUFFICES ASSUME NEW u \in Tabs, tab'[u].mode = "flush" PROVE FlushOK(tab[u])'
    BY DEF FlushInv
  <2>1. tab[u].mode = "flush" /\ FlushOK(tab[u]) /\ (tab[u].step = "scan" \/ tab[u].at \in Queued)
    BY <1>1 DEF FlushInv, IInv, WorkInv
  <2> QED BY <2>1, FlushKeeps
<1> QED BY <1>2, <1>3

-----------------------------------------------------------------------------
(* The steps, one by one.                                                  *)

LEMMA RestKeeps ==
  ASSUME IInv, RestInv, \A u \in Tabs : \/ tab'[u].at = tab[u].at /\ tab'[u].mode = tab[u].mode
                                  \/ tab'[u].at = 0
                                  \/ tab'[u].mode \in {"submit", "flush"}
  PROVE  RestInv'
BY DEF RestInv

LEMMA LeaveRests ==
  ASSUME IInv, NEW t \in Tabs, Leave(t), RestInv
  PROVE  RestInv' /\ holder' = None
<1>1. tab' = [tab EXCEPT ![t] = Idle] /\ Idle.at = 0
  BY DEF Leave, Idle
<1> QED BY <1>1 DEF RestInv, IInv, TypeOK, Leave

(* The queue is free, rows change in place, leave by a person's hand, or   *)
(* stay as they are.                                                       *)
LEMMA FreeChain ==
  ASSUME IInv, CInv, IInv', UNCHANGED serverVars, holder' = None, RestInv', UNCHANGED <<saved, intent, wire>>,
         withdrawn \subseteq withdrawn',
         \A j \in Ids : queue'[j] # None =>
           /\ queue[j] # None /\ queue'[j].submitted = queue[j].submitted
           /\ queue[j].input.named => queue'[j].input.named,
         \A j \in Ids : queue[j] # None /\ queue'[j] = None => j \in withdrawn'
  PROVE  CInv'
<1> USE DEF CInv
<1>1. IntentInv' /\ PairInv'
  BY IntentSame, PairKeeps
<1>2. EndedInv' /\ StopEndsItsOwnEntry'
  BY EndedKeeps DEF serverVars
<1>3. FlushInv' /\ SubmitInv'
  BY FreeLock
<1> QED BY <1>1, <1>2, <1>3

LEMMA RemoveChain ==
  ASSUME IInv, CInv, IInv', UNCHANGED serverVars, holder = None, NEW rows \in SUBSET Ids, Remove(rows)
  PROVE  CInv'
<1>1. /\ UNCHANGED <<saved, intent, wire, holder, tab>> /\ withdrawn \subseteq withdrawn'
      /\ \A j \in Ids : queue'[j] # None => queue'[j] = queue[j]
      /\ \A j \in Ids : queue[j] # None /\ queue'[j] = None => j \in withdrawn'
  BY DEF Remove
<1>2. RestInv'
  BY <1>1 DEF CInv, RestInv
<1> QED BY <1>1, <1>2, FreeChain

(* The tab's turn under the lock, as far as the server's side goes.        *)
LEMMA TurnChain ==
  ASSUME IInv, CInv, IInv', UNCHANGED serverVars, UNCHANGED <<saved, intent, withdrawn>>,
         PairInv', FlushInv', SubmitInv', RestInv'
  PROVE  CInv'
<1>1. IntentInv'
  BY IntentSame DEF CInv
<1>2. EndedInv' /\ StopEndsItsOwnEntry'
  BY EndedKeeps DEF serverVars, CInv
<1> QED BY <1>1, <1>2 DEF CInv

LEMMA SaveChain ==
  ASSUME IInv, CInv, IInv', UNCHANGED serverVars, holder = None,
         NEW x \in Intents, NEW named \in BOOLEAN, Save(x, named),
         UNCHANGED <<wire, faults, chosen, withdrawn>>,
         \/ UNCHANGED <<holder, tab>>
         \/ \E t \in Tabs :
              /\ Queued = {}
              /\ holder' = t
              /\ tab' = [tab EXCEPT ![t] =
                   [Idle EXCEPT !.mode = "submit", !.step = "saved", !.at = saved + 1]]
  PROVE  CInv'
<1>1. PICK n : n = saved + 1
  OBVIOUS
<1>2. IntentInv' /\ PairInv'
  BY <1>1, SaveIntents, SavePair DEF CInv
<1>3. EndedInv' /\ StopEndsItsOwnEntry'
  BY SaveEnded DEF CInv, serverVars
<1>4. FlushInv' /\ SubmitInv'
  BY SaveSubmit
<1>5. RestInv'
  <2>1. CASE UNCHANGED <<holder, tab>>
    BY <2>1 DEF CInv, RestInv
  <2>2. ASSUME NEW t \in Tabs,
               tab' = [tab EXCEPT ![t] =
                   [Idle EXCEPT !.mode = "submit", !.step = "saved", !.at = saved + 1]]
        PROVE  RestInv'
    <3>1. tab'[t].mode = "submit" /\ \A u \in Tabs \ {t} : tab'[u] = tab[u]
      BY <2>2 DEF IInv, TypeOK, Idle
    <3> QED BY <3>1 DEF CInv, RestInv
  <2> QED BY <2>1, <2>2
<1> QED BY <1>2, <1>3, <1>4, <1>5 DEF CInv

(* A request is answered, whatever the server did with it.                 *)
LEMMA AnswerChain ==
  ASSUME IInv, CInv, IInv', NEW r \in wire, NEW a \in Answers, Answer(r, a),
         UNCHANGED <<saved, intent, queue, holder, withdrawn>>
  PROVE  IntentInv' /\ PairInv' /\ FlushInv' /\ SubmitInv' /\ RestInv'
<1>1. wire' \subseteq wire
  BY DEF Answer
<1>2. IntentInv' /\ PairInv'
  BY <1>1, IntentSame, PairKeeps DEF CInv
<1>3. \A u \in Tabs : tab[u] \in TabStates
                   /\ tab'[u] = IF Awaits(u, r) THEN [tab[u] EXCEPT !.answer = a] ELSE tab[u]
  BY DEF Answer, IInv, TypeOK
<1>4. \A u \in Tabs :
        /\ tab'[u].mode = tab[u].mode /\ tab'[u].at = tab[u].at /\ tab'[u].members = tab[u].members
        /\ tab'[u].due = tab[u].due /\ tab'[u].stranded = tab[u].stranded /\ tab'[u].step = tab[u].step
  <2> SUFFICES ASSUME NEW u \in Tabs
               PROVE  /\ tab'[u].mode = tab[u].mode /\ tab'[u].at = tab[u].at /\ tab'[u].members = tab[u].members
                      /\ tab'[u].due = tab[u].due /\ tab'[u].stranded = tab[u].stranded /\ tab'[u].step = tab[u].step
    OBVIOUS
  <2>1. tab[u] \in TabStates /\ (tab'[u] = tab[u] \/ tab'[u] = [tab[u] EXCEPT !.answer = a])
    BY <1>3
  <2> HIDE DEF IInv, CInv
  <2> QED BY <2>1 DEF TabStates
<1>5. FlushInv' /\ SubmitInv'
  BY <1>4, LockKeeps DEF CInv
<1>6. RestInv'
  BY <1>4 DEF CInv, RestInv
<1> QED BY <1>2, <1>5, <1>6

(* A stop that ends an entry ends its own start's, or its start was taken  *)
(* back.                                                                   *)
LEMMA StopChain ==
  ASSUME IInv, CInv, NEW r \in wire, ServeStop(r), UNCHANGED <<saved, intent, withdrawn>>
  PROVE  EndedInv' /\ StopEndsItsOwnEntry'
<1> DEFINE i == r.id
           e == StopTarget(r)
<1>1. i \in Ids /\ i \in 1..saved /\ intent[i].op = "stop" /\ Ids \subseteq Nat /\ saved \in Nat
  BY QueueAssumption DEF IInv, TypeOK, Requests, SavedInv, Ids, ServeStop
<1>2. ended' = [ended EXCEPT ![i] = e] /\ ended \in [Ids -> Ids \cup {Elsewhere, None}] /\ running' = None /\ e # None
  BY DEF ServeStop, IInv, TypeOK
<1>3. intent[i].paired => e \in Starts(i) \/ Starts(i) \subseteq withdrawn
  <2> SUFFICES ASSUME intent[i].paired, ~(Starts(i) \subseteq withdrawn)
               PROVE  e \in Starts(i)
    OBVIOUS
  <2>1. PICK s \in Starts(i) : s \notin withdrawn
    OBVIOUS
  <2>2. s \notin Queued
    BY <1>1, <2>1 DEF CInv, PairInv
  <2>3. r.input.named
    BY <1>1, <2>1, <2>2 DEF CInv, PairInv
  <2>4. running \in Ids /\ running = e /\ intent[running].op = "start" /\ Link(running) = Link(i)
    BY <1>2, <2>3 DEF StopTarget
  <2>5. running \in 1..saved
    BY <2>4 DEF CInv, EndedInv, Ids
  <2> HIDE DEF e, i
  <2> QED BY <2>4, <2>5 DEF Starts
<1> HIDE DEF i, e
<1>4. EndedInv'
  BY <1>1, <1>2, ServerAssumption DEF CInv, EndedInv
<1>5. StopEndsItsOwnEntry'
  <2>1. SUFFICES ASSUME NEW k \in Ids, ended'[k] # None, intent[k].paired
                 PROVE  ended'[k] \in Starts(k) \/ Starts(k) \subseteq withdrawn
    BY DEF StopEndsItsOwnEntry, Starts, Link
  <2>2. CASE k = i
    BY <1>2, <1>3, <2>1, <2>2
  <2>3. CASE k # i
    BY <1>2, <2>1, <2>3 DEF CInv, StopEndsItsOwnEntry
  <2> QED BY <2>2, <2>3
<1> QED BY <1>4, <1>5

LEMMA InitChain == Init => CInv
<1> SUFFICES ASSUME Init PROVE CInv
  OBVIOUS
<1> USE QueueAssumption, NoneAssumption, ServerAssumption DEF Init, QueueInit, Ids, Idle
<1>1. IntentInv /\ PairInv
  BY DEF IntentInv, PairInv
<1>2. FlushInv /\ SubmitInv /\ RestInv
  BY DEF FlushInv, SubmitInv, RestInv
<1>3. EndedInv /\ StopEndsItsOwnEntry
  BY DEF EndedInv, StopEndsItsOwnEntry
<1> QED BY <1>1, <1>2, <1>3 DEF CInv

LEMMA DeviceChain == IInv /\ CInv /\ IInv' /\ Device => CInv'
<1> SUFFICES ASSUME IInv, CInv, IInv', Device PROVE CInv'
  OBVIOUS
<1>s. UNCHANGED serverVars
  BY DEF Device
<1>r. RestInv /\ IntentInv /\ PairInv /\ FlushInv /\ SubmitInv
  BY DEF CInv
<1>t. /\ \A t \in Tabs : tab[t] \in TabStates
      /\ \A t \in Tabs : tab[t].mode \in {"submit", "flush"} =>
           /\ tab[t].step # "scan" => tab[t].at \in Queued
           /\ tab[t].answer # None => tab[t].step = "awaiting"
  BY DEF IInv, TypeOK, WorkInv
<1>1. ASSUME NEW x \in Intents, NEW named \in BOOLEAN, Enqueue(x, named) PROVE CInv'
  BY <1>s, <1>1, SaveChain DEF Enqueue
<1>2. ASSUME NEW t \in Tabs, NEW x \in Intents, NEW named \in BOOLEAN, Submit(t, x, named) PROVE CInv'
  BY <1>s, <1>2, SaveChain DEF Submit
<1>3. ASSUME NEW t \in Tabs, AskMembers(t, members) PROVE CInv'
  <2>1. /\ tab' = [tab EXCEPT ![t] = [Idle EXCEPT !.mode = "asked", !.members = members]] /\ tab[t].mode = "idle"
        /\ UNCHANGED <<saved, intent, queue, holder, wire, faults, chosen, withdrawn>>
    BY <1>3 DEF AskMembers
  <2>2. /\ tab'[t].at = 0 /\ tab'[t].mode = "asked"
        /\ \A u \in Tabs \ {t} : tab'[u] = tab[u]
    BY <2>1 DEF IInv, TypeOK, Idle
  <2>3. RestInv'
    BY <1>r, <2>2 DEF RestInv
  <2>4. FlushInv' /\ SubmitInv'
    BY <1>r, <2>1, <2>2, LockKeeps
  <2>5. PairInv'
    BY <1>r, <2>1, PairKeeps
  <2> QED BY <1>s, <2>1, <2>3, <2>4, <2>5, TurnChain
<1>4. ASSUME NEW t \in Tabs, NEW due \in SUBSET Ids, FlushBegin(t, due) PROVE CInv'
  <2>1. UNCHANGED <<saved, intent, queue, wire, withdrawn>> /\ tab[t].mode = "asked"
    BY <1>4 DEF FlushBegin
  <2>2. FlushInv' /\ SubmitInv'
    BY <1>r, <1>4, BeginFlush
  <2>3. RestInv'
    <3> DEFINE s == [[tab[t] EXCEPT !.mode = "flush", !.due = due] EXCEPT
                       !.stranded = {Link(i) : i \in {j \in Queued : Chained(j) /\ ~Wanted([tab[t] EXCEPT !.mode = "flush", !.due = due], j)}}]
    <3>1. tab' = [tab EXCEPT ![t] = s]
      BY <1>4 DEF FlushBegin
    <3>2. s.at = tab[t].at
      BY <1>t DEF TabStates
    <3> HIDE DEF s
    <3>3. tab'[t].at = 0 /\ \A u \in Tabs \ {t} : tab'[u] = tab[u]
      BY <1>r, <2>1, <3>1, <3>2 DEF RestInv, IInv, TypeOK
    <3> QED BY <1>r, <3>3 DEF RestInv
  <2>4. PairInv'
    BY <1>r, <2>1, PairKeeps
  <2> QED BY <1>s, <2>1, <2>2, <2>3, <2>4, TurnChain
<1>5. ASSUME NEW t \in Tabs, NEW i \in Ids, FreezeNext(t, i) PROVE CInv'
  <2>1. /\ tab[t].mode = "flush" /\ tab[t].step = "scan" /\ i \in Queued /\ NextToSend(tab[t], i)
        /\ queue' = [queue EXCEPT ![i] = Frozen(@)]
        /\ UNCHANGED <<saved, intent, holder, wire, withdrawn>>
    BY <1>5 DEF FreezeNext, Scanning
  <2>2. FlushInv' /\ SubmitInv'
    BY <1>r, <1>5, <2>1, FreezeFlush
  <2>3. intent[i].paired => \A s \in Starts(i) : s \notin Queued
    <3> SUFFICES ASSUME intent[i].paired, NEW s \in Starts(i), s \in Queued PROVE FALSE
      OBVIOUS
    <3>1. i \in 1..saved
      BY <1>r, <2>1, FlushFacts
    <3>2. s < i /\ s \in 1..saved /\ intent[s].op = "start" /\ Link(s) = Link(i)
      BY <1>r, <3>1, PairedStop
    <3>3. Chained(s) /\ Chained(i)
      BY <1>r, <3>2 DEF IntentInv, Link, Chained
    <3> QED BY <1>r, <2>1, <3>2, <3>3, ChainAhead
  <2>4. PairInv'
    BY <1>r, <2>1, <2>3, FreezePair
  <2>5. RestInv'
    <3>1. tab'[t].mode = "flush" /\ \A u \in Tabs \ {t} : tab'[u] = tab[u]
      BY <1>5, <1>t, <2>1 DEF FreezeNext, IInv, TypeOK, TabStates
    <3> QED BY <1>r, <3>1 DEF RestInv
  <2> QED BY <1>s, <2>1, <2>2, <2>4, <2>5, TurnChain
<1>6. ASSUME NEW t \in Tabs, FreezeSubmitted(t) PROVE CInv'
  <2>1. PICK i : i = tab[t].at
    OBVIOUS
  <2>2. /\ tab[t].mode = "submit" /\ i \in Queued /\ Queued = {i}
        /\ queue' = [queue EXCEPT ![i] = Frozen(@)]
        /\ UNCHANGED <<saved, intent, holder, wire, withdrawn>>
    BY <1>6, <1>r, <1>t, <2>1 DEF FreezeSubmitted, SubmitInv
  <2>3. FlushInv' /\ SubmitInv'
    BY <1>r, <1>6, FreezeSubmit
  <2>4. intent[i].paired => \A s \in Starts(i) : s \notin Queued
    <3>1. i \in 1..saved
      BY <2>2, QueueAssumption DEF IInv, SavedInv, TypeOK, Queued, Ids
    <3> QED BY <1>r, <2>2, <3>1, PairedStop
  <2>5. PairInv'
    BY <1>r, <2>2, <2>4, FreezePair
  <2>6. RestInv'
    <3>1. tab'[t].mode = "submit" /\ \A u \in Tabs \ {t} : tab'[u] = tab[u]
      BY <1>6, <1>t, <2>2 DEF FreezeSubmitted, IInv, TypeOK, TabStates
    <3> QED BY <1>r, <3>1 DEF RestInv
  <2> QED BY <1>s, <2>2, <2>3, <2>5, <2>6, TurnChain
<1>7. ASSUME NEW t \in Tabs, Send(t) PROVE CInv'
  <2>1. UNCHANGED <<saved, intent, queue, holder, withdrawn>> /\ tab[t].step = "frozen"
    BY <1>7 DEF Send
  <2>2. PairInv'
    BY <1>r, <1>7, SendPair
  <2>3. /\ tab'[t].mode = tab[t].mode /\ tab'[t].at = tab[t].at /\ tab'[t].members = tab[t].members
        /\ tab'[t].due = tab[t].due /\ tab'[t].stranded = tab[t].stranded /\ tab'[t].step = "awaiting"
        /\ \A u \in Tabs \ {t} : tab'[u] = tab[u]
    BY <1>7, <1>t DEF Send, IInv, TypeOK, TabStates
  <2>4. FlushInv' /\ SubmitInv'
    BY <1>r, <2>1, <2>3, LockKeeps
  <2>5. RestInv'
    BY <1>r, <2>3 DEF RestInv
  <2> QED BY <1>s, <2>1, <2>2, <2>4, <2>5, TurnChain
<1>hold. ASSUME NEW t \in Tabs, NEW h \in Holds, h # "none", tab[t].mode = "flush", tab[t].step # "scan",
                Hold(t, tab[t].at, h)
         PROVE  CInv'
  <2>1. PICK i : i = tab[t].at
    OBVIOUS
  <2>2. FlushInv' /\ SubmitInv'
    BY <1>r, <1>hold, <2>1, HoldFlush
  <2>3. i \in Queued /\ i \in Ids /\ queue[i] \in Rows /\ queue[i] # None
    BY <1>hold, <1>t, <2>1 DEF Queued, IInv, TypeOK
  <2>4. queue' = [queue EXCEPT ![i].hold = h] /\ UNCHANGED <<saved, intent, holder, wire, withdrawn>>
    BY <1>hold, <2>1 DEF Hold
  <2>5. \A j \in Ids : queue'[j] # None =>
           /\ queue[j] # None /\ queue'[j].submitted = queue[j].submitted
           /\ queue[j].input.named => queue'[j].input.named
    BY <2>3, <2>4 DEF IInv, TypeOK, Rows
  <2>6. \A j \in Ids : queue[j] # None /\ queue'[j] = None => FALSE
    <3>1. [queue[i] EXCEPT !.hold = h] \in Rows
      BY <2>3 DEF Rows
    <3> QED BY <2>3, <2>4, <3>1, NoneAssumption DEF IInv, TypeOK
  <2>7. PairInv'
    BY <1>r, <2>4, <2>5, <2>6, PairKeeps
  <2>8. RestInv'
    <3>1. tab'[t].at = tab[t].at /\ tab'[t].mode = tab[t].mode /\ \A u \in Tabs \ {t} : tab'[u] = tab[u]
      BY <1>hold, <1>t DEF Hold, IInv, TypeOK, TabStates
    <3> QED BY <1>r, <3>1 DEF RestInv
  <2> QED BY <1>s, <2>2, <2>4, <2>7, <2>8, TurnChain
<1>8. ASSUME NEW t \in Tabs, NEW h \in Holds, HoldUnsent(t, h) PROVE CInv'
  BY <1>8, <1>hold DEF HoldUnsent
<1>9. ASSUME NEW t \in Tabs, FlushApplied(t) PROVE CInv'
  <2>1. PICK i : i = tab[t].at
    OBVIOUS
  <2>2. FlushInv' /\ SubmitInv'
    BY <1>r, <1>9, AppliedFlush
  <2>3. tab[t].mode = "flush" /\ tab[t].step # "scan" /\ i \in Queued /\ i \in 1..saved /\ i \in Ids
    <3>1. tab[t].mode = "flush" /\ tab[t].step # "scan"
      BY <1>9, <1>t, NoneAssumption DEF FlushApplied, Answers
    <3> QED BY <1>r, <2>1, <3>1, FlushFacts
  <2>4. /\ queue' = [j \in Ids |->
             IF j = i THEN None
             ELSE IF j \in Queued /\ Resolves(i, j) THEN [queue[j] EXCEPT !.input.named = TRUE]
             ELSE queue[j]]
        /\ UNCHANGED <<saved, intent, holder, wire, withdrawn>>
    BY <1>9, <2>1 DEF FlushApplied
  <2>5. \A j \in Queued : /\ [queue[j] EXCEPT !.input.named = TRUE] # None
                          /\ [queue[j] EXCEPT !.input.named = TRUE].submitted = queue[j].submitted
                          /\ [queue[j] EXCEPT !.input.named = TRUE].input.named
    <3>1. \A j \in Queued : queue[j] \in Rows
      BY DEF Queued, IInv, TypeOK
    <3>2. \A j \in Queued : /\ [queue[j] EXCEPT !.input.named = TRUE] \in Rows
                            /\ [queue[j] EXCEPT !.input.named = TRUE].submitted = queue[j].submitted
                            /\ [queue[j] EXCEPT !.input.named = TRUE].input.named
      BY <3>1, ZenonT(30) DEF Rows, Inputs
    <3> QED BY <3>2, NoneAssumption
  <2>6. /\ \A j \in Ids : queue'[j] # None =>
             /\ queue[j] # None /\ queue'[j].submitted = queue[j].submitted
             /\ queue[j].input.named \/ Resolves(i, j) => queue'[j].input.named
        /\ \A j \in Ids \ {i} : queue[j] # None => queue'[j] # None
    BY <2>3, <2>4, <2>5 DEF Queued
  <2>7. PairInv'
    BY <1>r, <2>3, <2>4, <2>6, AppliedPair
  <2>8. RestInv'
    <3>1. tab'[t].mode = "flush" /\ \A u \in Tabs \ {t} : tab'[u] = tab[u]
      BY <1>9, <1>t, <2>3 DEF FlushApplied, IInv, TypeOK, TabStates
    <3> QED BY <1>r, <3>1 DEF RestInv
  <2> QED BY <1>s, <2>2, <2>4, <2>7, <2>8, TurnChain
<1>10. ASSUME NEW t \in Tabs, FlushHeld(t, members) PROVE CInv'
  <2>1. tab[t].mode = "flush" /\ tab[t].step # "scan"
    BY <1>10, <1>t, NoneAssumption DEF FlushHeld, Answers
  <2>2. Hold(t, tab[t].at, "server") \/ Hold(t, tab[t].at, "manual")
    BY <1>10 DEF FlushHeld
  <2> QED BY <1>hold, <2>1, <2>2 DEF Holds
<1>11. ASSUME NEW t \in Tabs, Leave(t), UNCHANGED <<saved, intent, queue, wire, withdrawn>> PROVE CInv'
  BY <1>s, <1>r, <1>11, LeaveRests, FreeChain
<1>12. ASSUME NEW t \in Tabs, SubmitDone(t) PROVE CInv'
  <2>1. PICK i : i = tab[t].at
    OBVIOUS
  <2>2. /\ tab[t].mode = "submit" /\ Leave(t) /\ UNCHANGED <<saved, intent, wire, withdrawn>>
        /\ queue' = [queue EXCEPT ![i] = IF tab[t].answer = "ok" THEN None ELSE queue[i]]
    BY <1>12, <2>1 DEF SubmitDone
  <2>3. Queued = {i} /\ i \in 1..saved /\ i \in Ids
    <3>1. Queued = {i}
      BY <1>r, <2>1, <2>2 DEF SubmitInv
    <3>2. i \in Ids /\ queue[i] # None
      BY <3>1 DEF Queued
    <3>3. i <= saved
      BY <3>2, QueueAssumption DEF IInv, SavedInv, TypeOK, Ids
    <3> QED BY <3>1, <3>2, <3>3 DEF Ids
  <2>4. RestInv' /\ holder' = None
    BY <1>r, <2>2, LeaveRests
  <2>5. FlushInv' /\ SubmitInv'
    BY <2>4, FreeLock
  <2>6. /\ \A j \in Ids : queue'[j] # None =>
             /\ queue[j] # None /\ queue'[j].submitted = queue[j].submitted
             /\ queue[j].input.named \/ Resolves(i, j) => queue'[j].input.named
        /\ \A j \in Ids \ {i} : queue[j] # None => queue'[j] # None
    <3>1. \A j \in Ids \ {i} : queue'[j] = None /\ queue[j] = None
      BY <2>2, <2>3 DEF Queued, IInv, TypeOK
    <3>2. queue'[i] = None \/ queue'[i] = queue[i]
      BY <2>2, <2>3 DEF IInv, TypeOK
    <3>3. ~Resolves(i, i)
      BY <2>3 DEF Resolves, Ids
    <3>4. \A j \in Ids : queue'[j] # None => j = i
      BY <3>1
    <3> QED BY <2>3, <3>1, <3>2, <3>3, <3>4
  <2>7. PairInv'
    BY <1>r, <2>2, <2>3, <2>6, AppliedPair
  <2> QED BY <1>s, <2>2, <2>4, <2>5, <2>7, TurnChain
<1>13. ASSUME NEW t \in Tabs, Abandon(t) \/ FlushStopped(t, members) \/ FlushEnd(t) PROVE CInv'
  BY <1>11, <1>13 DEF Abandon, FlushStopped, FlushEnd
<1>edit. ASSUME holder = None, UNCHANGED <<saved, intent, holder, tab, wire, withdrawn>>,
                \A j \in Ids : queue'[j] # None =>
                  /\ queue[j] # None /\ queue'[j].submitted = queue[j].submitted
                  /\ queue[j].input.named => queue'[j].input.named,
                \A j \in Ids : queue[j] # None /\ queue'[j] = None => FALSE
         PROVE  CInv'
  <2>1. RestInv'
    BY <1>r, <1>edit DEF RestInv
  <2> QED BY <1>s, <1>edit, <2>1, FreeChain
<1>14. ASSUME NEW i \in Ids, Amend(i) PROVE CInv'
  <2>1. /\ holder = None /\ i \in Queued /\ queue' = [queue EXCEPT ![i].input.edit = @ + 1]
        /\ UNCHANGED <<saved, intent, holder, tab, wire, withdrawn>>
    BY <1>14 DEF Amend
  <2>2. queue \in [Ids -> Rows \cup {None}] /\ queue[i] \in Rows /\ queue[i] # None /\ queue'[i] # None
    <3>1. queue' \in [Ids -> Rows \cup {None}]
      BY DEF IInv, TypeOK
    <3>2. queue \in [Ids -> Rows \cup {None}] /\ queue[i] \in Rows /\ queue[i] # None
      BY <2>1 DEF IInv, TypeOK, Queued
    <3>3. queue'[i] # None
      <4>1. queue[i].input.edit + 1 \in 0..MaxEdits
        BY <1>14, <3>2, QueueAssumption DEF Amend, Rows, Inputs
      <4>2. [queue[i] EXCEPT !.input.edit = queue[i].input.edit + 1] \in Rows
        BY <3>2, <4>1, RowEdit DEF Holds
      <4>3. queue'[i] = [queue[i] EXCEPT !.input.edit = queue[i].input.edit + 1]
        BY <2>1, <3>2 DEF Rows
      <4> QED BY <4>2, <4>3, NoneAssumption
    <3> QED BY <3>2, <3>3
  <2>3. queue'[i].submitted = queue[i].submitted /\ queue'[i].input.named = queue[i].input.named
        /\ \A j \in Ids \ {i} : queue'[j] = queue[j]
    BY <2>1, <2>2 DEF Rows, Inputs
  <2> QED BY <1>edit, <2>1, <2>2, <2>3
<1>15. ASSUME NEW i \in Ids, Cancel(i) \/ DiscardChain(i) PROVE CInv'
  <2>1. Chain(i) \in SUBSET Ids /\ holder = None /\ Remove(Chain(i))
    BY <1>15 DEF Chain, Queued, Cancel, DiscardChain
  <2> QED BY <1>s, <2>1, RemoveChain
<1>16. ASSUME NEW i \in Ids, NEW known \in SUBSET Workspaces, Choose(i, known) PROVE CInv'
  BY <1>16, <1>edit DEF Choose
<1>17. ASSUME NEW known \in SUBSET Workspaces, Discard(known) PROVE CInv'
  <2>1. {j \in chosen \cap Queued : MayDiscard(j, known)} \in SUBSET Ids
    BY DEF Queued
  <2> QED BY <1>s, <1>17, <2>1, RemoveChain DEF Discard
<1>18. ASSUME NEW i \in Ids, NEW known \in SUBSET Workspaces, NEW edited \in BOOLEAN, NEW named \in BOOLEAN,
              Retry(i, known, edited, named)
       PROVE CInv'
  <2> DEFINE row(j) == Repaired(queue[j], j = i /\ edited, j = i /\ named)
  <2>1. Chain(i) \subseteq Queued
    BY <1>18 DEF Retry, Chain
  <2>2. \A j \in Chain(i) : /\ row(j) # None /\ row(j).submitted = queue[j].submitted
                            /\ queue[j].input.named => row(j).input.named
    <3> SUFFICES ASSUME NEW j \in Chain(i)
                 PROVE  /\ row(j) # None /\ row(j).submitted = queue[j].submitted
                        /\ queue[j].input.named => row(j).input.named
      OBVIOUS
    <3>1. queue[j] \in Rows
      BY <2>1 DEF Queued, IInv, TypeOK
    <3>2. j = i /\ edited => queue[j].input.edit < MaxEdits
      BY <1>18 DEF Retry
    <3> QED BY <3>1, <3>2, RepairedRow
  <2>3. queue' = [j \in Ids |-> IF j \in Chain(i) THEN row(j) ELSE queue[j]]
        /\ holder = None /\ UNCHANGED <<saved, intent, holder, tab, wire, withdrawn>>
    BY <1>18 DEF Retry
  <2> HIDE DEF row
  <2>5. /\ \A j \in Ids : queue'[j] # None =>
             /\ queue[j] # None /\ queue'[j].submitted = queue[j].submitted
             /\ queue[j].input.named => queue'[j].input.named
        /\ \A j \in Ids : queue[j] # None /\ queue'[j] = None => FALSE
    BY <2>1, <2>2, <2>3 DEF Queued
  <2> QED BY <1>edit, <2>3, <2>5
<1> QED BY <1>1, <1>2, <1>3, <1>4, <1>5, <1>6, <1>7, <1>8, <1>9, <1>10, <1>12, <1>13, <1>14,
           <1>15, <1>16, <1>17, <1>18 DEF Device

LEMMA ServerChain == IInv /\ CInv /\ IInv' /\ Server => CInv'
<1> SUFFICES ASSUME IInv, CInv, IInv', NEW r \in wire, Serve(r),
                    UNCHANGED <<saved, intent, queue, holder, faults, chosen, withdrawn>>
             PROVE  CInv'
  BY DEF Server
<1>1. PICK a \in Answers : Answer(r, a)
  BY DEF Serve, ServeStranger, ServeAgain, ServeStart, ServeStop, ServeCreate, ServeRefused, ServeOldServer, Answers
<1>2. IntentInv' /\ PairInv' /\ FlushInv' /\ SubmitInv' /\ RestInv'
  BY <1>1, AnswerChain
<1>3. EndedInv' /\ StopEndsItsOwnEntry'
  <2>1. CASE UNCHANGED <<running, ended>>
    BY <2>1, EndedKeeps DEF CInv
  <2>2. CASE ServeStart(r)
    <3>1. r.id \in Ids /\ r.id <= saved /\ running' = r.id /\ UNCHANGED ended
      BY <2>2 DEF ServeStart, IInv, TypeOK, Requests, SavedInv
    <3>2. EndedInv'
      BY <3>1 DEF EndedInv, CInv
    <3>3. StopEndsItsOwnEntry'
      BY <3>1 DEF CInv, StopEndsItsOwnEntry, Starts, Link
    <3> QED BY <3>2, <3>3
  <2>3. CASE ServeStop(r)
    BY <2>3, StopChain
  <2> QED BY <2>1, <2>2, <2>3 DEF Serve, ServeStranger, ServeAgain, ServeCreate, ServeRefused, ServeOldServer, serverVars
<1> QED BY <1>2, <1>3 DEF CInv

LEMMA UnavailableChain == IInv /\ CInv /\ IInv' /\ ServerUnavailable => CInv'
<1> SUFFICES ASSUME IInv, CInv, IInv', NEW r \in wire, Answer(r, "later"),
                    UNCHANGED <<saved, intent, queue, holder, chosen, withdrawn>>, UNCHANGED serverVars
             PROVE  CInv'
  BY DEF ServerUnavailable
<1>1. IntentInv' /\ PairInv' /\ FlushInv' /\ SubmitInv' /\ RestInv'
  BY AnswerChain DEF Answers
<1>2. EndedInv' /\ StopEndsItsOwnEntry'
  BY EndedKeeps DEF CInv, serverVars
<1> QED BY <1>1, <1>2 DEF CInv

LEMMA WorldChain == IInv /\ CInv /\ IInv' /\ (World \/ UNCHANGED vars) => CInv'
<1> SUFFICES ASSUME IInv, CInv, IInv', World \/ UNCHANGED vars PROVE CInv'
  OBVIOUS
<1>1. UNCHANGED queueVars /\ UNCHANGED ended /\ running' \in {running, None, Elsewhere}
  BY DEF World, OtherDeviceStarts, OtherDeviceStops, MembershipChanges, vars, queueVars
<1>2. IntentInv' /\ PairInv'
  BY <1>1, IntentSame, PairKeeps DEF CInv, queueVars
<1>3. FlushInv' /\ SubmitInv'
  BY <1>1, LockKeeps DEF CInv, queueVars
<1>4. EndedInv' /\ StopEndsItsOwnEntry'
  BY <1>1, EndedKeeps DEF CInv, queueVars
<1>5. RestInv'
  BY <1>1 DEF CInv, RestInv, queueVars
<1> QED BY <1>2, <1>3, <1>4, <1>5 DEF CInv

LEMMA ChainInvariance == Spec => [](IInv /\ CInv)
<1>1. IInv /\ [Next]_vars => IInv'
  BY DeviceInv, ServerInv, UnavailableInv, WorldInv, StutterInv DEF Next
<1>2. IInv /\ CInv /\ [Next]_vars => CInv'
  BY <1>1, DeviceChain, ServerChain, UnavailableChain, WorldChain DEF Next
<1> QED BY InitInv, InitChain, <1>1, <1>2, PTL DEF Spec

-----------------------------------------------------------------------------
(* What is sent.                                                           *)

LEMMA SendFacts ==
  ASSUME IInv, CInv, NEW t \in Tabs, Send(t)
  PROVE  /\ tab[t].step = "frozen" /\ tab[t].at \in Queued
         /\ tab[t].mode = "submit" => Queued = {tab[t].at} /\ queue[tab[t].at].hold = "none"
         /\ tab[t].mode = "submit" \/ (tab[t].mode = "flush" /\ FlushOK(tab[t]))
<1>1. tab[t] \in TabStates /\ tab[t].step = "frozen"
  BY DEF Send, IInv, TypeOK
<1>2. tab[t].mode \in {"submit", "flush"} /\ tab[t].at \in Queued
  BY <1>1 DEF IInv, WorkInv, TabStates
<1> QED BY <1>1, <1>2 DEF CInv, SubmitInv, FlushInv

(* A stop saved behind its queued start (offline-queue.ts:242) never ends  *)
(* another entry, unless the person took the start back: the flush leaves  *)
(* the chain whole, and the applied start names its entry to its stop.     *)
THEOREM StopsEndTheirOwn == Spec => []StopEndsItsOwnEntry
BY ChainInvariance, PTL DEF CInv

(* A live submit sends only when nothing waits, and a flush sends a row    *)
(* only when every earlier row is held, in a workspace it was not told of, *)
(* or of a chain with such a row.                                          *)
THEOREM InOrder == Spec => SentInOrder
<1> DEFINE A == \A t \in Tabs : Send(t) =>
                  \A i \in Queued : i < tab[t].at => tab[t].mode = "flush" /\ MayBeLeft(tab[t], i)
<1>1. IInv /\ CInv /\ [Next]_vars => [A]_vars
  <2> SUFFICES ASSUME IInv, CInv, NEW t \in Tabs, Send(t), NEW i \in Queued, i < tab[t].at
               PROVE  tab[t].mode = "flush" /\ MayBeLeft(tab[t], i)
    OBVIOUS
  <2>1. i \in Nat
    BY DEF Queued, Ids
  <2>2. tab[t].mode = "flush" /\ FlushOK(tab[t])
    BY <2>1, SendFacts
  <2>3. (Chained(i) => Link(i) \in tab[t].stranded) /\ (Chained(i) \/ Waits(tab[t], i))
    BY <2>2 DEF FlushOK, ChainLeft
  <2>4. CASE Chained(i)
    <3>1. PICK k \in Queued : Chained(k) /\ Link(k) = Link(i) /\ Waits(tab[t], k)
      BY <2>2, <2>3, <2>4 DEF FlushOK
    <3>2. k \in Chain(i) /\ intent[k].ws = intent[i].ws
      BY <2>4, <3>1 DEF Chain, Link
    <3> QED BY <2>2, <2>4, <3>1, <3>2 DEF MayBeLeft, Waits
  <2> QED BY <2>2, <2>3, <2>4 DEF MayBeLeft, Waits
<1> QED BY <1>1, ChainInvariance, PTL DEF Spec, SentInOrder

(* No row of a chain that waits for a person is sent before the person     *)
(* retries it.                                                             *)
THEOREM HeldStay == Spec => HeldChainNotSent
<1> DEFINE A == \A t \in Tabs : Send(t) =>
                  \A j \in Chain(tab[t].at) : queue[j].hold # "manual"
<1>1. IInv /\ CInv /\ [Next]_vars => [A]_vars
  <2> SUFFICES ASSUME IInv, CInv, NEW t \in Tabs, Send(t), NEW j \in Chain(tab[t].at)
               PROVE  queue[j].hold # "manual"
    OBVIOUS
  <2>1. j \in Queued /\ tab[t].at \in Queued /\ tab[t].step = "frozen"
    BY SendFacts DEF Chain
  <2>2. CASE tab[t].mode = "submit"
    BY <2>1, <2>2, SendFacts
  <2>3. CASE tab[t].mode = "flush"
    <3>1. FlushOK(tab[t]) /\ ~PassedOver(tab[t], tab[t].at)
      BY <2>1, <2>3, SendFacts DEF FlushOK
    <3>2. j = tab[t].at \/ (Chained(j) /\ Chained(tab[t].at) /\ Link(j) = Link(tab[t].at))
      BY DEF Chain
    <3>3. Wanted(tab[t], j)
      BY <2>1, <3>1, <3>2 DEF FlushOK, PassedOver, ChainLeft
    <3> QED BY <3>3 DEF Wanted
  <2> QED BY <2>2, <2>3, SendFacts
<1> QED BY <1>1, ChainInvariance, PTL DEF Spec, HeldChainNotSent

-----------------------------------------------------------------------------
(* The refinement of EntryLedger.                                          *)

LEMMA EffectsAre ==
  ASSUME IInv
  PROVE  \A i \in Ids : i \in Ledger!Effects <=> receipt[i] # None
BY DEF IInv, TypeOK, LedgerInv, Ledger!Effects

LEMMA SavedAre ==
  ASSUME IInv, IntentInv
  PROVE  Ledger!Saved = 1..saved
<1>1. 1..saved \subseteq Ids /\ saved \in Nat /\ Ids \subseteq Nat /\ \A i \in Ids : i <= saved <=> i \in 1..saved
  BY QueueAssumption DEF IInv, TypeOK, Ids
<1>2. \A i \in 1..saved : i \notin Follows(i)
  <2> SUFFICES ASSUME NEW i \in 1..saved, i \in Follows(i) PROVE FALSE
    OBVIOUS
  <2>1. i \in Starts(i) /\ intent[i].paired
    BY DEF Follows
  <2> QED BY <2>1, <1>1, PairedStop
<1>3. \A i \in Ids : ~(i <= saved) => i \in Follows(i)
  BY DEF Follows
<1> QED BY <1>1, <1>2, <1>3 DEF Ledger!Saved

LEMMA LedgerInit == Init => Ledger!Init
<1> SUFFICES ASSUME Init PROVE Ledger!Init
  OBVIOUS
<1>1. \A i \in Ids : Follows(i) = Ids
  BY DEF Follows, Init, QueueInit, Ids
<1>2. Queued = {}
  BY DEF Queued, Init, QueueInit
<1> QED BY <1>1, <1>2 DEF Ledger!Init, Init, QueueInit

(* Nothing the ledger sees changes.                                        *)
LEMMA LedgerStutter ==
  ASSUME UNCHANGED <<saved, intent, withdrawn, ledger>>, \A j \in Ids : queue'[j] = None <=> queue[j] = None
  PROVE  UNCHANGED Ledger!ledgerVars
<1>1. Queued' = Queued
  BY DEF Queued
<1>2. \A i \in Ids : Follows(i)' = Follows(i)
  BY DEF Follows, Starts, Link
<1>3. [i \in Ids |-> Follows(i)]' = [i \in Ids |-> Follows(i)]
  BY <1>2
<1> QED BY <1>1, <1>3 DEF Ledger!ledgerVars

LEMMA LedgerSave ==
  ASSUME IInv, CInv, IInv', NEW x \in Intents, NEW named \in BOOLEAN, Save(x, named), UNCHANGED <<withdrawn, ledger>>
  PROVE  Ledger!Next
<1>1. PICK n : n = saved + 1
  OBVIOUS
<1>2. /\ saved' = saved + 1 /\ intent'[n] = x
      /\ \A i \in 1..saved : intent'[i] = intent[i]
      /\ \A i \in 1..saved : intent[i].op = "stop" => Starts(i)' = Starts(i)
      /\ x.op = "stop" => Starts(n)' \subseteq 1..saved
      /\ IntentInv'
  BY <1>1, SaveIntents DEF CInv
<1>3. n \in Ids /\ saved \in Nat /\ Ids \subseteq Nat
  BY <1>1, QueueAssumption DEF IInv, TypeOK, Ids, Save
<1>4. Ledger!Saved = 1..saved
  BY SavedAre DEF CInv
<1>5. \A i \in Ids \ {n} : Follows(i)' = Follows(i)
  <2> SUFFICES ASSUME NEW i \in Ids, i # n PROVE Follows(i)' = Follows(i)
    OBVIOUS
  <2>1. CASE i <= saved
    <3>1. i \in 1..saved /\ i <= saved'
      BY <1>2, <1>3, <2>1 DEF Ids
    <3>2. intent'[i] = intent[i]
      BY <1>2, <3>1
    <3>3. CASE intent[i].paired
      <4>1. Starts(i)' = Starts(i)
        BY <1>2, <3>1, <3>3, PairedStop DEF CInv
      <4> QED BY <2>1, <3>1, <3>2, <4>1 DEF Follows
    <3>4. CASE ~intent[i].paired
      BY <2>1, <3>1, <3>2, <3>4 DEF Follows
    <3> QED BY <3>3, <3>4
  <2>2. CASE ~(i <= saved)
    <3>1. ~(i <= saved')
      BY <1>1, <1>2, <1>3, <2>2
    <3> QED BY <2>2, <3>1 DEF Follows
  <2> QED BY <2>1, <2>2
<1>6. Follows(n)' \in SUBSET Ledger!Saved
  <2> SUFFICES ASSUME NEW s \in Follows(n)' PROVE s \in 1..saved
    BY <1>4
  <2>1. n <= saved'
    BY <1>1, <1>2, <1>3
  <2>2. intent'[n].paired /\ s \in Starts(n)'
    BY <2>1 DEF Follows
  <2>3. x.op = "stop"
    BY <1>1, <1>2, <1>3, <2>2 DEF IntentInv
  <2> QED BY <1>2, <2>2, <2>3
<1>7. [i \in Ids |-> Follows(i)]' = [[i \in Ids |-> Follows(i)] EXCEPT ![n] = Follows(n)']
  BY <1>3, <1>5
<1>8. Queued' = Queued \cup {n}
  <2>1. FreshRow(named) \in Rows
    BY QueueAssumption DEF FreshRow, Rows, Inputs, Holds
  <2> QED BY <1>1, <1>3, <2>1, NoneAssumption DEF Queued, Save, IInv, TypeOK
<1>9. n \notin Ledger!Saved
  BY <1>1, <1>3, <1>4
<1>10. \E before \in SUBSET Ledger!Saved : [i \in Ids |-> Follows(i)]' = [[i \in Ids |-> Follows(i)] EXCEPT ![n] = before]
  BY <1>6, <1>7
<1>11. Ledger!Save(n)
  BY <1>8, <1>9, <1>10 DEF Ledger!Save
<1> QED BY <1>3, <1>11 DEF Ledger!Next

LEMMA LedgerWithdraw ==
  ASSUME NEW rows \in SUBSET Queued, Remove(rows), UNCHANGED ledger
  PROVE  Ledger!Next
<1>1. Queued' = Queued \ rows /\ rows \in SUBSET Ids
  BY DEF Remove, Queued
<1>2. \A i \in Ids : Follows(i)' = Follows(i)
  BY DEF Remove, Follows, Starts, Link
<1>3. [i \in Ids |-> Follows(i)]' = [i \in Ids |-> Follows(i)]
  BY <1>2
<1>4. Ledger!Withdraw(rows)
  BY <1>1, <1>3 DEF Ledger!Withdraw, Remove
<1> QED BY <1>1, <1>4 DEF Ledger!Next

LEMMA LedgerSettle ==
  ASSUME IInv, NEW i \in Queued, receipt[i] # None, UNCHANGED <<saved, intent, withdrawn, ledger>>,
         queue'[i] = None, \A j \in Ids \ {i} : queue'[j] = None <=> queue[j] = None
  PROVE  Ledger!Next
<1>1. Queued' = Queued \ {i} /\ i \in Ids
  BY DEF Queued
<1>2. \A j \in Ids : Follows(j)' = Follows(j)
  BY DEF Follows, Starts, Link
<1>3. [j \in Ids |-> Follows(j)]' = [j \in Ids |-> Follows(j)]
  BY <1>2
<1>4. i \in Ledger!Effects
  BY <1>1, EffectsAre
<1>5. Ledger!Settle(i)
  BY <1>1, <1>3, <1>4 DEF Ledger!Settle
<1> QED BY <1>1, <1>5 DEF Ledger!Next

LEMMA LedgerEffect ==
  ASSUME IInv, CInv, NEW r \in wire, Fresh(r), Commit(r), UNCHANGED <<saved, intent, queue, withdrawn>>
  PROVE  Ledger!Next
<1> DEFINE i == r.id
<1>1. i \in Ids /\ i \in 1..saved /\ receipt[i] = None
  BY DEF IInv, TypeOK, Requests, SavedInv, Ids, Fresh
<1>2. ledger' = Append(ledger, i)
  BY DEF Commit
<1>3. i \in Ledger!Saved /\ i \notin Ledger!Effects
  BY <1>1, SavedAre, EffectsAre DEF CInv
<1> HIDE DEF i
<1>4. Follows(i) \subseteq Ledger!Effects \cup withdrawn
  <2> SUFFICES ASSUME NEW s \in Follows(i) PROVE s \in Ledger!Effects \cup withdrawn
    OBVIOUS
  <2>1. intent[i].paired /\ s \in Starts(i) /\ s \in 1..saved
    BY <1>1 DEF Follows, Starts, Ids
  <2>2. s \notin Queued
    BY <1>1, <2>1 DEF CInv, PairInv, i
  <2>3. s \in Ids /\ queue[s] = None
    BY <2>1, <2>2, SavedIntents DEF Queued
  <2>4. receipt[s] # None \/ s \in withdrawn
    BY <2>1, <2>3 DEF IInv, NothingLost
  <2> QED BY <2>3, <2>4, EffectsAre
<1>5. \A j \in Ids : Follows(j)' = Follows(j)
  BY DEF Follows, Starts, Link
<1>6. [j \in Ids |-> Follows(j)]' = [j \in Ids |-> Follows(j)]
  BY <1>5
<1>7. Queued' = Queued
  BY DEF Queued
<1>8. [j \in Ids |-> Follows(j)][i] = Follows(i)
  BY <1>1
<1>9. Ledger!TakeEffect(i)
  BY <1>2, <1>3, <1>4, <1>6, <1>7, <1>8 DEF Ledger!TakeEffect
<1> QED BY <1>1, <1>9 DEF Ledger!Next

LEMMA LedgerStep == IInv /\ CInv /\ IInv' /\ [Next]_vars => [Ledger!Next]_(Ledger!ledgerVars)
<1> SUFFICES ASSUME IInv, CInv, IInv', [Next]_vars PROVE [Ledger!Next]_(Ledger!ledgerVars)
  OBVIOUS
<1>q. queue \in [Ids -> Rows \cup {None}] /\ queue' \in [Ids -> Rows \cup {None}] /\ \A j \in Queued : j \in Ids /\ queue[j] \in Rows
  BY DEF IInv, TypeOK, Queued
<1>w. \A t \in Tabs : /\ tab[t].step # "scan" => tab[t].at \in Queued
                      /\ tab[t].answer # None => tab[t].at \in Queued
                      /\ tab[t].answer = "ok" => receipt[tab[t].at] # None
  BY DEF IInv, WorkInv
<1>same. ASSUME UNCHANGED <<saved, intent, withdrawn, ledger>>, \A j \in Ids : queue'[j] = None <=> queue[j] = None
         PROVE  [Ledger!Next]_(Ledger!ledgerVars)
  BY <1>same, LedgerStutter
<1>rows. ASSUME NEW i \in Queued, NEW row \in Rows, queue' = [queue EXCEPT ![i] = row]
         PROVE  \A j \in Ids : queue'[j] = None <=> queue[j] = None
  BY <1>q, <1>rows, NoneAssumption DEF Queued
<1>1. CASE Device
  <2>s. UNCHANGED ledger
    BY <1>1 DEF Device, serverVars
  <2>1. ASSUME NEW x \in Intents, NEW named \in BOOLEAN, Save(x, named), UNCHANGED withdrawn
        PROVE  [Ledger!Next]_(Ledger!ledgerVars)
    BY <2>s, <2>1, LedgerSave
  <2>2. ASSUME UNCHANGED <<saved, intent, queue, withdrawn>> PROVE [Ledger!Next]_(Ledger!ledgerVars)
    BY <1>same, <2>s, <2>2
  <2>3. ASSUME NEW i \in Queued, queue' = [queue EXCEPT ![i] = Frozen(@)], UNCHANGED <<saved, intent, withdrawn>>
        PROVE  [Ledger!Next]_(Ledger!ledgerVars)
    <3>1. Frozen(queue[i]) \in Rows /\ queue' = [queue EXCEPT ![i] = Frozen(queue[i])]
      BY <1>q, <2>3 DEF Frozen, Rows
    <3> QED BY <1>same, <1>rows, <2>s, <2>3, <3>1
  <2>4. ASSUME NEW t \in Tabs, tab[t].at \in Queued, NEW h \in Holds, Hold(t, tab[t].at, h)
        PROVE  [Ledger!Next]_(Ledger!ledgerVars)
    <3>1. PICK i \in Queued : i = tab[t].at
      BY <2>4
    <3>2. [queue[i] EXCEPT !.hold = h] \in Rows /\ queue' = [queue EXCEPT ![i] = [queue[i] EXCEPT !.hold = h]]
          /\ UNCHANGED <<saved, intent, withdrawn>>
      BY <1>q, <2>4, <3>1 DEF Hold, Rows
    <3> QED BY <1>same, <1>rows, <2>s, <3>2
  <2>5. ASSUME NEW t \in Tabs, FlushApplied(t) PROVE [Ledger!Next]_(Ledger!ledgerVars)
    <3>1. PICK i \in Queued : i = tab[t].at /\ receipt[i] # None
      BY <1>w, <2>5, NoneAssumption DEF FlushApplied, Answers
    <3>2. /\ queue' = [j \in Ids |->
               IF j = i THEN None
               ELSE IF j \in Queued /\ Resolves(i, j) THEN [queue[j] EXCEPT !.input.named = TRUE]
               ELSE queue[j]]
          /\ UNCHANGED <<saved, intent, withdrawn>>
      BY <2>5, <3>1 DEF FlushApplied
    <3>3. \A j \in Queued : [queue[j] EXCEPT !.input.named = TRUE] # None
      <4>1. \A j \in Queued : [queue[j] EXCEPT !.input.named = TRUE] \in Rows
        BY <1>q, ZenonT(30) DEF Rows, Inputs
      <4> QED BY <4>1, NoneAssumption
    <3>4. queue'[i] = None /\ \A j \in Ids \ {i} : queue'[j] = None <=> queue[j] = None
      BY <1>q, <3>1, <3>2, <3>3 DEF Queued
    <3> QED BY <2>s, <3>1, <3>2, <3>4, LedgerSettle
  <2>6. ASSUME NEW t \in Tabs, SubmitDone(t) PROVE [Ledger!Next]_(Ledger!ledgerVars)
    <3>1. PICK i \in Queued : i = tab[t].at /\ (tab[t].answer = "ok" => receipt[i] # None)
      BY <1>w, <2>6 DEF SubmitDone
    <3>2. /\ queue' = [queue EXCEPT ![i] = IF tab[t].answer = "ok" THEN None ELSE queue[i]]
          /\ UNCHANGED <<saved, intent, withdrawn>>
      BY <2>6, <3>1 DEF SubmitDone
    <3>3. CASE tab[t].answer = "ok"
      <4>1. queue'[i] = None /\ \A j \in Ids \ {i} : queue'[j] = queue[j]
        BY <1>q, <3>2, <3>3
      <4> QED BY <2>s, <3>1, <3>2, <3>3, <4>1, LedgerSettle
    <3>4. CASE tab[t].answer # "ok"
      <4>1. \A j \in Ids : queue'[j] = queue[j]
        BY <1>q, <3>2, <3>4
      <4> QED BY <1>same, <2>s, <3>2, <4>1
    <3> QED BY <3>3, <3>4
  <2>7. ASSUME NEW i \in Ids, Amend(i) PROVE [Ledger!Next]_(Ledger!ledgerVars)
    <3>1. i \in Queued /\ queue' = [queue EXCEPT ![i].input.edit = @ + 1] /\ UNCHANGED <<saved, intent, withdrawn>>
      BY <2>7 DEF Amend
    <3>2. queue[i].input.edit + 1 \in 0..MaxEdits
      BY <1>q, <2>7, <3>1, QueueAssumption DEF Amend, Rows, Inputs
    <3>3. [queue[i] EXCEPT !.input.edit = queue[i].input.edit + 1] \in Rows
      BY <1>q, <3>1, <3>2, RowEdit DEF Holds
    <3>4. queue' = [queue EXCEPT ![i] = [queue[i] EXCEPT !.input.edit = queue[i].input.edit + 1]]
      BY <1>q, <3>1 DEF Rows
    <3> QED BY <1>same, <1>rows, <2>s, <3>1, <3>3, <3>4
  <2>8. ASSUME NEW rows \in SUBSET Queued, Remove(rows) PROVE [Ledger!Next]_(Ledger!ledgerVars)
    BY <2>s, <2>8, LedgerWithdraw
  <2>9. ASSUME NEW i \in Ids, NEW known \in SUBSET Workspaces, NEW edited \in BOOLEAN, NEW named \in BOOLEAN,
               Retry(i, known, edited, named)
        PROVE  [Ledger!Next]_(Ledger!ledgerVars)
    <3>1. Chain(i) \subseteq Queued /\ UNCHANGED <<saved, intent, withdrawn>>
          /\ \A j \in Ids : j \notin Chain(i) => queue'[j] = queue[j]
      BY <2>9 DEF Retry, Chain
    <3>2. \A j \in Chain(i) : queue'[j] # None
      <4> SUFFICES ASSUME NEW j \in Chain(i) PROVE queue'[j] # None
        OBVIOUS
      <4>1. queue[j] \in Rows /\ j \in Ids
        BY <1>q, <3>1
      <4>2. j = i /\ edited => queue[j].input.edit < MaxEdits
        BY <2>9 DEF Retry
      <4>3. queue'[j] = Repaired(queue[j], j = i /\ edited, j = i /\ named)
        BY <2>9, <4>1 DEF Retry
      <4> QED BY <4>1, <4>2, <4>3, RepairedRow
    <3>3. \A j \in Ids : queue'[j] = None <=> queue[j] = None
      BY <3>1, <3>2 DEF Queued
    <3> QED BY <1>same, <2>s, <3>1, <3>3
  <2>10. ASSUME NEW i \in Ids, Cancel(i) \/ DiscardChain(i) PROVE [Ledger!Next]_(Ledger!ledgerVars)
    <3>1. Chain(i) \in SUBSET Queued /\ Remove(Chain(i))
      BY <2>10 DEF Cancel, DiscardChain, Chain
    <3> QED BY <2>8, <3>1
  <2>11. ASSUME NEW known \in SUBSET Workspaces, Discard(known) PROVE [Ledger!Next]_(Ledger!ledgerVars)
    BY <2>8, <2>11 DEF Discard
  <2>12. ASSUME NEW t \in Tabs, FlushHeld(t, members) \/ (\E h \in Holds : HoldUnsent(t, h))
         PROVE  [Ledger!Next]_(Ledger!ledgerVars)
    <3>1. tab[t].at \in Queued
      BY <1>w, <2>12, NoneAssumption DEF FlushHeld, HoldUnsent, Answers
    <3>2. \E h \in Holds : Hold(t, tab[t].at, h)
      BY <2>12 DEF FlushHeld, HoldUnsent, Holds
    <3> QED BY <2>4, <3>1, <3>2
  <2>13. ASSUME NEW t \in Tabs, FreezeSubmitted(t) \/ (\E i \in Ids : FreezeNext(t, i))
         PROVE  [Ledger!Next]_(Ledger!ledgerVars)
    <3>1. CASE FreezeSubmitted(t)
      <4>1. PICK i \in Queued : i = tab[t].at
        BY <1>w, <3>1 DEF FreezeSubmitted
      <4> QED BY <2>3, <3>1, <4>1 DEF FreezeSubmitted
    <3>2. ASSUME NEW i \in Ids, FreezeNext(t, i) PROVE [Ledger!Next]_(Ledger!ledgerVars)
      BY <2>3, <3>2 DEF FreezeNext
    <3> QED BY <2>13, <3>1, <3>2
  <2>14. ASSUME \/ \E t \in Tabs : \/ AskMembers(t, members) \/ Send(t) \/ FlushStopped(t, members)
                                   \/ FlushEnd(t) \/ Abandon(t)
                                   \/ \E due \in SUBSET Ids : FlushBegin(t, due)
                \/ \E i \in Ids, known \in SUBSET Workspaces : Choose(i, known)
         PROVE  [Ledger!Next]_(Ledger!ledgerVars)
    BY <2>2, <2>14 DEF AskMembers, Send, FlushStopped, FlushEnd, Abandon, FlushBegin, Choose
  <2>15. ASSUME NEW x \in Intents, NEW named \in BOOLEAN, Enqueue(x, named) \/ \E t \in Tabs : Submit(t, x, named)
         PROVE  [Ledger!Next]_(Ledger!ledgerVars)
    BY <2>1, <2>15 DEF Enqueue, Submit
  <2> QED BY <1>1, <2>5, <2>6, <2>7, <2>9, <2>10, <2>11, <2>12, <2>13, <2>14, <2>15 DEF Device
<1>2. CASE Server
  <2> PICK r \in wire : Serve(r)
    BY <1>2 DEF Server
  <2>1. UNCHANGED <<saved, intent, queue, withdrawn>>
    BY <1>2 DEF Server
  <2>2. CASE ServeStart(r) \/ ServeStop(r) \/ ServeCreate(r)
    BY <2>1, <2>2, LedgerEffect DEF ServeStart, ServeStop, ServeCreate
  <2>3. CASE UNCHANGED serverVars
    BY <1>same, <2>1, <2>3 DEF serverVars
  <2> QED BY <2>2, <2>3 DEF Serve, ServeStranger, ServeAgain, ServeRefused, ServeOldServer
<1>3. CASE ServerUnavailable \/ World \/ UNCHANGED vars
  <2>1. UNCHANGED <<saved, intent, queue, withdrawn, ledger>>
    BY <1>3 DEF ServerUnavailable, World, OtherDeviceStarts, OtherDeviceStops, MembershipChanges, vars, serverVars, queueVars
  <2> QED BY <1>same, <2>1
<1> QED BY <1>1, <1>2, <1>3 DEF Next

(* The device's queue with the server's receipts implements EntryLedger: a *)
(* saved write is owed until it has taken effect or is withdrawn, takes    *)
(* effect once, and after the start it was saved behind.                   *)
THEOREM Refines == Spec => KeepsLedger
<1>1. IInv /\ CInv /\ IInv' /\ [Next]_vars => [Ledger!Next]_(Ledger!ledgerVars)
  BY LedgerStep
<1> QED BY LedgerInit, <1>1, ChainInvariance, PTL DEF Spec, KeepsLedger, Ledger!Spec
=============================================================================
