------------------------ MODULE DurableEntries_proofs ------------------------
(***************************************************************************)
(* The durable queue keeps every write and applies it once, whatever the   *)
(* number of tabs, rows, edits and faults.                                 *)
(***************************************************************************)
EXTENDS DurableEntries, TLAPS

(* A tab that submits or flushes is the one that owns the lock.            *)
LockInv == \A t \in Tabs : tab[t].mode \in {"submit", "flush"} <=> holder = t

(* The row such a tab works on is queued; it is frozen before it is sent;  *)
(* and it is answered "ok" only once the server has its receipt.           *)
WorkInv ==
  \A t \in Tabs :
    /\ tab[t].mode \in {"idle", "asked"} => tab[t].step = "scan"
    /\ tab[t].mode = "submit" => tab[t].step # "scan"
    /\ tab[t].step # "scan" => tab[t].at \in Queued
    /\ tab[t].step \in {"frozen", "awaiting"} => queue[tab[t].at].submitted # None
    /\ tab[t].answer # None => tab[t].step = "awaiting"
    /\ tab[t].answer = "ok" => receipt[tab[t].at] # None

(* Nothing is known of a row before it is saved.                           *)
SavedInv ==
  /\ \A i \in 1..saved : intent[i] # None
  /\ \A i \in Ids : i > saved => queue[i] = None /\ receipt[i] = None
  /\ \A r \in wire : r.id <= saved

(* A receipt for a row that is still queued was given for what it sent.    *)
ReceiptInv ==
  \A i \in Queued : receipt[i] # None => queue[i].submitted = receipt[i]

(* A receipt and its effect were committed together.                       *)
LedgerInv ==
  \A i \in Ids : receipt[i] # None <=> \E n \in 1..Len(ledger) : ledger[n] = i

IInv ==
  /\ TypeOK
  /\ LockInv
  /\ WorkInv
  /\ SavedInv
  /\ ReceiptInv
  /\ OneInput
  /\ LedgerInv
  /\ AppliedOnce
  /\ NothingLost

-----------------------------------------------------------------------------

LEMMA IdleType == Idle \in TabStates
BY QueueAssumption, NoneAssumption DEF Idle, TabStates, Ids

LEMMA TabField ==
  ASSUME NEW s \in TabStates
  PROVE  /\ \A x \in {"idle", "asked", "submit", "flush"} : [s EXCEPT !.mode = x] \in TabStates
         /\ \A x \in {"scan", "saved", "frozen", "awaiting"} : [s EXCEPT !.step = x] \in TabStates
         /\ \A x \in 0..MaxRows : [s EXCEPT !.at = x] \in TabStates
         /\ \A x \in SUBSET Workspaces : [s EXCEPT !.members = x] \in TabStates
         /\ \A x \in SUBSET Ids : [s EXCEPT !.due = x] \in TabStates
         /\ \A x \in SUBSET (Workspaces \X Chains) : [s EXCEPT !.stranded = x] \in TabStates
         /\ \A x \in 0..MaxFaults : [s EXCEPT !.attempt = x] \in TabStates
         /\ \A x \in Answers \cup {None} : [s EXCEPT !.answer = x] \in TabStates
BY DEF TabStates

(* A tab that sends, or goes on after an answer.                           *)
LEMMA TabTurn ==
  ASSUME NEW s \in TabStates, NEW x \in {"scan", "awaiting"}, NEW n \in 0..MaxFaults
  PROVE  [s EXCEPT !.step = x, !.attempt = n, !.answer = None] \in TabStates
<1> DEFINE z == [s EXCEPT !.step = x, !.attempt = n]
<1>1. z \in TabStates
  BY TabField
<1>2. [s EXCEPT !.step = x, !.attempt = n, !.answer = None] = [z EXCEPT !.answer = None]
  OBVIOUS
<1> HIDE DEF z
<1> QED BY <1>1, <1>2, TabField

LEMMA TabSubmits ==
  ASSUME NEW i \in Ids
  PROVE  [Idle EXCEPT !.mode = "submit", !.step = "saved", !.at = i] \in TabStates
<1> DEFINE z == [Idle EXCEPT !.mode = "submit", !.step = "saved"]
<1>1. z \in TabStates
  BY IdleType, TabField
<1>2. [Idle EXCEPT !.mode = "submit", !.step = "saved", !.at = i] = [z EXCEPT !.at = i]
  OBVIOUS
<1>3. i \in 0..MaxRows
  BY QueueAssumption DEF Ids
<1> HIDE DEF z
<1> QED BY <1>1, <1>2, <1>3, TabField

LEMMA RowEdit ==
  ASSUME NEW row \in Rows, NEW e \in 0..MaxEdits, NEW h \in Holds
  PROVE  /\ [row EXCEPT !.input.edit = e] \in Rows
         /\ [row EXCEPT !.input.edit = e].submitted = row.submitted
BY DEF Rows, Inputs

LEMMA RepairedRow ==
  ASSUME NEW row \in Rows, NEW edited \in BOOLEAN, NEW named \in BOOLEAN, edited => row.input.edit < MaxEdits
  PROVE  /\ Repaired(row, edited, named) \in Rows
         /\ Repaired(row, edited, named) # None
         /\ Repaired(row, edited, named).submitted = row.submitted
         /\ row.input.named => Repaired(row, edited, named).input.named
<1> DEFINE e == IF edited THEN row.input.edit + 1 ELSE row.input.edit
           n == row.input.named \/ named
<1>1. row.input.edit \in 0..MaxEdits /\ row.input.named \in BOOLEAN
  BY DEF Rows, Inputs
<1>2. e \in 0..MaxEdits /\ n \in BOOLEAN /\ (row.input.named => n)
  BY <1>1, QueueAssumption
<1>3. Repaired(row, edited, named) = [row EXCEPT !.hold = "none", !.input.edit = e, !.input.named = n]
  BY DEF Repaired, Rows, Inputs
<1> HIDE DEF e, n
<1> DEFINE s == [row EXCEPT !.hold = "none", !.input.edit = e, !.input.named = n]
<1>4. s \in Rows /\ s.submitted = row.submitted /\ s.input.named = n
  BY <1>2 DEF Rows, Inputs, Holds
<1> HIDE DEF s
<1> QED BY <1>2, <1>3, <1>4, NoneAssumption DEF s

LEMMA SavedIds == TypeOK => 1..saved \subseteq Ids
BY QueueAssumption DEF TypeOK, Ids

LEMMA InitInv == Init => IInv
<1> SUFFICES ASSUME Init PROVE IInv
  OBVIOUS
<1> USE QueueAssumption, NoneAssumption, ServerAssumption DEF Init, QueueInit, Ids, Idle
<1>1. TypeOK
  BY IdleType DEF TypeOK, Idle
<1>2. LockInv /\ WorkInv
  BY DEF LockInv, WorkInv, Answers
<1>3. SavedInv /\ ReceiptInv /\ OneInput /\ LedgerInv /\ AppliedOnce /\ NothingLost
  BY DEF SavedInv, ReceiptInv, OneInput, LedgerInv, AppliedOnce, NothingLost, Queued
<1> QED BY <1>1, <1>2, <1>3 DEF IInv

-----------------------------------------------------------------------------
(* Steps of the device.  Each leaves the server alone, so only what ties   *)
(* the queue and the tabs to it has to be shown again.                     *)

QueueTypes ==
  /\ saved \in 0..MaxRows
  /\ intent \in [Ids -> Intents \cup {None}]
  /\ queue \in [Ids -> Rows \cup {None}]
  /\ holder \in Tabs \cup {None}
  /\ tab \in [Tabs -> TabStates]
  /\ wire \subseteq Requests
  /\ faults \in 0..MaxFaults
  /\ chosen \subseteq Ids
  /\ withdrawn \subseteq Ids

LEMMA ServerIdle ==
  ASSUME IInv, UNCHANGED serverVars, QueueTypes',
         LockInv', WorkInv', SavedInv', ReceiptInv', OneInput', NothingLost'
  PROVE  IInv'
BY DEF IInv, TypeOK, QueueTypes, serverVars, LedgerInv, AppliedOnce

(* Rows change in place, what they sent does not.                          *)
LEMMA EditInv ==
  ASSUME IInv, UNCHANGED serverVars, holder = None,
         queue' \in [Ids -> Rows \cup {None}],
         \A j \in Ids : queue'[j] = None <=> queue[j] = None,
         \A j \in Queued : queue'[j].submitted = queue[j].submitted,
         UNCHANGED <<saved, intent, holder, tab, wire, faults, chosen, withdrawn>>
  PROVE  IInv'
<1> USE QueueAssumption, NoneAssumption DEF IInv, serverVars
<1>1. QueueTypes'
  BY DEF TypeOK, QueueTypes
<1>2. LockInv' /\ WorkInv'
  BY DEF LockInv, WorkInv, TypeOK, TabStates, Queued
<1>3. SavedInv' /\ ReceiptInv' /\ NothingLost'
  BY SavedIds DEF SavedInv, ReceiptInv, NothingLost, Queued
<1>4. OneInput'
  BY DEF OneInput, TypeOK, Requests, Queued
<1> QED BY <1>1, <1>2, <1>3, <1>4, ServerIdle

(* The tab leaves the lock, nothing else changes.                          *)
LEMMA LeaveInv ==
  ASSUME IInv, UNCHANGED serverVars, NEW t \in Tabs, tab[t].mode \in {"submit", "flush"}, Leave(t),
         faults' \in 0..MaxFaults, UNCHANGED <<saved, intent, queue, wire, chosen, withdrawn>>
  PROVE  IInv'
<1> USE QueueAssumption, NoneAssumption DEF IInv, serverVars, Leave
<1>1. QueueTypes'
  BY IdleType DEF TypeOK, QueueTypes
<1>2. LockInv' /\ WorkInv'
  BY DEF LockInv, WorkInv, TypeOK, Idle, Answers, Queued
<1>3. SavedInv' /\ ReceiptInv' /\ NothingLost' /\ OneInput'
  BY DEF SavedInv, ReceiptInv, NothingLost, OneInput, Queued
<1> QED BY <1>1, <1>2, <1>3, ServerIdle

(* Rows leave the queue because a person takes them out.                   *)
LEMMA RemoveInv ==
  ASSUME IInv, UNCHANGED serverVars, holder = None, NEW rows \in SUBSET Ids, Remove(rows), chosen' \subseteq Ids
  PROVE  IInv'
<1> USE QueueAssumption, NoneAssumption DEF IInv, serverVars, Remove
<1>1. QueueTypes'
  BY DEF TypeOK, QueueTypes
<1>2. LockInv' /\ WorkInv'
  BY DEF LockInv, WorkInv, TypeOK, TabStates, Queued
<1>3. SavedInv' /\ ReceiptInv' /\ NothingLost'
  BY SavedIds DEF SavedInv, ReceiptInv, NothingLost, Queued
<1>4. OneInput'
  BY DEF OneInput, TypeOK, Requests, Queued
<1> QED BY <1>1, <1>2, <1>3, <1>4, ServerIdle

(* The row at work is held.                                                *)
LEMMA HoldInv ==
  ASSUME IInv, UNCHANGED serverVars, NEW t \in Tabs, tab[t].mode = "flush", tab[t].step # "scan",
         NEW h \in Holds, Hold(t, tab[t].at, h)
  PROVE  IInv'
<1> DEFINE i == tab[t].at
<1> USE QueueAssumption, NoneAssumption DEF IInv, serverVars, Hold
<1>1. i \in Ids /\ queue[i] # None
  BY DEF WorkInv, Queued
<1>2. queue' \in [Ids -> Rows \cup {None}]
  BY <1>1 DEF TypeOK, Rows
<1>3. tab' \in [Tabs -> TabStates]
  <2> DEFINE z == [tab[t] EXCEPT !.step = "scan", !.attempt = 0, !.answer = None]
             stranded == IF Chained(i) THEN tab[t].stranded \cup {Link(i)} ELSE tab[t].stranded
  <2>1. z \in TabStates
    <3>1. tab[t] \in TabStates /\ 0 \in 0..MaxFaults
      BY DEF TypeOK
    <3> QED BY <3>1, TabTurn
  <2>2. intent[i] \in Intents
    BY <1>1 DEF SavedInv, TypeOK, Ids
  <2>3. stranded \in SUBSET (Workspaces \X Chains)
    BY <2>2 DEF Chained, Link, Intents, TypeOK, TabStates
  <2>4. tab' = [tab EXCEPT ![t] = [z EXCEPT !.stranded = stranded]]
    BY DEF TypeOK, TabStates
  <2> HIDE DEF z, stranded
  <2>5. [z EXCEPT !.stranded = stranded] \in TabStates
    BY <2>1, <2>3, TabField
  <2> QED BY <2>4, <2>5, ZenonT(30) DEF TypeOK
<1>4. QueueTypes'
  BY <1>2, <1>3 DEF TypeOK, QueueTypes
<1>5. /\ \A j \in Ids : queue'[j] = None <=> queue[j] = None
      /\ \A j \in Queued : queue'[j].submitted = queue[j].submitted
  BY <1>1 DEF TypeOK, Rows, Queued
<1>6. LockInv' /\ WorkInv'
  <2>1. /\ tab'[t].mode = tab[t].mode /\ tab'[t].step = "scan" /\ tab'[t].answer = None
        /\ \A u \in Tabs \ {t} : tab'[u] = tab[u]
    BY DEF TypeOK, TabStates
  <2>2. LockInv'
    BY <2>1 DEF LockInv
  <2>3. Queued' = Queued /\ WorkInv /\ receipt' = receipt
    BY <1>5 DEF Queued
  <2> HIDE DEF IInv, Hold
  <2>4. WorkInv'
    BY <1>5, <2>1, <2>3, NoneAssumption DEF WorkInv, Answers
  <2> QED BY <2>2, <2>4
<1>7. SavedInv' /\ ReceiptInv' /\ NothingLost'
  BY <1>5, SavedIds DEF SavedInv, ReceiptInv, NothingLost, Queued
<1>8. OneInput'
  BY <1>5 DEF OneInput, TypeOK, Requests, Queued
<1> QED BY <1>4, <1>6, <1>7, <1>8, ServerIdle

(* A new row is saved behind all others; who holds the lock is free to     *)
(* change, as long as the new row is what its owner works on.              *)
LEMMA SaveInv ==
  ASSUME IInv, UNCHANGED serverVars, NEW x \in Intents, NEW named \in BOOLEAN, holder = None, Save(x, named),
         UNCHANGED <<wire, faults, chosen, withdrawn>>,
         \/ UNCHANGED <<holder, tab>>
         \/ \E t \in Tabs :
              /\ holder' = t
              /\ tab' = [tab EXCEPT ![t] =
                   [Idle EXCEPT !.mode = "submit", !.step = "saved", !.at = saved + 1]]
  PROVE  IInv'
<1> USE QueueAssumption, NoneAssumption DEF IInv, serverVars, Save
<1> DEFINE row == FreshRow(named)
<1>1. saved + 1 \in Ids /\ saved \in Nat
  BY DEF TypeOK, Ids
<1>2. row \in Rows /\ row # None /\ row.submitted = None
  BY DEF FreshRow, Rows, Inputs, Holds
<1>3. [Idle EXCEPT !.mode = "submit", !.step = "saved", !.at = saved + 1] \in TabStates
  BY <1>1, TabSubmits
<1> HIDE DEF row
<1>4. tab' \in [Tabs -> TabStates] /\ holder' \in Tabs \cup {None}
  BY <1>3 DEF TypeOK
<1>5. QueueTypes'
  BY <1>1, <1>2, <1>4 DEF TypeOK, QueueTypes, row
<1>6. LockInv' /\ WorkInv'
  <2>1. \A u \in Tabs : tab[u].mode \in {"idle", "asked"} /\ tab[u].step = "scan" /\ tab[u].answer = None
    BY DEF LockInv, WorkInv, TypeOK, TabStates
  <2>2. CASE UNCHANGED <<holder, tab>>
    BY <2>1, <2>2 DEF LockInv, WorkInv, Answers
  <2>3. ASSUME NEW t \in Tabs, holder' = t,
               tab' = [tab EXCEPT ![t] =
                 [Idle EXCEPT !.mode = "submit", !.step = "saved", !.at = saved + 1]]
        PROVE  LockInv' /\ WorkInv'
    <3>1. /\ tab'[t].mode = "submit" /\ tab'[t].step = "saved"
          /\ tab'[t].at = saved + 1 /\ tab'[t].answer = None
          /\ \A u \in Tabs \ {t} : tab'[u] = tab[u]
      BY <2>3 DEF TypeOK, Idle
    <3>2. saved + 1 \in Queued'
      BY <1>1, <1>2 DEF Queued, TypeOK, row
    <3> QED BY <2>1, <2>3, <3>1, <3>2 DEF LockInv, WorkInv, Answers
  <2> QED BY <2>2, <2>3
<1>7. SavedInv' /\ ReceiptInv' /\ NothingLost'
  BY <1>1, <1>2, SMTT(30) DEF SavedInv, ReceiptInv, NothingLost, TypeOK, Requests, Queued, Ids, row
<1>8. OneInput'
  BY <1>1, <1>2 DEF OneInput, SavedInv, TypeOK, Requests, row
<1> QED BY <1>5, <1>6, <1>7, <1>8, ServerIdle

(* The tab's own record changes, the row it works on is frozen.            *)
LEMMA FreezeInv ==
  ASSUME IInv, UNCHANGED serverVars, NEW t \in Tabs, tab[t].mode \in {"submit", "flush"},
         NEW i \in Queued, tab[t].answer = None, queue' = [queue EXCEPT ![i] = Frozen(@)],
         tab' \in [Tabs -> TabStates],
         \A u \in Tabs \ {t} : tab'[u] = tab[u],
         tab'[t].mode = tab[t].mode, tab'[t].step = "frozen", tab'[t].at = i, tab'[t].answer = None,
         UNCHANGED <<saved, intent, holder, wire, faults, chosen, withdrawn>>
  PROVE  IInv'
<1> USE QueueAssumption, NoneAssumption DEF IInv, serverVars
<1>1. i \in Ids /\ queue[i] \in Rows /\ queue[i] # None
  BY DEF Queued, TypeOK
<1>2. Frozen(queue[i]) \in Rows /\ Frozen(queue[i]) # None /\ Frozen(queue[i]).submitted # None
  BY <1>1 DEF Frozen, Rows
<1>3. queue[i].submitted # None => Frozen(queue[i]).submitted = queue[i].submitted
  BY <1>1 DEF Frozen, Rows
<1>4. /\ queue' \in [Ids -> Rows \cup {None}]
      /\ queue'[i] = Frozen(queue[i])
      /\ \A j \in Ids \ {i} : queue'[j] = queue[j]
  BY <1>1, <1>2 DEF TypeOK
<1>5. QueueTypes'
  BY <1>4 DEF TypeOK, QueueTypes
<1>6. LockInv'
  BY DEF LockInv
<1>9. WorkInv'
  <2>1. \A u \in Tabs \ {t} : tab[u].step = "scan" /\ tab[u].mode \in {"idle", "asked"} /\ tab[u].answer = None
    BY DEF LockInv, WorkInv, TypeOK, TabStates
  <2>2. i \in Queued' /\ queue'[i].submitted # None
    BY <1>1, <1>2, <1>4 DEF Queued
  <2> QED BY <2>1, <2>2 DEF WorkInv, Answers
<1>7. SavedInv' /\ NothingLost'
  BY <1>1, <1>2, <1>4, SavedIds DEF SavedInv, NothingLost
<1>8. ReceiptInv' /\ OneInput'
  <2>1. receipt[i] # None => queue[i].submitted = receipt[i]
    BY DEF ReceiptInv
  <2>2. \A r \in wire : r.id = i => queue[i].submitted = r.input /\ r.input # None
    BY <1>1 DEF OneInput, TypeOK, Requests
  <2>3. ReceiptInv'
    BY <1>1, <1>2, <1>3, <1>4, <2>1 DEF ReceiptInv, Queued
  <2>4. OneInput'
    BY <1>1, <1>2, <1>3, <1>4, <2>2 DEF OneInput, TypeOK, Requests
  <2> QED BY <2>3, <2>4
<1> QED BY <1>5, <1>6, <1>7, <1>8, <1>9, ServerIdle

LEMMA SendInv ==
  ASSUME IInv, UNCHANGED serverVars, NEW t \in Tabs, Send(t)
  PROVE  IInv'
<1> DEFINE r == [id |-> tab[t].at, input |-> queue[tab[t].at].submitted, attempt |-> faults]
<1> USE QueueAssumption, NoneAssumption DEF IInv, serverVars, Send
<1>1. tab[t].at \in Queued /\ tab[t].at \in Ids /\ queue[tab[t].at] \in Rows
  BY DEF WorkInv, Queued, TypeOK
<1>2. r \in Requests /\ r.input # None
  BY <1>1 DEF Requests, TypeOK, WorkInv, Rows
<1>3. tab' \in [Tabs -> TabStates]
  <2>1. tab[t] \in TabStates /\ faults \in 0..MaxFaults
    BY DEF TypeOK
  <2>2. [tab[t] EXCEPT !.step = "awaiting", !.attempt = faults, !.answer = None] \in TabStates
    BY <2>1, TabTurn
  <2>3. tab' = [tab EXCEPT ![t] = [tab[t] EXCEPT !.step = "awaiting", !.attempt = faults, !.answer = None]]
    BY DEF TypeOK, TabStates
  <2> QED BY <2>2, <2>3 DEF TypeOK
<1>4. wire' = wire \cup {r}
  OBVIOUS
<1>5. QueueTypes'
  BY <1>2, <1>3, <1>4 DEF TypeOK, QueueTypes
<1>6. LockInv' /\ WorkInv'
  BY <1>1 DEF LockInv, WorkInv, TypeOK, TabStates, Answers, Queued
<1>7. SavedInv' /\ NothingLost' /\ ReceiptInv'
  <2>1. tab[t].at <= saved
    BY <1>1 DEF SavedInv, TypeOK, Ids, Queued
  <2> QED BY <1>4, <2>1 DEF SavedInv, NothingLost, ReceiptInv, Queued
<1>8. OneInput'
  <2>1. receipt[r.id] # None => receipt[r.id] = r.input
    BY <1>1 DEF ReceiptInv
  <2>2. \A q \in wire : q.id = r.id => q.input = r.input
    BY <1>1 DEF OneInput, Queued
  <2>3. r.id = tab[t].at /\ r.input = queue[r.id].submitted
    OBVIOUS
  <2> HIDE DEF r
  <2> QED BY <1>4, <2>1, <2>2, <2>3 DEF OneInput
<1> QED BY <1>5, <1>6, <1>7, <1>8, ServerIdle

(* A tab that does not own the lock asks or begins a flush.                *)
LEMMA BeginInv ==
  ASSUME IInv, UNCHANGED serverVars, NEW t \in Tabs, NEW s \in TabStates, tab' = [tab EXCEPT ![t] = s],
         s.step = "scan", s.answer = None,
         \/ tab[t].mode = "idle" /\ s.mode = "asked" /\ holder' = holder
         \/ tab[t].mode = "asked" /\ s.mode = "flush" /\ holder = None /\ holder' = t,
         UNCHANGED <<saved, intent, queue, wire, faults, chosen, withdrawn>>
  PROVE  IInv'
<1> USE QueueAssumption, NoneAssumption DEF IInv, serverVars
<1>1. tab'[t] = s /\ \A u \in Tabs \ {t} : tab'[u] = tab[u]
  BY DEF TypeOK
<1>2. QueueTypes'
  BY DEF TypeOK, QueueTypes
<1>3. LockInv'
  BY <1>1 DEF LockInv
<1>4. WorkInv'
  BY <1>1 DEF WorkInv, Answers, Queued
<1>5. SavedInv' /\ ReceiptInv' /\ NothingLost' /\ OneInput'
  BY DEF SavedInv, ReceiptInv, NothingLost, OneInput, Queued
<1> QED BY <1>2, <1>3, <1>4, <1>5, ServerIdle

(* The flush drops an applied row, and the rows behind it learn its entry. *)
LEMMA FlushAppliedInv ==
  ASSUME IInv, UNCHANGED serverVars, NEW t \in Tabs, FlushApplied(t)
  PROVE  IInv'
<1> DEFINE i == tab[t].at
<1> USE QueueAssumption, NoneAssumption DEF IInv, serverVars, FlushApplied
<1>1. i \in Ids /\ queue[i] # None /\ receipt[i] # None /\ tab[t].step = "awaiting"
  BY DEF WorkInv, Queued, Answers
<1>2. /\ queue' \in [Ids -> Rows \cup {None}]
      /\ queue'[i] = None
      /\ \A j \in Ids : queue'[j] # None => queue[j] # None /\ queue'[j].submitted = queue[j].submitted
      /\ \A j \in Ids \ {i} : queue'[j] = None => queue[j] = None
  <2>1. \A j \in Queued : [queue[j] EXCEPT !.input.named = TRUE] \in Rows
                       /\ [queue[j] EXCEPT !.input.named = TRUE].submitted = queue[j].submitted
    BY ZenonT(30) DEF Queued, TypeOK, Rows, Inputs
  <2> HIDE DEF i
  <2>2. queue' = [j \in Ids |->
          IF j = i THEN None
          ELSE IF j \in Queued /\ Resolves(i, j) THEN [queue[j] EXCEPT !.input.named = TRUE]
          ELSE queue[j]]
    BY DEF i
  <2>3. \A j \in Ids : j \notin Queued => queue[j] = None
    BY DEF Queued
  <2> QED BY <1>1, <2>1, <2>2, <2>3 DEF TypeOK, Queued
<1>3. tab' \in [Tabs -> TabStates]
  <2>1. tab[t] \in TabStates /\ 0 \in 0..MaxFaults
    BY DEF TypeOK
  <2>2. [tab[t] EXCEPT !.step = "scan", !.attempt = 0, !.answer = None] \in TabStates
    BY <2>1, TabTurn
  <2>3. tab' = [tab EXCEPT ![t] = [tab[t] EXCEPT !.step = "scan", !.attempt = 0, !.answer = None]]
    BY DEF TypeOK, TabStates
  <2> QED BY <2>2, <2>3 DEF TypeOK
<1>4. QueueTypes'
  BY <1>2, <1>3 DEF TypeOK, QueueTypes
<1>5. LockInv'
  BY DEF LockInv, TypeOK, TabStates
<1>6. WorkInv'
  <2>1. \A u \in Tabs \ {t} : tab[u].step = "scan" /\ tab[u].mode \in {"idle", "asked"} /\ tab[u].answer = None
    BY DEF LockInv, WorkInv, TypeOK, TabStates
  <2>2. /\ tab'[t].step = "scan" /\ tab'[t].mode = "flush" /\ tab'[t].answer = None
        /\ \A u \in Tabs \ {t} : tab'[u] = tab[u]
    BY DEF TypeOK, TabStates
  <2> QED BY <2>1, <2>2, ZenonT(30) DEF WorkInv, Answers
<1>7. SavedInv' /\ ReceiptInv' /\ NothingLost'
  BY <1>1, <1>2, SavedIds DEF SavedInv, ReceiptInv, NothingLost, Queued
<1>8. OneInput'
  BY <1>2 DEF OneInput, TypeOK, Requests
<1> QED BY <1>4, <1>5, <1>6, <1>7, <1>8, ServerIdle

LEMMA SubmitDoneInv ==
  ASSUME IInv, UNCHANGED serverVars, NEW t \in Tabs, SubmitDone(t)
  PROVE  IInv'
<1> DEFINE i == tab[t].at
<1> USE QueueAssumption, NoneAssumption DEF IInv, serverVars, SubmitDone, Leave
<1>1. i \in Ids /\ queue[i] # None /\ (tab[t].answer = "ok" => receipt[i] # None)
  BY DEF WorkInv, Queued, Answers
<1>2. /\ queue' \in [Ids -> Rows \cup {None}]
      /\ \A j \in Ids : queue'[j] # None => queue'[j] = queue[j]
      /\ \A j \in Ids : queue'[j] = None => queue[j] = None \/ (j = i /\ tab[t].answer = "ok")
  <2>1. queue' = [queue EXCEPT ![i] = IF tab[t].answer = "ok" THEN None ELSE queue[i]]
    BY DEF TypeOK
  <2>2. CASE tab[t].answer = "ok"
    <3>1. queue' = [queue EXCEPT ![i] = None]
      BY <2>1, <2>2
    <3> HIDE DEF i
    <3> QED BY <1>1, <2>2, <3>1 DEF TypeOK, i
  <2>3. CASE tab[t].answer # "ok"
    <3>1. queue' = queue
      BY <2>1, <2>3 DEF TypeOK
    <3>2. queue \in [Ids -> Rows \cup {None}]
      BY DEF TypeOK
    <3> HIDE DEF SubmitDone, IInv, i
    <3> QED BY <3>1, <3>2
  <2> QED BY <2>2, <2>3
<1>3. QueueTypes'
  BY <1>2, IdleType DEF TypeOK, QueueTypes
<1>4. LockInv'
  BY DEF LockInv, TypeOK, Idle
<1>5. WorkInv'
  <2>1. \A u \in Tabs \ {t} : tab[u].step = "scan" /\ tab[u].mode \in {"idle", "asked"} /\ tab[u].answer = None
    BY DEF LockInv, WorkInv, TypeOK, TabStates
  <2>2. /\ tab'[t].step = "scan" /\ tab'[t].mode = "idle" /\ tab'[t].answer = None
        /\ \A u \in Tabs \ {t} : tab'[u] = tab[u]
    BY DEF TypeOK, Idle
  <2> QED BY <2>1, <2>2 DEF WorkInv, Answers
<1>6. SavedInv' /\ ReceiptInv' /\ NothingLost'
  BY <1>1, <1>2, SavedIds DEF SavedInv, ReceiptInv, NothingLost, Queued
<1>7. OneInput'
  BY <1>2 DEF OneInput, TypeOK, Requests
<1> QED BY <1>3, <1>4, <1>5, <1>6, <1>7, ServerIdle

LEMMA DeviceInv == IInv /\ Device => IInv'
<1> SUFFICES ASSUME IInv, Device PROVE IInv'
  OBVIOUS
<1> USE DEF IInv
<1>s. UNCHANGED serverVars
  BY DEF Device
<1>t. /\ \A t \in Tabs : tab[t] \in TabStates /\ tab[t].answer \in Answers \cup {None}
      /\ \A t \in Tabs : tab[t].mode \in {"submit", "flush"} =>
           /\ tab[t].step # "scan" => tab[t].at \in Queued
           /\ tab[t].answer # None => tab[t].step = "awaiting"
  BY DEF TypeOK, TabStates, WorkInv
<1>1. ASSUME NEW x \in Intents, NEW named \in BOOLEAN, Enqueue(x, named) PROVE IInv'
  BY <1>s, <1>1, SaveInv DEF Enqueue
<1>2. ASSUME NEW t \in Tabs, NEW x \in Intents, NEW named \in BOOLEAN, Submit(t, x, named) PROVE IInv'
  BY <1>s, <1>2, SaveInv DEF Submit
<1>3. ASSUME NEW t \in Tabs, AskMembers(t, members) PROVE IInv'
  <2> DEFINE s == [Idle EXCEPT !.mode = "asked", !.members = members]
  <2>1. s \in TabStates
    BY IdleType, TabField DEF TypeOK
  <2>2. s.step = "scan" /\ s.answer = None /\ s.mode = "asked"
    BY DEF Idle
  <2>3. tab' = [tab EXCEPT ![t] = s] /\ tab[t].mode = "idle" /\ holder' = holder
        /\ UNCHANGED <<saved, intent, queue, wire, faults, chosen, withdrawn>>
    BY <1>3 DEF AskMembers
  <2> HIDE DEF s
  <2> QED BY <1>s, <2>1, <2>2, <2>3, BeginInv
<1>4. ASSUME NEW t \in Tabs, NEW due \in SUBSET Ids, FlushBegin(t, due) PROVE IInv'
  <2> DEFINE b == [tab[t] EXCEPT !.mode = "flush", !.due = due]
             x == {Link(i) : i \in {j \in Queued : Chained(j) /\ ~Wanted(b, j)}}
             s == [b EXCEPT !.stranded = x]
  <2>1. b \in TabStates
    BY <1>t, TabField
  <2>2. x \in SUBSET (Workspaces \X Chains)
    <3>1. \A j \in Queued : intent[j] \in Intents
      BY DEF Queued, SavedInv, TypeOK, Ids
    <3>2. \A j \in Queued : Chained(j) => Link(j) \in Workspaces \X Chains
      BY <3>1 DEF Chained, Link, Intents
    <3> QED BY <3>2
  <2>3. s.step = "scan" /\ s.answer = None /\ s.mode = "flush"
    BY <1>4, <1>t DEF FlushBegin, WorkInv, TabStates
  <2>4. /\ tab' = [tab EXCEPT ![t] = s] /\ tab[t].mode = "asked" /\ holder = None /\ holder' = t
        /\ UNCHANGED <<saved, intent, queue, wire, faults, chosen, withdrawn>>
    BY <1>4 DEF FlushBegin
  <2> HIDE DEF b, x
  <2>5. s \in TabStates
    BY <2>1, <2>2, TabField
  <2> HIDE DEF s
  <2> QED BY <1>s, <2>3, <2>4, <2>5, BeginInv
<1>5. ASSUME NEW t \in Tabs, NEW i \in Ids, FreezeNext(t, i) PROVE IInv'
  <2>1. tab[t].mode = "flush" /\ tab[t].answer = None /\ i \in Queued /\ i \in 0..MaxRows
    BY <1>5, <1>t DEF FreezeNext, Scanning, Ids
  <2>2. [tab[t] EXCEPT !.step = "frozen", !.at = i] \in TabStates
    BY <1>t, <2>1, TabField
  <2>3. tab' = [tab EXCEPT ![t] = [tab[t] EXCEPT !.step = "frozen", !.at = i]]
    BY <1>5 DEF FreezeNext, TypeOK, TabStates
  <2>4. /\ tab' \in [Tabs -> TabStates]
        /\ \A u \in Tabs \ {t} : tab'[u] = tab[u]
    BY <2>2, <2>3 DEF TypeOK
  <2>5. tab'[t].mode = tab[t].mode /\ tab'[t].step = "frozen" /\ tab'[t].at = i /\ tab'[t].answer = None
    BY <2>1, <2>3 DEF TypeOK, TabStates
  <2> QED BY <1>s, <1>5, <2>1, <2>4, <2>5, FreezeInv DEF FreezeNext
<1>6. ASSUME NEW t \in Tabs, FreezeSubmitted(t) PROVE IInv'
  <2>1. tab[t].mode = "submit" /\ tab[t].answer = None /\ tab[t].at \in Queued
    BY <1>6, <1>t DEF FreezeSubmitted
  <2>2. [tab[t] EXCEPT !.step = "frozen"] \in TabStates
    BY <1>t, TabField
  <2>3. tab' = [tab EXCEPT ![t] = [tab[t] EXCEPT !.step = "frozen"]]
    BY <1>6 DEF FreezeSubmitted, TypeOK, TabStates
  <2>4. /\ tab' \in [Tabs -> TabStates]
        /\ \A u \in Tabs \ {t} : tab'[u] = tab[u]
    BY <2>2, <2>3 DEF TypeOK
  <2>5. tab'[t].mode = tab[t].mode /\ tab'[t].step = "frozen" /\ tab'[t].at = tab[t].at /\ tab'[t].answer = None
    BY <2>1, <2>3 DEF TypeOK, TabStates
  <2> QED BY <1>s, <1>6, <2>1, <2>4, <2>5, FreezeInv DEF FreezeSubmitted
<1>7. ASSUME NEW t \in Tabs, Send(t) PROVE IInv'
  BY <1>s, <1>7, SendInv
<1>8. ASSUME NEW t \in Tabs, NEW h \in Holds, HoldUnsent(t, h) PROVE IInv'
  BY <1>s, <1>8, HoldInv DEF HoldUnsent
<1>9. ASSUME NEW t \in Tabs, FlushApplied(t) PROVE IInv'
  BY <1>s, <1>9, FlushAppliedInv
<1>10. ASSUME NEW t \in Tabs, FlushHeld(t, members) PROVE IInv'
  <2>1. tab[t].mode = "flush" /\ tab[t].step # "scan"
    BY <1>10, <1>t, NoneAssumption DEF FlushHeld, Answers
  <2>2. Hold(t, tab[t].at, "server") \/ Hold(t, tab[t].at, "manual")
    BY <1>10 DEF FlushHeld
  <2> QED BY <1>s, <2>1, <2>2, HoldInv DEF Holds
<1>11. ASSUME NEW t \in Tabs, FlushStopped(t, members) \/ FlushEnd(t) PROVE IInv'
  BY <1>s, <1>11, LeaveInv DEF FlushStopped, FlushEnd, Scanning, TypeOK
<1>12. ASSUME NEW t \in Tabs, SubmitDone(t) PROVE IInv'
  BY <1>s, <1>12, SubmitDoneInv
<1>13. ASSUME NEW t \in Tabs, Abandon(t) PROVE IInv'
  <2>1. faults' \in 0..MaxFaults
    BY <1>13, QueueAssumption DEF Abandon, TypeOK
  <2> QED BY <1>s, <1>13, <2>1, LeaveInv DEF Abandon
<1>14. ASSUME NEW i \in Ids, Amend(i) PROVE IInv'
  <2> DEFINE e == [queue[i] EXCEPT !.input.edit = @ + 1]
  <2>1. queue \in [Ids -> Rows \cup {None}] /\ queue[i] \in Rows /\ queue[i] # None
    BY <1>14 DEF Amend, Queued, TypeOK
  <2>2. e \in Rows /\ e.submitted = queue[i].submitted
    <3>1. queue[i].input.edit + 1 \in 0..MaxEdits
      BY <1>14, <2>1, QueueAssumption DEF Amend, Rows, Inputs
    <3>2. e = [queue[i] EXCEPT !.input.edit = queue[i].input.edit + 1]
      BY <2>1 DEF Rows, Inputs
    <3> HIDE DEF e, IInv
    <3> QED BY <2>1, <3>1, <3>2, RowEdit DEF Holds
  <2>3. queue' = [queue EXCEPT ![i] = e]
    BY <1>14, <2>1 DEF Amend, Rows
  <2> HIDE DEF e, IInv
  <2>e. e # None
    BY <2>2, NoneAssumption
  <2>4. /\ queue' \in [Ids -> Rows \cup {None}]
        /\ \A j \in Ids : queue'[j] = None <=> queue[j] = None
        /\ \A j \in Queued : queue'[j].submitted = queue[j].submitted
    BY <2>1, <2>2, <2>3, <2>e DEF Queued
  <2> QED BY <1>s, <1>14, <2>4, EditInv DEF Amend
<1>15. ASSUME NEW i \in Ids, Cancel(i) \/ DiscardChain(i) PROVE IInv'
  <2>1. Chain(i) \in SUBSET Ids /\ chosen' \subseteq Ids
    BY <1>15 DEF Chain, Queued, Cancel, DiscardChain, TypeOK
  <2> QED BY <1>s, <1>15, <2>1, RemoveInv DEF Cancel, DiscardChain
<1>16. ASSUME NEW i \in Ids, NEW known \in SUBSET Workspaces, Choose(i, known) PROVE IInv'
  <2>1. Chain(i) \subseteq Ids
    BY DEF Chain, Queued
  <2>2. QueueTypes'
    BY <1>16, <2>1 DEF Choose, TypeOK, QueueTypes
  <2>3. LockInv' /\ WorkInv' /\ SavedInv' /\ ReceiptInv' /\ OneInput' /\ NothingLost'
    BY <1>s, <1>16 DEF Choose, serverVars, LockInv, WorkInv, SavedInv, ReceiptInv, OneInput, NothingLost, Queued
  <2> QED BY <1>s, <2>2, <2>3, ServerIdle
<1>17. ASSUME NEW known \in SUBSET Workspaces, Discard(known) PROVE IInv'
  <2>1. {j \in chosen \cap Queued : MayDiscard(j, known)} \in SUBSET Ids /\ chosen' \subseteq Ids
    BY <1>17 DEF Queued, Discard
  <2> QED BY <1>s, <1>17, <2>1, RemoveInv DEF Discard
<1>18. ASSUME NEW i \in Ids, NEW known \in SUBSET Workspaces, NEW edited \in BOOLEAN, NEW named \in BOOLEAN,
              Retry(i, known, edited, named)
       PROVE IInv'
  <2> DEFINE row(j) == Repaired(queue[j], j = i /\ edited, j = i /\ named)
  <2>1. Chain(i) \subseteq Queued
    BY <1>18 DEF Retry, Chain
  <2>2. \A j \in Chain(i) : row(j) \in Rows /\ row(j).submitted = queue[j].submitted
    <3>1. SUFFICES ASSUME NEW j \in Chain(i)
                   PROVE  row(j) \in Rows /\ row(j).submitted = queue[j].submitted
      OBVIOUS
    <3>2. queue[j] \in Rows
      BY <2>1 DEF Queued, TypeOK
    <3>3. j = i /\ edited => queue[j].input.edit < MaxEdits
      BY <1>18 DEF Retry
    <3> QED BY <3>2, <3>3, RepairedRow
  <2>3. queue' = [j \in Ids |-> IF j \in Chain(i) THEN row(j) ELSE queue[j]]
    BY <1>18 DEF Retry
  <2> HIDE DEF row
  <2>4. /\ queue' \in [Ids -> Rows \cup {None}]
        /\ \A j \in Ids : queue'[j] = None <=> queue[j] = None
        /\ \A j \in Queued : queue'[j].submitted = queue[j].submitted
    BY <2>1, <2>2, <2>3, NoneAssumption DEF Queued, TypeOK
  <2> QED BY <1>s, <1>18, <2>4, EditInv DEF Retry
<1> QED BY <1>1, <1>2, <1>3, <1>4, <1>5, <1>6, <1>7, <1>8, <1>9, <1>10, <1>11, <1>12, <1>13, <1>14,
           <1>15, <1>16, <1>17, <1>18 DEF Device

-----------------------------------------------------------------------------
(* Steps of the server: a request is answered, and its write committed or  *)
(* not.                                                                    *)

LEMMA AnswerInv ==
  ASSUME IInv, NEW r \in wire, NEW a \in Answers, Answer(r, a),
         \/ UNCHANGED <<receipt, ledger>>
         \/ /\ receipt[r.id] = None
            /\ receipt' = [receipt EXCEPT ![r.id] = r.input]
            /\ ledger' = Append(ledger, r.id),
         a = "ok" => receipt'[r.id] # None,
         faults' \in 0..MaxFaults,
         running' \in Ids \cup {Elsewhere, None},
         ended' \in [Ids -> Ids \cup {Elsewhere, None}],
         UNCHANGED <<saved, intent, queue, holder, chosen, withdrawn, members>>
  PROVE  IInv'
<1> USE QueueAssumption, NoneAssumption, ServerAssumption DEF IInv
<1>1. r \in Requests /\ r.id \in Ids /\ r.input \in Inputs /\ r.input # None /\ r.id \in 1..saved
  BY DEF TypeOK, Requests, SavedInv, Ids
<1>2. wire' \subseteq wire /\ r \notin wire'
  BY DEF Answer
<1>3. tab' = [t \in Tabs |-> IF Awaits(t, r) THEN [tab[t] EXCEPT !.answer = a] ELSE tab[t]]
  BY DEF Answer
<1>4. tab' \in [Tabs -> TabStates]
  <2>1. \A t \in Tabs : tab[t] \in TabStates /\ [tab[t] EXCEPT !.answer = a] \in TabStates
    BY TabField DEF TypeOK
  <2> QED BY <1>3, <2>1
<1>5. \A t \in Tabs :
        /\ tab'[t].mode = tab[t].mode /\ tab'[t].step = tab[t].step /\ tab'[t].at = tab[t].at
        /\ \/ tab'[t].answer = tab[t].answer
           \/ tab'[t].answer = a /\ tab[t].step = "awaiting" /\ tab[t].at = r.id
  <2> HIDE DEF IInv
  <2>1. \A t \in Tabs : tab[t] \in TabStates
    BY DEF TypeOK, IInv
  <2> QED BY <1>3, <2>1 DEF Awaits, TabStates
<1>6. /\ receipt' \in [Ids -> Inputs \cup {None}]
      /\ \A i \in Ids : receipt[i] # None => receipt'[i] = receipt[i]
      /\ \A i \in Ids : receipt'[i] # receipt[i] => i = r.id /\ receipt'[i] = r.input
  BY <1>1 DEF TypeOK
<1>7. TypeOK'
  <2>1. ledger' \in Seq(Ids)
    <3>1. ledger \in Seq(Ids)
      BY DEF TypeOK
    <3> QED BY <1>1, <3>1, SMTT(30)
  <2> QED BY <1>1, <1>2, <1>4, <1>6, <2>1 DEF TypeOK
<1>8. LockInv'
  BY <1>5 DEF LockInv
<1>9. WorkInv'
  <2>1. \A t \in Tabs : tab[t].step # "scan" => tab[t].at \in Ids
    BY DEF WorkInv, Queued
  <2> QED BY <1>5, <1>6, <2>1 DEF WorkInv, Answers, Queued
<1>10. SavedInv' /\ NothingLost'
  <2>1. r.id <= saved /\ (\A q \in wire' : q \in wire)
    BY <1>1, <1>2 DEF SavedInv
  <2>2. SavedInv /\ saved \in Nat /\ Ids \subseteq Nat
    BY DEF TypeOK, Ids
  <2>3. SavedInv'
    <3> HIDE DEF IInv
    <3>1. \A i \in Ids : i > saved => queue'[i] = None /\ receipt'[i] = None
      BY <1>6, <2>1, <2>2 DEF SavedInv
    <3> QED BY <2>1, <2>2, <3>1 DEF SavedInv
  <2>4. NothingLost'
    BY <1>6, SavedIds DEF NothingLost
  <2> QED BY <2>3, <2>4
<1>11. ReceiptInv' /\ OneInput'
  <2>1. queue[r.id] # None => queue[r.id].submitted = r.input
    BY DEF OneInput
  <2>2. ReceiptInv'
    BY <1>1, <1>6, <2>1 DEF ReceiptInv, Queued
  <2>3. \A q \in wire : q.id \in Ids /\ (q.id = r.id => q.input = r.input)
    BY DEF OneInput, TypeOK, Requests
  <2>4. OneInput'
    BY <1>1, <1>2, <1>6, <2>3 DEF OneInput
  <2> QED BY <2>2, <2>4
<1>12. LedgerInv' /\ AppliedOnce'
  <2>1. CASE UNCHANGED <<receipt, ledger>>
    BY <2>1 DEF LedgerInv, AppliedOnce
  <2>2. CASE /\ receipt[r.id] = None
             /\ receipt' = [receipt EXCEPT ![r.id] = r.input]
             /\ ledger' = Append(ledger, r.id)
    <3>1. /\ Len(ledger') = Len(ledger) + 1
          /\ ledger'[Len(ledger) + 1] = r.id
          /\ \A n \in 1..Len(ledger) : ledger'[n] = ledger[n]
          /\ Len(ledger) \in Nat
      BY <1>1, <2>2 DEF TypeOK
    <3>2. \A n \in 1..Len(ledger) : ledger[n] # r.id
      BY <1>1, <2>2 DEF LedgerInv
    <3>3. /\ receipt'[r.id] # None
          /\ \A i \in Ids \ {r.id} : receipt'[i] = receipt[i]
      BY <1>1, <2>2 DEF TypeOK
    <3>4. LedgerInv'
      <4>1. ASSUME NEW i \in Ids PROVE receipt'[i] # None <=> \E n \in 1..Len(ledger') : ledger'[n] = i
        <5>1. CASE i = r.id
          BY <3>1, <3>3, <5>1
        <5>2. CASE i # r.id
          <6>1. receipt[i] # None <=> \E n \in 1..Len(ledger) : ledger[n] = i
            BY DEF LedgerInv
          <6> QED BY <3>1, <3>3, <5>2, <6>1
        <5> QED BY <5>1, <5>2
      <4> QED BY <4>1 DEF LedgerInv
    <3>5. AppliedOnce'
      BY <3>1, <3>2 DEF AppliedOnce
    <3> QED BY <3>4, <3>5
  <2> QED BY <2>1, <2>2
<1> QED BY <1>7, <1>8, <1>9, <1>10, <1>11, <1>12

LEMMA ServerInv == IInv /\ Server => IInv'
<1> SUFFICES ASSUME IInv, NEW r \in wire, Serve(r),
                    UNCHANGED <<saved, intent, queue, holder, faults, chosen, withdrawn>>
             PROVE  IInv'
  BY DEF Server
<1> USE NoneAssumption
<1>1. /\ r.id \in Ids /\ r.input \in Inputs /\ receipt \in [Ids -> Inputs \cup {None}]
      /\ faults' \in 0..MaxFaults /\ running \in Ids \cup {Elsewhere, None}
      /\ ended \in [Ids -> Ids \cup {Elsewhere, None}]
  BY DEF IInv, TypeOK, Requests
<1>2. CASE ServeStranger(r) \/ ServeAgain(r) \/ ServeRefused(r) \/ ServeOldServer(r)
  BY <1>1, <1>2, AnswerInv DEF ServeStranger, ServeAgain, ServeRefused, ServeOldServer, serverVars, Answers
<1>3. ASSUME Fresh(r), Commit(r), Answer(r, "ok"), running' \in Ids \cup {Elsewhere, None},
             ended' \in [Ids -> Ids \cup {Elsewhere, None}]
      PROVE  IInv'
  <2>1. receipt'[r.id] # None
    BY <1>1, <1>3 DEF Commit
  <2> QED BY <1>1, <1>3, <2>1, AnswerInv DEF Fresh, Commit, Answers
<1>4. CASE ServeStart(r) \/ ServeCreate(r)
  BY <1>1, <1>3, <1>4 DEF ServeStart, ServeCreate
<1>5. CASE ServeStop(r)
  <2>1. StopTarget(r) \in Ids \cup {Elsewhere, None}
    BY <1>1 DEF StopTarget
  <2>2. ended' \in [Ids -> Ids \cup {Elsewhere, None}]
    BY <1>1, <1>5, <2>1 DEF ServeStop
  <2> QED BY <1>1, <1>3, <1>5, <2>2 DEF ServeStop
<1> QED BY <1>2, <1>4, <1>5 DEF Serve

LEMMA UnavailableInv == IInv /\ ServerUnavailable => IInv'
<1> SUFFICES ASSUME IInv, faults < MaxFaults, faults' = faults + 1, NEW r \in wire, Answer(r, "later"),
                    UNCHANGED <<saved, intent, queue, holder, chosen, withdrawn>>, UNCHANGED serverVars
             PROVE  IInv'
  BY DEF ServerUnavailable
<1>1. /\ faults' \in 0..MaxFaults /\ running \in Ids \cup {Elsewhere, None}
      /\ ended \in [Ids -> Ids \cup {Elsewhere, None}]
  BY QueueAssumption DEF IInv, TypeOK
<1> QED BY <1>1, AnswerInv DEF serverVars, Answers

LEMMA WorldInv == IInv /\ World => IInv'
<1> SUFFICES ASSUME IInv, World PROVE IInv'
  OBVIOUS
<1>1. UNCHANGED queueVars /\ UNCHANGED <<receipt, ledger, ended>>
  BY DEF World, OtherDeviceStarts, OtherDeviceStops, MembershipChanges
<1>2. running' \in Ids \cup {Elsewhere, None} /\ members' \subseteq Workspaces
  BY DEF World, OtherDeviceStarts, OtherDeviceStops, MembershipChanges, IInv, TypeOK
<1>3. TypeOK'
  BY <1>1, <1>2 DEF IInv, TypeOK, queueVars
<1>4. LockInv' /\ WorkInv' /\ SavedInv' /\ ReceiptInv' /\ OneInput' /\ LedgerInv' /\ AppliedOnce' /\ NothingLost'
  BY <1>1 DEF IInv, queueVars, LockInv, WorkInv, SavedInv, ReceiptInv, OneInput, LedgerInv, AppliedOnce,
              NothingLost, Queued
<1> QED BY <1>3, <1>4 DEF IInv

LEMMA StutterInv == IInv /\ UNCHANGED vars => IInv'
BY DEF vars, IInv, TypeOK, LockInv, WorkInv, SavedInv, ReceiptInv, OneInput, LedgerInv, AppliedOnce,
       NothingLost, Queued

LEMMA Invariance == Spec => []IInv
<1>1. IInv /\ [Next]_vars => IInv'
  BY DeviceInv, ServerInv, UnavailableInv, WorldInv, StutterInv DEF Next
<1> QED BY InitInv, <1>1, PTL DEF Spec

-----------------------------------------------------------------------------

(* Every variable keeps its type in every behaviour of the durable queue.  *)
THEOREM TypeCorrect == Spec => []TypeOK
BY Invariance, PTL DEF IInv

(* However many tabs, faults and edits there are, a saved write leaves the *)
(* device's queue (offline-queue.ts flush and submit) only after the       *)
(* server committed it or because the person removed it.                   *)
THEOREM NeverLost == Spec => []NothingLost
BY Invariance, PTL DEF IInv

(* Neither late requests nor retries nor other tabs make the server commit *)
(* a write twice.                                                          *)
THEOREM AtMostOnce == Spec => []AppliedOnce
BY Invariance, PTL DEF IInv

(* Every copy of a write that is under way asks for what was frozen        *)
(* (durable-entry.ts freezeDurableEntry) and what its receipt, if any, was *)
(* given for.                                                              *)
THEOREM SameInput == Spec => []OneInput
BY Invariance, PTL DEF IInv

=============================================================================
