------------------------ MODULE TimerService_proofs ------------------------
(***************************************************************************)
(* The timer's properties for any calls, requests, deployments and earlier *)
(* entries.                                                                *)
(*                                                                         *)
(* OneRunning needs nothing of what a call read before: every write of a   *)
(* command, and every commit, passes the unique index. The others rest on  *)
(* WorkInv: what a call holds was fit when it was read and, in a           *)
(* transaction, is what it still sees; and whatever a transaction makes of *)
(* its snapshot (Makes, which is transitive) it makes of the database when *)
(* it commits.                                                             *)
(***************************************************************************)
EXTENDS TimerService, TLAPS

(* The induction hypothesis.                                               *)
IInv == DOMAIN entries = Ids /\ entries = [i \in Ids |-> entries[i]] /\ OneRunning

(* One entry of the database is put, and the index agrees, or it is gone.  *)
Puts(i, e) ==
  /\ entries' = [entries EXCEPT ![i] = e]
  /\ e = None \/ ~Clashes([entries EXCEPT ![i] = e], i)

(* A transaction's entries are put, and the index agrees with each.        *)
CommitsEntries(c) ==
  /\ entries' = Merged(c)
  /\ \A i \in wrote[c] : ~Clashes(Merged(c), i)

Changes == \/ UNCHANGED entries
           \/ \E i, e : Puts(i, e)
           \/ \E c \in Calls : CommitsEntries(c)

-----------------------------------------------------------------------------
LEMMA PutKeeps ==
  ASSUME IInv, NEW i, NEW e, Puts(i, e)
  PROVE  IInv'
<1>1. DOMAIN entries' = Ids /\ entries' = [j \in Ids |-> entries'[j]]
  BY DEF IInv, Puts
<1>2. ASSUME NEW j \in Ids, NEW k \in Ids, IsRunning(entries', j), IsRunning(entries', k)
      PROVE  j = k
  <2>1. CASE j # i /\ k # i
    BY <1>2, <2>1 DEF IInv, OneRunning, IsRunning, Puts
  <2>2. CASE j = i /\ k # i
    <3>1. e # None
      BY <1>2, <2>2 DEF IInv, IsRunning, Puts
    <3>2. Clashes(entries', i)
      BY <1>2, <2>2 DEF Clashes, Occupied
    <3>. QED
      BY <3>1, <3>2 DEF Puts
  <2>3. CASE k = i /\ j # i
    <3>1. e # None
      BY <1>2, <2>3 DEF IInv, IsRunning, Puts
    <3>2. Clashes(entries', i)
      BY <1>2, <2>3 DEF Clashes, Occupied
    <3>. QED
      BY <3>1, <3>2 DEF Puts
  <2>. QED
    BY <2>1, <2>2, <2>3
<1>. QED
  BY <1>1, <1>2 DEF IInv, OneRunning, IsRunning

LEMMA CommitKeeps ==
  ASSUME IInv, NEW c \in Calls, CommitsEntries(c)
  PROVE  IInv'
<1>1. DOMAIN entries' = Ids /\ entries' = [j \in Ids |-> entries'[j]]
  BY DEF CommitsEntries, Merged
<1>2. \A j \in Ids : j \notin wrote[c] => entries'[j] = entries[j]
  BY DEF CommitsEntries, Merged
<1>3. ASSUME NEW j \in Ids, NEW k \in Ids, IsRunning(entries', j), IsRunning(entries', k)
      PROVE  j = k
  <2>1. CASE j \notin wrote[c] /\ k \notin wrote[c]
    BY <1>2, <1>3, <2>1 DEF IInv, OneRunning, IsRunning
  <2>2. CASE j \in wrote[c]
    BY <1>3, <2>2 DEF CommitsEntries, Clashes, Occupied
  <2>3. CASE k \in wrote[c]
    BY <1>3, <2>3 DEF CommitsEntries, Clashes, Occupied
  <2>. QED
    BY <2>1, <2>2, <2>3
<1>. QED
  BY <1>1, <1>3 DEF IInv, OneRunning, IsRunning

LEMMA ChangeKeeps == ASSUME IInv, Changes PROVE IInv'
<1>1. CASE UNCHANGED entries
  BY <1>1 DEF IInv, OneRunning, IsRunning
<1>2. CASE \E i, e : Puts(i, e)
  BY <1>2, PutKeeps
<1>3. CASE \E c \in Calls : CommitsEntries(c)
  BY <1>3, CommitKeeps
<1>. QED
  BY <1>1, <1>2, <1>3 DEF Changes

-----------------------------------------------------------------------------
(* Every command changes the database in one of these ways.                *)

LEMMA PutChanges ==
  ASSUME NEW c, NEW i, NEW e, Put(c, i, e), ~Refused(c, i, e)
  PROVE  Changes
<1>1. CASE Transactional
  BY <1>1 DEF Put, Changes
<1>2. CASE ~Transactional
  <2>1. entries' = [entries EXCEPT ![i] = e]
    BY <1>2 DEF Put
  <2>2. e = None \/ ~Clashes([entries EXCEPT ![i] = e], i)
    BY <1>2 DEF Refused, Sees
  <2>. QED
    BY <2>1, <2>2 DEF Puts, Changes
<1>. QED
  BY <1>1, <1>2

LEMMA FailChanges == ASSUME NEW c, NEW a, Fail(c, a) PROVE Changes
BY DEF Fail, Changes

LEMMA WriteChanges == ASSUME NEW c, NEW i, NEW e, NEW next, Write(c, i, e, next) PROVE Changes
<1>1. CASE Refused(c, i, e)
  BY <1>1, FailChanges DEF Write
<1>2. CASE ~Refused(c, i, e)
  BY <1>2, PutChanges DEF Write
<1>. QED
  BY <1>1, <1>2

LEMMA StartChanges ==
  ASSUME NEW c \in Calls, Check(c) \/ StopFind(c) \/ StopWrite(c) \/ Insert(c)
  PROVE  Changes
<1>1. CASE Check(c)
  BY <1>1, FailChanges DEF Check, dbVars, Changes
<1>2. CASE StopFind(c)
  BY <1>2 DEF StopFind, Read, dbVars, Changes
<1>3. CASE StopWrite(c)
  BY <1>3, WriteChanges DEF StopWrite, dbVars, Changes
<1>4. CASE Insert(c)
  BY <1>4, FailChanges, WriteChanges DEF Insert, dbVars, Changes
<1>. QED
  BY <1>1, <1>2, <1>3, <1>4

LEMMA GuardChanges ==
  ASSUME NEW c \in Calls, GuardFind(c) \/ GuardWrite(c)
  PROVE  Changes
<1>1. CASE GuardFind(c)
  BY <1>1 DEF GuardFind, dbVars, Changes
<1>2. CASE GuardWrite(c)
  BY <1>2, PutChanges DEF GuardWrite, dbVars, Changes
<1>. QED
  BY <1>1, <1>2

LEMMA AnswerChanges ==
  ASSUME NEW c \in Calls,
         Find(c) \/ Stop(c) \/ Discard(c) \/ Resolve(c) \/ ResolveSpan(c) \/ Edit(c)
  PROVE  Changes
<1>1. CASE Find(c)
  BY <1>1, FailChanges DEF Find, dbVars, Changes
<1>2. CASE Stop(c)
  BY <1>2, FailChanges, WriteChanges DEF Stop
<1>3. CASE Discard(c)
  BY <1>3, WriteChanges DEF Discard
<1>4. CASE Resolve(c)
  BY <1>4, FailChanges, PutChanges, WriteChanges DEF Resolve
<1>5. CASE ResolveSpan(c)
  BY <1>5, WriteChanges DEF ResolveSpan, dbVars, Changes
<1>6. CASE Edit(c)
  BY <1>6, FailChanges, WriteChanges DEF Edit
<1>. QED
  BY <1>1, <1>2, <1>3, <1>4, <1>5, <1>6

LEMMA TransactionChanges ==
  ASSUME NEW c \in Calls, Arrive(c) \/ Commit(c) \/ Retry(c)
  PROVE  Changes
<1>1. CASE Arrive(c)
  BY <1>1 DEF Arrive, Begin, Changes
<1>2. CASE Commit(c)
  BY <1>2 DEF Commit, Commits, CommitsEntries, Changes
<1>3. CASE Retry(c)
  BY <1>3 DEF Retry, Begin, Changes
<1>. QED
  BY <1>1, <1>2, <1>3

-----------------------------------------------------------------------------
(* OneTimer: a person never has two running timers, for any number of      *)
(* requests and workspaces, on a replica set and on a standalone server.   *)
THEOREM OneTimer == Spec => []OneRunning
<1>1. Init => IInv
  <2>. SUFFICES ASSUME Init PROVE IInv
    OBVIOUS
  <2>1. PICK e \in Before : entries = [Nothing EXCEPT ![Old] = e]
    BY DEF Init
  <2>2. DOMAIN entries = Ids /\ entries = [i \in Ids |-> entries[i]]
    BY <2>1 DEF Nothing
  <2>3. \A i \in Ids : i # Old => ~IsRunning(entries, i)
    BY <2>1 DEF Nothing, IsRunning
  <2>. QED
    BY <2>2, <2>3 DEF IInv, OneRunning
<1>2. IInv /\ [Next]_vars => IInv'
  <2>. SUFFICES ASSUME IInv, [Next]_vars PROVE IInv'
    OBVIOUS
  <2>1. CASE UNCHANGED vars
    BY <2>1, ChangeKeeps DEF vars, Changes
  <2>2. ASSUME NEW c \in Calls, Arrive(c) \/ Serve(c)
        PROVE  Changes
    BY <2>2, StartChanges, GuardChanges, AnswerChanges, TransactionChanges DEF Serve
  <2>. QED
    BY <2>1, <2>2, ChangeKeeps DEF Next
<1>3. IInv => OneRunning
  BY DEF IInv
<1>. QED
  BY <1>1, <1>2, <1>3, PTL DEF Spec

-----------------------------------------------------------------------------
(* What a request may make of an entry, whoever else wrote meanwhile.      *)

(* The end of a stopped entry moves by an answer or an edit that gives one *)
(* and, without transactions, by an edit that writes back what it read.    *)
Gives(c, i) ==
  \/ /\ req[c].id = i
     /\ \/ req[c].kind = "resolve" /\ req[c].resolution # "keep"
        \/ req[c].kind = "edit" /\ req[c].end # NotGiven
  \/ /\ ~Transactional
     /\ req[c].kind = "edit"
     /\ req[c].id = None \/ req[c].end = NotGiven

Asking == Transactional \/ Behavior \in {"off", "ask"}

(* A mark stays; it is the same one, where a guard that closes cannot meet *)
(* an entry that was marked since it read it.                              *)
Remarks(old, new) ==
  /\ old.runaway # None => new.runaway # None
  /\ Asking /\ old.runaway # None
       => new.runaway \in {old.runaway, [old.runaway EXCEPT !.resolved = TRUE]}

Alters(c, i, old, new) ==
  /\ old = None => i = c /\ req[c].kind = "start"
  /\ new = None => req[c].kind = "discard" /\ (Transactional => old.end = 0)
  /\ old # None /\ new # None =>
       /\ new.ws = old.ws
       /\ Remarks(old, new)
       /\ old.end # 0 /\ new.end # old.end => Gives(c, i)
  /\ req[c].reach # None => \A e \in {old, new} \ {None} : e.ws = req[c].reach

Makes(c, i, old, new) == old # new => Alters(c, i, old, new)

Starting == {"check", "clear", "clearing", "insert", "clear late", "clearing late", "insert late"}
Judging == {"guard", "guarding"}
Answering == {"stop", "discard", "resolve", "edit"}

(* Where a call holds an entry it read.                                    *)
Holding == {"clearing", "clearing late", "guarding", "resolve closed"} \cup Answering

KindOK(c) ==
  /\ pc[c] \in Starting => req[c].kind = "start"
  /\ pc[c] \in Judging => req[c].kind \in {"start", "look"}
  /\ pc[c] = "find" => req[c].kind \in Answering
  /\ pc[c] \in Answering => req[c].kind = pc[c]
  /\ pc[c] = "resolve closed" => req[c].kind = "resolve"
  /\ pc[c] = "commit" => Transactional

Since(was, now) ==
  now # None => now.ws = was.ws /\ (was.runaway # None => now.runaway # None)

Expected(c, was) ==
  IF pc[c] = "resolve closed" THEN Closed(was, was, ResolvedEnd(req[c], was), None) ELSE was

(* What a call read was fit for what it is at, and is what it still sees   *)
(* in a transaction; without one only the workspace and the mark are.      *)
Holds(c) ==
  LET i == got[c].id
      was == got[c].was
  IN /\ got[c] \in [id : Ids \ {c}, was : Stored]
     /\ req[c].reach \in {None, was.ws}
     /\ Since(was, Sees(c)[i])
     /\ Transactional => Sees(c)[i] = Expected(c, was)
     /\ ~Transactional /\ i \in Calls => pc[i] = "done"
     /\ pc[c] = "guarding" => RunsAway(was, req[c].start)
     /\ pc[c] \in Answering => Accepts(req[c], was) /\ (i = req[c].id \/ (req[c].id = None /\ was.end = 0))
     /\ pc[c] = "resolve closed" => AcceptsResolve(req[c], was)

HeldOK(c) == IF pc[c] \in Holding THEN Holds(c) ELSE got[c] = None

(* A start inserts once, where nothing is.                                 *)
FreshOK(c) ==
  /\ pc[c] # "done" => entries[c] = None
  /\ pc[c] \in Works \ {"commit"} => Sees(c)[c] = None

(* What a transaction makes of its snapshot it makes of the database.      *)
TransactionOK(c) ==
  Transactional =>
    /\ \A i \in Ids : view[c][i] # None => Fits(view[c][i])
    /\ pc[c] \in Works => \A i \in Ids \ stale[c] :
         /\ i \notin wrote[c] => view[c][i] = entries[i]
         /\ Makes(c, i, entries[i], view[c][i])

WorkInv ==
  /\ TypeOK
  /\ DurationsMatch
  /\ \A c \in Calls : KindOK(c) /\ HeldOK(c) /\ FreshOK(c) /\ TransactionOK(c)

-----------------------------------------------------------------------------
LEMMA MarkAnswered ==
  ASSUME NEW m \in Marks
  PROVE  /\ [m EXCEPT !.resolved = TRUE] \in Marks
         /\ [[m EXCEPT !.resolved = TRUE] EXCEPT !.resolved = TRUE] = [m EXCEPT !.resolved = TRUE]
         /\ [m EXCEPT !.resolved = TRUE] # None
BY TimerAssumption DEF Marks

LEMMA Behaviors ==
  ASSUME TypeOK
  PROVE  /\ Transactional \in BOOLEAN
         /\ Limit \in Nat \ {0}
         /\ Behavior \in {"off", "ask", "cap", "stop"}
         /\ Requests \subseteq Asks({q.ws : q \in Requests})
         /\ \A r \in Requests : /\ r.ws \in Workspaces
                                /\ r.kind \in Kinds
                                /\ r.reach \in {None, r.ws}
                                /\ r.id \in Ids \cup {None}
                                /\ r.start \in Int
                                /\ r.end \in Int
                                /\ r.resolution \in {"keep", "cap", "restore", "end-at"}
<1>1. setup \in DOMAIN Setups
  BY DEF TypeOK
<1>2. Requests \subseteq Asks({q.ws : q \in Requests})
  BY <1>1, TimerAssumption DEF Requests
<1>3. \A r \in Requests : r.ws \in Workspaces
  BY <1>1 DEF Requests, Workspaces
<1>4. \A r \in Requests : /\ r.kind \in Kinds
                          /\ r.reach \in {None, r.ws}
                          /\ r.id \in Ids \cup {None}
                          /\ r.start \in Int
                          /\ r.end \in Int
                          /\ r.resolution \in {"keep", "cap", "restore", "end-at"}
  BY <1>2 DEF Asks
<1> QED
  BY <1>1, <1>2, <1>3, <1>4, TimerAssumption DEF Transactional, Behavior

LEMMA RemarksTransitive ==
  ASSUME NEW a \in Stored, NEW b \in Stored, NEW d \in Stored, Remarks(a, b), Remarks(b, d)
  PROVE  Remarks(a, d)
<1>1. a.runaway # None => d.runaway # None
  BY DEF Remarks
<1>2. ASSUME Asking, a.runaway # None
      PROVE  d.runaway \in {a.runaway, [a.runaway EXCEPT !.resolved = TRUE]}
  <2>1. a.runaway \in Marks
    BY <1>2 DEF Stored
  <2> DEFINE m == a.runaway
             n == [m EXCEPT !.resolved = TRUE]
  <2>2. b.runaway \in {m, n}
    BY <1>2 DEF Remarks
  <2>3. d.runaway \in {b.runaway, [b.runaway EXCEPT !.resolved = TRUE]}
    BY <1>2 DEF Remarks
  <2>4. [n EXCEPT !.resolved = TRUE] = n
    BY <2>1, MarkAnswered
  <2> HIDE DEF m, n
  <2>5. d.runaway \in {m, n, [m EXCEPT !.resolved = TRUE]}
    BY <2>2, <2>3, <2>4
  <2> QED BY <2>5 DEF m, n
<1> QED BY <1>1, <1>2 DEF Remarks

LEMMA MakesTransitive ==
  ASSUME NEW c, NEW i, NEW a \in Stored \cup {None}, NEW b \in Stored \cup {None},
         NEW d \in Stored \cup {None}, Makes(c, i, a, b), Makes(c, i, b, d)
  PROVE  Makes(c, i, a, d)
<1>1. CASE a = b \/ b = d
  BY <1>1
<1>2. CASE a # b /\ b # d
  <2>1. Alters(c, i, a, b) /\ Alters(c, i, b, d)
    BY <1>2 DEF Makes
  <2>2. CASE b = None
    BY <1>2, <2>1, <2>2 DEF Alters
  <2>3. CASE b # None
    <3>1. a # None /\ d # None => Remarks(a, d)
      BY <2>1, <2>3, RemarksTransitive DEF Alters
    <3>2. a = None => d # None
      BY <2>1, <2>3 DEF Alters
    <3>3. d = None => req[c].kind = "discard" /\ (Transactional => a.end = 0)
      <4>1. ASSUME d = None PROVE req[c].kind = "discard" /\ a # None
        BY <2>1, <3>2, <4>1 DEF Alters
      <4>2. ASSUME d = None, Transactional PROVE a.end = 0
        <5>1. b.end = 0
          BY <2>1, <4>2 DEF Alters
        <5>2. ~Gives(c, i)
          BY <4>1, <4>2 DEF Gives
        <5> QED BY <2>1, <2>3, <4>1, <4>2, <5>1, <5>2 DEF Alters
      <4> QED BY <4>1, <4>2
    <3>4. ASSUME a # None, d # None, a.end # 0, d.end # a.end PROVE Gives(c, i)
      BY <2>1, <2>3, <3>4 DEF Alters
    <3>5. a # None /\ d # None => d.ws = a.ws
      BY <2>1, <2>3 DEF Alters
    <3>6. a = None => i = c /\ req[c].kind = "start"
      BY <2>1, <2>3 DEF Alters
    <3>7. req[c].reach # None => \A e \in {a, d} \ {None} : e.ws = req[c].reach
      BY <2>1 DEF Alters
    <3> QED BY <3>1, <3>3, <3>4, <3>5, <3>6, <3>7 DEF Alters, Makes
  <2> QED BY <2>2, <2>3
<1> QED BY <1>1, <1>2

-----------------------------------------------------------------------------
(* A command of one call: the call goes on, and the database is left alone,*)
(* or the call fails, or one entry is put.                                 *)

Alone(c) ==
  /\ UNCHANGED <<setup, req>>
  /\ pc[c] \in Works \ {"commit"}
  /\ pc'[c] \in (Works \cup {"done"}) \ {pc[c]}
  /\ pc' = [pc EXCEPT ![c] = pc'[c]]
  /\ got' = [got EXCEPT ![c] = got'[c]]
  /\ answer' = [answer EXCEPT ![c] = answer'[c]]
  /\ answer'[c] \in IF pc'[c] = "done" THEN Answers ELSE {None}

Places(c, i, e) ==
  /\ i \in Ids
  /\ e \in Stored \cup {None}
  /\ Makes(c, i, Sees(c)[i], e)
  /\ Transactional /\ e # None => Fits(e)
  /\ Put(c, i, e)

Gone(c) == pc'[c] = "done" /\ Leave(c) /\ UNCHANGED entries

Effect(c) == UNCHANGED dbVars \/ Gone(c) \/ \E i, e : Places(c, i, e)

Settled(c) ==
  /\ KindOK(c)'
  /\ HeldOK(c)'
  /\ pc'[c] \in Works \ {"commit"} => Sees(c)'[c] = None

Command(c) == Alone(c) /\ Effect(c) /\ Settled(c)

LEMMA EffectEntries ==
  ASSUME TypeOK, NEW c \in Calls, Alone(c), Effect(c)
  PROVE  /\ entries' \in [Ids -> Stored \cup {None}]
         /\ view' \in [Calls -> [Ids -> Stored \cup {None}]]
         /\ wrote' \in [Calls -> SUBSET Ids]
         /\ stale' \in [Calls -> SUBSET Ids]
         /\ Transactional => entries' = entries
         /\ \A d \in Calls \ {c} : view'[d] = view[d] /\ wrote'[d] = wrote[d] /\ stale'[d] = stale[d]
         /\ ~Transactional => \A i \in Ids : Makes(c, i, entries[i], entries'[i])
<1>1. CASE UNCHANGED dbVars
  BY <1>1 DEF dbVars, TypeOK, Makes
<1>2. CASE Gone(c)
  <2>1. Nothing \in [Ids -> Stored \cup {None}]
    BY DEF Nothing
  <2> QED BY <1>2, <2>1 DEF Gone, Leave, TypeOK, Makes
<1>3. ASSUME NEW i, NEW e, Places(c, i, e)
      PROVE  /\ entries' \in [Ids -> Stored \cup {None}]
             /\ view' \in [Calls -> [Ids -> Stored \cup {None}]]
             /\ wrote' \in [Calls -> SUBSET Ids]
             /\ stale' \in [Calls -> SUBSET Ids]
             /\ Transactional => entries' = entries
             /\ \A d \in Calls \ {c} : view'[d] = view[d] /\ wrote'[d] = wrote[d] /\ stale'[d] = stale[d]
             /\ ~Transactional => \A j \in Ids : Makes(c, j, entries[j], entries'[j])
  <2>1. i \in Ids /\ e \in Stored \cup {None} /\ Makes(c, i, Sees(c)[i], e)
    BY <1>3 DEF Places
  <2>2. CASE Transactional
    <3>1. /\ view' = [view EXCEPT ![c] = [view[c] EXCEPT ![i] = e]]
          /\ wrote' = [wrote EXCEPT ![c] = wrote[c] \cup {i}]
          /\ UNCHANGED <<entries, stale>>
      BY <1>3, <2>2 DEF Places, Put
    <3>2. [view[c] EXCEPT ![i] = e] \in [Ids -> Stored \cup {None}]
      BY <2>1 DEF TypeOK
    <3>3. wrote[c] \cup {i} \in SUBSET Ids
      BY <2>1 DEF TypeOK
    <3> QED BY <2>2, <3>1, <3>2, <3>3 DEF TypeOK
  <2>3. CASE ~Transactional
    <3>1. entries' = [entries EXCEPT ![i] = e] /\ UNCHANGED <<view, wrote, stale>>
      BY <1>3, <2>3 DEF Places, Put
    <3>2. Makes(c, i, entries[i], e)
      BY <2>1, <2>3 DEF Sees
    <3>3. ASSUME NEW j \in Ids PROVE Makes(c, j, entries[j], entries'[j])
      BY <2>1, <3>1, <3>2 DEF TypeOK, Makes
    <3> QED BY <2>1, <2>3, <3>1, <3>3 DEF TypeOK
  <2> QED BY <2>2, <2>3
<1> QED BY <1>1, <1>2, <1>3 DEF Effect

LEMMA CommandTypes ==
  ASSUME WorkInv, NEW c \in Calls, Command(c)
  PROVE  TypeOK'
<1>1. TypeOK /\ Alone(c) /\ Effect(c) /\ HeldOK(c)'
  BY DEF WorkInv, Command, Settled
<1>2. got'[c] \in [id : Ids, was : Stored] \cup {None}
  BY <1>1 DEF HeldOK, Holds
<1> DEFINE p == pc'[c]
           a == answer'[c]
<1>2a. /\ pc \in [Calls -> Works \cup {"unsent", "done"}]
       /\ pc' = [pc EXCEPT ![c] = p]
       /\ p \in Works \cup {"unsent", "done"}
       /\ answer \in [Calls -> Answers \cup {None}]
       /\ answer' = [answer EXCEPT ![c] = a]
  BY <1>1 DEF TypeOK, Alone
<1>2b. a \in (Answers \cup {None}) /\ (a # None <=> p = "done")
  <2>1. CASE p = "done"
    BY <1>1, <2>1, TimerAssumption DEF Alone
  <2>2. CASE p # "done"
    BY <1>1, <2>2 DEF Alone
  <2> QED BY <2>1, <2>2
<1> HIDE DEF p, a
<1>3. /\ setup' \in DOMAIN Setups
      /\ req' \in [Calls -> (Requests \cup {None})']
      /\ pc' \in [Calls -> Works \cup {"unsent", "done"}]
      /\ answer' \in [Calls -> Answers \cup {None}]
  <2>1. setup' \in DOMAIN Setups /\ req' \in [Calls -> (Requests \cup {None})']
    BY <1>1 DEF TypeOK, Alone, Requests
  <2>2. pc' \in [Calls -> Works \cup {"unsent", "done"}]
    BY <1>2a
  <2>3. answer' \in [Calls -> Answers \cup {None}]
    BY <1>2a, <1>2b
  <2> QED BY <2>1, <2>2, <2>3
<1>4. got' \in [Calls -> [id : Ids, was : Stored] \cup {None}]
  <2> DEFINE R == [id : Ids, was : Stored] \cup {None}
             x == got'[c]
  <2>1. got \in [Calls -> R] /\ got' = [got EXCEPT ![c] = x] /\ x \in R
    BY <1>1, <1>2 DEF TypeOK, Alone
  <2> HIDE DEF R, x
  <2>2. got' \in [Calls -> R]
    BY <2>1
  <2> QED BY <2>2 DEF R
<1>5. \A d \in Calls : (pc[d] # "unsent" => req[d] \in Requests)'
  BY <1>1 DEF TypeOK, Alone, Requests, Works
<1>6. \A d \in Calls : (answer[d] # None <=> pc[d] = "done")'
  <2>1. \A d \in Calls \ {c} : answer'[d] = answer[d] /\ pc'[d] = pc[d]
    BY <1>2a
  <2>2. answer'[c] = a /\ pc'[c] = p
    BY <1>2a
  <2> QED BY <1>1, <1>2b, <2>1, <2>2 DEF TypeOK
<1>7. /\ entries' \in [Ids -> Stored \cup {None}]
      /\ view' \in [Calls -> [Ids -> Stored \cup {None}]]
      /\ wrote' \in [Calls -> SUBSET Ids]
      /\ stale' \in [Calls -> SUBSET Ids]
  BY <1>1, EffectEntries
<1> QED BY <1>3, <1>4, <1>5, <1>6, <1>7 DEF TypeOK

LEMMA CommandOthers ==
  ASSUME WorkInv, NEW c \in Calls, Command(c), NEW d \in Calls, d # c
  PROVE  KindOK(d)' /\ HeldOK(d)' /\ FreshOK(d)' /\ TransactionOK(d)'
<1>1. TypeOK /\ Alone(c) /\ Effect(c) /\ KindOK(d) /\ HeldOK(d) /\ FreshOK(d) /\ TransactionOK(d)
  BY DEF WorkInv, Command
<1>2. /\ setup' = setup /\ req' = req
      /\ pc'[d] = pc[d] /\ got'[d] = got[d] /\ answer'[d] = answer[d]
      /\ \A x \in Calls : pc[x] = "done" => pc'[x] = "done"
  BY <1>1 DEF Alone, TypeOK, Works
<1>3. Transactional' = Transactional /\ Behavior' = Behavior
  BY <1>2 DEF Transactional, Behavior
<1>4. /\ view'[d] = view[d] /\ wrote'[d] = wrote[d] /\ stale'[d] = stale[d]
      /\ Transactional => entries' = entries
      /\ ~Transactional => \A i \in Ids : Makes(c, i, entries[i], entries'[i])
      /\ entries' \in [Ids -> Stored \cup {None}]
  BY <1>1, EffectEntries
<1>5. KindOK(d)'
  BY <1>1, <1>2, <1>3 DEF KindOK
<1>6. FreshOK(d)'
  <2>1. CASE Transactional
    BY <1>1, <1>2, <1>3, <1>4, <2>1 DEF FreshOK, Sees
  <2>2. CASE ~Transactional
    <3>1. pc[d] # "done" => entries'[d] = None
      <4>1. entries[d] = None => entries'[d] = None
        BY <1>4, <2>2 DEF Makes, Alters, Ids
      <4> QED BY <1>1, <4>1 DEF FreshOK
    <3>2. Sees(d)' = entries'
      BY <1>3, <2>2 DEF Sees
    <3> QED BY <1>2, <3>1, <3>2 DEF FreshOK, Works
  <2> QED BY <2>1, <2>2
<1>7. TransactionOK(d)'
  <2>1. CASE Transactional
    <3>1. \A i \in Ids : Makes(d, i, entries[i], view[d][i])' <=> Makes(d, i, entries[i], view[d][i])
      BY <1>2, <1>3, <1>4, <2>1 DEF Makes, Alters, Gives, Remarks, Asking
    <3> QED BY <1>1, <1>2, <1>3, <1>4, <2>1, <3>1 DEF TransactionOK
  <2>2. CASE ~Transactional
    BY <1>3, <2>2 DEF TransactionOK
  <2> QED BY <2>1, <2>2
<1>8. HeldOK(d)'
  <2>1. CASE pc[d] \notin Holding
    BY <1>1, <1>2, <2>1 DEF HeldOK
  <2>2. CASE pc[d] \in Holding
    <3>1. Holds(d)
      BY <1>1, <2>2 DEF HeldOK
    <3> DEFINE i == got[d].id
               was == got[d].was
    <3>2. i \in Ids /\ i # d /\ was \in Stored
      BY <3>1 DEF Holds
    <3>3. Since(was, Sees(d)'[i])
      <4>1. CASE Transactional
        BY <1>3, <1>4, <3>1, <4>1 DEF Holds, Sees
      <4>2. CASE ~Transactional
        <5>1. Sees(d)' = entries' /\ Sees(d) = entries
          BY <1>3, <4>2 DEF Sees
        <5>2. Since(was, entries[i])
          BY <3>1, <5>1 DEF Holds
        <5>3. Makes(c, i, entries[i], entries'[i])
          BY <1>4, <3>2, <4>2
        <5>4. ASSUME entries[i] = None PROVE entries'[i] = None
          <6>1. i = c => pc[c] = "done"
            BY <3>1, <4>2 DEF Holds
          <6>2. pc[c] # "done"
            BY <1>1 DEF Alone, Works
          <6> QED BY <5>3, <5>4, <6>1, <6>2 DEF Makes, Alters
        <5>5. ASSUME entries[i] # None, entries'[i] # None
              PROVE  entries'[i].ws = entries[i].ws /\ (entries[i].runaway # None => entries'[i].runaway # None)
          BY <5>3, <5>5 DEF Makes, Alters, Remarks
        <5> QED BY <5>1, <5>2, <5>4, <5>5 DEF Since
      <4> QED BY <4>1, <4>2
    <3>4. Transactional => Sees(d)' = Sees(d)
      BY <1>3, <1>4 DEF Sees
    <3>5. Expected(d, was)' = Expected(d, was)
      BY <1>2 DEF Expected, Closed, ResolvedEnd, Between, Later
    <3>6. Holds(d)'
      <4>1. RunsAway(was, req[d].start)' = RunsAway(was, req[d].start)
        BY <1>2, <1>3 DEF RunsAway, RunsAwayAgain
      <4>2. ~Transactional /\ i \in Calls => pc'[i] = "done"
        BY <1>2, <3>1 DEF Holds
      <4>3. /\ req'[d].reach \in {None, was.ws}
            /\ (Transactional => Sees(d)'[i] = Expected(d, was))
        BY <1>2, <3>1, <3>4 DEF Holds
      <4>4. /\ (pc[d] = "guarding" => RunsAway(was, req[d].start))
            /\ (pc[d] \in Answering => Accepts(req[d], was) /\ (i = req[d].id \/ (req[d].id = None /\ was.end = 0)))
            /\ (pc[d] = "resolve closed" => AcceptsResolve(req[d], was))
            /\ got[d] \in [id : Ids \ {d}, was : Stored]
        BY <3>1 DEF Holds
      <4> QED BY <1>2, <1>3, <3>3, <3>5, <4>1, <4>2, <4>3, <4>4 DEF Holds
    <3> QED BY <1>2, <2>2, <3>6 DEF HeldOK
  <2> QED BY <2>1, <2>2
<1> QED BY <1>5, <1>6, <1>7, <1>8

LEMMA CommandSelf ==
  ASSUME WorkInv, NEW c \in Calls, Command(c)
  PROVE  FreshOK(c)' /\ TransactionOK(c)' /\ DurationsMatch'
<1>1. /\ TypeOK /\ Alone(c) /\ Effect(c) /\ Settled(c)
      /\ FreshOK(c) /\ TransactionOK(c) /\ DurationsMatch
  BY DEF WorkInv, Command
<1>2. /\ setup' = setup /\ req' = req
      /\ pc[c] \in Works /\ pc[c] # "commit" /\ pc[c] # "done"
      /\ pc'[c] \in Works \cup {"done"}
  BY <1>1 DEF Alone, Works
<1>3. Transactional' = Transactional /\ Behavior' = Behavior
  BY <1>2 DEF Transactional, Behavior
<1>4. Transactional => entries' = entries
  BY <1>1, EffectEntries
<1>5. FreshOK(c)'
  <2>1. ASSUME pc'[c] # "done" PROVE entries'[c] = None
    <3>1. CASE Transactional
      BY <1>1, <1>2, <1>4, <3>1 DEF FreshOK
    <3>2. CASE ~Transactional
      <4>1. pc'[c] # "commit"
        BY <1>1, <1>3, <3>2 DEF Settled, KindOK
      <4>2. Sees(c)'[c] = None
        BY <1>1, <1>2, <2>1, <4>1 DEF Settled
      <4> QED BY <1>3, <3>2, <4>2 DEF Sees
    <3> QED BY <3>1, <3>2
  <2> QED BY <1>1, <2>1 DEF Settled, FreshOK
<1>6. TransactionOK(c)'
  <2> SUFFICES ASSUME Transactional
               PROVE  /\ \A i \in Ids : view'[c][i] # None => Fits(view'[c][i])
                      /\ pc'[c] \in Works => \A i \in Ids \ stale'[c] :
                           /\ i \notin wrote'[c] => view'[c][i] = entries[i]
                           /\ Makes(c, i, entries[i], view'[c][i])
    <3>1. Transactional => \A i, x : Makes(c, i, entries[i], x) => Makes(c, i, entries[i], x)'
      BY <1>2, <1>3, <1>4 DEF Makes, Alters, Gives, Remarks, Asking
    <3> QED BY <1>3, <1>4, <3>1 DEF TransactionOK
  <2>1. /\ \A i \in Ids : view[c][i] # None => Fits(view[c][i])
        /\ \A i \in Ids \ stale[c] :
             /\ i \notin wrote[c] => view[c][i] = entries[i]
             /\ Makes(c, i, entries[i], view[c][i])
    BY <1>1, <1>2 DEF TransactionOK
  <2>2. CASE UNCHANGED dbVars
    BY <2>1, <2>2 DEF dbVars
  <2>3. CASE Gone(c)
    <3>1. pc'[c] \notin Works
      BY <2>3 DEF Gone, Works
    <3>2. view'[c] = Nothing
      BY <1>1, <2>3 DEF Gone, Leave, TypeOK
    <3> QED BY <3>1, <3>2 DEF Nothing
  <2>4. ASSUME NEW i, NEW e, Places(c, i, e)
        PROVE  /\ \A j \in Ids : view'[c][j] # None => Fits(view'[c][j])
               /\ \A j \in Ids \ stale'[c] :
                    /\ j \notin wrote'[c] => view'[c][j] = entries[j]
                    /\ Makes(c, j, entries[j], view'[c][j])
    <3>1. /\ i \in Ids /\ e \in Stored \cup {None}
          /\ Makes(c, i, view[c][i], e)
          /\ e # None => Fits(e)
      BY <2>4 DEF Places, Sees
    <3>2. /\ view'[c] = [view[c] EXCEPT ![i] = e]
          /\ wrote'[c] = wrote[c] \cup {i}
          /\ stale'[c] = stale[c]
      BY <1>1, <2>4 DEF Places, Put, TypeOK
    <3>3. view[c] \in [Ids -> Stored \cup {None}] /\ entries \in [Ids -> Stored \cup {None}]
      BY <1>1 DEF TypeOK
    <3>4. view'[c][i] = e /\ \A j \in Ids \ {i} : view'[c][j] = view[c][j]
      BY <3>1, <3>2, <3>3
    <3>5. i \notin stale[c] => Makes(c, i, entries[i], e)
      <4>1. i \notin stale[c] => Makes(c, i, entries[i], view[c][i])
        BY <2>1, <3>1
      <4> QED BY <3>1, <3>3, <4>1, MakesTransitive
    <3> QED BY <2>1, <3>1, <3>2, <3>4, <3>5
  <2> QED BY <1>1, <2>2, <2>3, <2>4 DEF Effect
<1>7. DurationsMatch'
  BY <1>1, <1>3, <1>4 DEF DurationsMatch
<1> QED BY <1>5, <1>6, <1>7

LEMMA CommandKeeps ==
  ASSUME WorkInv, NEW c \in Calls, Command(c)
  PROVE  WorkInv'
<1>1. TypeOK'
  BY CommandTypes
<1>2. KindOK(c)' /\ HeldOK(c)'
  BY DEF Command, Settled
<1>3. FreshOK(c)' /\ TransactionOK(c)' /\ DurationsMatch'
  BY CommandSelf
<1>4. \A d \in Calls \ {c} : KindOK(d)' /\ HeldOK(d)' /\ FreshOK(d)' /\ TransactionOK(d)'
  BY CommandOthers
<1> QED BY <1>1, <1>2, <1>3, <1>4 DEF WorkInv

-----------------------------------------------------------------------------
(* How the commands end: the call fails, goes on, holds what it read, or    *)
(* writes and goes on.                                                     *)

LEMMA FailCommand ==
  ASSUME WorkInv, NEW c \in Calls, NEW a \in Answers, pc[c] \in Works \ {"commit"},
         UNCHANGED <<setup, req>>, Fail(c, a)
  PROVE  Command(c)
<1>1. TypeOK
  BY DEF WorkInv
<1>2. pc'[c] = "done" /\ got'[c] = None /\ answer'[c] = a
  BY <1>1 DEF Fail, Goto, Forget, TypeOK
<1>3. Alone(c)
  BY <1>1, <1>2 DEF Alone, Fail, Goto, Forget, TypeOK, Works
<1>4. Effect(c)
  BY <1>2 DEF Effect, Gone, Fail
<1>5. Settled(c)
  BY <1>2 DEF Settled, KindOK, HeldOK, Starting, Judging, Answering, Holding, Works
<1> QED BY <1>3, <1>4, <1>5 DEF Command

(* Where a command that holds nothing goes on.                             *)
Onward(c, s) ==
  /\ s \in {"guard", "clear", "clear late", "insert", "insert late", "end"} \ {pc[c]}
  /\ s \in {"clear", "clear late", "insert", "insert late"} => req[c].kind = "start"
  /\ s = "guard" => req[c].kind \in {"start", "look"}

LEMMA GoSettles ==
  ASSUME WorkInv, NEW c \in Calls, pc[c] \in Works \ {"commit"}, NEW s, Onward(c, s),
         UNCHANGED <<setup, req>>, Go(c, s), got' = [got EXCEPT ![c] = None],
         s # "end" => Sees(c)'[c] = None
  PROVE  Alone(c) /\ Settled(c)
<1>1. TypeOK
  BY DEF WorkInv
<1>2. Transactional \in BOOLEAN /\ Transactional' = Transactional
  BY <1>1, Behaviors DEF Transactional
<1>3. got'[c] = None
  BY <1>1 DEF TypeOK
<1>4. CASE s # "end"
  <2>1. pc' = [pc EXCEPT ![c] = s] /\ pc'[c] = s /\ answer' = answer
    BY <1>1, <1>4 DEF Go, Goto, TypeOK
  <2>2. answer[c] = None
    BY <1>1 DEF TypeOK, Works
  <2>3. s \in {"guard", "clear", "clear late", "insert", "insert late"} /\ s # pc[c]
    BY <1>4 DEF Onward
  <2>4. Alone(c)
    BY <1>1, <1>3, <2>1, <2>2, <2>3 DEF Alone, TypeOK, Works
  <2>5. Settled(c)
    BY <1>3, <1>4, <2>1, <2>3
       DEF Onward, Settled, KindOK, HeldOK, Starting, Judging, Answering, Holding, Works
  <2> QED BY <2>4, <2>5
<1>5. CASE s = "end" /\ Transactional
  <2>1. pc' = [pc EXCEPT ![c] = "commit"] /\ pc'[c] = "commit" /\ answer' = answer
    BY <1>1, <1>5 DEF Go, Goto, TypeOK
  <2>2. answer[c] = None
    BY <1>1 DEF TypeOK, Works
  <2>3. Alone(c)
    BY <1>1, <1>3, <2>1, <2>2 DEF Alone, TypeOK, Works
  <2>4. Settled(c)
    BY <1>2, <1>3, <1>5, <2>1 DEF Settled, KindOK, HeldOK, Starting, Judging, Answering, Holding
  <2> QED BY <2>3, <2>4
<1>6. CASE s = "end" /\ ~Transactional
  <2>1. pc' = [pc EXCEPT ![c] = "done"] /\ pc'[c] = "done" /\ answer' = [answer EXCEPT ![c] = "ok"]
    BY <1>1, <1>6 DEF Go, Goto, TypeOK
  <2>2. Alone(c)
    BY <1>1, <1>3, <2>1 DEF Alone, TypeOK, Works, Answers
  <2>3. Settled(c)
    BY <1>3, <2>1 DEF Settled, KindOK, HeldOK, Starting, Judging, Answering, Holding, Works
  <2> QED BY <2>2, <2>3
<1> QED BY <1>2, <1>4, <1>5, <1>6

LEMMA GoCommand ==
  ASSUME WorkInv, NEW c \in Calls, pc[c] \in Works \ {"commit"}, NEW s, Onward(c, s),
         UNCHANGED <<setup, req>>, Go(c, s), got' = [got EXCEPT ![c] = None], UNCHANGED dbVars
  PROVE  Command(c)
<1>1. Sees(c)'[c] = None
  BY DEF WorkInv, FreshOK, Sees, Transactional, dbVars
<1>2. Alone(c) /\ Settled(c)
  BY <1>1, GoSettles
<1> QED BY <1>2 DEF Command, Effect

LEMMA PlaceSees ==
  ASSUME TypeOK, NEW c \in Calls, NEW i, NEW e, Places(c, i, e), UNCHANGED setup
  PROVE  \A j \in Ids : Sees(c)'[j] = IF j = i THEN e ELSE Sees(c)[j]
<1>1. Transactional \in BOOLEAN /\ Transactional' = Transactional
  BY Behaviors DEF Transactional
<1>2. CASE Transactional
  <2>1. view'[c] = [view[c] EXCEPT ![i] = e]
    BY <1>2 DEF Places, Put, TypeOK
  <2>2. Sees(c)' = view'[c] /\ Sees(c) = view[c]
    BY <1>1, <1>2 DEF Sees
  <2> QED BY <2>1, <2>2 DEF TypeOK
<1>3. CASE ~Transactional
  <2>1. entries' = [entries EXCEPT ![i] = e]
    BY <1>3 DEF Places, Put
  <2>2. Sees(c)' = entries' /\ Sees(c) = entries
    BY <1>1, <1>3 DEF Sees
  <2> QED BY <2>1, <2>2 DEF TypeOK
<1> QED BY <1>1, <1>2, <1>3

LEMMA PlaceCommand ==
  ASSUME WorkInv, NEW c \in Calls, pc[c] \in Works \ {"commit"}, NEW s, Onward(c, s),
         UNCHANGED <<setup, req>>, Go(c, s), got' = [got EXCEPT ![c] = None],
         NEW i, NEW e, Places(c, i, e), s # "end" => i # c
  PROVE  Command(c)
<1>1. s # "end" => Sees(c)'[c] = None
  <2>1. Sees(c)[c] = None /\ c \in Ids
    BY DEF WorkInv, FreshOK, Ids
  <2> QED BY <2>1, PlaceSees DEF WorkInv
<1>2. Alone(c) /\ Settled(c)
  BY <1>1, GoSettles
<1> QED BY <1>2 DEF Command, Effect

(* A write that is refused fails the call.                                 *)
LEMMA WriteCommand ==
  ASSUME WorkInv, NEW c \in Calls, pc[c] \in Works \ {"commit"}, NEW s, Onward(c, s),
         UNCHANGED <<setup, req>>, NEW i \in Ids, NEW e \in Stored \cup {None},
         s # "end" => i # c,
         Makes(c, i, Sees(c)[i], e),
         Transactional /\ e # None /\ ~Refused(c, i, e) => Fits(e),
         Write(c, i, e, s)
  PROVE  Command(c)
<1>1. CASE Refused(c, i, e)
  <2>1. Fail(c, "conflict") /\ "conflict" \in Answers
    BY <1>1 DEF Write, Answers
  <2> QED BY <2>1, FailCommand
<1>2. CASE ~Refused(c, i, e)
  <2>1. Go(c, s) /\ got' = [got EXCEPT ![c] = None] /\ Places(c, i, e)
    BY <1>2 DEF Write, Forget, Places
  <2> QED BY <2>1, PlaceCommand
<1> QED BY <1>1, <1>2

(* A call that reads an entry holds it.                                    *)
LEMMA KeepCommand ==
  ASSUME WorkInv, NEW c \in Calls, pc[c] \in Works \ {"commit"},
         UNCHANGED <<setup, req, answer, dbVars>>,
         NEW s \in Holding \ {"resolve closed", pc[c]}, Goto(c, s),
         s \in Starting => req[c].kind = "start",
         s = "guarding" => req[c].kind \in {"start", "look"},
         s \in Answering => req[c].kind = s,
         NEW i \in Ids, Sees(c)[i] # None, Reachable(c, Sees(c)[i]), Keep(c, i),
         s = "guarding" => RunsAway(Sees(c)[i], req[c].start),
         s \in Answering => /\ Accepts(req[c], Sees(c)[i])
                            /\ i = req[c].id \/ (req[c].id = None /\ Sees(c)[i].end = 0)
  PROVE  Command(c)
<1>1. TypeOK /\ FreshOK(c) /\ \A d \in Calls : FreshOK(d)
  BY DEF WorkInv
<1>2. /\ Transactional \in BOOLEAN /\ Transactional' = Transactional
      /\ Behavior' = Behavior /\ Sees(c)' = Sees(c)
  BY <1>1, Behaviors DEF Transactional, Behavior, Sees, dbVars
<1>3. pc' = [pc EXCEPT ![c] = s] /\ pc'[c] = s /\ answer' = answer
  BY <1>1 DEF Goto, TypeOK
<1>4. got' = [got EXCEPT ![c] = got'[c]] /\ got'[c] = [id |-> i, was |-> Sees(c)[i]]
  BY <1>1 DEF Keep, TypeOK
<1>5. Sees(c) \in [Ids -> Stored \cup {None}]
  BY <1>1 DEF TypeOK, Sees
<1>6. i # c
  BY <1>1 DEF FreshOK
<1>7. s \in Works \ {"commit"}
  BY DEF Holding, Answering, Works
<1>8. Alone(c)
  <2>1. answer[c] = None
    BY <1>1 DEF TypeOK, Works
  <2>2. s # "done"
    BY DEF Holding, Answering
  <2> QED BY <1>1, <1>3, <1>4, <1>7, <2>1, <2>2 DEF Alone, TypeOK
<1>9. Holds(c)'
  <2>1. got'[c].id = i /\ got'[c].was = Sees(c)[i] /\ got'[c] \in [id : Ids \ {c}, was : Stored]
    <3> DEFINE x == Sees(c)[i]
               g == got'[c]
    <3>1. x \in Stored /\ i \in Ids \ {c} /\ g = [id |-> i, was |-> x]
      BY <1>4, <1>5, <1>6
    <3> HIDE DEF x, g
    <3>2. g.id = i /\ g.was = x /\ g \in [id : Ids \ {c}, was : Stored]
      BY <3>1
    <3> QED BY <3>2 DEF x, g
  <2>2. req'[c].reach \in {None, Sees(c)[i].ws}
    BY DEF Reachable
  <2>3. Since(Sees(c)[i], Sees(c)[i])
    BY DEF Since
  <2>4. Expected(c, Sees(c)[i])' = Sees(c)[i]
    BY <1>2, <1>3 DEF Expected
  <2>5. ASSUME ~Transactional, i \in Calls PROVE pc'[i] = "done"
    BY <1>1, <1>3, <1>6, <2>5 DEF FreshOK, Sees, TypeOK
  <2>6. RunsAway(Sees(c)[i], req[c].start) => RunsAway(Sees(c)[i], req[c].start)'
    BY <1>2 DEF RunsAway, RunsAwayAgain
  <2> QED BY <1>2, <1>3, <2>1, <2>2, <2>3, <2>4, <2>5, <2>6 DEF Holds
<1>10. Settled(c)
  <2>1. KindOK(c)'
    <3>1. req'[c].kind = req[c].kind
      OBVIOUS
    <3>2. s # "commit" /\ s # "find" /\ s # "guard" /\ s # "resolve closed"
      BY DEF Holding, Answering
    <3> QED BY <1>3, <3>1, <3>2 DEF KindOK, Judging
  <2>2. HeldOK(c)'
    BY <1>3, <1>9 DEF HeldOK
  <2> QED BY <1>1, <1>2, <2>1, <2>2 DEF Settled, FreshOK
<1> QED BY <1>8, <1>10 DEF Command, Effect

-----------------------------------------------------------------------------
(* What the writes make of an entry.                                       *)

LEMMA BetweenType ==
  ASSUME NEW a \in Int, NEW b \in Int
  PROVE  /\ Between(a, b) \in Nat
         /\ Later(a, b) \in Int
         /\ a <= b => Between(a, b) = b - a
BY DEF Between, Later

LEMMA StoredFields ==
  ASSUME NEW e \in Stored
  PROVE  /\ e # None
         /\ e.ws \in Workspaces /\ e.start \in Int /\ e.end \in Int /\ e.duration \in Int
         /\ e.runaway \in Marks \cup {None}
BY TimerAssumption DEF Stored

LEMMA ClosedType ==
  ASSUME NEW e \in Stored, NEW was \in Stored, NEW end \in Int, NEW m \in Marks \cup {None}
  PROVE  LET new == Closed(e, was, end, m)
         IN /\ new \in Stored
            /\ new.ws = e.ws /\ new.start = e.start /\ new.end = end
            /\ new.duration = Between(was.start, end)
            /\ new.runaway = IF m = None THEN e.runaway ELSE m
<1>1. Between(was.start, end) \in Int
  BY BetweenType DEF Stored
<1> QED BY <1>1 DEF Closed, Stored

LEMMA SpanType ==
  ASSUME NEW e \in Stored, NEW was, NEW start \in Int, NEW end \in Int
  PROVE  LET new == Span(e, was, start, end)
         IN /\ new \in Stored
            /\ new.ws = e.ws /\ new.start = start /\ new.end = end
            /\ new.duration = IF end = 0 THEN 0 ELSE Between(start, end)
            /\ new.runaway = e.runaway
<1>1. (IF end = 0 THEN 0 ELSE Between(start, end)) \in Int
  BY BetweenType
<1> QED BY <1>1 DEF Span, Stored

LEMMA AnsweredType ==
  ASSUME NEW e \in Stored, e.runaway # None
  PROVE  LET new == Answered(e)
         IN /\ new \in Stored
            /\ new.ws = e.ws /\ new.start = e.start /\ new.end = e.end /\ new.duration = e.duration
            /\ new.runaway = [e.runaway EXCEPT !.resolved = TRUE]
<1> DEFINE m == [e.runaway EXCEPT !.resolved = TRUE]
<1>1. m \in Marks
  BY MarkAnswered DEF Stored
<1>2. Answered(e) = [e EXCEPT !.runaway = m]
  BY DEF Answered, Stored
<1> HIDE DEF m
<1>3. LET new == [e EXCEPT !.runaway = m]
      IN /\ new \in Stored
         /\ new.ws = e.ws /\ new.start = e.start /\ new.end = e.end /\ new.duration = e.duration
         /\ new.runaway = m
  BY <1>1 DEF Stored
<1> QED BY <1>2, <1>3 DEF m

LEMMA UpdateMakes ==
  ASSUME NEW c, NEW i, NEW now \in Stored, NEW e \in Stored,
         e.ws = now.ws, req[c].reach \in {None, now.ws},
         \/ e.runaway = now.runaway
         \/ now.runaway # None /\ e.runaway = [now.runaway EXCEPT !.resolved = TRUE]
         \/ now.runaway = None \/ (~Asking /\ e.runaway # None),
         now.end # 0 /\ e.end # now.end => Gives(c, i)
  PROVE  Makes(c, i, now, e)
<1>1. now # None /\ e # None
  BY StoredFields
<1>2. Remarks(now, e)
  <2>1. ASSUME now.runaway # None
        PROVE  /\ e.runaway # None
               /\ Asking => e.runaway \in {now.runaway, [now.runaway EXCEPT !.resolved = TRUE]}
    <3>1. now.runaway \in Marks
      BY <2>1 DEF Stored
    <3> QED BY <2>1, <3>1, MarkAnswered
  <2> QED BY <2>1 DEF Remarks
<1> QED BY <1>1, <1>2 DEF Makes, Alters

LEMMA NotRefused ==
  ASSUME NEW c, NEW i, NEW e \in Stored, ~Refused(c, i, e)
  PROVE  e.end # 0 => e.start <= e.end
BY StoredFields DEF Refused

LEMMA ClosedFits ==
  ASSUME NEW c, NEW i, NEW e \in Stored, NEW end \in Int, NEW m \in Marks \cup {None},
         ~Refused(c, i, Closed(e, e, end, m))
  PROVE  Fits(Closed(e, e, end, m))
<1> DEFINE new == Closed(e, e, end, m)
<1>1. new \in Stored /\ new.start = e.start /\ new.end = end /\ new.duration = Between(e.start, end)
  BY ClosedType
<1>2. ~Refused(c, i, new)
  OBVIOUS
<1>3. e.start \in Int
  BY StoredFields
<1> HIDE DEF new
<1>4. new.end # 0 => e.start <= end
  BY <1>1, <1>2, NotRefused
<1>5. Fits(new)
  BY <1>1, <1>3, <1>4, BetweenType DEF Fits
<1> QED BY <1>5 DEF new

-----------------------------------------------------------------------------
(* What a command may rely on.                                             *)

LEMMA Serving ==
  ASSUME WorkInv, NEW c \in Calls, pc[c] \in Works \ {"commit"}
  PROVE  /\ TypeOK
         /\ Sees(c) \in [Ids -> Stored \cup {None}]
         /\ c \in Ids /\ Sees(c)[c] = None
         /\ KindOK(c)
         /\ req[c] \in Requests
         /\ req[c].ws \in Workspaces /\ req[c].start \in Int /\ req[c].end \in Int
         /\ req[c].kind \in Kinds /\ req[c].reach \in {None, req[c].ws}
<1>1. TypeOK /\ KindOK(c) /\ FreshOK(c)
  BY DEF WorkInv
<1>2. req[c] \in Requests
  BY <1>1 DEF TypeOK, Works
<1>3. Sees(c) \in [Ids -> Stored \cup {None}]
  BY <1>1 DEF Sees, TypeOK
<1>4. c \in Ids /\ Sees(c)[c] = None
  BY <1>1 DEF FreshOK, Ids
<1>5. /\ req[c].ws \in Workspaces /\ req[c].start \in Int /\ req[c].end \in Int
      /\ req[c].kind \in Kinds /\ req[c].reach \in {None, req[c].ws}
  BY <1>1, <1>2, Behaviors
<1> QED BY <1>1, <1>2, <1>3, <1>4, <1>5

LEMMA Held ==
  ASSUME WorkInv, NEW c \in Calls, pc[c] \in Holding
  PROVE  LET i == got[c].id
             was == got[c].was
             now == Sees(c)[i]
         IN /\ i \in Ids /\ i # c
            /\ was \in Stored
            /\ now \in Stored \cup {None}
            /\ now # None => now \in Stored /\ req[c].reach \in {None, now.ws}
            /\ now # None /\ was.runaway # None => now.runaway # None
            /\ Transactional => now = Expected(c, was)
            /\ pc[c] = "guarding" => RunsAway(was, req[c].start)
            /\ pc[c] \in Answering => Accepts(req[c], was) /\ (i = req[c].id \/ (req[c].id = None /\ was.end = 0))
            /\ pc[c] = "resolve closed" => AcceptsResolve(req[c], was)
<1>1. Holds(c)
  BY DEF WorkInv, HeldOK
<1>2. pc[c] \in Works \ {"commit"}
  BY DEF Holding, Answering, Works
<1>3. got[c].id \in Ids /\ got[c].id # c /\ got[c].was \in Stored
  BY <1>1 DEF Holds
<1>4. Sees(c)[got[c].id] \in Stored \cup {None}
  BY <1>2, <1>3, Serving
<1> QED BY <1>1, <1>3, <1>4 DEF Holds, Since

-----------------------------------------------------------------------------
(* Every command of a handler is one.                                      *)

LEMMA CheckCommand ==
  ASSUME WorkInv, NEW c \in Calls, Check(c), UNCHANGED setup
  PROVE  Command(c)
<1>1. pc[c] = "check" /\ pc[c] \in Works \ {"commit"} /\ UNCHANGED req
  BY DEF Check, Works
<1>2. TypeOK /\ KindOK(c) /\ HeldOK(c)
  BY DEF WorkInv
<1>3. CASE Fail(c, "conflict")
  BY <1>1, <1>3, FailCommand DEF Answers
<1>4. CASE Goto(c, "guard") /\ UNCHANGED <<got, answer, dbVars>>
  <2>1. Onward(c, "guard")
    BY <1>1, <1>2 DEF Onward, KindOK, Starting
  <2>2. Go(c, "guard")
    BY <1>4 DEF Go
  <2>3. got' = [got EXCEPT ![c] = None]
    BY <1>1, <1>2, <1>4 DEF HeldOK, Holding, Answering, TypeOK
  <2> QED BY <1>1, <1>4, <2>1, <2>2, <2>3, GoCommand
<1> QED BY <1>3, <1>4 DEF Check

LEMMA StopFindCommand ==
  ASSUME WorkInv, NEW c \in Calls, StopFind(c), UNCHANGED setup
  PROVE  Command(c)
<1> DEFINE found == IF pc[c] = "clear" THEN "clearing" ELSE "clearing late"
           missing == IF pc[c] = "clear" THEN "insert" ELSE "insert late"
<1>1. pc[c] \in {"clear", "clear late"} /\ Read(c, InReach(c), found, missing)
  BY DEF StopFind
<1>2. pc[c] \in Works \ {"commit"}
  BY <1>1 DEF Works
<1>3. TypeOK /\ KindOK(c) /\ HeldOK(c) /\ req[c].kind = "start"
  BY <1>1 DEF WorkInv, KindOK, Starting
<1>4. UNCHANGED <<setup, req, answer, dbVars>>
  BY <1>1 DEF Read
<1>5. CASE InReach(c) = {}
  <2>1. Goto(c, missing) /\ UNCHANGED got
    BY <1>1, <1>5 DEF Read
  <2>2. Go(c, missing) /\ Onward(c, missing)
    BY <1>1, <1>3, <1>4, <2>1 DEF Go, Onward
  <2>3. got' = [got EXCEPT ![c] = None]
    BY <1>1, <1>3, <2>1 DEF HeldOK, Holding, Answering, TypeOK
  <2> QED BY <1>2, <1>4, <2>2, <2>3, GoCommand
<1>6. CASE InReach(c) # {}
  <2>1. Goto(c, found) /\ \E i \in InReach(c) : Keep(c, i)
    BY <1>1, <1>6 DEF Read
  <2>2. PICK i \in InReach(c) : Keep(c, i)
    BY <2>1
  <2>3. i \in Ids /\ Sees(c)[i] # None /\ Reachable(c, Sees(c)[i])
    BY DEF InReach, IsRunning
  <2>4. found \in Holding \ {"resolve closed", pc[c]} /\ found # "guarding" /\ found \notin Answering
    BY <1>1 DEF Holding, Answering
  <2> HIDE DEF found
  <2> QED BY <1>2, <1>3, <1>4, <2>1, <2>2, <2>3, <2>4, KeepCommand
<1> QED BY <1>5, <1>6

LEMMA StopWriteCommand ==
  ASSUME WorkInv, NEW c \in Calls, StopWrite(c), UNCHANGED setup
  PROVE  Command(c)
<1> DEFINE i == got[c].id
           was == got[c].was
           now == Sees(c)[i]
           next == IF pc[c] = "clearing" THEN "insert" ELSE "insert late"
           end == Later(req[c].start, was.start)
           new == Closed(now, was, end, None)
<1>1. pc[c] \in {"clearing", "clearing late"} /\ UNCHANGED req
  BY DEF StopWrite
<1>2. pc[c] \in Works \ {"commit"} /\ pc[c] \in Holding /\ pc[c] # "resolve closed"
  BY <1>1 DEF Works, Holding
<1>3. TypeOK /\ KindOK(c) /\ req[c].kind = "start"
  BY <1>1 DEF WorkInv, KindOK, Starting
<1>4. /\ i \in Ids /\ i # c /\ was \in Stored
      /\ now # None => now \in Stored /\ req[c].reach \in {None, now.ws}
      /\ Transactional => now = was
  BY <1>2, Held DEF Expected
<1>5. Onward(c, next) /\ next # "end"
  BY <1>1, <1>3 DEF Onward
<1>6. CASE Closable(c, i)
  <2>1. Write(c, i, new, next)
    BY <1>6 DEF StopWrite
  <2>2. now # None /\ now.end = 0
    BY <1>6 DEF Closable, IsRunning
  <2>3. end \in Int
    BY <1>2, <1>4, Serving, BetweenType, StoredFields
  <2> HIDE DEF end
  <2>4. new \in Stored /\ new.ws = now.ws /\ new.runaway = now.runaway
    <3>1. now \in Stored /\ was \in Stored /\ None \in Marks \cup {None}
      BY <1>4, <2>2
    <3> HIDE DEF now, was
    <3> QED BY <2>3, <3>1, ClosedType
  <2>5. Makes(c, i, now, new)
    BY <1>4, <2>2, <2>4, UpdateMakes
  <2>6. Transactional /\ ~Refused(c, i, new) => Fits(new)
    BY <1>4, <2>3, ClosedFits
  <2> HIDE DEF now, new, next
  <2>7. Makes(c, i, Sees(c)[i], new)
    BY <2>5 DEF now
  <2> QED BY <1>1, <1>2, <1>4, <1>5, <2>1, <2>4, <2>6, <2>7, WriteCommand
<1>7. CASE ~Closable(c, i)
  <2>1. Go(c, next) /\ Forget(c) /\ UNCHANGED dbVars
    BY <1>7 DEF StopWrite
  <2> QED BY <1>1, <1>2, <1>5, <2>1, GoCommand DEF Forget
<1> QED BY <1>6, <1>7

LEMMA InsertCommand ==
  ASSUME WorkInv, NEW c \in Calls, Insert(c), UNCHANGED setup
  PROVE  Command(c)
<1> DEFINE new == Entry(req[c].ws, req[c].start, 0, 0, None)
<1>1. pc[c] \in {"insert", "insert late"} /\ UNCHANGED req
  BY DEF Insert
<1>2. pc[c] \in Works \ {"commit"}
  BY <1>1 DEF Works
<1>3. TypeOK /\ KindOK(c) /\ HeldOK(c) /\ req[c].kind = "start"
  BY <1>1 DEF WorkInv, KindOK, Starting
<1>f. CASE Fail(c, "conflict")
  BY <1>1, <1>2, <1>f, FailCommand DEF Answers
<1>4. CASE Refused(c, c, new) /\ ~Transactional /\ pc[c] = "insert" /\ ~Fail(c, "conflict")
  <2>1. Go(c, "clear late") /\ UNCHANGED <<got, dbVars>>
    BY <1>4 DEF Insert
  <2>2. got' = [got EXCEPT ![c] = None]
    BY <1>1, <1>3, <2>1 DEF HeldOK, Holding, Answering, TypeOK
  <2>3. Onward(c, "clear late")
    BY <1>1, <1>3 DEF Onward
  <2> QED BY <1>1, <1>2, <2>1, <2>2, <2>3, GoCommand
<1>5. CASE ~(Refused(c, c, new) /\ ~Transactional /\ pc[c] = "insert") /\ ~Fail(c, "conflict")
  <2>1. Write(c, c, new, "end")
    BY <1>5 DEF Insert
  <2>2. /\ c \in Ids /\ Sees(c)[c] = None
        /\ req[c].ws \in Workspaces /\ req[c].start \in Int
        /\ req[c].reach \in {None, req[c].ws}
    BY <1>2, Serving
  <2>3. new \in Stored /\ new.ws = req[c].ws /\ Fits(new)
    BY <2>2 DEF Entry, Stored, Fits
  <2> HIDE DEF new
  <2>4. Makes(c, c, None, new)
    BY <1>3, <2>2, <2>3, StoredFields DEF Makes, Alters
  <2>5. Onward(c, "end")
    BY <1>1 DEF Onward
  <2> QED BY <1>1, <1>2, <2>1, <2>2, <2>3, <2>4, <2>5, WriteCommand
<1> QED BY <1>f, <1>4, <1>5

LEMMA GuardFindCommand ==
  ASSUME WorkInv, NEW c \in Calls, GuardFind(c), UNCHANGED setup
  PROVE  Command(c)
<1> DEFINE runaways == {i \in InReach(c) : RunsAway(Sees(c)[i], req[c].start)}
           next == AfterGuard(c)
<1>1. pc[c] = "guard" /\ pc[c] \in Works \ {"commit"} /\ UNCHANGED <<req, dbVars>>
  BY DEF GuardFind, Works
<1>2. TypeOK /\ KindOK(c) /\ HeldOK(c)
  BY DEF WorkInv
<1>3. req[c].kind \in {"start", "look"}
  BY <1>1, <1>2 DEF KindOK, Judging
<1>4. CASE runaways = {}
  <2>1. Go(c, next) /\ UNCHANGED got
    BY <1>4 DEF GuardFind
  <2>2. got' = [got EXCEPT ![c] = None]
    BY <1>1, <1>2, <2>1 DEF HeldOK, Holding, Answering, TypeOK
  <2>3. Onward(c, next)
    BY <1>1, <1>3 DEF Onward, AfterGuard
  <2> QED BY <1>1, <2>1, <2>2, <2>3, GoCommand
<1>5. CASE runaways # {}
  <2>1. Goto(c, "guarding") /\ UNCHANGED answer /\ \E i \in runaways : Keep(c, i)
    BY <1>5 DEF GuardFind
  <2>2. PICK i \in runaways : Keep(c, i)
    BY <2>1
  <2>3. /\ i \in Ids /\ Sees(c)[i] # None /\ Reachable(c, Sees(c)[i])
        /\ RunsAway(Sees(c)[i], req[c].start)
    BY DEF InReach, IsRunning
  <2>4. "guarding" \in Holding \ {"resolve closed", pc[c]} /\ "guarding" \notin Starting \cup Answering
    BY <1>1 DEF Holding, Answering, Starting
  <2> QED BY <1>1, <1>3, <2>1, <2>2, <2>3, <2>4, KeepCommand
<1> QED BY <1>4, <1>5

LEMMA MarkType ==
  ASSUME TypeOK, NEW e \in Stored, NEW at \in Int, RunsAway(e, at)
  PROVE  Mark(e, at) \in Marks
<1>1. at - e.start \in Nat
  BY StoredFields, Behaviors DEF RunsAway, RunsAwayAgain
<1>2. Action \in {"flagged", "capped", "stopped"}
  BY DEF Action
<1> QED BY <1>1, <1>2, TimerAssumption DEF Mark, Marks

LEMMA GuardWriteCommand ==
  ASSUME WorkInv, NEW c \in Calls, GuardWrite(c), UNCHANGED setup
  PROVE  Command(c)
<1> DEFINE i == got[c].id
           was == got[c].was
           now == Sees(c)[i]
           mark == Mark(was, req[c].start)
           end == IF Behavior = "cap" THEN was.start + Limit ELSE req[c].start
           flag == [now EXCEPT !.runaway = mark]
           closed == Closed(now, was, end, mark)
           new == IF Behavior = "ask" THEN flag ELSE closed
           writes == /\ Closable(c, i)
                     /\ Behavior = "ask" => Flaggable(now)
                     /\ ~Refused(c, i, new)
           next == AfterGuard(c)
<1>1. pc[c] = "guarding" /\ UNCHANGED req /\ Go(c, next) /\ Forget(c)
  BY DEF GuardWrite
<1>2. pc[c] \in Works \ {"commit"} /\ pc[c] \in Holding
  BY <1>1 DEF Works, Holding
<1>3. TypeOK /\ KindOK(c) /\ req[c].kind \in {"start", "look"}
  BY <1>1 DEF WorkInv, KindOK, Judging
<1>4. /\ i \in Ids /\ i # c /\ was \in Stored
      /\ now # None => now \in Stored /\ req[c].reach \in {None, now.ws}
      /\ Transactional => now = was
      /\ RunsAway(was, req[c].start)
  BY <1>1, <1>2, Held DEF Expected
<1>5. Onward(c, next)
  BY <1>1, <1>3 DEF Onward, AfterGuard
<1>6. /\ req[c].start \in Int /\ was.start \in Int /\ Limit \in Nat
      /\ Behavior \in {"ask", "cap", "stop"} /\ was.runaway = None
  BY <1>2, <1>3, <1>4, Serving, StoredFields, Behaviors DEF RunsAway, RunsAwayAgain
<1>7. mark \in Marks /\ mark # None
  BY <1>3, <1>4, <1>6, MarkType, TimerAssumption
<1>8. end \in Int
  BY <1>6
<1>9. CASE writes
  <2>1. Put(c, i, new)
    BY <1>9 DEF GuardWrite
  <2>2. now # None /\ now.end = 0 /\ now \in Stored /\ req[c].reach \in {None, now.ws}
    BY <1>4, <1>9 DEF Closable, IsRunning
  <2>3. new \in Stored /\ Makes(c, i, now, new) /\ (Transactional => Fits(new))
    <3>1. CASE Behavior = "ask"
      <4>1. new = flag /\ now.runaway = None
        BY <1>9, <3>1 DEF Flaggable
      <4> HIDE DEF mark, now
      <4>2. flag \in Stored /\ flag.ws = now.ws /\ flag.end = now.end
        BY <1>7, <2>2 DEF Stored
      <4>3. Makes(c, i, now, flag)
        BY <2>2, <4>1, <4>2, UpdateMakes
      <4>4. Fits(flag)
        BY <2>2, <4>2 DEF Fits
      <4> QED BY <4>1, <4>2, <4>3, <4>4
    <3>2. CASE Behavior # "ask"
      <4>1. new = closed /\ ~Refused(c, i, closed)
        BY <1>9, <3>2
      <4>2. Transactional \/ ~Asking
        BY <1>6, <3>2 DEF Asking
      <4>3. Transactional => Fits(closed)
        BY <1>4, <1>7, <1>8, <4>1, ClosedFits
      <4> HIDE DEF mark, end, now
      <4>4. closed \in Stored /\ closed.ws = now.ws /\ closed.runaway = mark
        <5>1. was \in Stored /\ mark \in Marks \cup {None} /\ mark # None
          BY <1>4, <1>7
        <5> HIDE DEF was
        <5> QED BY SMTT(30), <1>8, <2>2, <5>1, ClosedType
      <4> HIDE DEF closed
      <4>5. now.runaway = None \/ (~Asking /\ closed.runaway # None)
        BY <1>4, <1>6, <1>7, <4>2, <4>4
      <4>6. Makes(c, i, now, closed)
        BY <2>2, <4>4, <4>5, UpdateMakes
      <4> QED BY <4>1, <4>3, <4>4, <4>6
    <3> QED BY <3>1, <3>2
  <2> HIDE DEF new, next
  <2>4. Places(c, i, new)
    BY <1>4, <2>1, <2>3 DEF Places
  <2> QED BY <1>1, <1>2, <1>4, <1>5, <2>4, PlaceCommand DEF Forget
<1>10. CASE ~writes
  <2>1. UNCHANGED dbVars
    BY <1>10 DEF GuardWrite
  <2> QED BY <1>1, <1>2, <1>5, <2>1, GoCommand DEF Forget
<1> QED BY <1>9, <1>10

LEMMA FindCommand ==
  ASSUME WorkInv, NEW c \in Calls, Find(c), UNCHANGED setup
  PROVE  Command(c)
<1>1. pc[c] = "find" /\ pc[c] \in Works \ {"commit"} /\ UNCHANGED req
  BY DEF Find, Works
<1>2. req[c].kind \in Answering
  BY <1>1 DEF WorkInv, KindOK
<1>3. ASSUME NEW i \in Named(c), Accepts(req[c], Sees(c)[i]), Keep(c, i),
             Goto(c, req[c].kind), UNCHANGED <<answer, dbVars>>
      PROVE  Command(c)
  <2>1. /\ i \in Ids /\ Sees(c)[i] # None /\ Reachable(c, Sees(c)[i])
        /\ i = req[c].id \/ (req[c].id = None /\ Sees(c)[i].end = 0)
    BY DEF Named, IsRunning
  <2>2. /\ req[c].kind \in Holding \ {"resolve closed", pc[c]}
        /\ req[c].kind \notin Starting /\ req[c].kind # "guarding"
    BY <1>1, <1>2 DEF Holding, Answering, Starting
  <2> QED BY <1>1, <1>2, <1>3, <2>1, <2>2, KeepCommand
<1>4. CASE Fail(c, "refused")
  BY <1>1, <1>4, FailCommand DEF Answers
<1> QED BY <1>3, <1>4 DEF Find

LEMMA StopCommand ==
  ASSUME WorkInv, NEW c \in Calls, Stop(c), UNCHANGED setup
  PROVE  Command(c)
<1> DEFINE i == got[c].id
           was == got[c].was
           now == Sees(c)[i]
           end == req[c].end
           new == Closed(now, was, end, None)
<1>1. pc[c] = "stop" /\ UNCHANGED req
  BY DEF Stop
<1>2. pc[c] \in Works \ {"commit"} /\ pc[c] \in Holding /\ pc[c] # "resolve closed"
  BY <1>1 DEF Works, Holding, Answering
<1>3. /\ i \in Ids /\ i # c /\ was \in Stored
      /\ now # None => now \in Stored /\ req[c].reach \in {None, now.ws}
      /\ Transactional => now = was
  BY <1>2, Held DEF Expected
<1>4. CASE Closable(c, i)
  <2>1. Write(c, i, new, "end")
    BY <1>4 DEF Stop
  <2>2. now # None /\ now.end = 0
    BY <1>4 DEF Closable, IsRunning
  <2>3. end \in Int
    BY <1>2, Serving
  <2> HIDE DEF end
  <2>4. new \in Stored /\ new.ws = now.ws /\ new.runaway = now.runaway
    <3>1. now \in Stored /\ was \in Stored /\ None \in Marks \cup {None}
      BY <1>3, <2>2
    <3> HIDE DEF now, was
    <3> QED BY <2>3, <3>1, ClosedType
  <2>5. Makes(c, i, now, new)
    BY <1>3, <2>2, <2>4, UpdateMakes
  <2>6. Transactional /\ ~Refused(c, i, new) => Fits(new)
    BY <1>3, <2>3, ClosedFits
  <2> HIDE DEF now, new
  <2>7. Makes(c, i, Sees(c)[i], new) /\ Onward(c, "end")
    BY <1>1, <2>5 DEF now, Onward
  <2> QED BY <1>1, <1>2, <1>3, <2>1, <2>4, <2>6, <2>7, WriteCommand
<1>5. CASE ~Closable(c, i)
  <2>1. Fail(c, "refused") /\ "refused" \in Answers
    BY <1>5 DEF Stop, Answers
  <2> QED BY <1>1, <1>2, <2>1, FailCommand
<1> QED BY <1>4, <1>5

LEMMA DiscardCommand ==
  ASSUME WorkInv, NEW c \in Calls, Discard(c), UNCHANGED setup
  PROVE  Command(c)
<1> DEFINE i == got[c].id
           was == got[c].was
           now == Sees(c)[i]
<1>1. pc[c] = "discard" /\ UNCHANGED req /\ Write(c, i, None, "end")
  BY DEF Discard
<1>2. pc[c] \in Works \ {"commit"} /\ pc[c] \in Holding /\ pc[c] \in Answering /\ pc[c] # "resolve closed"
  BY <1>1 DEF Works, Holding, Answering
<1>3. /\ i \in Ids /\ i # c /\ was \in Stored
      /\ now # None => now \in Stored /\ req[c].reach \in {None, now.ws}
      /\ Transactional => now = was
      /\ Accepts(req[c], was)
  BY <1>2, Held DEF Expected
<1>4. req[c].kind = "discard"
  BY <1>1, <1>2 DEF WorkInv, KindOK
<1>5. was.end = 0
  BY <1>3, <1>4 DEF Accepts, AcceptsDiscard
<1>6. Makes(c, i, now, None)
  BY <1>3, <1>4, <1>5 DEF Makes, Alters
<1>7. Onward(c, "end")
  BY <1>1 DEF Onward
<1> QED BY <1>1, <1>2, <1>3, <1>6, <1>7, WriteCommand

LEMMA ResolvedType ==
  ASSUME TypeOK, NEW r \in Requests, NEW e \in Stored, e.runaway # None
  PROVE  ResolvedEnd(r, e) \in Int /\ EditedStart(r, e) \in Int
<1>1. e.runaway.elapsed \in Nat /\ e.runaway.limit \in Nat
  BY DEF Stored, Marks
<1>2. e.start \in Int /\ r.start \in Int /\ r.end \in Int
  BY StoredFields, Behaviors
<1> QED BY <1>1, <1>2 DEF ResolvedEnd, EditedStart

LEMMA SpanFits ==
  ASSUME NEW c, NEW i, NEW e \in Stored, NEW start \in Int, NEW end \in Int,
         e.start = start, e.end = end, e.duration = IF end = 0 THEN 0 ELSE Between(start, end),
         ~Refused(c, i, e)
  PROVE  Fits(e)
BY NotRefused, BetweenType DEF Fits

LEMMA ResolveCommand ==
  ASSUME WorkInv, NEW c \in Calls, Resolve(c), UNCHANGED setup
  PROVE  Command(c)
<1> DEFINE i == got[c].id
           was == got[c].was
           now == Sees(c)[i]
           end == ResolvedEnd(req[c], was)
           start == EditedStart(req[c], was)
           closed == Closed(now, was, end, None)
<1>1. pc[c] = "resolve" /\ UNCHANGED req /\ pc[c] \in Works \ {"commit"} /\ pc[c] \in Holding
      /\ pc[c] \in Answering /\ pc[c] # "resolve closed"
  BY DEF Resolve, Works, Holding, Answering
<1>2. TypeOK /\ KindOK(c) /\ req[c].kind = "resolve" /\ TransactionOK(c)
  BY <1>1 DEF WorkInv, KindOK
<1>3. /\ i \in Ids /\ i # c /\ was \in Stored
      /\ now # None => now \in Stored /\ req[c].reach \in {None, now.ws}
      /\ now # None /\ was.runaway # None => now.runaway # None
      /\ Transactional => now = was
      /\ Accepts(req[c], was)
      /\ i = req[c].id \/ (req[c].id = None /\ was.end = 0)
  BY <1>1, Held DEF Expected
<1>4. AcceptsResolve(req[c], was) /\ was.runaway # None
  BY <1>2, <1>3 DEF Accepts, AcceptsResolve
<1>5. end \in Int /\ start \in Int
  BY <1>1, <1>2, <1>3, <1>4, Serving, ResolvedType
<1>6. Onward(c, "end")
  BY <1>1 DEF Onward
<1>7. CASE end = 0 /\ now # None /\ Write(c, i, Answered(now), "end")
  <2> DEFINE new == Answered(now)
  <2>1. Write(c, i, new, "end") /\ now \in Stored /\ now.runaway # None
    BY <1>3, <1>4, <1>7
  <2>2. Transactional => Fits(now)
    BY <1>2, <1>3, <1>7 DEF TransactionOK, Sees
  <2> HIDE DEF now
  <2>3. /\ new \in Stored /\ new.ws = now.ws /\ new.end = now.end /\ new.start = now.start
        /\ new.duration = now.duration /\ new.runaway = [now.runaway EXCEPT !.resolved = TRUE]
    BY <2>1, AnsweredType
  <2> HIDE DEF new
  <2>4. Makes(c, i, now, new)
    BY <1>3, <2>1, <2>3, UpdateMakes, StoredFields
  <2>5. Transactional => Fits(new)
    BY <2>2, <2>3 DEF Fits
  <2>6. Makes(c, i, Sees(c)[i], new)
    BY <2>4 DEF now
  <2> QED BY <1>1, <1>3, <1>6, <2>1, <2>3, <2>5, <2>6, WriteCommand
<1>8. CASE /\ end # 0 /\ was.end = 0 /\ Closable(c, i)
           /\ ~Refused(c, i, closed)
           /\ Put(c, i, closed)
           /\ Go(c, "resolve closed")
           /\ UNCHANGED got
  <2>1. now # None /\ now.end = 0
    BY <1>8 DEF Closable, IsRunning
  <2>2. Transactional => Fits(closed)
    BY <1>3, <1>5, <1>8, ClosedFits
  <2>3. /\ closed \in Stored /\ closed.ws = now.ws /\ closed.runaway = now.runaway
    BY <1>3, <1>5, <2>1, ClosedType
  <2>4. Transactional => closed = Closed(was, was, end, None)
    BY <1>3
  <2>5. Since(was, closed)
    <3>1. Since(was, now)
      BY <1>1 DEF WorkInv, HeldOK, Holds
    <3> HIDE DEF now
    <3> QED BY <2>1, <2>3, <3>1, StoredFields DEF Since
  <2>6. Places(c, i, closed)
    <3> HIDE DEF closed, now
    <3>1. Makes(c, i, now, closed)
      BY <1>3, <2>1, <2>3, UpdateMakes
    <3>2. Makes(c, i, Sees(c)[i], closed)
      BY <3>1 DEF now
    <3> QED BY <1>3, <1>8, <2>2, <2>3, <3>2 DEF Places
  <2>7. Sees(c)'[i] = closed /\ Sees(c)'[c] = None
    <3>1. \A j \in Ids : Sees(c)'[j] = IF j = i THEN closed ELSE Sees(c)[j]
      BY <1>2, <2>6, PlaceSees
    <3>2. c \in Ids /\ Sees(c)[c] = None
      BY <1>1, Serving
    <3> HIDE DEF closed
    <3> QED BY <1>3, <3>1, <3>2
  <2> HIDE DEF closed
  <2>8. pc' = [pc EXCEPT ![c] = "resolve closed"] /\ pc'[c] = "resolve closed" /\ answer' = answer
    BY <1>2, <1>8 DEF Go, Goto, TypeOK
  <2>9. Alone(c)
    <3>1. answer[c] = None
      BY <1>1, <1>2 DEF TypeOK
    <3> QED BY <1>1, <1>2, <1>8, <2>8, <3>1 DEF Alone, TypeOK, Works
  <2>10. Holds(c)'
    <3>1. Holds(c)
      BY <1>1 DEF WorkInv, HeldOK
    <3>2. Transactional' = Transactional /\ got' = got /\ req' = req
      BY <1>1, <1>8 DEF Transactional
    <3>3. Transactional => closed = Expected(c, was)'
      BY <2>4, <2>8, <3>2 DEF Expected
    <3>4. ~Transactional /\ i \in Calls => pc'[i] = "done"
      BY <1>2, <1>3, <2>8, <3>1 DEF Holds, TypeOK
    <3>5. got[c] \in [id : Ids \ {c}, was : Stored] /\ req[c].reach \in {None, was.ws}
      BY <3>1 DEF Holds
    <3>6. /\ Since(got[c].was, Sees(c)'[got[c].id])
          /\ Transactional => Sees(c)'[got[c].id] = Expected(c, was)'
          /\ AcceptsResolve(req[c], was)
      BY <1>4, <2>5, <2>7, <3>3
    <3> QED BY <2>8, <3>2, <3>4, <3>5, <3>6 DEF Holds, Answering
  <2>11. Settled(c)
    <3>1. KindOK(c)'
      BY <1>1, <1>2, <2>8 DEF KindOK, Starting, Judging, Answering
    <3>2. HeldOK(c)'
      BY <2>8, <2>10 DEF HeldOK, Holding
    <3> QED BY <2>7, <3>1, <3>2 DEF Settled
  <2> QED BY <2>6, <2>9, <2>11 DEF Command, Effect
<1>9. CASE /\ end # 0 /\ was.end # 0 /\ now # None
           /\ Write(c, i, Answered(Span(now, was, start, end)), "end")
  <2> DEFINE moved == Span(now, was, start, end)
             new == Answered(moved)
  <2>1. now \in Stored /\ now.runaway # None
    BY <1>3, <1>4, <1>9
  <2>2. Gives(c, i)
    <3>1. req[c].resolution # "keep"
      BY <1>9 DEF ResolvedEnd
    <3> QED BY <1>2, <1>3, <1>9, <3>1 DEF Gives
  <2> HIDE DEF now, start, end
  <2>3. /\ moved \in Stored /\ moved.ws = now.ws /\ moved.start = start /\ moved.end = end
        /\ moved.duration = IF end = 0 THEN 0 ELSE Between(start, end)
        /\ moved.runaway = now.runaway
    BY <1>5, <2>1, SpanType
  <2> HIDE DEF moved
  <2>4. /\ new \in Stored /\ new.ws = now.ws /\ new.start = start /\ new.end = end
        /\ new.duration = IF end = 0 THEN 0 ELSE Between(start, end)
        /\ new.runaway = [now.runaway EXCEPT !.resolved = TRUE]
    BY <2>1, <2>3, AnsweredType
  <2>5. Write(c, i, new, "end")
    BY <1>9 DEF moved
  <2> HIDE DEF new
  <2>6. Makes(c, i, now, new)
    BY <1>3, <1>9, <2>1, <2>2, <2>4, UpdateMakes
  <2>7. Transactional /\ ~Refused(c, i, new) => Fits(new)
    BY <1>5, <2>4, SpanFits
  <2>8. Makes(c, i, Sees(c)[i], new)
    BY <2>6 DEF now
  <2> QED BY <1>1, <1>3, <1>6, <2>4, <2>5, <2>7, <2>8, WriteCommand
<1>10. CASE Fail(c, "refused")
  BY <1>1, <1>10, FailCommand DEF Answers
<1> QED BY <1>7, <1>8, <1>9, <1>10 DEF Resolve

LEMMA ResolveSpanCommand ==
  ASSUME WorkInv, NEW c \in Calls, ResolveSpan(c), UNCHANGED setup
  PROVE  Command(c)
<1> DEFINE i == got[c].id
           was == got[c].was
           now == Sees(c)[i]
           end == ResolvedEnd(req[c], was)
           start == EditedStart(req[c], was)
           moved == Span(now, was, start, end)
           span == [moved EXCEPT !.end = now.end]
           new == Answered(span)
<1>1. pc[c] = "resolve closed" /\ UNCHANGED req /\ pc[c] \in Works \ {"commit"} /\ pc[c] \in Holding
  BY DEF ResolveSpan, Works, Holding
<1>2. TypeOK
  BY DEF WorkInv
<1>3. /\ i \in Ids /\ i # c /\ was \in Stored
      /\ now # None => now \in Stored /\ req[c].reach \in {None, now.ws}
      /\ now # None /\ was.runaway # None => now.runaway # None
      /\ Transactional => now = Closed(was, was, end, None)
      /\ AcceptsResolve(req[c], was)
  BY <1>1, Held DEF Expected
<1>4. was.runaway # None
  BY <1>3 DEF AcceptsResolve
<1>5. end \in Int /\ start \in Int
  BY <1>1, <1>2, <1>3, <1>4, Serving, ResolvedType
<1>6. Onward(c, "end")
  BY <1>1 DEF Onward
<1>7. CASE now = None
  <2>1. Go(c, "end") /\ Forget(c) /\ UNCHANGED dbVars
    BY <1>7 DEF ResolveSpan
  <2> QED BY <1>1, <1>6, <2>1, GoCommand DEF Forget
<1>8. CASE now # None
  <2>1. Write(c, i, new, "end")
    BY <1>8 DEF ResolveSpan
  <2>2. now \in Stored /\ now.runaway # None
    BY <1>3, <1>4, <1>8
  <2>3. Transactional => now.end = end
    BY <1>3, <1>5, ClosedType
  <2> HIDE DEF now, start, end
  <2>4. /\ moved \in Stored /\ moved.ws = now.ws /\ moved.start = start /\ moved.end = end
        /\ moved.duration = IF end = 0 THEN 0 ELSE Between(start, end)
        /\ moved.runaway = now.runaway
    BY <1>5, <2>2, SpanType
  <2>5. now.end \in Int
    BY <2>2, StoredFields
  <2> HIDE DEF moved
  <2>6. /\ span \in Stored /\ span.ws = now.ws /\ span.start = start /\ span.end = now.end
        /\ span.duration = IF end = 0 THEN 0 ELSE Between(start, end)
        /\ span.runaway = now.runaway
    BY <2>4, <2>5 DEF Stored
  <2> HIDE DEF span
  <2>7. /\ new \in Stored /\ new.ws = now.ws /\ new.start = start /\ new.end = now.end
        /\ new.duration = IF end = 0 THEN 0 ELSE Between(start, end)
        /\ new.runaway = [now.runaway EXCEPT !.resolved = TRUE]
    BY <2>2, <2>6, AnsweredType
  <2> HIDE DEF new
  <2>8. Makes(c, i, now, new)
    BY <1>3, <1>8, <2>2, <2>7, UpdateMakes
  <2>9. Transactional /\ ~Refused(c, i, new) => Fits(new)
    BY <1>5, <2>3, <2>7, SpanFits
  <2>10. Makes(c, i, Sees(c)[i], new)
    BY <2>8 DEF now
  <2> QED BY <1>1, <1>3, <1>6, <2>1, <2>7, <2>9, <2>10, WriteCommand
<1> QED BY <1>7, <1>8

LEMMA EditCommand ==
  ASSUME WorkInv, NEW c \in Calls, Edit(c), UNCHANGED setup
  PROVE  Command(c)
<1> DEFINE i == got[c].id
           was == got[c].was
           now == Sees(c)[i]
           end == EditedEnd(req[c], was)
           start == EditedStart(req[c], was)
           moved == Span(now, was, start, end)
           new == IF Corrects(req[c], was) THEN Answered(moved) ELSE moved
<1>1. pc[c] = "edit" /\ UNCHANGED req /\ pc[c] \in Works \ {"commit"} /\ pc[c] \in Holding
      /\ pc[c] \in Answering /\ pc[c] # "resolve closed"
  BY DEF Edit, Works, Holding, Answering
<1>2. TypeOK /\ req[c].kind = "edit"
  BY <1>1 DEF WorkInv, KindOK
<1>3. /\ i \in Ids /\ i # c /\ was \in Stored
      /\ now # None => now \in Stored /\ req[c].reach \in {None, now.ws}
      /\ now # None /\ was.runaway # None => now.runaway # None
      /\ Transactional => now = was
      /\ i = req[c].id \/ (req[c].id = None /\ was.end = 0)
  BY <1>1, Held DEF Expected
<1>4. end \in Int /\ start \in Int
  BY <1>1, <1>3, Serving, StoredFields DEF EditedEnd, EditedStart
<1>5. Onward(c, "end")
  BY <1>1 DEF Onward
<1>6. CASE now = None
  <2>1. Fail(c, "refused") /\ "refused" \in Answers
    BY <1>6 DEF Edit, Answers
  <2> QED BY <1>1, <2>1, FailCommand
<1>7. CASE now # None
  <2>1. Write(c, i, new, "end")
    BY <1>7 DEF Edit
  <2>2. now \in Stored
    BY <1>3, <1>7
  <2>3. Corrects(req[c], was) => now.runaway # None
    BY <1>3, <1>7 DEF Corrects
  <2>4. now.end # 0 /\ end # now.end => Gives(c, i)
    <3>1. CASE Transactional
      <4>1. end # was.end => req[c].end # NotGiven
        BY DEF EditedEnd
      <4> QED BY <1>2, <1>3, <3>1, <4>1 DEF Gives
    <3>2. CASE ~Transactional
      BY <1>2, <1>3, <3>2 DEF Gives
    <3> QED BY <3>1, <3>2
  <2> HIDE DEF now, start, end
  <2>5. /\ moved \in Stored /\ moved.ws = now.ws /\ moved.start = start /\ moved.end = end
        /\ moved.duration = IF end = 0 THEN 0 ELSE Between(start, end)
        /\ moved.runaway = now.runaway
    BY <1>4, <2>2, SpanType
  <2> HIDE DEF moved
  <2>6. /\ new \in Stored /\ new.ws = now.ws /\ new.start = start /\ new.end = end
        /\ new.duration = IF end = 0 THEN 0 ELSE Between(start, end)
        /\ \/ new.runaway = now.runaway
           \/ now.runaway # None /\ new.runaway = [now.runaway EXCEPT !.resolved = TRUE]
    <3>1. CASE Corrects(req[c], was)
      <4>1. new = Answered(moved) /\ moved.runaway # None
        BY <2>3, <2>5, <3>1
      <4> HIDE DEF new
      <4> QED BY <2>3, <2>5, <3>1, <4>1, AnsweredType
    <3>2. CASE ~Corrects(req[c], was)
      BY <2>5, <3>2
    <3> QED BY <3>1, <3>2
  <2> HIDE DEF new
  <2>7. Makes(c, i, now, new)
    BY <1>3, <1>7, <2>2, <2>4, <2>6, UpdateMakes
  <2>8. Transactional /\ ~Refused(c, i, new) => Fits(new)
    BY <1>4, <2>6, SpanFits
  <2>9. Makes(c, i, Sees(c)[i], new)
    BY <2>7 DEF now
  <2> QED BY <1>1, <1>3, <1>5, <2>1, <2>6, <2>8, <2>9, WriteCommand
<1> QED BY <1>6, <1>7

-----------------------------------------------------------------------------
(* A call begins its work, at first or again; a transaction commits.       *)

Begins(c, r) ==
  /\ pc[c] \in {"unsent", "commit"}
  /\ r \in Requests
  /\ req' = [req EXCEPT ![c] = r]
  /\ Begin(c, r)
  /\ UNCHANGED <<setup, got, answer>>

LEMMA BeginKeeps ==
  ASSUME WorkInv, NEW c \in Calls, NEW r, Begins(c, r)
  PROVE  WorkInv'
<1>1. /\ TypeOK /\ DurationsMatch
      /\ \A d \in Calls : KindOK(d) /\ HeldOK(d) /\ FreshOK(d) /\ TransactionOK(d)
  BY DEF WorkInv
<1>2. /\ setup' = setup /\ got' = got /\ answer' = answer /\ entries' = entries
      /\ Transactional' = Transactional /\ Behavior' = Behavior /\ Requests' = Requests
  BY DEF Begins, Begin, Transactional, Behavior, Requests
<1>3. /\ r.kind \in Kinds /\ r \in Requests /\ Transactional \in BOOLEAN
  BY <1>1, Behaviors DEF Begins
<1>4. First(r) \in {"guard", "check", "find"}
  BY DEF First
<1>5. /\ pc'[c] = First(r) /\ req'[c] = r /\ got'[c] = None /\ answer'[c] = None
      /\ wrote'[c] = {} /\ stale'[c] = {}
      /\ view'[c] = IF Transactional THEN entries ELSE Nothing
  BY <1>1, <1>2 DEF Begins, Begin, Goto, TypeOK, HeldOK, Holding, Answering
<1>6. \A d \in Calls \ {c} : /\ pc'[d] = pc[d] /\ req'[d] = req[d] /\ got'[d] = got[d]
                             /\ view'[d] = view[d] /\ wrote'[d] = wrote[d] /\ stale'[d] = stale[d]
  BY <1>1, <1>2 DEF Begins, Begin, Goto, TypeOK
<1>7. TypeOK'
  <2>1. Nothing \in [Ids -> Stored \cup {None}]
    BY DEF Nothing
  <2> DEFINE v == IF Transactional THEN entries ELSE Nothing
             s == First(r)
  <2>2. /\ view' = [view EXCEPT ![c] = v] /\ v \in [Ids -> Stored \cup {None}]
        /\ pc' = [pc EXCEPT ![c] = s] /\ s \in Works
    BY <1>1, <1>4, <2>1 DEF TypeOK, Begins, Begin, Goto, Works
  <2>3. s # "done"
    BY <1>4
  <2> HIDE DEF v, s
  <2>4. /\ view' \in [Calls -> [Ids -> Stored \cup {None}]]
        /\ pc' \in [Calls -> Works \cup {"unsent", "done"}]
    BY <1>1, <2>2 DEF TypeOK
  <2>5. /\ req' \in [Calls -> (Requests \cup {None})']
        /\ wrote' \in [Calls -> SUBSET Ids]
        /\ stale' \in [Calls -> SUBSET Ids]
    BY <1>1, <1>2, <1>3 DEF TypeOK, Begins, Begin
  <2>6. \A d \in Calls : (pc[d] # "unsent" => req[d] \in Requests)'
    BY <1>1, <1>2, <1>3, <1>5, <1>6 DEF TypeOK
  <2>7. \A d \in Calls : (answer[d] # None <=> pc[d] = "done")'
    <3>1. pc'[c] # "done"
      BY <1>4, <1>5
    <3> QED BY <1>1, <1>2, <1>5, <1>6, <3>1 DEF TypeOK
  <2> QED BY <1>1, <1>2, <2>4, <2>5, <2>6, <2>7 DEF TypeOK
<1>8. DurationsMatch'
  BY <1>1, <1>2 DEF DurationsMatch
<1>9. KindOK(c)' /\ HeldOK(c)' /\ FreshOK(c)' /\ TransactionOK(c)'
  <2>1. KindOK(c)'
    BY <1>3, <1>5 DEF KindOK, First, Kinds, Starting, Judging, Answering
  <2>2. HeldOK(c)'
    BY <1>4, <1>5 DEF HeldOK, Holding, Answering
  <2>3. entries[c] = None /\ c \in Ids
    BY <1>1 DEF FreshOK, Begins, Ids
  <2>4. Sees(c)'[c] = None
    BY <1>2, <1>3, <1>5, <2>3 DEF Sees, Nothing
  <2>5. FreshOK(c)'
    BY <1>2, <2>3, <2>4 DEF FreshOK
  <2>6. TransactionOK(c)'
    <3>1. Transactional => \A i \in Ids : entries[i] # None => Fits(entries[i])
      BY <1>1 DEF DurationsMatch
    <3>2. Transactional => view'[c] = entries'
      BY <1>2, <1>5
    <3>3. \A i : Makes(c, i, entries[i], entries[i])'
      BY DEF Makes
    <3> QED BY <1>2, <3>1, <3>2, <3>3 DEF TransactionOK
  <2> QED BY <2>1, <2>2, <2>5, <2>6
<1>10. ASSUME NEW d \in Calls \ {c}
       PROVE  KindOK(d)' /\ HeldOK(d)' /\ FreshOK(d)' /\ TransactionOK(d)'
  <2>1. Sees(d)' = Sees(d)
    BY <1>2, <1>6 DEF Sees
  <2>a. KindOK(d) /\ FreshOK(d) /\ pc'[d] = pc[d] /\ req'[d] = req[d] /\ entries'[d] = entries[d]
    BY <1>1, <1>2, <1>6
  <2>b. KindOK(d)'
    BY <1>2, <2>a DEF KindOK
  <2>c. FreshOK(d)'
    BY <2>1, <2>a DEF FreshOK
  <2>2. KindOK(d)' /\ FreshOK(d)'
    BY <2>b, <2>c
  <2>3. ASSUME NEW i, NEW old, NEW new PROVE Makes(d, i, old, new)' <=> Makes(d, i, old, new)
    BY <1>2, <1>6 DEF Makes, Alters, Gives, Remarks, Asking
  <2>4. TransactionOK(d)'
    <3>1. ASSUME Transactional, pc[d] \in Works, NEW i \in Ids \ stale[d]
          PROVE  (i \notin wrote[d] => view[d][i] = entries[i]) /\ Makes(d, i, entries[i], view[d][i])'
      <4>1. (i \notin wrote[d] => view[d][i] = entries[i]) /\ Makes(d, i, entries[i], view[d][i])
        BY <1>1, <3>1 DEF TransactionOK
      <4>2. Makes(d, i, entries[i], view[d][i])'
        BY <1>2, <1>6, <2>3, <4>1 DEF Makes, Alters, Gives, Remarks, Asking
      <4> QED BY <4>1, <4>2
    <3>2. Transactional => \A i \in Ids : view[d][i] # None => Fits(view[d][i])
      BY <1>1 DEF TransactionOK
    <3> QED BY <1>2, <1>6, <3>1, <3>2 DEF TransactionOK
  <2>5. HeldOK(d)'
    <3>1. CASE pc[d] \notin Holding
      BY <1>1, <1>2, <1>6, <3>1 DEF HeldOK
    <3>2. CASE pc[d] \in Holding
      <4> DEFINE i == got[d].id
                 was == got[d].was
      <4>1. Holds(d)
        BY <1>1, <3>2 DEF HeldOK
      <4>2. RunsAway(was, req[d].start)' = RunsAway(was, req[d].start)
        BY <1>2, <1>6 DEF RunsAway, RunsAwayAgain
      <4>3. Expected(d, was)' = Expected(d, was)
        BY <1>2, <1>6 DEF Expected, Closed, ResolvedEnd, Between, Later
      <4>4. ~Transactional /\ i \in Calls => pc'[i] = "done"
        BY <1>6, <4>1 DEF Holds, Begins
      <4>5. /\ got[d] \in [id : Ids \ {d}, was : Stored]
            /\ req[d].reach \in {None, was.ws}
            /\ Since(was, Sees(d)[i])
            /\ Transactional => Sees(d)[i] = Expected(d, was)
            /\ pc[d] = "guarding" => RunsAway(was, req[d].start)
            /\ pc[d] \in Answering => Accepts(req[d], was) /\ (i = req[d].id \/ (req[d].id = None /\ was.end = 0))
            /\ pc[d] = "resolve closed" => AcceptsResolve(req[d], was)
        BY <4>1 DEF Holds
      <4>6. Holds(d)'
        BY <1>2, <1>6, <2>1, <4>2, <4>3, <4>4, <4>5 DEF Holds
      <4> QED BY <1>6, <3>2, <4>6 DEF HeldOK
    <3> QED BY <3>1, <3>2
  <2> QED BY <2>2, <2>4, <2>5
<1> QED BY <1>7, <1>8, <1>9, <1>10 DEF WorkInv

LEMMA CommitMakes ==
  ASSUME WorkInv, NEW c \in Calls, Commit(c)
  PROVE  /\ Transactional
         /\ \A i \in Ids : Makes(c, i, entries[i], entries'[i])
         /\ \A i \in Ids \ wrote[c] : entries'[i] = entries[i]
         /\ entries' \in [Ids -> Stored \cup {None}]
         /\ \A i \in Ids : entries'[i] # None => Fits(entries'[i])
<1>1. TypeOK /\ DurationsMatch /\ TransactionOK(c) /\ Transactional /\ pc[c] = "commit"
  BY DEF WorkInv, KindOK, Commit
<1>2. entries' = Merged(c) /\ wrote[c] \cap stale[c] = {}
  BY DEF Commit, Commits
<1>3. ASSUME NEW i \in Ids
      PROVE  /\ Makes(c, i, entries[i], entries'[i])
             /\ i \notin wrote[c] => entries'[i] = entries[i]
             /\ entries'[i] \in Stored \cup {None}
             /\ entries'[i] # None => Fits(entries'[i])
  <2>1. CASE i \in wrote[c]
    <3>1. i \notin stale[c] /\ entries'[i] = view[c][i]
      BY <1>2, <2>1 DEF Merged
    <3>2. pc[c] \in Works
      BY <1>1 DEF Works
    <3>3. Makes(c, i, entries[i], view[c][i]) /\ (view[c][i] # None => Fits(view[c][i]))
      BY <1>1, <3>1, <3>2 DEF TransactionOK
    <3>4. view[c][i] \in Stored \cup {None}
      BY <1>1 DEF TypeOK
    <3> QED BY <2>1, <3>1, <3>3, <3>4
  <2>2. CASE i \notin wrote[c]
    <3>1. entries'[i] = entries[i]
      BY <1>2, <2>2 DEF Merged
    <3> QED BY <1>1, <3>1 DEF Makes, TypeOK, DurationsMatch
  <2> QED BY <2>1, <2>2
<1>4. entries' = [i \in Ids |-> entries'[i]]
  BY <1>2 DEF Merged
<1> HIDE DEF Merged
<1>5. entries' \in [Ids -> Stored \cup {None}]
  BY <1>3, <1>4
<1> QED BY <1>1, <1>3, <1>5

LEMMA CommitKeepsWork ==
  ASSUME WorkInv, NEW c \in Calls, Commit(c), UNCHANGED setup
  PROVE  WorkInv'
<1>1. /\ TypeOK /\ DurationsMatch
      /\ \A d \in Calls : KindOK(d) /\ HeldOK(d) /\ FreshOK(d) /\ TransactionOK(d)
  BY DEF WorkInv
<1>2. /\ pc[c] = "commit" /\ Transactional /\ got' = got /\ req' = req
      /\ Transactional' = Transactional /\ Behavior' = Behavior /\ Requests' = Requests
      /\ \A i \in Ids : Makes(c, i, entries[i], entries'[i])
      /\ \A i \in Ids \ wrote[c] : entries'[i] = entries[i]
      /\ entries' \in [Ids -> Stored \cup {None}]
      /\ \A i \in Ids : entries'[i] # None => Fits(entries'[i])
  BY CommitMakes DEF Commit, Transactional, Behavior, Requests
<1>3. /\ pc' = [pc EXCEPT ![c] = "done"]
      /\ answer' = [answer EXCEPT ![c] = "ok"]
      /\ view' = [view EXCEPT ![c] = Nothing]
      /\ wrote' = [wrote EXCEPT ![c] = {}]
      /\ stale' = [d \in Calls |-> IF d = c \/ pc[d] \in {"unsent", "done"} THEN {}
                                   ELSE stale[d] \cup wrote[c]]
  BY DEF Commit, Goto
<1>4. TypeOK'
  <2>1. Nothing \in [Ids -> Stored \cup {None}]
    BY DEF Nothing
  <2>2. /\ view' \in [Calls -> [Ids -> Stored \cup {None}]]
        /\ wrote' \in [Calls -> SUBSET Ids]
        /\ stale' \in [Calls -> SUBSET Ids]
    BY <1>1, <1>3, <2>1 DEF TypeOK
  <2>3. /\ pc' \in [Calls -> Works \cup {"unsent", "done"}]
        /\ answer' \in [Calls -> Answers \cup {None}]
        /\ \A d \in Calls : (answer[d] # None <=> pc[d] = "done")'
    BY <1>1, <1>3, TimerAssumption DEF TypeOK, Answers
  <2>4. \A d \in Calls : (pc[d] # "unsent" => req[d] \in Requests)'
    BY <1>1, <1>2, <1>3 DEF TypeOK
  <2>5. req' \in [Calls -> (Requests \cup {None})'] /\ setup' \in DOMAIN Setups
    BY <1>1, <1>2 DEF TypeOK
  <2>6. got' \in [Calls -> [id : Ids, was : Stored] \cup {None}]
    BY <1>1, <1>2 DEF TypeOK
  <2> QED BY <1>2, <2>2, <2>3, <2>4, <2>5, <2>6 DEF TypeOK
<1>5. DurationsMatch'
  BY <1>2 DEF DurationsMatch
<1>6. KindOK(c)' /\ HeldOK(c)' /\ FreshOK(c)' /\ TransactionOK(c)'
  <2>1. pc'[c] = "done" /\ view'[c] = Nothing /\ got'[c] = None
    BY <1>1, <1>2, <1>3 DEF TypeOK, HeldOK, Holding, Answering
  <2> QED BY <2>1 DEF KindOK, HeldOK, FreshOK, TransactionOK, Nothing,
                      Starting, Judging, Holding, Answering, Works
<1>7. ASSUME NEW d \in Calls \ {c}
      PROVE  KindOK(d)' /\ HeldOK(d)' /\ FreshOK(d)' /\ TransactionOK(d)'
  <2>1. /\ pc'[d] = pc[d] /\ view'[d] = view[d] /\ wrote'[d] = wrote[d]
        /\ req'[d] = req[d] /\ got'[d] = got[d]
        /\ stale'[d] = IF pc[d] \in {"unsent", "done"} THEN {} ELSE stale[d] \cup wrote[c]
    BY <1>1, <1>2, <1>3 DEF TypeOK
  <2>2. Sees(d)' = Sees(d)
    BY <1>2, <2>1 DEF Sees
  <2>3. KindOK(d)' /\ FreshOK(d)'
    <3>1. entries[d] = None => entries'[d] = None
      BY <1>2 DEF Makes, Alters, Ids
    <3> QED BY <1>1, <1>2, <2>1, <2>2, <3>1 DEF KindOK, FreshOK
  <2>4. TransactionOK(d)'
    <3>1. ASSUME pc[d] \in Works, NEW i \in Ids \ stale'[d]
          PROVE  (i \notin wrote[d] => view[d][i] = entries'[i]) /\ Makes(d, i, entries[i], view[d][i])'
      <4>1. i \notin stale[d] /\ i \notin wrote[c]
        BY <2>1, <3>1 DEF Works
      <4>2. (i \notin wrote[d] => view[d][i] = entries[i]) /\ Makes(d, i, entries[i], view[d][i])
        BY <1>1, <1>2, <3>1, <4>1 DEF TransactionOK
      <4>3. entries'[i] = entries[i]
        BY <1>2, <4>1
      <4>4. Makes(d, i, entries[i], view[d][i])'
        BY <1>2, <2>1, <4>2, <4>3 DEF Makes, Alters, Gives, Remarks, Asking
      <4> QED BY <4>2, <4>3, <4>4
    <3>2. \A i \in Ids : view[d][i] # None => Fits(view[d][i])
      BY <1>1, <1>2 DEF TransactionOK
    <3> QED BY <1>2, <2>1, <3>1, <3>2 DEF TransactionOK
  <2>5. HeldOK(d)'
    <3>1. CASE pc[d] \notin Holding
      BY <1>1, <1>2, <2>1, <3>1 DEF HeldOK
    <3>2. CASE pc[d] \in Holding
      <4> DEFINE i == got[d].id
                 was == got[d].was
      <4>1. Holds(d)
        BY <1>1, <3>2 DEF HeldOK
      <4>2. RunsAway(was, req[d].start)' = RunsAway(was, req[d].start)
        BY <1>2 DEF RunsAway, RunsAwayAgain
      <4>3. Expected(d, was)' = Expected(d, was)
        BY <1>2, <2>1 DEF Expected, Closed, ResolvedEnd, Between, Later
      <4>5. /\ got[d] \in [id : Ids \ {d}, was : Stored]
            /\ req[d].reach \in {None, was.ws}
            /\ Since(was, Sees(d)[i])
            /\ Transactional => Sees(d)[i] = Expected(d, was)
            /\ pc[d] = "guarding" => RunsAway(was, req[d].start)
            /\ pc[d] \in Answering => Accepts(req[d], was) /\ (i = req[d].id \/ (req[d].id = None /\ was.end = 0))
            /\ pc[d] = "resolve closed" => AcceptsResolve(req[d], was)
        BY <4>1 DEF Holds
      <4>6. Holds(d)'
        BY <1>2, <2>1, <2>2, <4>2, <4>3, <4>5 DEF Holds
      <4> QED BY <2>1, <3>2, <4>6 DEF HeldOK
    <3> QED BY <3>1, <3>2
  <2> QED BY <2>3, <2>4, <2>5
<1> QED BY <1>4, <1>5, <1>6, <1>7 DEF WorkInv

-----------------------------------------------------------------------------
LEMMA InitWork == Init => WorkInv
<1> SUFFICES ASSUME Init PROVE WorkInv
  OBVIOUS
<1>1. PICK e \in Before : entries = [Nothing EXCEPT ![Old] = e]
  BY DEF Init
<1>2. e = None \/ (e \in Stored /\ Fits(e))
  BY TimerAssumption
<1>3. /\ entries \in [Ids -> Stored \cup {None}]
      /\ \A i \in Ids : entries[i] # None => Fits(entries[i])
      /\ \A c \in Calls : entries[c] = None
  BY <1>1, <1>2, TimerAssumption DEF Nothing, Ids
<1>4. Nothing \in [Ids -> Stored \cup {None}]
  BY DEF Nothing
<1>5. TypeOK
  BY <1>3, <1>4, TimerAssumption DEF Init, TypeOK
<1>6. DurationsMatch
  BY <1>3 DEF DurationsMatch
<1>7. ASSUME NEW c \in Calls
      PROVE  KindOK(c) /\ HeldOK(c) /\ FreshOK(c) /\ TransactionOK(c)
  <2>1. pc[c] = "unsent" /\ got[c] = None /\ view[c] = Nothing
    BY DEF Init
  <2> QED BY <1>3, <2>1 DEF KindOK, HeldOK, FreshOK, TransactionOK, Nothing,
                            Starting, Judging, Holding, Answering, Works
<1> QED BY <1>5, <1>6, <1>7 DEF WorkInv

LEMMA ServeCommand ==
  ASSUME WorkInv, NEW c \in Calls, Serve(c), ~Commit(c), ~Retry(c)
  PROVE  Command(c)
BY CheckCommand, StopFindCommand, StopWriteCommand, InsertCommand, GuardFindCommand,
   GuardWriteCommand, FindCommand, StopCommand, DiscardCommand, ResolveCommand,
   ResolveSpanCommand, EditCommand DEF Serve

LEMMA RetryBegins ==
  ASSUME WorkInv, NEW c \in Calls, Retry(c), UNCHANGED setup
  PROVE  Begins(c, req[c])
<1>1. TypeOK
  BY DEF WorkInv
<1> QED BY <1>1 DEF Retry, Begins, TypeOK

LEMMA ArriveBegins ==
  ASSUME NEW c \in Calls, Arrive(c)
  PROVE  \E r : Begins(c, r)
<1>1. PICK r \in Requests : req' = [req EXCEPT ![c] = r] /\ Begin(c, r)
  BY DEF Arrive
<1>2. Begins(c, r)
  BY <1>1 DEF Arrive, Begins
<1> QED BY <1>2

(* The one thing a step is: what one call makes of the entries.            *)
CallMakes(c) ==
  /\ pc'[c] # pc[c]
  /\ \A d \in Calls \ {c} : pc'[d] = pc[d]
  /\ \A i \in Ids : Makes(c, i, entries[i], entries'[i])
  /\ entries' # entries => req[c] \in Requests

LEMMA StepMakes ==
  ASSUME WorkInv, NEW c \in Calls, Arrive(c) \/ Serve(c)
  PROVE  WorkInv' /\ CallMakes(c)
<1>1. TypeOK
  BY DEF WorkInv
<1>2. ASSUME NEW r, Begins(c, r)
      PROVE  WorkInv' /\ CallMakes(c)
  <2>1. WorkInv'
    BY <1>2, BeginKeeps
  <2>2. pc' = [pc EXCEPT ![c] = First(r)] /\ entries' = entries
    BY <1>2 DEF Begins, Begin, Goto
  <2>3. First(r) # pc[c]
    BY <1>2 DEF Begins, First
  <2> QED BY <1>1, <2>1, <2>2, <2>3 DEF CallMakes, Makes, TypeOK
<1>3. CASE Commit(c) /\ UNCHANGED setup
  <2>1. WorkInv' /\ \A i \in Ids : Makes(c, i, entries[i], entries'[i])
    BY <1>3, CommitKeepsWork, CommitMakes
  <2>2. pc' = [pc EXCEPT ![c] = "done"] /\ pc[c] = "commit"
    BY <1>3 DEF Commit, Goto
  <2> QED BY <1>1, <2>1, <2>2 DEF CallMakes, TypeOK
<1>4. CASE Command(c)
  <2>1. WorkInv'
    BY <1>4, CommandKeeps
  <2>2. pc' = [pc EXCEPT ![c] = pc'[c]] /\ pc'[c] # pc[c]
    BY <1>4 DEF Command, Alone
  <2>3. \A d \in Calls \ {c} : pc'[d] = pc[d]
    BY <1>1, <2>2 DEF TypeOK
  <2>4. \A i \in Ids : Makes(c, i, entries[i], entries'[i])
    <3>1. Transactional => entries' = entries
      BY <1>1, <1>4, EffectEntries DEF Command
    <3>2. ~Transactional => \A i \in Ids : Makes(c, i, entries[i], entries'[i])
      BY <1>1, <1>4, EffectEntries DEF Command
    <3> QED BY <3>1, <3>2 DEF Makes
  <2>5. req[c] \in Requests
    BY <1>4, Serving DEF Command, Alone
  <2> QED BY <2>1, <2>2, <2>3, <2>4, <2>5 DEF CallMakes
<1>5. CASE Arrive(c)
  BY <1>2, <1>5, ArriveBegins
<1>6. CASE Serve(c)
  <2>1. UNCHANGED setup
    BY <1>6 DEF Serve
  <2>2. CASE Retry(c)
    BY <1>2, <2>1, <2>2, RetryBegins
  <2>3. CASE Commit(c)
    BY <1>3, <2>1, <2>3
  <2>4. CASE ~Retry(c) /\ ~Commit(c)
    BY <1>4, <1>6, <2>4, ServeCommand
  <2> QED BY <2>2, <2>3, <2>4
<1> QED BY <1>5, <1>6

LEMMA StutterKeeps == ASSUME WorkInv, UNCHANGED vars PROVE WorkInv'
<1>1. /\ TypeOK' /\ DurationsMatch'
  BY DEF WorkInv, vars, TypeOK, DurationsMatch, Transactional, Requests
<1>2. ASSUME NEW c \in Calls
      PROVE  KindOK(c)' /\ HeldOK(c)' /\ FreshOK(c)' /\ TransactionOK(c)'
  <2>1. KindOK(c) /\ HeldOK(c) /\ FreshOK(c) /\ TransactionOK(c)
    BY DEF WorkInv
  <2>2. /\ setup' = setup /\ entries' = entries /\ pc' = pc /\ req' = req /\ got' = got
        /\ view' = view /\ wrote' = wrote /\ stale' = stale
        /\ Transactional' = Transactional /\ Behavior' = Behavior
    BY DEF vars, Transactional, Behavior
  <2>3. KindOK(c)' /\ FreshOK(c)'
    BY <2>1, <2>2 DEF KindOK, FreshOK, Sees
  <2>4. TransactionOK(c)'
    BY <2>1, <2>2 DEF TransactionOK, Makes, Alters, Gives, Remarks, Asking
  <2>5. HeldOK(c)'
    BY <2>1, <2>2 DEF HeldOK, Holds, Sees, Expected, RunsAway, RunsAwayAgain
  <2> QED BY <2>3, <2>4, <2>5
<1> QED BY <1>1, <1>2 DEF WorkInv

LEMMA WorkInvariance == Spec => []WorkInv
<1>1. WorkInv /\ [Next]_vars => WorkInv'
  BY StepMakes, StutterKeeps DEF Next
<1> QED BY InitWork, <1>1, PTL DEF Spec

(* TypeCorrect: entries, calls and transactions keep the form the schema   *)
(* and the handlers give them.                                             *)
THEOREM TypeCorrect == Spec => []TypeOK
<1>1. WorkInv => TypeOK
  BY DEF WorkInv
<1> QED BY WorkInvariance, <1>1, PTL

(* DurationsHold: where requests are transactions, the duration of an      *)
(* ended entry is always that of its span, whatever read it before.        *)
THEOREM DurationsHold == Spec => []DurationsMatch
<1>1. WorkInv => DurationsMatch
  BY DEF WorkInv
<1> QED BY WorkInvariance, <1>1, PTL

(* ReachHolds: no token changes an entry of another workspace than the one *)
(* it is bound to, with transactions and without.                          *)
THEOREM ReachHolds == Spec => ReachKept
<1> DEFINE A == \A c \in Calls, i \in Ids :
       Steps(c) /\ req[c] # None /\ req[c].reach # None /\ entries'[i] # entries[i]
         => \A e \in {entries[i], entries'[i]} \ {None} : e.ws = req[c].reach
<1>1. WorkInv /\ [Next]_vars => [A]_vars
  <2> SUFFICES ASSUME WorkInv, NEW d \in Calls, Arrive(d) \/ Serve(d) PROVE A
    BY DEF Next
  <2>1. CallMakes(d)
    BY StepMakes
  <2> QED BY <2>1 DEF CallMakes, Steps, Makes, Alters
<1> QED BY <1>1, WorkInvariance, PTL DEF Spec, ReachKept

(* An update by another request cannot come between a guard that closes    *)
(* and the entry it judged: there are transactions, or it only asks.       *)
GuardsAlone ==
  \A x \in DOMAIN Setups : Setups[x].transactional \/ Setups[x].behavior \in {"off", "ask"}

(* AnswersHold: marks keep what they measured, and their answers, where    *)
(* requests are transactions, or the guard only asks.                      *)
THEOREM AnswersHold == ASSUME GuardsAlone PROVE Spec => AnswerHolds
<1> DEFINE A == \A i \in Ids :
       entries[i] # None /\ entries[i].runaway # None /\ entries'[i] # None
         => /\ entries'[i].runaway \in {entries[i].runaway, [entries[i].runaway EXCEPT !.resolved = TRUE]}
<1>1. WorkInv /\ [Next]_vars => [A]_vars
  <2> SUFFICES ASSUME WorkInv, NEW d \in Calls, Arrive(d) \/ Serve(d) PROVE A
    BY DEF Next
  <2>1. CallMakes(d)
    BY StepMakes
  <2>2. Asking
    BY DEF GuardsAlone, Asking, WorkInv, TypeOK, Transactional, Behavior
  <2> QED BY <2>1, <2>2 DEF CallMakes, Makes, Alters, Remarks
<1> QED BY <1>1, WorkInvariance, PTL DEF Spec, AnswerHolds

(* Discards are transactions, which keep what they read until they commit. *)
DiscardsInTransactions ==
  \A x \in DOMAIN Setups :
    Setups[x].transactional \/ \A r \in Setups[x].requests : r.kind # "discard"

(* StoppedStay: an entry that was stopped is never discarded, where a      *)
(* discard is a transaction.                                               *)
THEOREM StoppedStay == ASSUME DiscardsInTransactions PROVE Spec => DiscardsOnlyRunning
<1> DEFINE A == \A i \in Ids : Ended(entries, i) => entries'[i] # None
<1>1. WorkInv /\ [Next]_vars => [A]_vars
  <2> SUFFICES ASSUME WorkInv, NEW d \in Calls, Arrive(d) \/ Serve(d), NEW i \in Ids,
                      entries[i] # None, entries[i].end # 0, entries'[i] = None
               PROVE  FALSE
    BY DEF Next, Ended
  <2>1. CallMakes(d)
    BY StepMakes
  <2>2. req[d].kind = "discard" /\ ~Transactional
    BY <2>1 DEF CallMakes, Makes, Alters
  <2>3. req[d] \in Requests
    BY <2>1 DEF CallMakes
  <2> QED BY <2>2, <2>3 DEF DiscardsInTransactions, Transactional, Requests, WorkInv, TypeOK
<1> QED BY <1>1, WorkInvariance, PTL DEF Spec, DiscardsOnlyRunning

(* Without transactions, every edit names an entry and gives its end.      *)
EditsGiveEnds ==
  \A x \in DOMAIN Setups :
    Setups[x].transactional
      \/ \A r \in Setups[x].requests : r.kind = "edit" => r.id # None /\ r.end # NotGiven

(* FirstCloseHolds: whoever closes an entry first wins, where requests are *)
(* transactions or no edit writes back an end that it only read.           *)
THEOREM FirstCloseHolds == ASSUME EditsGiveEnds PROVE Spec => FirstCloseStands
<1> DEFINE A == \A i \in Ids :
       Ended(entries, i) /\ entries'[i] # None /\ entries'[i].end # entries[i].end
         => \E c \in Calls : MovesEnd(c, i)
<1>1. WorkInv /\ [Next]_vars => [A]_vars
  <2> SUFFICES ASSUME WorkInv, NEW d \in Calls, Arrive(d) \/ Serve(d), NEW i \in Ids,
                      entries[i] # None, entries[i].end # 0,
                      entries'[i] # None, entries'[i].end # entries[i].end
               PROVE  MovesEnd(d, i)
    BY DEF Next, Ended
  <2>1. CallMakes(d)
    BY StepMakes
  <2>2. Gives(d, i) /\ Steps(d) /\ req[d] \in Requests
    BY <2>1 DEF CallMakes, Makes, Alters, Steps
  <2>3. ~Transactional /\ req[d].kind = "edit" => req[d].id # None /\ req[d].end # NotGiven
    BY <2>2 DEF EditsGiveEnds, Transactional, Requests, WorkInv, TypeOK
  <2>4. req[d] # None
    BY <2>2, TimerAssumption DEF Requests, WorkInv, TypeOK
  <2> QED BY <2>2, <2>3, <2>4 DEF MovesEnd, Gives
<1> QED BY <1>1, WorkInvariance, PTL DEF Spec, FirstCloseStands
=============================================================================
