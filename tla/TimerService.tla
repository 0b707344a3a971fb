---------------------------- MODULE TimerService ----------------------------
(***************************************************************************)
(* The running timer of one person on the server: start, stop, discard,    *)
(* the runaway guard and the answers to it, and edits of entries           *)
(* (packages/server/src/services/entries/timer.ts, entries/crud.ts,        *)
(* services/entry-stop.ts, services/runaway.ts), command by command.       *)
(*                                                                         *)
(* On a replica set a request is one transaction: it works on a snapshot,  *)
(* and is run again when what it wrote was changed since. On a standalone  *)
(* server withBusinessTransaction runs the same work without one, and      *)
(* every command meets the database as it is by then.                      *)
(*                                                                         *)
(* Each request is sent once (EntryOperations has the repetitions). The    *)
(* entry a start creates is named by its request; Old is one that existed. *)
(***************************************************************************)
EXTENDS Integers

CONSTANTS
  Calls,          \* requests, in flight together
  Old,            \* an entry from before
  None,
  Setups,         \* the deployments and persons looked at, see below
  Before,         \* what Old may be at the beginning
  Limit           \* the person's maxHours

Ids == Calls \cup {Old}

NotGiven == -1    \* an optional input that is absent

Kinds == {"start", "stop", "discard", "look", "resolve", "edit"}

(* ws is the workspace asked; reach is None for a person and ws for a token *)
(* bound to it, which cannot discard or resolve; id is None for "whatever   *)
(* runs"; start is also the time of a look; an edit's end may be 0, null.   *)
Asks(workspaces) ==
  {r \in [kind : Kinds, ws : workspaces, reach : workspaces \cup {None}, id : Ids \cup {None},
           start : Int, end : Int, resolution : {"keep", "cap", "restore", "end-at"}] :
     r.reach = None \/ (r.reach = r.ws /\ r.kind \notin {"discard", "resolve"})}

(* The limit that was passed stays with the mark, whatever is set later.    *)
Marks == [elapsed : Nat, limit : Nat \ {0}, action : {"flagged", "capped", "stopped"}, resolved : BOOLEAN]

(* An end of 0 is null: the entry runs.                                    *)
Entry(w, s, e, d, m) == [ws |-> w, start |-> s, end |-> e, duration |-> d, runaway |-> m]

Workspaces ==
  {r.ws : r \in UNION {Setups[x].requests : x \in DOMAIN Setups}} \cup {e.ws : e \in Before \ {None}}

Stored == [ws : Workspaces, start : Int, end : Int, duration : Int, runaway : Marks \cup {None}]

Answers == {"ok", "refused", "conflict"}

(* An ended entry's duration is that of its span.                          *)
Fits(e) == e.end # 0 => e.duration = e.end - e.start

ASSUME TimerAssumption ==
  /\ Old \notin Calls
  /\ None \notin Ids \cup Answers /\ None \notin Marks /\ None \notin Stored
  /\ \A e \in Before \ {None} : e \in Stored /\ Fits(e)
  /\ Limit \in Nat \ {0}
  /\ \A x \in DOMAIN Setups :
       /\ Setups[x].transactional \in BOOLEAN      \* supportsBusinessTransactions
       /\ Setups[x].behavior \in {"off", "ask", "cap", "stop"}  \* their maxDuration.behavior
       /\ \A r \in Setups[x].requests :           \* what a call may ask for
            r \in Asks({q.ws : q \in Setups[x].requests}) /\ r # None

VARIABLES
  setup,      \* the one of Setups, the same for ever
  entries,    \* Ids -> the entry in the database, or None
  pc,         \* Calls -> the command the call is at
  req,        \* Calls -> what it asks for
  got,        \* Calls -> the entry it read: which, and as it was
  answer,     \* Calls -> how it ended
  view,       \* Calls -> the entries as its transaction sees them
  wrote,      \* Calls -> the entries it wrote in its transaction
  stale       \* Calls -> entries committed by others since its snapshot

dbVars == <<entries, view, wrote, stale>>
vars == <<setup, entries, pc, req, got, answer, view, wrote, stale>>

Transactional == Setups[setup].transactional
Behavior == Setups[setup].behavior
Requests == Setups[setup].requests

Nothing == [i \in Ids |-> None]

Init ==
  /\ setup \in DOMAIN Setups
  /\ \E e \in Before : entries = [Nothing EXCEPT ![Old] = e]
  /\ pc = [c \in Calls |-> "unsent"]
  /\ req = [c \in Calls |-> None]
  /\ got = [c \in Calls |-> None]
  /\ answer = [c \in Calls |-> None]
  /\ view = [c \in Calls |-> Nothing]
  /\ wrote = [c \in Calls |-> {}]
  /\ stale = [c \in Calls |-> {}]

-----------------------------------------------------------------------------
(* Commands to the database                                                *)

Sees(c) == IF Transactional THEN view[c] ELSE entries

IsRunning(es, i) == es[i] # None /\ es[i].end = 0

(* A mutant: a token reaches whatever its person runs.                     *)
ReachableAny(c, e) == TRUE

(* reachFilter; an edit is addressed to one workspace, whoever asks.       *)
Reachable(c, e) ==
  /\ req[c].reach \in {None, e.ws}
  /\ req[c].kind = "edit" => e.ws = req[c].ws

(* A mutant: the unique index is compounded with the workspace.            *)
OccupiedPerWorkspace(es, i) == \E j \in Ids \ {i} : IsRunning(es, j) /\ es[j].ws = es[i].ws

(* The unique index on the author of a running entry.                      *)
Occupied(es, i) == \E j \in Ids \ {i} : IsRunning(es, j)

Clashes(es, i) == IsRunning(es, i) /\ Occupied(es, i)

Goto(c, s) == pc' = [pc EXCEPT ![c] = s]

Keep(c, i) == got' = [got EXCEPT ![c] = [id |-> i, was |-> Sees(c)[i]]]

Forget(c) == got' = [got EXCEPT ![c] = None]

(* A call that ends: nothing of its transaction is kept.                   *)
Leave(c) ==
  /\ view' = [view EXCEPT ![c] = Nothing]
  /\ wrote' = [wrote EXCEPT ![c] = {}]
  /\ stale' = [stale EXCEPT ![c] = {}]

Fail(c, a) ==
  /\ Goto(c, "done")
  /\ Forget(c)
  /\ answer' = [answer EXCEPT ![c] = a]
  /\ Leave(c)
  /\ UNCHANGED entries

Put(c, i, e) ==
  IF Transactional
    THEN /\ view' = [view EXCEPT ![c][i] = e]
         /\ wrote' = [wrote EXCEPT ![c] = @ \cup {i}]
         /\ UNCHANGED <<entries, stale>>
    ELSE /\ entries' = [entries EXCEPT ![i] = e]
         /\ UNCHANGED <<view, wrote, stale>>

Go(c, s) ==
  /\ Goto(c, IF s # "end" THEN s ELSE IF Transactional THEN "commit" ELSE "done")
  /\ answer' = IF s = "end" /\ ~Transactional THEN [answer EXCEPT ![c] = "ok"] ELSE answer

(* What the index or the guard on intervals refuses.                       *)
Refused(c, i, e) ==
  /\ e # None
  /\ \/ e.end # 0 /\ e.end < e.start
     \/ Clashes([Sees(c) EXCEPT ![i] = e], i)

(* An update by id, which goes on to another command or ends the work.     *)
Write(c, i, e, next) ==
  IF Refused(c, i, e)
    THEN Fail(c, "conflict")
    ELSE Put(c, i, e) /\ Go(c, next) /\ Forget(c)

Later(a, b) == IF a < b THEN b ELSE a

Between(a, b) == Later(0, b - a)     \* durationBetween

(* finalizeStop's update: the entry as it was read decides the duration.   *)
Closed(e, was, end, mark) ==
  [e EXCEPT !.end = end, !.duration = Between(was.start, end),
            !.runaway = IF mark = None THEN @ ELSE mark]

(* ... and its filter: whoever closes the entry first wins.                *)
Closable(c, i) == IsRunning(Sees(c), i)

-----------------------------------------------------------------------------
(* transactional: a snapshot, and the whole work again on a conflict       *)

First(r) ==
  CASE r.kind = "start" -> IF r.reach = None THEN "guard" ELSE "check"
    [] r.kind = "look" -> "guard"
    [] OTHER -> "find"

(* A mutant: a retry works on the snapshot it had.                         *)
BeginOnOldSnapshot(c, r) ==
  /\ Goto(c, First(r))
  /\ view' = [view EXCEPT ![c] = IF pc[c] = "unsent" /\ Transactional THEN entries ELSE @]
  /\ UNCHANGED <<entries, wrote, stale>>

Begin(c, r) ==
  /\ Goto(c, First(r))
  /\ view' = [view EXCEPT ![c] = IF Transactional THEN entries ELSE Nothing]
  /\ wrote' = [wrote EXCEPT ![c] = {}]
  /\ stale' = [stale EXCEPT ![c] = {}]
  /\ UNCHANGED entries

Arrive(c) ==
  /\ pc[c] = "unsent"
  /\ \E r \in Requests : req' = [req EXCEPT ![c] = r] /\ Begin(c, r)
  /\ UNCHANGED <<setup, got, answer>>

Merged(c) == [i \in Ids |-> IF i \in wrote[c] THEN view[c][i] ELSE entries[i]]

(* A mutant: what another transaction committed since is overwritten.      *)
CommitsOver(c) == \A i \in wrote[c] : ~Clashes(Merged(c), i)

(* The database lets the first writer of an entry, or of the index, win.   *)
Commits(c) ==
  /\ wrote[c] \cap stale[c] = {}
  /\ \A i \in wrote[c] : ~Clashes(Merged(c), i)

Commit(c) ==
  /\ pc[c] = "commit"
  /\ Commits(c)
  /\ Goto(c, "done")
  /\ answer' = [answer EXCEPT ![c] = "ok"]
  /\ entries' = Merged(c)
  /\ stale' = [d \in Calls |-> IF d = c \/ pc[d] \in {"unsent", "done"} THEN {}
                               ELSE stale[d] \cup wrote[c]]
  /\ view' = [view EXCEPT ![c] = Nothing]
  /\ wrote' = [wrote EXCEPT ![c] = {}]
  /\ UNCHANGED <<req, got>>

Retry(c) ==
  /\ pc[c] = "commit"
  /\ ~Commits(c)
  /\ Begin(c, req[c])
  /\ UNCHANGED <<req, got, answer>>

-----------------------------------------------------------------------------
(* startTimerDetailed, startNewEntry, stopRunningEntry                     *)

(* A token starts nothing while a timer runs elsewhere.                    *)
Check(c) ==
  /\ pc[c] = "check"
  /\ IF \E i \in Ids : IsRunning(Sees(c), i) /\ ~Reachable(c, Sees(c)[i])
       THEN Fail(c, "conflict")
       ELSE Goto(c, "guard") /\ UNCHANGED <<got, answer, dbVars>>
  /\ UNCHANGED req

InReach(c) == {i \in Ids : IsRunning(Sees(c), i) /\ Reachable(c, Sees(c)[i])}

(* Reads one of some entries, or goes on without.                          *)
Read(c, some, found, missing) ==
  /\ IF some = {} THEN Goto(c, missing) /\ UNCHANGED got
                  ELSE Goto(c, found) /\ \E i \in some : Keep(c, i)
  /\ UNCHANGED <<req, answer, dbVars>>

StopFind(c) ==
  \/ pc[c] = "clear" /\ Read(c, InReach(c), "clearing", "insert")
  \/ pc[c] = "clear late" /\ Read(c, InReach(c), "clearing late", "insert late")

(* One stopped meanwhile is none to stop.                                  *)
StopWrite(c) ==
  /\ pc[c] \in {"clearing", "clearing late"}
  /\ LET i == got[c].id
         was == got[c].was
         next == IF pc[c] = "clearing" THEN "insert" ELSE "insert late"
     IN IF Closable(c, i)
          THEN Write(c, i, Closed(Sees(c)[i], was, Later(req[c].start, was.start), None), next)
          ELSE Go(c, next) /\ Forget(c) /\ UNCHANGED dbVars
  /\ UNCHANGED req

(* Another start was committed since the transaction began.                *)
SlippedIn(c) == \E j \in stale[c] : IsRunning(entries, j)

(* Without a transaction, a start that slipped in is stopped, once. In one, *)
(* it is a duplicate key, which is a conflict, or a write conflict, after   *)
(* which the whole work is run again (Retry).                               *)
Insert(c) ==
  /\ pc[c] \in {"insert", "insert late"}
  /\ LET new == Entry(req[c].ws, req[c].start, 0, 0, None)
     IN \/ SlippedIn(c) /\ Fail(c, "conflict")
        \/ IF Refused(c, c, new) /\ ~Transactional /\ pc[c] = "insert"
             THEN Go(c, "clear late") /\ UNCHANGED <<got, dbVars>>
             ELSE Write(c, c, new, "end")
  /\ UNCHANGED req

-----------------------------------------------------------------------------
(* The runaway guard: enforceMaxEntryDuration and evaluateRunaway          *)

(* A mutant: an entry that has its mark is judged again.                   *)
RunsAwayAgain(e, at) == Behavior # "off" /\ at - e.start > Limit

(* Once per entry, answered or not.                                        *)
RunsAway(e, at) == RunsAwayAgain(e, at) /\ e.runaway = None

Action == CASE Behavior = "ask" -> "flagged" [] Behavior = "cap" -> "capped" [] OTHER -> "stopped"

Mark(e, at) == [elapsed |-> at - e.start, limit |-> Limit, action |-> Action, resolved |-> FALSE]

(* A mutant: a flag is written whatever was decided meanwhile.             *)
FlaggableAny(e) == TRUE

(* The flag's filter.                                                      *)
Flaggable(e) == e.runaway = None

AfterGuard(c) == IF req[c].kind = "start" THEN "clear" ELSE "end"

(* A look that finds nothing has nothing to write, and is over.            *)
GuardFind(c) ==
  /\ pc[c] = "guard"
  /\ LET runaways == {i \in InReach(c) : RunsAway(Sees(c)[i], req[c].start)}
     IN IF runaways = {} THEN Go(c, AfterGuard(c)) /\ UNCHANGED got
        ELSE Goto(c, "guarding") /\ (\E i \in runaways : Keep(c, i)) /\ UNCHANGED answer
  /\ UNCHANGED <<req, dbVars>>

(* A flag is written on a running entry without a mark, an end through     *)
(* finalizeStop. Whoever comes second finds nothing to do, and a refused   *)
(* write is swallowed.                                                     *)
GuardWrite(c) ==
  /\ pc[c] = "guarding"
  /\ LET i == got[c].id
         was == got[c].was
         now == Sees(c)[i]
         mark == Mark(was, req[c].start)
         end == IF Behavior = "cap" THEN was.start + Limit ELSE req[c].start
         new == IF Behavior = "ask" THEN [now EXCEPT !.runaway = mark]
                                    ELSE Closed(now, was, end, mark)
     IN IF /\ Closable(c, i)
           /\ Behavior = "ask" => Flaggable(now)
           /\ ~Refused(c, i, new)
          THEN Put(c, i, new)
          ELSE UNCHANGED dbVars
  /\ Go(c, AfterGuard(c))
  /\ Forget(c)
  /\ UNCHANGED req

-----------------------------------------------------------------------------
(* stopTimer, discardTimer, resolveRunawayEntry, updateEntry: each reads    *)
(* an entry, checks the request against it, and writes                     *)

Named(c) ==
  {i \in Ids : /\ Sees(c)[i] # None
               /\ Reachable(c, Sees(c)[i])
               /\ i = req[c].id \/ (req[c].id = None /\ IsRunning(Sees(c), i))}

(* A mutant: an entry named by id is discarded whether it runs or not.     *)
AcceptsDiscardAny(r, e) == TRUE

AcceptsDiscard(r, e) == e.end = 0

AcceptsStop(r, e) == e.end = 0 /\ e.start < r.end

(* resolvedEndMs: 0 stands for "change nothing".                           *)
ResolvedEnd(r, e) ==
  CASE r.resolution = "keep" -> 0
    [] r.resolution = "cap" -> e.start + e.runaway.limit
    [] r.resolution = "restore" -> e.start + e.runaway.elapsed
    [] OTHER -> r.end

EditedStart(r, e) ==
  IF r.start # NotGiven /\ (r.kind = "edit" \/ r.resolution = "end-at") THEN r.start ELSE e.start

AcceptsResolve(r, e) ==
  /\ e.runaway # None
  /\ ResolvedEnd(r, e) # 0 => EditedStart(r, e) < ResolvedEnd(r, e)

EditedEnd(r, e) == IF r.end = NotGiven THEN e.end ELSE r.end

AcceptsEdit(r, e) == EditedEnd(r, e) # 0 => EditedStart(r, e) < EditedEnd(r, e)

Accepts(r, e) ==
  CASE r.kind = "stop" -> AcceptsStop(r, e)
    [] r.kind = "discard" -> AcceptsDiscard(r, e)
    [] r.kind = "resolve" -> AcceptsResolve(r, e)
    [] OTHER -> AcceptsEdit(r, e)

Find(c) ==
  /\ pc[c] = "find"
  /\ \/ \E i \in Named(c) :
          /\ Accepts(req[c], Sees(c)[i])
          /\ Keep(c, i)
          /\ Goto(c, req[c].kind)
          /\ UNCHANGED <<answer, dbVars>>
     \/ /\ ~\E i \in Named(c) : Accepts(req[c], Sees(c)[i])
        /\ Fail(c, "refused")
  /\ UNCHANGED req

Stop(c) ==
  /\ pc[c] = "stop"
  /\ LET i == got[c].id
     IN IF Closable(c, i)
          THEN Write(c, i, Closed(Sees(c)[i], got[c].was, req[c].end, None), "end")
          ELSE Fail(c, "refused")
  /\ UNCHANGED req

(* The delete asks for the id alone.                                       *)
Discard(c) ==
  /\ pc[c] = "discard"
  /\ Write(c, got[c].id, None, "end")
  /\ UNCHANGED req

Answered(e) == [e EXCEPT !.runaway.resolved = TRUE]

(* A mutant: the duration is that of the entry's old start.                *)
SpanOfOldStart(e, was, start, end) ==
  [e EXCEPT !.start = start, !.end = end, !.duration = IF end = 0 THEN 0 ELSE Between(was.start, end)]

(* A new span and its duration, by id.                                     *)
Span(e, was, start, end) ==
  [e EXCEPT !.start = start, !.end = end, !.duration = IF end = 0 THEN 0 ELSE Between(start, end)]

(* "keep" dismisses, a running entry is closed like any other and then      *)
(* gets its span, and of an ended one the span is moved.                   *)
Resolve(c) ==
  /\ pc[c] = "resolve"
  /\ LET i == got[c].id
         was == got[c].was
         now == Sees(c)[i]
         end == ResolvedEnd(req[c], was)
     IN \/ /\ end = 0 /\ now # None
           /\ Write(c, i, Answered(now), "end")
        \/ /\ end # 0 /\ was.end = 0 /\ Closable(c, i)
           /\ ~Refused(c, i, Closed(now, was, end, None))
           /\ Put(c, i, Closed(now, was, end, None))
           /\ Go(c, "resolve closed")
           /\ UNCHANGED got
        \/ /\ end # 0 /\ was.end # 0 /\ now # None
           /\ Write(c, i, Answered(Span(now, was, EditedStart(req[c], was), end)), "end")
        \/ /\ \/ now = None
              \/ end # 0 /\ was.end = 0 /\ (Closable(c, i) => Refused(c, i, Closed(now, was, end, None)))
           /\ Fail(c, "refused")
  /\ UNCHANGED req

(* Its second command leaves the end alone.                                *)
ResolveSpan(c) ==
  /\ pc[c] = "resolve closed"
  /\ LET i == got[c].id
         was == got[c].was
         now == Sees(c)[i]
         moved == Span(now, was, EditedStart(req[c], was), ResolvedEnd(req[c], was))
     IN IF now = None
          THEN Go(c, "end") /\ Forget(c) /\ UNCHANGED dbVars
          ELSE Write(c, i, Answered([moved EXCEPT !.end = now.end]), "end")
  /\ UNCHANGED req

(* An edit that brings a marked entry within the limit answers its mark.   *)
Corrects(r, e) ==
  /\ e.runaway # None
  /\ ~e.runaway.resolved
  /\ r.start # NotGiven \/ r.end # NotGiven
  /\ EditedEnd(r, e) # 0
  /\ Between(EditedStart(r, e), EditedEnd(r, e)) <= e.runaway.limit

(* The span is written whether it was edited or not.                       *)
Edit(c) ==
  /\ pc[c] = "edit"
  /\ LET i == got[c].id
         was == got[c].was
         now == Sees(c)[i]
         moved == Span(now, was, EditedStart(req[c], was), EditedEnd(req[c], was))
     IN IF now = None
          THEN Fail(c, "refused")
          ELSE Write(c, i, IF Corrects(req[c], was) THEN Answered(moved) ELSE moved, "end")
  /\ UNCHANGED req

-----------------------------------------------------------------------------
Serve(c) ==
  /\ \/ Check(c)
     \/ StopFind(c)
     \/ StopWrite(c)
     \/ Insert(c)
     \/ GuardFind(c)
     \/ GuardWrite(c)
     \/ Find(c)
     \/ Stop(c)
     \/ Discard(c)
     \/ Resolve(c)
     \/ ResolveSpan(c)
     \/ Edit(c)
     \/ Commit(c)
     \/ Retry(c)
  /\ UNCHANGED setup

Next == \E c \in Calls : Arrive(c) \/ Serve(c)

Spec == Init /\ [][Next]_vars

(* The server goes on while a request it has begun is unanswered.          *)
FairSpec == Spec /\ WF_vars(\E c \in Calls : Serve(c))

-----------------------------------------------------------------------------
Works == {"check", "clear", "clearing", "insert", "clear late", "clearing late", "insert late", "guard",
          "guarding", "find", "stop", "discard", "resolve", "resolve closed", "edit", "commit"}

(* TypeOK: the entries, the calls and their transactions are what the      *)
(* schema and the handlers keep.                                           *)
TypeOK ==
  /\ setup \in DOMAIN Setups
  /\ entries \in [Ids -> Stored \cup {None}]
  /\ pc \in [Calls -> Works \cup {"unsent", "done"}]
  /\ req \in [Calls -> Requests \cup {None}]
  /\ got \in [Calls -> [id : Ids, was : Stored] \cup {None}]
  /\ answer \in [Calls -> Answers \cup {None}]
  /\ view \in [Calls -> [Ids -> Stored \cup {None}]]
  /\ wrote \in [Calls -> SUBSET Ids]
  /\ stale \in [Calls -> SUBSET Ids]
  /\ \A c \in Calls : /\ pc[c] # "unsent" => req[c] \in Requests
                      /\ answer[c] # None <=> pc[c] = "done"

(* OneRunning: a person has at most one running timer, in whichever        *)
(* workspace, however starts, stops and reopening edits interleave (the    *)
(* invariant timer.ts exists to hold).                                     *)
OneRunning == \A i, j \in Ids : IsRunning(entries, i) /\ IsRunning(entries, j) => i = j

Ended(es, i) == es[i] # None /\ es[i].end # 0

Steps(c) == pc'[c] # pc[c]

(* FirstCloseStands: whoever closes an entry first wins: its end moves only *)
(* by the answer to its mark or by an edit that gives an end.              *)
MovesEnd(c, i) ==
  /\ Steps(c)
  /\ req[c] # None
  /\ req[c].id = i
  /\ \/ req[c].kind = "resolve" /\ req[c].resolution # "keep"
     \/ req[c].kind = "edit" /\ req[c].end # NotGiven

FirstCloseStands ==
  [][\A i \in Ids : Ended(entries, i) /\ entries'[i] # None /\ entries'[i].end # entries[i].end
                     => \E c \in Calls : MovesEnd(c, i)]_vars

(* DiscardsOnlyRunning: a discard drops the running entry "instead of       *)
(* keeping it"; an entry that was stopped stays.                           *)
DiscardsOnlyRunning == [][\A i \in Ids : Ended(entries, i) => entries'[i] # None]_vars

(* DurationsMatch: the duration an ended entry is billed by is that of its  *)
(* span, though a stop reads the start, and an edit the end, before         *)
(* writing. Without transactions two answers may mix their spans.          *)
DurationsMatch ==
  Transactional => \A i \in Ids : entries[i] # None => Fits(entries[i])

(* AnswerHolds: a mark is made once per entry and keeps what it measured,   *)
(* so a restore always can; once answered it stays answered, and a timer    *)
(* one chose to keep is not capped by a later guard.                       *)
AnswerHolds ==
  [][\A i \in Ids :
       entries[i] # None /\ entries[i].runaway # None /\ entries'[i] # None
         => /\ entries'[i].runaway \in {entries[i].runaway, [entries[i].runaway EXCEPT !.resolved = TRUE]}]_vars

(* ReachKept: what a token bound to a workspace asks for changes no entry   *)
(* of another one, and no timer of its own starts there.                   *)
ReachKept ==
  [][\A c \in Calls, i \in Ids :
       Steps(c) /\ req[c] # None /\ req[c].reach # None /\ entries'[i] # entries[i]
         => \A e \in {entries[i], entries'[i]} \ {None} : e.ws = req[c].reach]_vars

(* EventuallyAnswered: whatever was sent is answered in the end: a           *)
(* transaction that runs again owes it to a commit of another, so retries  *)
(* end (each call is made once, and what is answered stays answered).      *)
EventuallyAnswered == []<>(\A c \in Calls : pc[c] \in {"unsent", "done"})
=============================================================================
