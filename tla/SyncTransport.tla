--------------------------- MODULE SyncTransport ---------------------------
(***************************************************************************)
(* Sync events between the server's replicas (packages/server/src/ws/      *)
(* sync-transport.ts): every replica publishes over one connection to      *)
(* Redis and hears its peers over another. Redis keeps nothing: what is    *)
(* published while a connection is down is lost, so a replica that may     *)
(* have missed or lost something closes its clients' sockets, and asks its *)
(* peers to close theirs, and the clients read everything again.           *)
(*                                                                         *)
(* An event is a hint to read again, so one under way stands for several.  *)
(* What a generation is compared for - whether a gap was marked since - is *)
(* kept as a flag of the request it was taken for.                         *)
(***************************************************************************)
EXTENDS Integers, FiniteSets, Sequences

CONSTANTS
  Replicas,    \* server processes with REDIS_URL set
  None,
  MaxWrites,   \* bound: changes committed in a behaviour
  MaxFaults    \* bound: connections lost, commands failed, replicas restarted

ASSUME TransportAssumption ==
  /\ MaxWrites \in Nat /\ MaxFaults \in Nat
  /\ None \notin Replicas \cup [sent : BOOLEAN, current : BOOLEAN]

(* A connection to Redis: "lost" is broken, or answers too late, and nobody *)
(* knows; "ending" is given up, and its close event not here yet.          *)
Links == {"ready", "lost", "ending", "closed"}

States ==
  [pub : Links, sub : Links,
   listening : BOOLEAN,                \* Redis has its subscription
   acks : SUBSET {"current", "stale"}, \* replies to subscribe under way
   subscribed : BOOLEAN, gap : BOOLEAN,
   recovery : [sent : BOOLEAN,         \* its reply may come
               current : BOOLEAN]      \* no gap was marked since
              \cup {None},
   news : SUBSET {"event", "resync"},  \* from Redis, not handled yet
   owed : 0..MaxWrites,                \* changes committed and not published yet
   failing : BOOLEAN]                  \* events whose publish will be rejected

VARIABLES
  replica,    \* Replicas -> its transport
  writes,     \* changes committed so far
  faults

transportVars == <<replica, writes, faults>>

Started ==
  [pub |-> "closed", sub |-> "closed", listening |-> FALSE, acks |-> {}, subscribed |-> FALSE,
   gap |-> FALSE, recovery |-> None, news |-> {}, owed |-> 0, failing |-> FALSE]

Settled ==
  [Started EXCEPT !.pub = "ready", !.sub = "ready", !.listening = TRUE, !.subscribed = TRUE]

(* Some replicas run, others have just been started.                       *)
TransportInit(running) ==
  /\ replica = [i \in Replicas |-> IF i \in running THEN Settled ELSE Started]
  /\ writes = 0
  /\ faults = 0

(* ioredis' status.                                                        *)
Ready(link) == link # "closed"

Healthy(s) == ~s.gap /\ s.subscribed /\ Ready(s.pub)

(* markGap, without the resync its first call asks for.                    *)
Gapped(s) ==
  [s EXCEPT !.gap = TRUE, !.recovery = IF @ = None THEN None ELSE [@ EXCEPT !.current = FALSE]]

(* Over a connection that is given up a resync is refused at once, which   *)
(* leaves everything as it was: "ready" and "lost" are what counts.        *)
MayRecover(s) == s.gap /\ s.recovery = None /\ s.subscribed /\ s.pub \in {"ready", "lost"}

(* recover: a resync is published, if the connection really stands.        *)
Recovered(s) ==
  IF MayRecover(s) THEN [s EXCEPT !.recovery = [sent |-> s.pub = "ready", current |-> TRUE]] ELSE s

Heard(s, what) == IF s.listening THEN [s EXCEPT !.news = @ \cup what] ELSE s

(* Replica i is now s, and its peers hear what it published.               *)
Becomes(i, s, what) ==
  replica' = [j \in Replicas |-> IF j = i THEN s ELSE Heard(replica[j], what)]

\* A mutant: a replica that recovers refreshes its own clients alone.
ThenRecoversAlone(i, s) == Becomes(i, Recovered(s), {})

ThenRecovers(i, s) ==
  Becomes(i, Recovered(s), IF MayRecover(s) /\ s.pub = "ready" THEN {"resync"} ELSE {})

Fault == faults < MaxFaults /\ faults' = faults + 1

-----------------------------------------------------------------------------
(* The subscriber.                                                         *)

SubscriberReady(i) ==
  /\ replica[i].sub = "closed"
  /\ Becomes(i, [replica[i] EXCEPT !.sub = "ready", !.acks = @ \cup {"current"}], {})
  /\ UNCHANGED <<writes, faults>>

(* Redis has the subscription before its reply arrives.                    *)
Listens(i) ==
  /\ replica[i].sub = "ready" /\ "current" \in replica[i].acks /\ ~replica[i].listening
  /\ Becomes(i, [replica[i] EXCEPT !.listening = TRUE], {})
  /\ UNCHANGED <<writes, faults>>

Ack(i) ==
  /\ \/ /\ "stale" \in replica[i].acks
        /\ Becomes(i, [replica[i] EXCEPT !.acks = @ \ {"stale"}], {})
     \/ /\ "current" \in replica[i].acks /\ replica[i].listening
        /\ ThenRecovers(i, [replica[i] EXCEPT !.acks = @ \ {"current"}, !.subscribed = TRUE])
  /\ UNCHANGED <<writes, faults>>

SubscriberLost(i) ==
  /\ replica[i].sub = "ready" /\ Fault
  /\ Becomes(i, [replica[i] EXCEPT !.sub = "lost", !.listening = FALSE], {})
  /\ UNCHANGED writes

(* Its close event; what Redis had sent is gone.                           *)
Unsubscribed(s) ==
  Gapped([s EXCEPT !.sub = "closed", !.subscribed = FALSE, !.news = {},
                   !.acks = IF @ = {} THEN {} ELSE {"stale"}])

SubscriberClosed(i) ==
  /\ replica[i].sub = "lost"
  /\ Becomes(i, Unsubscribed(replica[i]), {})
  /\ UNCHANGED <<writes, faults>>

(* The subscribe command is refused or times out.                          *)
SubscribeFails(i) ==
  /\ "current" \in replica[i].acks /\ Ready(replica[i].sub) /\ Fault
  /\ Becomes(i, Gapped([replica[i] EXCEPT !.acks = @ \ {"current"}, !.subscribed = FALSE,
                                          !.sub = "lost", !.listening = FALSE]), {})
  /\ UNCHANGED writes

-----------------------------------------------------------------------------
(* The publisher.                                                          *)

PublisherLost(i) ==
  /\ replica[i].pub = "ready" /\ Fault
  /\ Becomes(i, [replica[i] EXCEPT !.pub = "lost"], {})
  /\ UNCHANGED writes

(* No reply comes any more, and nothing is sent again                      *)
(* (autoResendUnfulfilledCommands): commands under way are rejected when   *)
(* their time is over, be there another connection by then or not.         *)
Unanswered(s) == [s EXCEPT !.pub = "closed", !.recovery = IF @ = None THEN None ELSE [@ EXCEPT !.sent = FALSE]]

PublisherClosed(i) ==
  /\ replica[i].pub \in {"lost", "ending"}
  /\ Becomes(i, Gapped(Unanswered(replica[i])), {})
  /\ UNCHANGED <<writes, faults>>

PublisherReady(i) ==
  /\ replica[i].pub = "closed"
  /\ ThenRecovers(i, [replica[i] EXCEPT !.pub = "ready"])
  /\ UNCHANGED <<writes, faults>>

(* disconnect(true).                                                       *)
Disconnected(s) == [s EXCEPT !.pub = IF Ready(@) THEN "ending" ELSE @]

(* The reply to a recovery's publish. One that a gap was marked since is   *)
(* begun again.                                                            *)
RecoveryFails(s) == ~s.recovery.sent \/ s.pub # "ready"

RecoveryEnds(s) == s.recovery.sent /\ s.recovery.current

\* A mutant: a recovery whose gap was marked again is not begun again.
RecoveryForgotten(i) ==
  LET s == replica[i] IN
  /\ s.recovery # None
  /\ \/ RecoveryEnds(s) /\ Becomes(i, [s EXCEPT !.recovery = None, !.gap = FALSE], {})
     \/ s.recovery.sent /\ ~s.recovery.current /\ Becomes(i, [s EXCEPT !.recovery = None], {})
     \/ RecoveryFails(s) /\ Becomes(i, Disconnected(Gapped([s EXCEPT !.recovery = None])), {})
  /\ UNCHANGED <<writes, faults>>

RecoveryReply(i) ==
  LET s == replica[i] IN
  /\ s.recovery # None
  /\ \/ RecoveryEnds(s) /\ Becomes(i, [s EXCEPT !.recovery = None, !.gap = FALSE], {})
     \/ s.recovery.sent /\ ~s.recovery.current /\ ThenRecovers(i, [s EXCEPT !.recovery = None])
     \/ RecoveryFails(s) /\ ThenRecovers(i, Disconnected(Gapped([s EXCEPT !.recovery = None])))
  /\ UNCHANGED <<writes, faults>>

(* A change is committed; its publication follows the commit.              *)
Write(i) ==
  /\ writes < MaxWrites
  /\ writes' = writes + 1
  /\ Becomes(i, [replica[i] EXCEPT !.owed = @ + 1], {})
  /\ UNCHANGED faults

(* publish, after its local delivery. Over a broken connection, or when    *)
(* Redis refuses it, the event is lost and the command will be rejected.   *)
Publish(i) ==
  LET s == [replica[i] EXCEPT !.owed = @ - 1] IN
  /\ replica[i].owed > 0
  /\ \/ ~Healthy(s) /\ ThenRecovers(i, Gapped(s)) /\ UNCHANGED faults
     \/ Healthy(s) /\ s.pub = "ready" /\ Becomes(i, s, {"event"}) /\ UNCHANGED faults
     \/ Healthy(s) /\ s.pub # "ready" /\ Becomes(i, [s EXCEPT !.failing = TRUE], {}) /\ UNCHANGED faults
     \/ Healthy(s) /\ s.pub = "ready" /\ Fault /\ Becomes(i, [s EXCEPT !.failing = TRUE], {})
  /\ UNCHANGED writes

(* The lookup of who is to be told fails (publishSync's catch): the change *)
(* is announced to nobody, and no gap is marked.                           *)
Unannounced(i) ==
  /\ replica[i].owed > 0 /\ Fault
  /\ Becomes(i, [replica[i] EXCEPT !.owed = @ - 1], {})
  /\ UNCHANGED writes

Rejected(i) ==
  /\ replica[i].failing
  /\ Becomes(i, Disconnected(Gapped([replica[i] EXCEPT !.failing = FALSE])), {})
  /\ UNCHANGED <<writes, faults>>

-----------------------------------------------------------------------------
(* A message of a peer is handled.                                         *)
Hear(i, m) ==
  /\ m \in replica[i].news
  /\ Becomes(i, [replica[i] EXCEPT !.news = @ \ {m}], {})
  /\ UNCHANGED <<writes, faults>>

(* A replica dies, and another one is started in its place.                *)
Restart(i) ==
  /\ Fault
  /\ Becomes(i, Started, {})
  /\ UNCHANGED writes

(* What dies with it.                                                      *)
Owing(s) == s.owed > 0 \/ s.failing \/ s.gap

(* What closes the sockets of replica i in a step: the first mark of a gap, *)
(* the end of a recovery, a peer's request, and the replica's end.         *)
GapBegins(i) == ~replica[i].gap /\ replica'[i].gap
GapEnds(i) == replica[i].gap /\ ~replica'[i].gap
=============================================================================
