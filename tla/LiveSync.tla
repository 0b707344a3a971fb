------------------------------ MODULE LiveSync ------------------------------
(***************************************************************************)
(* A device's live connection (packages/core/src/sync-client.ts and        *)
(* packages/client/src/hooks/use-sync.ts) to any of the server's replicas  *)
(* (packages/server/src/ws/handler.ts, rooms.ts, session-watch.ts), which  *)
(* tell each other of changes as SyncTransport says.                       *)
(*                                                                         *)
(* What the device shows is stale from a change's commit until it reads    *)
(* again. The sweep that reads everything every 30 s or 5 min is left out: *)
(* the questions are about the events.                                     *)
(***************************************************************************)
EXTENDS SyncTransport, SequencesExt

CONSTANTS
  MaxSockets,   \* bound: sockets of the device not over yet
  MaxCalls      \* bound: connect, reconnect and close called by the device

ASSUME LiveSyncAssumption == MaxSockets \in Nat \ {0} /\ MaxCalls \in Nat /\ None \notin 1..MaxSockets

Slots == 1..MaxSockets

Frames == {"open", "state", "event", "closed", "revoked"}

Last1(inbox) == IF inbox = <<>> THEN "none" ELSE Last(inbox)

VARIABLES
  sockets,    \* Slots -> a socket: where the server has it, what is on its way to the device
  client,     \* the sync client and the fence of use-sync
  stale,      \* the device shows less than what is committed
  lost,       \* and what would have told it of that died, until it reads again
  session,    \* the device's session exists
  calls

deviceVars == <<sockets, client, stale, lost, session, calls>>
vars == <<transportVars, deviceVars>>

(* "cut": the device closed it, or the network did, and the server has not *)
(* seen that.                                                              *)
Sockets ==
  [stage : {"asked", "checked", "known", "room", "left"}, at : Replicas \cup {None}, cut : BOOLEAN, inbox : Seq(Frames)]

Clients ==
  [socket : Slots \cup {None}, status : {"connecting", "open", "closed"}, retry : BOOLEAN,
   wanted : BOOLEAN, latched : BOOLEAN, fenced : BOOLEAN]

NoSocket == [stage |-> "left", at |-> None, cut |-> FALSE, inbox |-> <<>>]

(* Any replica: they do not differ.                                        *)
Home == CHOOSE i \in Replicas : TRUE

Init ==
  /\ \E running \in SUBSET Replicas :
       /\ Home \in running
       /\ TransportInit(running)
  /\ sockets = [[k \in Slots |-> NoSocket] EXCEPT ![1] = [@ EXCEPT !.stage = "room", !.at = Home]]
  /\ client = [socket |-> 1, status |-> "open", retry |-> FALSE, wanted |-> TRUE,
               latched |-> FALSE, fenced |-> TRUE]
  /\ stale = FALSE /\ lost = FALSE
  /\ session = TRUE
  /\ calls = 0

-----------------------------------------------------------------------------
(* The server's side of a socket.                                          *)

(* An event on its way already asks for the same read.                     *)
Sent(s, frame) == IF s.cut \/ Last1(s.inbox) = frame THEN s ELSE [s EXCEPT !.inbox = Append(@, frame)]

Left(s, frame) == [NoSocket EXCEPT !.inbox = Sent(s, frame).inbox]

(* RoomManager.broadcast.                                                  *)
Broadcast(i) ==
  [k \in Slots |-> IF sockets[k].stage = "room" /\ sockets[k].at = i
                   THEN Sent(sockets[k], "event") ELSE sockets[k]]

(* RoomManager.reconnectAll, on sockets now as ss.                         *)
ReconnectAll(ss, i) ==
  [k \in Slots |-> IF ss[k].stage = "room" /\ ss[k].at = i THEN Left(ss[k], "closed") ELSE ss[k]]

Admitted(k) == Healthy(replica[sockets[k].at])

(* The upgrade: whether the replica is available, then the session's       *)
(* lookup, then the same check again and the connection handler.           *)
Passes(k, ok, s) ==
  /\ sockets' = [sockets EXCEPT ![k] = IF ok THEN s ELSE Left(@, "closed")]
  /\ UNCHANGED <<transportVars, client, stale, lost, session, calls>>

Check(k) ==
  /\ sockets[k].stage = "asked"
  /\ Passes(k, Admitted(k), [sockets[k] EXCEPT !.stage = "checked"])

Authenticate(k) ==
  /\ sockets[k].stage = "checked"
  /\ Passes(k, session, [sockets[k] EXCEPT !.stage = "known"])

Join(k) ==
  /\ sockets[k].stage = "known"
  /\ Passes(k, Admitted(k), [Sent(Sent(sockets[k], "open"), "state") EXCEPT !.stage = "room"])

(* The close event of a socket, or the second ping without a pong.         *)
Notice(k) ==
  /\ sockets[k].cut /\ sockets[k].stage = "room"
  /\ sockets' = [sockets EXCEPT ![k] = [NoSocket EXCEPT !.inbox = sockets[k].inbox]]
  /\ UNCHANGED <<transportVars, client, stale, lost, session, calls>>

\* A mutant: the sweep takes a lookup that found nothing for a failed one.
SweepUnsure(k) == FALSE

(* revokeStaleSockets: dropRevokedSocket of one of them.                   *)
Sweep(k) ==
  /\ sockets[k].stage = "room" /\ ~session
  /\ sockets' = [sockets EXCEPT ![k] = Left(@, "revoked")]
  /\ UNCHANGED <<transportVars, client, stale, lost, session, calls>>

Serve(k) == Check(k) \/ Authenticate(k) \/ Join(k) \/ Notice(k)

(* The person signs this device out from another one.                      *)
Revoke ==
  /\ session
  /\ session' = FALSE
  /\ UNCHANGED <<transportVars, sockets, client, stale, lost, calls>>

-----------------------------------------------------------------------------
(* The device.                                                             *)

Free(k) == sockets[k] = NoSocket /\ client.socket # k

(* open, when the client is c and the sockets are ss. A client that was    *)
(* revoked has no retry and no other way here.                             *)
Dial(c, ss) ==
  \E k \in Slots, i \in Replicas :
    /\ Free(k) /\ \A l \in Slots : Free(l) => k <= l
    /\ client' = [c EXCEPT !.socket = k, !.status = "connecting", !.fenced = FALSE]
    /\ sockets' = [ss EXCEPT ![k] = [NoSocket EXCEPT !.stage = "asked", !.at = i]]

Open(c, ss) ==
  \/ c.socket # None /\ client' = c /\ sockets' = ss
  \/ c.socket = None /\ Dial(c, ss)

(* The socket is closed from this side; its own close event comes later.   *)
Hung(s) == [Sent(s, "closed") EXCEPT !.cut = s.stage # "left"]

HangUp == IF client.socket = None THEN sockets ELSE [sockets EXCEPT ![client.socket] = Hung(@)]

Called == calls < MaxCalls /\ calls' = calls + 1 /\ UNCHANGED <<transportVars, stale, lost, session>>

Connect ==
  /\ Called /\ ~client.latched
  /\ Open([client EXCEPT !.wanted = TRUE], sockets)

Reconnect ==
  /\ Called /\ ~client.latched
  /\ Dial([client EXCEPT !.wanted = TRUE, !.retry = FALSE, !.socket = None], HangUp)

Close ==
  /\ Called
  /\ client' = [client EXCEPT !.wanted = FALSE, !.retry = FALSE, !.socket = None,
                              !.status = "closed", !.fenced = FALSE]
  /\ sockets' = HangUp

RetryFires ==
  /\ client.retry
  /\ Open([client EXCEPT !.retry = FALSE], sockets)
  /\ UNCHANGED <<transportVars, stale, lost, session, calls>>

\* A mutant: the handlers of a socket act for whatever socket is there now.
IsCurrentAlways(k) == TRUE

IsCurrent(k) == client.socket = k

(* The client after frame m.                                               *)
Handled(m) ==
  CASE m = "open" -> [client EXCEPT !.status = "open"]
    [] m = "state" -> [client EXCEPT !.fenced = TRUE]
    [] m = "event" -> client
    [] m = "closed" -> [client EXCEPT !.socket = None, !.status = "closed", !.fenced = FALSE,
                                      !.retry = @ \/ (client.wanted /\ ~client.latched)]
    [] m = "revoked" -> [client EXCEPT !.socket = None, !.status = "closed", !.fenced = FALSE,
                                       !.retry = FALSE, !.latched = TRUE]

(* onSyncState's fence and onEvent read what is on screen again.           *)
Reads(m) == m = "event" \/ (m = "state" /\ ~client.fenced)

Receive(k) ==
  /\ sockets[k].inbox # <<>>
  /\ sockets' = [sockets EXCEPT ![k].inbox = Tail(@)]
  /\ LET m == Head(sockets[k].inbox) IN
       IF IsCurrent(k) THEN client' = Handled(m) /\ stale' = (stale /\ ~Reads(m)) /\ lost' = (lost /\ ~Reads(m))
       ELSE UNCHANGED <<client, stale, lost>>
  /\ UNCHANGED <<transportVars, session, calls>>

(* The network drops a connection.                                         *)
Drop(k) ==
  /\ sockets[k].stage # "left" /\ ~sockets[k].cut /\ Fault
  /\ sockets' = [sockets EXCEPT ![k] = [@ EXCEPT !.cut = TRUE, !.inbox = <<"closed">>]]
  /\ UNCHANGED <<replica, writes, client, stale, lost, session, calls>>

-----------------------------------------------------------------------------
(* What the transport's steps do to sockets.                               *)

Resyncs(i) == GapBegins(i) \/ GapEnds(i)

Resynced(ss, i) == IF Resyncs(i) THEN ReconnectAll(ss, i) ELSE ss

Transport(i, step) ==
  /\ step
  /\ sockets' = Resynced(sockets, i)
  /\ UNCHANGED <<client, stale, lost, session, calls>>

Commit(i) ==
  /\ Write(i)
  /\ stale' = TRUE
  /\ UNCHANGED <<sockets, client, lost, session, calls>>

(* It is announced to nobody.                                              *)
Drops(i) ==
  /\ Unannounced(i)
  /\ lost' = (lost \/ stale)
  /\ UNCHANGED <<sockets, client, stale, session, calls>>

(* A change is delivered here, and published.                              *)
PublishAll(i) ==
  /\ Publish(i)
  /\ sockets' = Resynced(Broadcast(i), i)
  /\ UNCHANGED <<client, stale, lost, session, calls>>

Deliver(i) ==
  /\ \/ Hear(i, "event") /\ sockets' = Broadcast(i)
     \/ Hear(i, "resync") /\ sockets' = ReconnectAll(sockets, i)
  /\ UNCHANGED <<client, stale, lost, session, calls>>

(* The replica's end closes every socket it has.                           *)
Restarts(i) ==
  /\ Restart(i)
  /\ sockets' = [k \in Slots |-> IF sockets[k].at = i /\ sockets[k].stage # "left"
                                 THEN Left(sockets[k], "closed") ELSE sockets[k]]
  /\ lost' = (lost \/ (stale /\ Owing(replica[i])))
  /\ UNCHANGED <<client, stale, session, calls>>

Subscribes(i) ==
  Transport(i, SubscriberReady(i) \/ Listens(i) \/ Ack(i) \/ SubscriberClosed(i))
Connects(i) == Transport(i, PublisherClosed(i) \/ PublisherReady(i))
Replies(i) == Transport(i, RecoveryReply(i) \/ Rejected(i))
Fails(i) == Transport(i, SubscriberLost(i) \/ SubscribeFails(i) \/ PublisherLost(i))

Next ==
  \/ \E i \in Replicas : \/ Subscribes(i) \/ Connects(i) \/ Replies(i) \/ Fails(i)
                         \/ Commit(i) \/ PublishAll(i) \/ Drops(i) \/ Deliver(i) \/ Restarts(i)
  \/ \E k \in Slots : Serve(k) \/ Sweep(k) \/ Receive(k) \/ Drop(k)
  \/ Revoke \/ Connect \/ Reconnect \/ Close \/ RetryFires

Spec == Init /\ [][Next]_vars

(* Redis answers or breaks the connection, ioredis reconnects, timers fire *)
(* and the network delivers; nothing makes the device call or fail. One    *)
(* replica's or socket's steps cannot hold up another's: they are finite,  *)
(* or lead to a step of the same kind of the other.                        *)
FairSpec ==
  /\ Spec
  /\ WF_vars(\E i \in Replicas : Subscribes(i))
  /\ WF_vars(\E i \in Replicas : Connects(i))
  /\ WF_vars(\E i \in Replicas : Replies(i))
  /\ WF_vars(\E i \in Replicas : PublishAll(i) \/ Deliver(i))
  /\ WF_vars(\E k \in Slots : Serve(k))
  /\ WF_vars(\E k \in Slots : Sweep(k))
  /\ WF_vars(\E k \in Slots : Receive(k))
  /\ WF_vars(RetryFires)

-----------------------------------------------------------------------------
(* The state is what the definitions above say it is.                      *)
TypeOK ==
  /\ replica \in [Replicas -> States]
  /\ writes \in 0..MaxWrites /\ faults \in 0..MaxFaults /\ calls \in 0..MaxCalls
  /\ sockets \in [Slots -> Sockets] /\ client \in Clients
  /\ lost \in BOOLEAN /\ stale \in BOOLEAN /\ session \in BOOLEAN

Connected == client.socket # None /\ client.status = "open" /\ client.fenced

(* Something that will make the device read again: its socket's pending    *)
(* frames or end, a message for its replica, or a replica that owes its    *)
(* peers an event or a resync.                                             *)
NewsUnderWay ==
  LET k == client.socket IN
  \/ sockets[k].inbox # <<>> \/ sockets[k].cut
  \/ sockets[k].stage # "room"
  \/ replica[sockets[k].at].news # {}
  \/ replica[sockets[k].at].sub # "ready"
  \/ \E i \in Replicas :
       \/ replica[i].owed > 0 \/ replica[i].failing
       \/ replica[i].gap /\ ~(replica[i].recovery # None /\ RecoveryEnds(replica[i]))

(* A connected device is never behind for good: whatever connection or     *)
(* replica failed, either it shows what is committed or something that     *)
(* will refresh it is under way (sync-transport.ts, rooms.ts, use-sync's   *)
(* fence). The exception is a change whose replica died, or failed to look *)
(* up who is to be told, before it was announced, until the device reads   *)
(* again for another reason.                                               *)
NothingMissed == stale /\ Connected /\ ~lost => NewsUnderWay

Live(s) == s.stage \in {"asked", "checked", "known", "room"} /\ ~s.cut

(* However closes, reconnects and late close events interleave, the device *)
(* never holds two live connections, and a client that says it is open or  *)
(* connecting has one (isCurrent in sync-client.ts).                       *)
OneSocket ==
  /\ \A k \in Slots : Live(sockets[k]) => client.socket = k
  /\ client.status # "closed" <=> client.socket # None

(* A device that was signed out is in no room for ever                     *)
(* (session-watch.ts, handler.ts).                                         *)
RevokedLeaves == []<>(session \/ \A k \in Slots : sockets[k].stage # "room")

(* A device that wants its socket and has a session is connected and shows *)
(* what is committed, in the end.                                          *)
EventuallyFresh ==
  []<>(lost \/ ~session \/ ~client.wanted \/ (client.status = "open" /\ ~stale))
=============================================================================
