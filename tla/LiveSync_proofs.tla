--------------------------- MODULE LiveSync_proofs ---------------------------
(***************************************************************************)
(* Proofs about LiveSync and the transport under it. NothingMissed is not  *)
(* inductive: a gap is news only while a resync for it is still to be      *)
(* sent, a replica hears its peers only while it is subscribed, and what   *)
(* the fence is closed for depends on the order of a socket's frames.      *)
(* SyncInv says these, and that a replica with a gap has no clients.       *)
(***************************************************************************)
EXTENDS LiveSync, TLAPS

(* Redis has the subscription of a connection that stands and is           *)
(* subscribed, and of no other.                                            *)
ReplicaOK(s) ==
  /\ s.listening => s.sub = "ready"
  /\ s.sub = "closed" => ~s.subscribed
  /\ s.subscribed /\ s.sub = "ready" => s.listening

\* Frame m is on its way over socket s.
Has(s, m) == \E n \in 1..Len(s.inbox) : s.inbox[n] = m

(* A socket's end comes last. The server says "open", then "state", before *)
(* any event, and nothing before the socket is in a room.                  *)
SocketOK(s) ==
  /\ Has(s, "closed") \/ Has(s, "revoked") => ~Live(s)
  /\ \A n \in 1..Len(s.inbox) :
       /\ s.inbox[n] = "open" => n = 1
       /\ s.inbox[n] = "state" => n = 1 \/ (n = 2 /\ s.inbox[1] = "open")
  /\ s.stage \in {"asked", "checked", "known"} => ~Has(s, "state") /\ (~s.cut => s.inbox = <<>>)
  /\ s.stage # "left" => s.at \in Replicas

\* markGap closed the sockets; none joins before the gap is over.
RoomOK(s) == s.stage = "room" => ~replica[s.at].gap /\ replica[s.at].subscribed

\* Nothing that opens the fence or closes it is still to come.
Fresh(s) == s.stage \notin {"asked", "checked", "known"} /\ ~Has(s, "open") /\ ~Has(s, "state")

\* The reply under way will end the gap: its resync went out.
Covered(s) == s.recovery # None /\ s.recovery.sent /\ s.recovery.current
Owes(s) == s.owed > 0 \/ s.failing \/ (s.gap /\ ~Covered(s))

\* The device reads again, or its socket ends, without any other replica.
Told(s) ==
  \/ s.inbox # <<>> \/ s.cut \/ s.stage # "room"
  \/ replica[s.at].news # {}
  \/ replica[s.at].sub # "ready"

ReplicaInv == \A i \in Replicas : ReplicaOK(replica[i]) /\ replica[i].owed <= writes
SocketInv == \A k \in Slots : SocketOK(sockets[k]) /\ RoomOK(sockets[k])
FenceInv == client.socket # None /\ client.fenced => Fresh(sockets[client.socket])
NewsInv == stale /\ Connected /\ ~lost => Told(sockets[client.socket]) \/ \E i \in Replicas : Owes(replica[i])

-----------------------------------------------------------------------------
\* What the server and the network may do to a socket.
Later(s, t) ==
  /\ t \in Sockets /\ SocketOK(t)
  /\ Live(t) => Live(s)
  /\ Fresh(s) => Fresh(t)
  /\ t.stage = "room" => s.stage = "room" /\ t.at = s.at
  /\ t.stage = "room" /\ (s.inbox # <<>> \/ s.cut) => t.inbox # <<>> \/ t.cut

(* Later is a preorder on the sockets that can be.                         *)
LEMMA LaterSame ==
  ASSUME NEW s \in Sockets, SocketOK(s)
  PROVE  Later(s, s)
BY DEF Later

LEMMA LaterTwice ==
  ASSUME NEW s, NEW t, NEW u, Later(s, t), Later(t, u)
  PROVE  Later(s, u)
BY DEF Later

(* The types of a socket, and of what is on its way.                       *)
LEMMA SocketFields ==
  ASSUME NEW s \in Sockets
  PROVE  /\ s.inbox \in Seq(Frames) /\ Len(s.inbox) \in Nat /\ s.cut \in BOOLEAN
         /\ s.stage \in {"asked", "checked", "known", "room", "left"} /\ s.at \in Replicas \cup {None}
         /\ s = [stage |-> s.stage, at |-> s.at, cut |-> s.cut, inbox |-> s.inbox]
BY DEF Sockets

LEMMA AppendFacts ==
  ASSUME NEW b \in Seq(Frames), NEW m \in Frames
  PROVE  /\ Append(b, m) \in Seq(Frames) /\ Append(b, m) # <<>>
         /\ Len(b) \in Nat /\ Len(Append(b, m)) = Len(b) + 1
         /\ \A n \in 1..Len(Append(b, m)) :
              \/ n \in 1..Len(b) /\ Append(b, m)[n] = b[n]
              \/ n = Len(b) + 1 /\ Append(b, m)[n] = m
         /\ 1 \in 1..Len(b) => Append(b, m)[1] = b[1]
<1>1. Append(b, m) \in Seq(Frames) /\ Len(b) \in Nat /\ Len(Append(b, m)) = Len(b) + 1
  OBVIOUS
<1>2. Append(b, m) # <<>>
  <2>1. Len(Append(b, m)) # 0 /\ Len(<<>>) = 0
    BY <1>1
  <2> QED BY <2>1
<1>3. ASSUME NEW n \in 1..Len(Append(b, m))
      PROVE  \/ n \in 1..Len(b) /\ Append(b, m)[n] = b[n]
             \/ n = Len(b) + 1 /\ Append(b, m)[n] = m
  <2>1. n \in 1..(Len(b) + 1)
    BY <1>1
  <2>2. CASE n = Len(b) + 1
    BY <1>1, <2>2
  <2>3. CASE n # Len(b) + 1
    BY <1>1, <2>1, <2>3
  <2> QED BY <2>2, <2>3
<1>4. 1 \in 1..Len(b) => Append(b, m)[1] = b[1]
  BY <1>1
<1> QED BY <1>1, <1>2, <1>3, <1>4

(* A frame sent to a socket.                                               *)
LEMMA SentFacts ==
  ASSUME NEW s \in Sockets, NEW m \in Frames
  PROVE  LET t == Sent(s, m) IN
         /\ t \in Sockets /\ t.stage = s.stage /\ t.at = s.at /\ t.cut = s.cut
         /\ t.inbox = s.inbox \/ (~s.cut /\ t.inbox = Append(s.inbox, m))
         /\ ~s.cut => t.inbox # <<>>
<1> DEFINE a == [s EXCEPT !.inbox = Append(@, m)]
           b == Append(s.inbox, m)
<1>0. s.inbox \in Seq(Frames) /\ b \in Seq(Frames) /\ b # <<>>
  BY SocketFields, AppendFacts
<1>1. a = [s EXCEPT !.inbox = b]
  BY DEF Sockets
<1> HIDE DEF b
<1>2. a \in Sockets /\ a.stage = s.stage /\ a.at = s.at /\ a.cut = s.cut /\ a.inbox = b
  BY <1>0, <1>1 DEF Sockets
<1> HIDE DEF a
<1>3. Sent(s, m) = IF s.cut \/ Last1(s.inbox) = m THEN s ELSE a
  BY DEF Sent, a
<1>4. s.inbox = <<>> => Last1(s.inbox) # m
  BY DEF Last1, Frames
<1> QED BY <1>0, <1>2, <1>3, <1>4 DEF b

(* One frame after another, once or when the socket is over.              *)
LEMMA HasAppended ==
  ASSUME NEW s \in Sockets, NEW t \in Sockets, NEW m \in Frames, t.inbox = Append(s.inbox, m), NEW f, Has(t, f)
  PROVE  Has(s, f) \/ f = m
BY SocketFields, AppendFacts DEF Has

LEMMA LaterEvent ==
  ASSUME NEW s \in Sockets, SocketOK(s), s.stage = "room"
  PROVE  Later(s, Sent(s, "event"))
<1> DEFINE t == Sent(s, "event")
<1>1. /\ t \in Sockets /\ t.stage = s.stage /\ t.at = s.at /\ t.cut = s.cut
      /\ t.inbox = s.inbox \/ (~s.cut /\ t.inbox = Append(s.inbox, "event"))
      /\ ~s.cut => t.inbox # <<>>
  BY SentFacts DEF Frames
<1> SUFFICES Later(s, t)
  OBVIOUS
<1> HIDE DEF t
<1>2. CASE t.inbox = s.inbox
  <2>1. SocketOK(t) /\ (Live(t) => Live(s)) /\ (Fresh(s) => Fresh(t))
    BY <1>1, <1>2 DEF SocketOK, Live, Fresh, Has
  <2>2. t.inbox # <<>> \/ t.cut
    BY <1>1
  <2> QED BY <1>1, <2>1, <2>2 DEF Later
<1>3. CASE t.inbox = Append(s.inbox, "event")
  <2>1. "event" \in Frames
    BY DEF Frames
  <2>2. \A f : Has(t, f) => Has(s, f) \/ f = "event"
    BY <1>1, <1>3, <2>1, HasAppended
  <2>3. ASSUME NEW n \in 1..Len(t.inbox)
        PROVE  /\ t.inbox[n] = "open" => n = 1
               /\ t.inbox[n] = "state" => n = 1 \/ (n = 2 /\ t.inbox[1] = "open")
    <3>1. /\ Len(s.inbox) \in Nat
          /\ \/ n \in 1..Len(s.inbox) /\ t.inbox[n] = s.inbox[n]
             \/ n = Len(s.inbox) + 1 /\ t.inbox[n] = "event"
          /\ 1 \in 1..Len(s.inbox) => t.inbox[1] = s.inbox[1]
      BY <1>3, <2>1, SocketFields, AppendFacts
    <3>2. CASE n \in 1..Len(s.inbox) /\ t.inbox[n] = s.inbox[n]
      <4>1. 1 \in 1..Len(s.inbox)
        BY <3>1, <3>2
      <4> QED BY <3>1, <3>2, <4>1 DEF SocketOK
    <3> QED BY <3>1, <3>2
  <2>4. SocketOK(t)
    BY <1>1, <2>2, <2>3 DEF SocketOK, Live
  <2>5. Fresh(s) => Fresh(t)
    BY <1>1, <2>2 DEF Fresh
  <2>6. t.inbox # <<>> \/ t.cut
    BY <1>1
  <2>7. Live(t) => Live(s)
    BY <1>1 DEF Live
  <2> QED BY <1>1, <2>4, <2>5, <2>6, <2>7 DEF Later
<1> QED BY <1>1, <1>2, <1>3

(* A socket the server closes.                                             *)
LEMMA LeftFacts ==
  ASSUME NEW s \in Sockets, NEW m \in Frames
  PROVE  /\ Left(s, m) \in Sockets
         /\ Left(s, m).stage = "left" /\ Left(s, m).inbox = Sent(s, m).inbox
<1>1. Sent(s, m).inbox \in Seq(Frames)
  BY SentFacts, SocketFields
<1> QED BY <1>1 DEF Left, NoSocket, Sockets

LEMMA LaterLeft ==
  ASSUME NEW s \in Sockets, SocketOK(s), NEW m \in {"closed", "revoked"}
  PROVE  Later(s, Left(s, m))
<1> DEFINE t == Left(s, m)
           u == Sent(s, m)
<1>0. m \in Frames
  BY DEF Frames
<1>1. t \in Sockets /\ t.stage = "left" /\ t.inbox = u.inbox
  BY <1>0, LeftFacts
<1>2. u \in Sockets /\ (u.inbox = s.inbox \/ u.inbox = Append(s.inbox, m))
  BY <1>0, SentFacts
<1> HIDE DEF t, u
<1>3. ASSUME NEW n \in 1..Len(t.inbox)
      PROVE  /\ t.inbox[n] = "open" => n = 1
             /\ t.inbox[n] = "state" => n = 1 \/ (n = 2 /\ t.inbox[1] = "open")
  <2>1. CASE t.inbox = s.inbox
    BY <2>1 DEF SocketOK
  <2>2. CASE t.inbox = Append(s.inbox, m)
    <3>1. /\ Len(s.inbox) \in Nat
          /\ \/ n \in 1..Len(s.inbox) /\ t.inbox[n] = s.inbox[n]
             \/ n = Len(s.inbox) + 1 /\ t.inbox[n] = m
          /\ 1 \in 1..Len(s.inbox) => t.inbox[1] = s.inbox[1]
      BY <1>0, <2>2, SocketFields, AppendFacts
    <3>2. CASE n \in 1..Len(s.inbox) /\ t.inbox[n] = s.inbox[n]
      <4>1. 1 \in 1..Len(s.inbox)
        BY <3>1, <3>2
      <4> QED BY <3>1, <3>2, <4>1 DEF SocketOK
    <3> QED BY <3>1, <3>2
  <2> QED BY <1>1, <1>2, <2>1, <2>2
<1>4. \A f : Has(t, f) => Has(s, f) \/ f = m
  <2>1. CASE t.inbox = s.inbox
    BY <2>1 DEF Has
  <2>2. CASE t.inbox = Append(s.inbox, m)
    BY <1>0, <1>1, <2>2, HasAppended
  <2> QED BY <1>1, <1>2, <2>1, <2>2
<1>5. SocketOK(t)
  BY <1>1, <1>3 DEF SocketOK, Live
<1>6. Fresh(s) => Fresh(t)
  BY <1>1, <1>4 DEF Fresh
<1> QED BY <1>1, <1>5, <1>6 DEF Later, Live, t

-----------------------------------------------------------------------------
\* What a replica may become without a message of a peer, or its end.
Moves(r, s, what) ==
  /\ s \in States /\ ReplicaOK(s) /\ s.owed <= r.owed
  /\ Owes(r) => Owes(s) \/ what # {}
  /\ ~r.gap /\ r.subscribed /\ ~s.gap =>
       s.subscribed /\ r.news \subseteq s.news /\ (r.sub # "ready" => s.sub # "ready")

Resync(s) == IF MayRecover(s) /\ s.pub = "ready" THEN {"resync"} ELSE {}

(* What a replica turns into when a gap is marked, or recovered from.     *)
LEMMA StateFields ==
  ASSUME NEW s \in States
  PROVE  /\ s.pub \in Links /\ s.sub \in Links /\ s.listening \in BOOLEAN /\ s.acks \in SUBSET {"current", "stale"}
         /\ s.subscribed \in BOOLEAN /\ s.gap \in BOOLEAN
         /\ s.recovery \in [sent : BOOLEAN, current : BOOLEAN] \cup {None}
         /\ s.news \in SUBSET {"event", "resync"} /\ s.owed \in 0..MaxWrites /\ s.owed \in Nat /\ s.failing \in BOOLEAN
BY TransportAssumption DEF States

LEMMA RecoverMoves ==
  ASSUME NEW r \in States, NEW s \in States, Moves(r, s, {})
  PROVE  Moves(r, Recovered(s), Resync(s)) /\ (Resync(s) # {} => Recovered(s).gap)
<1>1. CASE MayRecover(s)
  <2> DEFINE c == [sent |-> s.pub = "ready", current |-> TRUE]
             t == [s EXCEPT !.recovery = c]
  <2>1. c \in [sent : BOOLEAN, current : BOOLEAN] /\ c.sent = (s.pub = "ready") /\ c.current
    OBVIOUS
  <2>2. c # None
    BY <2>1, TransportAssumption
  <2> HIDE DEF c
  <2>3. /\ t \in States /\ t.recovery = c /\ t.pub = s.pub /\ t.sub = s.sub /\ t.listening = s.listening
        /\ t.subscribed = s.subscribed /\ t.gap = s.gap /\ t.news = s.news /\ t.owed = s.owed /\ t.failing = s.failing
    BY <2>1 DEF States
  <2>4. Recovered(s) = t
    BY <1>1 DEF Recovered, c
  <2> HIDE DEF t
  <2>5. s.gap
    BY <1>1 DEF MayRecover
  <2>6. Owes(r) => Owes(t) \/ Resync(s) # {}
    BY <1>1, <2>1, <2>3, <2>5 DEF Moves, Owes, Covered, Resync
  <2>7. ReplicaOK(t)
    BY <2>3 DEF ReplicaOK, Moves
  <2> QED BY <2>3, <2>4, <2>5, <2>6, <2>7 DEF Moves
<1>2. CASE ~MayRecover(s)
  BY <1>2 DEF Recovered, Resync
<1> QED BY <1>1, <1>2

LEMMA GappedFacts ==
  ASSUME NEW s \in States
  PROVE  LET t == Gapped(s) IN
         /\ t \in States /\ t.gap = TRUE /\ ~Covered(t)
         /\ t.pub = s.pub /\ t.sub = s.sub /\ t.listening = s.listening /\ t.acks = s.acks
         /\ t.subscribed = s.subscribed /\ t.news = s.news /\ t.owed = s.owed /\ t.failing = s.failing
<1> DEFINE c == IF s.recovery = None THEN None ELSE [s.recovery EXCEPT !.current = FALSE]
           t == [s EXCEPT !.gap = TRUE, !.recovery = c]
<1>1. c \in [sent : BOOLEAN, current : BOOLEAN] \cup {None} /\ (c # None => c.current = FALSE)
  BY StateFields
<1>2. Gapped(s) = t
  BY DEF Gapped, States
<1> HIDE DEF c
<1>3. /\ t \in States /\ t.gap = TRUE /\ t.recovery = c
      /\ t.pub = s.pub /\ t.sub = s.sub /\ t.listening = s.listening /\ t.acks = s.acks
      /\ t.subscribed = s.subscribed /\ t.news = s.news /\ t.owed = s.owed /\ t.failing = s.failing
  BY <1>1 DEF States
<1> HIDE DEF t
<1>4. ~Covered(t)
  BY <1>1, <1>3 DEF Covered
<1> QED BY <1>2, <1>3, <1>4

LEMMA DisconnectedFacts ==
  ASSUME NEW s \in States
  PROVE  LET t == Disconnected(s) IN
         /\ t \in States /\ t.gap = s.gap /\ t.recovery = s.recovery
         /\ t.sub = s.sub /\ t.listening = s.listening /\ t.acks = s.acks
         /\ t.subscribed = s.subscribed /\ t.news = s.news /\ t.owed = s.owed /\ t.failing = s.failing
<1> DEFINE c == IF Ready(s.pub) THEN "ending" ELSE s.pub
           t == [s EXCEPT !.pub = c]
<1>1. c \in Links
  BY StateFields DEF Links
<1>2. Disconnected(s) = t
  BY DEF Disconnected, States
<1> HIDE DEF c
<1>3. /\ t \in States /\ t.gap = s.gap /\ t.recovery = s.recovery
      /\ t.sub = s.sub /\ t.listening = s.listening /\ t.acks = s.acks
      /\ t.subscribed = s.subscribed /\ t.news = s.news /\ t.owed = s.owed /\ t.failing = s.failing
  BY <1>1 DEF States
<1> QED BY <1>2, <1>3

\* A replica that has a gap to recover from owes a resync.
LEMMA GapMoves ==
  ASSUME NEW r \in States, NEW s \in States, s.gap, ~Covered(s), ReplicaOK(s), s.owed <= r.owed
  PROVE  Moves(r, s, {})
BY DEF Moves, Owes

-----------------------------------------------------------------------------
(* The steps of the transport.                                             *)
Turns(i) ==
  \E s, what : /\ Becomes(i, s, what) /\ Moves(replica[i], s, what)
               /\ what \in SUBSET {"event", "resync"} /\ (what # {} => s.gap)

LEMMA TurnsBy ==
  ASSUME NEW i, NEW s, Becomes(i, s, {}), Moves(replica[i], s, {})
  PROVE  Turns(i)
BY DEF Turns

LEMMA TurnsRecovering ==
  ASSUME NEW i, NEW s \in States, replica[i] \in States, ThenRecovers(i, s), Moves(replica[i], s, {})
  PROVE  Turns(i)
<1>1. Becomes(i, Recovered(s), Resync(s))
  BY DEF ThenRecovers, Resync
<1>2. /\ Moves(replica[i], Recovered(s), Resync(s)) /\ Resync(s) \in SUBSET {"event", "resync"}
      /\ Resync(s) # {} => Recovered(s).gap
  BY RecoverMoves DEF Resync
<1> QED BY <1>1, <1>2 DEF Turns

LEMMA SubscriberTurns ==
  ASSUME NEW i \in Replicas, replica[i] \in States, ReplicaOK(replica[i]),
         SubscriberReady(i) \/ Listens(i) \/ Ack(i) \/ SubscriberLost(i) \/ SubscriberClosed(i) \/ SubscribeFails(i)
  PROVE  Turns(i)
<1> DEFINE r == replica[i]
<1>0. /\ r \in States /\ ReplicaOK(r) /\ r.owed \in Nat
      /\ r.acks \in SUBSET {"current", "stale"}
  BY StateFields
<1>1. CASE SubscriberReady(i)
  <2> DEFINE s == [r EXCEPT !.sub = "ready", !.acks = r.acks \cup {"current"}]
  <2>1. Becomes(i, s, {}) /\ r.sub = "closed"
    BY <1>0, <1>1 DEF SubscriberReady, States
  <2> HIDE DEF r
  <2>2. s \in States /\ s.sub = "ready" /\ s.listening = r.listening /\ s.subscribed = r.subscribed /\ s.gap = r.gap
        /\ s.owed = r.owed /\ s.failing = r.failing /\ s.recovery = r.recovery
    BY <1>0 DEF States, Links
  <2> HIDE DEF s
  <2>3. Moves(r, s, {})
    BY <1>0, <2>1, <2>2 DEF Moves, ReplicaOK, Owes, Covered
  <2> QED BY <2>1, <2>3, TurnsBy DEF r
<1>2. CASE Listens(i)
  <2> DEFINE s == [r EXCEPT !.listening = TRUE]
  <2>1. Becomes(i, s, {}) /\ r.sub = "ready"
    BY <1>2 DEF Listens
  <2> HIDE DEF r
  <2>2. s \in States /\ s.sub = r.sub /\ s.listening /\ s.subscribed = r.subscribed /\ s.gap = r.gap
        /\ s.owed = r.owed /\ s.failing = r.failing /\ s.recovery = r.recovery /\ s.news = r.news
    BY <1>0 DEF States
  <2> HIDE DEF s
  <2>3. Moves(r, s, {})
    BY <1>0, <2>1, <2>2 DEF Moves, ReplicaOK, Owes, Covered
  <2> QED BY <2>1, <2>3, TurnsBy DEF r
<1>3. CASE Ack(i)
  <2>1. CASE Becomes(i, [r EXCEPT !.acks = @ \ {"stale"}], {})
    <3> DEFINE s == [r EXCEPT !.acks = r.acks \ {"stale"}]
    <3>1. Becomes(i, s, {})
      BY <1>0, <2>1 DEF States
    <3> HIDE DEF r
    <3>2. s \in States /\ s.sub = r.sub /\ s.listening = r.listening /\ s.subscribed = r.subscribed /\ s.gap = r.gap
          /\ s.owed = r.owed /\ s.failing = r.failing /\ s.recovery = r.recovery /\ s.news = r.news
      BY <1>0 DEF States
    <3> HIDE DEF s
    <3>3. Moves(r, s, {})
      BY <1>0, <3>2 DEF Moves, ReplicaOK, Owes, Covered
    <3> QED BY <3>1, <3>3, TurnsBy DEF r
  <2>2. CASE r.listening /\ ThenRecovers(i, [r EXCEPT !.acks = @ \ {"current"}, !.subscribed = TRUE])
    <3> DEFINE s == [r EXCEPT !.acks = r.acks \ {"current"}, !.subscribed = TRUE]
    <3>1. ThenRecovers(i, s) /\ r.listening
      BY <1>0, <2>2 DEF States
    <3> HIDE DEF r
    <3>2. s \in States /\ s.sub = r.sub /\ s.listening = r.listening /\ s.subscribed /\ s.gap = r.gap
          /\ s.owed = r.owed /\ s.failing = r.failing /\ s.recovery = r.recovery /\ s.news = r.news
      BY <1>0 DEF States
    <3> HIDE DEF s
    <3>3. Moves(r, s, {})
      BY <1>0, <3>1, <3>2 DEF Moves, ReplicaOK, Owes, Covered
    <3> QED BY <1>0, <3>1, <3>2, <3>3, TurnsRecovering DEF r
  <2> QED BY <1>3, <2>1, <2>2 DEF Ack
<1>4. CASE SubscriberLost(i)
  <2> DEFINE s == [r EXCEPT !.sub = "lost", !.listening = FALSE]
  <2>1. Becomes(i, s, {}) /\ r.sub = "ready"
    BY <1>4 DEF SubscriberLost
  <2> HIDE DEF r
  <2>2. s \in States /\ s.sub = "lost" /\ ~s.listening /\ s.subscribed = r.subscribed /\ s.gap = r.gap
        /\ s.owed = r.owed /\ s.failing = r.failing /\ s.recovery = r.recovery /\ s.news = r.news
    BY <1>0 DEF States, Links
  <2> HIDE DEF s
  <2>3. Moves(r, s, {})
    BY <1>0, <2>1, <2>2 DEF Moves, ReplicaOK, Owes, Covered
  <2> QED BY <2>1, <2>3, TurnsBy DEF r
<1>5. CASE SubscriberClosed(i)
  <2> DEFINE a == IF r.acks = {} THEN {} ELSE {"stale"}
             s == [r EXCEPT !.sub = "closed", !.subscribed = FALSE, !.news = {}, !.acks = a]
  <2>1. Becomes(i, Gapped(s), {}) /\ r.sub = "lost"
    BY <1>0, <1>5 DEF SubscriberClosed, Unsubscribed, States
  <2>a. a \in SUBSET {"current", "stale"}
    OBVIOUS
  <2> HIDE DEF r, a
  <2>2. s \in States /\ s.sub = "closed" /\ s.listening = r.listening /\ ~s.subscribed /\ s.owed = r.owed
    BY <1>0, <2>a DEF States, Links
  <2> HIDE DEF s
  <2>3. ReplicaOK(Gapped(s))
    BY <1>0, <2>1, <2>2, GappedFacts DEF ReplicaOK
  <2>4. Moves(r, Gapped(s), {})
    <3>1. Gapped(s) \in States /\ Gapped(s).gap /\ ~Covered(Gapped(s)) /\ Gapped(s).owed = r.owed
      BY <2>2, GappedFacts
    <3>2. Gapped(s).owed <= r.owed
      BY <1>0, <3>1
    <3> QED BY <1>0, <2>3, <3>1, <3>2, GapMoves
  <2> QED BY <2>1, <2>4, TurnsBy DEF r
<1>6. CASE SubscribeFails(i)
  <2> DEFINE s == [r EXCEPT !.acks = r.acks \ {"current"}, !.subscribed = FALSE, !.sub = "lost", !.listening = FALSE]
  <2>1. Becomes(i, Gapped(s), {})
    BY <1>0, <1>6 DEF SubscribeFails, States
  <2> HIDE DEF r
  <2>2. s \in States /\ s.sub = "lost" /\ ~s.listening /\ ~s.subscribed /\ s.owed = r.owed
    BY <1>0 DEF States, Links
  <2> HIDE DEF s
  <2>3. ReplicaOK(Gapped(s))
    BY <1>0, <2>1, <2>2, GappedFacts DEF ReplicaOK
  <2>4. Moves(r, Gapped(s), {})
    <3>1. Gapped(s) \in States /\ Gapped(s).gap /\ ~Covered(Gapped(s)) /\ Gapped(s).owed = r.owed
      BY <2>2, GappedFacts
    <3>2. Gapped(s).owed <= r.owed
      BY <1>0, <3>1
    <3> QED BY <1>0, <2>3, <3>1, <3>2, GapMoves
  <2> QED BY <2>1, <2>4, TurnsBy DEF r
<1> QED BY <1>1, <1>2, <1>3, <1>4, <1>5, <1>6

(* A publish that was rejected: a gap, over a connection given up.         *)
LEMMA Loosened ==
  ASSUME NEW r \in States, NEW s \in States, ReplicaOK(r),
         s.sub = r.sub, s.listening = r.listening, s.subscribed = r.subscribed, s.owed = r.owed
  PROVE  Moves(r, Disconnected(Gapped(s)), {})
<1> DEFINE g == Gapped(s)
           t == Disconnected(g)
<1>1. g \in States /\ g.gap /\ ~Covered(g) /\ g.sub = r.sub /\ g.listening = r.listening /\ g.subscribed = r.subscribed
      /\ g.owed = r.owed
  BY GappedFacts
<1> HIDE DEF g
<1>2. t \in States /\ t.gap = g.gap /\ t.recovery = g.recovery /\ t.sub = g.sub /\ t.listening = g.listening
      /\ t.subscribed = g.subscribed /\ t.owed = g.owed
  BY <1>1, DisconnectedFacts
<1> HIDE DEF t
<1>3. ReplicaOK(t) /\ t.gap /\ ~Covered(t)
  BY <1>1, <1>2 DEF ReplicaOK, Covered
<1>4. r.owed \in Nat /\ t.owed <= r.owed
  BY <1>1, <1>2, StateFields
<1>5. Moves(r, t, {})
  BY <1>2, <1>3, <1>4, GapMoves
<1> QED BY <1>5 DEF t, g

LEMMA PublisherTurns ==
  ASSUME NEW i \in Replicas, replica[i] \in States, ReplicaOK(replica[i]),
         PublisherLost(i) \/ PublisherClosed(i) \/ PublisherReady(i) \/ RecoveryReply(i) \/ Rejected(i)
  PROVE  Turns(i)
<1> DEFINE r == replica[i]
<1>0. r \in States /\ ReplicaOK(r) /\ r.owed \in Nat
  BY StateFields
<1>1. CASE PublisherLost(i) \/ PublisherReady(i)
  <2>0. PICK l \in Links :
          LET s == [r EXCEPT !.pub = l] IN Becomes(i, s, {}) \/ ThenRecovers(i, s)
    <3>1. "lost" \in Links /\ "ready" \in Links
      BY DEF Links
    <3> QED BY <1>1, <3>1 DEF PublisherLost, PublisherReady
  <2> DEFINE s == [r EXCEPT !.pub = l]
  <2>1. Becomes(i, s, {}) \/ ThenRecovers(i, s)
    BY <2>0
  <2> HIDE DEF r
  <2>2. s \in States /\ s.sub = r.sub /\ s.listening = r.listening /\ s.subscribed = r.subscribed /\ s.gap = r.gap
        /\ s.owed = r.owed /\ s.failing = r.failing /\ s.recovery = r.recovery /\ s.news = r.news
    BY <1>0 DEF States
  <2> HIDE DEF s
  <2>3. Moves(r, s, {})
    BY <1>0, <2>2 DEF Moves, ReplicaOK, Owes, Covered
  <2> QED BY <1>0, <2>1, <2>2, <2>3, TurnsBy, TurnsRecovering DEF r
<1>2. CASE PublisherClosed(i)
  <2> DEFINE c == IF r.recovery = None THEN None ELSE [r.recovery EXCEPT !.sent = FALSE]
             s == [r EXCEPT !.pub = "closed", !.recovery = c]
  <2>1. Becomes(i, Gapped(s), {})
    BY <1>0, <1>2 DEF PublisherClosed, Unanswered, States
  <2>a. c \in [sent : BOOLEAN, current : BOOLEAN] \cup {None}
    <3>1. r.recovery \in [sent : BOOLEAN, current : BOOLEAN] \cup {None}
      BY <1>0, StateFields
    <3> DEFINE q == r.recovery
    <3> HIDE DEF r, q
    <3>2. q \in [sent : BOOLEAN, current : BOOLEAN] \cup {None}
      BY <3>1 DEF q
    <3>3. CASE q = None
      BY <3>3 DEF q
    <3>4. CASE q # None
      <4>1. q \in [sent : BOOLEAN, current : BOOLEAN]
        BY <3>2, <3>4
      <4>2. [q EXCEPT !.sent = FALSE] \in [sent : BOOLEAN, current : BOOLEAN]
        BY <4>1
      <4> QED BY <3>4, <4>2 DEF q
    <3> QED BY <3>3, <3>4
  <2> HIDE DEF r, c
  <2>2. s \in States /\ s.sub = r.sub /\ s.listening = r.listening /\ s.subscribed = r.subscribed /\ s.owed = r.owed
    BY <1>0, <2>a DEF States, Links
  <2> HIDE DEF s
  <2>3. ReplicaOK(Gapped(s))
    BY <1>0, <2>2, GappedFacts DEF ReplicaOK
  <2>4. Moves(r, Gapped(s), {})
    <3>1. Gapped(s) \in States /\ Gapped(s).gap /\ ~Covered(Gapped(s)) /\ Gapped(s).owed = r.owed
      BY <2>2, GappedFacts
    <3>2. Gapped(s).owed <= r.owed
      BY <1>0, <3>1
    <3> QED BY <1>0, <2>3, <3>1, <3>2, GapMoves
  <2> QED BY <2>1, <2>4, TurnsBy DEF r
<1>3. CASE Rejected(i)
  <2> DEFINE s == [r EXCEPT !.failing = FALSE]
             t == Disconnected(Gapped(s))
  <2>1. Becomes(i, t, {})
    BY <1>3 DEF Rejected
  <2> HIDE DEF r
  <2>2. s \in States /\ s.sub = r.sub /\ s.listening = r.listening /\ s.subscribed = r.subscribed /\ s.owed = r.owed
    BY <1>0 DEF States
  <2> HIDE DEF s
  <2>3. Moves(r, t, {})
    BY <1>0, <2>2, Loosened
  <2> QED BY <2>1, <2>3, TurnsBy DEF r
<1>4. CASE RecoveryReply(i)
  <2>0. r.recovery # None
    BY <1>4 DEF RecoveryReply
  <2>1. CASE RecoveryEnds(r) /\ Becomes(i, [r EXCEPT !.recovery = None, !.gap = FALSE], {})
    <3> DEFINE s == [r EXCEPT !.recovery = None, !.gap = FALSE]
    <3>1. Becomes(i, s, {})
      BY <2>1
    <3>2. Covered(r)
      BY <2>0, <2>1 DEF RecoveryEnds, Covered
    <3> HIDE DEF r
    <3>3. s \in States /\ s.sub = r.sub /\ s.listening = r.listening /\ s.subscribed = r.subscribed /\ ~s.gap
          /\ s.owed = r.owed /\ s.failing = r.failing /\ s.news = r.news
      BY <1>0 DEF States
    <3> HIDE DEF s
    <3>4. Moves(r, s, {})
      BY <1>0, <3>2, <3>3 DEF Moves, ReplicaOK, Owes
    <3> QED BY <3>1, <3>4, TurnsBy DEF r
  <2>2. CASE ~r.recovery.current /\ ThenRecovers(i, [r EXCEPT !.recovery = None])
    <3> DEFINE s == [r EXCEPT !.recovery = None]
    <3>1. ThenRecovers(i, s)
      BY <2>2
    <3>2. ~Covered(r)
      BY <2>2 DEF Covered
    <3> HIDE DEF r
    <3>3. s \in States /\ s.sub = r.sub /\ s.listening = r.listening /\ s.subscribed = r.subscribed /\ s.gap = r.gap
          /\ s.owed = r.owed /\ s.failing = r.failing /\ s.news = r.news /\ s.recovery = None
      BY <1>0 DEF States
    <3> HIDE DEF s
    <3>4. Moves(r, s, {})
      BY <1>0, <3>2, <3>3 DEF Moves, ReplicaOK, Owes, Covered
    <3> QED BY <1>0, <3>1, <3>3, <3>4, TurnsRecovering DEF r
  <2>3. CASE ThenRecovers(i, Disconnected(Gapped([r EXCEPT !.recovery = None])))
    <3> DEFINE s == [r EXCEPT !.recovery = None]
               t == Disconnected(Gapped(s))
    <3>1. ThenRecovers(i, t)
      BY <2>3
    <3> HIDE DEF r
    <3>2. s \in States /\ s.sub = r.sub /\ s.listening = r.listening /\ s.subscribed = r.subscribed /\ s.owed = r.owed
      BY <1>0 DEF States
    <3> HIDE DEF s
    <3>3. Moves(r, t, {})
      BY <1>0, <3>2, Loosened
    <3>4. t \in States
      BY <3>3 DEF Moves
    <3> QED BY <1>0, <3>1, <3>3, <3>4, TurnsRecovering DEF r
  <2> QED BY <1>4, <2>1, <2>2, <2>3 DEF RecoveryReply
<1> QED BY <1>1, <1>2, <1>3, <1>4

-----------------------------------------------------------------------------
\* TypeOK in two parts: what the chain is about, and the rest.
Typed == replica \in [Replicas -> States] /\ sockets \in [Slots -> Sockets] /\ client \in Clients
\* From a change to the device: replicas, sockets, the one socket, the fence, the news.
Chain == ReplicaInv /\ SocketInv /\ OneSocket /\ FenceInv /\ NewsInv

(* What one replica publishes changes nothing of its peers but their news. *)
LEMMA BecomesFacts ==
  ASSUME replica \in [Replicas -> States], NEW i \in Replicas, NEW s \in States,
         NEW what \in SUBSET {"event", "resync"}, Becomes(i, s, what)
  PROVE  /\ replica' \in [Replicas -> States] /\ replica'[i] = s
         /\ \A j \in Replicas \ {i} :
              /\ replica'[j].owed = replica[j].owed /\ replica'[j].gap = replica[j].gap
              /\ replica'[j].sub = replica[j].sub /\ replica'[j].subscribed = replica[j].subscribed
              /\ replica[j].news \subseteq replica'[j].news
              /\ replica[j].listening => what \subseteq replica'[j].news
              /\ ReplicaOK(replica[j]) => ReplicaOK(replica'[j])
              /\ Owes(replica[j]) => Owes(replica'[j])
<1>1. ASSUME NEW j \in Replicas \ {i}
      PROVE  /\ replica'[j] \in States
             /\ replica'[j].owed = replica[j].owed /\ replica'[j].gap = replica[j].gap
             /\ replica'[j].sub = replica[j].sub /\ replica'[j].subscribed = replica[j].subscribed
             /\ replica[j].news \subseteq replica'[j].news
             /\ replica[j].listening => what \subseteq replica'[j].news
             /\ ReplicaOK(replica[j]) => ReplicaOK(replica'[j])
             /\ Owes(replica[j]) => Owes(replica'[j])
  <2> DEFINE r == replica[j]
             n == r.news \cup what
             t == [r EXCEPT !.news = n]
  <2>1. replica'[j] = IF r.listening THEN t ELSE r
    BY DEF Becomes, Heard, States
  <2>2. r \in States /\ n \in SUBSET {"event", "resync"}
    BY StateFields
  <2>3. r.news \subseteq n /\ what \subseteq n
    OBVIOUS
  <2> HIDE DEF r, n
  <2>4. /\ t \in States /\ t.owed = r.owed /\ t.gap = r.gap /\ t.sub = r.sub /\ t.subscribed = r.subscribed /\ t.news = n
        /\ t.listening = r.listening /\ t.failing = r.failing /\ t.recovery = r.recovery
    BY <2>2 DEF States
  <2> HIDE DEF t
  <2>5. (ReplicaOK(r) => ReplicaOK(t)) /\ (Owes(r) => Owes(t))
    BY <2>4 DEF ReplicaOK, Owes, Covered
  <2>6. CASE r.listening
    BY <2>1, <2>3, <2>4, <2>5, <2>6 DEF r
  <2>7. CASE ~r.listening
    BY <2>1, <2>2, <2>7 DEF r
  <2> QED BY <2>6, <2>7
<1>2. replica'[i] = s /\ \A j \in Replicas : replica'[j] \in States
  BY <1>1 DEF Becomes
<1>3. replica' = [j \in Replicas |-> replica'[j]]
  BY DEF Becomes
<1>4. replica' \in [Replicas -> States]
  BY <1>2, <1>3
<1> QED BY <1>1, <1>2, <1>4

\* What is on its way to the device over its socket.
Reached(s) == s.inbox # <<>> \/ s.cut

(* The transport's steps: replica i becomes s and publishes what. No news  *)
(* is lost if s still owes what i owed, or else has told its peers and its *)
(* own clients of it.                                                      *)
LEMMA TransportStep ==
  ASSUME Typed, Chain, NEW i \in Replicas, NEW s \in States, NEW what \in SUBSET {"event", "resync"},
         Becomes(i, s, what), writes \in Nat, writes' \in Nat, writes <= writes',
         ReplicaOK(s), s.owed <= writes',
         client' = client, stale' => stale \/ Owes(s), lost => lost',
         \A k \in Slots : Later(sockets[k], sockets'[k]),
         \A k \in Slots : sockets'[k].stage = "room" /\ sockets'[k].at = i /\ ~replica[i].gap /\ replica[i].subscribed =>
           /\ ~s.gap /\ s.subscribed
           /\ replica[i].news # {} => s.news # {} \/ Reached(sockets'[k])
           /\ replica[i].sub # "ready" => s.sub # "ready",
         Owes(replica[i]) /\ stale /\ ~lost' =>
           \/ Owes(s)
           \/ what # {} /\ \A k \in Slots : sockets'[k].stage = "room" /\ sockets'[k].at = i
                                            /\ ~replica[i].gap /\ replica[i].subscribed => Reached(sockets'[k])
  PROVE  Chain'
<1>1. /\ replica' \in [Replicas -> States] /\ replica'[i] = s
      /\ \A j \in Replicas \ {i} :
           /\ replica'[j].owed = replica[j].owed /\ replica'[j].gap = replica[j].gap
           /\ replica'[j].sub = replica[j].sub /\ replica'[j].subscribed = replica[j].subscribed
           /\ replica[j].news \subseteq replica'[j].news
           /\ replica[j].listening => what \subseteq replica'[j].news
           /\ ReplicaOK(replica[j]) => ReplicaOK(replica'[j])
           /\ Owes(replica[j]) => Owes(replica'[j])
  BY BecomesFacts DEF Typed
<1>2. ReplicaInv'
  <2>1. ASSUME NEW j \in Replicas PROVE ReplicaOK(replica'[j]) /\ replica'[j].owed <= writes'
    <3>1. CASE j = i
      BY <1>1, <3>1
    <3>2. CASE j # i
      <4>1. ReplicaOK(replica[j]) /\ replica[j].owed <= writes /\ replica[j] \in States
        BY DEF Chain, ReplicaInv, Typed
      <4>2. replica[j].owed \in Nat
        BY <4>1, StateFields
      <4>3. replica[j].owed <= writes'
        BY <4>1, <4>2
      <4> QED BY <1>1, <3>2, <4>1, <4>3
    <3> QED BY <3>1, <3>2
  <2> QED BY <2>1 DEF ReplicaInv
<1>3. ASSUME NEW k \in Slots, sockets'[k].stage = "room"
      PROVE  /\ sockets[k].stage = "room" /\ sockets'[k].at = sockets[k].at /\ sockets[k].at \in Replicas
             /\ ~replica[sockets[k].at].gap /\ replica[sockets[k].at].subscribed
             /\ ReplicaOK(replica[sockets[k].at])
  <2>1. sockets[k].stage = "room" /\ sockets'[k].at = sockets[k].at
    BY <1>3 DEF Later
  <2>2. SocketOK(sockets[k]) /\ RoomOK(sockets[k])
    BY DEF Chain, SocketInv
  <2>3. sockets[k].at \in Replicas
    BY <2>1, <2>2 DEF SocketOK
  <2> QED BY <2>1, <2>2, <2>3 DEF RoomOK, Chain, ReplicaInv
<1>4. SocketInv'
  <2>1. ASSUME NEW k \in Slots PROVE SocketOK(sockets'[k])
    BY DEF Later
  <2>2. ASSUME NEW k \in Slots, sockets'[k].stage = "room"
        PROVE  ~replica'[sockets'[k].at].gap /\ replica'[sockets'[k].at].subscribed
    BY <1>1, <1>3, <2>2
  <2>3. \A k \in Slots : RoomOK(sockets[k])'
    BY <2>2 DEF RoomOK
  <2>4. \A k \in Slots : SocketOK(sockets[k])'
    BY <2>1
  <2> QED BY <2>3, <2>4 DEF SocketInv
<1>5. OneSocket'
  BY DEF Chain, OneSocket, Later
<1>6. FenceInv'
  <2>1. ASSUME client.socket # None, client.fenced PROVE Fresh(sockets'[client.socket])
    <3>1. client.socket \in Slots
      BY <2>1 DEF Typed, Clients
    <3> QED BY <2>1, <3>1 DEF Chain, FenceInv, Later
  <2> QED BY <2>1 DEF FenceInv
<1>7. NewsInv'
  <2> SUFFICES ASSUME stale', Connected, ~lost', ~\E j \in Replicas : Owes(replica'[j])
               PROVE  Told(sockets[client.socket])'
    BY DEF NewsInv, Connected
  <2>k. PICK k \in Slots : k = client.socket
    BY DEF Connected, Typed, Clients
  <2>0. ~Owes(s) /\ stale
    BY <1>1
  <2>1. CASE sockets'[k].stage # "room"
    BY <2>1, <2>k DEF Told
  <2>2. CASE sockets'[k].stage = "room"
    <3> DEFINE j == sockets[k].at
    <3>1. /\ sockets[k].stage = "room" /\ sockets'[k].at = j /\ j \in Replicas
          /\ ~replica[j].gap /\ replica[j].subscribed /\ ReplicaOK(replica[j])
      BY <1>3, <2>2
    <3>2. Reached(sockets'[k]) \/ replica'[j].news # {} \/ replica'[j].sub # "ready"
      <4>1. Told(sockets[k]) \/ \E x \in Replicas : Owes(replica[x])
        BY <2>0, <2>k DEF Chain, NewsInv
      <4>2. CASE Told(sockets[k])
        <5>1. CASE Reached(sockets[k])
          BY <2>2, <5>1 DEF Reached, Later
        <5>2. CASE replica[j].news # {} \/ replica[j].sub # "ready"
          <6>1. CASE j = i
            BY <1>1, <2>2, <3>1, <5>2, <6>1
          <6>2. CASE j # i
            BY <1>1, <3>1, <5>2, <6>2
          <6> QED BY <6>1, <6>2
        <5> QED BY <3>1, <4>2, <5>1, <5>2 DEF Told, Reached
      <4>3. CASE \E x \in Replicas : Owes(replica[x])
        <5>1. PICK x \in Replicas : Owes(replica[x])
          BY <4>3
        <5>2. x = i
          BY <1>1, <5>1
        <5>3. what # {} /\ (j = i => Reached(sockets'[k]))
          BY <2>0, <2>2, <3>1, <5>1, <5>2
        <5>4. CASE j # i
          <6>1. replica[j].sub = "ready" => replica[j].listening
            BY <3>1 DEF ReplicaOK
          <6>2. /\ replica'[j].sub = replica[j].sub
                /\ replica[j].listening => what \subseteq replica'[j].news
            BY <1>1, <3>1, <5>4
          <6> QED BY <5>3, <6>1, <6>2
        <5> QED BY <5>3, <5>4
      <4> QED BY <4>1, <4>2, <4>3
    <3> QED BY <2>k, <3>1, <3>2 DEF Told, Reached
  <2> QED BY <2>1, <2>2
<1> QED BY <1>2, <1>4, <1>5, <1>6, <1>7 DEF Chain

-----------------------------------------------------------------------------
(* What the transport does to sockets.                                     *)
LEMMA ReconnectAllFacts ==
  ASSUME NEW i \in Replicas, NEW ss \in [Slots -> Sockets], sockets \in [Slots -> Sockets],
         \A k \in Slots : Later(sockets[k], ss[k])
  PROVE  LET tt == ReconnectAll(ss, i) IN
         /\ tt \in [Slots -> Sockets] /\ \A k \in Slots : Later(sockets[k], tt[k])
         /\ \A k \in Slots : tt[k].stage = "room" => tt[k] = ss[k] /\ tt[k].at # i
<1> DEFINE tt == ReconnectAll(ss, i)
<1>1. ASSUME NEW k \in Slots
      PROVE  Later(sockets[k], tt[k]) /\ tt[k] \in Sockets /\ (tt[k].stage = "room" => tt[k] = ss[k] /\ tt[k].at # i)
  <2>1. tt[k] = IF ss[k].stage = "room" /\ ss[k].at = i THEN Left(ss[k], "closed") ELSE ss[k]
    BY DEF ReconnectAll
  <2>2. PICK s \in Sockets : s = ss[k] /\ Later(sockets[k], s) /\ SocketOK(s)
    BY DEF Later
  <2>3. Later(s, Left(s, "closed")) /\ Left(s, "closed").stage = "left"
    BY <2>2, LaterLeft, LeftFacts DEF Frames
  <2>4. Later(sockets[k], Left(s, "closed")) /\ Left(s, "closed") \in Sockets
    BY <2>2, <2>3, LaterTwice DEF Later
  <2> HIDE DEF tt
  <2> QED BY <2>1, <2>2, <2>3, <2>4
<1>2. tt \in [Slots -> Sockets]
  BY <1>1 DEF ReconnectAll
<1> QED BY <1>1, <1>2

LEMMA ResyncedFacts ==
  ASSUME NEW i \in Replicas, NEW ss \in [Slots -> Sockets], sockets \in [Slots -> Sockets],
         \A k \in Slots : Later(sockets[k], ss[k])
  PROVE  LET tt == Resynced(ss, i) IN
         /\ tt \in [Slots -> Sockets] /\ \A k \in Slots : Later(sockets[k], tt[k])
         /\ \A k \in Slots : tt[k].stage = "room" => tt[k] = ss[k]
         /\ \A k \in Slots : tt[k].stage = "room" /\ tt[k].at = i => (replica[i].gap <=> replica'[i].gap)
<1>1. CASE Resyncs(i)
  BY <1>1, ReconnectAllFacts DEF Resynced
<1>2. CASE ~Resyncs(i)
  BY <1>2 DEF Resynced, Resyncs, GapBegins, GapEnds
<1> QED BY <1>1, <1>2

LEMMA SocketsStand ==
  ASSUME Typed, Chain
  PROVE  sockets \in [Slots -> Sockets] /\ \A k \in Slots : Later(sockets[k], sockets[k])
BY LaterSame DEF Typed, Chain, SocketInv

(* Every step of i that closes its sockets when its gap begins or ends.    *)
LEMMA TurnStep ==
  ASSUME Typed, Chain, NEW i \in Replicas, Turns(i),
         NEW ss \in [Slots -> Sockets], \A k \in Slots : Later(sockets[k], ss[k]), sockets' = Resynced(ss, i),
         writes \in Nat, writes' = writes, client' = client, stale' = stale, lost' = lost
  PROVE  Typed' /\ Chain'
<1>1. PICK s, what : /\ Becomes(i, s, what) /\ Moves(replica[i], s, what)
                     /\ what \in SUBSET {"event", "resync"} /\ (what # {} => s.gap)
  BY DEF Turns
<1>2. s \in States /\ ReplicaOK(s) /\ s.owed <= replica[i].owed
  BY <1>1 DEF Moves
<1>3. replica' \in [Replicas -> States] /\ replica'[i] = s
  BY <1>1, <1>2, BecomesFacts DEF Typed
<1>4. /\ sockets' \in [Slots -> Sockets] /\ \A k \in Slots : Later(sockets[k], sockets'[k])
      /\ \A k \in Slots : sockets'[k].stage = "room" /\ sockets'[k].at = i => (replica[i].gap <=> s.gap)
  <2>1. /\ Resynced(ss, i) \in [Slots -> Sockets]
        /\ \A k \in Slots : Later(sockets[k], Resynced(ss, i)[k])
        /\ \A k \in Slots : Resynced(ss, i)[k].stage = "room" /\ Resynced(ss, i)[k].at = i =>
                              (replica[i].gap <=> replica'[i].gap)
    BY ResyncedFacts DEF Typed
  <2> QED BY <1>3, <2>1
<1>5. s.owed <= writes' /\ writes <= writes'
  <2>1. replica[i] \in States /\ replica[i].owed <= writes
    BY DEF Typed, Chain, ReplicaInv
  <2>2. replica[i].owed \in Nat /\ s.owed \in Nat
    BY <1>2, <2>1, StateFields
  <2> QED BY <1>2, <2>1, <2>2
<1>6. \A k \in Slots : sockets'[k].stage = "room" /\ sockets'[k].at = i /\ ~replica[i].gap /\ replica[i].subscribed =>
        /\ ~s.gap /\ s.subscribed
        /\ replica[i].news # {} => s.news # {} \/ Reached(sockets'[k])
        /\ replica[i].sub # "ready" => s.sub # "ready"
  BY <1>1, <1>4 DEF Moves
<1>7. Owes(replica[i]) /\ stale /\ ~lost' =>
        \/ Owes(s)
        \/ what # {} /\ \A k \in Slots : sockets'[k].stage = "room" /\ sockets'[k].at = i
                                         /\ ~replica[i].gap /\ replica[i].subscribed => Reached(sockets'[k])
  BY <1>1, <1>4 DEF Moves
<1>8. Chain'
  BY <1>1, <1>2, <1>4, <1>5, <1>6, <1>7, TransportStep
<1> QED BY <1>3, <1>4, <1>8 DEF Typed

LEMMA BroadcastFacts ==
  ASSUME Typed, Chain, NEW i \in Replicas
  PROVE  LET tt == Broadcast(i) IN
         /\ tt \in [Slots -> Sockets] /\ \A k \in Slots : Later(sockets[k], tt[k])
         /\ \A k \in Slots : tt[k].stage = "room" /\ tt[k].at = i => Reached(tt[k])
<1> DEFINE tt == Broadcast(i)
<1>1. ASSUME NEW k \in Slots
      PROVE  Later(sockets[k], tt[k]) /\ tt[k] \in Sockets /\ (tt[k].stage = "room" /\ tt[k].at = i => Reached(tt[k]))
  <2>1. tt[k] = IF sockets[k].stage = "room" /\ sockets[k].at = i THEN Sent(sockets[k], "event") ELSE sockets[k]
    BY DEF Broadcast
  <2>2. PICK s \in Sockets : s = sockets[k] /\ SocketOK(s)
    BY DEF Typed, Chain, SocketInv
  <2>3. Later(s, s)
    BY <2>2, LaterSame
  <2>4. s.stage = "room" => Later(s, Sent(s, "event"))
    BY <2>2, LaterEvent
  <2>5. Sent(s, "event") \in Sockets /\ (Sent(s, "event").cut \/ Sent(s, "event").inbox # <<>>)
    BY SentFacts, SocketFields DEF Frames
  <2> HIDE DEF tt
  <2> QED BY <2>1, <2>2, <2>3, <2>4, <2>5 DEF Reached
<1>2. tt \in [Slots -> Sockets]
  BY <1>1 DEF Broadcast
<1> QED BY <1>1, <1>2

-----------------------------------------------------------------------------
Counts ==
  /\ writes \in 0..MaxWrites /\ faults \in 0..MaxFaults /\ calls \in 0..MaxCalls
  /\ lost \in BOOLEAN /\ stale \in BOOLEAN /\ session \in BOOLEAN

LEMMA BoundFacts ==
  ASSUME Counts
  PROVE  /\ writes \in Nat /\ MaxWrites \in Nat /\ faults \in Nat /\ calls \in Nat
         /\ Fault => faults' \in 0..MaxFaults
         /\ Called => calls' \in 0..MaxCalls
<1>1. MaxWrites \in Nat /\ MaxFaults \in Nat /\ MaxCalls \in Nat
  BY TransportAssumption, LiveSyncAssumption
<1>2. Fault => faults' \in 0..MaxFaults
  BY <1>1 DEF Fault, Counts
<1>3. Called => calls' \in 0..MaxCalls
  BY <1>1 DEF Called, Counts
<1> QED BY <1>1, <1>2, <1>3 DEF Counts

(* The actions of the transport.                                           *)
LEMMA TransportSteps ==
  ASSUME Typed, Counts, Chain, NEW i \in Replicas, Subscribes(i) \/ Connects(i) \/ Replies(i) \/ Fails(i)
  PROVE  Typed' /\ Counts' /\ Chain'
<1>1. replica[i] \in States /\ ReplicaOK(replica[i])
  BY DEF Typed, Chain, ReplicaInv
<1>2. /\ sockets' = Resynced(sockets, i)
      /\ UNCHANGED <<client, stale, lost, session, calls>>
      /\ \/ SubscriberReady(i) \/ Listens(i) \/ Ack(i) \/ SubscriberLost(i) \/ SubscriberClosed(i) \/ SubscribeFails(i)
         \/ PublisherLost(i) \/ PublisherClosed(i) \/ PublisherReady(i) \/ RecoveryReply(i) \/ Rejected(i)
  BY DEF Subscribes, Connects, Replies, Fails, Transport
<1>3. Turns(i)
  BY <1>1, <1>2, SubscriberTurns, PublisherTurns
<1>4. writes' = writes /\ lost' = lost /\ (faults' = faults \/ Fault)
  BY <1>2 DEF SubscriberReady, Listens, Ack, SubscriberLost, SubscriberClosed, SubscribeFails,
              PublisherLost, PublisherClosed, PublisherReady, RecoveryReply, Rejected
<1>5. Counts'
  BY <1>2, <1>4, BoundFacts DEF Counts
<1>6. Typed' /\ Chain'
  BY <1>2, <1>3, <1>4, SocketsStand, TurnStep, BoundFacts
<1> QED BY <1>5, <1>6

LEMMA CommitStep ==
  ASSUME Typed, Counts, Chain, NEW i \in Replicas, Commit(i)
  PROVE  Typed' /\ Counts' /\ Chain'
<1> DEFINE r == replica[i]
           n == r.owed + 1
           s == [r EXCEPT !.owed = n]
<1>1. /\ writes < MaxWrites /\ writes' = writes + 1 /\ Becomes(i, s, {})
      /\ UNCHANGED <<faults, lost, sockets, client, session, calls>> /\ stale' = TRUE
  BY DEF Commit, Write, Typed, States
<1>2. writes \in Nat /\ MaxWrites \in Nat
  BY BoundFacts
<1>3. r \in States /\ ReplicaOK(r) /\ r.owed <= writes /\ r.owed \in Nat
  BY StateFields DEF Typed, Chain, ReplicaInv
<1> HIDE DEF r
<1>4. n \in 0..MaxWrites /\ n > 0 /\ n <= writes'
  BY <1>1, <1>2, <1>3
<1> HIDE DEF n
<1>5. /\ s \in States /\ s.owed = n /\ s.gap = r.gap /\ s.sub = r.sub /\ s.subscribed = r.subscribed
      /\ s.listening = r.listening /\ s.news = r.news
  BY <1>3, <1>4 DEF States
<1> HIDE DEF s
<1>6. ReplicaOK(s) /\ Owes(s)
  BY <1>3, <1>4, <1>5 DEF ReplicaOK, Owes
<1>7. Counts'
  BY <1>1, <1>2 DEF Counts
<1>8. replica' \in [Replicas -> States]
  BY <1>1, <1>5, BecomesFacts DEF Typed
<1>9. writes' \in Nat /\ writes <= writes' /\ s.owed <= writes'
  BY <1>1, <1>2, <1>4, <1>5
<1>10. \A k \in Slots : Later(sockets[k], sockets'[k])
  BY <1>1, SocketsStand
<1>11. \A k \in Slots : sockets'[k].stage = "room" /\ sockets'[k].at = i /\ ~replica[i].gap /\ replica[i].subscribed =>
        /\ ~s.gap /\ s.subscribed
        /\ replica[i].news # {} => s.news # {} \/ Reached(sockets'[k])
        /\ replica[i].sub # "ready" => s.sub # "ready"
  BY <1>5 DEF r
<1>12. Chain'
  BY <1>1, <1>2, <1>5, <1>6, <1>9, <1>10, <1>11, TransportStep
<1> QED BY <1>1, <1>7, <1>8, <1>12 DEF Typed

LEMMA PublishStep ==
  ASSUME Typed, Counts, Chain, NEW i \in Replicas, PublishAll(i)
  PROVE  Typed' /\ Counts' /\ Chain'
<1> DEFINE r == replica[i]
           n == r.owed - 1
           s == [r EXCEPT !.owed = n]
<1>1. /\ r.owed > 0 /\ UNCHANGED <<writes, lost, client, stale, session, calls>>
      /\ sockets' = Resynced(Broadcast(i), i)
      /\ \/ ThenRecovers(i, Gapped(s)) /\ UNCHANGED faults
         \/ Healthy(s) /\ Becomes(i, s, {"event"}) /\ UNCHANGED faults
         \/ Becomes(i, [s EXCEPT !.failing = TRUE], {}) /\ (UNCHANGED faults \/ Fault)
  BY DEF PublishAll, Publish, Typed, States
<1>2. writes \in Nat /\ MaxWrites \in Nat
  BY BoundFacts
<1>3. r \in States /\ ReplicaOK(r) /\ r.owed <= writes /\ r.owed \in Nat /\ r.owed \in 0..MaxWrites
  BY StateFields DEF Typed, Chain, ReplicaInv
<1>4. /\ Broadcast(i) \in [Slots -> Sockets] /\ \A k \in Slots : Later(sockets[k], Broadcast(i)[k])
      /\ \A k \in Slots : Broadcast(i)[k].stage = "room" /\ Broadcast(i)[k].at = i => Reached(Broadcast(i)[k])
  BY BroadcastFacts
<1>5. Counts'
  BY <1>1, BoundFacts DEF Counts
<1> SUFFICES Typed' /\ Chain'
  BY <1>5
<1> HIDE DEF r
<1>6. n \in 0..MaxWrites /\ n <= r.owed /\ n <= writes
  BY <1>1, <1>2, <1>3
<1> HIDE DEF n
<1>7. /\ s \in States /\ s.owed = n /\ s.gap = r.gap /\ s.sub = r.sub /\ s.subscribed = r.subscribed
      /\ s.listening = r.listening /\ s.news = r.news
  BY <1>3, <1>6 DEF States
<1> HIDE DEF s
<1>8. ReplicaOK(s)
  BY <1>3, <1>7 DEF ReplicaOK
<1>9. CASE ThenRecovers(i, Gapped(s))
  <2> DEFINE g == Gapped(s)
  <2>1. /\ g \in States /\ g.gap /\ ~Covered(g) /\ g.sub = s.sub /\ g.listening = s.listening
        /\ g.subscribed = s.subscribed /\ g.owed = s.owed
    BY <1>7, GappedFacts
  <2> HIDE DEF g
  <2>2. ReplicaOK(g) /\ g.owed <= r.owed
    BY <1>6, <1>7, <1>8, <2>1 DEF ReplicaOK
  <2>3. Moves(r, g, {})
    BY <1>3, <2>1, <2>2, GapMoves
  <2>4. Turns(i)
    BY <1>3, <1>9, <2>1, <2>3, TurnsRecovering DEF r, g
  <2> QED BY <1>1, <1>2, <1>4, <2>4, TurnStep
<1>10. CASE Becomes(i, [s EXCEPT !.failing = TRUE], {})
  <2> DEFINE t == [s EXCEPT !.failing = TRUE]
  <2>1. /\ t \in States /\ t.gap = s.gap /\ t.sub = s.sub /\ t.listening = s.listening
        /\ t.subscribed = s.subscribed /\ t.owed = s.owed /\ t.news = s.news /\ t.failing
    BY <1>7 DEF States
  <2>0. Becomes(i, t, {})
    BY <1>10
  <2> HIDE DEF t
  <2>2. ReplicaOK(t) /\ t.owed <= r.owed
    BY <1>6, <1>7, <1>8, <2>1 DEF ReplicaOK
  <2>3. Moves(r, t, {})
    BY <1>3, <1>7, <2>1, <2>2 DEF Moves, Owes
  <2>4. Turns(i)
    BY <2>0, <2>3, TurnsBy DEF r
  <2> QED BY <1>1, <1>2, <1>4, <2>4, TurnStep
<1>11. CASE Healthy(s) /\ Becomes(i, s, {"event"})
  <2>0. {"event"} \in SUBSET {"event", "resync"} /\ {"event"} # {}
    OBVIOUS
  <2>1. replica' \in [Replicas -> States]
    BY <1>7, <1>11, <2>0, BecomesFacts DEF Typed
  <2>2. /\ sockets' \in [Slots -> Sockets] /\ \A k \in Slots : Later(sockets[k], sockets'[k])
        /\ \A k \in Slots : sockets'[k].stage = "room" => sockets'[k] = Broadcast(i)[k]
    <3>1. LET tt == Resynced(Broadcast(i), i) IN
          /\ tt \in [Slots -> Sockets] /\ \A k \in Slots : Later(sockets[k], tt[k])
          /\ \A k \in Slots : tt[k].stage = "room" => tt[k] = Broadcast(i)[k]
      BY <1>4, ResyncedFacts DEF Typed
    <3> QED BY <1>1, <3>1
  <2>3. \A k \in Slots : sockets'[k].stage = "room" /\ sockets'[k].at = i => Reached(sockets'[k])
    BY <1>4, <2>2
  <2>4. \A k \in Slots : sockets'[k].stage = "room" /\ sockets'[k].at = i /\ ~replica[i].gap /\ replica[i].subscribed =>
          /\ ~s.gap /\ s.subscribed
          /\ replica[i].news # {} => s.news # {} \/ Reached(sockets'[k])
          /\ replica[i].sub # "ready" => s.sub # "ready"
    BY <1>7, <2>3 DEF r
  <2>5. writes' \in Nat /\ writes <= writes' /\ s.owed <= writes'
    BY <1>1, <1>2, <1>6, <1>7
  <2>6. Chain'
    BY <1>1, <1>2, <1>7, <1>8, <1>11, <2>0, <2>2, <2>3, <2>4, <2>5, TransportStep
  <2> QED BY <1>1, <2>1, <2>2, <2>6 DEF Typed
<1> QED BY <1>1, <1>9, <1>10, <1>11

LEMMA DeliverStep ==
  ASSUME Typed, Counts, Chain, NEW i \in Replicas, Deliver(i)
  PROVE  Typed' /\ Counts' /\ Chain'
<1>1. /\ UNCHANGED <<writes, faults, lost, client, stale, session, calls>>
      /\ \/ Hear(i, "event") /\ sockets' = Broadcast(i)
         \/ Hear(i, "resync") /\ sockets' = ReconnectAll(sockets, i)
  BY DEF Deliver, Hear
<1>2. PICK m : Hear(i, m)
  BY <1>1
<1> DEFINE r == replica[i]
           n == r.news \ {m}
           s == [r EXCEPT !.news = n]
<1>3. Becomes(i, s, {})
  BY <1>2 DEF Hear, Typed, States
<1>4. r \in States /\ ReplicaOK(r) /\ r.owed <= writes /\ n \in SUBSET {"event", "resync"}
  BY StateFields DEF Typed, Chain, ReplicaInv
<1> HIDE DEF r, n
<1>5. /\ s \in States /\ s.owed = r.owed /\ s.gap = r.gap /\ s.sub = r.sub /\ s.subscribed = r.subscribed
      /\ s.listening = r.listening /\ s.failing = r.failing /\ s.recovery = r.recovery
  BY <1>4 DEF States
<1> HIDE DEF s
<1>6. ReplicaOK(s) /\ (Owes(r) => Owes(s))
  BY <1>4, <1>5 DEF ReplicaOK, Owes, Covered
<1>7. /\ sockets' \in [Slots -> Sockets] /\ \A k \in Slots : Later(sockets[k], sockets'[k])
      /\ \A k \in Slots : sockets'[k].stage = "room" /\ sockets'[k].at = i => Reached(sockets'[k])
  BY <1>1, BroadcastFacts, SocketsStand, ReconnectAllFacts
<1>8. \A k \in Slots : sockets'[k].stage = "room" /\ sockets'[k].at = i /\ ~replica[i].gap /\ replica[i].subscribed =>
        /\ ~s.gap /\ s.subscribed
        /\ replica[i].news # {} => s.news # {} \/ Reached(sockets'[k])
        /\ replica[i].sub # "ready" => s.sub # "ready"
  BY <1>5, <1>7 DEF r
<1>9. writes \in Nat /\ writes' \in Nat /\ writes <= writes' /\ s.owed <= writes'
  BY <1>1, <1>4, <1>5, BoundFacts
<1>10. Chain'
  BY <1>1, <1>3, <1>5, <1>6, <1>7, <1>8, <1>9, TransportStep DEF r
<1>11. replica' \in [Replicas -> States]
  BY <1>3, <1>5, BecomesFacts DEF Typed
<1> QED BY <1>1, <1>7, <1>10, <1>11 DEF Typed, Counts

LEMMA DropStep ==
  ASSUME Typed, Counts, Chain, NEW i \in Replicas, Drops(i)
  PROVE  Typed' /\ Counts' /\ Chain'
<1> DEFINE r == replica[i]
           n == r.owed - 1
           s == [r EXCEPT !.owed = n]
<1>1. /\ r.owed > 0 /\ Fault /\ Becomes(i, s, {}) /\ lost' = (lost \/ stale)
      /\ UNCHANGED <<writes, sockets, client, stale, session, calls>>
  BY DEF Drops, Unannounced, Typed, States
<1>2. writes \in Nat /\ MaxWrites \in Nat
  BY BoundFacts
<1>3. r \in States /\ ReplicaOK(r) /\ r.owed <= writes /\ r.owed \in Nat /\ r.owed \in 0..MaxWrites
  BY StateFields DEF Typed, Chain, ReplicaInv
<1> HIDE DEF r
<1>4. n \in 0..MaxWrites /\ n <= writes
  BY <1>1, <1>2, <1>3
<1> HIDE DEF n
<1>5. /\ s \in States /\ s.owed = n /\ s.gap = r.gap /\ s.sub = r.sub /\ s.subscribed = r.subscribed
      /\ s.listening = r.listening /\ s.news = r.news
  BY <1>3, <1>4 DEF States
<1> HIDE DEF s
<1>6. ReplicaOK(s)
  BY <1>3, <1>5 DEF ReplicaOK
<1>7. Counts'
  BY <1>1, BoundFacts DEF Counts
<1>8. replica' \in [Replicas -> States]
  BY <1>1, <1>5, BecomesFacts DEF Typed
<1>9. writes' \in Nat /\ writes <= writes' /\ s.owed <= writes'
  BY <1>1, <1>2, <1>4, <1>5
<1>10. \A k \in Slots : Later(sockets[k], sockets'[k])
  BY <1>1, SocketsStand
<1>11. \A k \in Slots : sockets'[k].stage = "room" /\ sockets'[k].at = i /\ ~replica[i].gap /\ replica[i].subscribed =>
        /\ ~s.gap /\ s.subscribed
        /\ replica[i].news # {} => s.news # {} \/ Reached(sockets'[k])
        /\ replica[i].sub # "ready" => s.sub # "ready"
  BY <1>5 DEF r
<1>12. ~(stale /\ ~lost') /\ (lost => lost')
  BY <1>1
<1>13. Chain'
  BY <1>1, <1>2, <1>5, <1>6, <1>9, <1>10, <1>11, <1>12, TransportStep
<1> QED BY <1>1, <1>7, <1>8, <1>13 DEF Typed

LEMMA RestartStep ==
  ASSUME Typed, Counts, Chain, NEW i \in Replicas, Restarts(i)
  PROVE  Typed' /\ Counts' /\ Chain'
<1>1. /\ Fault /\ Becomes(i, Started, {}) /\ UNCHANGED <<writes, client, stale, session, calls>>
      /\ lost' = (lost \/ (stale /\ Owing(replica[i])))
      /\ sockets' = [k \in Slots |-> IF sockets[k].at = i /\ sockets[k].stage # "left"
                                     THEN Left(sockets[k], "closed") ELSE sockets[k]]
  BY DEF Restarts, Restart
<1>2. Started \in States /\ ReplicaOK(Started) /\ Started.owed = 0
  BY TransportAssumption DEF Started, States, Links, ReplicaOK
<1>3. ASSUME NEW k \in Slots
      PROVE  /\ Later(sockets[k], sockets'[k]) /\ sockets'[k] \in Sockets
             /\ sockets'[k].stage = "room" => sockets'[k].at # i
  <2>1. sockets'[k] = IF sockets[k].at = i /\ sockets[k].stage # "left"
                      THEN Left(sockets[k], "closed") ELSE sockets[k]
    BY <1>1
  <2>2. PICK s \in Sockets : s = sockets[k] /\ SocketOK(s)
    BY DEF Typed, Chain, SocketInv
  <2>3. Later(s, s) /\ Later(s, Left(s, "closed")) /\ Left(s, "closed").stage = "left" /\ Left(s, "closed") \in Sockets
    BY <2>2, LaterSame, LaterLeft, LeftFacts DEF Frames
  <2> QED BY <2>1, <2>2, <2>3
<1>4. sockets' \in [Slots -> Sockets]
  BY <1>1, <1>3
<1>5. Counts'
  BY <1>1, BoundFacts DEF Counts
<1>6. writes \in Nat /\ writes' \in Nat /\ writes <= writes' /\ Started.owed <= writes'
  BY <1>1, <1>2, BoundFacts
<1>7. ~(Owes(replica[i]) /\ stale /\ ~lost')
  BY <1>1 DEF Owes, Owing
<1>8. lost => lost'
  BY <1>1
<1>9. Chain'
  BY <1>1, <1>2, <1>3, <1>6, <1>7, <1>8, TransportStep
<1>10. replica' \in [Replicas -> States]
  BY <1>1, <1>2, BecomesFacts DEF Typed
<1> QED BY <1>1, <1>4, <1>5, <1>9, <1>10 DEF Typed

-----------------------------------------------------------------------------
\* What the server may do to a socket that is not in a room yet.
Admits(s, t) ==
  /\ s.stage \in {"asked", "checked", "known"} /\ t \in Sockets /\ SocketOK(t) /\ RoomOK(t)
  /\ Live(t) => Live(s)

(* The server's steps on one socket.                                       *)
LEMMA SocketsStep ==
  ASSUME Typed, Counts, Chain, NEW k \in Slots, NEW t \in Sockets, sockets' = [sockets EXCEPT ![k] = t],
         Later(sockets[k], t) \/ Admits(sockets[k], t),
         replica' = replica, writes' = writes, lost' = lost, client' = client, stale' = stale
  PROVE  Typed' /\ Chain'
<1>1. /\ sockets' \in [Slots -> Sockets] /\ sockets'[k] = t
      /\ \A l \in Slots \ {k} : sockets'[l] = sockets[l]
  BY DEF Typed
<1>2. Typed'
  BY <1>1 DEF Typed
<1>3. ASSUME NEW l \in Slots
      PROVE  /\ SocketOK(sockets[l]) /\ RoomOK(sockets[l])
             /\ Later(sockets[l], sockets'[l]) \/ Admits(sockets[l], sockets'[l])
  <2>1. SocketOK(sockets[l]) /\ RoomOK(sockets[l]) /\ sockets[l] \in Sockets
    BY DEF Chain, SocketInv, Typed
  <2>2. Later(sockets[l], sockets[l])
    BY <2>1, LaterSame
  <2> QED BY <1>1, <2>1, <2>2
<1>4. ReplicaInv'
  BY DEF Chain, ReplicaInv
<1>5. SocketInv'
  <2>1. ASSUME NEW l \in Slots PROVE SocketOK(sockets'[l]) /\ RoomOK(sockets'[l])
    BY <1>3 DEF Later, Admits, RoomOK
  <2>2. \A l \in Slots : SocketOK(sockets[l])' /\ RoomOK(sockets[l])'
    BY <2>1 DEF RoomOK
  <2> QED BY <2>2 DEF SocketInv
<1>6. OneSocket'
  <2>1. \A l \in Slots : Live(sockets'[l]) => Live(sockets[l])
    BY <1>3 DEF Later, Admits
  <2> QED BY <2>1 DEF Chain, OneSocket
<1>7. ASSUME client.socket # None, client.fenced
      PROVE  client.socket \in Slots /\ Later(sockets[client.socket], sockets'[client.socket])
  <2>1. client.socket \in Slots /\ Fresh(sockets[client.socket])
    BY <1>7 DEF Typed, Clients, Chain, FenceInv
  <2> QED BY <1>3, <2>1 DEF Admits, Fresh
<1>8. FenceInv'
  <2>1. ASSUME client.socket # None, client.fenced PROVE Fresh(sockets'[client.socket])
    BY <1>7, <2>1 DEF Chain, FenceInv, Later
  <2> QED BY <2>1 DEF FenceInv
<1>9. NewsInv'
  <2>1. ASSUME stale, Connected, ~lost, ~\E i \in Replicas : Owes(replica[i])
        PROVE  Told(sockets'[client.socket])
    <3>1. Told(sockets[client.socket])
      BY <2>1 DEF Chain, NewsInv
    <3>2. Later(sockets[client.socket], sockets'[client.socket])
      BY <1>7, <2>1 DEF Connected
    <3> QED BY <3>1, <3>2 DEF Told, Later
  <2>2. Told(sockets'[client.socket]) => Told(sockets[client.socket])'
    BY DEF Told
  <2> QED BY <2>1, <2>2 DEF NewsInv, Connected
<1> QED BY <1>2, <1>4, <1>5, <1>6, <1>8, <1>9 DEF Chain

LEMMA LaterStaged ==
  ASSUME NEW s \in Sockets, SocketOK(s), s.stage \in {"asked", "checked"}, NEW next \in {"checked", "known"}
  PROVE  Admits(s, [s EXCEPT !.stage = next])
<1> DEFINE t == [s EXCEPT !.stage = next]
<1>1. t \in Sockets /\ t.stage = next /\ t.at = s.at /\ t.cut = s.cut /\ t.inbox = s.inbox
  BY DEF Sockets
<1> SUFFICES Admits(s, t)
  OBVIOUS
<1> HIDE DEF t
<1>2. SocketOK(t) /\ RoomOK(t) /\ (Live(t) => Live(s))
  BY <1>1 DEF SocketOK, Has, RoomOK, Live
<1> QED BY <1>1, <1>2 DEF Admits

LEMMA JoinAdmits ==
  ASSUME NEW s \in Sockets, SocketOK(s), s.stage = "known", Healthy(replica[s.at])
  PROVE  Admits(s, [Sent(Sent(s, "open"), "state") EXCEPT !.stage = "room"])
<1> DEFINE a == Sent(s, "open")
           b == Sent(a, "state")
           t == [b EXCEPT !.stage = "room"]
<1>0. "open" \in Frames /\ "state" \in Frames
  BY DEF Frames
<1>1. a \in Sockets /\ a.stage = s.stage /\ a.at = s.at /\ a.cut = s.cut
      /\ (s.cut => a = s) /\ (~s.cut => a.inbox = <<"open">>)
  <2>1. a \in Sockets /\ a.stage = s.stage /\ a.at = s.at /\ a.cut = s.cut
        /\ (a.inbox = s.inbox \/ (~s.cut /\ a.inbox = Append(s.inbox, "open")))
        /\ (~s.cut => a.inbox # <<>>)
    BY <1>0, SentFacts
  <2>2. ~s.cut => s.inbox = <<>>
    BY DEF SocketOK
  <2>3. Append(<<>>, "open") = <<"open">>
    OBVIOUS
  <2> HIDE DEF a
  <2>4. ~s.cut => a.inbox = <<"open">>
    BY <2>1, <2>2, <2>3
  <2>5. s.cut => a = s
    BY DEF a, Sent
  <2> QED BY <2>1, <2>4, <2>5
<1> HIDE DEF a
<1>2. b \in Sockets /\ b.at = s.at /\ b.cut = s.cut
      /\ (s.cut => b = s) /\ (~s.cut => Len(b.inbox) = 2 /\ b.inbox[1] = "open" /\ b.inbox[2] = "state")
  <2>1. b \in Sockets /\ b.at = a.at /\ b.cut = a.cut
    BY <1>0, <1>1, SentFacts
  <2>2. s.cut => b = a
    BY <1>1 DEF b, Sent
  <2>3. ASSUME ~s.cut PROVE Len(b.inbox) = 2 /\ b.inbox[1] = "open" /\ b.inbox[2] = "state"
    <3>1. a.inbox = <<"open">> /\ ~a.cut
      BY <1>1, <2>3
    <3>2. Last1(a.inbox) = "open" /\ a.inbox # <<>>
      BY <3>1 DEF Last1, Last
    <3>3. b = [a EXCEPT !.inbox = Append(@, "state")]
      BY <3>1, <3>2 DEF b, Sent
    <3>4. b = [a EXCEPT !.inbox = Append(a.inbox, "state")]
      BY <1>1, <3>3 DEF Sockets
    <3>5. b.inbox = Append(a.inbox, "state")
      BY <1>0, <1>1, <3>4, SentFacts DEF Sockets
    <3>6. Len(a.inbox) = 1 /\ a.inbox[1] = "open"
      BY <3>1
    <3>7. Len(b.inbox) = 2 /\ b.inbox[1] = "open" /\ b.inbox[2] = "state"
      <4>1. a.inbox \in Seq(Frames)
        BY <1>1, SocketFields
      <4>2. PICK q \in Seq(Frames) : q = a.inbox /\ Len(q) = 1 /\ q[1] = "open" /\ b.inbox = Append(q, "state")
        BY <3>5, <3>6, <4>1
      <4>3. /\ Len(Append(q, "state")) = 2
            /\ \A n \in 1..Len(Append(q, "state")) : n = 2 => Append(q, "state")[n] = "state"
            /\ Append(q, "state")[1] = q[1]
        BY <1>0, <4>2, AppendFacts
      <4>4. 2 \in 1..Len(Append(q, "state"))
        BY <4>3
      <4> QED BY <4>2, <4>3, <4>4
    <3> QED BY <3>7
  <2> QED BY <1>1, <2>1, <2>2, <2>3
<1> HIDE DEF b
<1>3. t \in Sockets /\ t.stage = "room" /\ t.at = s.at /\ t.cut = s.cut /\ t.inbox = b.inbox
  BY <1>2 DEF Sockets
<1> SUFFICES Admits(s, t)
  BY DEF b, a
<1> HIDE DEF t
<1>4. SocketOK(t)
  <2>1. CASE s.cut
    <3>1. t.inbox = s.inbox
      BY <1>2, <1>3, <2>1
    <3> QED BY <1>3, <2>1, <3>1 DEF SocketOK, Has, Live
  <2>2. CASE ~s.cut
    <3>2. Len(t.inbox) = 2 /\ t.inbox[1] = "open" /\ t.inbox[2] = "state"
      BY <1>2, <1>3, <2>2
    <3>3. \A n \in 1..Len(t.inbox) : n = 1 \/ n = 2
      BY <3>2
    <3>4. ~Has(t, "closed") /\ ~Has(t, "revoked")
      BY <3>2, <3>3 DEF Has
    <3>5. s.at \in Replicas
      BY DEF SocketOK
    <3> QED BY <1>3, <3>2, <3>3, <3>4, <3>5 DEF SocketOK
  <2> QED BY <2>1, <2>2
<1>5. RoomOK(t)
  BY <1>3 DEF RoomOK, Healthy
<1>6. Live(t) => Live(s)
  BY <1>3 DEF Live
<1> QED BY <1>3, <1>4, <1>5, <1>6 DEF Admits

LEMMA LaterCut ==
  ASSUME NEW s \in Sockets, SocketOK(s)
  PROVE  Later(s, [s EXCEPT !.cut = TRUE, !.inbox = <<"closed">>])
<1> DEFINE t == [s EXCEPT !.cut = TRUE, !.inbox = <<"closed">>]
<1>0. <<"closed">> \in Seq(Frames)
  BY DEF Frames
<1>1. t \in Sockets /\ t.stage = s.stage /\ t.at = s.at /\ t.cut = TRUE /\ t.inbox = <<"closed">>
  BY <1>0 DEF Sockets
<1> SUFFICES Later(s, t)
  OBVIOUS
<1> HIDE DEF t
<1>2. Len(t.inbox) = 1 /\ t.inbox[1] = "closed"
  BY <1>1
<1>3. \A n \in 1..Len(t.inbox) : n = 1
  BY <1>2
<1>4. \A m : Has(t, m) => m = "closed"
  BY <1>2, <1>3 DEF Has
<1>5. SocketOK(t) /\ ~Live(t) /\ (Fresh(s) => Fresh(t))
  BY <1>1, <1>2, <1>3, <1>4 DEF SocketOK, Live, Fresh
<1> QED BY <1>1, <1>5 DEF Later

LEMMA LaterNoticed ==
  ASSUME NEW s \in Sockets, SocketOK(s), s.stage = "room"
  PROVE  Later(s, [NoSocket EXCEPT !.inbox = s.inbox])
<1> DEFINE t == [NoSocket EXCEPT !.inbox = s.inbox]
<1>0. s.inbox \in Seq(Frames)
  BY SocketFields
<1>1. t \in Sockets /\ t.stage = "left" /\ t.inbox = s.inbox
  BY <1>0 DEF NoSocket, Sockets
<1> SUFFICES Later(s, t)
  OBVIOUS
<1> HIDE DEF t
<1>2. SocketOK(t) /\ ~Live(t) /\ (Fresh(s) => Fresh(t))
  BY <1>1 DEF SocketOK, Has, Live, Fresh
<1> QED BY <1>1, <1>2 DEF Later

LEMMA ServerSteps ==
  ASSUME Typed, Counts, Chain, NEW k \in Slots, Serve(k) \/ Sweep(k) \/ Drop(k)
  PROVE  Typed' /\ Counts' /\ Chain'
<1> DEFINE s == sockets[k]
<1>1. s \in Sockets /\ SocketOK(s)
  BY DEF Typed, Chain, SocketInv
<1>2. /\ UNCHANGED <<replica, writes, lost, client, stale, session, calls>>
      /\ faults' = faults \/ Fault
  BY DEF Serve, Check, Authenticate, Join, Passes, Notice, Sweep, Drop, transportVars
<1>3. Counts'
  BY <1>2, BoundFacts DEF Counts
<1>4. PICK t \in Sockets : sockets' = [sockets EXCEPT ![k] = t] /\ (Later(s, t) \/ Admits(s, t))
  <2>1. Left(s, "closed") \in Sockets /\ Left(s, "revoked") \in Sockets
        /\ Later(s, Left(s, "closed")) /\ Later(s, Left(s, "revoked"))
    BY <1>1, LaterLeft, LeftFacts DEF Frames
  <2>2. CASE Check(k) \/ Authenticate(k)
    <3>1. PICK ok \in BOOLEAN, next \in {"checked", "known"} :
            /\ s.stage \in {"asked", "checked"}
            /\ sockets' = [sockets EXCEPT ![k] = IF ok THEN [s EXCEPT !.stage = next] ELSE Left(s, "closed")]
      <4>1. CASE Check(k)
        <5>1. Admitted(k) \in BOOLEAN
          BY DEF Admitted, Healthy
        <5> QED BY <4>1, <5>1 DEF Check, Passes, Typed
      <4>2. CASE Authenticate(k)
        BY <4>2 DEF Authenticate, Passes, Typed, Counts
      <4> QED BY <2>2, <4>1, <4>2
    <3>2. Admits(s, [s EXCEPT !.stage = next]) /\ [s EXCEPT !.stage = next] \in Sockets
      BY <1>1, <3>1, LaterStaged DEF Admits
    <3> QED BY <2>1, <3>1, <3>2
  <2>3. CASE Join(k)
    <3>1. s.stage = "known" /\ sockets' = [sockets EXCEPT ![k] = IF Healthy(replica[s.at])
                                       THEN [Sent(Sent(s, "open"), "state") EXCEPT !.stage = "room"]
                                       ELSE Left(s, "closed")]
      BY <2>3 DEF Join, Passes, Admitted, Typed
    <3>2. Healthy(replica[s.at]) => /\ Admits(s, [Sent(Sent(s, "open"), "state") EXCEPT !.stage = "room"])
                                    /\ [Sent(Sent(s, "open"), "state") EXCEPT !.stage = "room"] \in Sockets
      BY <1>1, <3>1, JoinAdmits DEF Admits
    <3> QED BY <2>1, <3>1, <3>2
  <2>4. CASE Notice(k)
    <3>1. s.stage = "room" /\ sockets' = [sockets EXCEPT ![k] = [NoSocket EXCEPT !.inbox = s.inbox]]
      BY <2>4 DEF Notice
    <3>2. Later(s, [NoSocket EXCEPT !.inbox = s.inbox]) /\ [NoSocket EXCEPT !.inbox = s.inbox] \in Sockets
      BY <1>1, <3>1, LaterNoticed DEF Later
    <3> QED BY <3>1, <3>2
  <2>5. CASE Sweep(k)
    BY <2>1, <2>5 DEF Sweep, Typed
  <2>6. CASE Drop(k)
    <3>1. sockets' = [sockets EXCEPT ![k] = [s EXCEPT !.cut = TRUE, !.inbox = <<"closed">>]]
      BY <2>6 DEF Drop, Typed
    <3>2. Later(s, [s EXCEPT !.cut = TRUE, !.inbox = <<"closed">>])
          /\ [s EXCEPT !.cut = TRUE, !.inbox = <<"closed">>] \in Sockets
      BY <1>1, LaterCut DEF Later
    <3> QED BY <3>1, <3>2
  <2> QED BY <2>2, <2>3, <2>4, <2>5, <2>6 DEF Serve
<1>5. Typed' /\ Chain'
  BY <1>2, <1>4, SocketsStep
<1> QED BY <1>3, <1>5

-----------------------------------------------------------------------------
LEMMA ClientFields ==
  ASSUME NEW c \in Clients
  PROVE  /\ c.socket \in Slots \cup {None} /\ c.status \in {"connecting", "open", "closed"} /\ c.retry \in BOOLEAN
         /\ c.wanted \in BOOLEAN /\ c.latched \in BOOLEAN /\ c.fenced \in BOOLEAN
BY DEF Clients

LEMMA NoneIsNoSlot == None \notin Slots
BY LiveSyncAssumption DEF Slots

(* The calls of the device.                                                *)
LEMMA HungFacts ==
  ASSUME NEW s \in Sockets, SocketOK(s), RoomOK(s)
  PROVE  Hung(s) \in Sockets /\ SocketOK(Hung(s)) /\ RoomOK(Hung(s)) /\ ~Live(Hung(s))
<1> DEFINE u == Sent(s, "closed")
           c == (s.stage # "left")
           t == [u EXCEPT !.cut = c]
<1>0. "closed" \in Frames /\ c \in BOOLEAN
  BY DEF Frames
<1>1. u \in Sockets /\ u.stage = s.stage /\ u.at = s.at /\ (u.inbox = s.inbox \/ u.inbox = Append(s.inbox, "closed"))
  BY <1>0, SentFacts
<1>2. Hung(s) = t
  BY DEF Hung
<1> HIDE DEF u
<1>3. t \in Sockets /\ t.stage = s.stage /\ t.at = s.at /\ t.inbox = u.inbox /\ t.cut = c
  BY <1>0, <1>1 DEF Sockets
<1> HIDE DEF t
<1>4. ~Live(t)
  BY <1>3 DEF Live
<1>5. RoomOK(t)
  BY <1>3 DEF RoomOK
<1>6. SocketOK(t)
  <2>1. CASE t.inbox = s.inbox
    BY <1>3, <1>4, <2>1 DEF SocketOK, Has
  <2>2. CASE t.inbox = Append(s.inbox, "closed")
    <3>1. \A f : Has(t, f) => Has(s, f) \/ f = "closed"
      BY <1>0, <1>3, <2>2, HasAppended
    <3>2. ASSUME NEW n \in 1..Len(t.inbox)
          PROVE  /\ t.inbox[n] = "open" => n = 1
                 /\ t.inbox[n] = "state" => n = 1 \/ (n = 2 /\ t.inbox[1] = "open")
      <4>1. /\ Len(s.inbox) \in Nat
            /\ \/ n \in 1..Len(s.inbox) /\ t.inbox[n] = s.inbox[n]
               \/ n = Len(s.inbox) + 1 /\ t.inbox[n] = "closed"
            /\ 1 \in 1..Len(s.inbox) => t.inbox[1] = s.inbox[1]
        BY <1>0, <2>2, SocketFields, AppendFacts
      <4>2. CASE n \in 1..Len(s.inbox) /\ t.inbox[n] = s.inbox[n]
        <5>1. 1 \in 1..Len(s.inbox)
          BY <4>1, <4>2
        <5> QED BY <4>1, <4>2, <5>1 DEF SocketOK
      <4> QED BY <4>1, <4>2
    <3>3. t.stage \in {"asked", "checked", "known"} => ~Has(t, "state") /\ t.cut
      BY <1>3, <3>1 DEF SocketOK
    <3>4. t.stage # "left" => t.at \in Replicas
      BY <1>3 DEF SocketOK
    <3> QED BY <1>4, <3>2, <3>3, <3>4 DEF SocketOK
  <2> QED BY <1>1, <1>3, <2>1, <2>2
<1> QED BY <1>2, <1>3, <1>4, <1>5, <1>6

LEMMA HangUpFacts ==
  ASSUME Typed, Chain
  PROVE  /\ HangUp \in [Slots -> Sockets]
         /\ \A k \in Slots : SocketOK(HangUp[k]) /\ RoomOK(HangUp[k]) /\ ~Live(HangUp[k])
<1>1. \A k \in Slots : sockets[k] \in Sockets /\ SocketOK(sockets[k]) /\ RoomOK(sockets[k])
  BY DEF Typed, Chain, SocketInv
<1>2. \A k \in Slots : k # client.socket => ~Live(sockets[k])
  BY DEF Chain, OneSocket
<1>3. CASE client.socket = None
  BY <1>1, <1>2, <1>3, NoneIsNoSlot DEF HangUp, Typed
<1>4. CASE client.socket # None
  <2>1. client.socket \in Slots
    BY <1>4, ClientFields DEF Typed
  <2> DEFINE h == Hung(sockets[client.socket])
  <2>2. h \in Sockets /\ SocketOK(h) /\ RoomOK(h) /\ ~Live(h)
    BY <1>1, <2>1, HungFacts
  <2>3. HangUp = [sockets EXCEPT ![client.socket] = h]
    BY <1>4, <2>1 DEF HangUp, Typed
  <2> HIDE DEF h
  <2> QED BY <1>1, <1>2, <2>1, <2>2, <2>3 DEF Typed
<1> QED BY <1>3, <1>4

LEMMA DialStep ==
  ASSUME Typed, Chain, NEW c \in Clients, NEW ss \in [Slots -> Sockets],
         \A k \in Slots : SocketOK(ss[k]) /\ RoomOK(ss[k]) /\ ~Live(ss[k]),
         Dial(c, ss), replica' = replica, writes' = writes
  PROVE  Typed' /\ Chain'
<1>1. PICK k \in Slots, i \in Replicas :
        /\ client' = [c EXCEPT !.socket = k, !.status = "connecting", !.fenced = FALSE]
        /\ sockets' = [ss EXCEPT ![k] = [NoSocket EXCEPT !.stage = "asked", !.at = i]]
  BY DEF Dial
<1>2. client' \in Clients /\ client'.socket = k /\ client'.status = "connecting" /\ client'.fenced = FALSE
  BY <1>1 DEF Clients
<1> DEFINE t == [NoSocket EXCEPT !.stage = "asked", !.at = i]
<1>3. t \in Sockets /\ t.stage = "asked" /\ t.at = i /\ t.inbox = <<>>
  <2>1. <<>> \in Seq(Frames)
    OBVIOUS
  <2>2. NoSocket \in Sockets /\ NoSocket.inbox = <<>>
    BY <2>1 DEF NoSocket, Sockets
  <2> QED BY <2>2 DEF Sockets
<1>4. sockets' = [ss EXCEPT ![k] = t]
  BY <1>1
<1> HIDE DEF t
<1>5. SocketOK(t) /\ RoomOK(t)
  BY <1>3 DEF SocketOK, Has, RoomOK
<1>6. sockets' \in [Slots -> Sockets] /\ sockets'[k] = t /\ \A l \in Slots \ {k} : sockets'[l] = ss[l]
  BY <1>3, <1>4
<1>7. SocketInv'
  <2>1. \A l \in Slots : SocketOK(sockets'[l]) /\ RoomOK(sockets'[l])
    BY <1>5, <1>6
  <2>2. \A l \in Slots : SocketOK(sockets[l])' /\ RoomOK(sockets[l])'
    BY <2>1 DEF RoomOK
  <2> QED BY <2>2 DEF SocketInv
<1>8. OneSocket'
  <2>1. \A l \in Slots : Live(sockets'[l]) => l = k
    BY <1>6
  <2>2. k # None
    BY NoneIsNoSlot
  <2> QED BY <1>2, <2>1, <2>2 DEF OneSocket
<1>9. FenceInv' /\ NewsInv'
  BY <1>2 DEF FenceInv, NewsInv, Connected
<1>10. ReplicaInv'
  BY DEF Chain, ReplicaInv
<1> QED BY <1>2, <1>6, <1>7, <1>8, <1>9, <1>10 DEF Typed, Chain

LEMMA OpenStep ==
  ASSUME Typed, Chain, NEW c \in Clients,
         c.socket = client.socket, c.status = client.status, c.fenced = client.fenced,
         Open(c, sockets), replica' = replica, writes' = writes, stale' = stale, lost' = lost
  PROVE  Typed' /\ Chain'
<1>1. CASE client' = c /\ sockets' = sockets
  <2>1. ReplicaInv' /\ FenceInv' /\ OneSocket' /\ NewsInv'
    BY <1>1 DEF Chain, ReplicaInv, FenceInv, OneSocket, NewsInv, Connected, Told
  <2>2. SocketInv'
    BY <1>1 DEF Chain, SocketInv, RoomOK
  <2> QED BY <1>1, <2>1, <2>2 DEF Typed, Chain
<1>2. CASE c.socket = None /\ Dial(c, sockets)
  <2>1. sockets \in [Slots -> Sockets]
        /\ \A k \in Slots : SocketOK(sockets[k]) /\ RoomOK(sockets[k]) /\ ~Live(sockets[k])
    BY <1>2, NoneIsNoSlot DEF Typed, Chain, SocketInv, OneSocket
  <2> QED BY <1>2, <2>1, DialStep
<1> QED BY <1>1, <1>2 DEF Open

LEMMA CallSteps ==
  ASSUME Typed, Counts, Chain, Connect \/ Reconnect \/ Close \/ RetryFires
  PROVE  Typed' /\ Counts' /\ Chain'
<1>0. client \in Clients
  BY DEF Typed
<1>1. /\ UNCHANGED <<replica, writes, faults, lost, stale, session>>
      /\ calls' = calls \/ Called
  BY DEF Connect, Reconnect, Close, RetryFires, Called, transportVars
<1>2. Counts'
  BY <1>1, BoundFacts DEF Counts
<1>3. CASE Connect
  <2> DEFINE c == [client EXCEPT !.wanted = TRUE]
  <2>1. c \in Clients /\ c.socket = client.socket /\ c.status = client.status /\ c.fenced = client.fenced
    BY <1>0 DEF Clients
  <2>2. Open(c, sockets)
    BY <1>3 DEF Connect
  <2> HIDE DEF c
  <2> QED BY <1>1, <1>2, <2>1, <2>2, OpenStep
<1>4. CASE RetryFires
  <2> DEFINE c == [client EXCEPT !.retry = FALSE]
  <2>1. c \in Clients /\ c.socket = client.socket /\ c.status = client.status /\ c.fenced = client.fenced
    BY <1>0 DEF Clients
  <2>2. Open(c, sockets)
    BY <1>4 DEF RetryFires
  <2> HIDE DEF c
  <2> QED BY <1>1, <1>2, <2>1, <2>2, OpenStep
<1>5. CASE Reconnect
  <2> DEFINE c == [client EXCEPT !.wanted = TRUE, !.retry = FALSE, !.socket = None]
  <2>1. c \in Clients
    BY <1>0 DEF Clients
  <2>2. Dial(c, HangUp)
    BY <1>5 DEF Reconnect
  <2> HIDE DEF c
  <2> QED BY <1>1, <1>2, <2>1, <2>2, HangUpFacts, DialStep
<1>6. CASE Close
  <2>1. sockets' = HangUp
    BY <1>6 DEF Close
  <2>2. client' \in Clients /\ client'.socket = None /\ client'.status = "closed" /\ client'.fenced = FALSE
    BY <1>0, <1>6 DEF Close, Clients
  <2>3. /\ sockets' \in [Slots -> Sockets]
        /\ \A k \in Slots : SocketOK(sockets'[k]) /\ RoomOK(sockets'[k]) /\ ~Live(sockets'[k])
    BY <2>1, HangUpFacts
  <2>4. SocketInv'
    <3>1. \A l \in Slots : SocketOK(sockets[l])' /\ RoomOK(sockets[l])'
      BY <1>1, <2>3 DEF RoomOK
    <3> QED BY <3>1 DEF SocketInv
  <2>5. OneSocket'
    <3>1. \A k \in Slots : ~Live(sockets[k])'
      BY <2>3
    <3> QED BY <2>2, <3>1 DEF OneSocket
  <2>6. FenceInv' /\ NewsInv' /\ ReplicaInv'
    BY <1>1, <2>2 DEF FenceInv, NewsInv, Connected, Chain, ReplicaInv
  <2> QED BY <1>1, <1>2, <2>2, <2>3, <2>4, <2>5, <2>6 DEF Typed, Chain
<1> QED BY <1>3, <1>4, <1>5, <1>6

-----------------------------------------------------------------------------
(* A frame is received.                                                    *)
LEMMA TailFacts ==
  ASSUME NEW s \in Sockets, SocketOK(s), RoomOK(s), s.inbox # <<>>
  PROVE  LET t == [s EXCEPT !.inbox = Tail(@)]
             m == Head(s.inbox)
         IN /\ m \in Frames /\ Has(s, m) /\ (m = "state" => Fresh(t))
            /\ t \in Sockets /\ SocketOK(t) /\ RoomOK(t)
            /\ (Live(t) => Live(s)) /\ (Fresh(s) => Fresh(t))
<1> DEFINE m == Head(s.inbox)
           b == Tail(s.inbox)
           t == [s EXCEPT !.inbox = b]
<1>0. s.inbox \in Seq(Frames) /\ Len(s.inbox) \in Nat
  BY SocketFields
<1>1. Len(s.inbox) > 0 /\ m = s.inbox[1] /\ m \in Frames
  BY <1>0
<1>2. /\ b \in Seq(Frames) /\ Len(b) = Len(s.inbox) - 1
      /\ \A n \in 1..Len(b) : n + 1 \in 1..Len(s.inbox) /\ b[n] = s.inbox[n + 1]
  <2>1. b \in Seq(Frames) /\ Len(b) = Len(s.inbox) - 1
    BY <1>0, <1>1
  <2>2. ASSUME NEW n \in 1..Len(b) PROVE n + 1 \in 1..Len(s.inbox) /\ b[n] = s.inbox[n + 1]
    BY <1>0, <1>1, <2>1
  <2> QED BY <2>1, <2>2
<1>3. [s EXCEPT !.inbox = Tail(@)] = t
  BY DEF Sockets
<1> HIDE DEF m, b
<1>4. t \in Sockets /\ t.stage = s.stage /\ t.at = s.at /\ t.cut = s.cut /\ t.inbox = b
  BY <1>2 DEF Sockets
<1> SUFFICES /\ m \in Frames /\ Has(s, m) /\ (m = "state" => Fresh(t))
             /\ t \in Sockets /\ SocketOK(t) /\ RoomOK(t)
             /\ (Live(t) => Live(s)) /\ (Fresh(s) => Fresh(t))
  BY <1>3 DEF m, b
<1> HIDE DEF t
<1>5. Has(s, m)
  BY <1>0, <1>1 DEF Has
<1>6. \A f : Has(t, f) => Has(s, f)
  BY <1>2, <1>4 DEF Has
<1>7. ASSUME NEW n \in 1..Len(t.inbox)
      PROVE  /\ t.inbox[n] # "open"
             /\ t.inbox[n] = "state" => n = 1 /\ s.inbox[1] = "open"
  <2>1. n \in Nat /\ n >= 1 /\ n + 1 \in 1..Len(s.inbox) /\ t.inbox[n] = s.inbox[n + 1]
    BY <1>0, <1>2, <1>4
  <2> QED BY <2>1 DEF SocketOK
<1>8. t.stage \in {"asked", "checked", "known"} => t.cut
  BY <1>4 DEF SocketOK
<1>9. SocketOK(t)
  BY <1>4, <1>6, <1>7, <1>8 DEF SocketOK, Live
<1>10. m = "state" => Fresh(t)
  <2>1. ~Has(t, "open")
    BY <1>7 DEF Has
  <2>2. m = "state" => ~Has(t, "state")
    BY <1>1, <1>7 DEF Has
  <2>3. m = "state" => t.stage \notin {"asked", "checked", "known"}
    BY <1>4, <1>5 DEF SocketOK
  <2> QED BY <2>1, <2>2, <2>3 DEF Fresh
<1>11. RoomOK(t) /\ (Live(t) => Live(s)) /\ (Fresh(s) => Fresh(t))
  BY <1>4, <1>6 DEF RoomOK, Live, Fresh
<1> QED BY <1>1, <1>4, <1>5, <1>9, <1>10, <1>11

LEMMA HandledFacts ==
  ASSUME NEW m \in Frames, client \in Clients
  PROVE  /\ Handled(m) \in Clients
         /\ m = "open" => Handled(m).socket = client.socket /\ Handled(m).status = "open"
                          /\ Handled(m).fenced = client.fenced
         /\ m = "state" => Handled(m).socket = client.socket /\ Handled(m).status = client.status
         /\ m = "event" => Handled(m) = client
         /\ m \in {"closed", "revoked"} => Handled(m).socket = None /\ Handled(m).status = "closed"
                                           /\ Handled(m).fenced = FALSE
<1>1. CASE m = "open"
  BY <1>1 DEF Handled, Clients
<1>2. CASE m = "state"
  BY <1>2 DEF Handled, Clients
<1>3. CASE m = "event"
  BY <1>3 DEF Handled, Clients
<1>4. CASE m = "closed"
  <2>0. (client.retry \/ (client.wanted /\ ~client.latched)) \in BOOLEAN
    OBVIOUS
  <2>1. Handled(m) = [client EXCEPT !.socket = None, !.status = "closed", !.fenced = FALSE,
                                    !.retry = client.retry \/ (client.wanted /\ ~client.latched)]
    BY <1>4 DEF Handled, Clients
  <2> QED BY <1>4, <2>0, <2>1 DEF Clients
<1>5. CASE m = "revoked"
  BY <1>5 DEF Handled, Clients
<1> QED BY <1>1, <1>2, <1>3, <1>4, <1>5 DEF Frames

LEMMA ReceiveStep ==
  ASSUME Typed, Counts, Chain, NEW k \in Slots, Receive(k)
  PROVE  Typed' /\ Counts' /\ Chain'
<1> DEFINE s == sockets[k]
           t == [s EXCEPT !.inbox = Tail(@)]
           m == Head(s.inbox)
<1>1. s \in Sockets /\ SocketOK(s) /\ RoomOK(s) /\ s.inbox # <<>>
  BY DEF Typed, Chain, SocketInv, Receive
<1>2. /\ m \in Frames /\ Has(s, m) /\ (m = "state" => Fresh(t))
      /\ t \in Sockets /\ SocketOK(t) /\ RoomOK(t)
      /\ (Live(t) => Live(s)) /\ (Fresh(s) => Fresh(t))
  BY <1>1, TailFacts
<1>3. /\ sockets' = [sockets EXCEPT ![k] = t]
      /\ UNCHANGED <<replica, writes, faults, session, calls>>
      /\ \/ /\ client.socket = k /\ client' = Handled(m)
            /\ stale' = (stale /\ ~Reads(m)) /\ lost' = (lost /\ ~Reads(m))
         \/ client.socket # k /\ UNCHANGED <<client, stale, lost>>
  BY DEF Receive, IsCurrent, transportVars, Typed, Sockets
<1> HIDE DEF s, t, m
<1>4. /\ sockets' \in [Slots -> Sockets] /\ sockets'[k] = t /\ \A l \in Slots \ {k} : sockets'[l] = sockets[l]
  BY <1>2, <1>3 DEF Typed
<1>5. client \in Clients /\ client' \in Clients
  BY <1>2, <1>3, HandledFacts DEF Typed
<1>6. Counts'
  BY <1>3 DEF Counts
<1>7. SocketInv'
  <2>1. \A l \in Slots : SocketOK(sockets'[l]) /\ RoomOK(sockets'[l])
    BY <1>2, <1>4 DEF Chain, SocketInv
  <2>2. \A l \in Slots : SocketOK(sockets[l])' /\ RoomOK(sockets[l])'
    BY <1>3, <2>1 DEF RoomOK
  <2> QED BY <2>2 DEF SocketInv
<1>8. ReplicaInv'
  BY <1>3 DEF Chain, ReplicaInv
<1>9. \A l \in Slots : /\ Live(sockets'[l]) => Live(sockets[l]) /\ client.socket = l
                       /\ Fresh(sockets[l]) => Fresh(sockets'[l])
  BY <1>2, <1>4 DEF Chain, OneSocket, s
<1> SUFFICES OneSocket' /\ FenceInv' /\ NewsInv'
  BY <1>3, <1>4, <1>5, <1>6, <1>7, <1>8 DEF Typed, Chain
<1>10. CASE client.socket # k /\ UNCHANGED <<client, stale, lost>>
  <2>1. OneSocket'
    BY <1>9, <1>10 DEF Chain, OneSocket
  <2>2. FenceInv'
    <3>1. client.socket # None /\ client.fenced => Fresh(sockets'[client.socket])
      BY <1>5, <1>9, ClientFields DEF Chain, FenceInv
    <3> QED BY <1>10, <3>1 DEF FenceInv
  <2>3. NewsInv'
    <3>1. client.socket # None => sockets'[client.socket] = sockets[client.socket]
      BY <1>4, <1>5, <1>10, ClientFields
    <3> QED BY <1>3, <1>10, <3>1 DEF Chain, NewsInv, Connected, Told
  <2> QED BY <2>1, <2>2, <2>3
<1>11. CASE client.socket = k /\ client' = Handled(m) /\ stale' = (stale /\ ~Reads(m))
  <2>0. k # None /\ client.status # "closed"
    BY <1>11, NoneIsNoSlot DEF Chain, OneSocket
  <2>1. client.fenced => Fresh(s)
    BY <1>11, <2>0 DEF Chain, FenceInv, s
  <2>2. m \in {"open", "state"} => ~client.fenced
    BY <1>2, <2>1 DEF Fresh
  <2>3. CASE m = "open"
    <3>1. client'.socket = k /\ client'.status = "open" /\ client'.fenced = client.fenced
      BY <1>2, <1>5, <1>11, <2>3, HandledFacts
    <3>2. OneSocket'
      BY <1>9, <1>11, <2>0, <3>1 DEF OneSocket
    <3>3. FenceInv' /\ NewsInv'
      BY <2>2, <2>3, <3>1 DEF FenceInv, NewsInv, Connected
    <3> QED BY <3>2, <3>3
  <2>4. CASE m = "state"
    <3>1. client'.socket = k /\ client'.status = client.status
      BY <1>2, <1>5, <1>11, <2>4, HandledFacts
    <3>2. OneSocket'
      BY <1>9, <1>11, <2>0, <3>1 DEF OneSocket
    <3>3. FenceInv'
      BY <1>2, <1>4, <2>4, <3>1 DEF FenceInv
    <3>4. ~stale'
      BY <1>11, <2>2, <2>4 DEF Reads
    <3> QED BY <3>2, <3>3, <3>4 DEF NewsInv
  <2>5. CASE m = "event"
    <3>1. client' = client /\ ~stale'
      BY <1>2, <1>5, <1>11, <2>5, HandledFacts DEF Reads
    <3>2. OneSocket'
      BY <1>9, <3>1 DEF Chain, OneSocket
    <3>3. FenceInv'
      BY <1>2, <1>4, <1>11, <2>1, <3>1 DEF FenceInv
    <3> QED BY <3>1, <3>2, <3>3 DEF NewsInv
  <2>6. CASE m \in {"closed", "revoked"}
    <3>1. client'.socket = None /\ client'.status = "closed" /\ client'.fenced = FALSE
      BY <1>2, <1>5, <1>11, <2>6, HandledFacts
    <3>2. ~Live(s)
      BY <1>1, <1>2, <2>6 DEF SocketOK
    <3>3. \A l \in Slots : ~Live(sockets'[l])
      BY <1>9, <1>11, <3>2 DEF s
    <3>4. OneSocket'
      BY <3>1, <3>3 DEF OneSocket
    <3> QED BY <3>1, <3>4 DEF FenceInv, NewsInv, Connected
  <2> QED BY <1>2, <2>3, <2>4, <2>5, <2>6 DEF Frames
<1> QED BY <1>3, <1>10, <1>11

LEMMA RevokeStep ==
  ASSUME Typed, Counts, Chain, Revoke
  PROVE  Typed' /\ Counts' /\ Chain'
<1>1. UNCHANGED <<replica, writes, faults, lost, sockets, client, stale, calls>> /\ session' = FALSE
  BY DEF Revoke, transportVars
<1> QED BY <1>1 DEF Typed, Counts, Chain, ReplicaInv, SocketInv, RoomOK, OneSocket, FenceInv, NewsInv, Connected, Told

-----------------------------------------------------------------------------
SyncInv == Typed /\ Counts /\ Chain

(* The invariant holds.                                                    *)
LEMMA TypesSplit == TypeOK <=> Typed /\ Counts
BY DEF TypeOK, Typed, Counts

LEMMA SyncInit == Init => SyncInv
<1> SUFFICES ASSUME Init PROVE SyncInv
  OBVIOUS
<1>1. PICK running \in SUBSET Replicas : Home \in running /\ TransportInit(running)
  BY DEF Init
<1>2. /\ replica = [i \in Replicas |-> IF i \in running THEN Settled ELSE Started]
      /\ writes = 0 /\ faults = 0 /\ lost = FALSE /\ stale = FALSE /\ session = TRUE /\ calls = 0
      /\ client = [socket |-> 1, status |-> "open", retry |-> FALSE, wanted |-> TRUE,
                   latched |-> FALSE, fenced |-> TRUE]
      /\ sockets = [[k \in Slots |-> NoSocket] EXCEPT ![1] = [@ EXCEPT !.stage = "room", !.at = Home]]
  BY <1>1 DEF Init, TransportInit
<1>3. 1 \in Slots /\ Home \in Replicas
  BY <1>1, LiveSyncAssumption DEF Slots
<1>4. /\ Started \in States /\ ReplicaOK(Started) /\ Started.owed = 0
      /\ Settled \in States /\ ReplicaOK(Settled) /\ Settled.owed = 0 /\ ~Settled.gap /\ Settled.subscribed
  <2>1. Started \in States /\ ReplicaOK(Started) /\ Started.owed = 0 /\ Started.gap = FALSE
    BY TransportAssumption DEF Started, States, Links, ReplicaOK
  <2>2. /\ Settled \in States /\ Settled.sub = "ready" /\ Settled.listening = TRUE /\ Settled.subscribed = TRUE
        /\ Settled.owed = Started.owed /\ Settled.gap = Started.gap
    BY <2>1 DEF Settled, States, Links
  <2> QED BY <2>1, <2>2 DEF ReplicaOK
<1>5. replica \in [Replicas -> States] /\ ReplicaInv
  BY <1>2, <1>4 DEF ReplicaInv
<1>6. Counts
  <2>1. 0 \in 0..MaxWrites /\ 0 \in 0..MaxFaults /\ 0 \in 0..MaxCalls
    BY TransportAssumption, LiveSyncAssumption
  <2> QED BY <1>2, <2>1 DEF Counts
<1>7. client \in Clients /\ client.socket = 1 /\ client.status = "open"
  BY <1>2, <1>3 DEF Clients
<1>8. NoSocket \in Sockets /\ NoSocket.stage = "left" /\ NoSocket.inbox = <<>>
  <2>1. <<>> \in Seq(Frames)
    OBVIOUS
  <2> QED BY <2>1 DEF NoSocket, Sockets
<1> DEFINE t == [NoSocket EXCEPT !.stage = "room", !.at = Home]
<1>9. t \in Sockets /\ t.stage = "room" /\ t.at = Home /\ t.inbox = <<>>
  BY <1>3, <1>8 DEF Sockets
<1>10. sockets = [[k \in Slots |-> NoSocket] EXCEPT ![1] = t]
  BY <1>2, <1>3
<1> HIDE DEF t
<1>11. /\ sockets \in [Slots -> Sockets] /\ sockets[1] = t
       /\ \A k \in Slots \ {1} : sockets[k] = NoSocket
  BY <1>3, <1>8, <1>9, <1>10
<1>12. \A k \in Slots : sockets[k].inbox = <<>> /\ (sockets[k].stage = "room" \/ sockets[k].stage = "left")
                        /\ (sockets[k].stage = "room" => k = 1 /\ sockets[k].at = Home)
  BY <1>8, <1>9, <1>11
<1>13. SocketInv
  <2>1. ~replica[Home].gap /\ replica[Home].subscribed
    BY <1>1, <1>2, <1>3, <1>4
  <2>2. ASSUME NEW k \in Slots PROVE SocketOK(sockets[k]) /\ RoomOK(sockets[k])
    <3>1. ~Has(sockets[k], "closed") /\ ~Has(sockets[k], "revoked")
      BY <1>12 DEF Has
    <3>2. SocketOK(sockets[k])
      BY <1>3, <1>12, <3>1 DEF SocketOK
    <3> QED BY <1>12, <2>1, <3>2 DEF RoomOK
  <2> QED BY <2>2 DEF SocketInv
<1>14. OneSocket
  BY <1>3, <1>7, <1>12, NoneIsNoSlot DEF OneSocket, Live
<1>15. FenceInv
  BY <1>3, <1>7, <1>12 DEF FenceInv, Fresh, Has
<1>16. NewsInv
  BY <1>2 DEF NewsInv
<1> QED BY <1>5, <1>6, <1>7, <1>11, <1>13, <1>14, <1>15, <1>16 DEF SyncInv, Typed, Chain

LEMMA SyncStep == SyncInv /\ [Next]_vars => SyncInv'
<1> SUFFICES ASSUME Typed, Counts, Chain, [Next]_vars
             PROVE  Typed' /\ Counts' /\ Chain'
  BY DEF SyncInv
<1>1. ASSUME NEW i \in Replicas, Subscribes(i) \/ Connects(i) \/ Replies(i) \/ Fails(i)
      PROVE  Typed' /\ Counts' /\ Chain'
  BY <1>1, TransportSteps
<1>2. ASSUME NEW i \in Replicas, Commit(i) \/ PublishAll(i) \/ Drops(i) \/ Deliver(i) \/ Restarts(i)
      PROVE  Typed' /\ Counts' /\ Chain'
  BY <1>2, CommitStep, PublishStep, DropStep, DeliverStep, RestartStep
<1>3. ASSUME NEW k \in Slots, Serve(k) \/ Sweep(k) \/ Receive(k) \/ Drop(k)
      PROVE  Typed' /\ Counts' /\ Chain'
  BY <1>3, ServerSteps, ReceiveStep
<1>4. CASE Revoke \/ Connect \/ Reconnect \/ Close \/ RetryFires
  BY <1>4, RevokeStep, CallSteps
<1>5. CASE UNCHANGED vars
  BY <1>5 DEF vars, transportVars, deviceVars, Typed, Counts, Chain, ReplicaInv, SocketInv, RoomOK,
              OneSocket, FenceInv, NewsInv, Connected, Told
<1> QED BY <1>1, <1>2, <1>3, <1>4, <1>5 DEF Next

LEMMA NewsReaches ==
  ASSUME Typed, Chain
  PROVE  NothingMissed
<1> SUFFICES ASSUME stale, Connected, ~lost PROVE NewsUnderWay
  BY DEF NothingMissed
<1>1. CASE Told(sockets[client.socket])
  BY <1>1 DEF Told, NewsUnderWay
<1>2. CASE \E i \in Replicas : Owes(replica[i])
  BY <1>2 DEF Owes, Covered, RecoveryEnds, NewsUnderWay
<1> QED BY <1>1, <1>2 DEF Chain, NewsInv

(* The inductive invariant holds for any replicas, sockets, calls, faults. *)
THEOREM SyncHolds == Spec => []SyncInv
BY SyncInit, SyncStep, PTL DEF Spec

(* Every variable keeps its type.                                          *)
THEOREM TypeCorrect == Spec => []TypeOK
<1>1. SyncInv => TypeOK
  BY TypesSplit DEF SyncInv
<1> QED BY <1>1, SyncHolds, PTL

(* The device never holds two live connections, whatever closes, reconnects *)
(* and late close events come in between (isCurrent in sync-client.ts).    *)
THEOREM OneSocketHeld == Spec => []OneSocket
<1>1. SyncInv => OneSocket
  BY DEF SyncInv, Chain
<1> QED BY <1>1, SyncHolds, PTL

(* A connected device is never behind for good: something that refreshes   *)
(* it is under way, unless a replica died or failed to look up who is to   *)
(* be told before the change was announced, until the device reads again   *)
(* (sync-transport.ts, rooms.ts, the fence of use-sync.ts).                *)
THEOREM NothingIsMissed == Spec => []NothingMissed
<1>1. SyncInv => NothingMissed
  BY NewsReaches DEF SyncInv
<1> QED BY <1>1, SyncHolds, PTL
=============================================================================
