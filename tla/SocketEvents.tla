---------------------------- MODULE SocketEvents ----------------------------
(***************************************************************************)
(* The adapter between WhatsApp and a session (baileys/socket.ts,           *)
(* inbound.ts, updates.ts, history.ts): which of the events of the protocol *)
(* library becomes what the session is told, and by whom it was done.       *)
(*                                                                         *)
(* An act is what somebody does in one chat: a message, or an edit,         *)
(* revocation, reaction or vote about one. Each act is an envelope of its   *)
(* own. The library is external: it hands envelopes over as they come, or    *)
(* later as a sync, and says of a live edit, revocation or reaction by an   *)
(* event of its own, too, what was done.                                   *)
(***************************************************************************)
EXTENDS SequencesExt

CONSTANTS
  Messages,
  Polls,          \* the messages that are polls,
  Mine,           \* and those by the account itself
  Me, Peer, Group,
  NoParticipant,
  RecentCap,
  MaxEnvelopes,   \* bounds for model checking: on the envelopes,
  MaxPayload      \* and on those in one payload

ASSUME SocketAssumption ==
  /\ Polls \subseteq Messages
  /\ Mine \subseteq Messages
  /\ Me # Peer /\ Group \notin {Me, Peer} /\ NoParticipant \notin {Me, Peer, Group}
  /\ {RecentCap, MaxEnvelopes, MaxPayload} \subseteq Nat \ {0}

VARIABLES
  direct,     \* the chat is one to one
  order,      \* the envelopes so far, with how they came, history of the run
  announced,  \* live controls whose own event is still to come
  recent,     \* the envelopes the adapter remembers, oldest first
  published,  \* what the session is told, in order
  done        \* no more is taken in

socketVars == <<direct, order, announced, recent, published, done>>

People == {Me, Peer}
AuthorOf(m) == IF m \in Mine THEN Me ELSE Peer
Acts ==
  {[kind |-> "message", of |-> m, who |-> AuthorOf(m)] : m \in Messages}
    \cup {[kind |-> k, of |-> m, who |-> AuthorOf(m)] :
            k \in {"edit", "revoke"}, m \in Messages \ Polls}
    \cup [kind : {"reaction"}, of : Messages, who : People]
    \cup [kind : {"vote"}, of : Polls, who : People]
Original(m) == [kind |-> "message", of |-> m, who |-> AuthorOf(m)]

Ways == {"notify", "sync"}
Delivered == {order[i].act : i \in DOMAIN order}

SocketTypeOK ==
  /\ direct \in BOOLEAN /\ done \in BOOLEAN
  /\ order \in Seq([act : Acts, way : Ways, payload : Nat])
  /\ announced \subseteq Delivered
  /\ recent \in Seq(Acts) /\ Len(recent) <= RecentCap
  /\ published \in Seq([act : Acts, by : People \cup {Group}])

SocketInit ==
  /\ direct \in BOOLEAN
  /\ order = <<>> /\ announced = {} /\ recent = <<>> /\ published = <<>> /\ done = FALSE

-----------------------------------------------------------------------------
(***************************************************************************)
(* Who did it. A key names the chat, and the participant only in a group.  *)
(***************************************************************************)
KeyOf(act) ==
  [fromMe |-> act.who = Me,
   remoteJid |-> IF direct THEN Peer ELSE Group,
   participant |-> IF direct THEN NoParticipant ELSE act.who]

Named(key) == IF key.participant # NoParticipant THEN key.participant ELSE key.remoteJid

SenderOf(key) == IF key.fromMe THEN Me ELSE Named(key)

By(act) ==
  IF act.kind \in {"reaction", "revoke"} THEN Named(KeyOf(act)) ELSE SenderOf(KeyOf(act))
Told(act) == [act |-> act, by |-> By(act)]

-----------------------------------------------------------------------------
(***************************************************************************)
(* Envelopes. What is a control is no message; a vote is told only if the   *)
(* key of its poll is at hand, and the other live controls have events of   *)
(* their own.                                                              *)
(***************************************************************************)
IsControl(act) == act.kind # "message"
Readable(act, known) == act.kind = "vote" => Original(act.of) \in known

Remember(known, act) ==
  LET grown == Append(known, act) IN
  IF Len(grown) > RecentCap THEN Tail(grown) ELSE grown

Remembered(payload) == FoldLeft(Remember, recent, payload)

\* An adapter that publishes a control for its envelope too.
LiveAll(act, known) == Readable(act, known)

\* What a live payload tells of.
Live(act, known) == act.kind \in {"message", "vote"} /\ Readable(act, known)

\* What is told of those acts of a payload that are in a set, in its order.
ToldOf(payload, acts) ==
  LET tell(told, act) == IF act \in acts THEN Append(told, Told(act)) ELSE told
  IN  FoldLeft(tell, <<>>, payload)

NotifyTells(payload, known) == ToldOf(payload, {act \in Acts : Live(act, known)})

\* A sync carries its messages first, then the updates; votes are read by the
\* polls of the same payload.
SyncTells(payload) ==
  ToldOf(payload, {act \in Acts : ~IsControl(act)})
    \o ToldOf(payload, {act \in Acts : IsControl(act) /\ Readable(act, ToSet(payload))})

Push(events) == ~done /\ published' = published \o events

-----------------------------------------------------------------------------
(***************************************************************************)
(* The events of the library. A closed queue takes nothing in.              *)
(***************************************************************************)
Arrive(payload, way) ==
  /\ order' = order \o [i \in DOMAIN payload |->
                          [act |-> payload[i], way |-> way, payload |-> Len(order)]]
  /\ UNCHANGED <<direct, done>>

\* messages.upsert of type notify.
Notify(payload) ==
  /\ Arrive(payload, "notify")
  /\ recent' = Remembered(payload)
  /\ Push(NotifyTells(payload, ToSet(recent')))
  /\ announced' = announced \cup
       {act \in ToSet(payload) : act.kind \in {"edit", "revoke", "reaction"}}

\* messages.upsert of type append, for what was missed, or messaging-history.set.
Sync(payload) ==
  /\ Arrive(payload, "sync")
  /\ recent' = Remembered(payload)
  /\ Push(SyncTells(payload))
  /\ UNCHANGED announced

\* messages.update, messages.reaction.
Update(act) ==
  /\ act \in announced
  /\ announced' = announced \ {act}
  /\ Push(<<Told(act)>>)
  /\ UNCHANGED <<direct, order, recent, done>>

\* connection.update: close, after which nothing is taken in.
CloseQueue ==
  /\ ~done
  /\ done' = TRUE
  /\ UNCHANGED <<direct, order, announced, recent, published>>

Payloads ==
  {p \in SeqOf(Acts \ Delivered, MaxPayload) :
     /\ p # <<>> /\ IsInjective(p)
     /\ Len(order) + Len(p) <= MaxEnvelopes}

SocketNext ==
  \/ \E payload \in Payloads : Notify(payload) \/ Sync(payload)
  \/ \E act \in announced : Update(act)
  \/ CloseQueue

SocketSpec == SocketInit /\ [][SocketNext]_socketVars

-----------------------------------------------------------------------------
(***************************************************************************)
(* Properties.                                                             *)
(***************************************************************************)
Times(act) == Cardinality({i \in DOMAIN published : published[i].act = act})

\* The key of an act in a one-to-one chat names the peer, whoever acts in it.
TakenForPeer(act) == direct /\ act.who = Me /\ act.kind \in {"reaction", "revoke"}

\* The key of the poll that envelope i votes in was at hand: in the same sync,
\* or live among the last envelopes, counted to the end of the payload.
KeyAtHand(i) ==
  \E j \in DOMAIN order :
    /\ order[j].act = Original(order[i].act.of)
    /\ IF order[i].way = "notify"
       THEN /\ order[j].payload <= order[i].payload
            /\ \A k \in DOMAIN order :
                 order[k].payload = order[i].payload => k < j + RecentCap
       ELSE order[j].payload = order[i].payload

\* Whatever comes before the queue is closed is told once, though a live control
\* comes twice, by its envelope and by an event of its own, and a vote only by its
\* envelope, sealed with a key of its poll; and it is told as done by its author,
\* but for the reactions and revocations the account itself makes in a one-to-one
\* chat, which are told as the peer's.
EachActIsToldOnce ==
  /\ \A i \in DOMAIN order :
       LET act == order[i].act IN
       Times(act) =
         IF act \in announced \/ (act.kind = "vote" /\ ~KeyAtHand(i)) THEN 0 ELSE 1
  /\ \A i \in DOMAIN published :
       LET told == published[i] IN
       told.by = IF TakenForPeer(told.act) THEN Peer ELSE told.act.who

\* "`by` is the reactor" (model/update.ts).
ReactorIsTold ==
  \A i \in DOMAIN published :
    published[i].act.kind = "reaction" => published[i].by = published[i].act.who
=============================================================================
