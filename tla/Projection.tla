----------------------------- MODULE Projection -----------------------------
(***************************************************************************)
(* The current mirror of one account: events come in batches, a batch is   *)
(* projected event by event over the mirror, and is accepted with all its  *)
(* mutations in one transaction or refused with none. Who follows applies  *)
(* the patch: upserts, then deletes, then aliases (client.ts).             *)
(*                                                                         *)
(* The chats, contacts, messages and updates of a conversation sync are    *)
(* projected one after another; each is an event here.                     *)
(***************************************************************************)
EXTENDS ContactProjection, MessageProjection

CONSTANTS
  MaxBatch,    \* bounds for model checking: the events of a batch,
  MaxPending   \* and the updates waiting for a message

ASSUME ProjectionAssumption ==
  /\ {MaxBatch, MaxPending} \subseteq Nat
  /\ LastInstant = MaxInstant

VARIABLES
  mirror,    \* what is committed
  work,      \* the batch under projection: the mirror as it becomes, the patch
  batched,   \* how many events it has projected
  follower   \* the records of one who applies the patches

vars == <<mirror, work, batched, follower>>

EmptyMirror ==
  [contacts |-> [c \in NativeIds |-> NoContact],
   owner    |-> [f \in NativeIds |-> Nobody],
   account  |-> NoAccount, chat |-> NoChat, group |-> NoGroup,
   message  |-> NoMessage, pending |-> <<>>]

EmptyPatch ==
  [contacts |-> [c \in NativeIds |-> NoContact],
   deleted  |-> {}, freed |-> {},
   aliases  |-> [f \in NativeIds |-> Nobody],
   written  |-> {},
   account  |-> NoAccount, chat |-> NoChat, group |-> NoGroup,
   message  |-> NoMessage]

Visible(m) ==
  [contacts |-> m.contacts, owner |-> m.owner, account |-> m.account,
   chat |-> m.chat, group |-> m.group, message |-> m.message]

Init ==
  /\ mirror = EmptyMirror
  /\ work = [now |-> EmptyMirror, patch |-> EmptyPatch]
  /\ batched = 0
  /\ follower = Visible(EmptyMirror)

-----------------------------------------------------------------------------
(***************************************************************************)
(* Events. The address of a contact, and of a message's sender, comes in   *)
(* its forms; a sender with one form is no contact.                        *)
(***************************************************************************)
Observation(forms, profile) ==
  [id |-> forms[1], forms |-> forms, profile |-> profile, seen |-> 0]

Rosters ==
  {NoRoster}
    \cup [listed : {TRUE}, roles : [People -> Some(Roles)]]

ContactEvents ==
  [type : {"contact"}, forms : Forms, profile : Profiles \cup {NoProfile}]
LastSeenEvents == [type : {"last_seen"}, form : NativeIds, at : Instants]
ConnectionEvents ==
  [type : {"connection"}, end : {"connected", "disconnected"}, at : Instants]
MessageEvents ==
  [type : {"message"}, sender : {f \in Forms : DOMAIN f # 1 .. 3},
   content : Contents, at : Instants]
UpdateEvents == [type : {"update"}, update : Updates]
ChatEvents ==
  [type : {"chat"}, subject : Some(Subjects), at : 0 .. MaxInstant,
   roster : Rosters]
MetadataEvents ==
  [type : {"metadata"}, subject : Some(Subjects), roster : Rosters]
ParticipantEvents ==
  [type : {"participants"}, who : People, role : Some(Roles)]

Sender(w, forms) ==
  IF DOMAIN forms = {1} THEN w ELSE ProjectContact(w, Observation(forms, NoProfile))

Project(w, e) ==
  CASE e.type = "contact"      -> ProjectContact(w, Observation(e.forms, e.profile))
    [] e.type = "last_seen"    -> ProjectLastSeen(w, e.form, e.at)
    [] e.type = "connection"   -> ProjectConnection(w, e.end, e.at)
    [] e.type = "message"      -> ProjectMessage(Sender(w, e.sender), e.content, e.at)
    [] e.type = "update"       -> ProjectUpdate(w, e.update)
    [] e.type = "chat"         -> ProjectSyncedChat(w, e.subject, e.at, e.roster)
    [] e.type = "metadata"     -> ProjectMetadata(w, e.subject, e.roster)
    [] e.type = "participants" -> ProjectParticipants(w, e.who, e.role)

-----------------------------------------------------------------------------
\* One event of the batch.
Observe(e) ==
  /\ batched < MaxBatch
  /\ work' = Project(work, e)
  /\ Len(work'.now.pending) <= MaxPending
  /\ batched' = batched + 1
  /\ UNCHANGED <<mirror, follower>>

\* What a follower holds after a patch. A delete takes away what resolved to
\* the contact, and the aliases that come after it point it elsewhere.
Patched(f, p) ==
  [contacts |-> [c \in NativeIds |->
                   IF c \in p.deleted THEN NoContact
                   ELSE IF p.contacts[c] # NoContact THEN p.contacts[c]
                   ELSE f.contacts[c]],
   owner    |-> [x \in NativeIds |->
                   IF p.aliases[x] # Nobody THEN p.aliases[x]
                   ELSE IF x \in p.freed THEN Nobody ELSE f.owner[x]],
   account  |-> IF "account" \in p.written THEN p.account ELSE f.account,
   chat     |-> IF "chat" \in p.written THEN p.chat ELSE f.chat,
   group    |-> IF "group" \in p.written THEN p.group ELSE f.group,
   message  |-> IF "message" \in p.written THEN p.message ELSE f.message]

\* The batch commits, and its patch is followed if it took a revision.
Accept ==
  /\ batched > 0
  /\ mirror' = work.now
  /\ work' = [work EXCEPT !.patch = EmptyPatch]
  /\ batched' = 0
  /\ follower' = IF work.patch = EmptyPatch THEN follower
                 ELSE Patched(follower, work.patch)

\* An event the projection does not know, a stale claim or a failing store
\* leaves nothing behind.
Refuse ==
  /\ batched > 0
  /\ work' = [now |-> mirror, patch |-> EmptyPatch]
  /\ batched' = 0
  /\ UNCHANGED <<mirror, follower>>

\* One event more.
Observing ==
  \/ \E e \in ContactEvents : Observe(e)
  \/ \E e \in LastSeenEvents : Observe(e)
  \/ \E e \in ConnectionEvents : Observe(e)
  \/ \E e \in MessageEvents : Observe(e)
  \/ \E e \in UpdateEvents : Observe(e)
  \/ \E e \in ChatEvents : Observe(e)
  \/ \E e \in MetadataEvents : Observe(e)
  \/ \E e \in ParticipantEvents : Observe(e)

Next == Observing \/ Accept \/ Refuse

Spec == Init /\ [][Next]_vars

-----------------------------------------------------------------------------
(***************************************************************************)
(* Properties.                                                             *)
(***************************************************************************)
\* Records are of their kind; updates wait only for a message not yet there.
MirrorOK(m) ==
  /\ m.contacts \in [NativeIds -> Contacts]
  /\ m.owner \in [NativeIds -> NativeIds \cup {Nobody}]
  /\ m.pending \in Seq(Updates)
  /\ m.message # NoMessage => m.pending = <<>>
  /\ m.group.roster \in Rosters
  /\ m.chat.at \in 0 .. MaxInstant

TypeOK ==
  /\ MirrorOK(mirror) /\ MirrorOK(work.now)
  /\ batched \in 0 .. MaxBatch

\* Address resolution and the contacts agree: an address resolves to a contact
\* exactly when that contact exists and owns it. So no alias dangles, no
\* address is owned twice and no contact is out of reach, however often contacts
\* were joined.
Resolved(m) ==
  \A f, c \in NativeIds : m.owner[f] = c <=> f \in m.contacts[c].ids

OneOwner == Resolved(mirror) /\ Resolved(work.now)

\* Who follows the patches holds what a snapshot would tell, though a patch
\* forgets the order in which its batch wrote, deleted and re-pointed.
FollowerIsCurrent == follower = Visible(mirror)

\* Contacts are the classes of the addresses observed together, under the name
\* ADR-0022 says they keep.
Resolution == INSTANCE AddressResolution
  WITH owner <- work.now.owner, settled <- mirror.owner, Observed <- Forms
ImplementsResolution == Resolution!Spec

\* An update that comes before its message is worth as much as one that comes
\* after: in either order the message ends up the same. What is committed is
\* looked at once, as its batch commits.
LateMessageLosesNothing ==
  batched = 0 /\ mirror.message = NoMessage =>
    LET w == [now |-> mirror, patch |-> EmptyPatch] IN
    \A u \in Updates : \A content \in Contents :
      Landed(ProjectUpdate(w, u), content) = ProjectUpdate(Landed(w, content), u)

\* Everything the Session may deliver to the projection.
Events ==
  UNION {ContactEvents, LastSeenEvents, ConnectionEvents, MessageEvents,
         UpdateEvents, ChatEvents, MetadataEvents, ParticipantEvents}

\* What is recorded as the latest never becomes an earlier one, also not for an
\* address whose contact was joined with another; what was revoked stays so.
Seen(m, f) == m.contacts[m.owner[f]].seen

NothingComesBack ==
  [][/\ \A f \in NativeIds :
          mirror.owner[f] # Nobody =>
            mirror'.owner[f] # Nobody /\ Seen(mirror', f) >= Seen(mirror, f)
     /\ mirror'.chat.at >= mirror.chat.at
     /\ \A end \in {"connected", "disconnected"} :
          mirror'.account[end] >= mirror.account[end]
     /\ mirror.message.content.kind = "revoked"
          => mirror'.message.content.kind = "revoked"]_vars
=============================================================================
