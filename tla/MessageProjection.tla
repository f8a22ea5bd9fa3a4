-------------------------- MODULE MessageProjection --------------------------
(***************************************************************************)
(* How messages, what happens to them later, chats, groups and the account *)
(* itself are projected (projection.ts). No chat and no message is related *)
(* to another one by the projection: the model has one chat, a group's,    *)
(* and one message in it.                                                  *)
(*                                                                         *)
(* An instant of 0 is an absent one. A content is a text or a poll, whose  *)
(* voters are listed per option in the order of their votes.               *)
(***************************************************************************)
EXTENDS Naturals, SequencesExt

CONSTANTS
  Texts,      \* contents of text messages
  Options,    \* of the poll
  People,     \* who votes, or is in the group
  Readers,    \* who reads, reacts, or revokes
  Roles,      \* in the group
  Emojis,
  Subjects,   \* names of the group
  LastInstant \* bounds the instants observed

Some(set) == set \cup {"none"}

Text(t) == [kind |-> "text", of |-> t]
Poll == [kind |-> "poll", of |-> [voted |-> FALSE, voters |-> [x \in Options |-> <<>>]]]
Revoked(by) == [kind |-> "revoked", of |-> by]
Contents == {Text(t) : t \in Texts} \cup {Poll}

NoMessage ==
  [content |-> [kind |-> "none", of |-> "none"], edited |-> 0,
   receipts |-> [x \in Readers |-> "none"], reactions |-> [x \in Readers |-> "none"]]
Fresh(content) == [NoMessage EXCEPT !.content = content]

NoChat == [known |-> FALSE, subject |-> "none", at |-> 0]

\* A roster that was never listed is unknown, which is not empty.
NoRoster == [listed |-> FALSE, roles |-> [x \in People |-> "none"]]
NoGroup == [known |-> FALSE, subject |-> "none", roster |-> NoRoster]

NoAccount == [connected |-> 0, disconnected |-> 0]

Later(s, t) == IF s < t THEN t ELSE s

\* Writes a record of the mirror and of the patch, unless it says nothing new.
Upsert(w, record, value) ==
  IF w.now[record] = value THEN w
  ELSE [now |-> [w.now EXCEPT ![record] = value],
        patch |-> [w.patch EXCEPT ![record] = value,
                                  !.written = @ \cup {record}]]

\* What waits for the message is no part of a patch.
SetPending(w, updates) == [w EXCEPT !.now.pending = updates]

(***************************************************************************)
(* Chats, groups, connection.                                              *)
(***************************************************************************)
\* A chat as last observed, except that its last message is never an earlier.
ProjectChat(w, subject, at) ==
  LET chat == w.now.chat IN
  Upsert(w, "chat", [known   |-> TRUE,
                     subject |-> IF subject = "none" THEN chat.subject ELSE subject,
                     at      |-> Later(chat.at, at)])

ProjectGroup(w, subject, roster) ==
  LET group == w.now.group IN
  Upsert(w, "group", [known   |-> TRUE,
                      subject |-> IF subject = "none" THEN group.subject ELSE subject,
                      roster  |-> IF roster.listed THEN roster ELSE group.roster])

\* A chat of a history sync, which for a group says what is known of it.
ProjectSyncedChat(w, subject, at, roster) ==
  ProjectGroup(ProjectChat(w, subject, at), subject, roster)

\* A roster that is not known is not made up from who joins it.
RosterAfter(roster, who, role) ==
  IF roster.listed THEN [roster EXCEPT !.roles[who] = role] ELSE roster

ProjectParticipants(w, who, role) ==
  ProjectGroup(w, "none", RosterAfter(w.now.group.roster, who, role))

\* A metadata update that names the group names its chat too.
ProjectMetadata(w, subject, roster) ==
  LET grouped == ProjectGroup(w, subject, roster)
  IN  IF subject = "none" THEN grouped ELSE ProjectChat(grouped, subject, 0)

ProjectConnection(w, end, at) ==
  Upsert(w, "account", [w.now.account EXCEPT ![end] = Later(@, at)])

(***************************************************************************)
(* What happens to a message.                                              *)
(***************************************************************************)
Updates ==
  [kind : {"receipt"}, by : Readers, status : {"delivered", "read"}]
    \cup [kind : {"reaction"}, by : Readers, emoji : Emojis \cup {"removed", "none"}]
    \cup [kind : {"vote"}, by : People, selected : SUBSET Options]
    \cup [kind : {"edit"}, content : Contents, at : {0, LastInstant}]
    \cup [kind : {"revoke"}, by : Readers]

\* Each vote replaces the voter's earlier one, and goes to the end.
AfterVote(poll, by, selected) ==
  [voted  |-> TRUE,
   voters |-> [x \in Options |->
                 LET others == SelectSeq(poll.voters[x], LAMBDA v : v # by)
                 IN  IF x \in selected THEN Append(others, by) ELSE others]]

AfterReaction(reactions, by, emoji) ==
  CASE emoji = "none"    -> reactions
    [] emoji = "removed" -> [reactions EXCEPT ![by] = "none"]
    [] OTHER             -> [reactions EXCEPT ![by] = emoji]

\* The record of a message after an update: an edit replaces the content, poll
\* and votes included, and neither edits nor votes reach what was revoked.
Updated(r, u) ==
  CASE u.kind = "receipt"  -> [r EXCEPT !.receipts[u.by] = u.status]
    [] u.kind = "reaction" ->
         [r EXCEPT !.reactions = AfterReaction(@, u.by, u.emoji)]
    [] u.kind = "vote" /\ r.content.kind = "poll" ->
         [r EXCEPT !.content.of = AfterVote(@, u.by, u.selected)]
    [] u.kind = "edit" /\ r.content.kind # "revoked" ->
         [r EXCEPT !.content = u.content, !.edited = IF u.at = 0 THEN @ ELSE u.at]
    [] u.kind = "revoke" -> [r EXCEPT !.content = Revoked(u.by)]
    [] OTHER -> r

\* The newest update first.
ProjectUpdateNewestFirst(w, u) ==
  IF w.now.message = NoMessage
  THEN SetPending(w, <<u>> \o w.now.pending)
  ELSE Upsert(w, "message", Updated(w.now.message, u))

\* An update of a message not yet seen waits for it.
ProjectUpdate(w, u) ==
  IF w.now.message = NoMessage
  THEN SetPending(w, Append(w.now.pending, u))
  ELSE Upsert(w, "message", Updated(w.now.message, u))

\* A message that is there stays as it became; one that is not takes what
\* waited for it, in the order in which it came.
Landed(w, content) ==
  IF w.now.message # NoMessage THEN w
  ELSE SetPending(
         Upsert(w, "message", FoldLeft(Updated, Fresh(content), w.now.pending)), <<>>)

ProjectMessage(w, content, at) == ProjectChat(Landed(w, content), "none", at)
=============================================================================
