---------------------------- MODULE ClientMirror ----------------------------
(***************************************************************************)
(* A client that follows one runtime: the durable mirror and its revisions, *)
(* the patches the runtime publishes, the frame loop that turns them into a *)
(* gapless stream (durableFrames, runtime.ts), and the client state they    *)
(* are committed to, with the pages an application reads into one open chat *)
(* (client.ts).                                                             *)
(*                                                                         *)
(* Content is a version: the revision that last changed a key. A key stands *)
(* for a message and for the summary record that changes with it. Keys are  *)
(* ordered, newest message highest. A frame is the revision of its patch,   *)
(* which starts from the one before; Closed is the terminal frame.          *)
(***************************************************************************)
EXTENDS Naturals, Sequences, FiniteSetsExt

CONSTANTS
  Newest,        \* messages are 1 .. Newest
  Batches,       \* the sets of keys a batch may change
  PageSize,
  MaxRevision    \* bound on the revisions committed, for model checking

Keys == 1 .. Newest

ASSUME MirrorAssumption ==
  /\ Newest \in Nat \ {0} /\ MaxRevision \in Nat
  /\ PageSize \in Nat \ {0}
  /\ Batches \subseteq (SUBSET Keys) \ {{}}

VARIABLES
  log,          \* what each revision of the mirror changed
  writer,       \* whether the runtime is the one that writes to it
  unpublished,  \* its revision that is committed and not yet published, or 0
  published,    \* the last revision it published
  follower,     \* where the frame loop is
  queued,       \* frames heard and not yet applied
  pinned,       \* revision of the snapshot being read, or 0
  aborted,      \* the client has asked the loop to end
  applied,      \* the revision the client has been brought up to
  records,      \* the summary records it holds, by version
  ready,        \* createWhatsAppClient has resolved
  following,
  closed,       \* the client has reported that nothing will follow
  chat,         \* the retained entry of the open chat
  reads         \* its page reads in flight

mirrorVars == <<log, writer, unpublished, published>>
followVars == <<follower, queued, pinned, aborted, applied>>
clientVars == <<records, ready, following, closed>>
vars == <<mirrorVars, followVars, clientVars, chat, reads>>

Closed == 0
Beyond == Newest + 1
NoChat == [number |-> 0, rows |-> [k \in Keys |-> 0], before |-> Beyond,
           older |-> "stored"]
\* An entry is an object: one created anew after a reset is another one.
NewChat(n) == [NoChat EXCEPT !.number = n]

TypeOK ==
  /\ log \in Seq(SUBSET Keys) /\ log # <<>>
  /\ writer \in {"before", "own", "after", "closed"}
  /\ unpublished \in {0, Len(log)} /\ published \in 0 .. Len(log)
  /\ follower \in {"unstarted", "reading", "looping", "hydrating", "done", "failed"}
  /\ queued \in Seq(0 .. Len(log))
  /\ pinned \in 0 .. Len(log) /\ aborted \in BOOLEAN
  /\ applied \in 0 .. Len(log)
  /\ records \in [Keys -> 0 .. Len(log)]
  /\ ready \in BOOLEAN /\ following \in BOOLEAN /\ closed \in BOOLEAN
  /\ chat \in [number : Nat, rows : [Keys -> 0 .. Len(log)], before : 1 .. Beyond,
               older : {"stored", "loading", "exhausted"}]
  /\ \A read \in reads :
       read \in [number : Nat, before : 1 .. Beyond, at : 0 .. Len(log)]
  /\ chat.older = "loading" => \E read \in reads : read.number = chat.number

Init ==
  /\ log \in {<<b>> : b \in Batches}
  /\ writer = "before" /\ unpublished = 0 /\ published = 0
  /\ follower = "unstarted" /\ queued = <<>> /\ pinned = 0 /\ aborted = FALSE
  /\ applied = 0
  /\ records = [k \in Keys |-> 0]
  /\ ready = FALSE /\ following = TRUE /\ closed = FALSE
  /\ chat = NoChat /\ reads = {}

-----------------------------------------------------------------------------
(***************************************************************************)
(* The mirror. Until the runtime has announced its claim, and after it was *)
(* superseded, others commit and it publishes nothing. Its own session      *)
(* hands it one observation at a time, so it has at most one commit that is *)
(* not yet published.                                                      *)
(***************************************************************************)
Version(k, revision) == Max({0} \cup {i \in 1 .. revision : k \in log[i]})
MirrorAt(revision) == [k \in Keys |-> Version(k, revision)]

\* A loop that listens only once it has its snapshot.
ListeningOnceRead == follower = "looping"

Listening == follower \in {"reading", "looping"}

Commit ==
  /\ Len(log) < MaxRevision /\ unpublished = 0
  /\ \E b \in Batches : log' = Append(log, b)
  /\ unpublished' = IF writer = "own" THEN Len(log') ELSE 0
  /\ UNCHANGED <<writer, published, followVars, clientVars, chat, reads>>

Publish ==
  /\ unpublished # 0
  /\ published' = unpublished /\ unpublished' = 0
  /\ queued' = IF Listening THEN Append(queued, unpublished) ELSE queued
  /\ UNCHANGED <<log, writer, follower, pinned, aborted, applied, clientVars,
                 chat, reads>>

\* The runtime claims the account; later it loses it, or the answer to a
\* commit, and publishes nothing more.
Claim ==
  /\ writer = "before"
  /\ writer' = "own"
  /\ UNCHANGED <<log, unpublished, published, followVars, clientVars, chat, reads>>

Lose ==
  /\ writer = "own"
  /\ writer' = "after" /\ unpublished' = 0
  /\ UNCHANGED <<log, published, followVars, clientVars, chat, reads>>

\* The terminal frame, and no listener after it.
Close ==
  /\ writer # "closed" /\ unpublished = 0
  /\ writer' = "closed"
  /\ queued' = IF Listening THEN Append(queued, Closed) ELSE queued
  /\ UNCHANGED <<log, unpublished, published, follower, pinned, aborted, applied,
                 clientVars, chat, reads>>

-----------------------------------------------------------------------------
(***************************************************************************)
(* The client state. A snapshot replaces it: it carries no messages, so    *)
(* the open chat is forgotten. A patch adds to it, and reaches a message    *)
(* only where its chat is retained.                                        *)
(***************************************************************************)
Replace(revision) ==
  /\ applied' = revision
  /\ records' = MirrorAt(revision)
  /\ chat' = NoChat

Merge(old, revision) == [k \in Keys |-> IF k \in log[revision] THEN revision ELSE old[k]]

Retained == chat.number # 0

Apply(revision) ==
  /\ applied' = revision
  /\ records' = Merge(records, revision)
  /\ chat' = IF Retained
             THEN [chat EXCEPT !.rows = Merge(chat.rows, revision)] ELSE chat

\* Following has ended: no read can land any more.
Ended(entry) == IF entry.older = "loading" THEN [entry EXCEPT !.older = "stored"] ELSE entry

-----------------------------------------------------------------------------
(***************************************************************************)
(* The frame loop. It listens before it reads the first snapshot; it reads *)
(* another one over a gap. A read it waits for loses to the terminal frame *)
(* and to the abort.                                                       *)
(***************************************************************************)
HeardClosed == \E i \in DOMAIN queued : queued[i] = Closed

FollowOnly == UNCHANGED <<mirrorVars, reads>>

\* A runtime that does not hand its terminal frame to a late listener.
BeginUnheard ==
  /\ follower = "unstarted"
  /\ follower' = "reading"
  /\ FollowOnly
  /\ UNCHANGED <<queued, pinned, aborted, applied, clientVars, chat>>

\* A runtime that has closed already hands over its terminal frame at once.
Begin ==
  /\ follower = "unstarted"
  /\ follower' = IF writer = "closed" THEN "hydrating" ELSE "reading"
  /\ closed' = (writer = "closed")
  /\ FollowOnly
  /\ UNCHANGED <<queued, pinned, aborted, applied, records, ready, following, chat>>

\* The store answers from one revision.
Pin ==
  /\ follower \in {"reading", "hydrating"} /\ pinned = 0
  /\ pinned' = Len(log)
  /\ FollowOnly
  /\ UNCHANGED <<follower, queued, aborted, applied, clientVars, chat>>

SnapshotArrives ==
  /\ follower = "reading" /\ pinned # 0 /\ ~HeardClosed /\ ~aborted
  /\ follower' = "looping" /\ pinned' = 0 /\ ready' = TRUE
  /\ Replace(pinned)
  /\ FollowOnly
  /\ UNCHANGED <<queued, aborted, following, closed>>

\* The rest of the frames go with the loop.
LoopEnds ==
  /\ follower' = "done" /\ pinned' = 0 /\ queued' = <<>>

\* The terminal frame ends the wait. The client of a runtime that closed during
\* its first read takes the snapshot by itself.
ReadInterrupted ==
  /\ follower = "reading" /\ HeardClosed /\ ~aborted
  /\ closed' = TRUE
  /\ IF ready THEN LoopEnds
     ELSE follower' = "hydrating" /\ pinned' = 0 /\ queued' = <<>>
  /\ FollowOnly
  /\ UNCHANGED <<aborted, applied, records, ready, following, chat>>

\* A read that rejects ends the following, and says so.
ReadRejects ==
  /\ follower = "reading" /\ ~HeardClosed /\ ~aborted
  /\ IF ready
     THEN /\ LoopEnds
          /\ closed' = TRUE /\ following' = FALSE /\ chat' = Ended(chat)
     ELSE /\ follower' = "failed" /\ pinned' = 0 /\ queued' = <<>>
          /\ UNCHANGED <<closed, following, chat>>
  /\ FollowOnly
  /\ UNCHANGED <<aborted, applied, records, ready>>

Hydrated ==
  /\ follower = "hydrating"
  /\ \/ pinned # 0 /\ Replace(pinned) /\ ready' = TRUE /\ follower' = "done"
     \/ follower' = "failed" /\ UNCHANGED <<applied, records, chat, ready>>
  /\ pinned' = 0
  /\ FollowOnly
  /\ UNCHANGED <<queued, aborted, following, closed>>

Looping == follower = "looping" /\ ~aborted /\ queued # <<>>

\* A repeat, or a change the snapshot carried.
FrameSkipped ==
  /\ Looping /\ queued[1] # Closed /\ queued[1] <= applied
  /\ queued' = Tail(queued)
  /\ FollowOnly
  /\ UNCHANGED <<follower, pinned, aborted, applied, clientVars, chat>>

\* A loop that applies a patch over a missing one.
FrameAppliedRegardless ==
  /\ Looping /\ queued[1] > applied
  /\ queued' = Tail(queued)
  /\ Apply(queued[1])
  /\ FollowOnly
  /\ UNCHANGED <<follower, pinned, aborted, ready, following, closed>>

FrameApplied ==
  /\ Looping /\ queued[1] = applied + 1
  /\ queued' = Tail(queued)
  /\ Apply(queued[1])
  /\ FollowOnly
  /\ UNCHANGED <<follower, pinned, aborted, ready, following, closed>>

\* A patch from a revision the client is not at.
FrameAhead ==
  /\ Looping /\ queued[1] > applied + 1
  /\ queued' = Tail(queued)
  /\ follower' = "reading"
  /\ FollowOnly
  /\ UNCHANGED <<pinned, aborted, applied, clientVars, chat>>

FrameClosed ==
  /\ Looping /\ queued[1] = Closed
  /\ closed' = TRUE
  /\ LoopEnds
  /\ FollowOnly
  /\ UNCHANGED <<aborted, applied, records, ready, following, chat>>

LoopAborted ==
  /\ follower \in {"reading", "looping"} /\ aborted
  /\ LoopEnds
  /\ FollowOnly
  /\ UNCHANGED <<aborted, applied, clientVars, chat>>

Follow ==
  \/ Begin \/ Pin \/ SnapshotArrives \/ ReadInterrupted \/ Hydrated
  \/ FrameSkipped \/ FrameApplied \/ FrameAhead \/ FrameClosed \/ LoopAborted

-----------------------------------------------------------------------------
(***************************************************************************)
(* The application: it opens the chat, pages it, and closes the client.    *)
(***************************************************************************)
AppOnly == UNCHANGED <<mirrorVars, follower, queued, pinned, applied, records,
                       ready, closed>>

\* Entries are numbered by the reset they follow, so a new one is a new object.
Numbers == 1 .. MaxRevision + 1
Fresh(n) ==
  /\ n \in Numbers /\ \A read \in reads : read.number # n
  /\ \A m \in Numbers : m < n => \E read \in reads : read.number = m

\* messages.get(): an entry is made for the chat, and patches reach it.
OpenChat ==
  /\ ready /\ ~Retained
  /\ \E n \in Numbers : Fresh(n) /\ chat' = NewChat(n)
  /\ AppOnly
  /\ UNCHANGED <<aborted, following, reads>>

\* messages.older(): one read at a time for an entry.
Older ==
  /\ following /\ Retained /\ chat.older = "stored"
  /\ chat' = [chat EXCEPT !.older = "loading"]
  /\ reads' = reads \cup {[number |-> chat.number, before |-> chat.before, at |-> 0]}
  /\ AppOnly
  /\ UNCHANGED <<aborted, following>>

\* The store answers from one revision.
PageRead(read) ==
  /\ read.at = 0
  /\ reads' = (reads \ {read}) \cup {[read EXCEPT !.at = Len(log)]}
  /\ AppOnly
  /\ UNCHANGED <<aborted, following, chat>>

\* The newest stored messages older than the cursor, and whether there are more.
Stored(read) == {k \in 1 .. read.before - 1 : Version(k, read.at) # 0}
Page(read) ==
  {k \in Stored(read) : Cardinality({m \in Stored(read) : m > k}) < PageSize}

\* A page that overwrites what patches brought while it was read.
FilledOver(entry, read) ==
  [entry EXCEPT
     !.rows   = [k \in Keys |-> IF k \in Page(read) THEN Version(k, read.at)
                                ELSE entry.rows[k]],
     !.before = IF Page(read) = Stored(read) THEN Beyond ELSE Min(Page(read)),
     !.older  = IF Page(read) = Stored(read) THEN "exhausted" ELSE "stored"]

\* A page may only insert.
Filled(entry, read) ==
  [entry EXCEPT
     !.rows   = [k \in Keys |-> IF k \in Page(read) /\ entry.rows[k] = 0
                                THEN Version(k, read.at) ELSE entry.rows[k]],
     !.before = IF Page(read) = Stored(read) THEN Beyond ELSE Min(Page(read)),
     !.older  = IF Page(read) = Stored(read) THEN "exhausted" ELSE "stored"]

\* A page that lands by the name of its chat.
IntoWhateverIsOpen(read) == following /\ Retained

\* A page lands in the entry it was read for, if that is still the one.
Into(read) == following /\ chat.number = read.number

PageLands(read) ==
  /\ read.at # 0
  /\ reads' = reads \ {read}
  /\ chat' = IF Into(read) THEN Filled(chat, read) ELSE chat
  /\ AppOnly
  /\ UNCHANGED <<aborted, following>>

PageFails(read) ==
  /\ reads' = reads \ {read}
  /\ chat' = IF Into(read) THEN [chat EXCEPT !.older = "stored"] ELSE chat
  /\ AppOnly
  /\ UNCHANGED <<aborted, following>>

\* client.close(): what was loading has ended.
CloseClient ==
  /\ ready /\ ~aborted
  /\ aborted' = TRUE /\ following' = FALSE
  /\ chat' = Ended(chat)
  /\ AppOnly
  /\ UNCHANGED reads

Paging == \E read \in reads : PageRead(read) \/ PageLands(read)

Next ==
  \/ Commit \/ Publish \/ Claim \/ Lose \/ Close
  \/ Follow \/ ReadRejects
  \/ OpenChat \/ Older \/ CloseClient
  \/ \E read \in reads : PageRead(read) \/ PageLands(read) \/ PageFails(read)

Spec == Init /\ [][Next]_vars

(***************************************************************************)
(* Fairness: a read of the store settles, and the loop is awaited by the   *)
(* client all along.                                                       *)
(***************************************************************************)
LiveSpec ==
  /\ Spec
  /\ WF_vars(Publish) /\ WF_vars(Follow) /\ WF_vars(Paging)

-----------------------------------------------------------------------------
(***************************************************************************)
(* Properties.                                                             *)
(***************************************************************************)
\* "nothing may be silently skipped": whatever was missed, buffered or read
\* meanwhile, what a hydrated client holds is the mirror as of one revision.
ViewIsARevision == ready => records = MirrorAt(applied)

\* A page that was in flight never takes a message back: nothing shown is older
\* than the revision the client has been brought up to.
NeverBehind ==
  \A k \in Keys : chat.rows[k] # 0 => chat.rows[k] >= Version(k, applied)

\* Paging leaves no hole: of what the mirror held at the client's revision,
\* everything from the cursor on is shown, and everything once it is exhausted.
NoHole ==
  Retained =>
    \A k \in Keys :
      /\ Version(k, applied) # 0
      /\ chat.older = "exhausted" \/ (chat.before # Beyond /\ k >= chat.before)
      => chat.rows[k] # 0

\* A client that follows catches up with whatever the runtime has published,
\* whether its frames came before, during or after a read.
Over == closed \/ ~following \/ follower \in {"unstarted", "failed"}

CatchesUp == (applied < published) ~> (applied >= published \/ Over)

\* No watcher is left waiting when the runtime has stopped consuming.
ClosureIsHeard == (writer = "closed") ~> Over
=============================================================================
