-------------------------- MODULE ClientOperations --------------------------
(***************************************************************************)
(* The operations of a client (client-operations.ts, client.ts): a call is *)
(* submitted under an idempotency key, its media staged first; the client  *)
(* keeps the newest receipt it has heard of, from its first list, from     *)
(* announced changes and from the answers of its own calls; waits settle   *)
(* on it. The store is what OperationStore promises: receipts that move     *)
(* along, each change with the next revision. A copy of a receipt is the   *)
(* number of its revision; 0 is no receipt.                                *)
(***************************************************************************)
EXTENDS Naturals, Sequences, FiniteSets, MediaStore

CONSTANTS
  Operations,
  Calls,        \* calls of the application, Writers where they carry media
  Contents,     \* what a call asks for
  OperationOf,  \* the operation a call's idempotency key stands for
  ContentOf,
  NoContent,
  MaxCalls,     \* bound on the calls one process makes, for model checking
  MaxCrashes    \* and on its crashes

ObjectOf(c) == <<OperationOf[c], ContentOf[c]>>

ASSUME CallsAssumption ==
  /\ OperationOf \in [Calls -> Operations]
  /\ ContentOf \in [Calls -> Contents]
  /\ NoContent \notin Contents
  /\ Writers \subseteq Calls
  \* What a call asks for names its media, so calls for the same carry it alike.
  /\ \A w \in Writers, c \in Calls : ContentOf[c] = ContentOf[w] => c \in Writers
  /\ \A w \in Writers : ObjectOf(w) \in Objects
  /\ MaxCalls \in Nat /\ MaxCrashes \in Nat

VARIABLES
  history,   \* the receipts of each operation in the store, by revision
  content,   \* what each operation was submitted for
  phase,     \* where the client is in its life
  listed,    \* what the first list will answer, once the store has read it
  early,   \* changes heard before the list, by operation
  held,      \* the receipts of the client
  stage,     \* where each call is
  answer,    \* the copy it was answered with
  outcome,   \* how it ended
  waiting,   \* operations that wait() waits for
  told,      \* the newest copy the client was given, by whatever way
  crashes

storeVars  == <<history, content>>
holdVars == <<phase, listed, early, held, waiting, told>>
callVars   == <<stage, answer, outcome>>
operationVars == <<storeVars, holdVars, callVars, crashes, mediaVars>>

None == 0
NotRead == [o \in Operations |-> None]

StagingStages == {"consuming", "complete", "synced", "linked", "cleaning", "unwinding"}
Stages == StagingStages
  \cup {"idle", "submitting", "committed", "recovering", "fetched", "done"}

\* Which verdict it is makes no difference here.
Receipts == [status : {"queued", "executing", "verdict"}, acknowledged : BOOLEAN]
Copies(o) == None .. Len(history[o])

OperationsTypeOK ==
  /\ MediaTypeOK
  /\ history \in [Operations -> Seq(Receipts)]
  /\ content \in [Operations -> Contents \cup {NoContent}]
  /\ \A o \in Operations : history[o] = <<>> <=> content[o] = NoContent
  /\ phase \in {"listing", "read", "open", "stopping", "closed", "failed", "down"}
  /\ \A copy \in {listed, early, held, told} : DOMAIN copy = Operations
  /\ \A o \in Operations :
       /\ {listed[o], early[o], held[o], told[o]} \subseteq Copies(o)
       /\ held[o] <= told[o]
  /\ stage \in [Calls -> Stages]
  /\ \A w \in Writers : temporary[w] # "none" <=> stage[w] \in StagingStages
  /\ answer \in [Calls -> Nat]
  /\ outcome \in [Calls -> {"none", "receipt", "aborted", "failed"}]
  /\ waiting \in SUBSET Operations
  /\ crashes \in 0 .. MaxCrashes

OperationsInit ==
  /\ MediaInit
  /\ history = [o \in Operations |-> <<>>]
  /\ content = [o \in Operations |-> NoContent]
  /\ phase = "down"
  /\ listed = NotRead /\ early = NotRead /\ held = NotRead /\ told = NotRead
  /\ stage = [c \in Calls |-> "idle"]
  /\ answer = [c \in Calls |-> None]
  /\ outcome = [c \in Calls |-> "none"]
  /\ waiting = {}
  /\ crashes = 0

Latest(o) == Len(history[o])
StatusOf(o, copy) == history[o][copy].status
Settled(receipts, copy) == copy # None /\ receipts[copy].status = "verdict"
Terminal(o, copy) == Settled(history[o], copy)

-----------------------------------------------------------------------------
(***************************************************************************)
(* What the client makes of a copy. retainOperation(): only a newer one is *)
(* kept, and its listeners, the waits among them, are told at once.        *)
(***************************************************************************)
Newer(old, new) == IF old >= new THEN old ELSE new

Retain(o, copy, receipts) ==
  /\ held' = [held EXCEPT ![o] = Newer(@, copy)]
  /\ told' = [told EXCEPT ![o] = Newer(@, copy)]
  /\ waiting' = IF Settled(receipts, held'[o]) THEN waiting \ {o} ELSE waiting

Hydrating == phase \in {"listing", "read"}

\* It subscribes before it asks for the list.
Subscribed == Hydrating \/ phase = "open"

\* A change announced in the client's process; while the first list is under way
\* it is held back.
Hear(o, receipts) ==
  IF Subscribed /\ phase = "open"
  THEN Retain(o, Len(receipts), receipts) /\ UNCHANGED early
  ELSE /\ early' = IF Subscribed THEN [early EXCEPT ![o] = Len(receipts)] ELSE early
       /\ told' = IF Hydrating THEN [told EXCEPT ![o] = Len(receipts)] ELSE told
       /\ UNCHANGED <<held, waiting>>

\* A receipt of the store moves on.
Becomes(o, receipt) ==
  /\ history' = [history EXCEPT ![o] = Append(@, receipt)]
  /\ Hear(o, history'[o])

-----------------------------------------------------------------------------
(***************************************************************************)
(* The store, moved by executors of this process, which announce it here,  *)
(* and of others, which do not.                                            *)
(***************************************************************************)
Moves(status) ==
  CASE status = "queued"    -> {"executing", "verdict"}
    [] status = "executing" -> {"verdict"}
    [] OTHER                -> {}

StoreOnly == UNCHANGED <<content, phase, listed, callVars, crashes, mediaVars>>

Executed(o) ==
  /\ Latest(o) # None
  /\ \E s \in Moves(StatusOf(o, Latest(o))) :
       Becomes(o, [status |-> s, acknowledged |-> FALSE])
  /\ StoreOnly

ExecutedElsewhere(o) ==
  /\ Latest(o) # None
  /\ \E s \in Moves(StatusOf(o, Latest(o))) :
       history' = [history EXCEPT ![o] = Append(@, [status |-> s, acknowledged |-> FALSE])]
  /\ StoreOnly
  /\ UNCHANGED <<early, held, told, waiting>>

-----------------------------------------------------------------------------
(***************************************************************************)
(* Creation and close. The client hears changes before it asks for the     *)
(* list, and holds them back until the list is in.                         *)
(***************************************************************************)
ClientOnly == UNCHANGED <<storeVars, callVars, crashes, mediaVars>>

Create ==
  /\ phase = "down"
  /\ phase' = "listing"
  /\ ClientOnly
  /\ UNCHANGED <<listed, early, held, waiting, told>>

\* The store answers from one moment.
ListRead ==
  /\ phase = "listing"
  /\ phase' = "read"
  /\ listed' = [o \in Operations |-> Latest(o)]
  /\ ClientOnly
  /\ UNCHANGED <<early, held, waiting, told>>

\* A client that forgets what it heard meanwhile.
ListAlone ==
  /\ phase = "read"
  /\ phase' = "open"
  /\ held' = listed
  /\ told' = [o \in Operations |-> Newer(told[o], listed[o])]
  /\ listed' = NotRead /\ early' = NotRead
  /\ ClientOnly
  /\ UNCHANGED waiting

ListArrives ==
  /\ phase = "read"
  /\ phase' = "open"
  /\ held' = [o \in Operations |-> Newer(listed[o], early[o])]
  /\ told' = [o \in Operations |-> Newer(told[o], listed[o])]
  /\ listed' = NotRead /\ early' = NotRead
  /\ ClientOnly
  /\ UNCHANGED waiting

ListFails ==
  /\ phase \in {"listing", "read"}
  /\ phase' = "failed"
  /\ listed' = NotRead /\ early' = NotRead
  /\ ClientOnly
  /\ UNCHANGED <<held, waiting, told>>

\* close(): no change is heard from here on; the frame loop is joined.
CloseOperations ==
  /\ phase = "open"
  /\ phase' = "stopping"
  /\ ClientOnly
  /\ UNCHANGED <<listed, early, held, waiting, told>>

\* A close that leaves the waits to themselves.
ClosedSilently ==
  /\ phase = "stopping"
  /\ phase' = "closed"
  /\ ClientOnly
  /\ UNCHANGED <<listed, early, held, told, waiting>>

\* The loop has ended: whoever waits is told so.
WaitsCancelled ==
  /\ phase = "stopping"
  /\ phase' = "closed"
  /\ waiting' = {}
  /\ ClientOnly
  /\ UNCHANGED <<listed, early, held, told>>

-----------------------------------------------------------------------------
(***************************************************************************)
(* Waits and acknowledgements.                                             *)
(***************************************************************************)
Usable == phase \in {"open", "stopping", "closed"}

\* wait() on a verdict the client has is answered at once.
Wait(o) ==
  /\ Usable /\ ~Terminal(o, held[o])
  /\ waiting' = waiting \cup {o}
  /\ ClientOnly
  /\ UNCHANGED <<phase, listed, early, held, told>>

AbortWait(o) ==
  /\ o \in waiting
  /\ waiting' = waiting \ {o}
  /\ ClientOnly
  /\ UNCHANGED <<phase, listed, early, held, told>>

\* A verdict is marked once; any other receipt is answered as it is.
Marked(o) ==
  LET receipt == history[o][Latest(o)] IN
  IF Terminal(o, Latest(o)) /\ ~receipt.acknowledged
  THEN [history EXCEPT ![o] = Append(@, [receipt EXCEPT !.acknowledged = TRUE])]
  ELSE history

\* The client takes the answer in, unless it is lost.
Acknowledge(o) ==
  /\ Usable /\ Latest(o) # None
  /\ history' = Marked(o)
  /\ \/ Hear(o, history'[o])
     \/ Retain(o, Len(history'[o]), history'[o]) /\ UNCHANGED early
  /\ UNCHANGED <<content, phase, listed, callVars, crashes, mediaVars>>

-----------------------------------------------------------------------------
(***************************************************************************)
(* Calls. One with media stages it: each step of the media store, and a     *)
(* rejection or an abort that unwinds it. Once the media is there, an abort *)
(* is not looked at any more.                                              *)
(***************************************************************************)
At(c, s) == stage[c] = s
To(c, s) == stage' = [stage EXCEPT ![c] = s]
End(c, result) ==
  /\ stage' = [stage EXCEPT ![c] = "done"]
  /\ answer' = [answer EXCEPT ![c] = None]
  /\ outcome' = [outcome EXCEPT ![c] = result]

CallOnly  == UNCHANGED <<holdVars, crashes>>
Untouched == CallOnly /\ UNCHANGED <<storeVars, answer, outcome>>

\* A call, or its retry with the same key. A signal that is aborted by then ends it.
Call(c) ==
  /\ Usable
  /\ \/ At(c, "idle") /\ Cardinality({d \in Calls : ~At(d, "idle")}) < MaxCalls
     \/ At(c, "done") /\ outcome[c] # "receipt"
  /\ IF c \in Writers
     THEN To(c, "consuming") /\ CreateTemporary(c)
     ELSE To(c, "submitting") /\ UNCHANGED mediaVars
  /\ answer' = [answer EXCEPT ![c] = None]
  /\ outcome' = [outcome EXCEPT ![c] = "none"]
  /\ CallOnly
  /\ UNCHANGED storeVars

Staged(c) == At(c, "consuming") /\ Consume(c) /\ To(c, "complete") /\ Untouched

TemporarySynced(c) ==
  At(c, "complete") /\ SyncTemporary(c) /\ To(c, "synced") /\ Untouched

Linked(c) ==
  /\ At(c, "synced")
  /\ LinkObject(c, ObjectOf(c)) \/ FindObject(c, ObjectOf(c))
  /\ To(c, "linked") /\ Untouched

ObjectSynced(c) ==
  At(c, "linked") /\ SyncObject(ObjectOf(c)) /\ To(c, "cleaning") /\ Untouched

\* A store whose last step leaves the directory as it is.
PublishedUnsynced(c) ==
  At(c, "cleaning") /\ RemoveOnly(c) /\ To(c, "submitting") /\ Untouched

Published(c) ==
  At(c, "cleaning") /\ RemoveTemporary(c) /\ To(c, "submitting") /\ Untouched

\* The source ends early, a file operation fails, or the object found under the
\* name is another one.
StagingFails(c) ==
  /\ stage[c] \in {"consuming", "complete", "synced", "linked"}
  /\ To(c, "unwinding")
  /\ outcome' = [outcome EXCEPT ![c] = "failed"]
  /\ CallOnly
  /\ UNCHANGED <<storeVars, answer, mediaVars>>

AbortStaging(c) ==
  /\ At(c, "consuming")
  /\ To(c, "unwinding")
  /\ outcome' = [outcome EXCEPT ![c] = "aborted"]
  /\ CallOnly
  /\ UNCHANGED <<storeVars, answer, mediaVars>>

Unwound(c) ==
  /\ At(c, "unwinding")
  /\ RemoveTemporary(c)
  /\ End(c, outcome[c])
  /\ CallOnly
  /\ UNCHANGED storeVars

\* The removal, or the sync of the directory after it, fails.
CleanupFails(c) ==
  /\ At(c, "cleaning") \/ At(c, "unwinding")
  /\ RemoveOnly(c)
  /\ End(c, "failed")
  /\ CallOnly
  /\ UNCHANGED storeVars

(***************************************************************************)
(* Submission. A key the store knows is answered with the receipt it has,  *)
(* or refused for another content. A rejection may come after the commit,  *)
(* so the client asks for the receipt, and takes it only for its own.      *)
(***************************************************************************)
Queued == [status |-> "queued", acknowledged |-> FALSE]

SubmitCommits(c) ==
  LET o == OperationOf[c] IN
  /\ At(c, "submitting")
  /\ \/ /\ content[o] = NoContent
        /\ content' = [content EXCEPT ![o] = ContentOf[c]]
        /\ Becomes(o, Queued)
     \/ /\ content[o] = ContentOf[c]
        /\ UNCHANGED <<storeVars, early, held, told, waiting>>
  /\ To(c, "committed")
  /\ answer' = [answer EXCEPT ![c] = Len(history'[o])]
  /\ UNCHANGED <<phase, listed, outcome, crashes, mediaVars>>

SubmitRejects(c) ==
  /\ At(c, "submitting") \/ At(c, "committed")
  /\ To(c, "recovering")
  /\ answer' = [answer EXCEPT ![c] = None]
  /\ CallOnly
  /\ UNCHANGED <<storeVars, outcome, mediaVars>>

AnswerOnly == UNCHANGED <<storeVars, phase, listed, early, crashes, mediaVars>>

SubmitAnswers(c) ==
  /\ At(c, "committed")
  /\ Retain(OperationOf[c], answer[c], history[OperationOf[c]])
  /\ End(c, "receipt")
  /\ AnswerOnly

Fetched(c) ==
  /\ At(c, "recovering")
  /\ To(c, "fetched")
  /\ answer' = [answer EXCEPT ![c] = Latest(OperationOf[c])]
  /\ CallOnly
  /\ UNCHANGED <<storeVars, outcome, mediaVars>>

Recovered(c) == answer[c] # None /\ content[OperationOf[c]] = ContentOf[c]

FetchLands(c) ==
  /\ At(c, "fetched")
  /\ IF Recovered(c)
     THEN Retain(OperationOf[c], answer[c], history[OperationOf[c]]) /\ End(c, "receipt")
     ELSE UNCHANGED <<held, told, waiting>> /\ End(c, "failed")
  /\ AnswerOnly

FetchFails(c) ==
  /\ At(c, "recovering")
  /\ End(c, "failed")
  /\ CallOnly
  /\ UNCHANGED <<storeVars, mediaVars>>

-----------------------------------------------------------------------------
(***************************************************************************)
(* The process dies, or the machine; what was not in a store is gone.      *)
(***************************************************************************)
Crash ==
  /\ phase # "down" /\ crashes < MaxCrashes
  /\ phase' = "down" /\ crashes' = crashes + 1
  /\ AbandonTemporaries \/ LosePower
  /\ listed' = NotRead /\ early' = NotRead /\ held' = NotRead /\ told' = NotRead
  /\ waiting' = {}
  /\ stage' = [c \in Calls |-> "idle"]
  /\ answer' = [c \in Calls |-> None]
  /\ outcome' = [c \in Calls |-> "none"]
  /\ UNCHANGED storeVars

Staging(c) ==
  \/ Staged(c) \/ TemporarySynced(c) \/ Linked(c) \/ ObjectSynced(c) \/ Published(c)
  \/ StagingFails(c) \/ AbortStaging(c) \/ Unwound(c) \/ CleanupFails(c)

Submission(c) ==
  \/ SubmitCommits(c) \/ SubmitRejects(c) \/ SubmitAnswers(c)
  \/ Fetched(c) \/ FetchLands(c) \/ FetchFails(c)

OperationsNext ==
  \/ Create \/ ListRead \/ ListArrives \/ ListFails
  \/ CloseOperations \/ WaitsCancelled \/ Crash
  \/ \E c \in Calls : Call(c) \/ Staging(c) \/ Submission(c)
  \/ \E o \in Operations :
       \/ Executed(o) \/ ExecutedElsewhere(o)
       \/ Wait(o) \/ AbortWait(o) \/ Acknowledge(o)

OperationsSpec == OperationsInit /\ [][OperationsNext]_operationVars

(***************************************************************************)
(* Fairness: the frame loop a close joins ends, for its read settles       *)
(* (ClientMirror), and whatever is asked of the store is answered.         *)
(***************************************************************************)
OperationsLive ==
  /\ OperationsSpec
  /\ WF_operationVars(ListRead \/ ListArrives)
  /\ WF_operationVars(WaitsCancelled)

-----------------------------------------------------------------------------
(***************************************************************************)
(* Properties.                                                             *)
(***************************************************************************)
\* Once the client is created, it holds the newest copy that it was given of
\* every receipt, however the first list, announced changes, answers of its
\* own calls and recoveries overtake one another.
NothingMissed ==
  Usable => \A o \in Operations : held[o] = told[o]

\* A wait that was asked for in time is settled by the verdict once the client
\* was given it, and by the close of the client (tests/operations.test.ts,
\* "closing a Client cancels its wait without cancelling durable work").
WaitSettles ==
  \A o \in Operations :
    (o \in waiting /\ (phase = "stopping" \/ Terminal(o, told[o]))) ~> (o \notin waiting)

\* "Media is completely published before the operation receipt exists": from
\* the first receipt on, its bytes can be read, whole, even when the machine
\* loses its power; and no name in the store ever stands for fewer bytes than
\* it was made for.
MediaOutlivesPower ==
  /\ \A b \in Objects : object[b] # "torn"
  /\ \A w \in Writers :
       content[OperationOf[w]] = ContentOf[w]
         => Readable(ObjectOf(w)) /\ ObjectOf(w) \in entered
=============================================================================
