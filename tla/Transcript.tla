----------------------------- MODULE Transcript -----------------------------
(***************************************************************************)
(* What a client shows of one chat (client.ts): the messages it has of it, *)
(* which come as patches and pages, and beside them the sends that have no  *)
(* message yet, which come as receipts of operations. The view is built     *)
(* when it is asked for and kept until something of the chat changes.       *)
(*                                                                         *)
(* Sends are numbered in their order, and the message that a send becomes   *)
(* has its number. How patches, pages and receipts come in is the subject   *)
(* of ClientMirror and ClientOperations; here each of them may be late.     *)
(* A send is undone when it failed, or may have.                           *)
(***************************************************************************)
EXTENDS Naturals, FiniteSetsExt

CONSTANTS
  LastSend,        \* sends are 1 .. LastSend
  MaxSnapshots   \* bound for model checking

ASSUME TranscriptAssumption == LastSend \in Nat \ {0} /\ MaxSnapshots \in Nat

VARIABLES
  receipts,    \* of the sends, in the store
  copies,      \* the client's
  echoes,      \* the messages in the mirror
  patched,     \* those whose patch, or a snapshot after it, has reached the client
  snapshots,   \* how many it was given
  entry,       \* what it retains of the chat
  pageReads,   \* pages being read for it
  met          \* messages patched since the snapshot, for sends the client had

transcriptVars == <<receipts, copies, echoes, patched, snapshots, entry, pageReads, met>>

Sends == 1 .. LastSend
Unsent == [status |-> "none", acknowledged |-> FALSE]
Unasked == [messages |-> {}, outgoing |-> {}, asked |-> FALSE]
NoEntry == [kept |-> FALSE, rows |-> {}, before |-> LastSend + 1, older |-> "stored",
            view |-> Unasked]

TranscriptTypeOK ==
  /\ {receipts, copies} \subseteq
       [Sends -> [status : {"none", "underway", "succeeded", "undone"},
                  acknowledged : BOOLEAN]]
  /\ echoes \subseteq Sends /\ patched \subseteq echoes /\ met \subseteq patched
  /\ snapshots \in 0 .. MaxSnapshots
  /\ entry.rows \subseteq echoes /\ entry.before \in 1 .. LastSend + 1
  /\ entry.older \in {"stored", "loading", "exhausted"}
  /\ entry.kept \/ entry = NoEntry
  /\ entry.view.messages \subseteq entry.rows
  /\ \A read \in pageReads : read.page \subseteq echoes /\ read.snapshot <= snapshots

TranscriptInit ==
  /\ receipts = [s \in Sends |-> Unsent] /\ copies = receipts
  /\ echoes = {} /\ patched = {} /\ met = {}
  /\ snapshots = 0 /\ entry = NoEntry /\ pageReads = {}

-----------------------------------------------------------------------------
(***************************************************************************)
(* The entry of a chat and its view.                                       *)
(***************************************************************************)
EntryFor(e) == [e EXCEPT !.kept = TRUE]
Outdated(e) == [e EXCEPT !.view = Unasked]

Dismissed(copy) == copy.acknowledged /\ copy.status = "undone"

\* The sends that stand beside the messages.
OutgoingFor(rows) ==
  {s \in Sends :
     /\ copies[s] # Unsent
     /\ ~Dismissed(copies[s])
     /\ ~(copies[s].status = "succeeded" /\ s \in rows)}

ViewOf(e) ==
  IF e.view.asked THEN e.view
  ELSE [messages |-> e.rows, outgoing |-> OutgoingFor(e.rows), asked |-> TRUE]

-----------------------------------------------------------------------------
(***************************************************************************)
(* The store, and the receipts the client takes over from it, each newer    *)
(* than the one it had.                                                    *)
(***************************************************************************)
SendOnly == UNCHANGED <<copies, patched, snapshots, entry, pageReads, met>>

Submitted(s) ==
  /\ receipts[s] = Unsent
  /\ s > 1 => receipts[s - 1] # Unsent
  /\ receipts' = [receipts EXCEPT ![s].status = "underway"]
  /\ SendOnly /\ UNCHANGED echoes

Moved(s, to) ==
  /\ receipts[s].status = "underway"
  /\ receipts' = [receipts EXCEPT ![s].status = to]
  /\ SendOnly /\ UNCHANGED echoes

Acknowledged(s) ==
  /\ receipts[s].status \in {"undone", "succeeded"}
  /\ receipts' = [receipts EXCEPT ![s].acknowledged = TRUE]
  /\ SendOnly /\ UNCHANGED echoes

\* The Session has been asked, and the message comes back to the mirror, maybe
\* before the receipt says so, and maybe though it never will.
Echoed(s) ==
  /\ receipts[s] # Unsent
  /\ s \notin echoes
  /\ echoes' = echoes \cup {s}
  /\ SendOnly /\ UNCHANGED receipts

ReceiptOnly == UNCHANGED <<receipts, echoes, patched, snapshots, pageReads, met>>

\* A receipt that leaves the view that was built before it.
ReceiptBeside(s) ==
  /\ copies[s] # receipts[s]
  /\ copies' = [copies EXCEPT ![s] = receipts[s]]
  /\ entry' = EntryFor(entry)
  /\ ReceiptOnly

PutOperation(s) ==
  /\ copies[s] # receipts[s]
  /\ copies' = [copies EXCEPT ![s] = receipts[s]]
  /\ entry' = Outdated(EntryFor(entry))
  /\ ReceiptOnly

-----------------------------------------------------------------------------
(***************************************************************************)
(* Patches and snapshots. A message of a chat nobody has asked for is       *)
(* dropped; a snapshot forgets the messages, and keeps room for those of    *)
(* the sends that may still come.                                          *)
(***************************************************************************)
PutMessage(s) ==
  /\ s \in echoes \ patched
  /\ patched' = patched \cup {s}
  /\ met' = IF copies[s] # Unsent /\ ~Dismissed(copies[s]) THEN met \cup {s} ELSE met
  /\ entry' = IF entry.kept
              THEN Outdated([entry EXCEPT !.rows = @ \cup {s}])
              ELSE entry
  /\ UNCHANGED <<receipts, copies, echoes, snapshots, pageReads>>

Awaited(copy) ==
  copy # Unsent /\ (~copy.acknowledged \/ copy.status = "succeeded")

Reset == IF \E s \in Sends : Awaited(copies[s]) THEN EntryFor(NoEntry) ELSE NoEntry

Replace ==
  /\ snapshots < MaxSnapshots
  /\ snapshots' = snapshots + 1
  /\ patched' = echoes /\ met' = {}
  /\ entry' = Reset
  /\ UNCHANGED <<receipts, copies, echoes, pageReads>>

-----------------------------------------------------------------------------
(***************************************************************************)
(* What the application asks for: the view, and pages of one message.       *)
(***************************************************************************)
AppOnly == UNCHANGED <<receipts, copies, echoes, patched, snapshots, met>>

Get ==
  /\ entry' = [EntryFor(entry) EXCEPT !.view = ViewOf(entry)]
  /\ AppOnly /\ UNCHANGED pageReads

Older ==
  /\ entry.older = "stored"
  /\ entry' = Outdated([EntryFor(entry) EXCEPT !.older = "loading"])
  /\ pageReads' = pageReads \cup
       {[snapshot |-> snapshots, before |-> entry.before, page |-> {}, more |-> TRUE,
         step |-> "asked"]}
  /\ AppOnly

PageRead(read) ==
  LET stored == {s \in echoes : s < read.before} IN
  /\ read.step = "asked"
  /\ pageReads' = (pageReads \ {read}) \cup
       {[read EXCEPT !.step = "read", !.page = IF stored = {} THEN {} ELSE {Max(stored)},
                     !.more = Cardinality(stored) > 1]}
  /\ AppOnly /\ UNCHANGED entry

\* A page is put into the entry it was asked for, and only inserts.
PageLands(read) ==
  /\ read.step = "read"
  /\ pageReads' = pageReads \ {read}
  /\ entry' =
       IF read.snapshot # snapshots THEN entry
       ELSE Outdated([entry EXCEPT !.rows = @ \cup read.page,
                                  !.before = IF read.more THEN Max(read.page) ELSE @,
                                  !.older = IF read.more THEN "stored" ELSE "exhausted"])
  /\ AppOnly

PageFails(read) ==
  /\ pageReads' = pageReads \ {read}
  /\ entry' = IF read.snapshot # snapshots THEN entry
              ELSE Outdated([entry EXCEPT !.older = "stored"])
  /\ AppOnly

TranscriptNext ==
  \/ \E s \in Sends :
       \/ Submitted(s) \/ Echoed(s) \/ Acknowledged(s)
       \/ \E to \in {"succeeded", "undone"} : Moved(s, to)
       \/ PutOperation(s) \/ PutMessage(s)
  \/ Replace \/ Get \/ Older
  \/ \E read \in pageReads : PageRead(read) \/ PageLands(read) \/ PageFails(read)

TranscriptSpec == TranscriptInit /\ [][TranscriptNext]_transcriptVars

-----------------------------------------------------------------------------
(***************************************************************************)
(* Property.                                                               *)
(***************************************************************************)
\* Whenever the application looks, a send the client knows of is there until
\* its failure is dismissed: beside the messages until it has succeeded, then
\* in one place only, and as its message once that has come to the client. No
\* snapshot, page or kept view in between shows it twice or not at all.
EverySendIsShownOnce ==
  LET shown == ViewOf(entry) IN
  \A s \in Sends :
    copies[s] # Unsent =>
      CASE Dismissed(copies[s])             -> s \notin shown.outgoing
        [] copies[s].status = "succeeded"   ->
             /\ (s \in shown.outgoing) # (s \in shown.messages)
             /\ s \in met => s \in shown.messages
        [] OTHER                            -> s \in shown.outgoing
=============================================================================
