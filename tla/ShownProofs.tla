----------------------------- MODULE ShownProofs -----------------------------
(***************************************************************************)
(* What is shown is right however long it goes on: a page of the web        *)
(* example never goes back, a send is shown once, a burst of deliveries     *)
(* tells one value, and the presence told is the latest that is true.       *)
(***************************************************************************)
EXTENDS LiveObservations, Transcript, WebClient, WellFoundedInduction,
        FiniteSetTheorems, SequenceTheorems, TLAPS

(***************************************************************************)
(* The web example. At most one request for a state is under way, and it   *)
(* was read and answered after what is shown.                               *)
(***************************************************************************)
WebTypes ==
  /\ announced \in Nat
  /\ view \in [chat : Selections, read : Nat, revision : Nat]
  /\ view.read <= announced /\ view.revision <= announced
  /\ selected \in Selections
  /\ requests \subseteq
       [chat : Selections, stage : {"sent", "reading", "answered", "refused"},
        read : Nat, revision : Nat]

OneRequest == \A r \in requests : requests = {r}

ReadLater ==
  \A r \in requests :
    /\ r.stage \in {"reading", "answered"} => view.read <= r.read /\ r.read <= announced
    /\ r.stage = "answered" => view.revision <= r.revision /\ r.revision <= announced

WebInv == WebTypes /\ OneRequest /\ ReadLater

\* Announcing only adds to what was announced.
LEMMA TellsOnlyAdds ==
  ASSUME announced \in Nat, NEW times \in Nat, Tells(times)
  PROVE  announced' \in Nat /\ announced <= announced'
BY DEF Tells

\* A reload asks for a state unless one is under way.
LEMMA ReloadKeepsWeb ==
  ASSUME WebInv, NEW chat \in Selections, Reload(chat), UNCHANGED <<announced, view>>,
         selected' \in Selections
  PROVE  WebInv'
<1> USE DEF WebInv, WebTypes
<1>1. CASE requests = {}
  <2>1. requests' = {[chat |-> chat, stage |-> "sent", read |-> 0, revision |-> 0]}
    BY <1>1 DEF Reload, Ask
  <2>2. WebTypes'
    BY <2>1
  <2>3. OneRequest'
    BY <2>1 DEF OneRequest
  <2>4. ReadLater'
    BY <2>1 DEF ReadLater
  <2> QED BY <2>2, <2>3, <2>4
<1>2. CASE requests # {}
  <2>1. requests' = requests
    BY <1>2 DEF Reload
  <2> QED BY <2>1 DEF OneRequest, ReadLater
<1> QED BY <1>1, <1>2

\* Whatever only announces keeps it.
LEMMA AnnouncingKeepsWeb ==
  ASSUME WebInv, announced' \in Nat, announced <= announced',
         UNCHANGED <<view, selected, requests>>
  PROVE  WebInv'
BY DEF WebInv, WebTypes, OneRequest, ReadLater

\* A request that moves on leaves the others.
LEMMA StepKeepsOne ==
  ASSUME OneRequest, NEW r \in requests, NEW moved, Step(r, moved)
  PROVE  requests' = {moved}
BY DEF OneRequest, Step

LEMMA RequestsKeepWeb ==
  ASSUME WebInv, NEW r \in requests,
         StateBegins(r) \/ StateAnswers(r) \/ StateFails(r) \/ StateArrives(r)
           \/ StateRefused(r)
  PROVE  WebInv' /\ view'.read >= view.read /\ view'.revision >= view.revision
<1> USE DEF WebInv
<1>1. CASE StateBegins(r)
  <2>1. IsFiniteSet({c \in WebChats : pages[c] = "stored"})
    BY WebAssumption, FS_Subset
  <2>2. Cardinality({c \in WebChats : pages[c] = "stored"}) \in Nat
    BY <2>1, FS_CardinalityType
  <2>3. announced' \in Nat /\ announced <= announced'
    BY <1>1, <2>2, TellsOnlyAdds DEF StateBegins, WebTypes
  <2>4. requests' = {[r EXCEPT !.stage = "reading", !.read = announced]}
    BY <1>1, StepKeepsOne DEF StateBegins
  <2>5. UNCHANGED <<view, selected>>
    BY <1>1 DEF StateBegins, BrowserIdle
  <2>6. r \in [chat : Selections, stage : {"sent", "reading", "answered", "refused"},
               read : Nat, revision : Nat]
    BY DEF WebTypes
  <2>7. WebTypes'
    <3>1. [r EXCEPT !.stage = "reading", !.read = announced] \in
            [chat : Selections, stage : {"sent", "reading", "answered", "refused"},
             read : Nat, revision : Nat]
      BY <2>6 DEF WebTypes
    <3>2. view'.read <= announced' /\ view'.revision <= announced'
      BY <2>3, <2>5 DEF WebTypes
    <3> QED BY <2>3, <2>4, <2>5, <3>1, <3>2 DEF WebTypes
  <2>8. OneRequest'
    BY <2>4 DEF OneRequest
  <2>9. ReadLater'
    <3> DEFINE moved == [r EXCEPT !.stage = "reading", !.read = announced]
    <3>1. moved.stage = "reading" /\ moved.read = announced
      BY <2>6
    <3>2. view'.read <= moved.read /\ moved.read <= announced'
      BY <3>1, <2>3, <2>5 DEF WebTypes
    <3>3. requests' = {moved}
      BY <2>4
    <3> HIDE DEF moved
    <3> QED BY <3>1, <3>2, <3>3 DEF ReadLater
  <2> QED BY <2>5, <2>7, <2>8, <2>9 DEF WebTypes
<1>2. CASE StateAnswers(r)
  <2>1. requests' = {[r EXCEPT !.stage = "answered", !.revision = announced]}
    BY <1>2, StepKeepsOne DEF StateAnswers
  <2>2. UNCHANGED <<view, selected, announced>> /\ r.stage = "reading"
    BY <1>2 DEF StateAnswers, BrowserIdle
  <2>3. r \in [chat : Selections, stage : {"sent", "reading", "answered", "refused"},
               read : Nat, revision : Nat]
    BY DEF WebTypes
  <2>4. WebTypes'
    BY <2>1, <2>2, <2>3 DEF WebTypes
  <2>5. OneRequest'
    BY <2>1 DEF OneRequest
  <2>6. ReadLater'
    <3> DEFINE moved == [r EXCEPT !.stage = "answered", !.revision = announced]
    <3>1. moved.revision = announced /\ moved.read = r.read
      BY <2>3
    <3>2. view'.read <= moved.read /\ moved.read <= announced'
      BY <3>1, <2>2 DEF ReadLater
    <3>3. view'.revision <= moved.revision /\ moved.revision <= announced'
      BY <3>1, <2>2 DEF WebTypes
    <3>4. requests' = {moved}
      BY <2>1
    <3> HIDE DEF moved
    <3> QED BY <3>2, <3>3, <3>4 DEF ReadLater
  <2> QED BY <2>2, <2>4, <2>5, <2>6 DEF WebTypes
<1>3. CASE StateFails(r)
  <2>1. requests' = {[r EXCEPT !.stage = "refused"]}
    BY <1>3, StepKeepsOne DEF StateFails
  <2>2. UNCHANGED <<view, selected, announced>>
    BY <1>3 DEF StateFails, BrowserIdle
  <2>3. r \in [chat : Selections, stage : {"sent", "reading", "answered", "refused"},
               read : Nat, revision : Nat]
    BY DEF WebTypes
  <2>4. WebTypes'
    BY <2>1, <2>2, <2>3 DEF WebTypes
  <2>5. OneRequest'
    BY <2>1 DEF OneRequest
  <2>6. ReadLater'
    BY <2>1, <2>2, <2>3 DEF ReadLater
  <2> QED BY <2>2, <2>4, <2>5, <2>6 DEF WebTypes
<1>4. CASE StateArrives(r)
  <2>1. requests' = {} /\ UNCHANGED <<selected, announced>>
    BY <1>4 DEF StateArrives, Served, OneRequest
  <2>2. view' = [chat |-> r.chat, read |-> r.read, revision |-> r.revision]
        /\ r.stage = "answered"
    BY <1>4 DEF StateArrives
  <2>3. WebTypes' /\ view'.read >= view.read /\ view'.revision >= view.revision
    BY <2>1, <2>2 DEF WebTypes, ReadLater
  <2> QED BY <2>1, <2>3 DEF OneRequest, ReadLater
<1>5. CASE StateRefused(r)
  <2>1. requests' = {} /\ UNCHANGED <<selected, announced, view>>
    BY <1>5 DEF StateRefused, Served, OneRequest
  <2> QED BY <2>1 DEF OneRequest, ReadLater, WebTypes
<1> QED BY <1>1, <1>2, <1>3, <1>4, <1>5

LEMMA StepsKeepWeb ==
  ASSUME WebInv, [WebNext]_webVars
  PROVE  WebInv' /\ view'.read >= view.read /\ view'.revision >= view.revision
<1>t. WebTypes
  BY DEF WebInv
<1>0. CASE UNCHANGED webVars
  BY <1>0, AnnouncingKeepsWeb, <1>t DEF webVars, WebTypes
<1>1. CASE Changed \/ \E c \in WebChats : PageSettles(c)
  <2>1. Tells(1) /\ UNCHANGED <<view, selected, requests>>
    BY <1>1 DEF Changed, PageSettles, BrowserIdle
  <2>2. announced' \in Nat /\ announced <= announced'
    BY <2>1, TellsOnlyAdds, <1>t DEF WebTypes
  <2> QED BY <2>1, <2>2, AnnouncingKeepsWeb, <1>t DEF WebTypes
<1>2. CASE Subscribe \/ Unsubscribe \/ StreamLost
            \/ \E c \in WebCommands : Run(c) \/ CommandFails(c)
  <2>1. UNCHANGED <<announced, view, selected, requests>>
    BY <1>2 DEF Subscribe, Unsubscribe, StreamLost, Run, CommandFails, StreamOnly, Served
  <2> QED BY <2>1, AnnouncingKeepsWeb, <1>t DEF WebTypes
<1>3. CASE Ready \/ ChangeHeard \/ \E c \in WebCommands : CommandAnswered(c)
  <2>1. Reload(selected) /\ UNCHANGED <<announced, view, selected>>
    BY <1>3 DEF Ready, ChangeHeard, CommandAnswered, StreamOnly, Served
  <2> QED BY <2>1, ReloadKeepsWeb, <1>t DEF WebTypes
<1>4. ASSUME NEW c \in Selections, Select(c)
      PROVE  WebInv' /\ view'.read >= view.read /\ view'.revision >= view.revision
  <2>1. Reload(c) /\ UNCHANGED <<announced, view>> /\ selected' = c
    BY <1>4 DEF Select, Served
  <2> QED BY <2>1, ReloadKeepsWeb, <1>t DEF WebTypes
<1>5. ASSUME NEW c \in WebCommands, CommandDone(c)
      PROVE  WebInv' /\ view'.read >= view.read /\ view'.revision >= view.revision
  <2>1. UNCHANGED <<view, selected, requests>> /\ (Tells(1) \/ announced' = announced)
    BY <1>5 DEF CommandDone
  <2>2. announced' \in Nat /\ announced <= announced'
    BY <2>1, TellsOnlyAdds, <1>t DEF WebTypes
  <2> QED BY <2>1, <2>2, AnnouncingKeepsWeb, <1>t DEF WebTypes
<1> QED BY <1>0, <1>1, <1>2, <1>3, <1>4, <1>5, RequestsKeepWeb DEF WebNext

\* The page of the web example never goes back to an earlier moment of the
\* application (whatsapp-browser.ts), for any chats, commands and announcements.
THEOREM PageNeverGoesBack == WebSpec => ViewNeverGoesBack
<1>1. WebInit => WebInv
  BY DEF WebInit, WebInv, WebTypes, OneRequest, ReadLater, Selections
<1>2. WebInv /\ [WebNext]_webVars => WebInv'
  BY StepsKeepWeb
<1>3. WebInv /\ [WebNext]_webVars =>
        [view'.read >= view.read /\ view'.revision >= view.revision]_webVars
  BY StepsKeepWeb
<1> QED BY <1>1, <1>2, <1>3, PTL DEF WebSpec, ViewNeverGoesBack

-----------------------------------------------------------------------------
(***************************************************************************)
(* A chat. The view that is kept is the one that would be built now, and    *)
(* the chat is retained as long as a send may stand in it, so that its      *)
(* message is.                                                             *)
(***************************************************************************)
Copies == [status : {"none", "underway", "succeeded", "undone"}, acknowledged : BOOLEAN]

\* Only what has settled is acknowledged.
Ordered(receipt) == receipt.acknowledged => receipt.status \in {"succeeded", "undone"}

SendTypes ==
  /\ receipts \in [Sends -> Copies] /\ copies \in [Sends -> Copies]
  /\ \A s \in Sends : Ordered(receipts[s]) /\ Ordered(copies[s])

EntryShape ==
  \E kept, rows, before, older, built :
    entry = [kept |-> kept, rows |-> rows, before |-> before, older |-> older,
             view |-> built]

KeptViewIsCurrent ==
  entry.view.asked =>
    entry.view = [messages |-> entry.rows, outgoing |-> OutgoingFor(entry.rows),
                  asked |-> TRUE]

ShownOf(copy) == copy # Unsent /\ ~Dismissed(copy)

RetainedWhileShown == \A s \in Sends : ShownOf(copies[s]) => entry.kept

TranscriptInv ==
  SendTypes /\ EntryShape /\ KeptViewIsCurrent /\ RetainedWhileShown /\ met \subseteq entry.rows

\* The view that is given is the one that would be built now.
LEMMA GivenIsCurrent ==
  ASSUME TranscriptInv
  PROVE  ViewOf(entry) = [messages |-> entry.rows, outgoing |-> OutgoingFor(entry.rows),
                          asked |-> TRUE]
BY DEF TranscriptInv, KeptViewIsCurrent, ViewOf

LEMMA CurrentShowsOnce == TranscriptInv => EverySendIsShownOnce
<1> SUFFICES ASSUME TranscriptInv, NEW s \in Sends, copies[s] # Unsent
    PROVE  LET shown == ViewOf(entry) IN
           CASE Dismissed(copies[s])             -> s \notin shown.outgoing
             [] copies[s].status = "succeeded"   ->
                  /\ (s \in shown.outgoing) # (s \in shown.messages)
                  /\ s \in met => s \in shown.messages
             [] OTHER                            -> s \in shown.outgoing
  BY DEF EverySendIsShownOnce
<1>1. ViewOf(entry).messages = entry.rows /\ ViewOf(entry).outgoing = OutgoingFor(entry.rows)
  BY GivenIsCurrent
<1>2. met \subseteq entry.rows
  BY DEF TranscriptInv
<1>3. CASE Dismissed(copies[s])
  BY <1>1, <1>3 DEF OutgoingFor, Dismissed
<1>4. CASE ~Dismissed(copies[s]) /\ copies[s].status = "succeeded"
  <2>1. (s \in OutgoingFor(entry.rows)) <=> ~(s \in entry.rows)
    BY <1>4 DEF OutgoingFor
  <2> QED BY <1>1, <1>2, <1>4, <2>1
<1>5. CASE ~Dismissed(copies[s]) /\ copies[s].status # "succeeded"
  <2>1. s \in OutgoingFor(entry.rows)
    BY <1>5 DEF OutgoingFor
  <2> QED BY <1>1, <1>5, <2>1
<1> QED BY <1>3, <1>4, <1>5

\* A change of the store alone.
LEMMA StoreKeepsTranscript ==
  ASSUME TranscriptInv, NEW s \in Sends, NEW receipt \in Copies, Ordered(receipt),
         receipts' = [receipts EXCEPT ![s] = receipt] \/ receipts' = receipts,
         UNCHANGED <<copies, entry, met>>
  PROVE  TranscriptInv'
<1>1. SendTypes'
  BY DEF TranscriptInv, SendTypes, Ordered
<1>2. KeptViewIsCurrent'
  BY DEF TranscriptInv, KeptViewIsCurrent, OutgoingFor, Dismissed
<1> QED BY <1>1, <1>2 DEF TranscriptInv, EntryShape, RetainedWhileShown, ShownOf, Dismissed

\* An entry whose view is to be built, with at least the messages it had.
LEMMA OutdatedKeepsTranscript ==
  ASSUME TranscriptInv, UNCHANGED <<receipts, copies>>,
         NEW kept, NEW rows, NEW before, NEW older,
         entry' = [kept |-> kept, rows |-> rows, before |-> before, older |-> older,
                   view |-> Unasked],
         entry.kept => kept, met' \subseteq rows
  PROVE  TranscriptInv'
<1>1. EntryShape' /\ KeptViewIsCurrent'
  BY DEF EntryShape, KeptViewIsCurrent, Unasked
<1>2. RetainedWhileShown'
  BY DEF TranscriptInv, RetainedWhileShown, ShownOf, Dismissed
<1> QED BY <1>1, <1>2 DEF TranscriptInv, SendTypes, Ordered

LEMMA PutOperationKeepsTranscript ==
  ASSUME TranscriptInv, NEW s \in Sends, PutOperation(s)
  PROVE  TranscriptInv'
<1>1. PICK kept, rows, before, older, built :
        entry = [kept |-> kept, rows |-> rows, before |-> before, older |-> older,
                 view |-> built]
  BY DEF TranscriptInv, EntryShape
<1>2. entry' = [kept |-> TRUE, rows |-> rows, before |-> before,
                older |-> older, view |-> Unasked]
  BY <1>1 DEF PutOperation, Outdated, EntryFor
<1>3. EntryShape' /\ KeptViewIsCurrent' /\ RetainedWhileShown'
  BY <1>2 DEF EntryShape, KeptViewIsCurrent, RetainedWhileShown, Unasked
<1>4. SendTypes'
  BY DEF TranscriptInv, SendTypes, Ordered, PutOperation, ReceiptOnly
<1>5. met' \subseteq entry'.rows
  BY <1>1, <1>2 DEF TranscriptInv, PutOperation, ReceiptOnly
<1> QED BY <1>3, <1>4, <1>5 DEF TranscriptInv

LEMMA PutMessageKeepsTranscript ==
  ASSUME TranscriptInv, NEW s \in Sends, PutMessage(s)
  PROVE  TranscriptInv'
<1>1. PICK kept, rows, before, older, built :
        entry = [kept |-> kept, rows |-> rows, before |-> before, older |-> older,
                 view |-> built]
  BY DEF TranscriptInv, EntryShape
<1>2. UNCHANGED <<receipts, copies>>
  BY DEF PutMessage
<1>3. CASE entry.kept
  <2>1. entry' = [kept |-> kept, rows |-> rows \cup {s}, before |-> before,
                  older |-> older, view |-> Unasked]
    BY <1>1, <1>3 DEF PutMessage, Outdated
  <2>2. met' \subseteq rows \cup {s}
    BY <1>1 DEF TranscriptInv, PutMessage
  <2> QED BY <1>1, <1>2, <2>1, <2>2, OutdatedKeepsTranscript
<1>4. CASE ~entry.kept
  <2>1. ~ShownOf(copies[s])
    BY <1>4 DEF TranscriptInv, RetainedWhileShown
  <2>2. UNCHANGED <<entry, met>>
    BY <1>4, <2>1 DEF PutMessage, ShownOf
  <2>3. receipts[s] \in Copies /\ Ordered(receipts[s])
    BY DEF TranscriptInv, SendTypes
  <2> QED BY <1>2, <2>2, <2>3, StoreKeepsTranscript
<1> QED BY <1>3, <1>4

\* A snapshot retains the chat of every send that is not dismissed.
LEMMA ReplaceKeepsTranscript ==
  ASSUME TranscriptInv, Replace
  PROVE  TranscriptInv'
<1>1. PICK k \in BOOLEAN :
        /\ entry' = [kept |-> k, rows |-> {}, before |-> LastSend + 1, older |-> "stored",
                     view |-> Unasked]
        /\ k <=> \E s \in Sends : Awaited(copies[s])
  BY DEF Replace, Reset, EntryFor, NoEntry
<1>2. UNCHANGED <<receipts, copies>> /\ met' = {}
  BY DEF Replace
<1>3. EntryShape' /\ KeptViewIsCurrent'
  BY <1>1 DEF EntryShape, KeptViewIsCurrent, Unasked
<1>4. RetainedWhileShown'
  <2> SUFFICES ASSUME NEW s \in Sends, ShownOf(copies[s]) PROVE k
    BY <1>1, <1>2 DEF RetainedWhileShown, ShownOf, Dismissed
  <2>1. Ordered(copies[s]) /\ copies[s] \in Copies
    BY DEF TranscriptInv, SendTypes
  <2>2. Awaited(copies[s])
    BY <2>1 DEF ShownOf, Dismissed, Ordered, Awaited, Copies
  <2> QED BY <1>1, <2>2
<1>5. SendTypes' /\ met' \subseteq entry'.rows
  BY <1>2 DEF TranscriptInv, SendTypes, Ordered
<1> QED BY <1>3, <1>4, <1>5 DEF TranscriptInv

LEMMA AppKeepsTranscript ==
  ASSUME TranscriptInv,
         Get \/ Older \/ \E read \in pageReads :
                           PageRead(read) \/ PageLands(read) \/ PageFails(read)
  PROVE  TranscriptInv'
<1>1. PICK kept, rows, before, older, built :
        entry = [kept |-> kept, rows |-> rows, before |-> before, older |-> older,
                 view |-> built]
  BY DEF TranscriptInv, EntryShape
<1>2. UNCHANGED <<receipts, copies, met>>
  BY DEF Get, Older, PageRead, PageLands, PageFails, AppOnly
<1>3. met \subseteq entry.rows
  BY DEF TranscriptInv
<1>4. CASE Get
  <2>1. entry' = [kept |-> TRUE, rows |-> rows, before |-> before,
                  older |-> older,
                  view |-> [messages |-> rows, outgoing |-> OutgoingFor(rows),
                            asked |-> TRUE]]
    BY <1>1, <1>4, GivenIsCurrent DEF Get, EntryFor
  <2>1a. entry'.rows = rows /\ UNCHANGED copies
    BY <1>2, <2>1
  <2>2. OutgoingFor(entry.rows)' = OutgoingFor(rows)
    BY <2>1a DEF OutgoingFor, Dismissed
  <2>2b. met' \subseteq entry'.rows
    BY <1>1, <1>2, <1>3, <2>1a
  <2>3. EntryShape' /\ RetainedWhileShown'
    BY <2>1 DEF EntryShape, RetainedWhileShown
  <2>4. KeptViewIsCurrent'
    BY <2>1, <2>2 DEF KeptViewIsCurrent
  <2>5. SendTypes'
    BY <1>2 DEF TranscriptInv, SendTypes, Ordered
  <2> QED BY <2>2b, <2>3, <2>4, <2>5 DEF TranscriptInv
<1>5. CASE Older
  <2>1. entry' = [kept |-> TRUE, rows |-> rows, before |-> before,
                  older |-> "loading", view |-> Unasked]
    BY <1>1, <1>5 DEF Older, Outdated, EntryFor
  <2> QED BY <1>1, <1>2, <1>3, <2>1, OutdatedKeepsTranscript
<1>6. ASSUME NEW read \in pageReads, PageRead(read) \/ PageLands(read) \/ PageFails(read)
      PROVE  TranscriptInv'
  <2>1. CASE entry' = entry
    BY <1>2, <2>1 DEF TranscriptInv, SendTypes, Ordered, EntryShape, KeptViewIsCurrent,
       OutgoingFor, Dismissed, RetainedWhileShown, ShownOf
  <2>2. CASE entry' = Outdated([entry EXCEPT
               !.rows = @ \cup read.page,
               !.before = IF read.more THEN Max(read.page) ELSE @,
               !.older = IF read.more THEN "stored" ELSE "exhausted"])
    <3>1. PICK to, then :
            entry' = [kept |-> kept, rows |-> rows \cup read.page,
                      before |-> to, older |-> then, view |-> Unasked]
      BY <1>1, <2>2 DEF Outdated
    <3> QED BY <1>1, <1>2, <1>3, <3>1, OutdatedKeepsTranscript
  <2>3. CASE entry' = Outdated([entry EXCEPT !.older = "stored"])
    <3>1. entry' = [kept |-> kept, rows |-> rows, before |-> before,
                    older |-> "stored", view |-> Unasked]
      BY <1>1, <2>3 DEF Outdated
    <3> QED BY <1>1, <1>2, <1>3, <3>1, OutdatedKeepsTranscript
  <2> QED BY <1>6, <2>1, <2>2, <2>3 DEF PageRead, PageLands, PageFails
<1> QED BY <1>4, <1>5, <1>6, Zenon
       
LEMMA StepsKeepTranscript ==
  ASSUME TranscriptInv, [TranscriptNext]_transcriptVars
  PROVE  TranscriptInv'
<1>0. CASE UNCHANGED transcriptVars
  BY <1>0 DEF transcriptVars, TranscriptInv, SendTypes, Ordered, EntryShape,
     KeptViewIsCurrent, OutgoingFor, Dismissed, RetainedWhileShown, ShownOf
<1>1. ASSUME NEW s \in Sends,
             \/ Submitted(s) \/ Echoed(s) \/ Acknowledged(s)
             \/ \E to \in {"succeeded", "undone"} : Moved(s, to)
      PROVE  TranscriptInv'
  <2>1. receipts \in [Sends -> Copies] /\ receipts[s] \in Copies /\ Ordered(receipts[s])
    BY DEF TranscriptInv, SendTypes
  <2>2. PICK receipt \in Copies :
          /\ Ordered(receipt)
          /\ receipts' = [receipts EXCEPT ![s] = receipt] \/ receipts' = receipts
    <3>1. CASE Submitted(s)
      <4>1. receipts' = [receipts EXCEPT ![s] = [receipts[s] EXCEPT !.status = "underway"]]
        BY <3>1 DEF Submitted
      <4>2. ~receipts[s].acknowledged
        BY <3>1 DEF Submitted, Unsent
      <4> QED BY <2>1, <4>1, <4>2 DEF Ordered, Copies
    <3>2. CASE Acknowledged(s)
      <4>1. receipts' = [receipts EXCEPT ![s] = [receipts[s] EXCEPT !.acknowledged = TRUE]]
        BY <3>2 DEF Acknowledged
      <4>2. receipts[s].status \in {"succeeded", "undone"}
        BY <3>2 DEF Acknowledged
      <4> QED BY <2>1, <4>1, <4>2 DEF Ordered, Copies
    <3>3. ASSUME NEW to \in {"succeeded", "undone"}, Moved(s, to)
          PROVE  \E receipt \in Copies :
                   /\ Ordered(receipt)
                   /\ receipts' = [receipts EXCEPT ![s] = receipt] \/ receipts' = receipts
      <4>1. receipts' = [receipts EXCEPT ![s] = [receipts[s] EXCEPT !.status = to]]
        BY <3>3 DEF Moved
      <4> QED BY <2>1, <4>1 DEF Ordered, Copies
    <3>4. CASE Echoed(s)
      BY <2>1, <3>4 DEF Echoed
    <3> QED BY <1>1, <3>1, <3>2, <3>3, <3>4
  <2>3. UNCHANGED <<copies, entry, met>>
    BY <1>1 DEF Submitted, Echoed, Acknowledged, Moved, SendOnly
  <2> QED BY <2>2, <2>3, StoreKeepsTranscript
<1> QED BY <1>0, <1>1, PutOperationKeepsTranscript, PutMessageKeepsTranscript,
           ReplaceKeepsTranscript, AppKeepsTranscript DEF TranscriptNext

\* A send the client knows of is beside the messages until it has succeeded, then
\* in one place only (client.ts), for any number of sends and snapshots.
THEOREM SendsAreShownOnce == TranscriptSpec => []EverySendIsShownOnce
<1>1. TranscriptInit => TranscriptInv
  <2> SUFFICES ASSUME TranscriptInit PROVE TranscriptInv
    OBVIOUS
  <2>1. Unsent \in Copies /\ Ordered(Unsent) /\ ~ShownOf(Unsent)
    BY DEF Unsent, Copies, Ordered, ShownOf
  <2>2. SendTypes /\ RetainedWhileShown
    BY <2>1 DEF TranscriptInit, SendTypes, RetainedWhileShown
  <2>3. EntryShape /\ KeptViewIsCurrent /\ met \subseteq entry.rows
    BY DEF TranscriptInit, EntryShape, KeptViewIsCurrent, NoEntry, Unasked
  <2> QED BY <2>2, <2>3 DEF TranscriptInv
<1>2. TranscriptInv /\ [TranscriptNext]_transcriptVars => TranscriptInv'
  BY StepsKeepTranscript
<1> QED BY <1>1, <1>2, CurrentShowsOnce, PTL DEF TranscriptSpec

-----------------------------------------------------------------------------
(***************************************************************************)
(* Deliveries. All that are under way at once were sampled on one basis,    *)
(* and what listeners are answered depends on it and on what no delivery    *)
(* changes.                                                                *)
(***************************************************************************)
LiveClaims == [token : Nat, until : Nat]
LiveBases == [at : Nat, claim : LiveClaims, attached : BOOLEAN]

Pending == [left : SUBSET Nat, from : LiveBases]

LiveTypes ==
  /\ clock \in Nat /\ claim \in LiveClaims /\ granted \in Nat
  /\ attached \in BOOLEAN
  /\ source \in {"open", "stopping", "over"} /\ (source # "open" => claim = NoLiveClaim)
  /\ added \in Nat /\ listening \subseteq Nat
  /\ deliveries \in Seq(Pending)
  /\ ~Delivering => said = {} /\ ~closing

Burst(from) ==
  /\ \A d \in 1 .. Len(deliveries) : deliveries[d].from = from
  /\ said \subseteq {[a \in Addresses |-> Answer(a, from)]}
  /\ closing => from.claim = NoLiveClaim \/ ~from.attached

BurstInv == LiveTypes /\ \E from \in LiveBases : Burst(from)

LEMMA SampleType ==
  LiveTypes => Sample \in LiveBases
BY DEF LiveTypes, Sample, LiveBases

\* The answer from what is held, for one contact or not.
AnswerIn(held, one, a, from) ==
  LET forms == {b \in IF one THEN Addresses ELSE {a} : Current(held[b], from)} IN
  IF forms = {} THEN NoKind
  ELSE held[CHOOSE b \in forms : \A c \in forms : held[c].number <= held[b].number].kind

\* It depends on nothing else.
LEMMA SameAnswer ==
  ASSUME UNCHANGED <<observed, consolidated>>
  PROVE  \A a, from : Answer(a, from)' = Answer(a, from)
<1>1. \A a, from : Answer(a, from) = AnswerIn(observed, consolidated, a, from)
  BY DEF Answer, AnswerIn, CurrentForms, NewestForm, FormsOf
<1>2. \A a, from : Answer(a, from)' = AnswerIn(observed', consolidated', a, from)
  BY DEF Answer, AnswerIn, CurrentForms, NewestForm, FormsOf, Current
<1> HIDE DEF AnswerIn
<1> QED BY <1>1, <1>2

\* On a basis without a claim, or that does not follow, nothing is said.
LEMMA NothingToSay ==
  ASSUME NEW from, from.claim = NoLiveClaim \/ ~from.attached, NEW a
  PROVE  Answer(a, from) = NoKind
BY DEF Answer, CurrentForms, Current

LEMMA BurstIsOneValue == BurstInv => OneBurstOneValue
<1> SUFFICES ASSUME BurstInv PROVE OneBurstOneValue
  OBVIOUS
<1>1. PICK from \in LiveBases : Burst(from)
  BY DEF BurstInv
<1> DEFINE answers == [a \in Addresses |-> Answer(a, from)]
<1>2. said \subseteq {answers}
  BY <1>1 DEF Burst
<1>3. Cardinality(said) <= 1
  <2>1. said = {} \/ said = {answers}
    BY <1>2
  <2>2. Cardinality({}) = 0 /\ Cardinality({answers}) = 1
    BY FS_EmptySet, FS_Singleton
  <2> HIDE DEF answers
  <2> QED BY <2>1, <2>2
<1>4. closing => \A a \in Addresses : answers[a] = NoKind
  BY <1>1, NothingToSay DEF Burst
<1> HIDE DEF answers
<1> QED BY <1>2, <1>3, <1>4 DEF OneBurstOneValue

\* Adding and removing listeners.
LEMMA ListenersKeepType ==
  ASSUME added \in Nat, listening \subseteq Nat, Adds \/ \E k \in listening : Removes(k)
  PROVE  added' \in Nat /\ listening' \subseteq Nat
<1>1. CASE Adds
  <2>1. added' \in Nat /\ listening' = listening \cup {added'}
    BY <1>1 DEF Adds
  <2> QED BY <2>1
<1>2. CASE \E k \in listening : Removes(k)
  <2>1. added' = added /\ \E k : listening' = listening \ {k}
    BY <1>2 DEF Removes
  <2> QED BY <2>1
<1> QED BY <1>1, <1>2

\* The listener that was called is no longer due, and the basis is the same.
LEMMA PassedKeepsBasis ==
  ASSUME NEW from, deliveries \in Seq(Pending), deliveries # <<>>, NEW l,
         \A d \in 1 .. Len(deliveries) : deliveries[d].from = from
  PROVE  /\ Passed(l) \in Seq(Pending) /\ Passed(l) # <<>>
         /\ \A d \in 1 .. Len(Passed(l)) : Passed(l)[d].from = from
<1> DEFINE after == [Innermost EXCEPT !.left = @ \ {l}]
<1>1. /\ Len(deliveries) \in 1 .. Len(deliveries)
      /\ Innermost \in Pending /\ Innermost.from = from
  BY DEF Innermost
<1>2. after \in Pending /\ after.from = from
  BY <1>1 DEF Pending
<1>3. Passed(l) = [deliveries EXCEPT ![Len(deliveries)] = after]
  BY DEF Passed, Innermost
<1> HIDE DEF after
<1>4. Passed(l) \in Seq(Pending) /\ Len(Passed(l)) = Len(deliveries)
  BY <1>1, <1>2, <1>3, ExceptSeq
<1>5. \A d \in 1 .. Len(deliveries) :
        Passed(l)[d] = IF d = Len(deliveries) THEN after ELSE deliveries[d]
  BY <1>1, <1>2, <1>3, ExceptSeq
<1> QED BY <1>1, <1>2, <1>4, <1>5

\* What a listener does inside a delivery: whatever becomes of the claim, it was
\* answered on the basis of the burst, and so are those due after it.
LEMMA CallsKeepBurst ==
  ASSUME BurstInv, NEW l \in listening, Calls(l), claim' \in LiveClaims,
         attached' \in BOOLEAN, source' \in {"open", "stopping", "over"},
         source' # "open" => claim' = NoLiveClaim,
         added' \in Nat, listening' \subseteq Nat,
         deliveries' = Passed(l) \/ Deliver(Passed(l))
  PROVE  BurstInv'
<1>1. PICK from \in LiveBases : Burst(from)
  BY DEF BurstInv
<1>2. deliveries \in Seq(Pending) /\ deliveries # <<>>
  BY DEF BurstInv, LiveTypes, Calls, Due, Delivering
<1>3. UNCHANGED <<clock, granted, consolidated, observed, closing>>
  BY DEF Calls
<1>4. Len(deliveries) \in 1 .. Len(deliveries) /\ Innermost.from = from
  BY <1>1, <1>2 DEF Burst, Innermost
<1>5. /\ Passed(l) \in Seq(Pending) /\ Passed(l) # <<>>
      /\ \A d \in 1 .. Len(Passed(l)) : Passed(l)[d].from = from
  BY <1>1, <1>2, PassedKeepsBasis DEF Burst
<1>6. said' \subseteq {[a \in Addresses |-> Answer(a, from)]}
  BY <1>1, <1>4 DEF Burst, Calls, Heard, Basis
<1>7. \A a : Answer(a, from)' = Answer(a, from)
  BY <1>3, SameAnswer
<1>8. \/ deliveries' = Passed(l)
      \/ deliveries' = Append(Passed(l), [left |-> listening, from |-> from])
  BY <1>2, <1>4 DEF Deliver, Sampled, Delivering
<1>9. /\ deliveries' \in Seq(Pending) /\ deliveries' # <<>>
      /\ \A d \in 1 .. Len(deliveries') : deliveries'[d].from = from
  <2>1. CASE deliveries' = Passed(l)
    BY <1>5, <2>1
  <2>2. CASE deliveries' = Append(Passed(l), [left |-> listening, from |-> from])
    <3> DEFINE new == [left |-> listening, from |-> from]
    <3>1. new \in Pending /\ new.from = from
      BY DEF Pending, BurstInv, LiveTypes
    <3>2. deliveries' = Append(Passed(l), new)
      BY <2>2
    <3> HIDE DEF new
    <3> QED BY <1>5, <3>1, <3>2, AppendProperties
  <2> QED BY <1>8, <2>1, <2>2
<1>10. LiveTypes'
  BY <1>3, <1>9 DEF BurstInv, LiveTypes, Delivering
<1>11. Burst(from)'
  BY <1>1, <1>3, <1>6, <1>7, <1>9 DEF Burst
<1> QED BY <1>10, <1>11 DEF BurstInv

LEMMA ListenersKeepBurst ==
  ASSUME BurstInv, NEW l \in listening,
         \/ Read(l) \/ ReadAndPage(l) \/ ReadAndClose(l)
         \/ ReadAndStop(l) \/ ReadAndSubscribe(l)
  PROVE  BurstInv'
<1> USE DEF BurstInv
<1>1. LiveTypes
  OBVIOUS
<1>2. CASE Read(l) \/ ReadAndPage(l) \/ ReadAndClose(l)
  BY <1>1, <1>2, CallsKeepBurst DEF Read, ReadAndPage, ReadAndClose, LiveTypes
<1>3. CASE ReadAndStop(l)
  <2>1. NoLiveClaim \in LiveClaims
    BY DEF NoLiveClaim, LiveClaims
  <2> QED BY <1>1, <1>3, <2>1, CallsKeepBurst DEF ReadAndStop, StopsRuntime, LiveTypes
<1>4. CASE ReadAndSubscribe(l)
  <2>1. added' \in Nat /\ listening' \subseteq Nat
    BY <1>1, <1>4, ListenersKeepType DEF ReadAndSubscribe, LiveTypes
  <2> QED BY <1>1, <1>4, <2>1, CallsKeepBurst DEF ReadAndSubscribe, LiveTypes
<1> QED BY <1>2, <1>3, <1>4

\* A delivery ends, and with the last of them the burst.
LEMMA DeliveredKeepsBurst ==
  ASSUME BurstInv, Delivered
  PROVE  BurstInv'
<1>1. PICK from \in LiveBases : Burst(from)
  BY DEF BurstInv
<1>2. deliveries \in Seq(Pending) /\ deliveries # <<>>
  BY DEF BurstInv, LiveTypes, Delivered, Delivering
<1>3. UNCHANGED <<clock, claim, granted, source, consolidated, observed, attached,
                 listening, added>>
  BY DEF Delivered
<1>4. deliveries' = SubSeq(deliveries, 1, Len(deliveries) - 1)
  BY DEF Delivered
<1>5. /\ deliveries' \in Seq(Pending)
      /\ Len(deliveries') = Len(deliveries) - 1
      /\ \A d \in 1 .. Len(deliveries') :
           d \in 1 .. Len(deliveries) /\ deliveries'[d] = deliveries[d]
  <2>1. Len(deliveries) - 1 \in Nat
    BY <1>2
  <2>2. \A d \in 1 .. Len(deliveries) - 1 : deliveries[d] \in Pending
    BY <1>2
  <2>3. /\ SubSeq(deliveries, 1, Len(deliveries) - 1) \in Seq(Pending)
        /\ Len(SubSeq(deliveries, 1, Len(deliveries) - 1)) = Len(deliveries) - 1
        /\ \A d \in 1 .. Len(deliveries) - 1 :
             SubSeq(deliveries, 1, Len(deliveries) - 1)[d] = deliveries[d]
    <3> DEFINE n == Len(deliveries) - 1
    <3>1. n \in Int /\ \A d \in 1 .. n : deliveries[d] \in Pending
      BY <2>1, <2>2
    <3> HIDE DEF n
    <3>2. /\ SubSeq(deliveries, 1, n) \in Seq(Pending)
          /\ Len(SubSeq(deliveries, 1, n)) = IF 1 <= n THEN n - 1 + 1 ELSE 0
          /\ \A d \in 1 .. n - 1 + 1 : SubSeq(deliveries, 1, n)[d] = deliveries[1 + d - 1]
      BY <3>1, SubSeqProperties
    <3>3. n \in Nat /\ n = Len(deliveries) - 1
      BY <2>1 DEF n
    <3>4. \A d \in 1 .. n : 1 + d - 1 = d
      BY <3>3
    <3> QED BY <3>2, <3>3, <3>4
  <2> QED BY <1>4, <2>1, <2>3
<1>6. \A a : Answer(a, from)' = Answer(a, from)
  BY <1>3, SameAnswer
<1>7. said' \subseteq said /\ (closing' => closing)
  BY DEF Delivered
<1>8. deliveries' = <<>> => said' = {} /\ ~closing'
  <2> SUFFICES ASSUME deliveries' = <<>> PROVE said' = {} /\ ~closing'
    OBVIOUS
  <2>1. Len(deliveries) = 1
    BY <1>2, <1>5
  <2> QED BY <2>1 DEF Delivered
<1>9. LiveTypes'
  BY <1>3, <1>5, <1>8 DEF BurstInv, LiveTypes, Delivering
<1>10. Burst(from)'
  BY <1>1, <1>5, <1>6, <1>7 DEF Burst
<1> QED BY <1>9, <1>10 DEF BurstInv

\* A commit outside of a delivery.
LEMMA CommitsKeepBurst ==
  ASSUME BurstInv, Commits, attached' \in BOOLEAN, said' = said,
         source' = source \/ (source = "stopping" /\ source' = "over"),
         Deliver(deliveries) \/ deliveries' = deliveries,
         closing' = closing \/ (Deliver(deliveries) /\ (claim = NoLiveClaim \/ ~attached'))
  PROVE  BurstInv'
<1>1. deliveries = <<>> /\ said = {} /\ ~closing
  BY DEF BurstInv, LiveTypes, Commits, Delivering
<1>2. UNCHANGED <<clock, claim, granted, listening, added>> /\ listening \subseteq Nat
  BY DEF Commits, BurstInv, LiveTypes
<1>3. Sample' \in LiveBases /\ Sample'.claim = claim /\ Sample'.attached = attached'
  BY <1>2 DEF BurstInv, LiveTypes, Sample, LiveBases
<1>4. deliveries' = <<[left |-> listening, from |-> Sample']>> \/ deliveries' = <<>>
  <2>1. CASE Deliver(deliveries)
    BY <1>1, <2>1 DEF Deliver, Sampled, Delivering
  <2> QED BY <1>1, <2>1
<1>5. /\ deliveries' \in Seq(Pending)
      /\ \A d \in 1 .. Len(deliveries') : deliveries'[d].from = Sample'
  <2> DEFINE sampled == [left |-> listening, from |-> Sample']
  <2>1. sampled \in Pending /\ sampled.from = Sample'
    BY <1>2, <1>3 DEF Pending
  <2>2. deliveries' = <<sampled>> \/ deliveries' = <<>>
    BY <1>4
  <2> HIDE DEF sampled
  <2>3. CASE deliveries' = <<>>
    BY <2>3
  <2>4. CASE deliveries' = <<sampled>>
    BY <2>1, <2>4
  <2> QED BY <2>2, <2>3, <2>4
<1>6. deliveries' = <<>> => ~closing'
  BY <1>1 DEF Deliver
<1>7. LiveTypes'
  BY <1>1, <1>2, <1>5, <1>6 DEF BurstInv, LiveTypes, Delivering
<1>8. closing' => Sample'.claim = NoLiveClaim \/ ~Sample'.attached
  BY <1>1, <1>3
<1>9. PICK from \in LiveBases : from = Sample'
  BY <1>3
<1>10. Burst(from)'
  BY <1>1, <1>5, <1>8, <1>9 DEF Burst
<1> QED BY <1>7, <1>10 DEF BurstInv

LEMMA StepsKeepBurst ==
  ASSUME BurstInv, [LiveNext]_liveVars
  PROVE  BurstInv'
<1>1. LiveTypes
  BY DEF BurstInv
<1>2. ASSUME Quiet, clock' \in Nat, claim' \in LiveClaims, granted' \in Nat,
             source' \in {"open", "stopping", "over"},
             source' # "open" => claim' = NoLiveClaim,
             added' \in Nat, listening' \subseteq Nat
      PROVE  BurstInv'
  <2>1. LiveTypes'
    BY <1>1, <1>2 DEF LiveTypes, Quiet, Delivering
  <2>2. PICK from \in LiveBases : Burst(from)
    BY DEF BurstInv
  <2>3. \A a : Answer(a, from)' = Answer(a, from)
    BY <1>2, SameAnswer DEF Quiet
  <2>4. Burst(from)'
    BY <1>2, <2>2, <2>3 DEF Burst, Quiet
  <2> QED BY <2>1, <2>4 DEF BurstInv
<1>3. CASE ClockTicks \/ ClaimGranted \/ ClaimRenewed \/ ClaimGivenBack \/ UNCHANGED liveVars
  <2>1. Quiet /\ UNCHANGED <<source, listening, added>>
    BY <1>3 DEF ClockTicks, ClaimGranted, ClaimRenewed, ClaimGivenBack, liveVars, Between, Quiet
  <2>2. clock' \in Nat /\ granted' \in Nat
    BY <1>1, <1>3 DEF ClockTicks, ClaimGranted, ClaimRenewed, ClaimGivenBack, liveVars,
       Between, LiveTypes
  <2>3. claim' \in LiveClaims
    BY <1>1, <1>3, <2>2, ObservationsAssumption DEF ClockTicks, ClaimGranted, ClaimRenewed,
       ClaimGivenBack, liveVars, Between, LiveTypes, LiveClaims, NoLiveClaim
  <2>4. source # "open" => claim' = NoLiveClaim
    BY <1>1, <1>3 DEF ClockTicks, ClaimGranted, ClaimRenewed, ClaimGivenBack, liveVars,
       LiveTypes
  <2> QED BY <1>1, <1>2, <2>1, <2>2, <2>3, <2>4 DEF LiveTypes
<1>5. CASE RuntimeStops
  <2>1. NoLiveClaim \in LiveClaims
    BY DEF NoLiveClaim, LiveClaims
  <2> QED BY <1>1, <1>2, <1>5, <2>1 DEF RuntimeStops, StopsRuntime, Between, LiveTypes
<1>6. CASE Subscriptions \/ ListenersReleased
  <2>1. added' \in Nat /\ listening' \subseteq Nat
    BY <1>1, <1>6, ListenersKeepType DEF Subscriptions, ListenersReleased, LiveTypes
  <2> QED BY <1>1, <1>2, <1>6, <2>1 DEF Subscriptions, ListenersReleased, Between, LiveTypes
<1>4. CASE \/ Consolidated \/ RuntimeCloses \/ FollowingFails \/ ClientCloses
           \/ \E a \in Addresses : Present(a) \/ Unavailable(a)
  <2>1. Commits /\ said' = said
    BY <1>4 DEF Consolidated, RuntimeCloses, FollowingFails, ClientCloses, Present,
       Unavailable
  <2>2. attached' \in BOOLEAN
    BY <1>1, <1>4 DEF Consolidated, RuntimeCloses, FollowingFails, ClientCloses, Present,
       Unavailable, LiveTypes
  <2>3. Deliver(deliveries) \/ deliveries' = deliveries
    BY <1>4 DEF Consolidated, RuntimeCloses, FollowingFails, ClientCloses, Present,
       Unavailable
  <2>4. closing' = closing \/ (Deliver(deliveries) /\ (claim = NoLiveClaim \/ ~attached'))
    BY <1>1, <1>4 DEF Consolidated, RuntimeCloses, FollowingFails, ClientCloses, Present,
       Unavailable, LiveTypes
  <2>5. source' = source \/ (source = "stopping" /\ source' = "over")
    BY <1>4 DEF Consolidated, RuntimeCloses, FollowingFails, ClientCloses, Present,
       Unavailable
  <2> QED BY <2>1, <2>2, <2>3, <2>4, <2>5, CommitsKeepBurst
<1> QED BY <1>3, <1>4, <1>5, <1>6, ListenersKeepBurst, DeliveredKeepsBurst DEF LiveNext

\* Everything that is read in one burst of deliveries is one value, though the clock
\* moves meanwhile and a listener pages, closes the client, adds or removes listeners
\* or stops the runtime, and the last delivery reports nobody (client.ts, ADR-0028),
\* for any addresses and number of listeners.
THEOREM BurstsTellOneValue == LiveSpec => []OneBurstOneValue
<1>1. LiveInit => BurstInv
  <2> SUFFICES ASSUME LiveInit PROVE BurstInv
    OBVIOUS
  <2>1. LiveTypes
    BY DEF LiveInit, LiveTypes, NoLiveClaim, LiveClaims, Delivering
  <2>2. Burst(Sample)
    BY DEF LiveInit, Burst
  <2> QED BY <2>1, <2>2, SampleType DEF BurstInv
<1>2. BurstInv /\ [LiveNext]_liveVars => BurstInv'
  BY StepsKeepBurst
<1> QED BY <1>1, <1>2, BurstIsOneValue, PTL DEF LiveSpec

-----------------------------------------------------------------------------
(***************************************************************************)
(* Presence. For every address the newest observation is held, unless it    *)
(* ended; and of two observations the newer one was made under a claim and  *)
(* holds to a time that are at least the older one's, so that when the older *)
(* one is still true the newer one is too.                                 *)
(***************************************************************************)
Observations == [number : Nat, address : Addresses, kind : Kinds, until : Nat, token : Nat]

Numbered ==
  /\ frames \subseteq Observations /\ IsFiniteSet(frames) /\ over \subseteq frames
  /\ \A f \in frames :
       /\ 1 <= f.number /\ f.number <= Cardinality(frames)
       /\ f.token <= granted /\ f.until <= clock + Freshness
  /\ claim # NoLiveClaim => claim.token = granted

NewerIsTruer ==
  \A f, g \in frames : f.number <= g.number => f.token <= g.token /\ f.until <= g.until

NewestIsHeld ==
  /\ observed \in [Addresses -> Observations \cup {NoFrame}]
  /\ \A a \in Addresses :
       /\ observed[a] = NoFrame => \A f \in frames : f.address = a => f \in over
       /\ observed[a] # NoFrame =>
            /\ observed[a] \in frames \ over /\ observed[a].address = a
            /\ \A f \in frames : f.address = a => f.number <= observed[a].number

FramesInv == LiveTypes /\ Numbered /\ NewerIsTruer /\ NewestIsHeld

\* A set of numbers with a bound has a greatest.
LEMMA NewestIsThere ==
  ASSUME NEW n \in Nat, NEW S, S \subseteq 0 .. n, S # {}
  PROVE  \E x \in S : \A y \in S : y <= x
<1> DEFINE R == OpToRel(<, Nat)
           T == {n - x : x \in S}
<1>1. T \subseteq Nat /\ T # {}
  <2>1. \A x \in S : n - x \in Nat
    OBVIOUS
  <2> QED BY <2>1
<1>2. IsWellFoundedOn(R, Nat)
  BY NatLessThanWellFounded
<1>3. PICK t \in T : \A u \in T : ~ (<<u, t>> \in R)
  <2> HIDE DEF R, T
  <2> QED BY <1>1, <1>2, WFMin
<1>4. PICK x \in S : t = n - x
  OBVIOUS
<1>5. \A y \in S : ~ (n - y < t)
  <2> SUFFICES ASSUME NEW y \in S PROVE ~ (n - y < t)
    OBVIOUS
  <2>1. n - y \in T /\ n - y \in Nat /\ t \in Nat
    BY <1>1
  <2>2. ~ (<<n - y, t>> \in R)
    <3> HIDE DEF R, T
    <3> QED BY <1>3, <2>1
  <2> QED BY <2>1, <2>2 DEF OpToRel
<1>6. \A y \in S : y <= x
  <2> SUFFICES ASSUME NEW y \in S PROVE y <= x
    OBVIOUS
  <2>1. ~ (n - y < n - x)
    BY <1>4, <1>5
  <2>2. x \in 0 .. n /\ y \in 0 .. n
    OBVIOUS
  <2> QED BY <2>1, <2>2
<1> QED BY <1>6

\* Whatever is still true, what is held for its address is true and no older.
LEMMA HeldIsTruer ==
  ASSUME FramesInv, NEW f \in frames \ over, Current(f, Sample)
  PROVE  LET held == observed[f.address] IN
         /\ held \in frames \ over /\ held.address = f.address
         /\ Current(held, Sample) /\ f.number <= held.number
<1> DEFINE held == observed[f.address]
<1>1. f \in Observations /\ f.address \in Addresses
  BY DEF FramesInv, Numbered, Observations
<1>2. held # NoFrame /\ held \in frames \ over /\ held.address = f.address
      /\ f.number <= held.number
  BY <1>1 DEF FramesInv, NewestIsHeld
<1>3. held \in Observations /\ held.token <= granted
  BY <1>2 DEF FramesInv, Numbered
<1>4. f.token <= held.token /\ f.until <= held.until
  BY <1>2 DEF FramesInv, NewerIsTruer
<1>5. claim # NoLiveClaim /\ claim.token = f.token /\ clock < f.until /\ clock < claim.until
      /\ attached
  BY DEF Current, Sample
<1>6. claim.token = granted /\ granted \in Nat /\ clock \in Nat
  BY <1>5 DEF FramesInv, Numbered, LiveTypes
<1>7. f.token \in Nat /\ held.token \in Nat /\ f.until \in Nat /\ held.until \in Nat
  BY <1>1, <1>3 DEF Observations
<1> HIDE DEF held
<1>8. claim.token = held.token /\ clock < held.until
  BY <1>3, <1>4, <1>5, <1>6, <1>7
<1>9. Current(held, Sample)
  BY <1>2, <1>5, <1>8 DEF Current, Sample
<1> QED BY <1>2, <1>9 DEF held

\* The newest of the addresses that speak is there.
LEMMA NewestFormIs ==
  ASSUME FramesInv, NEW forms, forms \subseteq Addresses, forms # {},
         \A b \in forms : observed[b] # NoFrame
  PROVE  /\ NewestForm(forms) \in forms
         /\ \A c \in forms : observed[c].number <= observed[NewestForm(forms)].number
<1> DEFINE S == {observed[b].number : b \in forms}
<1>1. Cardinality(frames) \in Nat
  BY FS_CardinalityType DEF FramesInv, Numbered
<1>2. \A b \in forms : observed[b] \in frames /\ observed[b] \in Observations
  BY DEF FramesInv, Numbered, NewestIsHeld
<1>3. \A b \in forms : observed[b].number \in 0 .. Cardinality(frames)
  BY <1>1, <1>2 DEF FramesInv, Numbered, Observations
<1>4. S \subseteq 0 .. Cardinality(frames) /\ S # {}
  BY <1>3
<1>5. \E x \in S : \A y \in S : y <= x
  <2> HIDE DEF S
  <2> QED BY <1>1, <1>4, NewestIsThere
<1>6. \E b \in forms : \A c \in forms : observed[c].number <= observed[b].number
  BY <1>5
<1> QED BY <1>6 DEF NewestForm

LEMMA HeldIsTheLatest == FramesInv => LatestTruthIsSaid
<1> SUFFICES ASSUME FramesInv, NEW a \in Addresses
    PROVE  IF Standing(a) = {} THEN Answer(a, Sample) = NoKind
           ELSE \E f \in Standing(a) :
                  /\ \A g \in Standing(a) : g.number <= f.number
                  /\ Answer(a, Sample) = f.kind
  BY DEF LatestTruthIsSaid
<1> DEFINE forms == CurrentForms(a, Sample)
<1>1. FormsOf(a) \subseteq Addresses
  BY DEF FormsOf
<1>2. \A b \in forms : observed[b] # NoFrame /\ b \in FormsOf(a) /\ Current(observed[b], Sample)
  BY DEF CurrentForms, Current
<1>3. \A b \in forms : observed[b] \in Standing(a)
  <2> SUFFICES ASSUME NEW b \in forms PROVE observed[b] \in Standing(a)
    OBVIOUS
  <2>1. b \in Addresses /\ observed[b] # NoFrame
    BY <1>1, <1>2
  <2>2. observed[b] \in frames \ over /\ observed[b].address = b
    BY <2>1 DEF FramesInv, NewestIsHeld
  <2> QED BY <1>2, <2>2 DEF Standing
<1>4. \A f \in Standing(a) :
        f.address \in forms /\ f.number <= observed[f.address].number
        /\ observed[f.address].number \in Nat /\ f.number \in Nat
  <2> SUFFICES ASSUME NEW f \in Standing(a)
      PROVE  f.address \in forms /\ f.number <= observed[f.address].number
             /\ observed[f.address].number \in Nat /\ f.number \in Nat
    OBVIOUS
  <2>1. f \in frames \ over /\ f.address \in FormsOf(a) /\ Current(f, Sample)
    BY DEF Standing
  <2>2. observed[f.address] \in frames \ over /\ Current(observed[f.address], Sample)
        /\ f.number <= observed[f.address].number
    BY <2>1, HeldIsTruer
  <2>3. f.address \in forms
    BY <2>1, <2>2 DEF CurrentForms
  <2>4. observed[f.address] \in Observations /\ f \in Observations
    BY <2>1, <2>2 DEF FramesInv, Numbered
  <2> HIDE DEF forms
  <2> QED BY <2>2, <2>3, <2>4 DEF Observations
<1>5. Answer(a, Sample) = IF forms = {} THEN NoKind ELSE observed[NewestForm(forms)].kind
  BY DEF Answer
<1> HIDE DEF forms
<1>6. CASE Standing(a) = {}
  BY <1>3, <1>5, <1>6
<1>7. CASE Standing(a) # {}
  <2>1. forms # {} /\ forms \subseteq Addresses
    BY <1>1, <1>2, <1>4, <1>7
  <2>2. /\ NewestForm(forms) \in forms
        /\ \A c \in forms : observed[c].number <= observed[NewestForm(forms)].number
    BY <1>2, <2>1, NewestFormIs
  <2> DEFINE newest == observed[NewestForm(forms)]
  <2>3. newest \in Standing(a) /\ Answer(a, Sample) = newest.kind
    BY <1>3, <1>5, <2>1, <2>2
  <2>4. newest.number \in Nat
    BY <2>3, <1>4
  <2>5. ASSUME NEW g \in Standing(a) PROVE g.number <= newest.number
    <3>1. g.number <= observed[g.address].number
      BY <1>4
    <3>2. observed[g.address].number <= newest.number
      BY <1>4, <2>2
    <3>3. g.number \in Nat /\ observed[g.address].number \in Nat
      BY <1>4
    <3> HIDE DEF newest
    <3> QED BY <2>4, <3>1, <3>2, <3>3
  <2> HIDE DEF newest
  <2> QED BY <1>7, <2>3, <2>5
<1> QED BY <1>6, <1>7

\* Time passes, and the claim is granted, renewed and given back.
LEMMA QuietKeepsFrames ==
  ASSUME FramesInv, LiveTypes', UNCHANGED <<consolidated, observed, frames, over>>,
         clock <= clock', granted <= granted',
         claim' # NoLiveClaim => claim'.token = granted'
  PROVE  FramesInv'
<1>1. clock \in Nat /\ clock' \in Nat /\ granted \in Nat /\ granted' \in Nat
  BY DEF FramesInv, LiveTypes
<1>2. ASSUME NEW f \in frames
      PROVE  f.token <= granted' /\ f.until <= clock' + Freshness
  <2>1. f \in Observations /\ f.token <= granted /\ f.until <= clock + Freshness
    BY DEF FramesInv, Numbered
  <2>2. f.token \in Nat /\ f.until \in Nat
    BY <2>1 DEF Observations
  <2> QED BY <1>1, <2>1, <2>2, ObservationsAssumption
<1>3. Numbered'
  BY <1>2 DEF FramesInv, Numbered
<1>4. NewerIsTruer' /\ NewestIsHeld'
  BY DEF FramesInv, NewerIsTruer, NewestIsHeld
<1> QED BY <1>3, <1>4 DEF FramesInv

\* An observation is the newest, and was made under the last claim.
LEMMA PresentKeepsFrames ==
  ASSUME FramesInv, LiveTypes', NEW a \in Addresses, Present(a)
  PROVE  FramesInv'
<1> DEFINE n == Cardinality(frames)
<1>1. n \in Nat /\ IsFiniteSet(frames) /\ frames \subseteq Observations /\ over \subseteq frames
  BY FS_CardinalityType DEF FramesInv, Numbered
<1>2. clock \in Nat /\ granted \in Nat /\ claim \in LiveClaims
  BY DEF FramesInv, LiveTypes
<1>3. UNCHANGED <<clock, claim, granted, over>> /\ claim # NoLiveClaim
  BY DEF Present, Commits
<1>4. claim.token = granted
  BY <1>3 DEF FramesInv, Numbered
<1>5. PICK kind \in Kinds :
        LET frame == [number |-> n + 1, address |-> a, kind |-> kind,
                      until |-> clock + Freshness, token |-> claim.token]
        IN observed' = [observed EXCEPT ![a] = frame] /\ frames' = frames \cup {frame}
  BY DEF Present
<1> DEFINE frame == [number |-> n + 1, address |-> a, kind |-> kind,
                     until |-> clock + Freshness, token |-> claim.token]
<1>6. /\ frame \in Observations /\ frame.number = n + 1 /\ frame.address = a
      /\ frame.until = clock + Freshness /\ frame.token = granted
  BY <1>1, <1>2, <1>4, ObservationsAssumption DEF Observations
<1>7. observed' = [observed EXCEPT ![a] = frame] /\ frames' = frames \cup {frame}
  BY <1>5
<1>8. \A f \in frames :
        /\ f \in Observations /\ 1 <= f.number /\ f.number <= n
        /\ f.token <= granted /\ f.until <= clock + Freshness
        /\ f.number \in Nat /\ f.token \in Nat /\ f.until \in Nat
  BY DEF FramesInv, Numbered, Observations
<1> HIDE DEF frame
<1>9. frame \notin frames /\ frame # NoFrame
  <2>1. ~ (n + 1 <= n) /\ n + 1 # 0
    BY <1>1
  <2> QED BY <1>6, <1>8, <2>1 DEF NoFrame
<1>10. IsFiniteSet(frames') /\ Cardinality(frames') = n + 1
  BY <1>1, <1>7, <1>9, FS_AddElement
<1>11. Numbered'
  <2>1. frames' \subseteq Observations /\ over' \subseteq frames'
    BY <1>1, <1>3, <1>6, <1>7
  <2>2. ASSUME NEW f \in frames'
        PROVE  /\ 1 <= f.number /\ f.number <= n + 1
               /\ f.token <= granted' /\ f.until <= clock' + Freshness
    <3>1. CASE f \in frames
      BY <1>1, <1>3, <1>8, <3>1
    <3>2. CASE f = frame
      <4>1. clock + Freshness \in Nat
        BY <1>2, ObservationsAssumption
      <4> QED BY <1>1, <1>2, <1>3, <1>6, <3>2, <4>1
    <3> QED BY <1>7, <3>1, <3>2
  <2> QED BY <1>3, <1>4, <1>10, <2>1, <2>2 DEF Numbered
<1>12. NewerIsTruer'
  <2> SUFFICES ASSUME NEW f \in frames', NEW g \in frames', f.number <= g.number
      PROVE  f.token <= g.token /\ f.until <= g.until
    BY DEF NewerIsTruer
  <2>1. clock + Freshness \in Nat
    BY <1>2, ObservationsAssumption
  <2>2. CASE f \in frames /\ g \in frames
    BY <2>2 DEF FramesInv, NewerIsTruer
  <2>3. CASE f = frame /\ g \in frames
    BY <1>1, <1>6, <1>8, <2>3
  <2>4. CASE f \in frames /\ g = frame
    BY <1>6, <1>8, <2>4
  <2>5. CASE f = frame /\ g = frame
    BY <1>2, <1>6, <2>1, <2>5
  <2> QED BY <1>7, <2>2, <2>3, <2>4, <2>5
<1>13. NewestIsHeld'
  <2>1. observed \in [Addresses -> Observations \cup {NoFrame}]
    BY DEF FramesInv, NewestIsHeld
  <2>2. observed' \in [Addresses -> Observations \cup {NoFrame}]
    BY <1>6, <1>7, <2>1
  <2>3. ASSUME NEW b \in Addresses
        PROVE  /\ observed'[b] = NoFrame => \A f \in frames' : f.address = b => f \in over'
               /\ observed'[b] # NoFrame =>
                    /\ observed'[b] \in frames' \ over' /\ observed'[b].address = b
                    /\ \A f \in frames' : f.address = b => f.number <= observed'[b].number
    <3>1. CASE b = a
      <4>1. observed'[b] = frame
        BY <1>7, <2>1, <3>1
      <4>2. \A f \in frames' : f.number <= frame.number
        BY <1>1, <1>6, <1>7, <1>8
      <4>3. frame \in frames' \ over'
        BY <1>1, <1>3, <1>7, <1>9
      <4> QED BY <1>6, <1>9, <3>1, <4>1, <4>2, <4>3
    <3>2. CASE b # a
      <4>1. observed'[b] = observed[b]
        BY <1>7, <2>1, <3>2
      <4>2. \A f \in frames' : f.address = b => f \in frames
        BY <1>6, <1>7, <3>2
      <4>3. /\ observed[b] = NoFrame => \A f \in frames : f.address = b => f \in over
            /\ observed[b] # NoFrame =>
                 /\ observed[b] \in frames \ over /\ observed[b].address = b
                 /\ \A f \in frames : f.address = b => f.number <= observed[b].number
        BY DEF FramesInv, NewestIsHeld
      <4> QED BY <1>3, <1>7, <4>1, <4>2, <4>3
    <3> QED BY <3>1, <3>2
  <2> QED BY <2>2, <2>3 DEF NewestIsHeld
<1> QED BY <1>11, <1>12, <1>13 DEF FramesInv

\* Whoever is gone is gone under every address known of him.
LEMMA UnavailableKeepsFrames ==
  ASSUME FramesInv, LiveTypes', NEW a \in Addresses, Unavailable(a)
  PROVE  FramesInv'
<1>1. /\ UNCHANGED <<clock, claim, granted, frames>>
      /\ observed' = [b \in Addresses |-> IF b \in FormsOf(a) THEN NoFrame ELSE observed[b]]
      /\ over' = over \cup {f \in frames : f.address \in FormsOf(a)}
  BY DEF Unavailable, Commits, Released
<1>2. Numbered' /\ NewerIsTruer'
  BY <1>1 DEF FramesInv, Numbered, NewerIsTruer
<1>3. NewestIsHeld'
  <2>1. observed \in [Addresses -> Observations \cup {NoFrame}]
    BY DEF FramesInv, NewestIsHeld
  <2>2. observed' \in [Addresses -> Observations \cup {NoFrame}]
    BY <1>1, <2>1
  <2>3. ASSUME NEW b \in Addresses
        PROVE  /\ observed'[b] = NoFrame => \A f \in frames' : f.address = b => f \in over'
               /\ observed'[b] # NoFrame =>
                    /\ observed'[b] \in frames' \ over' /\ observed'[b].address = b
                    /\ \A f \in frames' : f.address = b => f.number <= observed'[b].number
    <3>1. /\ observed[b] = NoFrame => \A f \in frames : f.address = b => f \in over
          /\ observed[b] # NoFrame =>
               /\ observed[b] \in frames \ over /\ observed[b].address = b
               /\ \A f \in frames : f.address = b => f.number <= observed[b].number
      BY DEF FramesInv, NewestIsHeld
    <3>2. CASE b \in FormsOf(a)
      <4>1. observed'[b] = NoFrame
        BY <1>1, <3>2
      <4>2. \A f \in frames' : f.address = b => f \in over'
        BY <1>1, <3>2
      <4> QED BY <4>1, <4>2
    <3>3. CASE b \notin FormsOf(a)
      <4>1. observed'[b] = observed[b]
        BY <1>1, <3>3
      <4>2. observed[b] # NoFrame => observed[b] \notin over'
        BY <1>1, <3>1, <3>3
      <4>3. over \subseteq over' /\ frames' = frames
        BY <1>1
      <4> QED BY <3>1, <4>1, <4>2, <4>3
    <3> QED BY <3>2, <3>3
  <2> QED BY <2>2, <2>3 DEF NewestIsHeld
<1> QED BY <1>2, <1>3 DEF FramesInv

LEMMA StepsKeepFrames ==
  ASSUME FramesInv, LiveTypes', [LiveNext]_liveVars
  PROVE  FramesInv'
<1>1. clock \in Nat /\ granted \in Nat /\ (claim # NoLiveClaim => claim.token = granted)
  BY DEF FramesInv, LiveTypes, Numbered
<1>2. CASE ClockTicks \/ ClaimGranted \/ ClaimRenewed \/ ClaimGivenBack
  <2>1. UNCHANGED <<consolidated, observed, frames, over>>
    BY <1>2 DEF ClockTicks, ClaimGranted, ClaimRenewed, ClaimGivenBack, Between, Quiet
  <2>2. clock <= clock' /\ granted <= granted'
    BY <1>1, <1>2 DEF ClockTicks, ClaimGranted, ClaimRenewed, ClaimGivenBack, Between
  <2>3. claim' # NoLiveClaim => claim'.token = granted'
    <3>1. claim \in LiveClaims
      BY DEF FramesInv, LiveTypes
    <3> QED BY <1>1, <1>2, <3>1
            DEF ClockTicks, ClaimGranted, ClaimRenewed, ClaimGivenBack, LiveClaims
  <2> QED BY <2>1, <2>2, <2>3, QuietKeepsFrames
<1>3. ASSUME UNCHANGED <<clock, granted, observed, frames, over>>,
             claim' \in {claim, NoLiveClaim}
      PROVE  FramesInv'
  BY <1>3 DEF FramesInv, Numbered, NewerIsTruer, NewestIsHeld
<1>4. CASE \/ Delivered \/ Consolidated \/ RuntimeCloses \/ FollowingFails \/ ClientCloses
           \/ UNCHANGED liveVars
  BY <1>3, <1>4 DEF Delivered, Consolidated, RuntimeCloses, FollowingFails, ClientCloses,
     Commits, liveVars
<1>5. CASE RuntimeStops \/ Subscriptions \/ ListenersReleased
  BY <1>3, <1>5 DEF RuntimeStops, StopsRuntime, Subscriptions, ListenersReleased, Between,
     Quiet
<1>6. ASSUME NEW l \in listening,
             \/ Read(l) \/ ReadAndPage(l) \/ ReadAndClose(l)
             \/ ReadAndStop(l) \/ ReadAndSubscribe(l)
      PROVE  FramesInv'
  BY <1>3, <1>6 DEF Read, ReadAndPage, ReadAndClose, ReadAndStop, ReadAndSubscribe,
     StopsRuntime, Calls
<1> QED BY <1>2, <1>4, <1>5, <1>6, PresentKeepsFrames, UnavailableKeepsFrames DEF LiveNext

\* Whatever address of a contact is asked for, the client says the last thing
\* observed that is still true (client.ts, runtime.ts), for any addresses, clock
\* and number of observations.
THEOREM LatestIsSaid == LiveSpec => []LatestTruthIsSaid
<1>1. LiveInit => BurstInv /\ FramesInv
  <2> SUFFICES ASSUME LiveInit PROVE BurstInv /\ FramesInv
    OBVIOUS
  <2>1. LiveTypes
    BY DEF LiveInit, LiveTypes, NoLiveClaim, LiveClaims, Delivering
  <2>2. Burst(Sample)
    BY DEF LiveInit, Burst
  <2>3. Numbered /\ NewerIsTruer /\ NewestIsHeld
    BY FS_EmptySet DEF LiveInit, Numbered, NewerIsTruer, NewestIsHeld
  <2> QED BY <2>1, <2>2, <2>3, SampleType DEF BurstInv, FramesInv
<1>2. BurstInv /\ FramesInv /\ [LiveNext]_liveVars => BurstInv' /\ FramesInv'
  <2> SUFFICES ASSUME BurstInv, FramesInv, [LiveNext]_liveVars
      PROVE  BurstInv' /\ FramesInv'
    OBVIOUS
  <2>1. BurstInv'
    BY StepsKeepBurst
  <2>2. LiveTypes'
    BY <2>1 DEF BurstInv
  <2> QED BY <2>1, <2>2, StepsKeepFrames
<1> QED BY <1>1, <1>2, HeldIsTheLatest, PTL DEF LiveSpec

=============================================================================
