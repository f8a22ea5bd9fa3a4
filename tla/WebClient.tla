----------------------------- MODULE WebClient -----------------------------
(***************************************************************************)
(* The web example: the application beside the client, which counts what    *)
(* it announces and answers what there is to show (whatsapp-application.ts), *)
(* the stream that tells a browser of a change (api/events), and the        *)
(* browser, which reloads its view on each (whatsapp-browser.ts).           *)
(*                                                                         *)
(* What is shown is abstracted to two moments of the application: when its  *)
(* chats, groups and account were read, and when the answer was made, with  *)
(* the messages. Every chat is previewed.                                  *)
(***************************************************************************)
EXTENDS Naturals, FiniteSets

CONSTANTS
  WebChats,
  NoWebChat,
  WebCommands,    \* commands of the browser, one at a time each
  MaxAnnounced    \* bound on the announcements, for model checking

ASSUME WebAssumption ==
  IsFiniteSet(WebChats) /\ NoWebChat \notin WebChats /\ MaxAnnounced \in Nat

VARIABLES
  announced,   \* the application's revision
  pages,       \* the first page of each chat in the client
  selected,    \* the browser's
  view,        \* what it shows
  failed,      \* it shows an error
  requests,    \* for a state, under way
  stream,      \* its EventSource
  notices,     \* changes on their way in it
  commands,    \* where each command is
  pending      \* how many it shows to be

webVars == <<announced, pages, selected, view, failed, requests, stream, notices,
             commands, pending>>

Moments == 0 .. MaxAnnounced
Selections == WebChats \cup {NoWebChat}

WebTypeOK ==
  /\ announced \in Moments
  /\ pages \in [WebChats -> {"stored", "loading", "loaded"}]
  /\ selected \in Selections
  /\ view \in [chat : Selections, read : Moments, revision : Moments]
  /\ failed \in BOOLEAN
  /\ requests \subseteq
       [chat : Selections, stage : {"sent", "reading", "answered", "refused"},
        read : Moments, revision : Moments]
  /\ stream \in {"closed", "connecting", "open"}
  /\ notices \in Moments /\ (stream # "open" => notices = 0)
  /\ commands \in [WebCommands -> {"idle", "sent", "done", "reloading"}]
  /\ pending = Cardinality({c \in WebCommands : commands[c] # "idle"})

WebInit ==
  /\ announced = 0
  /\ pages = [c \in WebChats |-> "stored"]
  /\ selected = NoWebChat
  /\ view = [chat |-> NoWebChat, read |-> 0, revision |-> 0]
  /\ failed = FALSE /\ requests = {}
  /\ stream = "closed" /\ notices = 0
  /\ commands = [c \in WebCommands |-> "idle"] /\ pending = 0

-----------------------------------------------------------------------------
(***************************************************************************)
(* The application. Every change of the client is announced, the start and  *)
(* the end of a page read among them.                                      *)
(***************************************************************************)
Tells(times) ==
  /\ announced + times <= MaxAnnounced
  /\ announced' = announced + times
  /\ notices' = IF stream = "open" THEN notices + times ELSE notices

BrowserIdle == UNCHANGED <<selected, view, failed, stream, commands, pending>>

\* A client that takes a new snapshot forgets the pages it had.
Changed ==
  /\ Tells(1)
  /\ pages' \in {pages, [c \in WebChats |-> "stored"]}
  /\ BrowserIdle /\ UNCHANGED requests

Step(r, moved) == requests' = (requests \ {r}) \cup {moved}

\* state(): it reads the records, and pages the chats that have no message yet.
StateBegins(r) ==
  LET missing == {c \in WebChats : pages[c] = "stored"} IN
  /\ r.stage = "sent"
  /\ Step(r, [r EXCEPT !.stage = "reading", !.read = announced])
  /\ pages' = [c \in WebChats |-> IF c \in missing THEN "loading" ELSE pages[c]]
  /\ Tells(Cardinality(missing))
  /\ BrowserIdle

\* A page lands, or its read fails and may be tried again.
PageSettles(c) ==
  /\ pages[c] = "loading"
  /\ \E landed \in {"loaded", "stored"} : pages' = [pages EXCEPT ![c] = landed]
  /\ Tells(1)
  /\ BrowserIdle /\ UNCHANGED requests

\* It answers once no page is being read, with the revision of that moment, unless
\* a page takes too long.
StateAnswers(r) ==
  /\ r.stage = "reading" /\ \A c \in WebChats : pages[c] # "loading"
  /\ Step(r, [r EXCEPT !.stage = "answered", !.revision = announced])
  /\ BrowserIdle /\ UNCHANGED <<announced, pages, notices>>

StateFails(r) ==
  /\ r.stage \in {"sent", "reading"}
  /\ Step(r, [r EXCEPT !.stage = "refused"])
  /\ BrowserIdle /\ UNCHANGED <<announced, pages, notices>>

-----------------------------------------------------------------------------
(***************************************************************************)
(* Reloading. One request at a time: whoever asks meanwhile shares it.     *)
(***************************************************************************)
Ask(chat) ==
  requests \cup {[chat |-> chat, stage |-> "sent", read |-> 0, revision |-> 0]}

\* A browser that asks each time.
ReloadEachTime(chat) == requests' = Ask(chat)

Reload(chat) == requests' = IF requests = {} THEN Ask(chat) ELSE requests

Served == UNCHANGED <<announced, pages>>

\* Commands that wait for the reload end with it.
Reloaded ==
  LET waiting == {c \in WebCommands : commands[c] = "reloading"} IN
  /\ commands' = [c \in WebCommands |-> IF c \in waiting THEN "idle" ELSE commands[c]]
  /\ pending' = pending - Cardinality(waiting)

StateArrives(r) ==
  /\ r.stage = "answered"
  /\ requests' = requests \ {r}
  /\ view' = [chat |-> r.chat, read |-> r.read, revision |-> r.revision]
  /\ failed' = FALSE
  /\ Reloaded
  /\ Served /\ UNCHANGED <<selected, stream, notices>>

StateRefused(r) ==
  /\ r.stage = "refused"
  /\ requests' = requests \ {r}
  /\ failed' = TRUE
  /\ Reloaded
  /\ Served /\ UNCHANGED <<selected, view, stream, notices>>

-----------------------------------------------------------------------------
(***************************************************************************)
(* The stream: the first subscriber opens it and the last one closes it;   *)
(* it is ready once the application knows of it, and reconnects by itself. *)
(***************************************************************************)
StreamOnly == Served /\ UNCHANGED <<selected, view, commands, pending>>

Subscribe ==
  /\ stream = "closed"
  /\ stream' = "connecting"
  /\ StreamOnly /\ UNCHANGED <<failed, requests, notices>>

Unsubscribe ==
  /\ stream # "closed"
  /\ stream' = "closed" /\ notices' = 0
  /\ StreamOnly /\ UNCHANGED <<failed, requests>>

Ready ==
  /\ stream = "connecting"
  /\ stream' = "open"
  /\ Reload(selected)
  /\ StreamOnly /\ UNCHANGED <<failed, notices>>

StreamLost ==
  /\ stream # "closed"
  /\ stream' = "connecting" /\ notices' = 0
  /\ failed' = TRUE
  /\ StreamOnly /\ UNCHANGED requests

ChangeHeard ==
  /\ notices > 0
  /\ notices' = notices - 1
  /\ Reload(selected)
  /\ StreamOnly /\ UNCHANGED <<failed, stream>>

-----------------------------------------------------------------------------
(***************************************************************************)
(* The user: a selection, and commands.                                    *)
(***************************************************************************)
Select(chat) ==
  /\ selected' = chat /\ failed' = FALSE
  /\ Reload(chat)
  /\ Served /\ UNCHANGED <<view, stream, notices, commands, pending>>

Run(c) ==
  /\ commands[c] = "idle"
  /\ commands' = [commands EXCEPT ![c] = "sent"]
  /\ pending' = pending + 1 /\ failed' = FALSE
  /\ Served /\ UNCHANGED <<selected, view, requests, stream, notices>>

\* A command on a group is announced when it is done; others show in the client.
CommandDone(c) ==
  /\ commands[c] = "sent"
  /\ commands' = [commands EXCEPT ![c] = "done"]
  /\ Tells(1) \/ UNCHANGED <<announced, notices>>
  /\ UNCHANGED <<pages, selected, view, failed, requests, stream, pending>>

CommandAnswered(c) ==
  /\ commands[c] = "done"
  /\ commands' = [commands EXCEPT ![c] = "reloading"]
  /\ Reload(selected)
  /\ Served /\ UNCHANGED <<selected, view, failed, stream, notices, pending>>

CommandFails(c) ==
  /\ commands[c] \in {"sent", "done"}
  /\ commands' = [commands EXCEPT ![c] = "idle"]
  /\ pending' = pending - 1 /\ failed' = TRUE
  /\ Served /\ UNCHANGED <<selected, view, requests, stream, notices>>

WebNext ==
  \/ Changed \/ Subscribe \/ Unsubscribe \/ Ready \/ StreamLost \/ ChangeHeard
  \/ \E r \in requests :
       \/ StateBegins(r) \/ StateAnswers(r) \/ StateFails(r)
       \/ StateArrives(r) \/ StateRefused(r)
  \/ \E c \in WebChats : PageSettles(c)
  \/ \E c \in Selections : Select(c)
  \/ \E c \in WebCommands : Run(c) \/ CommandDone(c) \/ CommandAnswered(c) \/ CommandFails(c)

WebSpec == WebInit /\ [][WebNext]_webVars

-----------------------------------------------------------------------------
(***************************************************************************)
(* Properties.                                                             *)
(***************************************************************************)
\* However selections, commands, changes and reconnections ask for a reload while
\* another one is under way, what is shown never goes back to an earlier moment
\* of the application.
ViewNeverGoesBack ==
  [][view'.read >= view.read /\ view'.revision >= view.revision]_webVars
=============================================================================
