------------------------------- MODULE Session -------------------------------
(***************************************************************************)
(* One live session (session.ts) over the sockets it opens and the         *)
(* credentials it keeps: the supervisor that reconnects, the serial event  *)
(* pipeline that runs the machine and awaits the subscribed handlers, the  *)
(* timers, and stop(). Each action is what runs between two awaits.        *)
(*                                                                         *)
(* Handlers, credential store and WhatsApp are the environment: a handler  *)
(* settles either way, a write may fail, a socket may close at any time.   *)
(* The pipeline is a line of steps; a step that awaits something stays at  *)
(* the head of the line until it settles.                                  *)
(***************************************************************************)
EXTENDS ConnectionMachine, Sequences

CONSTANTS
  MaxQueued,   \* bounds for model checking: a socket emits only while fewer
  MaxWrites    \* events wait, and updates creds while fewer writes do

ASSUME SessionAssumption == {MaxQueued, MaxWrites} \subseteq Nat

VARIABLES
  status,        \* the machine
  stopped,
  pc,            \* where the supervisor is
  failure,       \* what the run under way failed with
  outcome,       \* how the supervisor settled
  halting,       \* where stop() is
  report,        \* how stop() settled
  line,          \* the event pipeline
  awaiting,      \* what the head of the line awaits
  fault,         \* what the pipeline failed with; it then runs no more
  firstQrSeen,
  verdictFired,
  verdictTimer,  \* armed or not
  syncTimer,
  initialSyncComplete,
  conn,          \* the latest socket
  end,           \* its end(): not called, draining, or drained
  life,          \* how far it got
  queue,         \* its events not yet taken
  creds,         \* the credentials in its memory
  writes,        \* its saves not yet made
  saveFailed,
  stored,        \* the credentials in the store
  rejected       \* some handler has rejected

statusVars == <<status, stopped, method>>
superVars == <<pc, failure, outcome>>
haltVars == <<halting, report>>
lineVars == <<line, awaiting, fault>>
timerVars == <<firstQrSeen, verdictFired, verdictTimer, syncTimer,
               initialSyncComplete>>
connVars == <<conn, end, life, queue, creds>>
saveVars == <<writes, saveFailed, stored>>
vars == <<statusVars, superVars, haltVars, lineVars, timerVars, connVars,
          saveVars, rejected>>

Kinds == {"subscriber", "teardown", "run"}
Events ==
  {"qr", "paired", "open", "pending_drained", "sync_progress",
   "sync_complete", "message"} \cup Closes
Steps == Inputs \cup {"request", "arm_verdict", "arm_sync", "clear_sync", "deliver"}
Lives == {"handshake", "paired", "open"}
Creds == {"none", "linked", "synced"}

TypeOK ==
  /\ method \in Methods
  /\ status \in Statuses /\ stopped \in BOOLEAN
  /\ pc \in {"off", "starting", "opening", "events", "teardown", "ending",
             "closing", "backoff", "retrying", "failing", "settled"}
  /\ failure \in Kinds \cup {"none", "processing"}
  /\ outcome \in Kinds \cup {"none", "ok", "leaked"}
  /\ halting \in {"no", "ending", "joining", "settling", "done"}
  /\ report \in Kinds \cup {"none", "ok"}
  /\ line \in Seq(Steps) /\ awaiting \in {"nothing", "handlers", "wipe", "code"}
  /\ fault \in {"none", "subscriber", "processing", "run"}
  /\ firstQrSeen \in BOOLEAN /\ verdictFired \in BOOLEAN
  /\ verdictTimer \in BOOLEAN /\ syncTimer \in BOOLEAN
  /\ initialSyncComplete \in BOOLEAN
  /\ conn \in {"none", "live", "closed"} /\ end \in {"no", "draining", "drained"}
  /\ life \in Lives /\ queue \in Seq(Events) /\ creds \in Creds
  /\ writes \in Nat /\ saveFailed \in BOOLEAN /\ stored \in Creds
  /\ rejected \in BOOLEAN
  /\ awaiting # "nothing" => line # <<>>
  /\ fault # "none" => line = <<>>

Init ==
  /\ method \in Methods
  /\ status = At("disconnected") /\ stopped = FALSE
  /\ pc = "off" /\ failure = "none" /\ outcome = "none"
  /\ halting = "no" /\ report = "none"
  /\ line = <<>> /\ awaiting = "nothing" /\ fault = "none"
  /\ firstQrSeen = FALSE /\ verdictFired = FALSE
  /\ verdictTimer = FALSE /\ syncTimer = FALSE
  /\ initialSyncComplete = FALSE
  /\ conn = "none" /\ end = "no" /\ life = "handshake" /\ queue = <<>>
  /\ creds = "none"
  /\ writes = 0 /\ saveFailed = FALSE /\ stored \in Creds
  /\ rejected = FALSE

-----------------------------------------------------------------------------
(***************************************************************************)
(* The event pipeline. What an event asks for (handle) is put on the line  *)
(* when the supervisor takes it.                                           *)
(***************************************************************************)
Work(event) ==
  CASE event = "qr" /\ ~firstQrSeen ->
         IF method = "qr" THEN <<"ready">>
         ELSE <<"ready", "request", "code_ready", "arm_verdict">>
    [] event = "qr" /\ firstQrSeen ->
         IF method = "qr" THEN <<"qr_refresh">>
         ELSE IF verdictFired THEN <<>> ELSE <<"pairing_rejected">>
    [] event = "open" /\ initialSyncComplete -> <<"open", "arm_sync">>
    [] event = "pending_drained" /\ initialSyncComplete ->
         <<"pending_drained", "clear_sync", "synced">>
    [] event = "sync_complete" -> <<"synced">>
    [] event = "message"       -> <<"deliver">>
    [] OTHER                   -> <<event>>

\* A QR after the first is, for a pairing code, the verdict.
Refused(event) == event = "qr" /\ firstQrSeen /\ method = "pairing_code"

Take ==
  /\ pc = "events" /\ fault = "none" /\ line = <<>> /\ queue # <<>>
  /\ queue' = Tail(queue)
  /\ LET event == queue[1] IN
     /\ line' = Work(event)
     /\ firstQrSeen' = (firstQrSeen \/ event = "qr")
     /\ verdictFired' = (verdictFired \/ Refused(event))
     /\ verdictTimer' =
          (verdictTimer /\ ~Refused(event) /\ event \notin Closes \cup {"paired"})
     /\ syncTimer' =
          (syncTimer /\ event \notin Closes \cup {"sync_complete"})
  /\ UNCHANGED <<statusVars, superVars, haltVars, awaiting, fault,
                 initialSyncComplete, conn, end, life, creds, saveVars, rejected>>

\* A step ends and the next one is at the head.
Done ==
  /\ line' = Tail(line) /\ awaiting' = "nothing"
  /\ UNCHANGED fault

\* A step rejects: the line is abandoned, and nothing is queued on it again.
Break(kind) ==
  /\ line' = <<>> /\ awaiting' = "nothing" /\ fault' = kind

Await(what) ==
  /\ awaiting' = what
  /\ UNCHANGED <<line, fault>>

Ready(steps) == line # <<>> /\ awaiting = "nothing" /\ line[1] \in steps
Awaiting(what) == line # <<>> /\ awaiting = what

PipelineOnly ==
  UNCHANGED <<stopped, superVars, haltVars, firstQrSeen, verdictFired,
              initialSyncComplete, connVars, writes, saveFailed, method>>

\* apply(): dead credentials are wiped before logged_out is announced.
Apply ==
  /\ Ready(Inputs)
  /\ LET input == line[1] IN
     \/ ~Moves(status, input) /\ Done /\ UNCHANGED status
     \/ /\ Moves(status, input)
        /\ Transition(status, input).phase = "logged_out"
        /\ Await("wipe") /\ UNCHANGED status
     \/ /\ Moves(status, input)
        /\ Transition(status, input).phase # "logged_out"
        /\ status' = Transition(status, input)
        /\ Await("handlers")
  /\ PipelineOnly
  /\ UNCHANGED <<verdictTimer, syncTimer, stored, rejected>>

\* A wipe that rejects may have wiped. What the verdict asked for was queued
\* as it is, what an event asks for is marked as failed processing.
Wiped ==
  /\ Awaiting("wipe")
  /\ \/ /\ stored' = "none"
        /\ status' = At("logged_out")
        /\ Await("handlers")
     \/ /\ stored' \in {stored, "none"}
        /\ Break(IF line[1] = "pairing_rejected" THEN "run" ELSE "processing")
        /\ UNCHANGED status
  /\ PipelineOnly
  /\ UNCHANGED <<verdictTimer, syncTimer, rejected>>

\* Every subscribed handler has settled, or the first of them has rejected.
Handled ==
  /\ Awaiting("handlers")
  /\ \/ Done /\ UNCHANGED rejected
     \/ Break("subscriber") /\ rejected' = TRUE
  /\ PipelineOnly
  /\ UNCHANGED <<status, verdictTimer, syncTimer, stored>>

Deliver ==
  /\ Ready({"deliver", "request"})
  /\ Await(IF line[1] = "deliver" THEN "handlers" ELSE "code")
  /\ PipelineOnly
  /\ UNCHANGED <<status, verdictTimer, syncTimer, stored, rejected>>

\* The pairing code comes back, or the socket refuses to ask for one.
CodeAnswered ==
  /\ Awaiting("code")
  /\ Done \/ Break("processing")
  /\ PipelineOnly
  /\ UNCHANGED <<status, verdictTimer, syncTimer, stored, rejected>>

SetTimers ==
  /\ Ready({"arm_verdict", "arm_sync", "clear_sync"})
  /\ verdictTimer' = (verdictTimer \/ line[1] = "arm_verdict")
  /\ syncTimer' = (line[1] = "arm_sync" \/ (syncTimer /\ line[1] # "clear_sync"))
  /\ Done
  /\ PipelineOnly
  /\ UNCHANGED <<status, stored, rejected>>

Pipeline ==
  Apply \/ Wiped \/ Handled \/ Deliver \/ CodeAnswered \/ SetTimers

(***************************************************************************)
(* Timers are macrotasks: none fires between an event and its being taken, *)
(* or between two steps of the line. Once the line is broken their work is *)
(* dropped.                                                                *)
(***************************************************************************)
MicrotasksDone ==
  /\ line # <<>> => awaiting # "nothing"
  /\ pc = "events" /\ line = <<>> /\ fault = "none" => queue = <<>>

Enqueue(input) ==
  line' = IF fault = "none" THEN Append(line, input) ELSE line

TimersOnly ==
  UNCHANGED <<statusVars, superVars, haltVars, awaiting, fault, firstQrSeen,
              initialSyncComplete, connVars, saveVars, rejected>>

VerdictDue ==
  /\ verdictTimer /\ MicrotasksDone
  /\ verdictTimer' = FALSE
  /\ verdictFired' = TRUE
  /\ IF verdictFired THEN UNCHANGED line ELSE Enqueue("pairing_rejected")
  /\ TimersOnly
  /\ UNCHANGED syncTimer

SyncDue ==
  /\ syncTimer /\ MicrotasksDone
  /\ syncTimer' = FALSE
  /\ Enqueue("synced")
  /\ TimersOnly
  /\ UNCHANGED <<verdictTimer, verdictFired>>

-----------------------------------------------------------------------------
(***************************************************************************)
(* The supervisor: open a socket, take its events until it closes, tear it *)
(* down, and go round.                                                     *)
(***************************************************************************)
AtRest(s) == s.phase \in Final \cup {"disconnected"}

Settle(how) ==
  /\ pc' = "settled" /\ outcome' = how
  /\ UNCHANGED <<status, stopped>>

\* After a run: done, back off, or open another socket.
Continue(s) ==
  \/ (AtRest(s) \/ (stopped /\ s.phase # "backing_off")) /\ Settle("ok")
  \/ /\ ~AtRest(s) /\ (s.phase = "backing_off" \/ ~stopped)
     /\ pc' = IF s.phase = "backing_off" THEN "backoff" ELSE "opening"
     /\ UNCHANGED <<status, stopped, outcome>>

\* apply(input) of the supervisor: nothing of its own leads to logged_out. A
\* status that does not move is announced to nobody.
Announce(input, next) ==
  /\ status' = Transition(status, input)
  /\ pc' = next
  /\ UNCHANGED outcome

KindOf(f) == IF f = "processing" THEN "run" ELSE f

\* failTerminal(): no retry after a handler or the processing of an event.
FailTerminal(f) ==
  \/ Moves(status, "stop") /\ Announce("stop", "failing") /\ stopped' = TRUE
  \/ /\ ~Moves(status, "stop")
     /\ pc' = "settled" /\ outcome' = KindOf(f) /\ stopped' = TRUE
     /\ UNCHANGED status

\* The catch of a run that failed with f.
RunFailed(f) ==
  \/ f \in {"subscriber", "processing"} /\ FailTerminal(f)
  \/ f \in {"teardown", "run"} /\ stopped /\ Settle(f)
  \/ /\ f = "run" /\ ~stopped
     /\ IF Moves(status, "closed_retryable")
        THEN Announce("closed_retryable", "closing") /\ UNCHANGED stopped
        ELSE Continue(status)

\* The order of a finally block: what is thrown last is what is reported.
LatestFailure(f) == "teardown"

\* preferredFailure(): a run that loses its credentials too.
Preferred(f) == IF f = "subscriber" THEN f ELSE "teardown"

SupervisorOnly ==
  UNCHANGED <<haltVars, verdictTimer, syncTimer, saveVars, rejected>>
SocketKept ==
  UNCHANGED <<lineVars, firstQrSeen, verdictFired, initialSyncComplete, connVars,
              method>>

Start ==
  /\ pc = "off"
  /\ Announce("start", "starting")
  /\ UNCHANGED <<stopped, failure>>
  /\ SupervisorOnly /\ SocketKept

\* The handlers of a status the supervisor announced have settled. Only some
\* of its awaits are inside a try.
Announced ==
  /\ \/ pc \in {"starting", "closing", "retrying"} /\ Continue(status)
        /\ UNCHANGED failure
     \/ /\ pc = "ending" /\ failure' = Preferred(failure)
        /\ RunFailed(failure')
     \/ pc = "failing" /\ Settle(KindOf(failure)) /\ UNCHANGED failure
  /\ UNCHANGED rejected
  /\ UNCHANGED <<haltVars, verdictTimer, syncTimer, saveVars>> /\ SocketKept

AnnouncementRejected ==
  /\ \/ /\ pc \in {"starting", "ending"} /\ failure' = "subscriber"
        /\ FailTerminal("subscriber")
     \/ pc = "failing" /\ Settle("subscriber") /\ UNCHANGED failure
     \/ pc \in {"closing", "retrying"} /\ Settle("leaked") /\ UNCHANGED failure
  /\ rejected' = TRUE
  /\ UNCHANGED <<haltVars, verdictTimer, syncTimer, saveVars>> /\ SocketKept

\* A supervisor that does not look whether it was stopped meanwhile.
OpenedRegardless ==
  /\ pc = "opening"
  /\ conn' = "live" /\ life' = "handshake" /\ queue' = <<>>
  /\ creds' = stored
  /\ initialSyncComplete' = (stored = "synced")
  /\ firstQrSeen' = FALSE /\ verdictFired' = FALSE
  /\ verdictTimer' = FALSE /\ syncTimer' = FALSE
  /\ line' = <<>> /\ awaiting' = "nothing" /\ fault' = "none"
  /\ failure' = "none" /\ saveFailed' = FALSE
  /\ pc' = "events" /\ end' = "no"
  /\ UNCHANGED <<statusVars, outcome, haltVars, writes, stored, rejected>>

\* loadAuth and openSocket. A stop that came meanwhile found no socket to end.
Opened ==
  /\ pc = "opening"
  /\ conn' = "live" /\ life' = "handshake" /\ queue' = <<>>
  /\ creds' = stored
  /\ initialSyncComplete' = (stored = "synced")
  /\ firstQrSeen' = FALSE /\ verdictFired' = FALSE
  /\ verdictTimer' = FALSE /\ syncTimer' = FALSE
  /\ line' = <<>> /\ awaiting' = "nothing" /\ fault' = "none"
  /\ failure' = "none" /\ saveFailed' = FALSE
  /\ pc' = IF stopped THEN "teardown" ELSE "events"
  /\ end' = IF stopped THEN "draining" ELSE "no"
  /\ UNCHANGED <<statusVars, outcome, haltVars, writes, stored, rejected>>

OpenFails ==
  /\ pc = "opening"
  /\ failure' = "run" /\ pc' = "teardown"
  /\ UNCHANGED <<statusVars, outcome>>
  /\ SupervisorOnly /\ SocketKept

\* A socket whose event queue is never closed.
RunEndsByFailure ==
  /\ pc = "events" /\ fault # "none"
  /\ failure' = fault /\ pc' = "teardown"
  /\ end' = IF end = "no" THEN "draining" ELSE end
  /\ SupervisorOnly
  /\ UNCHANGED <<statusVars, outcome, lineVars, firstQrSeen, verdictFired,
                 initialSyncComplete, conn, life, queue, creds>>

\* The events are exhausted, or the pipeline has failed.
RunEnds ==
  /\ pc = "events"
  /\ \/ /\ fault = "none" /\ line = <<>> /\ queue = <<>> /\ conn = "closed"
        /\ failure' = "none"
     \/ fault # "none" /\ failure' = fault
  /\ pc' = "teardown"
  /\ end' = IF end = "no" THEN "draining" ELSE end
  /\ SupervisorOnly
  /\ UNCHANGED <<statusVars, outcome, lineVars, firstQrSeen, verdictFired,
                 initialSyncComplete, conn, life, queue, creds>>

Ended == conn = "none" \/ end = "drained"

TornDown ==
  /\ pc = "teardown" /\ Ended
  /\ \/ ~saveFailed /\ failure = "none" /\ Continue(status) /\ UNCHANGED failure
     \/ ~saveFailed /\ failure # "none" /\ RunFailed(failure) /\ UNCHANGED failure
     \/ /\ saveFailed /\ Moves(status, "stop")
        /\ Announce("stop", "ending") /\ stopped' = TRUE /\ UNCHANGED failure
     \/ /\ saveFailed /\ ~Moves(status, "stop")
        /\ failure' = Preferred(failure)
        /\ \/ failure' = "subscriber" /\ FailTerminal("subscriber")
           \/ /\ failure' = "teardown" /\ pc' = "settled"
              /\ outcome' = "teardown" /\ stopped' = TRUE /\ UNCHANGED status
  /\ SupervisorOnly /\ SocketKept

RetryDue ==
  /\ pc = "backoff"
  /\ \/ stopped /\ Settle("ok")
     \/ ~stopped /\ Announce("retry_due", "retrying") /\ UNCHANGED stopped
  /\ UNCHANGED failure
  /\ SupervisorOnly /\ SocketKept

Supervisor ==
  \/ Take \/ Announced \/ Opened \/ OpenFails \/ RunEnds \/ TornDown \/ RetryDue

-----------------------------------------------------------------------------
(***************************************************************************)
(* stop(), and the socket's end(), which waits for the saves under way.    *)
(***************************************************************************)
\* An end() that does not wait for the saves under way.
DrainedAtOnce ==
  /\ end = "draining"
  /\ end' = "drained"
  /\ UNCHANGED <<statusVars, superVars, haltVars, lineVars, timerVars, conn, life,
                 queue, creds, saveVars, rejected>>

Drained ==
  /\ end = "draining" /\ writes = 0
  /\ end' = "drained"
  /\ UNCHANGED <<statusVars, superVars, haltVars, lineVars, timerVars, conn, life,
                 queue, creds, saveVars, rejected>>

StopOnly ==
  UNCHANGED <<superVars, lineVars, firstQrSeen, verdictFired, initialSyncComplete,
              conn, life, queue, creds, saveVars, method>>

Stop ==
  /\ halting = "no"
  /\ halting' = "ending" /\ stopped' = TRUE
  /\ verdictTimer' = FALSE /\ syncTimer' = FALSE
  /\ end' = IF conn # "none" /\ end = "no" THEN "draining" ELSE end
  /\ UNCHANGED <<status, report, rejected>>
  /\ StopOnly

\* Subscriber, teardown, run: the first that failed is thrown.
Verdict(handlerRejected) ==
  IF handlerRejected \/ outcome = "subscriber" THEN "subscriber"
  ELSE IF saveFailed \/ outcome = "teardown" THEN "teardown"
  ELSE CASE outcome = "leaked" -> "subscriber"
         [] outcome = "run"    -> "run"
         [] OTHER              -> "ok"

Report(handlerRejected) ==
  halting' = "done" /\ report' = Verdict(handlerRejected)

\* A stop() that does not wait for the supervisor.
StopUnjoined ==
  /\ halting = "ending" /\ end # "draining"
  /\ IF AtRest(status)
     THEN Report(FALSE) /\ UNCHANGED status
     ELSE /\ status' = Transition(status, "stop")
          /\ halting' = "settling" /\ UNCHANGED report
  /\ UNCHANGED <<stopped, verdictTimer, syncTimer, end, rejected>>
  /\ StopOnly

StopProceeds ==
  /\ \/ /\ halting = "ending" /\ end # "draining"
        /\ halting' = "joining"
        /\ UNCHANGED <<status, report, rejected>>
     \/ /\ halting = "joining" /\ pc \in {"off", "settled"}
        /\ IF AtRest(status)
           THEN Report(FALSE) /\ UNCHANGED status
           ELSE /\ status' = Transition(status, "stop")
                /\ halting' = "settling" /\ UNCHANGED report
        /\ UNCHANGED rejected
     \/ halting = "settling" /\ Report(FALSE) /\ UNCHANGED <<status, rejected>>
  /\ UNCHANGED <<stopped, verdictTimer, syncTimer, end>>
  /\ StopOnly

StopRejected ==
  /\ halting = "settling"
  /\ Report(TRUE) /\ rejected' = TRUE
  /\ UNCHANGED <<statusVars, verdictTimer, syncTimer, end>>
  /\ StopOnly

-----------------------------------------------------------------------------
(***************************************************************************)
(* WhatsApp, as far as the code relies on it: a socket without credentials *)
(* shows QRs until the device is paired, one with credentials opens and    *)
(* drains and syncs; it closes at any time, for good.                      *)
(***************************************************************************)
SocketOnly ==
  UNCHANGED <<statusVars, superVars, haltVars, lineVars, timerVars, end, rejected>>

Emits(event) ==
  CASE event \in {"qr", "paired"}      -> life = "handshake" /\ creds = "none"
    [] event = "open"                  -> life = "handshake" /\ creds # "none"
    [] event = "sync_complete"         -> life = "open" /\ creds = "linked"
    [] event \in {"pending_drained", "sync_progress", "message"}
                                       -> life = "open"
    [] OTHER                           -> FALSE

\* Pairing and the first sync change the credentials, which asks for a save.
Emit(event) ==
  /\ conn = "live" /\ Len(queue) < MaxQueued
  /\ Emits(event)
  /\ queue' = Append(queue, event)
  /\ life' = IF event \in {"paired", "open"} THEN event ELSE life
  /\ IF event \in {"paired", "sync_complete"}
     THEN /\ writes < MaxWrites /\ end # "drained"
          /\ writes' = writes + 1
          /\ creds' = IF event = "paired" THEN "linked" ELSE "synced"
     ELSE UNCHANGED <<writes, creds>>
  /\ UNCHANGED <<conn, saveFailed, stored>>
  /\ SocketOnly

CredsUpdate ==
  /\ conn = "live" /\ end # "drained" /\ creds # "none"
  /\ writes < MaxWrites
  /\ writes' = writes + 1
  /\ UNCHANGED <<conn, life, queue, creds, saveFailed, stored>>
  /\ SocketOnly

\* One save at a time; the first that rejects is what end() rejects with.
Save ==
  /\ writes > 0
  /\ writes' = writes - 1
  /\ \/ stored' = creds /\ UNCHANGED saveFailed
     \/ saveFailed' = TRUE /\ UNCHANGED stored
  /\ UNCHANGED <<conn, life, queue, creds>>
  /\ SocketOnly

\* Nothing but the close itself follows a close.
SocketCloses ==
  /\ conn = "live"
  /\ conn' = "closed"
  /\ \E close \in Closes :
       /\ close = "closed_intentional" <=> end # "no"
       /\ queue' = Append(queue, close)
  /\ UNCHANGED <<life, creds, saveVars>>
  /\ SocketOnly

Next ==
  \/ Start \/ Stop \/ Supervisor \/ AnnouncementRejected
  \/ Pipeline \/ VerdictDue \/ SyncDue
  \/ Drained \/ StopProceeds \/ StopRejected
  \/ \E event \in Events : Emit(event)
  \/ CredsUpdate \/ Save \/ SocketCloses

Spec == Init /\ [][Next]_vars

(***************************************************************************)
(* Fairness. Handlers, store and openSocket settle, delays run out, and a  *)
(* socket that was told to end closes.                                     *)
(***************************************************************************)
LiveSpec ==
  /\ Spec
  /\ WF_vars(Supervisor) /\ WF_vars(Pipeline) /\ WF_vars(StopProceeds)
  /\ WF_vars(Drained) /\ WF_vars(Save)
  /\ WF_vars(end # "no" /\ SocketCloses)

-----------------------------------------------------------------------------
(***************************************************************************)
(* Properties.                                                             *)
(***************************************************************************)
\* stop() does not return while anything of the session is alive: no socket
\* that was not told to end, no save under way, no supervisor that would open
\* another, "even when end() rejected".
StoppedMeansQuiet ==
  halting = "done" =>
    /\ conn # "none" => end = "drained" /\ writes = 0
    /\ pc \in {"off", "starting", "failing", "settled"}

\* Two sockets never write credentials at the same time: none is opened while
\* a save of its predecessor is under way.
OneWriter == pc = "opening" => writes = 0 /\ (conn # "none" => end = "drained")

\* ADR-0021: "A subscriber failure cannot be masked by a simultaneous
\* credential-drain or transport failure", neither from start() nor from stop().
HandlerFailureWins ==
  [][/\ outcome' # outcome /\ rejected' => outcome' \in {"subscriber", "leaked"}
     /\ report' # report /\ rejected' => report' = "subscriber"]_vars

\* logged_out and suspended are final, whatever the socket, the timers or a
\* stop still bring.
FinalIsFinal ==
  [][status.phase \in Final => status' = status]_vars

\* stop() settles whatever it interrupts: a socket being opened, a backoff, a
\* handler, a pairing.
StopSettles == (halting # "no") ~> (halting = "done")

\* A lost socket is noticed: another is opened or the session settles.
LossIsNoticed == (conn = "closed") ~> (pc \in {"opening", "settled"})

\* "on logged_out the credentials are gone" (session.ts:436).
LoggedOutMeansGone == status.phase = "logged_out" => stored = "none"

\* A handler that rejects ends the session: start() rejects and the status is
\* at rest ("the session must still settle disconnected").
RejectionSettles == rejected /\ pc = "settled" /\ halting = "no" => AtRest(status)
=============================================================================
