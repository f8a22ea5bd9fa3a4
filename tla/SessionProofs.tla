---------------------------- MODULE SessionProofs ----------------------------
(***************************************************************************)
(* Proofs about Session, for sockets with any number of events waiting and *)
(* of saves under way, either way of linking and any cap on the attempts,  *)
(* and, at the end, about SocketEvents, for payloads of any length and any *)
(* number of envelopes remembered.                                         *)
(***************************************************************************)
EXTENDS Session, SocketEvents, WellFoundedInduction, FiniteSetTheorems, TLAPS

USE MachineAssumption, SessionAssumption

(***************************************************************************)
(* The inductive invariant. First the sockets: one that is drained has no  *)
(* save left, and where the supervisor has none to look after, the last    *)
(* one is drained.                                                         *)
(***************************************************************************)
SocketsAreEnded ==
  /\ end = "drained" => writes = 0
  /\ conn = "none" => end = "no" /\ writes = 0 /\ ~saveFailed
  /\ pc \in {"off", "starting"} => conn = "none"
  /\ pc = "events" => conn # "none"
  /\ pc = "teardown" => conn = "none" \/ end # "no"
  /\ pc \notin {"off", "starting", "events", "teardown"}
       => conn = "none" \/ end = "drained"
  /\ pc \in {"opening", "closing", "backoff", "retrying"} => ~saveFailed

(***************************************************************************)
(* The line has work only while events are taken, for the timers that      *)
(* could bring more are off by then: the close, which is the last event of *)
(* a socket, stops them, unless the line is broken.                        *)
(***************************************************************************)
Arming == {"arm_verdict", "arm_sync"}

TimersOff == ~verdictTimer /\ ~syncTimer

CloseIsNext == queue # <<>> /\ queue[Len(queue)] \in Closes

LineIsTaken ==
  /\ pc # "events" => line = <<>>
  /\ pc # "events" /\ fault = "none" => TimersOff
  /\ pc = "events" /\ fault = "none" /\ conn = "closed" =>
       \/ CloseIsNext
       \/ /\ TimersOff /\ queue = <<>>
          /\ \A i \in DOMAIN line : line[i] \notin Arming

WipeIsDue == awaiting = "wipe" => status.phase \notin Final

(***************************************************************************)
(* stop() has latched; when it reports, the supervisor has settled or will *)
(* not open anything, even one that is started only then.                  *)
(***************************************************************************)
StopIsJoined ==
  /\ pc = "off" => status.phase = "disconnected"
  /\ pc = "starting" => status.phase # "backing_off"
  /\ halting # "no" => stopped
  /\ halting = "settling" => pc = "settled"
  /\ halting = "done" => pc \in {"off", "starting", "failing", "settled"}
  /\ report # "none" => halting = "done"

(***************************************************************************)
(* The rejection of a handler is on its way to whoever is told.            *)
(***************************************************************************)
RejectionIsKept ==
  /\ (outcome = "none") = (pc # "settled")
  /\ pc = "failing" => failure # "none"
  /\ outcome = "leaked" => ~saveFailed
  /\ report = "subscriber" => pc = "settled"
  /\ rejected =>
       \/ pc = "events" /\ fault = "subscriber"
       \/ pc \in {"teardown", "ending", "failing"} /\ failure = "subscriber"
       \/ outcome \in {"subscriber", "leaked"}
       \/ report = "subscriber"

IInv ==
  /\ TypeOK
  /\ SocketsAreEnded
  /\ LineIsTaken
  /\ WipeIsDue
  /\ StopIsJoined
  /\ RejectionIsKept

LEMMA InitInvariant == Init => IInv
<1> SUFFICES ASSUME Init PROVE IInv
  OBVIOUS
<1>1. status \in Statuses /\ status.phase = "disconnected"
  BY DEF Init, At, Statuses, Phases
<1>2. TypeOK
  <2>1. /\ method \in Methods /\ stored \in Creds /\ writes \in Nat
        /\ line \in Seq(Steps) /\ queue \in Seq(Events)
    BY DEF Init
  <2>2. /\ awaiting = "nothing" /\ fault = "none" /\ life \in Lives
        /\ creds \in Creds
    BY DEF Init, Lives, Creds
  <2> QED BY <1>1, <2>1, <2>2 DEF Init, TypeOK
<1>3. /\ SocketsAreEnded /\ LineIsTaken /\ WipeIsDue /\ StopIsJoined
      /\ RejectionIsKept
  BY <1>1 DEF Init, SocketsAreEnded, LineIsTaken, WipeIsDue, StopIsJoined,
              RejectionIsKept, TimersOff, Final
<1> QED BY <1>2, <1>3 DEF IInv

(***************************************************************************)
(* The reducer of machine.ts: it yields a status, nothing moves a final    *)
(* one, and a stop leads to rest.                                          *)
(***************************************************************************)
LEMMA TransitionTyped ==
  ASSUME NEW s \in Statuses, NEW input \in Inputs
  PROVE  Transition(s, input) \in Statuses
<1> USE DEF Statuses, At
<1>1. MaxAttempt \in Nat /\ s.phase \in Phases /\ s.attempt \in 0 .. MaxAttempt
  OBVIOUS
<1>2. ASSUME NEW p \in Phases PROVE At(p) \in Statuses
  BY <1>1
<1>3. {"connecting", "disconnected", "logged_out", "suspended", "backing_off"}
        \subseteq Phases
  BY DEF Phases, Final
<1>4. CASE input = "stop"
  BY <1>2, <1>3, <1>4 DEF Transition, Closes
<1>5. CASE input \in Closes
  <2>1. Transition(s, input) = AfterClose(s, input)
    BY <1>5 DEF Transition, Closes
  <2>2. ASSUME NEW n \in 0 .. MaxAttempt PROVE OnClose(input, n) \in Statuses
    BY <1>2, <1>3, <1>5 DEF OnClose, Closes
  <2> QED BY <1>1, <1>2, <1>3, <2>1, <2>2 DEF AfterClose
<1>6. CASE input = "retry_due"
  <2>1. AfterRetry(s) \in Statuses
    BY <1>1, <1>3 DEF AfterRetry
  <2> QED BY <1>6, <2>1 DEF Transition, Closes
<1>7. CASE input \notin Closes \cup {"stop", "retry_due"}
  <2>1. Target(s.phase, input) \in Phases
    BY <1>1 DEF Target, Phases, Pairing, Authenticated, Final
  <2> QED BY <1>2, <1>7, <2>1 DEF Transition
<1> QED BY <1>4, <1>5, <1>6, <1>7

LEMMA FinalStays ==
  ASSUME NEW s \in Statuses, NEW input \in Inputs, s.phase \in Final
  PROVE  Transition(s, input) = s /\ ~Moves(s, input)
<1>1. CASE input = "stop"
  BY <1>1 DEF Transition, Closes, Moves, Reannounced, Final
<1>2. CASE input \in Closes
  BY <1>2 DEF Transition, Closes, AfterClose, Moves, Reannounced, Final
<1>3. CASE input = "retry_due"
  BY <1>3 DEF Transition, Closes, Moves, Reannounced, Final
<1>4. CASE input \notin Closes \cup {"stop", "retry_due"}
  <2>1. Target(s.phase, input) = s.phase
    BY DEF Target, Final, Pairing, Authenticated
  <2> QED BY <1>4, <2>1 DEF Transition, Moves, Reannounced, Final
<1> QED BY <1>1, <1>2, <1>3, <1>4

(***************************************************************************)
(* The world: saves, the socket, the timers. What the others leave alone.  *)
(***************************************************************************)
LEMMA DrainedKeeps == IInv /\ Drained => IInv'
<1> SUFFICES ASSUME IInv, Drained PROVE IInv'
  OBVIOUS
<1> USE DEF Drained, statusVars, superVars, haltVars, lineVars, timerVars,
            saveVars
<1>1. TypeOK'
  BY DEF IInv, TypeOK
<1>2. SocketsAreEnded'
  BY DEF IInv, TypeOK, SocketsAreEnded
<1>3. LineIsTaken' /\ WipeIsDue'
  BY DEF IInv, LineIsTaken, TimersOff, CloseIsNext, WipeIsDue
<1>4. StopIsJoined' /\ RejectionIsKept'
  BY DEF IInv, StopIsJoined, RejectionIsKept
<1> QED BY <1>1, <1>2, <1>3, <1>4 DEF IInv

LEMMA CredsUpdateKeeps == IInv /\ CredsUpdate => IInv'
<1> SUFFICES ASSUME IInv, CredsUpdate PROVE IInv'
  OBVIOUS
<1> USE DEF CredsUpdate, SocketOnly, statusVars, superVars, haltVars, lineVars,
            timerVars
<1>1. TypeOK'
  BY DEF IInv, TypeOK
<1>2. SocketsAreEnded'
  BY DEF IInv, TypeOK, SocketsAreEnded
<1>3. LineIsTaken' /\ WipeIsDue'
  BY DEF IInv, LineIsTaken, TimersOff, CloseIsNext, WipeIsDue
<1>4. StopIsJoined' /\ RejectionIsKept'
  BY DEF IInv, StopIsJoined, RejectionIsKept
<1> QED BY <1>1, <1>2, <1>3, <1>4 DEF IInv

LEMMA SaveKeeps == IInv /\ Save => IInv'
<1> SUFFICES ASSUME IInv, Save PROVE IInv'
  OBVIOUS
<1> USE DEF Save, SocketOnly, statusVars, superVars, haltVars, lineVars,
            timerVars
<1>1. TypeOK'
  <2>1. writes' \in Nat /\ stored' \in Creds
    BY DEF IInv, TypeOK
  <2>2. saveFailed' \in BOOLEAN
    BY DEF IInv, TypeOK
  <2> QED BY <2>1, <2>2 DEF IInv, TypeOK
<1>2. SocketsAreEnded'
  BY DEF IInv, TypeOK, SocketsAreEnded
<1>3. LineIsTaken' /\ WipeIsDue'
  BY DEF IInv, LineIsTaken, TimersOff, CloseIsNext, WipeIsDue
<1>4. StopIsJoined' /\ RejectionIsKept'
  BY DEF IInv, TypeOK, SocketsAreEnded, StopIsJoined, RejectionIsKept
<1> QED BY <1>1, <1>2, <1>3, <1>4 DEF IInv

LEMMA EmitKeeps ==
  ASSUME IInv, NEW event \in Events, Emit(event)
  PROVE  IInv'
<1> USE DEF Emit, SocketOnly, statusVars, superVars, haltVars, lineVars,
            timerVars
<1>1. /\ queue' \in Seq(Events) /\ life' \in Lives /\ creds' \in Creds
      /\ writes' \in Nat
  BY DEF IInv, TypeOK, Lives, Creds
<1>2. TypeOK'
  BY <1>1 DEF IInv, TypeOK
<1>3. SocketsAreEnded'
  BY DEF IInv, TypeOK, SocketsAreEnded
<1>4. LineIsTaken' /\ WipeIsDue'
  BY DEF IInv, LineIsTaken, TimersOff, WipeIsDue
<1>5. StopIsJoined' /\ RejectionIsKept'
  BY DEF IInv, StopIsJoined, RejectionIsKept
<1> QED BY <1>2, <1>3, <1>4, <1>5 DEF IInv

LEMMA SocketClosesKeeps == IInv /\ SocketCloses => IInv'
<1> SUFFICES ASSUME IInv, SocketCloses PROVE IInv'
  OBVIOUS
<1> USE DEF SocketCloses, SocketOnly, statusVars, superVars, haltVars, lineVars,
            timerVars, saveVars
<1>1. queue' \in Seq(Events) /\ CloseIsNext'
  <2>1. PICK close \in Closes : queue' = Append(queue, close)
    OBVIOUS
  <2> QED BY <2>1 DEF IInv, TypeOK, Events, CloseIsNext
<1>2. TypeOK'
  BY <1>1 DEF IInv, TypeOK
<1>3. SocketsAreEnded'
  BY DEF IInv, TypeOK, SocketsAreEnded
<1>4. LineIsTaken' /\ WipeIsDue'
  BY <1>1 DEF IInv, LineIsTaken, TimersOff, WipeIsDue
<1>5. StopIsJoined' /\ RejectionIsKept'
  BY DEF IInv, StopIsJoined, RejectionIsKept
<1> QED BY <1>2, <1>3, <1>4, <1>5 DEF IInv

LEMMA TimersKeep == IInv /\ (VerdictDue \/ SyncDue) => IInv'
<1> SUFFICES ASSUME IInv, VerdictDue \/ SyncDue PROVE IInv'
  OBVIOUS
<1> USE DEF TimersOnly, statusVars, superVars, haltVars, connVars, saveVars
<1>1. PICK input \in {"pairing_rejected", "synced"} :
        line' = line \/ (line' = Append(line, input) /\ fault = "none")
  <2>1. CASE VerdictDue
    BY <2>1 DEF VerdictDue, Enqueue
  <2>2. CASE SyncDue
    BY <2>2 DEF SyncDue, Enqueue
  <2> QED BY <2>1, <2>2
<1>2. /\ UNCHANGED <<statusVars, superVars, haltVars, awaiting, fault,
                     firstQrSeen, initialSyncComplete, connVars, saveVars,
                     rejected>>
      /\ verdictTimer' => verdictTimer
      /\ syncTimer' => syncTimer
      /\ ~TimersOff
  BY DEF VerdictDue, SyncDue, TimersOff
<1>3. /\ verdictTimer' \in BOOLEAN /\ syncTimer' \in BOOLEAN
      /\ verdictFired' \in BOOLEAN
  BY DEF VerdictDue, SyncDue, IInv, TypeOK
<1>4. /\ line' \in Seq(Steps)
      /\ fault # "none" => line' = line
      /\ line' = <<>> => line = <<>>
  BY <1>1 DEF IInv, TypeOK, Steps, Inputs
<1>5. TypeOK'
  BY <1>2, <1>3, <1>4 DEF IInv, TypeOK
<1>6. SocketsAreEnded'
  BY <1>2 DEF IInv, SocketsAreEnded
<1>7. LineIsTaken' /\ WipeIsDue'
  BY <1>2, <1>4 DEF IInv, LineIsTaken, TimersOff, CloseIsNext, WipeIsDue
<1>8. StopIsJoined' /\ RejectionIsKept'
  BY <1>2 DEF IInv, StopIsJoined, RejectionIsKept
<1> QED BY <1>5, <1>6, <1>7, <1>8 DEF IInv

(***************************************************************************)
(* The pipeline works on the events of a socket; it goes on along the line *)
(* or breaks it.                                                           *)
(***************************************************************************)
Onward == Done \/ (\E kind \in {"subscriber", "processing", "run"} : Break(kind))

LEMMA LineGoesOn ==
  ASSUME IInv, line # <<>>,
         \/ Onward
         \/ \E what \in {"handlers", "wipe", "code"} : Await(what)
  PROVE  /\ line \in Seq(Steps) /\ line' \in Seq(Steps)
         /\ pc = "events" /\ fault = "none"
         /\ fault' # "none" => line' = <<>>
         /\ fault' \in {"none", "subscriber", "processing", "run"}
         /\ awaiting' \in {"nothing", "handlers", "wipe", "code"}
         /\ awaiting' # "nothing" => line' # <<>>
         /\ (\A i \in DOMAIN line : line[i] \notin Arming)
              => (\A i \in DOMAIN line' : line'[i] \notin Arming)
<1>1. /\ line \in Seq(Steps) /\ pc = "events" /\ fault = "none"
  BY DEF IInv, TypeOK, LineIsTaken
<1>2. CASE Done
  <2>1. /\ line' = Tail(line) /\ line' \in Seq(Steps)
        /\ awaiting' = "nothing" /\ fault' = fault
    BY <1>1, <1>2 DEF Done
  <2>2. Len(line') = Len(line) - 1
        /\ \A i \in 1 .. Len(line') : line'[i] = line[i + 1]
    BY <1>1, <2>1
  <2>3. (\A i \in DOMAIN line : line[i] \notin Arming)
          => (\A i \in DOMAIN line' : line'[i] \notin Arming)
    BY <1>1, <2>1, <2>2
  <2> QED BY <1>1, <2>1, <2>3
<1>3. CASE \E kind \in {"subscriber", "processing", "run"} : Break(kind)
  BY <1>1, <1>3 DEF Break
<1>4. CASE \E what \in {"handlers", "wipe", "code"} : Await(what)
  BY <1>1, <1>4 DEF Await
<1> QED BY <1>2, <1>3, <1>4 DEF Onward

LEMMA PipelineKeeps == IInv /\ Pipeline => IInv'
<1> SUFFICES ASSUME IInv, Pipeline PROVE IInv'
  OBVIOUS
<1>1. /\ line # <<>>
      /\ \/ Onward
         \/ \E what \in {"handlers", "wipe", "code"} : Await(what)
  BY DEF Pipeline, Apply, Wiped, Handled, Deliver, CodeAnswered, SetTimers,
         Ready, Awaiting, Onward
<1>2. /\ line \in Seq(Steps) /\ line' \in Seq(Steps)
      /\ pc = "events" /\ fault = "none"
      /\ fault' # "none" => line' = <<>>
      /\ fault' \in {"none", "subscriber", "processing", "run"}
      /\ awaiting' \in {"nothing", "handlers", "wipe", "code"}
      /\ awaiting' # "nothing" => line' # <<>>
      /\ (\A i \in DOMAIN line : line[i] \notin Arming)
           => (\A i \in DOMAIN line' : line'[i] \notin Arming)
  BY <1>1, LineGoesOn
<1>3. /\ UNCHANGED <<stopped, superVars, haltVars, firstQrSeen, verdictFired,
                     initialSyncComplete, connVars, writes, saveFailed, method>>
  BY DEF Pipeline, Apply, Wiped, Handled, Deliver, CodeAnswered, SetTimers,
         PipelineOnly
<1>4. line[1] \in Steps
  BY <1>1, <1>2
<1>5. status' \in Statuses
  <2>1. At("logged_out") \in Statuses
    BY DEF At, Statuses, Phases, Final
  <2>2. CASE Apply
    BY <1>1, <1>2, <2>2, TransitionTyped DEF Apply, Ready, IInv, TypeOK
  <2> QED
    BY <2>1, <2>2
       DEF Pipeline, Wiped, Handled, Deliver, CodeAnswered, SetTimers, IInv, TypeOK
<1>6. stored' \in Creds
  BY DEF Pipeline, Apply, Wiped, Handled, Deliver, CodeAnswered, SetTimers, IInv,
         TypeOK, Creds
<1>7. rejected' \in BOOLEAN
  BY DEF Pipeline, Apply, Wiped, Handled, Deliver, CodeAnswered, SetTimers, IInv,
         TypeOK
<1>8. verdictTimer' \in BOOLEAN /\ syncTimer' \in BOOLEAN
  BY DEF Pipeline, Apply, Wiped, Handled, Deliver, CodeAnswered, SetTimers, IInv,
         TypeOK
<1>9. TypeOK'
  BY <1>2, <1>3, <1>5, <1>6, <1>7, <1>8
     DEF IInv, TypeOK, superVars, haltVars, connVars
<1>10. SocketsAreEnded'
  BY <1>3 DEF IInv, SocketsAreEnded, superVars, connVars
<1>11. TimersOff /\ line[1] \notin Arming => TimersOff'
  BY DEF Pipeline, Apply, Wiped, Handled, Deliver, CodeAnswered, SetTimers,
         TimersOff, Arming
<1>12. LineIsTaken'
  BY <1>1, <1>2, <1>3, <1>11 DEF IInv, LineIsTaken, CloseIsNext, superVars, connVars
<1>13. WipeIsDue'
  <2>1. CASE Apply
    <3>1. CASE awaiting' = "wipe"
      <4>1. status' = status /\ Moves(status, line[1]) /\ line[1] \in Inputs
        BY <2>1, <3>1 DEF Apply, Ready, Done, Await
      <4>2. status.phase \notin Final
        BY <4>1, FinalStays DEF IInv, TypeOK
      <4> QED BY <4>1, <4>2 DEF WipeIsDue
    <3> QED BY <3>1 DEF WipeIsDue
  <2>2. CASE ~Apply
    <3>1. awaiting' # "wipe"
      BY <2>2
         DEF Pipeline, Wiped, Handled, Deliver, CodeAnswered, SetTimers, Done,
             Break, Await
    <3> QED BY <3>1 DEF WipeIsDue
  <2> QED BY <2>1, <2>2
<1>14. StopIsJoined'
  BY <1>2, <1>3 DEF IInv, StopIsJoined, superVars, haltVars
<1>15. RejectionIsKept'
  <2>1. rejected' => rejected \/ fault' = "subscriber"
    BY DEF Pipeline, Apply, Wiped, Handled, Deliver, CodeAnswered, SetTimers, Break
  <2> QED BY <1>2, <1>3, <2>1 DEF IInv, RejectionIsKept, superVars, haltVars
<1> QED BY <1>9, <1>10, <1>12, <1>13, <1>14, <1>15 DEF IInv

(***************************************************************************)
(* The supervisor takes an event: its work goes on the line, and a close   *)
(* stops the timers.                                                       *)
(***************************************************************************)
LEMMA WorkTyped ==
  ASSUME TypeOK, NEW event \in Events
  PROVE  /\ Work(event) \in Seq(Steps)
         /\ event \in Closes => Work(event) = <<event>>
<1>1. /\ {"ready", "request", "code_ready", "arm_verdict", "qr_refresh",
          "pairing_rejected", "open", "arm_sync", "pending_drained", "clear_sync",
          "synced", "deliver", "paired", "sync_progress"} \subseteq Steps
      /\ Closes \subseteq Steps
  BY DEF Steps, Inputs
<1>2. /\ \A a \in Steps : <<a>> \in Seq(Steps)
      /\ <<"ready", "request", "code_ready", "arm_verdict">> \in Seq(Steps)
      /\ <<"open", "arm_sync">> \in Seq(Steps)
      /\ <<"pending_drained", "clear_sync", "synced">> \in Seq(Steps)
      /\ <<>> \in Seq(Steps)
  BY <1>1
<1>3. CASE event = "qr"
  <2>1. \/ Work(event) = <<"ready">>
        \/ Work(event) = <<"ready", "request", "code_ready", "arm_verdict">>
        \/ Work(event) = <<"qr_refresh">>
        \/ Work(event) = <<"pairing_rejected">>
        \/ Work(event) = <<>>
    BY <1>3 DEF Work, TypeOK
  <2>2. event \notin Closes
    BY <1>3 DEF Closes
  <2> QED BY <1>1, <1>2, <2>1, <2>2
<1>4. CASE event \in {"open", "pending_drained"}
  <2>1. \/ Work(event) = <<"open", "arm_sync">>
        \/ Work(event) = <<"pending_drained", "clear_sync", "synced">>
        \/ Work(event) = <<event>>
    BY <1>4 DEF Work, TypeOK
  <2>2. event \notin Closes
    BY <1>4 DEF Closes
  <2> QED BY <1>1, <1>2, <1>4, <2>1, <2>2
<1>5. CASE event \in {"sync_complete", "message"}
  <2>1. \/ Work(event) = <<"synced">>
        \/ Work(event) = <<"deliver">>
    BY <1>5 DEF Work
  <2>2. event \notin Closes
    BY <1>5 DEF Closes
  <2> QED BY <1>1, <1>2, <2>1, <2>2
<1>6. CASE event \in {"paired", "sync_progress"} \cup Closes
  <2>1. Work(event) = <<event>>
    BY <1>6 DEF Work, Closes
  <2> QED BY <1>1, <1>2, <1>6, <2>1
<1> QED BY <1>3, <1>4, <1>5, <1>6 DEF Events

LEMMA TakeKeeps == IInv /\ Take => IInv'
<1> SUFFICES ASSUME IInv, Take PROVE IInv'
  OBVIOUS
<1>1. /\ pc = "events" /\ fault = "none" /\ line = <<>> /\ queue # <<>>
      /\ queue' = Tail(queue) /\ line' = Work(queue[1])
      /\ UNCHANGED <<statusVars, superVars, haltVars, awaiting, fault,
                     initialSyncComplete, conn, end, life, creds, saveVars,
                     rejected>>
  BY DEF Take
<1>2. queue \in Seq(Events) /\ queue[1] \in Events /\ queue' \in Seq(Events)
  BY <1>1 DEF IInv, TypeOK
<1>3. line' \in Seq(Steps) /\ (queue[1] \in Closes => line' = <<queue[1]>>)
  BY <1>1, <1>2, WorkTyped DEF IInv
<1>4. firstQrSeen' \in BOOLEAN
  BY DEF Take, IInv, TypeOK
<1>5. verdictFired' \in BOOLEAN
  BY DEF Take, IInv, TypeOK, Refused
<1>6. verdictTimer' \in BOOLEAN
  BY DEF Take, IInv, TypeOK, Refused
<1>7. syncTimer' \in BOOLEAN
  BY DEF Take, IInv, TypeOK
<1>8. awaiting = "nothing"
  BY <1>1 DEF IInv, TypeOK
<1>9. TypeOK'
  BY <1>1, <1>2, <1>3, <1>4, <1>5, <1>6, <1>7, <1>8
     DEF IInv, TypeOK, statusVars, superVars, haltVars, saveVars
<1>10. SocketsAreEnded'
  BY <1>1 DEF IInv, SocketsAreEnded, superVars, saveVars
<1>11. LineIsTaken'
  <2>1. SUFFICES ASSUME conn = "closed", ~CloseIsNext'
                 PROVE  /\ TimersOff' /\ queue' = <<>>
                        /\ \A i \in DOMAIN line' : line'[i] \notin Arming
    BY <1>1 DEF LineIsTaken, superVars
  <2>2. CASE CloseIsNext
    <3>0. /\ Len(queue') = Len(queue) - 1 /\ Len(queue') \in Nat
          /\ \A i \in 1 .. Len(queue') : queue'[i] = queue[i + 1]
      BY <1>1, <1>2
    <3>1. Len(queue') = 0 /\ queue' = <<>>
      <4>1. Len(queue') # 0 => queue'[Len(queue')] = queue[Len(queue)]
        BY <1>1, <1>2, <3>0
      <4>2. Len(queue') # 0 => queue' # <<>>
        OBVIOUS
      <4>3. Len(queue') = 0
        BY <2>1, <2>2, <4>1, <4>2 DEF CloseIsNext
      <4> QED BY <1>2, <4>3
    <3>2. Len(queue) = 1 /\ queue[1] \in Closes
      <4>1. Len(queue) = 1
        BY <1>2, <3>0, <3>1
      <4> QED BY <2>2, <4>1 DEF CloseIsNext
    <3>3. TimersOff'
      BY <3>2 DEF Take, TimersOff
    <3>4. line' = <<queue[1]>> /\ queue[1] \notin Arming
      BY <1>3, <3>2 DEF Arming, Closes
    <3> QED BY <3>1, <3>3, <3>4
  <2>3. CASE ~CloseIsNext
    BY <1>1, <2>1, <2>3 DEF IInv, LineIsTaken
  <2> QED BY <2>2, <2>3
<1>12. WipeIsDue' /\ StopIsJoined' /\ RejectionIsKept'
  BY <1>1, <1>8
     DEF IInv, WipeIsDue, StopIsJoined, RejectionIsKept, statusVars, superVars,
         haltVars, saveVars
<1> QED BY <1>9, <1>10, <1>11, <1>12 DEF IInv

(***************************************************************************)
(* The supervisor between its awaits. What a run that ended leads to, and  *)
(* what it asks of the invariant.                                          *)
(***************************************************************************)
\* pc, outcome, status and stopped are as they have to be after a step of the
\* supervisor that does not touch the line, the sockets or the saves.
SupervisorMoves ==
  /\ status' \in Statuses /\ stopped' \in BOOLEAN
  /\ stopped => stopped'
  /\ failure' \in Kinds \cup {"none", "processing"}
  /\ pc' \in {"starting", "opening", "ending", "closing", "backoff", "retrying",
              "failing", "settled"}
  /\ pc' = "starting" => conn = "none" /\ status'.phase # "backing_off"
  /\ pc' \in {"opening", "closing", "backoff", "retrying"} => ~saveFailed
  /\ outcome' \in Kinds \cup {"none", "ok", "leaked"}
  /\ (outcome' = "none") = (pc' # "settled")
  /\ pc' = "failing" => failure' # "none"
  /\ outcome' = "leaked" => ~saveFailed
  /\ halting = "done" => pc' \in {"starting", "failing", "settled"}
  /\ rejected' \in BOOLEAN
  /\ rejected' =>
       \/ pc' \in {"ending", "failing"} /\ failure' = "subscriber"
       \/ outcome' \in {"subscriber", "leaked"}

LEMMA SupervisorMovesKeep ==
  ASSUME IInv, SupervisorMoves, pc \notin {"events", "settled"},
         conn = "none" \/ end = "drained",
         UNCHANGED <<haltVars, verdictTimer, syncTimer, saveVars, lineVars,
                     firstQrSeen, verdictFired, initialSyncComplete, connVars,
                     method>>
  PROVE  IInv'
<1> USE DEF SupervisorMoves, haltVars, saveVars, lineVars, connVars
<1>1. TypeOK'
  BY DEF IInv, TypeOK
<1>2. SocketsAreEnded'
  BY DEF IInv, SocketsAreEnded
<1>3. LineIsTaken'
  BY DEF IInv, LineIsTaken, TimersOff
<1>4. WipeIsDue'
  BY DEF IInv, LineIsTaken, TypeOK, WipeIsDue
<1>5. StopIsJoined'
  BY DEF IInv, StopIsJoined
<1>6. RejectionIsKept'
  BY DEF IInv, StopIsJoined, RejectionIsKept
<1> QED BY <1>1, <1>2, <1>3, <1>4, <1>5, <1>6 DEF IInv

(***************************************************************************)
(* Its steps are such moves.                                               *)
(***************************************************************************)
LEMMA FailTerminalMoves ==
  ASSUME IInv, NEW f \in Kinds \cup {"processing"}, FailTerminal(f),
         failure' = f
  PROVE  /\ status' \in Statuses /\ stopped' = TRUE
         /\ pc' \in {"failing", "settled"}
         /\ pc' = "failing" => outcome' = outcome
         /\ pc' = "settled" => outcome' = KindOf(f)
         /\ KindOf(f) \in Kinds
         /\ KindOf("subscriber") = "subscriber"
<1>1. status \in Statuses /\ Transition(status, "stop") \in Statuses
  BY TransitionTyped DEF IInv, TypeOK, Inputs
<1> QED BY <1>1 DEF FailTerminal, Announce, KindOf, Kinds

LEMMA ContinueMoves ==
  ASSUME IInv, Continue(status)
  PROVE  /\ status' = status /\ stopped' = stopped
         /\ pc' \in {"opening", "backoff", "settled"}
         /\ pc' = "settled" => outcome' = "ok"
         /\ pc' # "settled" => outcome' = outcome
         /\ halting = "done" /\ status.phase # "backing_off" => pc' = "settled"
<1>1. stopped \in BOOLEAN /\ (halting # "no" => stopped)
  BY DEF IInv, TypeOK, StopIsJoined
<1> QED BY <1>1 DEF Continue, Settle

LEMMA StartKeeps == IInv /\ Start => IInv'
<1> SUFFICES ASSUME IInv, Start PROVE IInv'
  OBVIOUS
<1>1. /\ pc = "off" /\ pc' = "starting" /\ status' = Transition(status, "start")
      /\ UNCHANGED <<stopped, failure, outcome, rejected>>
  BY DEF Start, Announce, SupervisorOnly
<1>2. conn = "none" /\ outcome = "none" /\ status \in Statuses
      /\ status.phase = "disconnected"
  BY <1>1 DEF IInv, TypeOK, SocketsAreEnded, StopIsJoined, RejectionIsKept
<1>3. status'.phase = "connecting" /\ status' \in Statuses
  <2>1. Target(status.phase, "start") = "connecting"
    BY <1>2 DEF Target, Pairing, Authenticated
  <2>2. status' = At("connecting")
    BY <1>1, <1>2, <2>1 DEF Transition, Closes
  <2> QED BY <1>1, <1>2, <2>2, TransitionTyped DEF At, Inputs
<1>4. ~rejected
  BY <1>1, <1>2 DEF IInv, RejectionIsKept
<1>5. SupervisorMoves
  BY <1>1, <1>2, <1>3, <1>4 DEF IInv, TypeOK, SupervisorMoves
<1> QED
  BY <1>1, <1>2, <1>5, SupervisorMovesKeep DEF Start, SupervisorOnly, SocketKept

LEMMA RetryDueKeeps == IInv /\ RetryDue => IInv'
<1> SUFFICES ASSUME IInv, RetryDue PROVE IInv'
  OBVIOUS
<1>1. /\ pc = "backoff" /\ UNCHANGED <<failure, rejected, stopped>>
      /\ \/ pc' = "settled" /\ outcome' = "ok" /\ status' = status
         \/ /\ pc' = "retrying" /\ outcome' = outcome
            /\ status' = Transition(status, "retry_due")
  BY DEF RetryDue, Settle, Announce, SupervisorOnly
<1>2. /\ ~saveFailed /\ outcome = "none" /\ ~rejected /\ halting # "done"
      /\ conn = "none" \/ end = "drained"
  BY <1>1 DEF IInv, SocketsAreEnded, StopIsJoined, RejectionIsKept
<1>3. status' \in Statuses
  BY <1>1, TransitionTyped DEF IInv, TypeOK, Inputs
<1>4. SupervisorMoves
  BY <1>1, <1>2, <1>3 DEF IInv, TypeOK, SupervisorMoves
<1> QED
  BY <1>1, <1>2, <1>4, SupervisorMovesKeep DEF RetryDue, SupervisorOnly, SocketKept

LEMMA RunFailedMoves ==
  ASSUME IInv, NEW f \in Kinds \cup {"processing"}, RunFailed(f), failure' = f
  PROVE  /\ status' \in Statuses /\ stopped' \in BOOLEAN /\ (stopped => stopped')
         /\ \/ /\ f \in {"subscriber", "processing"}
               /\ pc' \in {"failing", "settled"}
               /\ pc' = "failing" => outcome' = outcome
               /\ pc' = "settled" => outcome' = KindOf(f)
            \/ f \in {"teardown", "run"} /\ pc' = "settled" /\ outcome' = f
            \/ /\ f = "run" /\ ~stopped
               /\ pc' \in {"closing", "opening", "backoff", "settled"}
               /\ pc' # "settled" => outcome' = outcome
               /\ pc' = "settled" => outcome' = "ok"
<1>1. status \in Statuses /\ Transition(status, "closed_retryable") \in Statuses
      /\ stopped \in BOOLEAN
  BY TransitionTyped DEF IInv, TypeOK, Inputs, Closes
<1>2. CASE f \in {"subscriber", "processing"} /\ FailTerminal(f)
  BY <1>2, FailTerminalMoves
<1>3. CASE f \in {"teardown", "run"} /\ stopped /\ Settle(f)
  BY <1>1, <1>3 DEF Settle
<1>4. CASE /\ f = "run" /\ ~stopped
           /\ IF Moves(status, "closed_retryable")
              THEN Announce("closed_retryable", "closing") /\ UNCHANGED stopped
              ELSE Continue(status)
  BY <1>1, <1>4, ContinueMoves DEF Announce
<1> QED BY <1>2, <1>3, <1>4 DEF RunFailed

LEMMA AnnouncedKeeps == IInv /\ Announced => IInv'
<1> SUFFICES ASSUME IInv, Announced PROVE IInv'
  OBVIOUS
<1>1. /\ pc \in {"starting", "closing", "retrying", "ending", "failing"}
      /\ rejected' = rejected
  BY DEF Announced
<1>2. /\ conn = "none" \/ end = "drained"
      /\ outcome = "none" /\ report # "subscriber"
      /\ status \in Statuses /\ stopped \in BOOLEAN /\ rejected \in BOOLEAN
      /\ failure \in Kinds \cup {"none", "processing"}
  BY <1>1 DEF IInv, TypeOK, SocketsAreEnded, RejectionIsKept
<1> SUFFICES SupervisorMoves
  BY <1>1, <1>2, SupervisorMovesKeep
     DEF Announced, SocketKept
<1>3. CASE pc \in {"starting", "closing", "retrying"}
  <2>1. Continue(status) /\ failure' = failure
    BY <1>3 DEF Announced
  <2>2. /\ ~saveFailed /\ ~rejected
        /\ halting = "done" => status.phase # "backing_off"
    BY <1>2, <1>3 DEF IInv, SocketsAreEnded, StopIsJoined, RejectionIsKept
  <2> QED BY <1>1, <1>2, <2>1, <2>2, ContinueMoves DEF SupervisorMoves
<1>4. CASE pc = "ending"
  <2>1. failure' = Preferred(failure) /\ RunFailed(failure')
    BY <1>4 DEF Announced
  <2>2. /\ failure' \in {"subscriber", "teardown"}
        /\ failure = "subscriber" => failure' = "subscriber"
    BY <2>1 DEF Preferred
  <2>3. /\ failure' \in Kinds \cup {"processing"}
        /\ KindOf("subscriber") = "subscriber"
    BY <2>2 DEF Kinds, KindOf
  <2>4. rejected => failure = "subscriber"
    BY <1>2, <1>4 DEF IInv, RejectionIsKept
  <2>5. halting # "done"
    BY <1>4 DEF IInv, StopIsJoined
  <2> QED
    BY <1>1, <1>2, <2>1, <2>2, <2>3, <2>4, <2>5, RunFailedMoves
       DEF SupervisorMoves, Kinds
<1>5. CASE pc = "failing"
  <2>1. Settle(KindOf(failure)) /\ failure' = failure
    BY <1>5 DEF Announced
  <2>2. failure # "none" /\ (rejected => failure = "subscriber")
    BY <1>2, <1>5 DEF IInv, RejectionIsKept
  <2> QED
    BY <1>1, <1>2, <2>1, <2>2 DEF Settle, KindOf, Kinds, SupervisorMoves
<1> QED BY <1>1, <1>3, <1>4, <1>5


LEMMA AnnouncementRejectedKeeps == IInv /\ AnnouncementRejected => IInv'
<1> SUFFICES ASSUME IInv, AnnouncementRejected PROVE IInv'
  OBVIOUS
<1>1. /\ pc \in {"starting", "closing", "retrying", "ending", "failing"}
      /\ rejected' = TRUE
  BY DEF AnnouncementRejected
<1>2. /\ conn = "none" \/ end = "drained"
      /\ outcome = "none"
      /\ status \in Statuses /\ stopped \in BOOLEAN
      /\ failure \in Kinds \cup {"none", "processing"}
  BY <1>1 DEF IInv, TypeOK, SocketsAreEnded, RejectionIsKept
<1> SUFFICES SupervisorMoves
  BY <1>1, <1>2, SupervisorMovesKeep
     DEF AnnouncementRejected, SocketKept
<1>3. CASE pc \in {"starting", "ending"}
  <2>1. failure' = "subscriber" /\ FailTerminal("subscriber")
    BY <1>3 DEF AnnouncementRejected
  <2> QED BY <1>1, <1>2, <2>1, FailTerminalMoves DEF SupervisorMoves, Kinds
<1>4. CASE pc = "failing"
  <2>1. Settle("subscriber") /\ failure' = failure
    BY <1>4 DEF AnnouncementRejected
  <2> QED BY <1>1, <1>2, <2>1 DEF Settle, Kinds, SupervisorMoves
<1>5. CASE pc \in {"closing", "retrying"}
  <2>1. Settle("leaked") /\ failure' = failure
    BY <1>5 DEF AnnouncementRejected
  <2>2. ~saveFailed
    BY <1>5 DEF IInv, SocketsAreEnded
  <2> QED BY <1>1, <1>2, <2>1, <2>2 DEF Settle, SupervisorMoves
<1> QED BY <1>1, <1>3, <1>4, <1>5


LEMMA TornDownKeeps == IInv /\ TornDown => IInv'
<1> SUFFICES ASSUME IInv, TornDown PROVE IInv'
  OBVIOUS
<1>1. /\ pc = "teardown" /\ rejected' = rejected
      /\ conn = "none" \/ end = "drained"
  BY DEF TornDown, SupervisorOnly, Ended
<1>2. /\ outcome = "none" /\ halting # "done"
      /\ rejected => failure = "subscriber"
      /\ status \in Statuses /\ stopped \in BOOLEAN /\ rejected \in BOOLEAN
      /\ failure \in Kinds \cup {"none", "processing"}
  BY <1>1 DEF IInv, TypeOK, StopIsJoined, RejectionIsKept
<1> SUFFICES SupervisorMoves
  BY <1>1, SupervisorMovesKeep
     DEF TornDown, SupervisorOnly, SocketKept
<1>3. CASE ~saveFailed /\ failure = "none" /\ Continue(status) /\ UNCHANGED failure
  BY <1>1, <1>2, <1>3, ContinueMoves DEF SupervisorMoves
<1>4. CASE ~saveFailed /\ failure # "none" /\ RunFailed(failure) /\ UNCHANGED failure
  <2>1. KindOf("subscriber") = "subscriber" /\ KindOf("processing") = "run"
        /\ failure \in Kinds \cup {"processing"}
    BY <1>2, <1>4 DEF KindOf
  <2> QED
    BY <1>1, <1>2, <1>4, <2>1, RunFailedMoves DEF SupervisorMoves, Kinds
<1>5. CASE /\ Announce("stop", "ending") /\ stopped' = TRUE /\ UNCHANGED failure
  <2>1. status' \in Statuses
    BY <1>2, <1>5, TransitionTyped DEF Announce, Inputs
  <2> QED BY <1>1, <1>2, <1>5, <2>1 DEF SupervisorMoves, Announce
<1>6. CASE /\ failure' = Preferred(failure) /\ failure' = "subscriber"
           /\ FailTerminal("subscriber")
  BY <1>1, <1>2, <1>6, FailTerminalMoves DEF SupervisorMoves, Kinds
<1>7. CASE /\ failure' = Preferred(failure) /\ failure' = "teardown"
           /\ pc' = "settled" /\ outcome' = "teardown" /\ stopped' = TRUE
           /\ UNCHANGED status
  BY <1>1, <1>2, <1>7 DEF SupervisorMoves, Kinds, Preferred
<1> QED BY <1>3, <1>4, <1>5, <1>6, <1>7 DEF TornDown

LEMMA OpenedKeeps == IInv /\ Opened => IInv'
<1> SUFFICES ASSUME IInv, Opened PROVE IInv'
  OBVIOUS
<1> USE DEF Opened, statusVars, haltVars
<1>1. pc = "opening" /\ writes = 0 /\ outcome = "none" /\ halting # "done" /\ ~rejected
  BY DEF IInv, TypeOK, SocketsAreEnded, StopIsJoined, RejectionIsKept
<1>2. pc' \in {"teardown", "events"} /\ end' \in {"draining", "no"}
      /\ (pc' = "teardown") = (end' = "draining")
  OBVIOUS
<1>3. initialSyncComplete' \in BOOLEAN
  OBVIOUS
<1>4. TypeOK'
  <2>1. /\ creds' \in Creds /\ life' \in Lives /\ queue' \in Seq(Events)
        /\ line' \in Seq(Steps)
    BY DEF IInv, TypeOK, Lives
  <2>2. /\ firstQrSeen' = FALSE /\ verdictFired' = FALSE /\ verdictTimer' = FALSE
        /\ syncTimer' = FALSE /\ saveFailed' = FALSE
    OBVIOUS
  <2> QED BY <1>2, <1>3, <2>1, <2>2 DEF IInv, TypeOK
<1>5. SocketsAreEnded'
  BY <1>1, <1>2 DEF SocketsAreEnded
<1>6. LineIsTaken' /\ WipeIsDue'
  BY DEF LineIsTaken, TimersOff, WipeIsDue
<1>7. StopIsJoined' /\ RejectionIsKept'
  BY <1>1, <1>2 DEF IInv, StopIsJoined, RejectionIsKept
<1> QED BY <1>4, <1>5, <1>6, <1>7 DEF IInv

LEMMA RunEndsKeep == IInv /\ (OpenFails \/ RunEnds) => IInv'
<1> SUFFICES ASSUME IInv, OpenFails \/ RunEnds PROVE IInv'
  OBVIOUS
<1>1. /\ pc \in {"opening", "events"} /\ pc' = "teardown"
      /\ UNCHANGED <<statusVars, outcome, haltVars, verdictTimer, syncTimer,
                     saveVars, rejected, lineVars, firstQrSeen, verdictFired,
                     initialSyncComplete, conn, life, queue, creds>>
  BY DEF OpenFails, RunEnds, SupervisorOnly, SocketKept, connVars, statusVars
<1>2. /\ end' \in {"no", "draining", "drained"}
      /\ end' = "drained" => end = "drained"
      /\ conn = "none" => end' = end
      /\ conn = "none" \/ end' # "no"
  <2>1. CASE OpenFails
    BY <2>1 DEF OpenFails, SocketKept, connVars, IInv, TypeOK, SocketsAreEnded
  <2>2. CASE RunEnds
    BY <2>2 DEF RunEnds, IInv, TypeOK, SocketsAreEnded
  <2> QED BY <2>1, <2>2
<1>3. /\ failure' \in Kinds \cup {"none", "processing"}
      /\ rejected => failure' = "subscriber"
      /\ line = <<>>
      /\ fault = "none" => TimersOff
  <2>1. CASE OpenFails
    BY <2>1
       DEF OpenFails, IInv, TypeOK, LineIsTaken, StopIsJoined, RejectionIsKept, Kinds
  <2>2. CASE RunEnds
    <3>1. pc = "events" /\ (fault = "none" => line = <<>> /\ queue = <<>>
                                              /\ conn = "closed" /\ failure' = "none")
          /\ (fault # "none" => failure' = fault)
      BY <2>2 DEF RunEnds
    <3>2. line = <<>> /\ (rejected => fault = "subscriber")
      BY <3>1 DEF IInv, TypeOK, RejectionIsKept, StopIsJoined
    <3>3. fault = "none" => TimersOff
      BY <3>1 DEF IInv, LineIsTaken, CloseIsNext
    <3> QED BY <3>1, <3>2, <3>3 DEF IInv, TypeOK, Kinds
  <2> QED BY <2>1, <2>2
<1> USE DEF statusVars, haltVars, saveVars, lineVars
<1>4. TypeOK'
  BY <1>1, <1>2, <1>3 DEF IInv, TypeOK
<1>5. SocketsAreEnded'
  BY <1>1, <1>2 DEF IInv, SocketsAreEnded
<1>6. LineIsTaken' /\ WipeIsDue'
  BY <1>1, <1>3 DEF IInv, LineIsTaken, TimersOff, WipeIsDue
<1>7. StopIsJoined' /\ RejectionIsKept'
  BY <1>1, <1>3 DEF IInv, StopIsJoined, RejectionIsKept
<1> QED BY <1>4, <1>5, <1>6, <1>7 DEF IInv

(***************************************************************************)
(* stop().                                                                 *)
(***************************************************************************)
LEMMA StopKeeps == IInv /\ Stop => IInv'
<1> SUFFICES ASSUME IInv, Stop PROVE IInv'
  OBVIOUS
<1> USE DEF Stop, StopOnly, superVars, lineVars, saveVars
<1>1. end' \in {"no", "draining", "drained"}
      /\ (end' = "drained") = (end = "drained")
      /\ (conn = "none" => end' = end) /\ (end # "no" => end' # "no")
  <2>1. end \in {"no", "draining", "drained"}
        /\ end' = IF conn # "none" /\ end = "no" THEN "draining" ELSE end
    BY DEF IInv, TypeOK
  <2> QED BY <2>1
<1>2. TypeOK'
  <2>1. /\ stopped' \in BOOLEAN /\ verdictTimer' \in BOOLEAN
        /\ syncTimer' \in BOOLEAN /\ halting' = "ending"
    OBVIOUS
  <2>2. UNCHANGED <<status, report, rejected, superVars, lineVars, firstQrSeen,
                    verdictFired, initialSyncComplete, conn, life, queue, creds,
                    saveVars, method>>
    OBVIOUS
  <2> HIDE DEF Stop
  <2> QED BY <1>1, <2>1, <2>2 DEF IInv, TypeOK
<1>3. SocketsAreEnded'
  BY <1>1 DEF IInv, SocketsAreEnded
<1>4. LineIsTaken' /\ WipeIsDue'
  BY DEF IInv, LineIsTaken, TimersOff, CloseIsNext, WipeIsDue
<1>5. StopIsJoined' /\ RejectionIsKept'
  BY DEF IInv, StopIsJoined, RejectionIsKept
<1> QED BY <1>2, <1>3, <1>4, <1>5 DEF IInv

\* What stop() reports when a handler has rejected on the way.
LEMMA RejectionIsReported ==
  ASSUME IInv, pc \in {"off", "settled"}, halting # "done"
  PROVE  rejected => Verdict(FALSE) = "subscriber"
<1>1. rejected => outcome \in {"subscriber", "leaked"}
  BY DEF IInv, StopIsJoined, RejectionIsKept
<1>2. outcome = "leaked" => ~saveFailed
  BY DEF IInv, RejectionIsKept
<1> QED BY <1>1, <1>2 DEF Verdict

LEMMA StopEndsKeep == IInv /\ (StopProceeds \/ StopRejected) => IInv'
<1> SUFFICES ASSUME IInv, StopProceeds \/ StopRejected PROVE IInv'
  OBVIOUS
<1> USE DEF StopOnly, superVars, lineVars, saveVars
<1>1. UNCHANGED <<stopped, verdictTimer, syncTimer, end, superVars, lineVars,
                  firstQrSeen, verdictFired, initialSyncComplete, conn, life,
                  queue, creds, saveVars, method>>
  BY DEF StopProceeds, StopRejected, statusVars
<1>2. \A b \in BOOLEAN : Verdict(b) \in Kinds \cup {"ok"}
  BY DEF Verdict, Kinds
<1>3. /\ halting \in {"ending", "joining", "settling"}
      /\ halting' \in {"joining", "settling", "done"}
      /\ halting' = "settling" => pc = "settled"
      /\ halting' = "done" => pc \in {"off", "settled"}
      /\ halting' # "done" => report' = report
      /\ halting' = "done" => report' \in Kinds \cup {"ok"}
      /\ rejected' \in BOOLEAN
  <2>1. CASE StopRejected
    BY <1>2, <2>1 DEF StopRejected, Report, IInv, StopIsJoined
  <2>2. CASE halting = "ending" /\ halting' = "joining" /\ UNCHANGED <<report, rejected>>
    BY <2>2 DEF IInv, TypeOK
  <2>3. CASE halting = "settling" /\ Report(FALSE) /\ UNCHANGED rejected
    BY <1>2, <2>3 DEF Report, IInv, TypeOK, StopIsJoined
  <2>4. CASE /\ halting = "joining" /\ pc \in {"off", "settled"}
             /\ IF AtRest(status)
                THEN Report(FALSE) /\ UNCHANGED status
                ELSE /\ status' = Transition(status, "stop")
                     /\ halting' = "settling" /\ UNCHANGED report
             /\ UNCHANGED rejected
    <3>1. pc = "off" => AtRest(status)
      BY DEF IInv, StopIsJoined, AtRest
    <3> QED BY <1>2, <2>4, <3>1 DEF Report, IInv, TypeOK
  <2> QED BY <2>1, <2>2, <2>3, <2>4 DEF StopProceeds
<1>4. /\ status' \in Statuses
      /\ pc = "off" => status' = status
      /\ pc \notin {"off", "settled"} => status' = status
  <2>1. pc = "off" => AtRest(status) /\ halting # "settling"
    BY DEF IInv, StopIsJoined, AtRest
  <2>2. Transition(status, "stop") \in Statuses /\ status \in Statuses
    BY TransitionTyped DEF IInv, TypeOK, Inputs
  <2> QED BY <2>1, <2>2 DEF StopProceeds, StopRejected, statusVars
<1>5. TypeOK'
  BY <1>1, <1>3, <1>4 DEF IInv, TypeOK
<1>6. SocketsAreEnded'
  BY <1>1 DEF IInv, SocketsAreEnded
<1>7. LineIsTaken' /\ WipeIsDue'
  BY <1>1, <1>4
     DEF IInv, TypeOK, LineIsTaken, TimersOff, CloseIsNext, WipeIsDue
<1>8. StopIsJoined'
  BY <1>1, <1>3, <1>4 DEF IInv, StopIsJoined
<1>9. RejectionIsKept'
  <2>1. CASE StopRejected
    BY <1>1, <1>3, <2>1
       DEF IInv, StopRejected, Report, Verdict, StopIsJoined, RejectionIsKept
  <2>2. CASE StopProceeds
    <3>1. rejected' = rejected
      BY <2>2 DEF StopProceeds
    <3>2. report' = "subscriber" => pc = "settled"
      <4>1. CASE halting' = "done"
        <5>1. report' = Verdict(FALSE)
          BY <2>2, <4>1 DEF StopProceeds, Report
        <5>2. outcome = "none" /\ ~saveFailed => Verdict(FALSE) = "ok"
          BY DEF Verdict
        <5>3. pc = "off" => outcome = "none" /\ ~saveFailed
          BY DEF IInv, SocketsAreEnded, RejectionIsKept
        <5> QED BY <1>3, <4>1, <5>1, <5>2, <5>3
      <4>2. CASE halting' # "done"
        BY <1>3, <4>2 DEF IInv, RejectionIsKept
      <4> QED BY <4>1, <4>2
    <3>3. report = "none"
      BY <1>3 DEF IInv, StopIsJoined
    <3> QED BY <1>1, <3>1, <3>2, <3>3 DEF IInv, RejectionIsKept
  <2> QED BY <2>1, <2>2
<1> QED BY <1>5, <1>6, <1>7, <1>8, <1>9 DEF IInv

(***************************************************************************)
(* Every step keeps the invariant.                                         *)
(***************************************************************************)
LEMMA NextKeepsInvariant == IInv /\ [Next]_vars => IInv'
<1> SUFFICES ASSUME IInv, [Next]_vars PROVE IInv'
  OBVIOUS
<1>1. CASE Supervisor
  BY <1>1, TakeKeeps, AnnouncedKeeps, OpenedKeeps, RunEndsKeep, TornDownKeeps,
     RetryDueKeeps DEF Supervisor
<1>2. CASE Start \/ Stop \/ AnnouncementRejected
  BY <1>2, StartKeeps, StopKeeps, AnnouncementRejectedKeeps
<1>3. CASE Pipeline \/ VerdictDue \/ SyncDue
  BY <1>3, PipelineKeeps, TimersKeep
<1>4. CASE Drained \/ StopProceeds \/ StopRejected
  BY <1>4, DrainedKeeps, StopEndsKeep
<1>5. CASE \E event \in Events : Emit(event)
  BY <1>5, EmitKeeps
<1>6. CASE CredsUpdate \/ Save \/ SocketCloses
  BY <1>6, CredsUpdateKeeps, SaveKeeps, SocketClosesKeeps
<1>7. CASE UNCHANGED vars
  <2> USE <1>7 DEF vars, statusVars, superVars, haltVars, lineVars, timerVars,
                   connVars, saveVars
  <2>1. TypeOK'
    BY DEF IInv, TypeOK
  <2>2. SocketsAreEnded' /\ StopIsJoined' /\ RejectionIsKept'
    BY DEF IInv, SocketsAreEnded, StopIsJoined, RejectionIsKept
  <2>3. LineIsTaken' /\ WipeIsDue'
    BY DEF IInv, LineIsTaken, TimersOff, CloseIsNext, WipeIsDue
  <2> QED BY <2>1, <2>2, <2>3 DEF IInv
<1> QED BY <1>1, <1>2, <1>3, <1>4, <1>5, <1>6, <1>7 DEF Next

LEMMA InvariantHolds == Spec => []IInv
  BY InitInvariant, NextKeepsInvariant, PTL DEF Spec

-----------------------------------------------------------------------------
(***************************************************************************)
(* The theorems.                                                           *)
(***************************************************************************)

\* Whatever WhatsApp, the credential store, the handlers and the timers of
\* session.ts do, every variable keeps its type, and a line that has failed
\* takes no more work.
THEOREM SessionTypes == Spec => []TypeOK
<1>1. IInv => TypeOK
  BY DEF IInv
<1> QED BY <1>1, InvariantHolds, PTL

\* Two sockets never write credentials at the same time: the supervisor opens
\* none while a save of its predecessor is under way.
THEOREM NeverTwoWriters == Spec => []OneWriter
<1>1. IInv => OneWriter
  BY DEF IInv, SocketsAreEnded, OneWriter
<1> QED BY <1>1, InvariantHolds, PTL

\* When stop() has returned, every socket has ended and made its saves, and no
\* supervisor will open another, not even one that is started only then.
THEOREM StopLeavesNothingAlive == Spec => []StoppedMeansQuiet
<1>1. IInv => StoppedMeansQuiet
  BY DEF IInv, SocketsAreEnded, StopIsJoined, StoppedMeansQuiet
<1> QED BY <1>1, InvariantHolds, PTL

\* logged_out and suspended are final: no event, timer, retry or stop leads out
\* of them, nor the wipe of the credentials that one of them waited for.
THEOREM NothingRevivesASession == Spec => FinalIsFinal
<1>1. ASSUME IInv, [Next]_vars, status.phase \in Final
      PROVE  status' = status
  <2>1. status \in Statuses /\ (awaiting = "wipe" => status.phase \notin Final)
    BY <1>1 DEF IInv, TypeOK, WipeIsDue
  <2>2. ASSUME NEW input \in Inputs
        PROVE  Transition(status, input) = status /\ ~Moves(status, input)
    BY <1>1, <2>1, FinalStays
  <2>3. {"start", "stop", "closed_retryable", "retry_due"} \subseteq Inputs
    BY DEF Inputs, Closes
  <2>4. CASE Pipeline
    BY <1>1, <2>1, <2>2, <2>4
       DEF Pipeline, Apply, Ready, Wiped, Awaiting, Handled, Deliver, CodeAnswered,
           SetTimers
  <2>5. CASE Start \/ Announced \/ AnnouncementRejected \/ TornDown \/ RetryDue
    BY <2>2, <2>3, <2>5
       DEF Start, Announced, AnnouncementRejected, TornDown, RetryDue, Announce,
           Continue, Settle, RunFailed, FailTerminal
  <2>6. CASE Take \/ Opened \/ OpenFails \/ RunEnds \/ VerdictDue \/ SyncDue
    BY <2>6 DEF Take, Opened, OpenFails, RunEnds, VerdictDue, SyncDue, TimersOnly,
                statusVars
  <2>7. CASE Stop \/ StopProceeds \/ StopRejected \/ Drained
    BY <2>2, <2>3, <2>7 DEF Stop, StopProceeds, StopRejected, Drained, statusVars
  <2>8. CASE \/ \E event \in Events : Emit(event)
             \/ CredsUpdate \/ Save \/ SocketCloses
    BY <2>8 DEF Emit, CredsUpdate, Save, SocketCloses, SocketOnly, statusVars
  <2>9. CASE UNCHANGED vars
    BY <2>9 DEF vars, statusVars
  <2> QED
    BY <1>1, <2>4, <2>5, <2>6, <2>7, <2>8, <2>9 DEF Next, Supervisor
<1> QED
  BY <1>1, InvariantHolds, PTL DEF Spec, FinalIsFinal

(***************************************************************************)
(* A step that settles the supervisor, and one that settles stop().        *)
(***************************************************************************)
LEMMA OnlyTheSupervisorSettles ==
  ASSUME [Next]_vars, outcome' # outcome
  PROVE  Announced \/ AnnouncementRejected \/ TornDown \/ RetryDue
BY DEF Next, vars, superVars, Start, Announce, Stop, StopOnly, Supervisor, Take,
       Opened, OpenFails, RunEnds, Pipeline, Apply, Wiped, Handled, Deliver,
       CodeAnswered, SetTimers, PipelineOnly, VerdictDue, SyncDue, TimersOnly,
       Drained, StopProceeds, StopRejected, Emit, CredsUpdate, Save,
       SocketCloses, SocketOnly

LEMMA OnlyStopReports ==
  ASSUME [Next]_vars, report' # report
  PROVE  StopProceeds \/ StopRejected
BY DEF Next, vars, haltVars, Start, SupervisorOnly, Stop, Supervisor, Take,
       Announced, AnnouncementRejected, Opened, OpenFails, RunEnds, TornDown,
       RetryDue, Pipeline, Apply, Wiped, Handled, Deliver, CodeAnswered,
       SetTimers, PipelineOnly, VerdictDue, SyncDue, TimersOnly, Drained, Emit,
       CredsUpdate, Save, SocketCloses, SocketOnly

\* ADR-0021: the rejection of a handler is what start() and stop() report,
\* whatever transport, credentials or the winding down bring besides.
THEOREM RejectionIsNotMasked == Spec => HandlerFailureWins
<1>1. ASSUME IInv, IInv', [Next]_vars
      PROVE  /\ outcome' # outcome /\ rejected' => outcome' \in {"subscriber", "leaked"}
             /\ report' # report /\ rejected' => report' = "subscriber"
  <2>1. ASSUME outcome' # outcome, rejected'
        PROVE  outcome' \in {"subscriber", "leaked"}
    <3>1. Announced \/ AnnouncementRejected \/ TornDown \/ RetryDue
      BY <1>1, <2>1, OnlyTheSupervisorSettles
    <3>2. UNCHANGED <<report, fault>>
      BY <3>1 DEF Announced, AnnouncementRejected, TornDown, RetryDue,
                  SupervisorOnly, SocketKept, haltVars, lineVars
    <3>3. pc # "settled" /\ outcome = "none"
      BY <1>1, <3>1 DEF Announced, AnnouncementRejected, TornDown, RetryDue,
                        IInv, TypeOK, RejectionIsKept
    <3>4. pc' = "settled" /\ report' # "subscriber"
      BY <1>1, <2>1, <3>2, <3>3 DEF IInv, RejectionIsKept
    <3> QED BY <1>1, <2>1, <3>4 DEF IInv, RejectionIsKept
  <2>2. ASSUME report' # report, rejected'
        PROVE  report' = "subscriber"
    <3>1. CASE StopRejected
      BY <3>1 DEF StopRejected, Report, Verdict
    <3>2. CASE StopProceeds
      <4>1. Report(FALSE) /\ rejected' = rejected
        BY <2>2, <3>2 DEF StopProceeds
      <4>2. pc \in {"off", "settled"} /\ halting # "done"
        BY <1>1, <2>2, <3>2 DEF StopProceeds, IInv, StopIsJoined
      <4> QED BY <1>1, <2>2, <4>1, <4>2, RejectionIsReported DEF Report
    <3> QED BY <1>1, <2>2, <3>1, <3>2, OnlyStopReports
  <2> QED BY <2>1, <2>2
<1> QED
  BY <1>1, NextKeepsInvariant, InvariantHolds, PTL DEF Spec, HandlerFailureWins


(***************************************************************************)
(* The adapter. Extremes of sets of numbers first.                         *)
(***************************************************************************)
LEMMA LeastExists ==
  ASSUME NEW S, S \subseteq Nat, S # {}
  PROVE  \E x \in S : \A y \in S : x <= y
<1> DEFINE R == OpToRel(<, Nat)
<1>1. IsWellFoundedOn(R, Nat)
  BY NatLessThanWellFounded
<1>2. PICK x \in S : \A y \in S : ~ (<<y, x>> \in R)
  <2> HIDE DEF R
  <2> QED BY <1>1, WFMin
<1>3. \A y \in S : ~ (y < x)
  BY <1>2 DEF OpToRel
<1> HIDE DEF R
<1> QED BY <1>3

LEMMA GreatestExists ==
  ASSUME NEW n \in Nat, NEW S, S \subseteq 0 .. n, S # {}
  PROVE  \E x \in S : \A y \in S : y <= x
<1> DEFINE T == {n - x : x \in S}
<1>1. T \subseteq Nat /\ T # {}
  <2>1. \A x \in S : n - x \in Nat
    OBVIOUS
  <2> QED BY <2>1
<1>2. PICK t \in T : \A u \in T : t <= u
  <2> HIDE DEF T
  <2> QED BY <1>1, LeastExists
<1>3. PICK x \in S : t = n - x
  OBVIOUS
<1>4. \A y \in S : n - x <= n - y
  BY <1>2, <1>3
<1> QED BY <1>4

(***************************************************************************)
(* What is remembered of a payload and what is told of it are folds, which *)
(* Folds defines by a recursive function on sets of indices. For each step *)
(* that function exists and is unique for every length, by the least       *)
(* length for which it were not so.                                        *)
(***************************************************************************)
Remembering == [remembers |-> TRUE, acts |-> {}]
Telling(acts) == [remembers |-> FALSE, acts |-> acts]

Step(w, known, act) ==
  IF w.remembers THEN Remember(known, act)
  ELSE IF act \in w.acts THEN Append(known, Told(act)) ELSE known

Unfolds(F, w, b, s, n) ==
  F = [T \in SUBSET (1 .. n) |->
         IF T = {} THEN b ELSE Step(w, F[T \ {Max(T)}], s[Max(T)])]

LEMMA MaxIs ==
  ASSUME NEW n \in Nat, NEW T \in SUBSET (1 .. n), T # {}
  PROVE  Max(T) \in T /\ \A y \in T : y <= Max(T)
<1>1. \E x \in T : \A y \in T : y <= x
  <2>1. T \subseteq 0 .. n
    OBVIOUS
  <2> QED BY <2>1, GreatestExists
<1>2. \E x \in T : \A y \in T : x >= y
  BY <1>1
<1>3. Max(T) \in T /\ \A y \in T : Max(T) >= y
  BY <1>2 DEF Max
<1> QED BY <1>3

LEMMA UnfoldingGrows ==
  ASSUME NEW w, NEW b, NEW s, NEW n \in Nat, NEW F, Unfolds(F, w, b, s, n)
  PROVE  \E G : Unfolds(G, w, b, s, n + 1)
<1> DEFINE G == [T \in SUBSET (1 .. n + 1) |->
                   IF T = {} THEN b ELSE Step(w, F[T \ {Max(T)}], s[Max(T)])]
<1>1. ASSUME NEW T \in SUBSET (1 .. n) PROVE G[T] = F[T]
  <2>1. T \in SUBSET (1 .. n + 1)
    OBVIOUS
  <2>2. G[T] = IF T = {} THEN b ELSE Step(w, F[T \ {Max(T)}], s[Max(T)])
    BY <2>1
  <2>3. F[T] = IF T = {} THEN b ELSE Step(w, F[T \ {Max(T)}], s[Max(T)])
    BY DEF Unfolds
  <2> QED BY <2>2, <2>3
<1>2. ASSUME NEW T \in SUBSET (1 .. n + 1), T # {}
      PROVE  T \ {Max(T)} \in SUBSET (1 .. n)
  <2>1. n + 1 \in Nat
    OBVIOUS
  <2>2. Max(T) \in T /\ \A y \in T : y <= Max(T)
    BY <1>2, <2>1, MaxIs
  <2>3. ASSUME NEW y \in T, y # Max(T) PROVE y \in 1 .. n
    <3>1. y \in 1 .. n + 1 /\ Max(T) \in 1 .. n + 1 /\ y <= Max(T)
      BY <2>2
    <3> QED BY <2>3, <3>1
  <2> QED BY <2>3
<1>3. ASSUME NEW T \in SUBSET (1 .. n + 1), T # {}
      PROVE  G[T] = Step(w, G[T \ {Max(T)}], s[Max(T)])
  <2>1. G[T \ {Max(T)}] = F[T \ {Max(T)}]
    BY <1>1, <1>2, <1>3
  <2>2. G[T] = Step(w, F[T \ {Max(T)}], s[Max(T)])
    BY <1>3
  <2> QED BY <2>1, <2>2
<1>4. G = [T \in SUBSET (1 .. n + 1) |->
             IF T = {} THEN b ELSE Step(w, G[T \ {Max(T)}], s[Max(T)])]
  <2>1. G[{}] = b
    OBVIOUS
  <2>2. G = [T \in SUBSET (1 .. n + 1) |-> G[T]]
    OBVIOUS
  <2> HIDE DEF G
  <2>3. \A T \in SUBSET (1 .. n + 1) :
          G[T] = IF T = {} THEN b ELSE Step(w, G[T \ {Max(T)}], s[Max(T)])
    BY <1>3, <2>1
  <2> QED BY <2>2, <2>3
<1> HIDE DEF G
<1> QED BY <1>4 DEF Unfolds

LEMMA UnfoldingExists ==
  ASSUME NEW w, NEW b, NEW s, NEW n \in Nat
  PROVE  \E F : Unfolds(F, w, b, s, n)
<1> DEFINE Bad == {k \in Nat : ~ \E F : Unfolds(F, w, b, s, k)}
<1>1. SUFFICES ASSUME Bad # {} PROVE FALSE
  OBVIOUS
<1>2. PICK k \in Bad : \A j \in Bad : k <= j
  BY <1>1, LeastExists
<1>3. Unfolds([T \in SUBSET (1 .. 0) |-> b], w, b, s, 0)
  <2>1. \A T \in SUBSET (1 .. 0) : T = {}
    OBVIOUS
  <2> QED BY <2>1 DEF Unfolds
<1>4. k # 0
  BY <1>3
<1>5. k - 1 \in Nat /\ k - 1 \notin Bad /\ k = (k - 1) + 1
  BY <1>2, <1>4
<1>6. PICK F : Unfolds(F, w, b, s, k - 1)
  BY <1>5
<1>7. \E G : Unfolds(G, w, b, s, k)
  BY <1>5, <1>6, UnfoldingGrows
<1> QED BY <1>7

\* What the unfoldings of two sequences have in common.
LEMMA UnfoldingsAgree ==
  ASSUME NEW w, NEW b, NEW s, NEW t, NEW n \in Nat,
         NEW F, Unfolds(F, w, b, s, n), NEW G, Unfolds(G, w, b, t, n + 1),
         \A i \in 1 .. n : t[i] = s[i]
  PROVE  F[1 .. n] = G[1 .. n]
<1> DEFINE Bad == {k \in 0 .. n : \E T \in SUBSET (1 .. k) : F[T] # G[T]}
<1>1. \A k \in 0 .. n : \A T \in SUBSET (1 .. k) :
        T \in SUBSET (1 .. n) /\ T \in SUBSET (1 .. n + 1)
  OBVIOUS
<1>2. ASSUME Bad # {} PROVE FALSE
  <2>1. PICK k \in Bad : \A j \in Bad : k <= j
    <3>1. Bad \subseteq Nat
      OBVIOUS
    <3> HIDE DEF Bad
    <3> QED BY <1>2, <3>1, LeastExists
  <2>2. PICK T \in SUBSET (1 .. k) : F[T] # G[T]
    OBVIOUS
  <2>3. T \in SUBSET (1 .. n) /\ T \in SUBSET (1 .. n + 1) /\ k \in 0 .. n
    BY <1>1
  <2>4. T # {}
    BY <2>2, <2>3 DEF Unfolds
  <2>5. Max(T) \in T /\ \A y \in T : y <= Max(T)
    BY <2>3, <2>4, MaxIs
  <2>6. Max(T) \in 1 .. k
    BY <2>5
  <2>7. T \ {Max(T)} \in SUBSET (1 .. k - 1)
    <3>1. ASSUME NEW y \in T, y # Max(T) PROVE y \in 1 .. k - 1
      <4>1. y \in 1 .. k /\ y <= Max(T)
        BY <2>5
      <4> QED BY <2>3, <2>6, <3>1, <4>1
    <3> QED BY <3>1
  <2>8. F[T \ {Max(T)}] = G[T \ {Max(T)}]
    <3>1. k - 1 \in 0 .. n /\ ~ (k <= k - 1)
      BY <2>3, <2>6
    <3>2. k - 1 \notin Bad
      <4> HIDE DEF Bad
      <4> QED BY <2>1, <3>1
    <3> QED BY <2>7, <3>1, <3>2
  <2>9. s[Max(T)] = t[Max(T)]
    BY <2>3, <2>6
  <2>10. F[T] = Step(w, F[T \ {Max(T)}], s[Max(T)])
    BY ONLY <2>3, <2>4, Unfolds(F, w, b, s, n) DEF Unfolds
  <2>11. G[T] = Step(w, G[T \ {Max(T)}], t[Max(T)])
    BY ONLY <2>3, <2>4, Unfolds(G, w, b, t, n + 1) DEF Unfolds
  <2> QED BY <2>2, <2>8, <2>9, <2>10, <2>11
<1>3. Bad = {} => F[1 .. n] = G[1 .. n]
  <2>1. n \in 0 .. n
    OBVIOUS
  <2> QED BY <2>1
<1> QED BY <1>2, <1>3

\* What n steps over the sequence s make of b.
Folded(w, b, s, n) == (CHOOSE F : Unfolds(F, w, b, s, n))[1 .. n]

LEMMA FoldedNone ==
  ASSUME NEW w, NEW b, NEW s
  PROVE  Folded(w, b, s, 0) = b
<1>1. PICK F : F = CHOOSE G : Unfolds(G, w, b, s, 0)
  OBVIOUS
<1>2. Unfolds(F, w, b, s, 0)
  BY <1>1, UnfoldingExists
<1>3. F[1 .. 0] = b
  <2>1. 1 .. 0 = {}
    OBVIOUS
  <2> QED BY <1>2, <2>1 DEF Unfolds
<1> QED BY <1>1, <1>3 DEF Folded

LEMMA FoldedMore ==
  ASSUME NEW w, NEW b, NEW s, NEW n \in Nat
  PROVE  Folded(w, b, s, n + 1) = Step(w, Folded(w, b, s, n), s[n + 1])
<1>1. PICK F : F = CHOOSE H : Unfolds(H, w, b, s, n)
  OBVIOUS
<1>2. PICK G : G = CHOOSE H : Unfolds(H, w, b, s, n + 1)
  OBVIOUS
<1>3. Unfolds(F, w, b, s, n) /\ Unfolds(G, w, b, s, n + 1)
  <2>1. n + 1 \in Nat
    OBVIOUS
  <2> QED BY <1>1, <1>2, <2>1, UnfoldingExists
<1>4. F[1 .. n] = G[1 .. n]
  BY ONLY <1>3, n \in Nat, UnfoldingsAgree
<1>5. G[1 .. n + 1] = Step(w, G[1 .. n], s[n + 1])
  <2>1. 1 .. n + 1 \in SUBSET (1 .. n + 1) /\ 1 .. n + 1 # {}
    OBVIOUS
  <2>2. Max(1 .. n + 1) = n + 1
    <3>1. n + 1 \in 1 .. n + 1 /\ n + 1 \in Nat
      OBVIOUS
    <3>2. Max(1 .. n + 1) \in 1 .. n + 1 /\ n + 1 <= Max(1 .. n + 1)
      BY <2>1, <3>1, MaxIs
    <3> QED BY <3>2
  <2>3. (1 .. n + 1) \ {n + 1} = 1 .. n
    OBVIOUS
  <2>4. G[1 .. n + 1] = Step(w, G[(1 .. n + 1) \ {Max(1 .. n + 1)}], s[Max(1 .. n + 1)])
    BY ONLY <1>3, <2>1 DEF Unfolds
  <2> QED BY <2>2, <2>3, <2>4
<1> QED BY <1>1, <1>2, <1>4, <1>5 DEF Folded

LEMMA ToldOfIs ==
  ASSUME NEW s, NEW n \in Nat, DOMAIN s = 1 .. n, NEW acts
  PROVE  ToldOf(s, acts) = Folded(Telling(acts), <<>>, s, n)
<1> DEFINE Tells(F) == F = [T \in SUBSET (1 .. n) |->
                              IF T = {} THEN <<>>
                              ELSE IF s[Max(T)] \in acts
                                   THEN Append(F[T \ {Max(T)}], Told(s[Max(T)]))
                                   ELSE F[T \ {Max(T)}]]
<1>1. ToldOf(s, acts) = (CHOOSE F : Tells(F))[1 .. n]
  BY DEF ToldOf, FoldLeft, MapThenFoldSet
<1>2. \A F : Tells(F) <=> Unfolds(F, Telling(acts), <<>>, s, n)
  BY DEF Unfolds, Step, Telling
<1> HIDE DEF Tells
<1>3. (CHOOSE F : Tells(F)) = CHOOSE F : Unfolds(F, Telling(acts), <<>>, s, n)
  BY <1>2
<1> QED BY <1>1, <1>3 DEF Folded

LEMMA RememberedIs ==
  ASSUME NEW s, NEW n \in Nat, DOMAIN s = 1 .. n
  PROVE  Remembered(s) = Folded(Remembering, recent, s, n)
<1> DEFINE Remembers(F) == F = [T \in SUBSET (1 .. n) |->
                                  IF T = {} THEN recent
                                  ELSE Remember(F[T \ {Max(T)}], s[Max(T)])]
<1>1. Remembered(s) = (CHOOSE F : Remembers(F))[1 .. n]
  BY DEF Remembered, FoldLeft, MapThenFoldSet
<1>2. \A F : Remembers(F) <=> Unfolds(F, Remembering, recent, s, n)
  BY DEF Unfolds, Step, Remembering
<1> HIDE DEF Remembers
<1>3. (CHOOSE F : Remembers(F)) = CHOOSE F : Unfolds(F, Remembering, recent, s, n)
  BY <1>2
<1> QED BY <1>1, <1>3 DEF Folded

(***************************************************************************)
(* What is told of a payload: each act of it that is to be told, once.     *)
(***************************************************************************)
Tellings == [act : Acts, by : People \cup {Group}]

TellsOf(t, s, n, acts) ==
  /\ t \in Seq(Tellings)
  /\ \A q \in 1 .. Len(t) : \E m \in 1 .. n : s[m] \in acts /\ t[q] = Told(s[m])
  /\ \A m \in 1 .. n : s[m] \in acts => \E q \in 1 .. Len(t) : t[q].act = s[m]
  /\ \A p, q \in 1 .. Len(t) : t[p].act = t[q].act => p = q

LEMMA ActIs ==
  ASSUME NEW act \in Acts
  PROVE  /\ act.who \in People
         /\ act.kind \in {"message", "edit", "revoke", "reaction", "vote"}
<1>1. \A m : AuthorOf(m) \in People
  BY DEF AuthorOf, People
<1> QED BY <1>1 DEF Acts

LEMMA ToldIs ==
  ASSUME NEW act \in Acts, SocketAssumption
  PROVE  Told(act) \in Tellings /\ Told(act).act = act
<1>1. By(act) \in People \cup {Group}
  BY ActIs DEF By, Named, SenderOf, KeyOf, People
<1> QED BY <1>1 DEF Told, Tellings

LEMMA ToldOneMore ==
  ASSUME SocketAssumption, NEW s, NEW n \in Nat, NEW acts, NEW t, TellsOf(t, s, n, acts),
         s[n + 1] \in Acts, \A m \in 1 .. n : s[m] \in Acts /\ s[m] # s[n + 1]
  PROVE  TellsOf(Step(Telling(acts), t, s[n + 1]), s, n + 1, acts)
<1>1. CASE s[n + 1] \notin acts
  <2>1. Step(Telling(acts), t, s[n + 1]) = t
    BY <1>1 DEF Step, Telling
  <2> QED BY <1>1, <2>1 DEF TellsOf
<1>2. CASE s[n + 1] \in acts
  <2> DEFINE u == Append(t, Told(s[n + 1]))
  <2>1. Step(Telling(acts), t, s[n + 1]) = u
    BY <1>2 DEF Step, Telling
  <2>2. /\ Told(s[n + 1]) \in Tellings /\ Told(s[n + 1]).act = s[n + 1]
        /\ \A m \in 1 .. n : Told(s[m]).act = s[m]
    BY ToldIs
  <2>3. /\ u \in Seq(Tellings) /\ Len(u) = Len(t) + 1 /\ Len(t) \in Nat
        /\ \A q \in 1 .. Len(t) : u[q] = t[q]
        /\ u[Len(t) + 1] = Told(s[n + 1])
    BY <2>2 DEF TellsOf
  <2> HIDE DEF u
  <2>4. ASSUME NEW q \in 1 .. Len(u)
        PROVE  \E m \in 1 .. n + 1 : s[m] \in acts /\ u[q] = Told(s[m])
    <3>1. CASE q = Len(t) + 1
      BY <1>2, <2>3, <3>1
    <3>2. CASE q \in 1 .. Len(t)
      BY <2>3, <3>2 DEF TellsOf
    <3> QED BY <2>3, <3>1, <3>2
  <2>5. ASSUME NEW m \in 1 .. n + 1, s[m] \in acts
        PROVE  \E q \in 1 .. Len(u) : u[q].act = s[m]
    <3>1. CASE m = n + 1
      BY <2>2, <2>3, <3>1
    <3>2. CASE m \in 1 .. n
      <4>1. PICK q \in 1 .. Len(t) : t[q].act = s[m]
        BY <2>5, <3>2 DEF TellsOf
      <4> QED BY <2>3, <4>1
    <3> QED BY <3>1, <3>2
  <2>6. ASSUME NEW p \in 1 .. Len(u), NEW q \in 1 .. Len(u), u[p].act = u[q].act
        PROVE  p = q
    <3>1. ASSUME NEW r \in 1 .. Len(t) PROVE u[r].act # s[n + 1]
      <4>1. PICK m \in 1 .. n : t[r] = Told(s[m])
        BY DEF TellsOf
      <4> QED BY <2>2, <2>3, <4>1
    <3>2. CASE p \in 1 .. Len(t) /\ q \in 1 .. Len(t)
      BY <2>3, <2>6, <3>2 DEF TellsOf
    <3>3. CASE p = Len(t) + 1 /\ q \in 1 .. Len(t)
      BY <2>2, <2>3, <2>6, <3>1, <3>3
    <3>4. CASE q = Len(t) + 1 /\ p \in 1 .. Len(t)
      BY <2>2, <2>3, <2>6, <3>1, <3>4
    <3> QED BY <2>3, <3>2, <3>3, <3>4
  <2> QED BY <2>1, <2>3, <2>4, <2>5, <2>6 DEF TellsOf
<1> QED BY <1>1, <1>2

LEMMA ToldOnce ==
  ASSUME SocketAssumption, NEW n \in Nat, NEW s \in [1 .. n -> Acts], IsInjective(s), NEW acts
  PROVE  TellsOf(ToldOf(s, acts), s, n, acts)
<1> DEFINE Made(k) == Folded(Telling(acts), <<>>, s, k)
           Bad == {k \in 0 .. n : ~ TellsOf(Made(k), s, k, acts)}
<1>1. ASSUME Bad # {} PROVE FALSE
  <2>1. PICK k \in Bad : \A j \in Bad : k <= j
    <3>1. Bad \subseteq Nat
      OBVIOUS
    <3> HIDE DEF Bad
    <3> QED BY <1>1, <3>1, LeastExists
  <2>2. k \in 0 .. n /\ ~ TellsOf(Made(k), s, k, acts)
    OBVIOUS
  <2>3. TellsOf(Made(0), s, 0, acts)
    <3>1. Made(0) = <<>>
      BY FoldedNone
    <3>2. TellsOf(<<>>, s, 0, acts)
      BY DEF TellsOf
    <3> HIDE DEF Made
    <3> QED BY <3>1, <3>2
  <2>4. k # 0
    BY <2>2, <2>3
  <2>5. PICK j \in Nat : k = j + 1 /\ j \in 0 .. n
    <3>1. k - 1 \in Nat /\ k = (k - 1) + 1 /\ k - 1 \in 0 .. n
      BY <2>2, <2>4
    <3> QED BY <3>1
  <2>6. TellsOf(Made(j), s, j, acts)
    BY <2>1, <2>5
  <2>7. Made(k) = Step(Telling(acts), Made(j), s[j + 1])
    <3>1. ASSUME NEW i \in Nat
          PROVE  Made(i + 1) = Step(Telling(acts), Made(i), s[i + 1])
      <4>1. PICK w : w = Telling(acts)
        OBVIOUS
      <4>2. Folded(w, <<>>, s, i + 1) = Step(w, Folded(w, <<>>, s, i), s[i + 1])
        BY ONLY i \in Nat, FoldedMore
      <4> QED BY <4>1, <4>2
    <3> HIDE DEF Made
    <3> QED BY <2>5, <3>1
  <2>8. s[j + 1] \in Acts /\ \A m \in 1 .. j : s[m] \in Acts /\ s[m] # s[j + 1]
    BY <2>2, <2>5 DEF IsInjective
  <2> HIDE DEF Made
  <2>9. TellsOf(Step(Telling(acts), Made(j), s[j + 1]), s, j + 1, acts)
    BY <2>6, <2>8, ToldOneMore
  <2> QED BY <2>2, <2>5, <2>7, <2>9
<1>2. n \in 0 .. n
  OBVIOUS
<1>3. TellsOf(Made(n), s, n, acts)
  BY <1>1, <1>2
<1>4. ToldOf(s, acts) = Made(n)
  BY ToldOfIs
<1> QED BY <1>3, <1>4

(***************************************************************************)
(* What is remembered: the last acts there were, in their order.           *)
(***************************************************************************)
IsWindow(r, g, n) ==
  /\ r \in Seq(Acts)
  /\ Len(r) = IF n < RecentCap THEN n ELSE RecentCap
  /\ \A k \in 1 .. Len(r) : r[k] = g[n - Len(r) + k]

LEMMA WindowMoves ==
  ASSUME SocketAssumption, NEW g, NEW n \in Nat, NEW r, IsWindow(r, g, n), g[n + 1] \in Acts
  PROVE  IsWindow(Remember(r, g[n + 1]), g, n + 1)
<1> DEFINE grown == Append(r, g[n + 1])
<1>1. RecentCap \in Nat /\ RecentCap # 0
  BY DEF SocketAssumption
<1>2. /\ grown \in Seq(Acts) /\ Len(grown) = Len(r) + 1 /\ Len(r) \in Nat
      /\ \A k \in 1 .. Len(r) : grown[k] = g[n - Len(r) + k]
      /\ grown[Len(r) + 1] = g[n + 1]
  BY DEF IsWindow
<1>3. \A k \in 1 .. Len(r) + 1 : grown[k] = g[n - Len(r) + k]
  <2>1. ASSUME NEW k \in 1 .. Len(r) + 1 PROVE grown[k] = g[n - Len(r) + k]
    <3>1. CASE k \in 1 .. Len(r)
      BY <1>2, <3>1
    <3>2. CASE k = Len(r) + 1
      <4>1. n - Len(r) + k = n + 1
        BY <1>2, <3>2
      <4> QED BY <1>2, <3>2, <4>1
    <3> QED BY <1>2, <3>1, <3>2
  <2> QED BY <2>1
<1>4. Remember(r, g[n + 1]) = IF Len(grown) > RecentCap THEN Tail(grown) ELSE grown
  BY DEF Remember
<1> HIDE DEF grown
<1>5. CASE n < RecentCap
  <2>1. Len(r) = n /\ Remember(r, g[n + 1]) = grown
    BY <1>1, <1>2, <1>4, <1>5 DEF IsWindow
  <2> QED BY <1>1, <1>2, <1>3, <1>5, <2>1 DEF IsWindow
<1>6. CASE ~ (n < RecentCap)
  <2>1. Len(r) = RecentCap /\ Remember(r, g[n + 1]) = Tail(grown)
    BY <1>1, <1>2, <1>4, <1>6 DEF IsWindow
  <2>2. /\ Tail(grown) \in Seq(Acts) /\ Len(Tail(grown)) = RecentCap
        /\ \A k \in 1 .. RecentCap : Tail(grown)[k] = grown[k + 1]
    BY <1>1, <1>2, <2>1
  <2>3. ASSUME NEW k \in 1 .. RecentCap
        PROVE  Tail(grown)[k] = g[(n + 1) - RecentCap + k]
    <3>1. k + 1 \in 1 .. Len(r) + 1 /\ n - Len(r) + (k + 1) = (n + 1) - RecentCap + k
      BY <1>1, <2>1
    <3> QED BY <1>3, <2>2, <3>1
  <2> DEFINE u == Tail(grown)
  <2>4. /\ u \in Seq(Acts) /\ Len(u) = RecentCap
        /\ \A k \in 1 .. RecentCap : u[k] = g[(n + 1) - RecentCap + k]
    BY <2>2, <2>3
  <2>5. ~ (n + 1 < RecentCap)
    BY <1>1, <1>6
  <2> HIDE DEF u
  <2>6. IsWindow(u, g, n + 1)
    BY <2>4, <2>5 DEF IsWindow
  <2> QED BY <2>1, <2>6 DEF u
<1> QED BY <1>5, <1>6

LEMMA RemembersTheLast ==
  ASSUME SocketAssumption, NEW g, NEW n \in Nat, IsWindow(recent, g, n),
         NEW m \in Nat, NEW s \in [1 .. m -> Acts], \A k \in 1 .. m : g[n + k] = s[k]
  PROVE  IsWindow(Remembered(s), g, n + m)
<1> DEFINE Made(k) == Folded(Remembering, recent, s, k)
           Bad == {k \in 0 .. m : ~ IsWindow(Made(k), g, n + k)}
<1>1. ASSUME Bad # {} PROVE FALSE
  <2>1. PICK k \in Bad : \A j \in Bad : k <= j
    <3>1. Bad \subseteq Nat
      OBVIOUS
    <3> HIDE DEF Bad
    <3> QED BY <1>1, <3>1, LeastExists
  <2>2. k \in 0 .. m /\ ~ IsWindow(Made(k), g, n + k)
    OBVIOUS
  <2>3. IsWindow(Made(0), g, n + 0)
    <3>1. Made(0) = recent /\ n + 0 = n
      BY FoldedNone
    <3> HIDE DEF Made
    <3> QED BY <3>1
  <2>4. k # 0
    BY <2>2, <2>3
  <2>5. PICK j \in Nat : k = j + 1 /\ j \in 0 .. m
    <3>1. k - 1 \in Nat /\ k = (k - 1) + 1 /\ k - 1 \in 0 .. m
      BY <2>2, <2>4
    <3> QED BY <3>1
  <2>6. IsWindow(Made(j), g, n + j)
    BY <2>1, <2>5
  <2>7. Made(k) = Remember(Made(j), s[j + 1])
    <3>1. ASSUME NEW i \in Nat
          PROVE  Made(i + 1) = Step(Remembering, Made(i), s[i + 1])
      <4>1. PICK w : w = Remembering
        OBVIOUS
      <4>2. \A b : Folded(w, b, s, i + 1) = Step(w, Folded(w, b, s, i), s[i + 1])
        BY ONLY i \in Nat, FoldedMore
      <4> QED BY <4>1, <4>2
    <3> HIDE DEF Made
    <3>2. Made(k) = Step(Remembering, Made(j), s[j + 1])
      BY <2>5, <3>1
    <3> QED BY <3>2 DEF Step, Remembering
  <2> HIDE DEF Made
  <2>8. s[j + 1] \in Acts /\ g[(n + j) + 1] = s[j + 1] /\ n + j \in Nat
        /\ n + k = (n + j) + 1
    <3>1. j + 1 \in 1 .. m /\ n + (j + 1) = (n + j) + 1
      BY <2>2, <2>5
    <3> QED BY <2>5, <3>1
  <2>9. IsWindow(Remember(Made(j), g[(n + j) + 1]), g, (n + j) + 1)
    BY <2>6, <2>8, WindowMoves
  <2> QED BY <2>2, <2>7, <2>8, <2>9
<1>2. m \in 0 .. m
  OBVIOUS
<1>3. IsWindow(Made(m), g, n + m)
  BY <1>1, <1>2
<1>4. Remembered(s) = Made(m)
  BY RememberedIs
<1> QED BY <1>3, <1>4

(***************************************************************************)
(* Envelopes. Those of one payload carry the number of envelopes before    *)
(* it, and no two are of one act.                                          *)
(***************************************************************************)
Envelopes == [act : Acts, way : Ways, payload : Nat]

IsNumbered(o) ==
  /\ o \in Seq(Envelopes)
  /\ \A i \in 1 .. Len(o) : o[i].payload < i
  /\ \A i, j \in 1 .. Len(o) : o[i].act = o[j].act => i = j

ActsOf(o) == [i \in 1 .. Len(o) |-> o[i].act]

\* p is what o becomes when the payload s of n acts arrives.
Comes(o, p, s, n, way) ==
  /\ p \in Seq(Envelopes)
  /\ Len(p) = Len(o) + n
  /\ \A i \in 1 .. Len(o) : p[i] = o[i]
  /\ \A m \in 1 .. n : p[Len(o) + m].act = s[m]
  /\ \A m \in 1 .. n : p[Len(o) + m].way = way
  /\ \A m \in 1 .. n : p[Len(o) + m].payload = Len(o)

\* KeyAtHand, in the envelopes o.
HandIn(o, i) ==
  \E j \in 1 .. Len(o) :
    /\ o[j].act = Original(o[i].act.of)
    /\ IF o[i].way = "notify"
       THEN /\ o[j].payload <= o[i].payload
            /\ \A k \in 1 .. Len(o) : o[k].payload = o[i].payload => k < j + RecentCap
       ELSE o[j].payload = o[i].payload

LEMMA ConcatIs ==
  ASSUME NEW S, NEW t \in Seq(S), NEW u \in Seq(S)
  PROVE  /\ t \o u \in Seq(S) /\ Len(t \o u) = Len(t) + Len(u)
         /\ Len(t) \in Nat /\ Len(u) \in Nat
         /\ \A q \in 1 .. Len(t) : (t \o u)[q] = t[q]
         /\ \A q \in 1 .. Len(u) : (t \o u)[Len(t) + q] = u[q]
OBVIOUS

\* An index of the one after the other is an index of either.
LEMMA IndexIs ==
  ASSUME NEW n \in Nat, NEW m \in Nat, NEW i \in 1 .. n + m
  PROVE  i \in 1 .. n \/ \E k \in 1 .. m : i = n + k
<1>1. i \in 1 .. n \/ (i - n \in 1 .. m /\ i = n + (i - n))
  OBVIOUS
<1> QED BY <1>1

LEMMA EnvelopeIs ==
  ASSUME NEW o \in Seq(Envelopes), NEW i \in 1 .. Len(o)
  PROVE  o[i].act \in Acts /\ o[i].way \in Ways /\ o[i].payload \in Nat
<1>1. o[i] \in Envelopes
  OBVIOUS
<1> QED BY <1>1 DEF Envelopes

LEMMA StaysNumbered ==
  ASSUME NEW o, IsNumbered(o), NEW n \in Nat, NEW s, NEW way, NEW p, Comes(o, p, s, n, way),
         \A i, j \in 1 .. n : s[i] = s[j] => i = j,
         \A m \in 1 .. n : \A i \in 1 .. Len(o) : s[m] # o[i].act
  PROVE  IsNumbered(p)
<1>1. PICK c \in Nat : c = Len(o)
  BY DEF IsNumbered
<1>2. o \in Seq(Envelopes) /\ p \in Seq(Envelopes) /\ Len(p) = c + n
  BY <1>1 DEF Comes, IsNumbered
<1>3. \A m \in 1 .. n : p[c + m].act = s[m] /\ p[c + m].payload = c
  BY <1>1 DEF Comes
<1>4. \A i \in 1 .. c : p[i] = o[i]
  BY <1>1 DEF Comes
<1>5. \A i \in 1 .. c + n : i \in 1 .. c \/ \E m \in 1 .. n : i = c + m
  BY IndexIs
<1>6. ASSUME NEW i \in 1 .. c + n PROVE p[i].payload < i
  <2>1. CASE i \in 1 .. c
    <3>1. o[i].payload < i
      BY <1>1, <2>1 DEF IsNumbered
    <3> QED BY <1>4, <2>1, <3>1
  <2>2. ASSUME NEW m \in 1 .. n, i = c + m PROVE p[i].payload < i
    <3>1. p[i].payload = c
      BY <1>3, <2>2
    <3> QED BY <2>2, <3>1
  <2> QED BY <1>5, <2>1, <2>2
<1>7. ASSUME NEW i \in 1 .. c + n, NEW j \in 1 .. c + n, p[i].act = p[j].act
      PROVE  i = j
  <2>1. CASE i \in 1 .. c /\ j \in 1 .. c
    BY <1>1, <1>4, <1>7, <2>1 DEF IsNumbered
  <2>2. CASE i \in 1 .. c /\ j \notin 1 .. c
    <3>1. PICK m \in 1 .. n : j = c + m
      BY <1>5, <2>2
    <3>2. p[j].act = s[m] /\ p[i].act = o[i].act
      BY <1>3, <1>4, <2>2, <3>1
    <3> QED BY <1>1, <1>7, <2>2, <3>2
  <2>3. CASE i \notin 1 .. c /\ j \in 1 .. c
    <3>1. PICK m \in 1 .. n : i = c + m
      BY <1>5, <2>3
    <3>2. p[i].act = s[m] /\ p[j].act = o[j].act
      BY <1>3, <1>4, <2>3, <3>1
    <3> QED BY <1>1, <1>7, <2>3, <3>2
  <2>4. CASE i \notin 1 .. c /\ j \notin 1 .. c
    <3>1. PICK m \in 1 .. n : i = c + m
      BY <1>5, <2>4
    <3>2. PICK k \in 1 .. n : j = c + k
      BY <1>5, <2>4
    <3>3. s[m] = s[k]
      BY <1>3, <1>7, <3>1, <3>2
    <3> QED BY <3>1, <3>2, <3>3
  <2> QED BY <2>1, <2>2, <2>3, <2>4
<1> QED BY <1>2, <1>6, <1>7 DEF IsNumbered

\* Whether the key of a vote was at hand is settled with its payload.
LEMMA HandsStay ==
  ASSUME NEW o, IsNumbered(o), NEW n \in Nat, NEW s, NEW way, NEW p, Comes(o, p, s, n, way),
         NEW i \in 1 .. Len(o)
  PROVE  HandIn(p, i) <=> HandIn(o, i)
<1>1. PICK c \in Nat : c = Len(o)
  BY DEF IsNumbered
<1>2. o \in Seq(Envelopes) /\ p \in Seq(Envelopes) /\ Len(p) = c + n
  BY <1>1 DEF Comes, IsNumbered
<1>3. \A j \in 1 .. c : p[j] = o[j] /\ j \in 1 .. c + n
  BY <1>1 DEF Comes
<1>4. i \in 1 .. c /\ o[i].payload \in Nat /\ o[i].payload < c
  <2>1. o[i].payload < i
    BY DEF IsNumbered
  <2> QED BY <1>1, <1>2, <2>1, EnvelopeIs
<1>5. ASSUME NEW j \in 1 .. c + n, j \notin 1 .. c
      PROVE  ~ (p[j].payload <= o[i].payload)
  <2>1. PICK m \in 1 .. n : j = c + m
    BY <1>5, IndexIs
  <2>2. p[c + m].payload = c
    BY <1>1 DEF Comes
  <2> QED BY <1>4, <2>1, <2>2
<1>6. \A j \in 1 .. c + n : p[j].payload = o[i].payload => j \in 1 .. c
  BY <1>4, <1>5
<1>7. ASSUME NEW j \in 1 .. c
      PROVE  (\A k \in 1 .. c + n : p[k].payload = o[i].payload => k < j + RecentCap)
             <=> \A k \in 1 .. c : o[k].payload = o[i].payload => k < j + RecentCap
  BY <1>3, <1>6
<1>8. HandIn(p, i) <=>
        \E j \in 1 .. c + n :
          /\ p[j].act = Original(o[i].act.of)
          /\ IF o[i].way = "notify"
             THEN /\ p[j].payload <= o[i].payload
                  /\ \A k \in 1 .. c + n : p[k].payload = o[i].payload => k < j + RecentCap
             ELSE p[j].payload = o[i].payload
  BY <1>2, <1>3, <1>4 DEF HandIn
<1>9. HandIn(o, i) <=>
        \E j \in 1 .. c :
          /\ o[j].act = Original(o[i].act.of)
          /\ IF o[i].way = "notify"
             THEN /\ o[j].payload <= o[i].payload
                  /\ \A k \in 1 .. c : o[k].payload = o[i].payload => k < j + RecentCap
             ELSE o[j].payload = o[i].payload
  BY <1>1 DEF HandIn
<1>10. CASE o[i].way = "notify"
  BY <1>3, <1>5, <1>7, <1>8, <1>9, <1>10
<1>11. CASE o[i].way # "notify"
  BY <1>3, <1>6, <1>8, <1>9, <1>11
<1> QED BY <1>10, <1>11

(***************************************************************************)
(* What is remembered are the last envelopes.                              *)
(***************************************************************************)
IsLast(r, o) == IsWindow(r, ActsOf(o), Len(o))

LEMMA StaysLast ==
  ASSUME SocketAssumption, NEW o, IsNumbered(o), IsLast(recent, o), NEW n \in Nat,
         NEW s \in [1 .. n -> Acts], NEW way, NEW p, Comes(o, p, s, n, way)
  PROVE  IsLast(Remembered(s), p)
<1>1. PICK c \in Nat : c = Len(o)
  BY DEF IsNumbered
<1>2. Len(p) = c + n
  BY <1>1 DEF Comes
<1>3. PICK g : g = ActsOf(p)
  OBVIOUS
<1>4. \A i \in 1 .. c + n : g[i] = p[i].act
  BY <1>2, <1>3 DEF ActsOf
<1>5. \A i \in 1 .. c : g[i] = o[i].act
  BY <1>1, <1>4 DEF Comes
<1>6. ASSUME NEW m \in 1 .. n PROVE g[c + m] = s[m]
  <2>1. c + m \in 1 .. c + n
    OBVIOUS
  <2>2. p[c + m].act = s[m]
    BY <1>1 DEF Comes
  <2> QED BY <1>4, <2>1, <2>2
<1>7. IsWindow(recent, g, c)
  <2>1. PICK h : h = ActsOf(o)
    OBVIOUS
  <2>2. IsWindow(recent, h, c) /\ \A i \in 1 .. c : h[i] = o[i].act
    BY <1>1, <2>1 DEF IsLast, ActsOf
  <2>3. RecentCap \in Nat
    BY DEF SocketAssumption
  <2>4. \A k \in 1 .. Len(recent) : c - Len(recent) + k \in 1 .. c
    BY <2>2, <2>3 DEF IsWindow
  <2> QED BY <1>5, <2>2, <2>4 DEF IsWindow
<1>8. IsWindow(Remembered(s), g, c + n)
  BY <1>6, <1>7, RemembersTheLast
<1> QED BY <1>2, <1>3, <1>8 DEF IsLast

LEMMA LastAre ==
  ASSUME SocketAssumption, NEW o \in Seq(Envelopes), NEW r, IsLast(r, o), NEW act
  PROVE  act \in ToSet(r) <=>
           \E j \in 1 .. Len(o) : o[j].act = act /\ Len(o) < j + RecentCap
<1>1. PICK c \in Nat : c = Len(o)
  OBVIOUS
<1>2. PICK g : g = ActsOf(o)
  OBVIOUS
<1>3. \A i \in 1 .. c : g[i] = o[i].act
  BY <1>1, <1>2 DEF ActsOf
<1>4. RecentCap \in Nat /\ RecentCap # 0
  BY DEF SocketAssumption
<1>5. IsWindow(r, g, c)
  BY <1>1, <1>2 DEF IsLast
<1>6. PICK l \in Nat : l = Len(r)
  BY <1>5 DEF IsWindow
<1>7. /\ l = IF c < RecentCap THEN c ELSE RecentCap
      /\ \A k \in 1 .. l : r[k] = g[c - l + k]
  BY <1>5, <1>6 DEF IsWindow
<1>8. DOMAIN r = 1 .. l
  <2>1. r \in Seq(Acts)
    BY <1>5 DEF IsWindow
  <2> QED BY <1>6, <2>1
<1>9. ASSUME NEW k \in 1 .. l
      PROVE  \E j \in 1 .. c : r[k] = o[j].act /\ c < j + RecentCap
  <2>1. c - l + k \in 1 .. c /\ c < (c - l + k) + RecentCap
    BY <1>4, <1>7
  <2> QED BY <1>3, <1>7, <2>1
<1>10. ASSUME NEW j \in 1 .. c, c < j + RecentCap
       PROVE  \E k \in 1 .. l : r[k] = o[j].act
  <2>1. j - (c - l) \in 1 .. l /\ c - l + (j - (c - l)) = j
    BY <1>4, <1>7, <1>10
  <2> QED BY <1>3, <1>7, <2>1
<1>11. act \in ToSet(r) <=> \E k \in 1 .. l : r[k] = act
  BY <1>8 DEF ToSet
<1> QED BY <1>1, <1>9, <1>10, <1>11

(***************************************************************************)
(* Whether the key of a vote that comes is at hand.                        *)
(***************************************************************************)
LEMMA LiveHands ==
  ASSUME SocketAssumption, NEW o, IsNumbered(o), NEW n \in Nat, NEW s,
         NEW p, Comes(o, p, s, n, "notify"), NEW r, IsLast(r, p), NEW m \in 1 .. n
  PROVE  HandIn(p, Len(o) + m) <=> Original(s[m].of) \in ToSet(r)
<1>1. PICK c \in Nat : c = Len(o)
  BY DEF IsNumbered
<1>2. PICK act : act = Original(s[m].of)
  OBVIOUS
<1>3. /\ o \in Seq(Envelopes) /\ p \in Seq(Envelopes) /\ Len(p) = c + n
      /\ p[c + m].act = s[m] /\ p[c + m].way = "notify"
      /\ \A k \in 1 .. n : p[c + k].payload = c
  BY <1>1 DEF Comes, IsNumbered
<1>4. ASSUME NEW j \in 1 .. c + n PROVE p[j].payload \in Nat /\ p[j].payload <= c
  <2>1. p[j].payload \in Nat
    BY <1>3, EnvelopeIs
  <2>2. CASE j \in 1 .. c
    <3>1. p[j] = o[j] /\ o[j].payload < j
      BY <1>1, <2>2 DEF Comes, IsNumbered
    <3> QED BY <2>1, <2>2, <3>1
  <2>3. ASSUME NEW k \in 1 .. n, j = c + k PROVE p[j].payload <= c
    <3>1. p[j].payload = c
      BY <1>3, <2>3
    <3> QED BY <3>1
  <2>4. j \in 1 .. c \/ \E k \in 1 .. n : j = c + k
    BY IndexIs
  <2> QED BY ONLY <2>1, <2>2, <2>3, <2>4
<1>5. ASSUME NEW j \in 1 .. c + n
      PROVE  (\A k \in 1 .. c + n : p[k].payload = c => k < j + RecentCap)
             <=> c + n < j + RecentCap
  <2>1. RecentCap \in Nat
    BY DEF SocketAssumption
  <2>2. p[c + n].payload = c /\ c + n \in 1 .. c + n
    <3>1. n \in 1 .. n /\ c + n \in 1 .. c + n
      OBVIOUS
    <3> QED BY <1>3, <3>1
  <2>3. ASSUME NEW k \in 1 .. c + n, c + n < j + RecentCap PROVE k < j + RecentCap
    BY <2>1, <2>3
  <2> QED BY <2>2, <2>3
<1>6. HandIn(p, c + m) <=>
        \E j \in 1 .. c + n :
          /\ p[j].act = act /\ p[j].payload <= c
          /\ \A k \in 1 .. c + n : p[k].payload = c => k < j + RecentCap
  <2>1. p[c + m].payload = c
    BY <1>3
  <2> QED BY <1>2, <1>3, <2>1 DEF HandIn
<1>7. HandIn(p, c + m) <=> \E j \in 1 .. c + n : p[j].act = act /\ c + n < j + RecentCap
  BY <1>4, <1>5, <1>6
<1>8. act \in ToSet(r) <=> \E j \in 1 .. c + n : p[j].act = act /\ c + n < j + RecentCap
  <2>1. act \in ToSet(r) <=>
          \E j \in 1 .. Len(p) : p[j].act = act /\ Len(p) < j + RecentCap
    BY ONLY <1>3, IsLast(r, p), SocketAssumption, LastAre
  <2> QED BY ONLY <1>3, <2>1
<1> QED BY <1>1, <1>2, <1>7, <1>8

LEMMA SyncHands ==
  ASSUME NEW o, IsNumbered(o), NEW n \in Nat, NEW s, DOMAIN s = 1 .. n,
         NEW p, Comes(o, p, s, n, "sync"), NEW m \in 1 .. n
  PROVE  HandIn(p, Len(o) + m) <=> Original(s[m].of) \in ToSet(s)
<1>1. PICK c \in Nat : c = Len(o)
  BY DEF IsNumbered
<1>2. PICK act : act = Original(s[m].of)
  OBVIOUS
<1>3. /\ o \in Seq(Envelopes) /\ p \in Seq(Envelopes) /\ Len(p) = c + n
      /\ p[c + m].act = s[m] /\ p[c + m].way = "sync"
      /\ \A k \in 1 .. n : p[c + k].payload = c
      /\ \A k \in 1 .. n : p[c + k].act = s[k]
  BY <1>1 DEF Comes, IsNumbered
<1>4. ASSUME NEW j \in 1 .. c PROVE p[j].payload # c
  <2>1. p[j] = o[j] /\ o[j].payload < j
    BY <1>1 DEF Comes, IsNumbered
  <2>2. o[j].payload \in Nat
    BY <1>1, <1>3, EnvelopeIs
  <2> QED BY <2>1, <2>2
<1>5. HandIn(p, c + m) <=> \E j \in 1 .. c + n : p[j].act = act /\ p[j].payload = c
  <2>1. p[c + m].payload = c
    BY <1>3
  <2> QED BY <1>2, <1>3, <2>1 DEF HandIn
<1>6. \A j \in 1 .. c + n : j \in 1 .. c \/ \E k \in 1 .. n : j = c + k
  BY IndexIs
<1>7. (\E j \in 1 .. c + n : p[j].act = act /\ p[j].payload = c)
      => \E k \in 1 .. n : s[k] = act
  <2> SUFFICES ASSUME NEW j \in 1 .. c + n, p[j].act = act, p[j].payload = c
               PROVE  \E k \in 1 .. n : s[k] = act
    OBVIOUS
  <2>1. PICK k \in 1 .. n : j = c + k
    BY <1>4, <1>6
  <2> QED BY <1>3, <2>1
<1>8. ASSUME NEW k \in 1 .. n, s[k] = act
      PROVE  \E j \in 1 .. c + n : p[j].act = act /\ p[j].payload = c
  <2>1. c + k \in 1 .. c + n
    OBVIOUS
  <2> QED BY <1>3, <1>8, <2>1
<1>9. act \in ToSet(s) <=> \E k \in 1 .. n : s[k] = act
  BY DEF ToSet
<1> QED BY <1>1, <1>2, <1>5, <1>7, <1>8, <1>9

(***************************************************************************)
(* What is told: of the envelopes o, and with a as what is still to be     *)
(* announced, what was delivered, each act once.                           *)
(***************************************************************************)
IsDue(o, a, i) == o[i].act \notin a /\ (o[i].act.kind = "vote" => HandIn(o, i))

IsTold(t, o, a) ==
  /\ t \in Seq(Tellings)
  /\ \A q \in 1 .. Len(t) : \E i \in 1 .. Len(o) : IsDue(o, a, i) /\ t[q] = Told(o[i].act)
  /\ \A i \in 1 .. Len(o) : IsDue(o, a, i) => \E q \in 1 .. Len(t) : t[q].act = o[i].act
  /\ \A q, k \in 1 .. Len(t) : t[q].act = t[k].act => q = k

\* One sequence that tells each act once, and another that tells of others.
LEMMA BothOnce ==
  ASSUME NEW t \in Seq(Tellings), NEW u \in Seq(Tellings),
         \A q, k \in 1 .. Len(t) : t[q].act = t[k].act => q = k,
         \A q, k \in 1 .. Len(u) : u[q].act = u[k].act => q = k,
         \A q \in 1 .. Len(t) : \A k \in 1 .. Len(u) : t[q].act # u[k].act
  PROVE  \A q, k \in 1 .. Len(t \o u) : (t \o u)[q].act = (t \o u)[k].act => q = k
<1>1. PICK v : v = t \o u
  OBVIOUS
<1>2. PICK c \in Nat : c = Len(t)
  OBVIOUS
<1>3. PICK d \in Nat : d = Len(u)
  OBVIOUS
<1>4. /\ Len(v) = c + d
      /\ \A q \in 1 .. c : v[q] = t[q]
      /\ \A q \in 1 .. d : v[c + q] = u[q]
  BY <1>1, <1>2, <1>3, ConcatIs
<1>5. \A q \in 1 .. c + d : q \in 1 .. c \/ \E k \in 1 .. d : q = c + k
  BY IndexIs
<1>6. ASSUME NEW q \in 1 .. c + d, NEW k \in 1 .. c + d, v[q].act = v[k].act
      PROVE  q = k
  <2>1. CASE q \in 1 .. c /\ k \in 1 .. c
    BY <1>2, <1>4, <1>6, <2>1
  <2>2. CASE q \in 1 .. c /\ k \notin 1 .. c
    <3>1. PICK j \in 1 .. d : k = c + j
      BY <1>5, <2>2
    <3>2. v[k] = u[j] /\ v[q] = t[q]
      BY <1>4, <2>2, <3>1
    <3> QED BY <1>2, <1>3, <1>6, <2>2, <3>2
  <2>3. CASE q \notin 1 .. c /\ k \in 1 .. c
    <3>1. PICK j \in 1 .. d : q = c + j
      BY <1>5, <2>3
    <3>2. v[q] = u[j] /\ v[k] = t[k]
      BY <1>4, <2>3, <3>1
    <3> QED BY <1>2, <1>3, <1>6, <2>3, <3>2
  <2>4. CASE q \notin 1 .. c /\ k \notin 1 .. c
    <3>1. PICK j \in 1 .. d : q = c + j
      BY <1>5, <2>4
    <3>2. PICK i \in 1 .. d : k = c + i
      BY <1>5, <2>4
    <3>3. v[q] = u[j] /\ v[k] = u[i]
      BY <1>4, <3>1, <3>2
    <3>4. j = i
      BY <1>3, <1>6, <3>3
    <3> QED BY <3>1, <3>2, <3>4
  <2> QED BY <2>1, <2>2, <2>3, <2>4
<1> QED BY <1>1, <1>4, <1>6

LEMMA TellsBoth ==
  ASSUME NEW n \in Nat, NEW s \in [1 .. n -> Acts], NEW A, NEW B, A \cap B = {},
         SocketAssumption, NEW t, TellsOf(t, s, n, A), NEW u, TellsOf(u, s, n, B)
  PROVE  TellsOf(t \o u, s, n, A \cup B)
<1>1. PICK v : v = t \o u
  OBVIOUS
<1>2. /\ t \in Seq(Tellings) /\ u \in Seq(Tellings)
      /\ \A q \in 1 .. Len(t) : \E m \in 1 .. n : s[m] \in A /\ t[q] = Told(s[m])
      /\ \A q \in 1 .. Len(u) : \E m \in 1 .. n : s[m] \in B /\ u[q] = Told(s[m])
      /\ \A m \in 1 .. n : s[m] \in A => \E q \in 1 .. Len(t) : t[q].act = s[m]
      /\ \A m \in 1 .. n : s[m] \in B => \E q \in 1 .. Len(u) : u[q].act = s[m]
      /\ \A q, k \in 1 .. Len(t) : t[q].act = t[k].act => q = k
      /\ \A q, k \in 1 .. Len(u) : u[q].act = u[k].act => q = k
  BY DEF TellsOf
<1>3. PICK c \in Nat : c = Len(t)
  BY <1>2
<1>4. PICK d \in Nat : d = Len(u)
  BY <1>2
<1>5. /\ v \in Seq(Tellings) /\ Len(v) = c + d
      /\ \A q \in 1 .. c : v[q] = t[q]
      /\ \A q \in 1 .. d : v[c + q] = u[q]
  BY <1>1, <1>2, <1>3, <1>4, ConcatIs
<1>6. \A m \in 1 .. n : Told(s[m]).act = s[m]
  BY ToldIs
<1>7. ASSUME NEW q \in 1 .. Len(t), NEW k \in 1 .. Len(u) PROVE t[q].act # u[k].act
  <2>1. PICK m \in 1 .. n : s[m] \in A /\ t[q] = Told(s[m])
    BY <1>2
  <2>2. PICK j \in 1 .. n : s[j] \in B /\ u[k] = Told(s[j])
    BY <1>2
  <2>3. t[q].act = s[m] /\ u[k].act = s[j]
    BY <1>6, <2>1, <2>2
  <2> QED BY <2>1, <2>2, <2>3
<1>8. \A q, k \in 1 .. Len(v) : v[q].act = v[k].act => q = k
  <2>1. \A q, k \in 1 .. Len(t \o u) : (t \o u)[q].act = (t \o u)[k].act => q = k
    BY ONLY <1>2, <1>7, BothOnce
  <2> QED BY <1>1, <2>1
<1>9. ASSUME NEW q \in 1 .. c + d
      PROVE  \E m \in 1 .. n : s[m] \in A \cup B /\ v[q] = Told(s[m])
  <2>1. CASE q \in 1 .. c
    BY <1>2, <1>3, <1>5, <2>1
  <2>2. ASSUME NEW k \in 1 .. d, q = c + k
        PROVE  \E m \in 1 .. n : s[m] \in A \cup B /\ v[q] = Told(s[m])
    <3>1. v[q] = u[k]
      BY <1>5, <2>2
    <3> QED BY <1>2, <1>4, <3>1
  <2>3. q \in 1 .. c \/ \E k \in 1 .. d : q = c + k
    BY IndexIs
  <2> QED BY <2>1, <2>2, <2>3
<1>10. ASSUME NEW m \in 1 .. n, s[m] \in A \cup B
       PROVE  \E q \in 1 .. c + d : v[q].act = s[m]
  <2>1. CASE s[m] \in A
    <3>1. PICK q \in 1 .. c : t[q].act = s[m]
      BY <1>2, <1>3, <2>1
    <3>2. q \in 1 .. c + d
      OBVIOUS
    <3> QED BY <1>5, <3>1, <3>2
  <2>2. CASE s[m] \in B
    <3>1. PICK q \in 1 .. d : u[q].act = s[m]
      BY <1>2, <1>4, <2>2
    <3>2. c + q \in 1 .. c + d
      OBVIOUS
    <3> QED BY <1>5, <3>1, <3>2
  <2> QED BY <1>10, <2>1, <2>2
<1>11. TellsOf(v, s, n, A \cup B)
  BY <1>5, <1>8, <1>9, <1>10 DEF TellsOf
<1> QED BY <1>1, <1>11

\* A payload of which exactly what is due is told.
LEMMA StaysTold ==
  ASSUME SocketAssumption, NEW o, IsNumbered(o), NEW t, NEW a, IsTold(t, o, a),
         NEW n \in Nat, NEW s \in [1 .. n -> Acts], NEW way, NEW p, Comes(o, p, s, n, way),
         \A m \in 1 .. n : \A i \in 1 .. Len(o) : s[m] # o[i].act,
         NEW b, \A i \in 1 .. Len(o) : o[i].act \in b <=> o[i].act \in a,
         NEW A, \A m \in 1 .. n : s[m] \in A <=> IsDue(p, b, Len(o) + m),
         NEW u, TellsOf(u, s, n, A)
  PROVE  IsTold(t \o u, p, b)
<1>1. PICK c \in Nat : c = Len(o)
  BY DEF IsNumbered
<1>2. /\ o \in Seq(Envelopes) /\ p \in Seq(Envelopes) /\ Len(p) = c + n
      /\ \A i \in 1 .. c : p[i] = o[i] /\ i \in 1 .. c + n
      /\ \A m \in 1 .. n : p[c + m].act = s[m] /\ c + m \in 1 .. c + n
  BY <1>1 DEF Comes, IsNumbered
<1>3. \A i \in 1 .. c : IsDue(p, b, i) <=> IsDue(o, a, i)
  <2>1. \A i \in 1 .. c : HandIn(p, i) <=> HandIn(o, i)
    BY <1>1, HandsStay
  <2> QED BY <1>1, <1>2, <2>1 DEF IsDue
<1>4. PICK v : v = t \o u
  OBVIOUS
<1>5. /\ t \in Seq(Tellings) /\ u \in Seq(Tellings)
      /\ \A q \in 1 .. Len(t) : \E i \in 1 .. c : IsDue(o, a, i) /\ t[q] = Told(o[i].act)
      /\ \A q \in 1 .. Len(u) : \E m \in 1 .. n : s[m] \in A /\ u[q] = Told(s[m])
      /\ \A i \in 1 .. c : IsDue(o, a, i) => \E q \in 1 .. Len(t) : t[q].act = o[i].act
      /\ \A m \in 1 .. n : s[m] \in A => \E q \in 1 .. Len(u) : u[q].act = s[m]
      /\ \A q, k \in 1 .. Len(t) : t[q].act = t[k].act => q = k
      /\ \A q, k \in 1 .. Len(u) : u[q].act = u[k].act => q = k
  BY <1>1 DEF IsTold, TellsOf
<1>6. PICK d \in Nat : d = Len(t)
  BY <1>5
<1>7. PICK e \in Nat : e = Len(u)
  BY <1>5
<1>8. /\ v \in Seq(Tellings) /\ Len(v) = d + e
      /\ \A q \in 1 .. d : v[q] = t[q] /\ q \in 1 .. d + e
      /\ \A q \in 1 .. e : v[d + q] = u[q] /\ d + q \in 1 .. d + e
  <2>1. /\ v \in Seq(Tellings) /\ Len(v) = d + e
        /\ \A q \in 1 .. d : v[q] = t[q]
        /\ \A q \in 1 .. e : v[d + q] = u[q]
    BY <1>4, <1>5, <1>6, <1>7, ConcatIs
  <2>2. /\ \A q \in 1 .. d : q \in 1 .. d + e
        /\ \A q \in 1 .. e : d + q \in 1 .. d + e
    OBVIOUS
  <2> QED BY <2>1, <2>2
<1>9. ASSUME NEW q \in 1 .. Len(t), NEW k \in 1 .. Len(u) PROVE t[q].act # u[k].act
  <2>1. PICK i \in 1 .. c : t[q] = Told(o[i].act)
    BY <1>5
  <2>2. PICK m \in 1 .. n : u[k] = Told(s[m])
    BY <1>5
  <2>3. o[i].act \in Acts
    BY <1>1, <1>2, EnvelopeIs
  <2>4. t[q].act = o[i].act /\ u[k].act = s[m]
    BY <2>1, <2>2, <2>3, ToldIs
  <2> QED BY <1>1, <2>4
<1>10. \A q, k \in 1 .. Len(v) : v[q].act = v[k].act => q = k
  <2>1. \A q, k \in 1 .. Len(t \o u) : (t \o u)[q].act = (t \o u)[k].act => q = k
    BY ONLY <1>5, <1>9, BothOnce
  <2> QED BY <1>4, <2>1
<1>11. ASSUME NEW q \in 1 .. d + e
       PROVE  \E i \in 1 .. c + n : IsDue(p, b, i) /\ v[q] = Told(p[i].act)
  <2>1. CASE q \in 1 .. d
    <3>1. PICK i \in 1 .. c : IsDue(o, a, i) /\ t[q] = Told(o[i].act)
      BY <1>5, <1>6, <2>1
    <3>2. i \in 1 .. c + n /\ IsDue(p, b, i) /\ v[q] = Told(p[i].act)
      BY <1>2, <1>3, <1>8, <2>1, <3>1
    <3> QED BY <3>2
  <2>2. ASSUME NEW k \in 1 .. e, q = d + k
        PROVE  \E i \in 1 .. c + n : IsDue(p, b, i) /\ v[q] = Told(p[i].act)
    <3>1. PICK m \in 1 .. n : s[m] \in A /\ u[k] = Told(s[m])
      BY <1>5, <1>7
    <3>2. c + m \in 1 .. c + n /\ IsDue(p, b, c + m) /\ v[q] = Told(p[c + m].act)
      BY <1>1, <1>2, <1>8, <2>2, <3>1
    <3> QED BY <3>2
  <2>3. q \in 1 .. d \/ \E k \in 1 .. e : q = d + k
    BY IndexIs
  <2> QED BY <2>1, <2>2, <2>3
<1>12. ASSUME NEW i \in 1 .. c + n, IsDue(p, b, i)
       PROVE  \E q \in 1 .. d + e : v[q].act = p[i].act
  <2>1. CASE i \in 1 .. c
    <3>1. PICK q \in 1 .. d : t[q].act = o[i].act
      BY <1>3, <1>5, <1>6, <1>12, <2>1
    <3> QED BY <1>2, <1>8, <2>1, <3>1
  <2>2. ASSUME NEW m \in 1 .. n, i = c + m
        PROVE  \E q \in 1 .. d + e : v[q].act = p[i].act
    <3>1. s[m] \in A
      BY <1>1, <1>12, <2>2
    <3>2. PICK q \in 1 .. e : u[q].act = s[m]
      BY <1>5, <1>7, <3>1
    <3> QED BY <1>2, <1>8, <2>2, <3>2
  <2>3. i \in 1 .. c \/ \E m \in 1 .. n : i = c + m
    BY IndexIs
  <2> QED BY <2>1, <2>2, <2>3
<1>13. IsTold(v, p, b)
  <2>1. v \in Seq(Tellings) /\ Len(v) = d + e /\ Len(p) = c + n
    BY <1>2, <1>8
  <2>2. \A q \in 1 .. Len(v) : \E i \in 1 .. Len(p) : IsDue(p, b, i) /\ v[q] = Told(p[i].act)
    BY ONLY <1>11, <2>1
  <2>3. \A i \in 1 .. Len(p) : IsDue(p, b, i) => \E q \in 1 .. Len(v) : v[q].act = p[i].act
    BY ONLY <1>12, <2>1
  <2> QED BY ONLY <1>10, <2>1, <2>2, <2>3 DEF IsTold
<1> QED BY <1>4, <1>13

(***************************************************************************)
(* The invariant of the adapter.                                           *)
(***************************************************************************)
AnnouncedIsLive ==
  \A act \in announced :
    /\ act.kind \in {"edit", "revoke", "reaction"}
    /\ \E i \in 1 .. Len(order) : order[i].act = act

SocketInv ==
  /\ IsNumbered(order)
  /\ IsLast(recent, order)
  /\ AnnouncedIsLive
  /\ IsTold(published, order, announced)

LEMMA InitSocket == SocketAssumption /\ SocketInit => SocketInv
<1> SUFFICES ASSUME SocketAssumption, SocketInit PROVE SocketInv
  OBVIOUS
<1>1. order = <<>> /\ announced = {} /\ recent = <<>> /\ published = <<>>
  BY DEF SocketInit
<1>2. RecentCap \in Nat /\ RecentCap # 0
  BY DEF SocketAssumption
<1>3. IsNumbered(<<>>)
  BY DEF IsNumbered
<1>4. IsLast(<<>>, <<>>)
  BY <1>2 DEF IsLast, IsWindow
<1>5. IsTold(<<>>, <<>>, {})
  BY DEF IsTold
<1> QED BY <1>1, <1>3, <1>4, <1>5 DEF SocketInv, AnnouncedIsLive

\* Who is told of does not change.
LEMMA TellingStays ==
  ASSUME direct' = direct, NEW t, NEW o, NEW a, IsTold(t, o, a),
         t = published', o = order', a = announced'
  PROVE  IsTold(published, order, announced)'
<1>1. \A act : Told(act)' = Told(act)
  BY DEF Told, By, KeyOf, Named, SenderOf
<1>2. (IsTold(published, order, announced)') <=>
        /\ t \in Seq(Tellings)
        /\ \A q \in 1 .. Len(t) : \E i \in 1 .. Len(o) :
             IsDue(o, a, i) /\ t[q] = Told(o[i].act)'
        /\ \A i \in 1 .. Len(o) :
             IsDue(o, a, i) => \E q \in 1 .. Len(t) : t[q].act = o[i].act
        /\ \A q, k \in 1 .. Len(t) : t[q].act = t[k].act => q = k
  BY DEF IsTold, IsDue, HandIn
<1> QED BY <1>1, <1>2 DEF IsTold

LEMMA Arrives ==
  ASSUME IsNumbered(order), NEW n \in Nat, NEW s \in [1 .. n -> Acts], NEW way \in Ways,
         Arrive(s, way)
  PROVE  Comes(order, order', s, n, way)
<1>1. PICK o : o = order
  OBVIOUS
<1>2. PICK c \in Nat : c = Len(o)
  BY <1>1 DEF IsNumbered
<1>3. PICK t : t = [i \in 1 .. n |-> [act |-> s[i], way |-> way, payload |-> c]]
  OBVIOUS
<1>4. order' = o \o t
  BY <1>1, <1>2, <1>3 DEF Arrive
<1>5. ASSUME NEW i \in 1 .. n
      PROVE  t[i] \in Envelopes /\ t[i].act = s[i] /\ t[i].way = way /\ t[i].payload = c
  <2>1. PICK e : e = [act |-> s[i], way |-> way, payload |-> c]
    OBVIOUS
  <2>2. e.act = s[i] /\ e.way = way /\ e.payload = c
    BY ONLY <2>1
  <2>3. e \in Envelopes
    BY <2>1 DEF Envelopes
  <2>4. t[i] = e
    BY <1>3, <2>1
  <2> QED BY <2>2, <2>3, <2>4
<1>6. t \in Seq(Envelopes) /\ Len(t) = n
  BY <1>3, <1>5
<1>7. o \in Seq(Envelopes)
  BY <1>1 DEF IsNumbered
<1>8. PICK p : p = o \o t
  OBVIOUS
<1>9. /\ p \in Seq(Envelopes) /\ Len(p) = c + n
      /\ \A i \in 1 .. c : p[i] = o[i]
      /\ \A i \in 1 .. n : p[c + i] = t[i]
  <2>1. /\ o \o t \in Seq(Envelopes) /\ Len(o \o t) = Len(o) + Len(t)
        /\ \A i \in 1 .. Len(o) : (o \o t)[i] = o[i]
        /\ \A i \in 1 .. Len(t) : (o \o t)[Len(o) + i] = t[i]
    <3>1. PICK S : S = Envelopes
      OBVIOUS
    <3>2. o \in Seq(S) /\ t \in Seq(S)
      BY <1>6, <1>7, <3>1
    <3>3. /\ o \o t \in Seq(S) /\ Len(o \o t) = Len(o) + Len(t)
          /\ \A i \in 1 .. Len(o) : (o \o t)[i] = o[i]
          /\ \A i \in 1 .. Len(t) : (o \o t)[Len(o) + i] = t[i]
      BY ONLY <3>2, ConcatIs
    <3> QED BY <3>1, <3>3
  <2> QED BY ONLY c \in Nat, n \in Nat, <1>2, <1>6, <1>8, <2>1
<1>10. Comes(o, p, s, n, way)
  BY <1>2, <1>5, <1>9 DEF Comes
<1> QED BY <1>1, <1>4, <1>8, <1>10

\* The acts of a payload are new, each of its own.
LEMMA PayloadIs ==
  ASSUME IsNumbered(order), NEW payload \in Payloads
  PROVE  \E n \in Nat :
           /\ payload \in [1 .. n -> Acts]
           /\ \A i, j \in 1 .. n : payload[i] = payload[j] => i = j
           /\ \A m \in 1 .. n : \A i \in 1 .. Len(order) : payload[m] # order[i].act
<1>1. PICK n \in 0 .. MaxPayload : payload \in [1 .. n -> Acts \ Delivered]
  BY DEF Payloads, SeqOf
<1>2. n \in Nat
  OBVIOUS
<1>3. payload \in [1 .. n -> Acts]
  BY <1>1
<1>4. \A i, j \in 1 .. n : payload[i] = payload[j] => i = j
  BY <1>1 DEF Payloads, IsInjective
<1>5. \A i \in 1 .. Len(order) : order[i].act \in Delivered
  <2>1. DOMAIN order = 1 .. Len(order)
    BY DEF IsNumbered
  <2> QED BY <2>1 DEF Delivered
<1>6. \A m \in 1 .. n : payload[m] \notin Delivered
  BY <1>1
<1> QED BY <1>2, <1>3, <1>4, <1>5, <1>6

\* What is told of a payload, once it is said which of its acts are told.
LEMMA PayloadKeeps ==
  ASSUME SocketAssumption, SocketInv, NEW n \in Nat, NEW s \in [1 .. n -> Acts],
         \A i, j \in 1 .. n : s[i] = s[j] => i = j,
         \A m \in 1 .. n : \A i \in 1 .. Len(order) : s[m] # order[i].act,
         NEW way \in Ways, Comes(order, order', s, n, way), direct' = direct,
         \A act \in announced' : act \in announced \/
           (act.kind \in {"edit", "revoke", "reaction"} /\ \E m \in 1 .. n : s[m] = act),
         announced \subseteq announced', recent' = Remembered(s),
         NEW A, \A m \in 1 .. n : s[m] \in A <=> IsDue(order', announced', Len(order) + m),
         NEW u, TellsOf(u, s, n, A), published' = published \o u
  PROVE  SocketInv'
<1>1. PICK o : o = order
  OBVIOUS
<1>2. PICK p : p = order'
  OBVIOUS
<1>3. IsNumbered(o) /\ Comes(o, p, s, n, way)
  BY <1>1, <1>2 DEF SocketInv
<1>4. IsNumbered(p)
  BY <1>1, <1>3, StaysNumbered
<1>5. IsLast(Remembered(s), p)
  BY <1>1, <1>3, StaysLast DEF SocketInv
<1>6. AnnouncedIsLive'
  <2>1. PICK c \in Nat : c = Len(o)
    BY <1>3 DEF IsNumbered
  <2>2. /\ Len(p) = c + n
        /\ \A i \in 1 .. c : p[i] = o[i] /\ i \in 1 .. c + n
        /\ \A m \in 1 .. n : p[c + m].act = s[m] /\ c + m \in 1 .. c + n
    BY <1>3, <2>1 DEF Comes
  <2>3. ASSUME NEW act \in announced'
        PROVE  /\ act.kind \in {"edit", "revoke", "reaction"}
               /\ \E i \in 1 .. c + n : p[i].act = act
    <3>1. CASE act \in announced
      <4>1. /\ act.kind \in {"edit", "revoke", "reaction"}
            /\ \E i \in 1 .. c : o[i].act = act
        BY <1>1, <2>1, <3>1 DEF SocketInv, AnnouncedIsLive
      <4>2. PICK i \in 1 .. c : o[i].act = act
        BY <4>1
      <4>3. i \in 1 .. c + n /\ p[i].act = act
        BY <2>2, <4>2
      <4> QED BY <4>1, <4>3
    <3>2. CASE act.kind \in {"edit", "revoke", "reaction"} /\ \E m \in 1 .. n : s[m] = act
      <4>1. PICK m \in 1 .. n : s[m] = act
        BY <3>2
      <4> QED BY <2>2, <3>2, <4>1
    <3> QED BY <3>1, <3>2
  <2> QED BY <1>2, <2>2, <2>3 DEF AnnouncedIsLive
<1>7. PICK a : a = announced
  OBVIOUS
<1>8. PICK b : b = announced'
  OBVIOUS
<1>9. PICK t : t = published
  OBVIOUS
<1>10. IsTold(t, o, a)
  BY <1>1, <1>7, <1>9 DEF SocketInv
<1>11. \A i \in 1 .. Len(o) : o[i].act \in b <=> o[i].act \in a
  BY <1>1, <1>7, <1>8
<1>12. \A m \in 1 .. n : s[m] \in A <=> IsDue(p, b, Len(o) + m)
  BY <1>1, <1>2, <1>8
<1>13. \A m \in 1 .. n : \A i \in 1 .. Len(o) : s[m] # o[i].act
  BY <1>1
<1>14. IsTold(t \o u, p, b)
  BY <1>3, <1>10, <1>11, <1>12, <1>13, StaysTold
<1>15. t \o u = published'
  BY <1>9
<1>16. IsTold(published, order, announced)'
  BY <1>2, <1>8, <1>14, <1>15, TellingStays
<1> QED BY <1>2, <1>4, <1>5, <1>6, <1>16 DEF SocketInv, IsNumbered, IsLast, IsWindow, ActsOf

\* Acts of a payload are not announced yet.
LEMMA PayloadIsNew ==
  ASSUME SocketInv, NEW n \in Nat, NEW s,
         \A m \in 1 .. n : \A i \in 1 .. Len(order) : s[m] # order[i].act, NEW m \in 1 .. n
  PROVE  s[m] \notin announced
BY DEF SocketInv, AnnouncedIsLive

LEMMA NotifyKeeps ==
  ASSUME SocketAssumption, SocketInv, NEW s \in Payloads, Notify(s)
  PROVE  SocketInv'
<1>1. PICK n \in Nat : /\ s \in [1 .. n -> Acts]
                       /\ \A i, j \in 1 .. n : s[i] = s[j] => i = j
                       /\ \A m \in 1 .. n : \A i \in 1 .. Len(order) : s[m] # order[i].act
  BY PayloadIs DEF SocketInv
<1>2. IsNumbered(order) /\ IsLast(recent, order)
  BY DEF SocketInv
<1>3. "notify" \in Ways /\ Arrive(s, "notify") /\ recent' = Remembered(s) /\ direct' = direct
  BY DEF Ways, Notify, Arrive
<1>4. PICK p : p = order'
  OBVIOUS
<1>5. PICK way \in Ways : way = "notify"
  BY <1>3
<1>6. Comes(order, p, s, n, way)
  BY <1>1, <1>2, <1>3, <1>4, <1>5, Arrives
<1>7. PICK r : r = recent'
  OBVIOUS
<1>8. IsLast(r, p)
  BY <1>1, <1>2, <1>3, <1>6, <1>7, StaysLast
<1>9. PICK A : A = {act \in Acts : Live(act, ToSet(r))}
  OBVIOUS
<1>10. PICK u : u = ToldOf(s, A)
  OBVIOUS
<1>11. published' = published \o u
  BY <1>7, <1>9, <1>10 DEF Notify, Push, NotifyTells
<1>12. TellsOf(u, s, n, A)
  BY <1>1, <1>10, ToldOnce DEF IsInjective
<1>13. DOMAIN s = 1 .. n /\ announced' =
         announced \cup {act \in ToSet(s) : act.kind \in {"edit", "revoke", "reaction"}}
  BY <1>1 DEF Notify
<1>14. ASSUME NEW m \in 1 .. n
       PROVE  s[m] \in A <=> IsDue(p, announced', Len(order) + m)
  <2>1. s[m] \in Acts /\ s[m].kind \in {"message", "edit", "revoke", "reaction", "vote"}
    BY <1>1, ActIs
  <2>2. p[Len(order) + m].act = s[m]
    BY <1>6 DEF Comes
  <2>3. HandIn(p, Len(order) + m) <=> Original(s[m].of) \in ToSet(r)
    <3>1. Comes(order, p, s, n, "notify")
      BY <1>5, <1>6
    <3> QED BY <1>2, <1>8, <3>1, LiveHands
  <2>4. s[m] \notin announced
    BY <1>1, PayloadIsNew
  <2>5. s[m] \in announced' <=> s[m].kind \in {"edit", "revoke", "reaction"}
    BY <1>13, <2>4 DEF ToSet
  <2>6. s[m] \in A <=> /\ s[m].kind \in {"message", "vote"}
                       /\ s[m].kind = "vote" => Original(s[m].of) \in ToSet(r)
    BY <1>9, <2>1 DEF Live, Readable
  <2>7. IsDue(p, announced', Len(order) + m) <=>
          /\ s[m] \notin announced'
          /\ s[m].kind = "vote" => HandIn(p, Len(order) + m)
    BY <2>2 DEF IsDue
  <2> QED BY <2>1, <2>3, <2>5, <2>6, <2>7
<1>15. /\ \A act \in announced' : act \in announced \/
            (act.kind \in {"edit", "revoke", "reaction"} /\ \E m \in 1 .. n : s[m] = act)
       /\ announced \subseteq announced'
  BY <1>13 DEF ToSet
<1>16. Comes(order, order', s, n, way)
  BY <1>4, <1>6
<1>17. \A m \in 1 .. n : s[m] \in A <=> IsDue(order', announced', Len(order) + m)
  BY <1>4, <1>14
<1> QED BY ONLY SocketAssumption, SocketInv, n \in Nat, <1>1, way \in Ways, <1>3, <1>11, <1>12,
                <1>15, <1>16, <1>17, PayloadKeeps

LEMMA SyncKeeps ==
  ASSUME SocketAssumption, SocketInv, NEW s \in Payloads, Sync(s)
  PROVE  SocketInv'
<1>1. PICK n \in Nat : /\ s \in [1 .. n -> Acts]
                       /\ \A i, j \in 1 .. n : s[i] = s[j] => i = j
                       /\ \A m \in 1 .. n : \A i \in 1 .. Len(order) : s[m] # order[i].act
  BY PayloadIs DEF SocketInv
<1>2. IsNumbered(order)
  BY DEF SocketInv
<1>3. /\ "sync" \in Ways /\ Arrive(s, "sync") /\ recent' = Remembered(s) /\ direct' = direct
      /\ announced' = announced
  BY DEF Ways, Sync, Arrive
<1>4. PICK p : p = order'
  OBVIOUS
<1>5. PICK way \in Ways : way = "sync"
  BY <1>3
<1>6. Comes(order, p, s, n, way)
  BY <1>1, <1>2, <1>3, <1>4, <1>5, Arrives
<1>7. PICK A : A = {act \in Acts : ~ IsControl(act)}
  OBVIOUS
<1>8. PICK B : B = {act \in Acts : IsControl(act) /\ Readable(act, ToSet(s))}
  OBVIOUS
<1>9. PICK t : t = ToldOf(s, A)
  OBVIOUS
<1>10. PICK u : u = ToldOf(s, B)
  OBVIOUS
<1>11. published' = published \o (t \o u)
  BY <1>7, <1>8, <1>9, <1>10 DEF Sync, Push, SyncTells
<1>12. TellsOf(t, s, n, A) /\ TellsOf(u, s, n, B)
  BY <1>1, <1>9, <1>10, ToldOnce DEF IsInjective
<1>13. A \cap B = {}
  BY <1>7, <1>8
<1>14. TellsOf(t \o u, s, n, A \cup B)
  BY <1>1, <1>12, <1>13, TellsBoth
<1>15. ASSUME NEW m \in 1 .. n
       PROVE  s[m] \in A \cup B <=> IsDue(p, announced', Len(order) + m)
  <2>1. s[m] \in Acts /\ s[m].kind \in {"message", "edit", "revoke", "reaction", "vote"}
    BY <1>1, ActIs
  <2>2. p[Len(order) + m].act = s[m]
    BY <1>6 DEF Comes
  <2>3. HandIn(p, Len(order) + m) <=> Original(s[m].of) \in ToSet(s)
    <3>1. Comes(order, p, s, n, "sync") /\ DOMAIN s = 1 .. n
      BY <1>1, <1>5, <1>6
    <3> QED BY <1>2, <3>1, SyncHands
  <2>4. s[m] \notin announced'
    BY <1>1, <1>3, PayloadIsNew
  <2>5. s[m] \in A \cup B <=> (s[m].kind = "vote" => Original(s[m].of) \in ToSet(s))
    BY <1>7, <1>8, <2>1 DEF IsControl, Readable
  <2>6. IsDue(p, announced', Len(order) + m) <=>
          /\ s[m] \notin announced'
          /\ s[m].kind = "vote" => HandIn(p, Len(order) + m)
    BY <2>2 DEF IsDue
  <2> QED BY <2>3, <2>4, <2>5, <2>6
<1>16. PICK C : C = A \cup B
  OBVIOUS
<1>17. PICK v : v = t \o u
  OBVIOUS
<1>18. /\ \A act \in announced' : act \in announced \/
            (act.kind \in {"edit", "revoke", "reaction"} /\ \E m \in 1 .. n : s[m] = act)
       /\ announced \subseteq announced'
  BY <1>3
<1>19. Comes(order, order', s, n, way)
  BY <1>4, <1>6
<1>20. \A m \in 1 .. n : s[m] \in C <=> IsDue(order', announced', Len(order) + m)
  BY <1>4, <1>15, <1>16
<1>21. TellsOf(v, s, n, C) /\ published' = published \o v
  BY <1>11, <1>14, <1>16, <1>17
<1> QED BY ONLY SocketAssumption, SocketInv, n \in Nat, <1>1, way \in Ways, <1>3,
                <1>18, <1>19, <1>20, <1>21, PayloadKeeps

\* The event of a live control that was announced.
LEMMA UpdateKeeps ==
  ASSUME SocketAssumption, SocketInv, NEW act, Update(act)
  PROVE  SocketInv'
<1>1. /\ act \in announced /\ announced' = announced \ {act}
      /\ published' = published \o <<Told(act)>>
      /\ direct' = direct /\ order' = order /\ recent' = recent
  BY DEF Update, Push
<1>2. PICK o : o = order
  OBVIOUS
<1>3. PICK a : a = announced
  OBVIOUS
<1>4. PICK b : b = announced'
  OBVIOUS
<1>5. PICK t : t = published
  OBVIOUS
<1>6. IsNumbered(o) /\ IsTold(t, o, a)
  BY <1>2, <1>3, <1>5 DEF SocketInv
<1>7. PICK k \in 1 .. Len(o) : o[k].act = act
  BY <1>1, <1>2 DEF SocketInv, AnnouncedIsLive
<1>8. act.kind # "vote" /\ act \in a /\ b = a \ {act}
  BY <1>1, <1>3, <1>4 DEF SocketInv, AnnouncedIsLive
<1>9. \A i \in 1 .. Len(o) : IsDue(o, b, i) <=> IsDue(o, a, i) \/ o[i].act = act
  BY <1>8 DEF IsDue
<1>10. \A i \in 1 .. Len(o) : IsDue(o, a, i) => o[i].act # act
  BY <1>8 DEF IsDue
<1>11. \A i \in 1 .. Len(o) : o[i].act \in Acts
  BY <1>6, EnvelopeIs DEF IsNumbered
<1>12. PICK e : e = Told(act)
  OBVIOUS
<1>13. act \in Acts /\ e \in Tellings /\ e.act = act
  BY <1>7, <1>11, <1>12, ToldIs
<1>14. t \in Seq(Tellings)
  BY <1>6 DEF IsTold
<1>15. PICK d \in Nat : d = Len(t)
  BY <1>14
<1>16. PICK v : v = t \o <<e>>
  OBVIOUS
<1>17. /\ v \in Seq(Tellings) /\ Len(v) = d + 1 /\ v[d + 1] = e
       /\ \A q \in 1 .. d : v[q] = t[q]
  BY ONLY <1>13, <1>14, <1>15, <1>16
<1>18. \A q \in 1 .. d : \E i \in 1 .. Len(o) : IsDue(o, a, i) /\ t[q] = Told(o[i].act)
  BY <1>6, <1>15 DEF IsTold
<1>19. ASSUME NEW q \in 1 .. d PROVE t[q].act # act
  <2>1. PICK i \in 1 .. Len(o) : IsDue(o, a, i) /\ t[q] = Told(o[i].act)
    BY <1>18
  <2>2. t[q].act = o[i].act
    BY <1>11, <2>1, ToldIs
  <2> QED BY <1>10, <2>1, <2>2
<1>20. ASSUME NEW q \in 1 .. d + 1
       PROVE  \E i \in 1 .. Len(o) : IsDue(o, b, i) /\ v[q] = Told(o[i].act)
  <2>1. CASE q \in 1 .. d
    BY <1>9, <1>17, <1>18, <2>1
  <2>2. CASE q = d + 1
    BY <1>7, <1>9, <1>12, <1>17, <2>2
  <2> QED BY <2>1, <2>2
<1>21. ASSUME NEW i \in 1 .. Len(o), IsDue(o, b, i)
       PROVE  \E q \in 1 .. d + 1 : v[q].act = o[i].act
  <2>1. CASE IsDue(o, a, i)
    <3>1. PICK q \in 1 .. d : t[q].act = o[i].act
      BY <1>6, <1>15, <2>1 DEF IsTold
    <3> QED BY <1>17, <3>1
  <2>2. CASE o[i].act = act
    BY <1>13, <1>17, <2>2
  <2> QED BY <1>9, <1>21, <2>1, <2>2
<1>22. ASSUME NEW q \in 1 .. d + 1, NEW j \in 1 .. d + 1, v[q].act = v[j].act
       PROVE  q = j
  <2>1. CASE q \in 1 .. d /\ j \in 1 .. d
    BY <1>6, <1>15, <1>17, <1>22, <2>1 DEF IsTold
  <2>2. CASE q = d + 1 /\ j \in 1 .. d
    BY <1>13, <1>17, <1>19, <1>22, <2>2
  <2>3. CASE j = d + 1 /\ q \in 1 .. d
    BY <1>13, <1>17, <1>19, <1>22, <2>3
  <2> QED BY <2>1, <2>2, <2>3
<1>23. IsTold(v, o, b)
  BY <1>17, <1>20, <1>21, <1>22 DEF IsTold
<1>24. v = published' /\ o = order'
  BY <1>1, <1>2, <1>5, <1>12, <1>16
<1>25. IsTold(published, order, announced)'
  BY <1>1, <1>4, <1>23, <1>24, TellingStays
<1>26. AnnouncedIsLive'
  BY <1>1 DEF SocketInv, AnnouncedIsLive
<1>27. IsNumbered(order)'
  BY <1>1 DEF SocketInv, IsNumbered
<1>28. IsLast(recent, order)'
  BY <1>1 DEF SocketInv, IsLast, IsWindow, ActsOf
<1> QED BY <1>25, <1>26, <1>27, <1>28 DEF SocketInv

LEMMA NextSocket ==
  SocketAssumption /\ SocketInv /\ [SocketNext]_socketVars => SocketInv'
<1> SUFFICES ASSUME SocketAssumption, SocketInv, [SocketNext]_socketVars PROVE SocketInv'
  OBVIOUS
<1>1. ASSUME UNCHANGED <<direct, order, announced, recent, published>> PROVE SocketInv'
  <2>1. IsTold(published, order, announced)'
    <3>1. PICK t : t = published
      OBVIOUS
    <3>2. PICK o : o = order
      OBVIOUS
    <3>3. PICK a : a = announced
      OBVIOUS
    <3>4. /\ direct' = direct /\ IsTold(t, o, a)
          /\ t = published' /\ o = order' /\ a = announced'
      BY <1>1, <3>1, <3>2, <3>3 DEF SocketInv
    <3> QED BY ONLY <3>4, TellingStays
  <2>2. IsNumbered(order)'
    BY <1>1 DEF SocketInv, IsNumbered
  <2>3. IsLast(recent, order)'
    BY <1>1 DEF SocketInv, IsLast, IsWindow, ActsOf
  <2>4. AnnouncedIsLive'
    BY <1>1 DEF SocketInv, AnnouncedIsLive
  <2> QED BY <2>1, <2>2, <2>3, <2>4 DEF SocketInv
<1>2. CASE CloseQueue
  BY <1>1, <1>2 DEF CloseQueue
<1>3. CASE UNCHANGED socketVars
  BY <1>1, <1>3 DEF socketVars
<1> QED BY <1>2, <1>3, NotifyKeeps, SyncKeeps, UpdateKeeps DEF SocketNext

\* Who is told to have done an act is its author, unless the key names the peer.
LEMMA AuthorIsTold ==
  ASSUME SocketAssumption, NEW act \in Acts
  PROVE  Told(act).by = IF TakenForPeer(act) THEN Peer ELSE act.who
<1>1. Told(act).by = By(act) /\ act.who \in {Me, Peer}
  BY ActIs DEF Told, People
<1>2. NoParticipant \notin {Me, Peer, Group} /\ Me # Peer
  BY DEF SocketAssumption
<1>3. CASE act.kind \in {"reaction", "revoke"}
  <2>1. By(act) = IF direct THEN Peer ELSE act.who
    BY <1>1, <1>2, <1>3 DEF By, Named, KeyOf
  <2> QED BY <1>1, <1>3, <2>1 DEF TakenForPeer
<1>4. CASE act.kind \notin {"reaction", "revoke"}
  <2>1. By(act) = act.who
    BY <1>1, <1>2, <1>4 DEF By, Named, SenderOf, KeyOf
  <2> QED BY <1>1, <1>4, <2>1 DEF TakenForPeer
<1> QED BY <1>3, <1>4

\* What holds between the envelopes and what is told makes each act be told once.
LEMMA DueIsOnce ==
  ASSUME SocketAssumption, SocketInv
  PROVE  EachActIsToldOnce
<1>1. /\ order \in Seq(Envelopes) /\ DOMAIN order = 1 .. Len(order)
      /\ published \in Seq(Tellings) /\ DOMAIN published = 1 .. Len(published)
  BY DEF SocketInv, IsNumbered, IsTold
<1>2. \A j \in 1 .. Len(order) :
        /\ order[j].act \in Acts /\ Told(order[j].act).act = order[j].act
        /\ Told(order[j].act).by =
             IF TakenForPeer(order[j].act) THEN Peer ELSE order[j].act.who
  BY <1>1, EnvelopeIs, ToldIs, AuthorIsTold
<1>a. ASSUME NEW p \in 1 .. Len(published)
      PROVE  published[p].by =
               IF TakenForPeer(published[p].act) THEN Peer ELSE published[p].act.who
  <2>1. PICK j \in 1 .. Len(order) : published[p] = Told(order[j].act)
    BY DEF SocketInv, IsTold
  <2> QED BY <1>2, <2>1
<1> SUFFICES ASSUME NEW i \in 1 .. Len(order)
             PROVE  Times(order[i].act) =
                      IF order[i].act \in announced
                         \/ (order[i].act.kind = "vote" /\ ~ KeyAtHand(i)) THEN 0 ELSE 1
  BY <1>1, <1>a DEF EachActIsToldOnce
<1> DEFINE act == order[i].act
           Tells == {p \in DOMAIN published : published[p].act = act}
<1>3. IsDue(order, announced, i) <=>
        ~ (order[i].act \in announced \/ (order[i].act.kind = "vote" /\ ~ KeyAtHand(i)))
  BY <1>1 DEF IsDue, HandIn, KeyAtHand
<1>4. CASE ~ IsDue(order, announced, i)
  <2>1. ASSUME NEW p \in 1 .. Len(published), published[p].act = act PROVE FALSE
    <3>1. PICK j \in 1 .. Len(order) :
            IsDue(order, announced, j) /\ published[p] = Told(order[j].act)
      BY DEF SocketInv, IsTold
    <3>2. order[j].act = order[i].act
      BY <1>2, <2>1, <3>1
    <3>3. j = i
      BY <3>2 DEF SocketInv, IsNumbered
    <3>4. IsDue(order, announced, i)
      BY ONLY <3>1, <3>3
    <3> QED BY ONLY <1>4, <3>4
  <2>2. Tells = {}
    BY <1>1, <2>1
  <2>3. Times(act) = 0
    BY <2>2, FS_EmptySet DEF Times
  <2> QED BY ONLY <1>3, <1>4, <2>3
<1>5. CASE IsDue(order, announced, i)
  <2>1. PICK p \in 1 .. Len(published) : published[p].act = act
    BY <1>5 DEF SocketInv, IsTold
  <2>2. \A q \in 1 .. Len(published) : published[q].act = act => q = p
    BY <2>1 DEF SocketInv, IsTold
  <2>3. Tells = {p}
    BY <1>1, <2>1, <2>2
  <2>4. Times(act) = 1
    BY <2>3, FS_Singleton DEF Times
  <2> QED BY <1>3, <1>5, <2>4
<1> QED BY <1>4, <1>5

\* What the library hands over, live, late or both ways, is told to the session
\* once, in payloads of any size, however few envelopes the adapter remembers; and
\* as done by its author, but for the account's own reactions and revocations in a
\* one-to-one chat, told as the peer's (baileys/socket.ts, updates.ts, history.ts).
THEOREM ActsAreToldOnce == SocketSpec => []EachActIsToldOnce
<1>1. SocketInv => EachActIsToldOnce
  BY SocketAssumption, DueIsOnce
<1>2. SocketInit => SocketInv
  BY SocketAssumption, InitSocket
<1>3. SocketInv /\ [SocketNext]_socketVars => SocketInv'
  BY SocketAssumption, NextSocket
<1> QED BY <1>1, <1>2, <1>3, PTL DEF SocketSpec
=============================================================================
