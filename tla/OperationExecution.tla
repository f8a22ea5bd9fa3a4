------------------------- MODULE OperationExecution -------------------------
(***************************************************************************)
(* Runtimes executing the durable operations of one account: the drain     *)
(* loop of operation-executor.ts in every runtime, the store they share,   *)
(* the clients that submit and acknowledge, and the world that takes a     *)
(* Session online and offline, stops a runtime, or kills its process.      *)
(*                                                                         *)
(* A runtime is used once: a replacement worker is another member of       *)
(* Runtimes. Nothing here consults the account lease, because the code     *)
(* does not either: two runtimes may be online at the same time whenever a  *)
(* stalled holder has not noticed that its lease went to a successor.      *)
(*                                                                         *)
(* link[r] stands for what the executor asks of its runtime. "online" is   *)
(* online /\ session() # undefined, "stopped" is stopped() with no session, *)
(* "offline" anything in between, "dead" a process that is gone. The       *)
(* Session is never replaced once the executor was online (runtime.ts      *)
(* clears it only in the halt that also sets stopped), so the identity     *)
(* check config.session() !== session is link[r] # "online" too.           *)
(***************************************************************************)
EXTENDS OperationStore

CONSTANTS
  Runtimes,
  SharedProcess   \* whether all runtimes use one store object: announcements
                  \* reach only the listeners registered on the same object

ASSUME SharedProcessAssumption == SharedProcess \in BOOLEAN

VARIABLES
  link,          \* see above
  pc,            \* where the drain of the runtime is; "idle" is no drain
  job,           \* the claimed operation, while pc is inside execute()
  token,         \* the attempt id it was claimed under
  rerun,         \* a wake arrived during the drain
  retry,         \* ticks until the recovery timer fires, or NoTimer
  invocations    \* how often the Session was asked to perform an operation

execVars == <<link, pc, job, token, rerun, retry, invocations>>
vars == <<storeVars, execVars>>

NoTimer     == Ttl + 1
NoOperation == "none"

\* Inside execute(), between claim and the last store call.
Executing ==
  {"held", "prepare", "release", "fail", "start", "started", "invoking",
   "succeed", "unknown"}
Steps == {"idle", "claim", "rest", "ended", "loop"} \cup Executing

ExecTypeOK ==
  /\ link        \in [Runtimes -> {"offline", "online", "stopped", "dead"}]
  /\ pc          \in [Runtimes -> Steps]
  /\ job         \in [Runtimes -> Operations \cup {NoOperation}]
  /\ token       \in [Runtimes -> Attempts \cup {NoAttempt}]
  /\ rerun       \in [Runtimes -> BOOLEAN]
  /\ retry       \in [Runtimes -> 0 .. NoTimer]
  /\ invocations \in [Operations -> Nat]

\* Every variable has its type, and a job is a real one wherever it is used.
TypeOK ==
  /\ StoreTypeOK
  /\ ExecTypeOK
  /\ \A r \in Runtimes : pc[r] \in Executing => job[r] \in Operations

Init ==
  /\ StoreInit
  /\ link        = [r \in Runtimes |-> "offline"]
  /\ pc          = [r \in Runtimes |-> "idle"]
  /\ job         = [r \in Runtimes |-> NoOperation]
  /\ token       = [r \in Runtimes |-> NoAttempt]
  /\ rerun       = [r \in Runtimes |-> FALSE]
  /\ retry       = [r \in Runtimes |-> NoTimer]
  /\ invocations = [o \in Operations |-> 0]

-----------------------------------------------------------------------------
(***************************************************************************)
(* Waking. wake() clears the recovery timer whatever happens next; it      *)
(* starts a drain when the runtime can work and none is under way, and     *)
(* otherwise asks the running drain to be followed by another.             *)
(***************************************************************************)
Wake(heard, at) ==
  /\ pc' = [r \in Runtimes |->
              IF r \in heard /\ link'[r] = "online" /\ at[r] = "idle"
              THEN "claim" ELSE at[r]]
  /\ rerun' = [r \in Runtimes |->
                 \/ rerun[r]
                 \/ r \in heard /\ link'[r] = "online" /\ at[r] # "idle"]
  /\ retry' = [r \in Runtimes |-> IF r \in heard THEN NoTimer ELSE retry[r]]

\* Who hears of a change committed through the store object of host h.
Listening(h) ==
  {r \in Runtimes : /\ link[r] \in {"offline", "online"}
                    /\ SharedProcess \/ r = h}

\* A store call of runtime h has committed; it goes on at step next.
Commit(h, next) ==
  /\ UNCHANGED link
  /\ Wake(IF Announced THEN Listening(h) ELSE {}, [pc EXCEPT ![h] = next])

\* A step of runtime r that touches nothing but its program counter.
Goto(r, next) ==
  /\ pc' = [pc EXCEPT ![r] = next]
  /\ UNCHANGED <<storeVars, link, job, token, rerun, retry, invocations>>

-----------------------------------------------------------------------------
(***************************************************************************)
(* The drain: claim, execute, repeat.                                      *)
(***************************************************************************)
\* A fresh attempt id. Ids are opaque, so the least unused one stands for all.
InUse == {attempt[o] : o \in Operations} \cup {token[r] : r \in Runtimes}
Fresh(a) ==
  /\ a \in Attempts \ InUse
  /\ \A b \in Attempts : b < a => b \in InUse

ClaimOne(r) ==
  /\ pc[r] = "claim"
  /\ \E o \in Operations, a \in Attempts :
       /\ Fresh(a)
       /\ StoreClaim(o, a)
       /\ job'   = [job EXCEPT ![r] = o]
       /\ token' = [token EXCEPT ![r] = a]
  /\ Commit(r, "held")
  /\ UNCHANGED invocations

ClaimNothing(r) ==
  /\ pc[r] = "claim"
  /\ StoreClaimNothing
  /\ Commit(r, "rest")
  /\ UNCHANGED <<job, token, invocations>>

\* A drain that ends without asking when the next lease lapses.
RestUnarmed(r) == pc[r] = "rest" /\ Goto(r, "ended")

\* Nothing to claim: arm the timer for the next lapse, unless gone offline.
Rest(r) ==
  /\ pc[r] = "rest"
  /\ pc' = [pc EXCEPT ![r] = "ended"]
  /\ \/ /\ link[r] = "online" /\ retry[r] = NoTimer
        /\ \E d \in 0 .. Ttl :
             /\ RecoveryDelay(d)
             /\ retry' = [retry EXCEPT ![r] = IF d = 0 THEN 1 ELSE d]
     \/ /\ link[r] # "online" \/ retry[r] # NoTimer \/ LeasedOperations = {}
        /\ UNCHANGED retry
  /\ UNCHANGED <<storeVars, link, job, token, rerun, invocations>>

\* The promise of the drain settles: a wake that came meanwhile starts another.
End(r) ==
  /\ pc[r] = "ended"
  /\ rerun' = [rerun EXCEPT ![r] = FALSE]
  /\ pc'    = [pc EXCEPT ![r] =
                 IF rerun[r] /\ link[r] = "online" THEN "claim" ELSE "idle"]
  /\ retry' = [retry EXCEPT ![r] = IF rerun[r] THEN NoTimer ELSE @]
  /\ UNCHANGED <<storeVars, link, job, token, invocations>>

\* execute(): the Session is there before anything is prepared...
Hold(r) ==
  /\ pc[r] = "held"
  /\ Goto(r, IF link[r] = "online" THEN "prepare" ELSE "release")

\* ...and still there once the staged media is open. Opening it may fail.
Prepare(r) ==
  /\ pc[r] = "prepare"
  /\ \/ Goto(r, IF link[r] = "online" THEN "start" ELSE "release")
     \/ Goto(r, "fail")

\* The last store call of execute(): the loop goes round with no job.
Finish(r, call) ==
  /\ call
  /\ Commit(r, "loop")
  /\ job'   = [job EXCEPT ![r] = NoOperation]
  /\ token' = [token EXCEPT ![r] = NoAttempt]
  /\ UNCHANGED invocations

Release(r) == pc[r] = "release" /\ Finish(r, StoreRelease(job[r], token[r]))
Fail(r)    == pc[r] = "fail"    /\ Finish(r, StoreFail(job[r], token[r]))

\* The claim lapsed, or was recovered, while it was being prepared.
StartRefused(r) ==
  /\ pc[r] = "start"
  /\ Finish(r, ~Startable(job[r], token[r]) /\ UNCHANGED storeVars)

Start(r) ==
  /\ pc[r] = "start"
  /\ StoreStart(job[r], token[r])
  /\ Commit(r, "started")
  /\ UNCHANGED <<job, token, invocations>>

\* Ownership changed while start was committing: the Session is not asked.
Forgo(r) ==
  /\ pc[r] = "started"
  /\ link[r] # "online"
  /\ Goto(r, "unknown")

\* An executor that asks the Session before it has the store's word.
InvokeEarly(r) ==
  /\ pc[r] = "start"
  /\ link[r] = "online"
  /\ invocations' = [invocations EXCEPT ![job[r]] = @ + 1]
  /\ pc' = [pc EXCEPT ![r] = "invoking"]
  /\ UNCHANGED <<storeVars, link, job, token, rerun, retry>>

Invoke(r) ==
  /\ pc[r] = "started"
  /\ link[r] = "online"
  /\ invocations' = [invocations EXCEPT ![job[r]] = @ + 1]
  /\ pc' = [pc EXCEPT ![r] = "invoking"]
  /\ UNCHANGED <<storeVars, link, job, token, rerun, retry>>

\* The Session answers, or throws: it may or may not have reached WhatsApp.
Return(r) ==
  /\ pc[r] = "invoking"
  /\ Goto(r, "succeed") \/ Goto(r, "unknown")

Succeed(r) == pc[r] = "succeed" /\ Finish(r, StoreSucceed(job[r], token[r]))
Unknown(r) == pc[r] = "unknown" /\ Finish(r, StoreUnknown(job[r], token[r]))

\* Recording the success failed: the outcome is recorded as unknown instead.
SucceedRejected(r) == pc[r] = "succeed" /\ Goto(r, "unknown")

\* The while condition of the drain.
Loop(r) ==
  /\ pc[r] = "loop"
  /\ Goto(r, IF link[r] = "online" THEN "claim" ELSE "ended")

\* RetryFires is the timer's wake().
RetryFires(r) ==
  /\ retry[r] = 0
  /\ UNCHANGED link
  /\ Wake({r}, pc)
  /\ UNCHANGED <<storeVars, job, token, invocations>>

Drain(r) ==
  \/ ClaimOne(r) \/ ClaimNothing(r) \/ Rest(r) \/ End(r) \/ Loop(r)
  \/ Hold(r) \/ Prepare(r) \/ Release(r) \/ Fail(r)
  \/ Start(r) \/ StartRefused(r) \/ Forgo(r) \/ Invoke(r) \/ Return(r)
  \/ Succeed(r) \/ Unknown(r)

-----------------------------------------------------------------------------
(***************************************************************************)
(* What happens to a runtime.                                              *)
(***************************************************************************)
\* A Session announces a status: setOnline(true) is a wake.
GoOnline(r) ==
  /\ link[r] = "offline"
  /\ link' = [link EXCEPT ![r] = "online"]
  /\ Wake({r}, pc)
  /\ UNCHANGED <<storeVars, job, token, invocations>>

GoOffline(r) ==
  /\ link[r] = "online"
  /\ link' = [link EXCEPT ![r] = "offline"]
  /\ UNCHANGED <<storeVars, pc, job, token, rerun, retry, invocations>>

\* halt(): the executor is stopped at once, a drain under way runs to its end.
Halt(r) ==
  /\ link[r] \in {"offline", "online"}
  /\ link'  = [link EXCEPT ![r] = "stopped"]
  /\ retry' = [retry EXCEPT ![r] = NoTimer]
  /\ UNCHANGED <<storeVars, pc, job, token, rerun, invocations>>

\* A store call rejects, before or after its commit: the drain ends in
\* failed(), which halts the runtime.
AwaitingStore ==
  {"claim", "rest", "held", "release", "fail", "start", "started",
   "unknown", "loop"}

DrainRejected(r) ==
  /\ pc[r] \in AwaitingStore
  /\ pc'    = [pc EXCEPT ![r] = "idle"]
  /\ job'   = [job EXCEPT ![r] = NoOperation]
  /\ token' = [token EXCEPT ![r] = NoAttempt]
  /\ link'  = [link EXCEPT ![r] = "stopped"]
  /\ retry' = [retry EXCEPT ![r] = NoTimer]
  /\ UNCHANGED <<storeVars, rerun, invocations>>

\* The process dies: everything but the store is gone.
Crash(r) ==
  /\ link[r] # "dead"
  /\ link'  = [link EXCEPT ![r] = "dead"]
  /\ pc'    = [pc EXCEPT ![r] = "idle"]
  /\ job'   = [job EXCEPT ![r] = NoOperation]
  /\ token' = [token EXCEPT ![r] = NoAttempt]
  /\ rerun' = [rerun EXCEPT ![r] = FALSE]
  /\ retry' = [retry EXCEPT ![r] = NoTimer]
  /\ UNCHANGED <<storeVars, invocations>>

\* A client of the process that runs r submits, or acknowledges a receipt.
Submit(r, o) ==
  /\ link[r] # "dead"
  /\ StoreSubmit(o)
  /\ Commit(r, pc[r])
  /\ UNCHANGED <<job, token, invocations>>

Acknowledge(r, o) ==
  /\ link[r] # "dead"
  /\ StoreAcknowledge(o)
  /\ Commit(r, pc[r])
  /\ UNCHANGED <<job, token, invocations>>

\* Time passes: leases and timers run down together.
Tick ==
  /\ \/ \E o \in Operations : remaining[o] > 0
     \/ \E r \in Runtimes : retry[r] \in 1 .. Ttl
  /\ remaining' = [o \in Operations |->
                     IF remaining[o] > 0 THEN remaining[o] - 1 ELSE 0]
  /\ retry' = [r \in Runtimes |->
                 IF retry[r] \in 1 .. Ttl THEN retry[r] - 1 ELSE retry[r]]
  /\ UNCHANGED <<status, attempt, sequence, nextSequence, acknowledged,
                 link, pc, job, token, rerun, invocations>>

RuntimeStep(r) ==
  \/ Drain(r) \/ SucceedRejected(r) \/ DrainRejected(r) \/ RetryFires(r)
  \/ GoOnline(r) \/ GoOffline(r) \/ Halt(r) \/ Crash(r)
  \/ \E o \in Operations : Submit(r, o) \/ Acknowledge(r, o)

Next == Tick \/ \E r \in Runtimes : RuntimeStep(r)

Spec == Init /\ [][Next]_vars

(***************************************************************************)
(* Fairness. A drain is a chain of awaits that each settle, so a runtime   *)
(* that is alive takes its next drain step; the clock runs and timers fire.*)
(* That a Session call settles is the transport's query timeout. Nothing   *)
(* is assumed of store errors, crashes, clients, or of the connection.     *)
(***************************************************************************)
LiveSpec ==
  /\ Spec
  /\ WF_vars(Tick)
  /\ \A r \in Runtimes : WF_vars(Drain(r)) /\ WF_vars(RetryFires(r))

-----------------------------------------------------------------------------
(***************************************************************************)
(* Properties.                                                             *)
(***************************************************************************)
\* The Session is asked at most once per operation, whatever crashes, lapses,
\* goes offline or overlaps: "execution that may have reached WhatsApp is
\* never retried under the same operation identity" (ADR-0023).
AtMostOneInvocation == \A o \in Operations : invocations[o] <= 1

\* A receipt tells the truth about the Session: an operation that is still
\* retried or was reported failed never reached it, a succeeded one did.
ReceiptTellsTheTruth ==
  \A o \in Operations :
    /\ status[o] \in {"absent", "queued", "claimed", "failed"}
         => invocations[o] = 0
    /\ status[o] = "succeeded" => invocations[o] = 1

\* While the store shows an execution in force, the runtime inside the Session
\* call is the one whose attempt is on record, so its verdict will be taken.
ExecutionIsOwned ==
  \A r \in Runtimes :
    pc[r] \in {"invoking", "succeed"} /\ status[job[r]] = "executing"
      => attempt[job[r]] = token[r]

\* When from some time on one runtime is online and no other is, and that one
\* is not so slow that its own claims keep lapsing before it can start them,
\* everything submitted reaches a verdict: what a dead predecessor left claimed
\* or executing is recovered by the timer, with nobody submitting anything.
SoleOnline(r) ==
  \A s \in Runtimes : (link[s] = "online") = (s = r)

LapsesInHand(r) ==
  pc[r] \in {"held", "prepare", "start"} /\ remaining[job[r]] = 0

EverythingSettles ==
  (\E r \in Runtimes : <>[](SoleOnline(r) /\ ~LapsesInHand(r)))
    => \A o \in Operations : (status[o] = "queued") ~> (status[o] \in Terminal)

\* The receipts implement the abstract contract of OperationReceipt.
ReceiptOf(s) ==
  CASE s \in {"queued", "claimed"} -> "pending"
    [] s = "executing"             -> "begun"
    [] OTHER                       -> s

Receipt == INSTANCE OperationReceipt WITH
  receipt <- [o \in Operations |-> ReceiptOf(status[o])]

ImplementsReceipt == Receipt!ReceiptSpec
=============================================================================
