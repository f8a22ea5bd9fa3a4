--------------------------- MODULE OperationProofs --------------------------
(***************************************************************************)
(* Proofs about OperationExecution, for any number of operations, runtimes *)
(* and attempts.                                                           *)
(***************************************************************************)
EXTENDS OperationExecution, TLAPS

USE TtlAssumption, AttemptsAssumption, SharedProcessAssumption

(***************************************************************************)
(* Waking only ever turns an idle runtime into one about to claim.         *)
(***************************************************************************)
LEMMA WakeMoves ==
  ASSUME NEW heard, NEW at \in [Runtimes -> Steps], TypeOK, Wake(heard, at)
  PROVE  /\ pc'    \in [Runtimes -> Steps]
         /\ rerun' \in [Runtimes -> BOOLEAN]
         /\ retry' \in [Runtimes -> 0 .. NoTimer]
         /\ \A s \in Runtimes :
              \/ pc'[s] = at[s]
              \/ at[s] = "idle" /\ pc'[s] = "claim"
<1>1. pc' \in [Runtimes -> Steps]
  BY DEF Wake, Steps
<1>2. rerun' \in [Runtimes -> BOOLEAN]
  BY DEF Wake, TypeOK, ExecTypeOK
<1>3. retry' \in [Runtimes -> 0 .. NoTimer]
  BY DEF Wake, TypeOK, ExecTypeOK, NoTimer
<1>4. ASSUME NEW s \in Runtimes
      PROVE  pc'[s] = at[s] \/ (at[s] = "idle" /\ pc'[s] = "claim")
  BY DEF Wake
<1> QED BY <1>1, <1>2, <1>3, <1>4

(***************************************************************************)
(* The same for a store call of runtime h that goes on at step next.       *)
(***************************************************************************)
LEMMA CommitMoves ==
  ASSUME NEW h \in Runtimes, NEW next \in Steps, TypeOK, Commit(h, next)
  PROVE  /\ link' = link
         /\ pc'    \in [Runtimes -> Steps]
         /\ rerun' \in [Runtimes -> BOOLEAN]
         /\ retry' \in [Runtimes -> 0 .. NoTimer]
         /\ pc'[h] = next \/ (next = "idle" /\ pc'[h] = "claim")
         /\ \A s \in Runtimes \ {h} :
              \/ pc'[s] = pc[s]
              \/ pc[s] = "idle" /\ pc'[s] = "claim"
<1> DEFINE at == [pc EXCEPT ![h] = next]
<1>1. at \in [Runtimes -> Steps]
  BY DEF TypeOK, ExecTypeOK
<1>2. /\ link' = link
      /\ Wake(IF Announced THEN Listening(h) ELSE {}, at)
  BY DEF Commit
<1>3. /\ pc'    \in [Runtimes -> Steps]
      /\ rerun' \in [Runtimes -> BOOLEAN]
      /\ retry' \in [Runtimes -> 0 .. NoTimer]
      /\ \A s \in Runtimes :
           \/ pc'[s] = at[s]
           \/ at[s] = "idle" /\ pc'[s] = "claim"
  BY <1>1, <1>2, WakeMoves
<1>4. at[h] = next /\ \A s \in Runtimes \ {h} : at[s] = pc[s]
  BY DEF TypeOK, ExecTypeOK
<1> QED BY <1>2, <1>3, <1>4

(***************************************************************************)
(* The store's transactions keep the store's types.                        *)
(***************************************************************************)
LEMMA CompleteType ==
  ASSUME NEW o \in Operations, NEW a, NEW leased, NEW s \in Statuses,
         StoreTypeOK, StoreComplete(o, a, leased, s)
  PROVE  StoreTypeOK'
<1>1. CASE Become(o, s)
  BY <1>1 DEF Become, StoreTypeOK, NoAttempt
<1>2. CASE UNCHANGED storeVars
  BY <1>2 DEF storeVars, StoreTypeOK
<1> QED BY <1>1, <1>2 DEF StoreComplete

LEMMA ClaimType ==
  ASSUME NEW o \in Operations, NEW a \in Attempts,
         StoreTypeOK, StoreClaim(o, a) \/ StoreClaimNothing
  PROVE  StoreTypeOK'
<1>1. Recovered \in [Operations -> Statuses]
  BY DEF Recovered, StoreTypeOK, Statuses, Terminal
<1>2. RecoveredAttempt \in [Operations -> Attempts \cup {NoAttempt}]
  BY DEF RecoveredAttempt, StoreTypeOK
<1>3. "claimed" \in Statuses
  BY DEF Statuses, Leased
<1>4. CASE StoreClaim(o, a)
  BY <1>1, <1>2, <1>3, <1>4 DEF StoreClaim, StoreTypeOK
<1>5. CASE StoreClaimNothing
  BY <1>1, <1>2, <1>5 DEF StoreClaimNothing, StoreTypeOK
<1> QED BY <1>4, <1>5

(***************************************************************************)
(* The inductive invariant. An operation is begun once its entry has left  *)
(* "claimed" for "executing"; that happens once, in one runtime, and only  *)
(* the runtime that made it happen goes on to ask the Session.             *)
(***************************************************************************)
IsBegun(s) == s \in {"executing", "succeeded", "outcome_unknown"}
Entered    == {"started", "invoking", "succeed"}

NotBegunNotInvoked ==
  \A o \in Operations : ~IsBegun(status[o]) => invocations[o] = 0

EnteredIsBegun ==
  \A r \in Runtimes :
    pc[r] \in Entered =>
      /\ IsBegun(status[job[r]])
      /\ invocations[job[r]] = IF pc[r] = "started" THEN 0 ELSE 1

EnteredAlone ==
  \A r, s \in Runtimes :
    pc[r] \in Entered /\ pc[s] \in Entered /\ r # s => job[r] # job[s]

EnteredIsOnRecord ==
  \A r \in Runtimes :
    pc[r] \in Entered /\ status[job[r]] = "executing"
      => attempt[job[r]] = token[r]

SucceededWasInvoked ==
  \A o \in Operations : status[o] = "succeeded" => invocations[o] = 1

IInv ==
  /\ TypeOK
  /\ AtMostOneInvocation
  /\ NotBegunNotInvoked
  /\ EnteredIsBegun
  /\ EnteredAlone
  /\ EnteredIsOnRecord
  /\ SucceededWasInvoked

LEMMA InitInvariant == Init => IInv
<1> SUFFICES ASSUME Init PROVE IInv
  OBVIOUS
<1> USE DEF Init, StoreInit
<1>1. StoreTypeOK
  BY DEF StoreTypeOK, Statuses, NoAttempt
<1>2. ExecTypeOK
  BY DEF ExecTypeOK, Steps, NoTimer, NoAttempt
<1>3. \A r \in Runtimes : pc[r] \notin Executing /\ pc[r] \notin Entered
  BY DEF Executing, Entered
<1>4. \A o \in Operations : invocations[o] = 0 /\ status[o] = "absent"
  OBVIOUS
<1> QED
  BY <1>1, <1>2, <1>3, <1>4
     DEF IInv, TypeOK, AtMostOneInvocation, NotBegunNotInvoked, EnteredIsBegun,
         EnteredAlone, EnteredIsOnRecord, SucceededWasInvoked

(***************************************************************************)
(* A gentle step begins nothing and asks nothing. Every step is gentle but *)
(* Start and Invoke, and a gentle step keeps the invariant.                *)
(***************************************************************************)
StoreGentle ==
  \A o \in Operations :
    /\ IsBegun(status'[o]) = IsBegun(status[o])
    /\ status'[o] = "executing"
         => status[o] = "executing" /\ attempt'[o] = attempt[o]
    /\ status'[o] = "succeeded"
         => status[o] = "succeeded" \/ invocations[o] = 1

ExecGentle ==
  /\ invocations' = invocations
  /\ \A s \in Runtimes :
       pc'[s] \in Entered =>
         /\ pc[s] \in Entered
         /\ (pc'[s] = "started") = (pc[s] = "started")
         /\ job'[s] = job[s]
         /\ token'[s] = token[s]

Gentle == StoreGentle /\ ExecGentle

LEMMA GentleKeepsInvariant ==
  ASSUME IInv, Gentle, TypeOK'
  PROVE  IInv'
<1> USE DEF Gentle
<1>1. AtMostOneInvocation'
  BY DEF IInv, AtMostOneInvocation, ExecGentle
<1>2. NotBegunNotInvoked'
  BY DEF IInv, NotBegunNotInvoked, StoreGentle, ExecGentle
<1>3. \A r \in Runtimes : pc[r] \in Entered => job[r] \in Operations
  BY DEF IInv, TypeOK, Entered, Executing
<1>4. EnteredIsBegun'
  BY <1>3 DEF IInv, EnteredIsBegun, StoreGentle, ExecGentle
<1>5. EnteredAlone'
  BY DEF IInv, EnteredAlone, ExecGentle
<1>6. EnteredIsOnRecord'
  BY <1>3 DEF IInv, EnteredIsOnRecord, StoreGentle, ExecGentle
<1>7. SucceededWasInvoked'
  BY DEF IInv, SucceededWasInvoked, StoreGentle, ExecGentle
<1> QED BY <1>1, <1>2, <1>4, <1>5, <1>6, <1>7 DEF IInv

LEMMA SameStoreIsGentle ==
  ASSUME status' = status, attempt' = attempt
  PROVE  StoreGentle
BY DEF StoreGentle

LEMMA CompleteIsGentle ==
  ASSUME TypeOK, NEW o \in Operations, NEW a,
         \/ StoreRelease(o, a)
         \/ StoreFail(o, a)
         \/ StoreUnknown(o, a)
         \/ StoreSucceed(o, a) /\ invocations[o] = 1
  PROVE  StoreGentle /\ StoreTypeOK'
<1>1. {"queued", "failed", "succeeded", "outcome_unknown"} \subseteq Statuses
  BY DEF Statuses, Terminal
<1>2. StoreTypeOK'
  BY <1>1, CompleteType
     DEF StoreRelease, StoreFail, StoreUnknown, StoreSucceed, TypeOK
<1>3. CASE UNCHANGED storeVars
  BY <1>2, <1>3 DEF StoreGentle, storeVars
<1>4. CASE Held(o, a, "claimed") /\ (Become(o, "queued") \/ Become(o, "failed"))
  BY <1>2, <1>4 DEF StoreGentle, Held, Become, IsBegun, TypeOK, StoreTypeOK
<1>5. CASE Held(o, a, "executing") /\ Become(o, "outcome_unknown")
  BY <1>2, <1>5 DEF StoreGentle, Held, Become, IsBegun, TypeOK, StoreTypeOK
<1>6. CASE /\ Held(o, a, "executing")
           /\ Become(o, "succeeded")
           /\ invocations[o] = 1
  BY <1>2, <1>6 DEF StoreGentle, Held, Become, IsBegun, TypeOK, StoreTypeOK
<1> QED
  BY <1>3, <1>4, <1>5, <1>6
     DEF StoreRelease, StoreFail, StoreUnknown, StoreSucceed, StoreComplete

LEMMA ClaimIsGentle ==
  ASSUME TypeOK, NEW o \in Operations, NEW a \in Attempts,
         StoreClaim(o, a) \/ StoreClaimNothing
  PROVE  StoreGentle /\ StoreTypeOK'
<1>1. StoreTypeOK'
  BY ClaimType DEF TypeOK
<1>2. \A p \in Operations :
        /\ Recovered[p] = "executing"
             => status[p] = "executing" /\ RecoveredAttempt[p] = attempt[p]
        /\ Recovered[p] = "succeeded" => status[p] = "succeeded"
        /\ IsBegun(Recovered[p]) = IsBegun(status[p])
  BY DEF Recovered, RecoveredAttempt, Lapsed, Leased, IsBegun
<1>3. CASE StoreClaimNothing
  BY <1>1, <1>2, <1>3 DEF StoreClaimNothing, StoreGentle
<1>4. CASE StoreClaim(o, a)
  <2>1. Recovered[o] = "queued" /\ status'[o] = "claimed"
    BY <1>4 DEF StoreClaim, FirstQueued, Recovered
  <2>2. \A p \in Operations \ {o} :
          status'[p] = Recovered[p] /\ attempt'[p] = RecoveredAttempt[p]
    BY <1>4 DEF StoreClaim, Recovered, RecoveredAttempt
  <2> QED BY <1>1, <1>2, <2>1, <2>2 DEF StoreGentle, IsBegun
<1> QED BY <1>3, <1>4

(***************************************************************************)
(* The steps, grouped by their shape. First those that move only the       *)
(* program counter of one runtime.                                         *)
(***************************************************************************)
LEMMA GotoIsGentle ==
  ASSUME TypeOK, NEW r \in Runtimes, NEW next \in Steps, Goto(r, next),
         next \in Executing => pc[r] \in Executing,
         next \in Entered => pc[r] = "invoking" /\ next = "succeed"
  PROVE  TypeOK' /\ Gentle
<1>1. StoreGentle /\ StoreTypeOK'
  BY SameStoreIsGentle DEF Goto, storeVars, TypeOK, StoreTypeOK
<1>2. ExecTypeOK'
  BY DEF Goto, TypeOK, ExecTypeOK
<1>3. \A s \in Runtimes : pc'[s] = IF s = r THEN next ELSE pc[s]
  BY DEF Goto, TypeOK, ExecTypeOK
<1>4. \A s \in Runtimes : pc'[s] \in Executing => job'[s] \in Operations
  BY <1>3 DEF Goto, TypeOK, ExecTypeOK
<1>5. ExecGentle
  BY <1>3 DEF Goto, ExecGentle, Entered
<1> QED BY <1>1, <1>2, <1>4, <1>5 DEF TypeOK, Gentle

LEMMA GotoStepsAreGentle ==
  ASSUME TypeOK, NEW r \in Runtimes,
         \/ Hold(r) \/ Prepare(r) \/ Forgo(r) \/ Return(r) \/ Loop(r)
         \/ SucceedRejected(r)
  PROVE  TypeOK' /\ Gentle
<1> USE DEF Steps, Executing, Entered
<1>1. CASE Hold(r)
  BY <1>1, GotoIsGentle DEF Hold
<1>2. CASE Prepare(r)
  BY <1>2, GotoIsGentle DEF Prepare
<1>3. CASE Forgo(r)
  BY <1>3, GotoIsGentle DEF Forgo
<1>4. CASE Return(r)
  BY <1>4, GotoIsGentle DEF Return
<1>5. CASE Loop(r)
  BY <1>5, GotoIsGentle DEF Loop
<1>6. CASE SucceedRejected(r)
  BY <1>6, GotoIsGentle DEF SucceedRejected
<1> QED BY <1>1, <1>2, <1>3, <1>4, <1>5, <1>6

(***************************************************************************)
(* Store calls that end a round of the drain.                              *)
(***************************************************************************)
LEMMA FinishIsGentle ==
  ASSUME TypeOK, NEW r \in Runtimes, NEW call, Finish(r, call),
         StoreGentle, StoreTypeOK'
  PROVE  TypeOK' /\ Gentle
<1>1. Commit(r, "loop") /\ "loop" \in Steps
  BY DEF Finish, Steps
<1>2. /\ link' = link
      /\ pc'    \in [Runtimes -> Steps]
      /\ rerun' \in [Runtimes -> BOOLEAN]
      /\ retry' \in [Runtimes -> 0 .. NoTimer]
      /\ pc'[r] = "loop"
      /\ \A s \in Runtimes \ {r} :
           pc'[s] = pc[s] \/ (pc[s] = "idle" /\ pc'[s] = "claim")
  BY <1>1, CommitMoves
<1>3. ExecTypeOK'
  BY <1>2 DEF Finish, TypeOK, ExecTypeOK
<1>4. \A s \in Runtimes \ {r} : job'[s] = job[s] /\ token'[s] = token[s]
  BY DEF Finish, TypeOK, ExecTypeOK
<1>5. \A s \in Runtimes : pc'[s] \in Executing => job'[s] \in Operations
  BY <1>2, <1>4 DEF TypeOK, Executing
<1>6. ExecGentle
  BY <1>2, <1>4 DEF ExecGentle, Entered, Finish
<1> QED BY <1>3, <1>5, <1>6 DEF TypeOK, Gentle

LEMMA FinishStepsAreGentle ==
  ASSUME IInv, NEW r \in Runtimes,
         Release(r) \/ Fail(r) \/ StartRefused(r) \/ Succeed(r) \/ Unknown(r)
  PROVE  TypeOK' /\ Gentle
<1>1. TypeOK
  BY DEF IInv
<1>2. job[r] \in Operations
  BY <1>1
     DEF TypeOK, Executing, Release, Fail, StartRefused, Succeed, Unknown
<1>3. CASE Release(r)
  BY <1>1, <1>2, <1>3, CompleteIsGentle, FinishIsGentle DEF Release, Finish
<1>4. CASE Fail(r)
  BY <1>1, <1>2, <1>4, CompleteIsGentle, FinishIsGentle DEF Fail, Finish
<1>5. CASE Unknown(r)
  BY <1>1, <1>2, <1>5, CompleteIsGentle, FinishIsGentle DEF Unknown, Finish
<1>6. CASE Succeed(r)
  <2>1. invocations[job[r]] = 1
    BY <1>6 DEF IInv, EnteredIsBegun, Entered, Succeed
  <2> QED
    BY <1>1, <1>2, <1>6, <2>1, CompleteIsGentle, FinishIsGentle
       DEF Succeed, Finish
<1>7. CASE StartRefused(r)
  <2>1. UNCHANGED storeVars
    BY <1>7 DEF StartRefused, Finish
  <2>2. StoreGentle /\ StoreTypeOK'
    BY <1>1, <2>1, SameStoreIsGentle DEF storeVars, TypeOK, StoreTypeOK
  <2> QED BY <1>1, <1>7, <2>2, FinishIsGentle DEF StartRefused
<1> QED BY <1>3, <1>4, <1>5, <1>6, <1>7

(***************************************************************************)
(* The drain's own bookkeeping: claiming, resting, ending.                 *)
(***************************************************************************)
LEMMA ClaimOneIsGentle ==
  ASSUME TypeOK, NEW r \in Runtimes, ClaimOne(r)
  PROVE  TypeOK' /\ Gentle
<1>1. PICK o \in Operations, a \in Attempts :
        /\ StoreClaim(o, a)
        /\ job'   = [job EXCEPT ![r] = o]
        /\ token' = [token EXCEPT ![r] = a]
  BY DEF ClaimOne
<1>2. StoreGentle /\ StoreTypeOK'
  BY <1>1, ClaimIsGentle
<1>3. Commit(r, "held") /\ "held" \in Steps /\ invocations' = invocations
  BY DEF ClaimOne, Steps, Executing
<1>4. /\ link' = link
      /\ pc'    \in [Runtimes -> Steps]
      /\ rerun' \in [Runtimes -> BOOLEAN]
      /\ retry' \in [Runtimes -> 0 .. NoTimer]
      /\ pc'[r] = "held"
      /\ \A s \in Runtimes \ {r} :
           pc'[s] = pc[s] \/ (pc[s] = "idle" /\ pc'[s] = "claim")
  BY <1>3, CommitMoves
<1>5. ExecTypeOK'
  BY <1>1, <1>3, <1>4 DEF TypeOK, ExecTypeOK
<1>6. /\ job'[r] = o
      /\ \A s \in Runtimes \ {r} : job'[s] = job[s] /\ token'[s] = token[s]
  BY <1>1 DEF TypeOK, ExecTypeOK
<1>7. \A s \in Runtimes : pc'[s] \in Executing => job'[s] \in Operations
  BY <1>4, <1>6 DEF TypeOK, Executing
<1>8. ExecGentle
  BY <1>3, <1>4, <1>6 DEF ExecGentle, Entered
<1> QED BY <1>2, <1>5, <1>7, <1>8 DEF TypeOK, Gentle

LEMMA ClaimNothingIsGentle ==
  ASSUME TypeOK, NEW r \in Runtimes, ClaimNothing(r)
  PROVE  TypeOK' /\ Gentle
<1>1. StoreTypeOK'
  <2>1. Recovered \in [Operations -> Statuses]
    BY DEF Recovered, TypeOK, StoreTypeOK, Statuses, Terminal
  <2>2. RecoveredAttempt \in [Operations -> Attempts \cup {NoAttempt}]
    BY DEF RecoveredAttempt, TypeOK, StoreTypeOK
  <2> QED
    BY <2>1, <2>2 DEF ClaimNothing, StoreClaimNothing, TypeOK, StoreTypeOK
<1>2. StoreGentle
  BY DEF ClaimNothing, StoreClaimNothing, StoreGentle, Recovered,
         RecoveredAttempt, Lapsed, Leased, IsBegun
<1>3. Commit(r, "rest") /\ "rest" \in Steps /\ UNCHANGED <<job, token, invocations>>
  BY DEF ClaimNothing, Steps
<1>4. /\ link' = link
      /\ pc'    \in [Runtimes -> Steps]
      /\ rerun' \in [Runtimes -> BOOLEAN]
      /\ retry' \in [Runtimes -> 0 .. NoTimer]
      /\ pc'[r] = "rest"
      /\ \A s \in Runtimes \ {r} :
           pc'[s] = pc[s] \/ (pc[s] = "idle" /\ pc'[s] = "claim")
  BY <1>3, CommitMoves
<1>5. ExecTypeOK'
  BY <1>3, <1>4 DEF TypeOK, ExecTypeOK
<1>6. \A s \in Runtimes : pc'[s] \in Executing => job'[s] \in Operations
  BY <1>3, <1>4 DEF TypeOK, Executing
<1>7. ExecGentle
  BY <1>3, <1>4 DEF ExecGentle, Entered
<1> QED BY <1>1, <1>2, <1>5, <1>6, <1>7 DEF TypeOK, Gentle

LEMMA RestEndAreGentle ==
  ASSUME TypeOK, NEW r \in Runtimes, Rest(r) \/ End(r)
  PROVE  TypeOK' /\ Gentle
<1>1. StoreGentle /\ StoreTypeOK'
  BY SameStoreIsGentle DEF Rest, End, storeVars, TypeOK, StoreTypeOK
<1>2. retry' \in [Runtimes -> 0 .. NoTimer] /\ rerun' \in [Runtimes -> BOOLEAN]
  <2>1. \A d \in 0 .. Ttl : (IF d = 0 THEN 1 ELSE d) \in 0 .. NoTimer
    BY DEF NoTimer
  <2>2. NoTimer \in 0 .. NoTimer
    BY DEF NoTimer
  <2>3. CASE Rest(r)
    BY <2>1, <2>3 DEF Rest, TypeOK, ExecTypeOK
  <2>4. CASE End(r)
    BY <2>2, <2>4 DEF End, TypeOK, ExecTypeOK
  <2> QED BY <2>3, <2>4
<1>3. /\ pc' \in [Runtimes -> Steps]
      /\ pc'[r] \in {"claim", "idle", "ended"}
      /\ \A s \in Runtimes \ {r} : pc'[s] = pc[s]
  BY DEF Rest, End, TypeOK, ExecTypeOK, Steps
<1>4. UNCHANGED <<link, job, token, invocations>>
  BY DEF Rest, End
<1>5. ExecTypeOK'
  BY <1>2, <1>3, <1>4 DEF TypeOK, ExecTypeOK
<1>6. \A s \in Runtimes : pc'[s] \in Executing => job'[s] \in Operations
  BY <1>3, <1>4 DEF TypeOK, Executing
<1>7. ExecGentle
  BY <1>3, <1>4 DEF ExecGentle, Entered
<1> QED BY <1>1, <1>5, <1>6, <1>7 DEF TypeOK, Gentle

(***************************************************************************)
(* Wakes that no store call caused, and the store calls of clients.        *)
(***************************************************************************)
LEMMA WakeStepsAreGentle ==
  ASSUME TypeOK, NEW r \in Runtimes, RetryFires(r) \/ GoOnline(r)
  PROVE  TypeOK' /\ Gentle
<1>1. StoreGentle /\ StoreTypeOK'
  BY SameStoreIsGentle
     DEF RetryFires, GoOnline, storeVars, TypeOK, StoreTypeOK
<1>2. /\ Wake({r}, pc)
      /\ UNCHANGED <<job, token, invocations>>
      /\ pc \in [Runtimes -> Steps]
  BY DEF RetryFires, GoOnline, TypeOK, ExecTypeOK
<1>3. link' \in [Runtimes -> {"offline", "online", "stopped", "dead"}]
  BY DEF RetryFires, GoOnline, TypeOK, ExecTypeOK
<1>4. /\ pc'    \in [Runtimes -> Steps]
      /\ rerun' \in [Runtimes -> BOOLEAN]
      /\ retry' \in [Runtimes -> 0 .. NoTimer]
      /\ \A s \in Runtimes :
           pc'[s] = pc[s] \/ (pc[s] = "idle" /\ pc'[s] = "claim")
  BY <1>2, WakeMoves
<1>5. ExecTypeOK'
  BY <1>2, <1>3, <1>4 DEF TypeOK, ExecTypeOK
<1>6. \A s \in Runtimes : pc'[s] \in Executing => job'[s] \in Operations
  BY <1>2, <1>4 DEF TypeOK, Executing
<1>7. ExecGentle
  BY <1>2, <1>4 DEF ExecGentle, Entered
<1> QED BY <1>1, <1>5, <1>6, <1>7 DEF TypeOK, Gentle

LEMMA ClientStepsAreGentle ==
  ASSUME TypeOK, NEW r \in Runtimes, NEW o \in Operations,
         Submit(r, o) \/ Acknowledge(r, o)
  PROVE  TypeOK' /\ Gentle
<1>1. StoreTypeOK'
  <2>1. CASE StoreSubmit(o)
    BY <2>1 DEF StoreSubmit, TypeOK, StoreTypeOK, Statuses
  <2>2. CASE StoreAcknowledge(o)
    BY <2>2 DEF StoreAcknowledge, TypeOK, StoreTypeOK
  <2> QED BY <2>1, <2>2 DEF Submit, Acknowledge
<1>2. StoreGentle
  BY DEF Submit, Acknowledge, StoreSubmit, StoreAcknowledge, StoreGentle,
         TypeOK, StoreTypeOK, IsBegun
<1>3. /\ Commit(r, pc[r])
      /\ pc[r] \in Steps
      /\ UNCHANGED <<job, token, invocations>>
  BY DEF Submit, Acknowledge, TypeOK, ExecTypeOK
<1>4. /\ link' = link
      /\ pc'    \in [Runtimes -> Steps]
      /\ rerun' \in [Runtimes -> BOOLEAN]
      /\ retry' \in [Runtimes -> 0 .. NoTimer]
      /\ \A s \in Runtimes :
           pc'[s] = pc[s] \/ (pc[s] = "idle" /\ pc'[s] = "claim")
  BY <1>3, CommitMoves
<1>5. ExecTypeOK'
  BY <1>3, <1>4 DEF TypeOK, ExecTypeOK
<1>6. \A s \in Runtimes : pc'[s] \in Executing => job'[s] \in Operations
  BY <1>3, <1>4 DEF TypeOK, Executing
<1>7. ExecGentle
  BY <1>3, <1>4 DEF ExecGentle, Entered
<1> QED BY <1>1, <1>2, <1>5, <1>6, <1>7 DEF TypeOK, Gentle

(***************************************************************************)
(* What befalls a runtime, and the passing of time.                        *)
(***************************************************************************)
LEMMA LossesAreGentle ==
  ASSUME TypeOK, NEW r \in Runtimes,
         GoOffline(r) \/ Halt(r) \/ DrainRejected(r) \/ Crash(r)
  PROVE  TypeOK' /\ Gentle
<1> USE DEF GoOffline, Halt, DrainRejected, Crash
<1>1. StoreGentle /\ StoreTypeOK'
  BY SameStoreIsGentle DEF storeVars, TypeOK, StoreTypeOK
<1>2. link' \in [Runtimes -> {"offline", "online", "stopped", "dead"}]
  BY DEF TypeOK, ExecTypeOK
<1>3. pc' \in [Runtimes -> Steps]
  BY DEF TypeOK, ExecTypeOK, Steps
<1>4. /\ job' \in [Runtimes -> Operations \cup {NoOperation}]
      /\ token' \in [Runtimes -> Attempts \cup {NoAttempt}]
  BY DEF TypeOK, ExecTypeOK
<1>5. rerun' \in [Runtimes -> BOOLEAN] /\ retry' \in [Runtimes -> 0 .. NoTimer]
  <2>1. NoTimer \in 0 .. NoTimer
    BY DEF NoTimer
  <2>2. retry' = retry \/ retry' = [retry EXCEPT ![r] = NoTimer]
    OBVIOUS
  <2>3. rerun' = rerun \/ rerun' = [rerun EXCEPT ![r] = FALSE]
    OBVIOUS
  <2> HIDE DEF GoOffline, Halt, DrainRejected, Crash
  <2>4. retry' \in [Runtimes -> 0 .. NoTimer]
    BY <2>1, <2>2 DEF TypeOK, ExecTypeOK
  <2>5. rerun' \in [Runtimes -> BOOLEAN]
    BY <2>3 DEF TypeOK, ExecTypeOK
  <2> QED BY <2>4, <2>5
<1>6. ExecTypeOK'
  BY <1>2, <1>3, <1>4, <1>5 DEF TypeOK, ExecTypeOK
<1>7. \A s \in Runtimes :
        \/ pc'[s] = "idle"
        \/ pc'[s] = pc[s] /\ job'[s] = job[s] /\ token'[s] = token[s]
  BY DEF TypeOK, ExecTypeOK
<1>8. \A s \in Runtimes : pc'[s] \in Executing => job'[s] \in Operations
  BY <1>7 DEF TypeOK, Executing
<1>9. ExecGentle
  BY <1>7 DEF ExecGentle, Entered
<1> QED BY <1>1, <1>6, <1>8, <1>9 DEF TypeOK, Gentle

LEMMA TickIsGentle ==
  ASSUME TypeOK, Tick
  PROVE  TypeOK' /\ Gentle
<1>1. \A n \in 0 .. Ttl : (IF n > 0 THEN n - 1 ELSE 0) \in 0 .. Ttl
  OBVIOUS
<1>2. remaining' \in [Operations -> 0 .. Ttl]
  BY <1>1 DEF Tick, TypeOK, StoreTypeOK
<1>3. \A n \in 0 .. NoTimer :
        (IF n \in 1 .. Ttl THEN n - 1 ELSE n) \in 0 .. NoTimer
  BY DEF NoTimer
<1>4. retry' \in [Runtimes -> 0 .. NoTimer]
  BY <1>3 DEF Tick, TypeOK, ExecTypeOK
<1>5. UNCHANGED <<status, attempt, sequence, nextSequence, acknowledged,
                  link, pc, job, token, rerun, invocations>>
  BY DEF Tick
<1>6. StoreTypeOK' /\ ExecTypeOK'
  BY <1>2, <1>4, <1>5 DEF TypeOK, StoreTypeOK, ExecTypeOK
<1>7. \A s \in Runtimes : pc'[s] \in Executing => job'[s] \in Operations
  BY <1>5 DEF TypeOK
<1>8. Gentle
  BY <1>5, SameStoreIsGentle DEF Gentle, ExecGentle
<1> QED BY <1>6, <1>7, <1>8 DEF TypeOK

(***************************************************************************)
(* The two steps that are not gentle.                                      *)
(***************************************************************************)
LEMMA StartKeepsInvariant ==
  ASSUME IInv, NEW r \in Runtimes, Start(r)
  PROVE  IInv'
<1> DEFINE o == job[r]
<1>1. TypeOK /\ o \in Operations
  BY DEF IInv, TypeOK, Start, Executing
<1>2. /\ status[o] = "claimed" /\ attempt[o] = token[r]
      /\ status' = [status EXCEPT ![o] = "executing"]
      /\ UNCHANGED <<attempt, sequence, nextSequence, acknowledged>>
      /\ remaining' = [remaining EXCEPT ![o] = Ttl]
  BY DEF Start, StoreStart, Startable
<1>3. /\ Commit(r, "started") /\ "started" \in Steps
      /\ UNCHANGED <<job, token, invocations>>
  BY DEF Start, Steps, Executing
<1>4. /\ link' = link
      /\ pc'    \in [Runtimes -> Steps]
      /\ rerun' \in [Runtimes -> BOOLEAN]
      /\ retry' \in [Runtimes -> 0 .. NoTimer]
      /\ pc'[r] = "started"
      /\ \A s \in Runtimes \ {r} :
           pc'[s] = pc[s] \/ (pc[s] = "idle" /\ pc'[s] = "claim")
  BY <1>1, <1>3, CommitMoves
<1>5. StoreTypeOK'
  BY <1>1, <1>2 DEF TypeOK, StoreTypeOK, Statuses, Leased
<1>6. ExecTypeOK'
  BY <1>1, <1>3, <1>4 DEF TypeOK, ExecTypeOK
<1>7. TypeOK'
  BY <1>1, <1>3, <1>4, <1>5, <1>6 DEF TypeOK, Executing
<1>8. /\ status'[o] = "executing" /\ invocations[o] = 0
      /\ \A p \in Operations \ {o} : status'[p] = status[p]
  BY <1>1, <1>2 DEF IInv, TypeOK, StoreTypeOK, NotBegunNotInvoked, IsBegun
<1>9. \A s \in Runtimes \ {r} :
        pc'[s] \in Entered =>
          /\ pc'[s] = pc[s]
          /\ job[s] \in Operations \ {o}
  BY <1>1, <1>2, <1>4
     DEF IInv, TypeOK, EnteredIsBegun, Entered, Executing, IsBegun
<1>10. AtMostOneInvocation' /\ NotBegunNotInvoked' /\ SucceededWasInvoked'
  BY <1>1, <1>3, <1>8
     DEF IInv, AtMostOneInvocation, NotBegunNotInvoked, SucceededWasInvoked,
         IsBegun
<1>11. EnteredIsBegun'
  BY <1>3, <1>4, <1>8, <1>9 DEF IInv, EnteredIsBegun, IsBegun
<1>12. EnteredAlone'
  BY <1>3, <1>4, <1>9 DEF IInv, EnteredAlone
<1>13. EnteredIsOnRecord'
  BY <1>2, <1>3, <1>4, <1>8, <1>9 DEF IInv, EnteredIsOnRecord
<1> QED BY <1>7, <1>10, <1>11, <1>12, <1>13 DEF IInv

LEMMA InvokeKeepsInvariant ==
  ASSUME IInv, NEW r \in Runtimes, Invoke(r)
  PROVE  IInv'
<1> DEFINE o == job[r]
<1>1. TypeOK /\ o \in Operations
  BY DEF IInv, TypeOK, Invoke, Executing
<1>2. /\ invocations' = [invocations EXCEPT ![o] = @ + 1]
      /\ pc' = [pc EXCEPT ![r] = "invoking"]
      /\ UNCHANGED <<storeVars, link, job, token, rerun, retry>>
  BY DEF Invoke
<1>3. IsBegun(status[o]) /\ invocations[o] = 0
  BY DEF IInv, EnteredIsBegun, Entered, Invoke
<1>4. /\ invocations' \in [Operations -> Nat]
      /\ invocations'[o] = 1
      /\ \A p \in Operations \ {o} : invocations'[p] = invocations[p]
  BY <1>1, <1>2, <1>3 DEF TypeOK, ExecTypeOK
<1>5. /\ pc' \in [Runtimes -> Steps] /\ pc'[r] = "invoking"
      /\ \A s \in Runtimes \ {r} : pc'[s] = pc[s]
  BY <1>1, <1>2 DEF TypeOK, ExecTypeOK, Steps, Executing
<1>6. TypeOK'
  BY <1>1, <1>2, <1>4, <1>5 DEF TypeOK, StoreTypeOK, ExecTypeOK, storeVars
<1>7. UNCHANGED <<status, attempt, job, token>>
  BY <1>2 DEF storeVars
<1>8. \A s \in Runtimes \ {r} :
        pc[s] \in Entered => job[s] \in Operations \ {o}
  BY <1>1 DEF IInv, TypeOK, EnteredAlone, Invoke, Entered, Executing
<1>9. AtMostOneInvocation' /\ NotBegunNotInvoked' /\ SucceededWasInvoked'
  BY <1>3, <1>4, <1>7
     DEF IInv, AtMostOneInvocation, NotBegunNotInvoked, SucceededWasInvoked
<1>10. EnteredIsBegun'
  BY <1>3, <1>4, <1>5, <1>7, <1>8 DEF IInv, EnteredIsBegun
<1>11. EnteredAlone' /\ EnteredIsOnRecord'
  BY <1>5, <1>7
     DEF IInv, EnteredAlone, EnteredIsOnRecord, Invoke, Entered
<1> QED BY <1>6, <1>9, <1>10, <1>11 DEF IInv

(***************************************************************************)
(* Every step keeps the invariant.                                         *)
(***************************************************************************)
LEMMA StepIsGentle ==
  ASSUME IInv, Next
  PROVE  \/ TypeOK' /\ Gentle
         \/ \E r \in Runtimes : Start(r) \/ Invoke(r)
<1>1. TypeOK
  BY DEF IInv
<1>2. CASE Tick
  BY <1>1, <1>2, TickIsGentle
<1>3. ASSUME NEW r \in Runtimes, RuntimeStep(r)
      PROVE  (TypeOK' /\ Gentle) \/ Start(r) \/ Invoke(r)
  <2>1. CASE Drain(r)
    BY <1>1, <2>1, ClaimOneIsGentle, ClaimNothingIsGentle, RestEndAreGentle,
       GotoStepsAreGentle, FinishStepsAreGentle DEF Drain
  <2>2. CASE SucceedRejected(r)
    BY <1>1, <2>2, GotoStepsAreGentle
  <2>3. CASE GoOffline(r) \/ Halt(r) \/ DrainRejected(r) \/ Crash(r)
    BY <1>1, <2>3, LossesAreGentle
  <2>4. CASE RetryFires(r) \/ GoOnline(r)
    BY <1>1, <2>4, WakeStepsAreGentle
  <2>5. CASE \E o \in Operations : Submit(r, o) \/ Acknowledge(r, o)
    BY <1>1, <2>5, ClientStepsAreGentle
  <2> QED BY <1>3, <2>1, <2>2, <2>3, <2>4, <2>5 DEF RuntimeStep
<1> QED BY <1>2, <1>3 DEF Next

LEMMA NextKeepsInvariant == IInv /\ [Next]_vars => IInv'
<1> SUFFICES ASSUME IInv, [Next]_vars PROVE IInv'
  OBVIOUS
<1>1. CASE Next
  BY <1>1, StepIsGentle, GentleKeepsInvariant, StartKeepsInvariant,
     InvokeKeepsInvariant DEF IInv
<1>2. CASE UNCHANGED vars
  <2> USE <1>2 DEF vars, storeVars, execVars
  <2>1. TypeOK'
    BY DEF IInv, TypeOK, StoreTypeOK, ExecTypeOK
  <2>2. Gentle
    BY DEF Gentle, StoreGentle, ExecGentle
  <2> QED BY <2>1, <2>2, GentleKeepsInvariant
<1> QED BY <1>1, <1>2

LEMMA InvariantHolds == Spec => []IInv
<1>1. Init => IInv
  BY InitInvariant
<1>2. IInv /\ [Next]_vars => IInv'
  BY NextKeepsInvariant
<1> QED BY <1>1, <1>2, PTL DEF Spec

(***************************************************************************)
(* Types are kept by every method of the store and step of an executor.    *)
(***************************************************************************)
THEOREM TypeCorrect == Spec => []TypeOK
<1>1. IInv => TypeOK
  BY DEF IInv
<1> QED BY <1>1, InvariantHolds, PTL

(***************************************************************************)
(* However many runtimes execute the account's operations, whatever lapses *)
(* or crashes, the Session is asked at most once for an operation.         *)
(***************************************************************************)
THEOREM AtMostOnce == Spec => []AtMostOneInvocation
<1>1. IInv => AtMostOneInvocation
  BY DEF IInv
<1> QED BY <1>1, InvariantHolds, PTL

(***************************************************************************)
(* No receipt says of an operation that the Session was not asked when it  *)
(* was, nor that it succeeded when it was not.                             *)
(***************************************************************************)
THEOREM Truthful == Spec => []ReceiptTellsTheTruth
<1>1. IInv => ReceiptTellsTheTruth
  BY DEF IInv, ReceiptTellsTheTruth, NotBegunNotInvoked, SucceededWasInvoked,
         IsBegun
<1> QED BY <1>1, InvariantHolds, PTL

(***************************************************************************)
(* An execution in force belongs to the attempt that is inside the Session *)
(* call, so the verdict of that call is accepted by the store.             *)
(***************************************************************************)
THEOREM Owned == Spec => []ExecutionIsOwned
<1>1. IInv => ExecutionIsOwned
  BY DEF IInv, ExecutionIsOwned, EnteredIsOnRecord, Entered
<1> QED BY <1>1, InvariantHolds, PTL

(***************************************************************************)
(* The abstract receipts. First how a store transaction looks to them: one *)
(* entry that is replaced is one receipt that turns, a recovery gives up   *)
(* the executions that lapsed, and the rest changes no receipt.            *)
(***************************************************************************)
Receipts == [o \in Operations |-> ReceiptOf(status[o])]

LEMMA BecomeTurns ==
  ASSUME TypeOK, NEW o \in Operations, NEW s, NEW to,
         status' = [status EXCEPT ![o] = s], ReceiptOf(s) = to
  PROVE  Receipt!Turn(o, ReceiptOf(status[o]), to)
<1>1. \A p \in Operations : status'[p] = IF p = o THEN s ELSE status[p]
  BY DEF TypeOK, StoreTypeOK
<1>2. Receipts' = [p \in Operations |-> IF p = o THEN to ELSE Receipts[p]]
  BY <1>1 DEF Receipts
<1>3. Receipts' = [Receipts EXCEPT ![o] = to]
  BY <1>2 DEF Receipts
<1> QED BY <1>3 DEF Receipts, Receipt!Turn

LEMMA SameReceipts ==
  ASSUME \A o \in Operations : ReceiptOf(status'[o]) = ReceiptOf(status[o]),
         UNCHANGED <<invocations, acknowledged>>
  PROVE  UNCHANGED Receipt!receiptVars
<1>1. Receipts' = Receipts
  BY DEF Receipts
<1> QED BY <1>1 DEF Receipts, Receipt!receiptVars

LEMMA RecoveryGivesUp ==
  ASSUME TypeOK, UNCHANGED <<invocations, acknowledged>>,
         \A o \in Operations : ReceiptOf(status'[o]) = ReceiptOf(Recovered[o])
  PROVE  Receipt!ReceiptNext
<1> DEFINE S == {o \in Operations : Lapsed(o) /\ status[o] = "executing"}
<1>1. \A o \in Operations :
        ReceiptOf(Recovered[o]) =
          IF o \in S THEN "outcome_unknown" ELSE ReceiptOf(status[o])
  BY DEF Recovered, ReceiptOf
<1>2. \A o \in S : Receipts[o] = "begun"
  BY DEF Receipts, ReceiptOf
<1>3. Receipts' = [o \in Operations |->
                     IF o \in S THEN "outcome_unknown" ELSE Receipts[o]]
  BY <1>1 DEF Receipts
<1>4. Receipt!GivenUp(S)
  BY <1>2, <1>3 DEF Receipts, Receipt!GivenUp
<1>5. S \in SUBSET Operations
  OBVIOUS
<1> QED BY <1>4, <1>5 DEF Receipt!ReceiptNext

LEMMA ClaimShown ==
  ASSUME TypeOK, NEW r \in Runtimes, ClaimOne(r) \/ ClaimNothing(r)
  PROVE  Receipt!ReceiptNext
<1>1. UNCHANGED <<invocations, acknowledged>>
  BY DEF ClaimOne, ClaimNothing, StoreClaim, StoreClaimNothing
<1>2. \A o \in Operations : ReceiptOf(status'[o]) = ReceiptOf(Recovered[o])
  <2>1. CASE ClaimNothing(r)
    BY <2>1 DEF ClaimNothing, StoreClaimNothing
  <2>2. CASE ClaimOne(r)
    <3>1. PICK o \in Operations, a \in Attempts : StoreClaim(o, a)
      BY <2>2 DEF ClaimOne
    <3>2. Recovered[o] = "queued"
      BY <3>1 DEF StoreClaim, FirstQueued
    <3>3. \A p \in Operations :
            status'[p] = IF p = o THEN "claimed" ELSE Recovered[p]
      BY <3>1 DEF StoreClaim, Recovered
    <3> QED BY <3>2, <3>3 DEF ReceiptOf
  <2> QED BY <2>1, <2>2
<1> QED BY <1>1, <1>2, RecoveryGivesUp

(***************************************************************************)
(* A store call that completes an execution, for the attempt on record.    *)
(***************************************************************************)
LEMMA FinishShown ==
  ASSUME IInv, NEW r \in Runtimes,
         Release(r) \/ Fail(r) \/ StartRefused(r) \/ Succeed(r) \/ Unknown(r)
  PROVE  Receipt!ReceiptNext
<1> DEFINE o == job[r]
<1>1. TypeOK /\ o \in Operations /\ invocations' = invocations
  BY DEF IInv, TypeOK, Executing, Release, Fail, StartRefused, Succeed,
         Unknown, Finish
<1>2. CASE UNCHANGED storeVars
  <2>1. UNCHANGED Receipt!receiptVars
    BY <1>1, <1>2, SameReceipts DEF storeVars
  <2> QED BY <2>1 DEF Receipt!ReceiptNext
<1>3. CASE Release(r) /\ ~UNCHANGED storeVars
  <2>1. status[o] = "claimed" /\ Become(o, "queued")
    BY <1>3 DEF Release, Finish, StoreRelease, StoreComplete, Held
  <2>2. \A p \in Operations : ReceiptOf(status'[p]) = ReceiptOf(status[p])
    BY <1>1, <2>1 DEF Become, ReceiptOf, TypeOK, StoreTypeOK
  <2>3. UNCHANGED Receipt!receiptVars
    BY <1>1, <2>1, <2>2, SameReceipts DEF Become
  <2> QED BY <2>3 DEF Receipt!ReceiptNext
<1>4. CASE Fail(r) /\ ~UNCHANGED storeVars
  <2>1. status[o] = "claimed" /\ Become(o, "failed")
    BY <1>4 DEF Fail, Finish, StoreFail, StoreComplete, Held
  <2>2. Receipt!Turn(o, ReceiptOf(status[o]), "failed")
    BY <1>1, <2>1, BecomeTurns DEF Become, ReceiptOf
  <2>3. Receipt!Refused(o)
    BY <1>1, <2>1, <2>2 DEF Become, ReceiptOf, Receipt!Refused
  <2> QED BY <1>1, <2>3 DEF Receipt!ReceiptNext
<1>5. CASE Succeed(r) /\ ~UNCHANGED storeVars
  <2>1. status[o] = "executing" /\ Become(o, "succeeded")
    BY <1>5 DEF Succeed, Finish, StoreSucceed, StoreComplete, Held
  <2>2. invocations[o] = 1
    BY <1>5 DEF IInv, EnteredIsBegun, Entered, Succeed
  <2>3. Receipt!Turn(o, ReceiptOf(status[o]), "succeeded")
    BY <1>1, <2>1, BecomeTurns DEF Become, ReceiptOf
  <2>4. Receipt!Confirmed(o)
    BY <1>1, <2>1, <2>2, <2>3 DEF Become, ReceiptOf, Receipt!Confirmed
  <2> QED BY <1>1, <2>4 DEF Receipt!ReceiptNext
<1>6. CASE Unknown(r) /\ ~UNCHANGED storeVars
  <2>1. status[o] = "executing" /\ Become(o, "outcome_unknown")
    BY <1>6 DEF Unknown, Finish, StoreUnknown, StoreComplete, Held
  <2>2. \A p \in Operations :
          status'[p] = IF p = o THEN "outcome_unknown" ELSE status[p]
    BY <1>1, <2>1 DEF Become, TypeOK, StoreTypeOK
  <2>3. Receipts' = [p \in Operations |->
                       IF p \in {o} THEN "outcome_unknown" ELSE Receipts[p]]
    BY <2>2 DEF Receipts, ReceiptOf
  <2>4. Receipts[o] = "begun"
    BY <1>1, <2>1 DEF Receipts, ReceiptOf
  <2>5. Receipt!GivenUp({o})
    BY <1>1, <2>1, <2>3, <2>4 DEF Become, Receipts, Receipt!GivenUp
  <2> QED BY <1>1, <2>5 DEF Receipt!ReceiptNext
<1>7. StartRefused(r) => UNCHANGED storeVars
  BY DEF StartRefused, Finish
<1> QED BY <1>2, <1>3, <1>4, <1>5, <1>6, <1>7

LEMMA BeginShown ==
  ASSUME IInv, NEW r \in Runtimes, Start(r) \/ Invoke(r)
  PROVE  Receipt!ReceiptNext
<1> DEFINE o == job[r]
<1>1. TypeOK /\ o \in Operations
  BY DEF IInv, TypeOK, Start, Invoke, Executing
<1>2. CASE Start(r)
  <2>1. /\ status[o] = "claimed"
        /\ status' = [status EXCEPT ![o] = "executing"]
        /\ UNCHANGED <<invocations, acknowledged>>
    BY <1>2 DEF Start, StoreStart, Startable
  <2>2. Receipt!Turn(o, ReceiptOf(status[o]), "begun")
    BY <1>1, <2>1, BecomeTurns DEF ReceiptOf
  <2>3. Receipt!Begun(o)
    BY <2>1, <2>2 DEF ReceiptOf, Receipt!Begun
  <2> QED BY <1>1, <2>3 DEF Receipt!ReceiptNext
<1>3. CASE Invoke(r)
  <2>1. IsBegun(status[o]) /\ invocations[o] = 0
    BY <1>3 DEF IInv, EnteredIsBegun, Entered, Invoke
  <2>2. status[o] # "succeeded"
    BY <1>1, <2>1 DEF IInv, SucceededWasInvoked
  <2>3. Receipts[o] \in {"begun", "outcome_unknown"}
    BY <1>1, <2>1, <2>2 DEF Receipts, ReceiptOf, IsBegun
  <2>4. /\ Receipts' = Receipts /\ acknowledged' = acknowledged
        /\ invocations' = [invocations EXCEPT ![o] = 1]
    BY <1>1, <1>3, <2>1 DEF Invoke, storeVars, Receipts, TypeOK, ExecTypeOK
  <2>5. Receipt!Asked(o)
    BY <2>1, <2>3, <2>4 DEF Receipts, Receipt!Asked
  <2> QED BY <1>1, <2>5 DEF Receipt!ReceiptNext
<1> QED BY <1>2, <1>3

LEMMA ClientShown ==
  ASSUME TypeOK, NEW r \in Runtimes, NEW o \in Operations,
         Submit(r, o) \/ Acknowledge(r, o)
  PROVE  Receipt!ReceiptNext
<1>1. CASE Submit(r, o)
  <2>1. /\ status[o] = "absent"
        /\ status' = [status EXCEPT ![o] = "queued"]
        /\ UNCHANGED <<invocations, acknowledged>>
    BY <1>1 DEF Submit, StoreSubmit
  <2>2. Receipt!Turn(o, ReceiptOf(status[o]), "pending")
    BY <2>1, BecomeTurns DEF ReceiptOf
  <2>3. Receipt!Submitted(o)
    BY <2>1, <2>2 DEF ReceiptOf, Receipt!Submitted
  <2> QED BY <2>3 DEF Receipt!ReceiptNext
<1>2. CASE Acknowledge(r, o)
  <2>1. /\ status[o] \in Terminal /\ ~acknowledged[o]
        /\ acknowledged' = [acknowledged EXCEPT ![o] = TRUE]
        /\ UNCHANGED <<status, invocations>>
    BY <1>2 DEF Acknowledge, StoreAcknowledge
  <2>2. Receipts[o] \in Receipt!Verdicts /\ Receipts' = Receipts
    BY <2>1 DEF Receipts, ReceiptOf, Terminal, Receipt!Verdicts
  <2>3. Receipt!Acknowledged(o)
    BY <2>1, <2>2 DEF Receipts, Receipt!Acknowledged
  <2> QED BY <2>3 DEF Receipt!ReceiptNext
<1> QED BY <1>1, <1>2

(***************************************************************************)
(* Initial states and steps of the executors map to those of the receipts. *)
(***************************************************************************)
LEMMA InitReceipt == Init => Receipt!ReceiptInit
<1> SUFFICES ASSUME Init PROVE Receipt!ReceiptInit
  OBVIOUS
<1>1. Receipts = [o \in Operations |-> "absent"]
  BY DEF Init, StoreInit, Receipts, ReceiptOf
<1> QED BY <1>1 DEF Init, StoreInit, Receipts, Receipt!ReceiptInit

LEMMA StepReceipt ==
  IInv /\ [Next]_vars => [Receipt!ReceiptNext]_Receipt!receiptVars
<1> SUFFICES ASSUME IInv, [Next]_vars
             PROVE  Receipt!ReceiptNext \/ UNCHANGED Receipt!receiptVars
  OBVIOUS
<1>1. TypeOK
  BY DEF IInv
<1>2. CASE UNCHANGED <<status, invocations, acknowledged>>
  BY <1>2, SameReceipts
<1>3. ASSUME NEW r \in Runtimes, RuntimeStep(r)
      PROVE  \/ Receipt!ReceiptNext
             \/ UNCHANGED <<status, invocations, acknowledged>>
  <2>1. CASE \/ ClaimOne(r) \/ ClaimNothing(r)
    BY <1>1, <2>1, ClaimShown
  <2>2. CASE Release(r) \/ Fail(r) \/ StartRefused(r) \/ Succeed(r) \/ Unknown(r)
    BY <2>2, FinishShown
  <2>3. CASE Start(r) \/ Invoke(r)
    BY <2>3, BeginShown
  <2>4. CASE \E o \in Operations : Submit(r, o) \/ Acknowledge(r, o)
    BY <1>1, <2>4, ClientShown
  <2>5. CASE \/ Rest(r) \/ End(r) \/ Loop(r) \/ Hold(r) \/ Prepare(r)
             \/ Forgo(r) \/ Return(r) \/ SucceedRejected(r)
    BY <2>5 DEF Rest, End, Loop, Hold, Prepare, Forgo, Return,
                SucceedRejected, Goto, storeVars
  <2>6. CASE \/ DrainRejected(r) \/ RetryFires(r) \/ GoOnline(r)
             \/ GoOffline(r) \/ Halt(r) \/ Crash(r)
    BY <2>6 DEF DrainRejected, RetryFires, GoOnline, GoOffline, Halt, Crash,
                storeVars
  <2> QED BY <1>3, <2>1, <2>2, <2>3, <2>4, <2>5, <2>6 DEF RuntimeStep, Drain
<1>4. CASE Tick
  BY <1>4, SameReceipts DEF Tick
<1>5. CASE UNCHANGED vars
  BY <1>5, SameReceipts DEF vars, storeVars, execVars
<1> QED BY <1>2, <1>3, <1>4, <1>5 DEF Next

(***************************************************************************)
(* Whatever the runtimes, their claims and the clock do, a client sees     *)
(* receipts that keep the contract: they move one way, a verdict stands,   *)
(* and a success is reported only of the one request that was made.        *)
(***************************************************************************)
THEOREM ReceiptsKeepTheContract == Spec => ImplementsReceipt
<1>1. Spec => Receipt!ReceiptSpec
  BY InitReceipt, StepReceipt, InvariantHolds, PTL
     DEF Spec, Receipt!ReceiptSpec
<1> QED BY <1>1 DEF ImplementsReceipt
=============================================================================
