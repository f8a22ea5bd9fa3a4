--------------------------- MODULE AccountProofs ----------------------------
(***************************************************************************)
(* Proofs about AccountRuntime, for any number of runtimes that compete    *)
(* for the account, any lease duration and any bounds on clock and tokens. *)
(***************************************************************************)
EXTENDS AccountRuntime, TLAPS

USE BackendAssumption

(***************************************************************************)
(* The inductive invariant. First the tokens: those a runtime holds were   *)
(* issued, and a renewal that was refused is of a claim lost for good.     *)
(***************************************************************************)
TokensAreIssued(r) ==
  /\ lease[r] <= issued /\ ticket[r] <= issued
  /\ renewal[r].claim <= issued

RefusalStands(r) ==
  renewal[r].step = "refused" => ~(InForce /\ holder = renewal[r].claim)

\* Once announced, a claim bounds from below what the mirror has heard of.
AnnouncedIsHeard(r) ==
  startup[r] \in {"opening", "up"} => newestClaim >= ticket[r]

(***************************************************************************)
(* Startups and teardowns. A runtime has a lease only between the end of   *)
(* acquire() and its teardown; a startup that failed has a teardown of its *)
(* own until it is idle again; a halted runtime has nothing left to hold,  *)
(* though a teardown may still have to give it back.                       *)
(***************************************************************************)
LeasedWhileStarted(r) ==
  lease[r] # NoClaim => startup[r] \in {"announcing", "opening", "up"}

UndoingIsTornDown(r) ==
  (startup[r] = "undoing") = (teardown[r]["startup"].step # "no")

GivenIsNothing(r) ==
  \A t \in Teardowns :
    teardown[r][t].step \in {"no", "given"} => teardown[r][t].claim = NoClaim

HaltedHasNothing(r) ==
  teardown[r]["halt"].step # "no" =>
    /\ stopped[r]
    /\ lease[r] = NoClaim
    /\ ~open[r] /\ ~subscribed[r] /\ ~heartbeat[r]

ClosedIsGiven(r) == frame[r] # "none" => teardown[r]["halt"].step = "given"

(***************************************************************************)
(* Sessions. One that runs belongs to a startup that is up, one that was   *)
(* opened too late is about to be stopped; the runtime refers to the one   *)
(* it consumes until halt() takes it, and halt() waits for its end.        *)
(***************************************************************************)
RunningIsUp(r) ==
  /\ session[r] \in {"live", "stopping", "failing"} => startup[r] = "up"
  /\ session[r] = "open" => teardown[r]["startup"].step \in {"stamp", "stop"}
  /\ handler[r].step # "none" => session[r] \in {"live", "stopping"}

UpIsOpen(r) ==
  startup[r] = "up" =>
    /\ teardown[r]["halt"].step = "no" => open[r]
    /\ teardown[r]["halt"].step \in {"give", "given"} => session[r] = "ended"

BrokenIsKept(r) ==
  broken[r] =>
    /\ startup[r] = "up" /\ session[r] = "ended"
    /\ teardown[r]["halt"].step \in {"give", "given"}
         => teardown[r]["halt"].failed
    /\ frame[r] # "closed"

RuntimeInv(r) ==
  /\ TokensAreIssued(r)
  /\ RefusalStands(r)
  /\ AnnouncedIsHeard(r)
  /\ LeasedWhileStarted(r)
  /\ UndoingIsTornDown(r)
  /\ GivenIsNothing(r)
  /\ HaltedHasNothing(r)
  /\ ClosedIsGiven(r)
  /\ RunningIsUp(r)
  /\ UpIsOpen(r)
  /\ BrokenIsKept(r)

IInv ==
  /\ AccountTypeOK
  /\ \A r \in Holders : RuntimeInv(r)
  /\ HeldIsRemembered

LEMMA InitInvariant == AccountInit => IInv
<1> SUFFICES ASSUME AccountInit PROVE IInv
  OBVIOUS
<1> USE DEF AccountInit, BackendInit, NoClaim, Nothing, NoRenewal, NoHandler,
            Teardowns
<1>1. AccountTypeOK
  BY DEF AccountTypeOK, BackendTypeOK
<1>2. ASSUME NEW r \in Holders PROVE RuntimeInv(r)
  BY DEF RuntimeInv, TokensAreIssued, RefusalStands, AnnouncedIsHeard,
         LeasedWhileStarted, UndoingIsTornDown, GivenIsNothing,
         HaltedHasNothing, ClosedIsGiven, RunningIsUp, UpIsOpen, BrokenIsKept
<1>3. HeldIsRemembered
  BY DEF HeldIsRemembered, InForce
<1> QED BY <1>1, <1>2, <1>3 DEF IInv

(***************************************************************************)
(* The backend: tokens and what the mirror has heard of only grow, and a   *)
(* claim that was lost is never in force again.                            *)
(***************************************************************************)
BackendMoves ==
  /\ issued' >= issued /\ newestClaim' >= newestClaim
  /\ \A n \in 0 .. issued :
       ~(InForce /\ holder = n) => ~(InForce' /\ holder' = n)

LEMMA BackendEffect ==
  ASSUME BackendTypeOK, NEW token \in Nat,
         \/ UNCHANGED backendVars \/ LeaseTick \/ LeaseAcquire
         \/ LeaseRenew(token) \/ LeaseRelease(token)
         \/ DataClaim(token) \/ DataAccept(token)
  PROVE  BackendTypeOK' /\ BackendMoves
<1> USE DEF BackendTypeOK, BackendMoves, InForce, NoClaim
<1>1. CASE UNCHANGED backendVars
  BY <1>1 DEF backendVars
<1>2. CASE LeaseTick
  BY <1>2 DEF LeaseTick
<1>3. CASE LeaseAcquire
  BY <1>3 DEF LeaseAcquire
<1>4. CASE LeaseRenew(token)
  BY <1>4 DEF LeaseRenew, Renewable
<1>5. CASE LeaseRelease(token)
  BY <1>5 DEF LeaseRelease
<1>6. CASE DataClaim(token)
  BY <1>6 DEF DataClaim, Superseded
<1>7. CASE DataAccept(token)
  BY <1>7 DEF DataAccept, Superseded
<1> QED BY <1>1, <1>2, <1>3, <1>4, <1>5, <1>6, <1>7

(***************************************************************************)
(* A runtime that a step does not concern keeps its part of the invariant. *)
(***************************************************************************)
Same(s) ==
  /\ startup'[s] = startup[s] /\ ticket'[s] = ticket[s]
  /\ stopped'[s] = stopped[s] /\ lease'[s] = lease[s]
  /\ heartbeat'[s] = heartbeat[s] /\ renewal'[s] = renewal[s]
  /\ open'[s] = open[s] /\ subscribed'[s] = subscribed[s]
  /\ session'[s] = session[s] /\ broken'[s] = broken[s]
  /\ handler'[s] = handler[s] /\ teardown'[s] = teardown[s]
  /\ frame'[s] = frame[s]

LEMMA SameKeeps ==
  ASSUME AccountTypeOK, BackendMoves, BackendTypeOK',
         NEW s \in Holders, RuntimeInv(s), Same(s)
  PROVE  RuntimeInv(s)'
<1>1. /\ lease[s] \in Nat /\ ticket[s] \in Nat /\ renewal[s].claim \in Nat
      /\ {issued, newestClaim, issued', newestClaim'} \subseteq Nat
  BY DEF AccountTypeOK, BackendTypeOK
<1>2. TokensAreIssued(s)' /\ RefusalStands(s)' /\ AnnouncedIsHeard(s)'
  BY <1>1 DEF RuntimeInv, Same, BackendMoves, TokensAreIssued, RefusalStands,
              AnnouncedIsHeard
<1>3. LeasedWhileStarted(s)' /\ UndoingIsTornDown(s)' /\ GivenIsNothing(s)'
  BY DEF RuntimeInv, Same, LeasedWhileStarted, UndoingIsTornDown, GivenIsNothing
<1>4. HaltedHasNothing(s)' /\ ClosedIsGiven(s)' /\ RunningIsUp(s)'
  BY DEF RuntimeInv, Same, HaltedHasNothing, ClosedIsGiven, RunningIsUp
<1>5. UpIsOpen(s)' /\ BrokenIsKept(s)'
  BY DEF RuntimeInv, Same, UpIsOpen, BrokenIsKept
<1> QED BY <1>2, <1>3, <1>4, <1>5 DEF RuntimeInv

(***************************************************************************)
(* What is to be shown of a step of runtime r: types, r's part of the      *)
(* invariant, that it concerns no other runtime, and that the lease in     *)
(* force is still remembered.                                              *)
(***************************************************************************)
Concerns(r) ==
  /\ AccountTypeOK' /\ BackendMoves
  /\ RuntimeInv(r)'
  /\ \A s \in Holders \ {r} : Same(s)
  /\ HeldIsRemembered'

\* A step that grants no lease keeps it remembered if r forgets none in force.
LEMMA MemoryHolds ==
  ASSUME HeldIsRemembered, NEW r \in Holders,
         \A s \in Holders \ {r} : Same(s),
         abandoned \subseteq abandoned',
         InForce' => InForce /\ holder' = holder,
         InForce' /\ holder \in Remembered(r)
           => holder \in abandoned' \cup Remembered(r)'
  PROVE  HeldIsRemembered'
<1>1. SUFFICES ASSUME InForce'
               PROVE  \/ holder \in abandoned'
                      \/ \E s \in Holders : holder \in Remembered(s)'
  BY DEF HeldIsRemembered
<1>2. CASE holder \in abandoned
  BY <1>2
<1>3. ASSUME NEW s \in Holders, holder \in Remembered(s)
      PROVE  \/ holder \in abandoned'
             \/ \E u \in Holders : holder \in Remembered(u)'
  <2>1. CASE s = r
    BY <1>1, <1>3, <2>1
  <2>2. CASE s # r
    BY <1>3, <2>2 DEF Same, Remembered
  <2> QED BY <2>1, <2>2
<1> QED BY <1>1, <1>2, <1>3 DEF HeldIsRemembered

(***************************************************************************)
(* The Session and its handlers.                                           *)
(***************************************************************************)
LEMMA SessionStepsConcern ==
  ASSUME IInv, NEW r \in Holders,
         \/ Observe(r) \/ Accept(r) \/ LetGo(r) \/ Accepted(r)
         \/ AcceptRefused(r) \/ SessionDies(r) \/ SessionWindsDown(r)
  PROVE  Concerns(r)

<1>1. UNCHANGED <<lifeVars, leaseVars, open, subscribed, endVars>>
  BY DEF Observe, Accept, LetGo, Accepted, AcceptRefused, SessionDies,
         SessionWindsDown, SessionOnly
<1>2. UNCHANGED <<startup, ticket, ticketUntil, stopped, lease, leaseUntil,
                  heartbeat, renewal, open, subscribed, teardown, failure,
                  frame, abandoned>>
  BY <1>1 DEF lifeVars, leaseVars, endVars
<1>3. AccountTypeOK /\ RuntimeInv(r) /\ HeldIsRemembered
  BY DEF IInv
<1>4. UNCHANGED backendVars \/ DataAccept(handler[r].claim)
  BY DEF Observe, Accept, LetGo, Accepted, AcceptRefused, SessionDies,
         SessionWindsDown
<1>5. handler[r].claim \in Nat /\ BackendTypeOK
  BY <1>3 DEF AccountTypeOK
<1>6. BackendTypeOK' /\ BackendMoves
  BY <1>4, <1>5, BackendEffect
<1>7. holder' = holder /\ InForce' = InForce
  BY <1>4 DEF backendVars, DataAccept, InForce
<1>8. /\ handler' \in [Holders ->
            [step : {"none", "preparing", "accepting"}, claim : Nat]]
      /\ handler'[r].step = "accepting" => handler'[r].claim # NoClaim
      /\ \A s \in Holders \ {r} : handler'[s] = handler[s]
  <2> USE DEF NoHandler, NoClaim
  <2>1. CASE Observe(r)
    BY <1>3, <2>1 DEF Observe, AccountTypeOK
  <2>2. CASE Accept(r)
    BY <1>3, <2>2 DEF Accept, AccountTypeOK, LeaseLapsed
  <2>3. CASE LetGo(r) \/ Accepted(r) \/ AcceptRefused(r)
    <3>1. handler' = [handler EXCEPT ![r] = NoHandler]
      BY <2>3 DEF LetGo, Accepted, AcceptRefused
    <3> QED BY <1>3, <3>1 DEF AccountTypeOK
  <2>4. CASE SessionDies(r) \/ SessionWindsDown(r)
    <3>1. handler' = handler
      BY <2>4 DEF SessionDies, SessionWindsDown
    <3> QED BY <1>3, <3>1 DEF AccountTypeOK
  <2> QED BY <2>1, <2>2, <2>3, <2>4
<1>9. /\ session' \in [Holders ->
            {"none", "open", "live", "stopping", "failing", "ended"}]
      /\ \A s \in Holders \ {r} : session'[s] = session[s]
  <2>1. \/ session' = session
        \/ session' = [session EXCEPT ![r] = "failing"]
        \/ session' = [session EXCEPT ![r] = "ended"]
    BY DEF Observe, Accept, LetGo, Accepted, AcceptRefused, SessionDies,
           SessionWindsDown
  <2> QED BY <1>3, <2>1 DEF AccountTypeOK
<1>10. /\ broken' \in [Holders -> BOOLEAN]
       /\ \A s \in Holders \ {r} : broken'[s] = broken[s]
  <2>1. \/ broken' = broken
        \/ \E b \in BOOLEAN : broken' = [broken EXCEPT ![r] = b]
    BY DEF Observe, Accept, LetGo, Accepted, AcceptRefused, SessionDies,
           SessionWindsDown
  <2> QED BY <1>3, <2>1 DEF AccountTypeOK
<1>11. AccountTypeOK'
  BY <1>2, <1>3, <1>6, <1>8, <1>9, <1>10 DEF AccountTypeOK
<1>12. \A s \in Holders \ {r} : Same(s)
  BY <1>2, <1>8, <1>9, <1>10 DEF Same
<1>13. /\ TokensAreIssued(r)' /\ RefusalStands(r)' /\ AnnouncedIsHeard(r)'
       /\ LeasedWhileStarted(r)' /\ UndoingIsTornDown(r)' /\ GivenIsNothing(r)'
       /\ HaltedHasNothing(r)' /\ ClosedIsGiven(r)'

  <2>1. /\ lease[r] \in Nat /\ ticket[r] \in Nat /\ renewal[r].claim \in Nat
        /\ {issued, newestClaim, issued', newestClaim'} \subseteq Nat
    BY <1>3, <1>6 DEF AccountTypeOK, BackendTypeOK
  <2>2. TokensAreIssued(r)' /\ RefusalStands(r)' /\ AnnouncedIsHeard(r)'
    BY <1>2, <1>3, <1>6, <2>1 DEF RuntimeInv, BackendMoves, TokensAreIssued,
       RefusalStands, AnnouncedIsHeard
  <2>3. LeasedWhileStarted(r)' /\ UndoingIsTornDown(r)' /\ GivenIsNothing(r)'
    BY <1>2, <1>3 DEF RuntimeInv, LeasedWhileStarted, UndoingIsTornDown,
       GivenIsNothing
  <2>4. HaltedHasNothing(r)' /\ ClosedIsGiven(r)'
    BY <1>2, <1>3 DEF RuntimeInv, HaltedHasNothing, ClosedIsGiven
  <2> QED BY <2>2, <2>3, <2>4
<1>14. RunningIsUp(r)' /\ UpIsOpen(r)' /\ BrokenIsKept(r)'
  <2>0. RunningIsUp(r) /\ UpIsOpen(r) /\ BrokenIsKept(r) /\ ClosedIsGiven(r)
    BY <1>3 DEF RuntimeInv
  <2>1. CASE Observe(r) \/ Accept(r) \/ LetGo(r) \/ Accepted(r)
    <3>1. /\ session' = session /\ broken' = broken
          /\ handler'[r].step # "none" =>
               handler[r].step # "none" \/ session[r] = "live"
      BY <1>3, <2>1 DEF Observe, Accept, LetGo, Accepted, AccountTypeOK, NoHandler
    <3> QED BY <1>2, <2>0, <3>1 DEF RunningIsUp, UpIsOpen, BrokenIsKept
  <2>2. CASE AcceptRefused(r)
    <3>1. /\ handler[r].step # "none" /\ handler'[r].step = "none"
          /\ session'[r] = "failing" /\ broken' = broken
      BY <1>3, <2>2 DEF AcceptRefused, AccountTypeOK, NoHandler
    <3> QED BY <1>2, <2>0, <3>1 DEF RunningIsUp, UpIsOpen, BrokenIsKept
  <2>3. CASE SessionDies(r) \/ SessionWindsDown(r)
    <3>1. /\ session[r] \in {"live", "stopping", "failing"}
          /\ session'[r] = "ended"
          /\ handler'[r].step = "none"
      <4>1. handler[r].step = "none" /\ handler' = handler
        BY <2>3 DEF SessionDies, SessionWindsDown, NoHandler
      <4>2. /\ session[r] \in {"live", "stopping", "failing"}
            /\ session' = [session EXCEPT ![r] = "ended"]
        BY <2>3 DEF SessionDies, SessionWindsDown
      <4> QED BY <1>3, <4>1, <4>2 DEF AccountTypeOK
    <3> QED BY <1>2, <2>0, <3>1 DEF RunningIsUp, UpIsOpen, BrokenIsKept, ClosedIsGiven
  <2> QED BY <2>1, <2>2, <2>3
<1>15. HeldIsRemembered'
  <2>1. Remembered(r)' = Remembered(r)
    BY <1>2 DEF Remembered
  <2> QED BY <1>2, <1>3, <1>7, <1>12, <2>1, MemoryHolds
<1> QED BY <1>6, <1>11, <1>12, <1>13, <1>14, <1>15 DEF Concerns, RuntimeInv

(***************************************************************************)
(* Teardown steps: one field of a teardown, or two, is replaced.           *)
(***************************************************************************)
TeardownRecords ==
  [step : {"no", "stamp", "stop", "join", "give", "given"},
   claim : Nat, failed : BOOLEAN]

LEMMA TeardownTyped ==
  ASSUME AccountTypeOK, NEW r \in Holders, NEW t \in Teardowns
  PROVE  /\ teardown \in [Holders -> [Teardowns -> TeardownRecords]]
         /\ teardown[r] \in [Teardowns -> TeardownRecords]
         /\ teardown[r][t] \in TeardownRecords
         /\ teardown[r][t].claim \in Nat
         /\ teardown[r][t].step \in {"stamp", "give"}
              => teardown[r][t].claim # NoClaim
<1>1. teardown \in [Holders -> [Teardowns -> TeardownRecords]]
  BY DEF AccountTypeOK, TeardownRecords
<1>2. teardown[r] \in [Teardowns -> TeardownRecords]
  BY <1>1
<1>3. teardown[r][t] \in TeardownRecords
  BY <1>2
<1>4. teardown[r][t].claim \in Nat
  BY <1>3 DEF TeardownRecords
<1>5. teardown[r][t].step \in {"stamp", "give"} => teardown[r][t].claim # NoClaim
  BY DEF AccountTypeOK
<1> QED BY <1>1, <1>2, <1>3, <1>4, <1>5

LEMMA TeardownKept ==
  ASSUME AccountTypeOK, teardown' = teardown
  PROVE  /\ teardown' \in [Holders -> [Teardowns -> TeardownRecords]]
         /\ \A s \in Holders, u \in Teardowns :
              teardown'[s][u].step \in {"stamp", "give"}
                => teardown'[s][u].claim # NoClaim
<1>1. ASSUME NEW s \in Holders, NEW u \in Teardowns
      PROVE  teardown[s][u].step \in {"stamp", "give"}
               => teardown[s][u].claim # NoClaim
  BY TeardownTyped
<1>2. teardown \in [Holders -> [Teardowns -> TeardownRecords]]
  BY DEF AccountTypeOK, TeardownRecords
<1> QED BY <1>1, <1>2

LEMMA TeardownReplaced ==
  ASSUME AccountTypeOK, NEW r \in Holders, NEW t \in Teardowns,
         NEW d \in TeardownRecords,
         teardown' = [teardown EXCEPT ![r] = [teardown[r] EXCEPT ![t] = d]],
         d.step \in {"stamp", "give"} => d.claim # NoClaim
  PROVE  /\ teardown' \in [Holders -> [Teardowns -> TeardownRecords]]
         /\ \A s \in Holders, u \in Teardowns :
              teardown'[s][u].step \in {"stamp", "give"}
                => teardown'[s][u].claim # NoClaim
         /\ \A s \in Holders \ {r} : teardown'[s] = teardown[s]
         /\ teardown'[r][t] = d
         /\ \A u \in Teardowns \ {t} : teardown'[r][u] = teardown[r][u]
<1>1. teardown \in [Holders -> [Teardowns -> TeardownRecords]]
  BY TeardownTyped
<1>2. [teardown[r] EXCEPT ![t] = d] \in [Teardowns -> TeardownRecords]
  BY <1>1
<1>3. teardown' \in [Holders -> [Teardowns -> TeardownRecords]]
  BY <1>1, <1>2
<1>4. \A s \in Holders, u \in Teardowns :
        teardown'[s][u] = IF s = r /\ u = t THEN d ELSE teardown[s][u]
  BY <1>1, <1>2
<1>5. \A s \in Holders \ {r} : teardown'[s] = teardown[s]
  BY <1>1
<1>6. \A s \in Holders, u \in Teardowns :
        teardown'[s][u].step \in {"stamp", "give"}
          => teardown'[s][u].claim # NoClaim
  BY <1>4, TeardownTyped
<1> QED BY <1>3, <1>4, <1>5, <1>6

\* How a teardown under way advances, and what its Session becomes.
Advances(r, t, d) ==
  LET b == teardown[r][t] IN
  /\ teardown' = [teardown EXCEPT ![r] = [teardown[r] EXCEPT ![t] = d]]
  /\ d \in TeardownRecords
  /\ \/ b.step = "stamp" /\ d.step = "stop" /\ session' = session
     \/ b.step = "stop" /\ d.step = "join"
          /\ session' = [session EXCEPT ![r] =
               CASE @ = "open" -> "ended" [] @ = "live" -> "stopping" [] OTHER -> @]
     \/ b.step = "join" /\ d.step \in {"give", "given"}
          /\ session[r] = "ended" /\ session' = session /\ (broken[r] => d.failed)
     \/ b.step = "give" /\ d.step = "given"
          /\ session' = session /\ (b.failed => d.failed)
  /\ d.step = "give" => d.claim # NoClaim
  /\ d.step = "given" => d.claim = NoClaim
  /\ UNCHANGED <<lifeVars, leaseVars, open, subscribed, handler, failure,
                 frame, broken>>

LEMMA AdvanceConcerns ==
  ASSUME IInv, NEW r \in Holders, NEW t \in Teardowns, NEW d,
         Advances(r, t, d), BackendTypeOK', BackendMoves,
         InForce' => InForce /\ holder' = holder,
         abandoned \subseteq abandoned', abandoned' \subseteq Nat,
         InForce' /\ holder = teardown[r][t].claim
           => holder \in {d.claim} \cup abandoned'
  PROVE  Concerns(r)
<1>1. AccountTypeOK /\ RuntimeInv(r) /\ HeldIsRemembered
  BY DEF IInv
<1>2. UNCHANGED <<startup, ticket, ticketUntil, stopped, lease, leaseUntil,
                  heartbeat, renewal, open, subscribed, handler, failure,
                  frame, broken>>
  BY DEF Advances, lifeVars, leaseVars
<1>3. /\ d \in TeardownRecords
      /\ teardown' = [teardown EXCEPT ![r] = [teardown[r] EXCEPT ![t] = d]]
      /\ d.step \in {"stamp", "give"} => d.claim # NoClaim
  BY DEF Advances
<1>4. /\ teardown' \in [Holders -> [Teardowns -> TeardownRecords]]
      /\ \A s \in Holders, u \in Teardowns :
           teardown'[s][u].step \in {"stamp", "give"}
             => teardown'[s][u].claim # NoClaim
      /\ \A s \in Holders \ {r} : teardown'[s] = teardown[s]
      /\ teardown'[r][t] = d
      /\ \A u \in Teardowns \ {t} : teardown'[r][u] = teardown[r][u]
  BY <1>1, <1>3, TeardownReplaced
<1>5. /\ session \in [Holders ->
           {"none", "open", "live", "stopping", "failing", "ended"}]
      /\ session[r] \in {"none", "open", "live", "stopping", "failing", "ended"}
  BY <1>1 DEF AccountTypeOK
<1>6. \/ session' = session
      \/ session[r] = "open" /\ session' = [session EXCEPT ![r] = "ended"]
      \/ session[r] = "live" /\ session' = [session EXCEPT ![r] = "stopping"]
  BY <1>5 DEF Advances
<1>7. /\ session' \in [Holders ->
           {"none", "open", "live", "stopping", "failing", "ended"}]
      /\ \A s \in Holders \ {r} : session'[s] = session[s]
      /\ \/ session'[r] = session[r]
         \/ session[r] = "open" /\ session'[r] = "ended"
         \/ session[r] = "live" /\ session'[r] = "stopping"
  BY <1>5, <1>6
<1>8. teardown[r][t].step = "stop" => session'[r] # "open"
  BY <1>5, <1>3 DEF Advances
<1>9. AccountTypeOK'
  BY <1>1, <1>2, <1>4, <1>7 DEF AccountTypeOK, TeardownRecords
<1>10. \A s \in Holders \ {r} : Same(s)
  BY <1>2, <1>4, <1>7 DEF Same
<1>11. TokensAreIssued(r)' /\ RefusalStands(r)' /\ AnnouncedIsHeard(r)'
  <2>1. /\ lease[r] \in Nat /\ ticket[r] \in Nat /\ renewal[r].claim \in Nat
        /\ {issued, newestClaim, issued', newestClaim'} \subseteq Nat
    BY <1>1 DEF AccountTypeOK, BackendTypeOK
  <2> QED BY <1>1, <1>2, <2>1 DEF RuntimeInv, BackendMoves, TokensAreIssued,
             RefusalStands, AnnouncedIsHeard
<1>12. /\ teardown[r][t].step \in {"stamp", "stop", "join", "give"}
       /\ d.step \in {"stop", "join", "give", "given"}
  BY DEF Advances
<1>13. {"halt", "startup"} = Teardowns
  BY DEF Teardowns
<1>14. LeasedWhileStarted(r)' /\ UndoingIsTornDown(r)' /\ HaltedHasNothing(r)'
  BY <1>1, <1>2, <1>4, <1>12, <1>13 DEF RuntimeInv, LeasedWhileStarted,
     UndoingIsTornDown, HaltedHasNothing
<1>15. GivenIsNothing(r)'
  BY <1>1, <1>4, <1>12 DEF RuntimeInv, GivenIsNothing, Advances
<1>16. ClosedIsGiven(r)'
  BY <1>1, <1>2, <1>4, <1>12, <1>13 DEF RuntimeInv, ClosedIsGiven
<1>17. RunningIsUp(r)'
  <2>1. session'[r] = "open" => session[r] = "open"
    BY <1>7
  <2>2. session'[r] = "open" => teardown'[r]["startup"].step \in {"stamp", "stop"}
    <3>1. CASE t = "startup"
      BY <1>1, <1>4, <1>8, <2>1, <3>1 DEF RuntimeInv, RunningIsUp, Advances
    <3>2. CASE t # "startup"
      BY <1>1, <1>4, <1>13, <2>1, <3>2 DEF RuntimeInv, RunningIsUp
    <3> QED BY <3>1, <3>2
  <2> QED BY <1>1, <1>2, <1>7, <2>2 DEF RuntimeInv, RunningIsUp
<1>18. UpIsOpen(r)'
  <2>1. session[r] = "ended" => session'[r] = "ended"
    BY <1>7
  <2>2. CASE t = "halt"
    BY <1>1, <1>2, <1>4, <1>12, <2>1, <2>2 DEF RuntimeInv, UpIsOpen, Advances
  <2>3. CASE t # "halt"
    BY <1>1, <1>2, <1>4, <1>13, <2>1, <2>3 DEF RuntimeInv, UpIsOpen
  <2> QED BY <2>2, <2>3
<1>19. BrokenIsKept(r)'
  <2>1. session[r] = "ended" => session'[r] = "ended"
    BY <1>7
  <2>2. CASE t = "halt"
    BY <1>1, <1>2, <1>4, <1>12, <2>1, <2>2 DEF RuntimeInv, BrokenIsKept, Advances
  <2>3. CASE t # "halt"
    BY <1>1, <1>2, <1>4, <1>13, <2>1, <2>3 DEF RuntimeInv, BrokenIsKept
  <2> QED BY <2>2, <2>3
<1>20. HeldIsRemembered'
  <2>1. ASSUME InForce', holder \in Remembered(r)
        PROVE  holder \in abandoned' \cup Remembered(r)'
    <3>1. CASE holder = teardown[r][t].claim
      BY <1>4, <2>1, <3>1 DEF Remembered
    <3>2. CASE holder # teardown[r][t].claim
      <4>1. \A u \in Teardowns :
              holder = teardown[r][u].claim => holder = teardown'[r][u].claim
        BY <1>4, <3>2
      <4> QED BY <1>2, <2>1, <4>1 DEF Remembered
    <3> QED BY <3>1, <3>2
  <2> QED BY <1>1, <1>10, <2>1, MemoryHolds
<1> QED
  BY <1>9, <1>10, <1>11, <1>14, <1>15, <1>16, <1>17, <1>18, <1>19, <1>20
     DEF Concerns, RuntimeInv

LEMMA TeardownStepsConcern ==
  ASSUME IInv, NEW r \in Holders, NEW t \in Teardowns, TeardownStep(r, t)
  PROVE  Concerns(r)
<1> DEFINE b == teardown[r][t]
<1>1. AccountTypeOK /\ BackendTypeOK
  BY DEF IInv, AccountTypeOK
<1>2. /\ teardown \in [Holders -> [Teardowns -> TeardownRecords]]
      /\ teardown[r] \in [Teardowns -> TeardownRecords]
      /\ b \in TeardownRecords /\ b.claim \in Nat
      /\ b.step \in {"stamp", "give"} => b.claim # NoClaim
  BY <1>1, TeardownTyped
<1>3. b.failed \in BOOLEAN
  BY <1>2 DEF TeardownRecords
<1>4. abandoned \subseteq Nat
  BY <1>1 DEF AccountTypeOK
<1>5. UNCHANGED <<lifeVars, leaseVars, open, subscribed, handler, failure,
                  frame, broken>>
  BY DEF TeardownStep, Stamp, StopSession, Join, Give, TeardownOnly
<1>6. \/ UNCHANGED backendVars \/ DataAccept(b.claim) \/ LeaseRelease(b.claim)
  BY DEF TeardownStep, Stamp, StopSession, Join, Give
<1>7. BackendTypeOK' /\ BackendMoves
  BY <1>1, <1>2, <1>6, BackendEffect
<1>8. InForce' => InForce /\ holder' = holder
  BY <1>6 DEF backendVars, DataAccept, LeaseRelease, InForce, NoClaim
<1>9. CASE Stamp(r, t)
  <2>1. PICK f \in BOOLEAN :
          teardown' = [teardown EXCEPT ![r] = [teardown[r] EXCEPT ![t] =
            [b EXCEPT !.step = "stop", !.failed = f]]]
    <3>1. CASE teardown' = [teardown EXCEPT ![r][t].step = "stop"]
      <4>1. teardown' = [teardown EXCEPT ![r] = [teardown[r] EXCEPT ![t] =
              [b EXCEPT !.step = "stop"]]]
        BY <3>1
      <4>2. [b EXCEPT !.step = "stop"]
              = [b EXCEPT !.step = "stop", !.failed = b.failed]
        BY <1>2 DEF TeardownRecords
      <4> QED BY <1>3, <4>1, <4>2
    <3>2. CASE teardown' = [teardown EXCEPT ![r][t].step = "stop",
                                            ![r][t].failed = TRUE]
      <4>1. teardown' = [teardown EXCEPT ![r] = [teardown[r] EXCEPT ![t] =
              [b EXCEPT !.step = "stop", !.failed = TRUE]]]
        BY <1>2, <3>2 DEF TeardownRecords
      <4> QED BY <4>1
    <3> QED BY <1>9, <3>1, <3>2 DEF Stamp
  <2> DEFINE d == [b EXCEPT !.step = "stop", !.failed = f]
  <2>2. d \in TeardownRecords /\ d.step = "stop" /\ d.claim = b.claim
    BY <1>2 DEF TeardownRecords
  <2>3. Advances(r, t, d)
    BY <1>5, <1>9, <2>1, <2>2 DEF Stamp, Advances
  <2>4. abandoned' = abandoned
    BY <1>9 DEF Stamp
  <2> QED BY <1>4, <1>7, <1>8, <2>2, <2>3, <2>4, AdvanceConcerns
<1>10. CASE StopSession(r, t)
  <2> DEFINE d == [b EXCEPT !.step = "join"]
  <2>1. d \in TeardownRecords /\ d.step = "join" /\ d.claim = b.claim
    BY <1>2 DEF TeardownRecords
  <2>2. teardown' = [teardown EXCEPT ![r] = [teardown[r] EXCEPT ![t] = d]]
    BY <1>10 DEF StopSession
  <2>3. Advances(r, t, d)
    BY <1>5, <1>10, <2>1, <2>2 DEF StopSession, Advances
  <2>4. abandoned' = abandoned
    BY <1>10 DEF StopSession
  <2> QED BY <1>4, <1>7, <1>8, <2>1, <2>3, <2>4, AdvanceConcerns
<1>11. CASE Join(r, t)
  <2> DEFINE d == [b EXCEPT !.step = Giving(b.claim), !.failed = @ \/ broken[r]]
  <2>0. broken[r] \in BOOLEAN
    BY <1>1 DEF AccountTypeOK
  <2>1. /\ d \in TeardownRecords /\ d.claim = b.claim
        /\ d.step = Giving(b.claim) /\ d.failed = (b.failed \/ broken[r])
    BY <1>2, <1>3, <2>0 DEF TeardownRecords, Giving
  <2>2. teardown' = [teardown EXCEPT ![r] = [teardown[r] EXCEPT ![t] = d]]
    BY <1>2, <1>11 DEF Join, TeardownRecords
  <2>3. Advances(r, t, d)
    <3>1. broken[r] => d.failed
      BY <2>1
    <3>2. /\ d.step \in {"give", "given"}
          /\ d.step = "give" => d.claim # NoClaim
          /\ d.step = "given" => d.claim = NoClaim
      BY <2>1 DEF Giving
    <3>3. b.step = "join" /\ session[r] = "ended" /\ session' = session
      BY <1>11 DEF Join
    <3> HIDE DEF d
    <3> QED BY <1>5, <2>1, <2>2, <3>1, <3>2, <3>3 DEF Advances
  <2>4. abandoned' = abandoned
    BY <1>11 DEF Join
  <2> QED BY <1>4, <1>7, <1>8, <2>1, <2>3, <2>4, AdvanceConcerns
<1>12. CASE Give(r, t)
  <2>1. PICK f \in BOOLEAN :
          /\ teardown' = [teardown EXCEPT ![r] = [teardown[r] EXCEPT ![t] =
               [b EXCEPT !.step = "given", !.claim = NoClaim, !.failed = f]]]
          /\ b.failed => f
    <3>1. CASE teardown' = [teardown EXCEPT ![r][t].step = "given",
                                            ![r][t].claim = NoClaim]
      <4>1. teardown' = [teardown EXCEPT ![r] = [teardown[r] EXCEPT ![t] =
              [b EXCEPT !.step = "given", !.claim = NoClaim]]]
        BY <1>2, <3>1 DEF TeardownRecords
      <4>2. [b EXCEPT !.step = "given", !.claim = NoClaim] =
            [b EXCEPT !.step = "given", !.claim = NoClaim, !.failed = b.failed]
        BY <1>2 DEF TeardownRecords
      <4> QED BY <1>3, <4>1, <4>2
    <3>2. CASE teardown' = [teardown EXCEPT ![r][t].step = "given",
                                            ![r][t].claim = NoClaim,
                                            ![r][t].failed = TRUE]
      <4>1. teardown' = [teardown EXCEPT ![r] = [teardown[r] EXCEPT ![t] =
              [b EXCEPT !.step = "given", !.claim = NoClaim, !.failed = TRUE]]]
        BY <1>2, <3>2 DEF TeardownRecords
      <4> QED BY <4>1
    <3> QED BY <1>12, <3>1, <3>2 DEF Give
  <2> DEFINE d == [b EXCEPT !.step = "given", !.claim = NoClaim, !.failed = f]
  <2>2. /\ d \in TeardownRecords
        /\ d.step = "given" /\ d.claim = NoClaim /\ d.failed = f
    BY <1>2 DEF TeardownRecords, NoClaim
  <2>3. Advances(r, t, d)
    BY <1>5, <1>12, <2>1, <2>2 DEF Give, Advances
  <2>4. InForce' /\ holder = b.claim => holder \in abandoned'
    BY <1>12 DEF Give, LeaseRelease, InForce
  <2>5. abandoned \subseteq abandoned' /\ abandoned' \subseteq Nat
    BY <1>2, <1>4, <1>12 DEF Give
  <2> QED BY <1>7, <1>8, <2>3, <2>4, <2>5, AdvanceConcerns
<1> QED BY <1>9, <1>10, <1>11, <1>12 DEF TeardownStep

(***************************************************************************)
(* release(): what a teardown takes when it begins.                        *)
(***************************************************************************)
Begins(d, claim) ==
  /\ d \in TeardownRecords /\ d.claim = claim
  /\ d.step \in {"stamp", "stop", "give", "given"}
  /\ d.step \in {"stamp", "give"} => claim # NoClaim
  /\ d.step = "given" => claim = NoClaim

LEMMA TakeDownEffect ==
  ASSUME AccountTypeOK, NEW r \in Holders, NEW t \in Teardowns,
         NEW claim \in Nat, NEW opened,
         TakeDown(r, t, claim, opened)
  PROVE  /\ \E d : /\ Begins(d, claim)
                   /\ opened => d.step \in {"stamp", "stop"}
                   /\ teardown' = [teardown EXCEPT ![r] =
                                     [teardown[r] EXCEPT ![t] = d]]
         /\ lease' \in [Holders -> Nat] /\ leaseUntil' \in [Holders -> Nat]
         /\ heartbeat' \in [Holders -> BOOLEAN]
         /\ open' \in [Holders -> BOOLEAN]
         /\ subscribed' \in [Holders -> BOOLEAN]
         /\ lease'[r] = NoClaim
         /\ ~heartbeat'[r] /\ ~open'[r] /\ ~subscribed'[r]
         /\ \A s \in Holders \ {r} :
              /\ lease'[s] = lease[s] /\ heartbeat'[s] = heartbeat[s]
              /\ open'[s] = open[s] /\ subscribed'[s] = subscribed[s]
<1>1. /\ lease \in [Holders -> Nat] /\ leaseUntil \in [Holders -> Nat]
      /\ heartbeat \in [Holders -> BOOLEAN] /\ open \in [Holders -> BOOLEAN]
      /\ subscribed \in [Holders -> BOOLEAN]
  BY DEF AccountTypeOK
<1>2. /\ lease' = [lease EXCEPT ![r] = NoClaim]
      /\ leaseUntil' = [leaseUntil EXCEPT ![r] = 0]
      /\ heartbeat' = [heartbeat EXCEPT ![r] = FALSE]
      /\ open' = [open EXCEPT ![r] = FALSE]
      /\ subscribed' = [subscribed EXCEPT ![r] = FALSE]
  BY DEF TakeDown
<1>3. /\ lease' \in [Holders -> Nat] /\ leaseUntil' \in [Holders -> Nat]
      /\ lease'[r] = NoClaim
      /\ \A s \in Holders \ {r} : lease'[s] = lease[s]
  BY <1>1, <1>2 DEF NoClaim
<1>4. /\ heartbeat' \in [Holders -> BOOLEAN] /\ ~heartbeat'[r]
      /\ \A s \in Holders \ {r} : heartbeat'[s] = heartbeat[s]
  BY <1>1, <1>2
<1>5. /\ open' \in [Holders -> BOOLEAN] /\ ~open'[r]
      /\ \A s \in Holders \ {r} : open'[s] = open[s]
  BY <1>1, <1>2
<1>6. /\ subscribed' \in [Holders -> BOOLEAN] /\ ~subscribed'[r]
      /\ \A s \in Holders \ {r} : subscribed'[s] = subscribed[s]
  BY <1>1, <1>2
<1> DEFINE stamps == subscribed[r] /\ claim # NoClaim
           step == IF stamps /\ leaseUntil[r] > now THEN "stamp"
                   ELSE IF opened THEN "stop" ELSE Giving(claim)
           late == stamps /\ leaseUntil[r] <= now
           d == [step |-> step, claim |-> claim, failed |-> late]
<1>7. teardown' = [teardown EXCEPT ![r] = [teardown[r] EXCEPT ![t] = d]]
  BY DEF TakeDown
<1>8. Begins(d, claim) /\ (opened => d.step \in {"stamp", "stop"})
  <2>1. /\ step \in {"stamp", "stop", "give", "given"}
        /\ opened => step \in {"stamp", "stop"}
        /\ step \in {"stamp", "give"} => claim # NoClaim
        /\ step = "given" => claim = NoClaim
    BY DEF Giving
  <2>2. late \in BOOLEAN
    OBVIOUS
  <2> HIDE DEF step, late
  <2> QED BY <2>1, <2>2 DEF Begins, TeardownRecords
<1> HIDE DEF d
<1> QED BY <1>3, <1>4, <1>5, <1>6, <1>7, <1>8

(***************************************************************************)
(* halt(): with the lease of the runtime, or with none when that is lost.  *)
(***************************************************************************)
LEMMA HaltConcerns ==
  ASSUME IInv, NEW r \in Holders, NEW claim \in Nat, HaltRuntime(r, claim),
         claim = lease[r] \/ ~(InForce /\ holder = lease[r]),
         UNCHANGED <<backendVars, startup, ticket, ticketUntil, session,
                     broken, handler, frame, abandoned>>,
         \/ renewal' = renewal
         \/ renewal' = [renewal EXCEPT ![r] = NoRenewal],
         failure' \in [Holders -> BOOLEAN]
  PROVE  Concerns(r)
<1>1. AccountTypeOK /\ RuntimeInv(r) /\ HeldIsRemembered /\ BackendTypeOK
  BY DEF IInv, AccountTypeOK
<1>2. BackendTypeOK' /\ BackendMoves /\ holder' = holder /\ InForce' = InForce
  <2>1. BackendTypeOK' /\ BackendMoves
    BY <1>1, BackendEffect
  <2> QED BY <2>1 DEF backendVars, InForce
<1>3. /\ renewal' \in [Holders ->
           [step : {"none", "asked", "answered", "refused", "failed"},
            claim : Nat, until : Nat]]
      /\ \/ renewal'[r] = renewal[r]
         \/ renewal'[r].step = "none" /\ renewal'[r].claim = NoClaim
      /\ \A s \in Holders \ {r} : renewal'[s] = renewal[s]
  <2>1. /\ renewal \in [Holders ->
             [step : {"none", "asked", "answered", "refused", "failed"},
              claim : Nat, until : Nat]]
        /\ NoRenewal \in
             [step : {"none", "asked", "answered", "refused", "failed"},
              claim : Nat, until : Nat]
        /\ NoRenewal.step = "none" /\ NoRenewal.claim = NoClaim
    <3>1. renewal \in [Holders ->
             [step : {"none", "asked", "answered", "refused", "failed"},
              claim : Nat, until : Nat]]
      BY <1>1 DEF AccountTypeOK
    <3> QED BY <3>1 DEF NoRenewal, NoClaim
  <2>2. CASE renewal' = renewal
    BY <2>1, <2>2
  <2>3. CASE renewal' = [renewal EXCEPT ![r] = NoRenewal]
    BY <2>1, <2>3
  <2> QED BY <2>2, <2>3
<1>4. /\ stopped' \in [Holders -> BOOLEAN] /\ stopped'[r]
      /\ \A s \in Holders \ {r} : stopped'[s] = stopped[s]
  <2>1. stopped' = [stopped EXCEPT ![r] = TRUE] /\ stopped \in [Holders -> BOOLEAN]
    BY <1>1 DEF AccountTypeOK, HaltRuntime
  <2> QED BY <2>1
<1>5. /\ {issued, issued', newestClaim, newestClaim'} \subseteq Nat
      /\ lease[r] \in Nat /\ ticket[r] \in Nat /\ renewal[r].claim \in Nat
      /\ startup' = startup /\ ticket' = ticket
      /\ lease'[r] \in {lease[r], NoClaim}
  <2>1. lease' = lease \/ lease' = [lease EXCEPT ![r] = NoClaim]
    BY DEF HaltRuntime, TakeDown
  <2> QED BY <1>1, <1>2, <2>1 DEF AccountTypeOK, BackendTypeOK
<1>6. TokensAreIssued(r)' /\ RefusalStands(r)' /\ AnnouncedIsHeard(r)'
  BY <1>1, <1>2, <1>3, <1>5 DEF RuntimeInv, BackendMoves, TokensAreIssued,
     RefusalStands, AnnouncedIsHeard, NoClaim
<1>7. "halt" \in Teardowns /\ Teardowns = {"halt", "startup"}
  BY DEF Teardowns
<1>8. CASE teardown[r]["halt"].step = "no"
  <2>1. TakeDown(r, "halt", claim, open[r]) /\ open[r] \in BOOLEAN
    BY <1>1, <1>8 DEF HaltRuntime, AccountTypeOK
  <2>2. PICK d : /\ Begins(d, claim)
                 /\ open[r] => d.step \in {"stamp", "stop"}
                 /\ teardown' = [teardown EXCEPT ![r] =
                                   [teardown[r] EXCEPT !["halt"] = d]]
    BY <1>1, <1>7, <2>1, TakeDownEffect
  <2>3. /\ lease' \in [Holders -> Nat] /\ leaseUntil' \in [Holders -> Nat]
        /\ heartbeat' \in [Holders -> BOOLEAN]
        /\ open' \in [Holders -> BOOLEAN]
        /\ subscribed' \in [Holders -> BOOLEAN]
        /\ lease'[r] = NoClaim
        /\ ~heartbeat'[r] /\ ~open'[r] /\ ~subscribed'[r]
        /\ \A s \in Holders \ {r} :
             /\ lease'[s] = lease[s] /\ heartbeat'[s] = heartbeat[s]
             /\ open'[s] = open[s] /\ subscribed'[s] = subscribed[s]
    BY <1>1, <1>7, <2>1, TakeDownEffect
  <2>4. d \in TeardownRecords /\ (d.step \in {"stamp", "give"} => d.claim # NoClaim)
    BY <2>2 DEF Begins
  <2>5. /\ teardown' \in [Holders -> [Teardowns -> TeardownRecords]]
        /\ \A s \in Holders, u \in Teardowns :
             teardown'[s][u].step \in {"stamp", "give"}
               => teardown'[s][u].claim # NoClaim
        /\ \A s \in Holders \ {r} : teardown'[s] = teardown[s]
        /\ teardown'[r]["halt"] = d
        /\ teardown'[r]["startup"] = teardown[r]["startup"]
    <3>1. teardown' = [teardown EXCEPT ![r] = [teardown[r] EXCEPT !["halt"] = d]]
      BY <2>2
    <3>2. /\ teardown' \in [Holders -> [Teardowns -> TeardownRecords]]
          /\ \A s \in Holders, u \in Teardowns :
               teardown'[s][u].step \in {"stamp", "give"}
                 => teardown'[s][u].claim # NoClaim
          /\ \A s \in Holders \ {r} : teardown'[s] = teardown[s]
          /\ teardown'[r]["halt"] = d
          /\ \A u \in Teardowns \ {"halt"} : teardown'[r][u] = teardown[r][u]
      BY <1>1, <1>7, <2>4, <3>1, TeardownReplaced
    <3> QED BY <1>7, <3>2
  <2>6. AccountTypeOK'
    BY <1>1, <1>2, <1>3, <1>4, <2>3, <2>5 DEF AccountTypeOK, TeardownRecords
  <2>7. \A s \in Holders \ {r} : Same(s)
    BY <1>3, <1>4, <2>3, <2>5 DEF Same
  <2>8. /\ LeasedWhileStarted(r)' /\ UndoingIsTornDown(r)' /\ GivenIsNothing(r)'
        /\ HaltedHasNothing(r)' /\ ClosedIsGiven(r)' /\ RunningIsUp(r)'
    BY <1>1, <1>4, <1>7, <1>8, <2>2, <2>3, <2>5
       DEF RuntimeInv, Begins, LeasedWhileStarted, UndoingIsTornDown,
           GivenIsNothing, HaltedHasNothing, ClosedIsGiven, RunningIsUp
  <2>9. UpIsOpen(r)' /\ BrokenIsKept(r)'
    BY <1>1, <1>8, <2>2, <2>5 DEF RuntimeInv, Begins, UpIsOpen, BrokenIsKept
  <2>10. HeldIsRemembered'
    <3>1. teardown[r]["halt"].claim = NoClaim
      BY <1>1, <1>7, <1>8 DEF RuntimeInv, GivenIsNothing
    <3>2. ASSUME InForce, holder \in Remembered(r)
          PROVE  holder \in Remembered(r)'
      <4>1. holder # NoClaim
        BY <3>2 DEF InForce
      <4>2. \/ holder = lease[r] \/ holder = teardown[r]["startup"].claim
            \/ startup[r] = "acquired" /\ holder = ticket[r]
        BY <1>7, <3>1, <3>2, <4>1 DEF Remembered
      <4> QED BY <1>5, <1>7, <2>2, <2>5, <3>2, <4>2 DEF Remembered, Begins
    <3> QED BY <1>1, <1>2, <2>7, <3>2, MemoryHolds
  <2> QED BY <1>2, <1>6, <2>6, <2>7, <2>8, <2>9, <2>10 DEF Concerns, RuntimeInv
<1>9. CASE teardown[r]["halt"].step # "no"
  <2>1. UNCHANGED <<lease, leaseUntil, heartbeat, open, subscribed, teardown>>
    BY <1>9 DEF HaltRuntime
  <2>2. AccountTypeOK'
    BY <1>1, <1>2, <1>3, <1>4, <2>1, TeardownKept DEF AccountTypeOK, TeardownRecords
  <2>3. \A s \in Holders \ {r} : Same(s)
    BY <1>3, <1>4, <2>1 DEF Same
  <2>4. /\ LeasedWhileStarted(r)' /\ UndoingIsTornDown(r)' /\ GivenIsNothing(r)'
        /\ HaltedHasNothing(r)' /\ ClosedIsGiven(r)' /\ RunningIsUp(r)'
        /\ UpIsOpen(r)' /\ BrokenIsKept(r)'
    BY <1>1, <1>4, <2>1
       DEF RuntimeInv, LeasedWhileStarted, UndoingIsTornDown, GivenIsNothing,
           HaltedHasNothing, ClosedIsGiven, RunningIsUp, UpIsOpen, BrokenIsKept
  <2>5. Remembered(r)' = Remembered(r)
    BY <2>1 DEF Remembered
  <2>6. HeldIsRemembered'
    BY <1>1, <1>2, <2>3, <2>5, MemoryHolds
  <2> QED BY <1>2, <1>6, <2>2, <2>3, <2>4, <2>6 DEF Concerns, RuntimeInv
<1> QED BY <1>8, <1>9

LEMMA HaltStepsConcern ==
  ASSUME IInv, NEW r \in Holders,
         \/ SessionEnded(r) \/ Stop(r) \/ ExecutorFails(r) \/ RenewalFailed(r)
         \/ RenewalLost(r) /\ ~Stale(r)
  PROVE  Concerns(r)
<1>1. /\ lease[r] \in Nat /\ NoClaim \in Nat
      /\ failure \in [Holders -> BOOLEAN]
  BY DEF IInv, AccountTypeOK, NoClaim
<1>2. failure' \in [Holders -> BOOLEAN]
  <2>1. failure' = failure \/ failure' = [failure EXCEPT ![r] = TRUE]
    BY DEF SessionEnded, Stop, ExecutorFails, RenewalFailed, RenewalLost
  <2> QED BY <1>1, <2>1
<1>3. /\ UNCHANGED <<backendVars, startup, ticket, ticketUntil, session,
                     broken, handler, frame, abandoned>>
      /\ renewal' = renewal \/ renewal' = [renewal EXCEPT ![r] = NoRenewal]
  BY DEF SessionEnded, Stop, ExecutorFails, RenewalFailed, RenewalLost,
         RenewalOnly
<1>4. CASE RenewalLost(r) /\ ~Stale(r)
  <2>1. HaltRuntime(r, NoClaim) /\ renewal[r].step = "refused"
    BY <1>4 DEF RenewalLost
  <2>2. lease[r] = renewal[r].claim
    BY <1>4 DEF Stale
  <2>3. ~(InForce /\ holder = lease[r])
    BY <2>1, <2>2 DEF IInv, RuntimeInv, RefusalStands
  <2> QED BY <1>1, <1>2, <1>3, <2>1, <2>3, HaltConcerns
<1>5. CASE \/ SessionEnded(r) \/ Stop(r) \/ ExecutorFails(r) \/ RenewalFailed(r)
  <2>1. HaltRuntime(r, lease[r])
    BY <1>5 DEF SessionEnded, Stop, ExecutorFails, RenewalFailed
  <2> QED BY <1>1, <1>2, <1>3, <2>1, HaltConcerns
<1> QED BY <1>4, <1>5

(***************************************************************************)
(* The heartbeat, as long as it stops nothing.                             *)
(***************************************************************************)
LEMMA RenewalStepsConcern ==
  ASSUME IInv, NEW r \in Holders,
         \/ Beat(r) \/ Renew(r) \/ Renewed(r)
         \/ RenewalLost(r) /\ Stale(r)
  PROVE  Concerns(r)
<1> DEFINE Renewals ==
      [step : {"none", "asked", "answered", "refused", "failed"},
       claim : Nat, until : Nat]
<1>1. AccountTypeOK /\ RuntimeInv(r) /\ HeldIsRemembered /\ BackendTypeOK
  BY DEF IInv, AccountTypeOK
<1>2. UNCHANGED <<startup, ticket, ticketUntil, session, broken, handler,
                  frame, abandoned, stopped, lease, heartbeat, open,
                  subscribed, teardown, failure>>
  BY DEF Beat, Renew, Renewed, RenewalLost, RenewalOnly
<1>3. /\ renewal \in [Holders -> Renewals] /\ renewal[r] \in Renewals
      /\ renewal[r].claim \in Nat /\ renewal[r].until \in Nat
      /\ lease[r] \in Nat /\ leaseUntil \in [Holders -> Nat]
      /\ NoRenewal \in Renewals
      /\ NoRenewal.step = "none" /\ NoRenewal.claim = NoClaim
      /\ NoRenewal.until = 0
  <2>1. /\ renewal \in [Holders -> Renewals]
        /\ lease[r] \in Nat /\ leaseUntil \in [Holders -> Nat]
    BY <1>1 DEF AccountTypeOK
  <2> QED BY <2>1 DEF NoRenewal, NoClaim
<1>4. \/ UNCHANGED backendVars
      \/ LeaseRenew(renewal[r].claim) /\ renewal[r].step = "asked"
  BY DEF Beat, Renew, Renewed, RenewalLost, LeaseRenewRefused
<1>5. /\ BackendTypeOK' /\ BackendMoves /\ holder' = holder
      /\ InForce' => InForce
      /\ heldUntil' \in Nat
  <2>1. BackendTypeOK' /\ BackendMoves
    BY <1>1, <1>3, <1>4, BackendEffect
  <2>2. holder' = holder /\ (InForce' => InForce)
    BY <1>4 DEF backendVars, LeaseRenew, Renewable, InForce
  <2> QED BY <2>1, <2>2 DEF BackendTypeOK
<1>6. PICK n \in Renewals :
        /\ renewal' = [renewal EXCEPT ![r] = n]
        /\ n.claim \in {NoClaim, lease[r], renewal[r].claim}
        /\ n.step = "refused" =>
             /\ n.claim = renewal[r].claim
             /\ ~Renewable(n.claim) /\ UNCHANGED backendVars
  <2>1. CASE Beat(r)
    <3> DEFINE n == [NoRenewal EXCEPT !.step = "asked", !.claim = lease[r]]
    <3>1. n \in Renewals /\ n.step = "asked" /\ n.claim = lease[r]
      BY <1>3
    <3>2. renewal' = [renewal EXCEPT ![r] = n]
      BY <2>1 DEF Beat
    <3> HIDE DEF n
    <3> QED BY <3>1, <3>2
  <2>2. CASE Renewed(r) \/ RenewalLost(r)
    <3>1. renewal' = [renewal EXCEPT ![r] = NoRenewal]
      BY <2>2 DEF Renewed, RenewalLost
    <3> QED BY <1>3, <3>1
  <2>3. CASE Renew(r)
    <3>1. CASE /\ renewal' = [renewal EXCEPT ![r].step = "answered",
                                             ![r].until = heldUntil']
      <4> DEFINE n == [renewal[r] EXCEPT !.step = "answered", !.until = heldUntil']
      <4>1. n \in Renewals /\ n.step = "answered" /\ n.claim = renewal[r].claim
        BY <1>3, <1>5
      <4>2. renewal' = [renewal EXCEPT ![r] = n]
        BY <1>3, <3>1
      <4> HIDE DEF n
      <4> QED BY <4>1, <4>2
    <3>2. CASE /\ renewal' = [renewal EXCEPT ![r].step = "refused"]
               /\ LeaseRenewRefused(renewal[r].claim)
      <4> DEFINE n == [renewal[r] EXCEPT !.step = "refused"]
      <4>1. n \in Renewals /\ n.step = "refused" /\ n.claim = renewal[r].claim
        BY <1>3
      <4>2. renewal' = [renewal EXCEPT ![r] = n]
        BY <1>3, <3>2
      <4> HIDE DEF n
      <4> QED BY <3>2, <4>1, <4>2 DEF LeaseRenewRefused
    <3>3. CASE renewal' = [renewal EXCEPT ![r].step = "failed", ![r].until = 0]
      <4> DEFINE n == [renewal[r] EXCEPT !.step = "failed", !.until = 0]
      <4>1. n \in Renewals /\ n.step = "failed" /\ n.claim = renewal[r].claim
        BY <1>3
      <4>2. renewal' = [renewal EXCEPT ![r] = n]
        BY <1>3, <3>3
      <4> HIDE DEF n
      <4> QED BY <4>1, <4>2
    <3> QED BY <2>3, <3>1, <3>2, <3>3 DEF Renew
  <2> QED BY <2>1, <2>2, <2>3
<1>7. /\ renewal' \in [Holders -> Renewals] /\ renewal'[r] = n
      /\ \A s \in Holders \ {r} : renewal'[s] = renewal[s]
  BY <1>3, <1>6
<1>8. leaseUntil' \in [Holders -> Nat]
  <2>1. \/ leaseUntil' = leaseUntil
        \/ leaseUntil' = [leaseUntil EXCEPT ![r] =
                            IF Stale(r) THEN @ ELSE renewal[r].until]
    BY DEF Beat, Renew, Renewed, RenewalLost
  <2> QED BY <1>3, <2>1
<1>9. AccountTypeOK'
  BY <1>1, <1>2, <1>5, <1>7, <1>8, TeardownKept DEF AccountTypeOK, TeardownRecords
<1>10. \A s \in Holders \ {r} : Same(s)
  BY <1>2, <1>7 DEF Same
<1>11. TokensAreIssued(r)' /\ AnnouncedIsHeard(r)'
  <2>1. /\ ticket[r] \in Nat
        /\ {issued, newestClaim, issued', newestClaim'} \subseteq Nat
    BY <1>1, <1>5 DEF AccountTypeOK, BackendTypeOK
  <2> QED BY <1>1, <1>2, <1>3, <1>5, <1>6, <1>7, <2>1
             DEF RuntimeInv, BackendMoves, TokensAreIssued, AnnouncedIsHeard,
                 NoClaim
<1>12. RefusalStands(r)'
  <2>1. ~Renewable(n.claim) /\ UNCHANGED backendVars
          => ~(InForce' /\ holder' = n.claim)
    BY DEF Renewable, InForce, backendVars
  <2> QED BY <1>6, <1>7, <2>1 DEF RefusalStands
<1>13. /\ LeasedWhileStarted(r)' /\ UndoingIsTornDown(r)' /\ GivenIsNothing(r)'
       /\ HaltedHasNothing(r)' /\ ClosedIsGiven(r)' /\ RunningIsUp(r)'
       /\ UpIsOpen(r)' /\ BrokenIsKept(r)'
  BY <1>1, <1>2 DEF RuntimeInv, LeasedWhileStarted, UndoingIsTornDown,
     GivenIsNothing, HaltedHasNothing, ClosedIsGiven, RunningIsUp, UpIsOpen,
     BrokenIsKept
<1>14. HeldIsRemembered'
  <2>1. Remembered(r)' = Remembered(r)
    BY <1>2 DEF Remembered
  <2> QED BY <1>1, <1>2, <1>5, <1>10, <2>1, MemoryHolds
<1> QED
  BY <1>5, <1>9, <1>10, <1>11, <1>12, <1>13, <1>14 DEF Concerns, RuntimeInv

(***************************************************************************)
(* The ends of teardowns.                                                  *)
(***************************************************************************)
LEMMA EndsConcern ==
  ASSUME IInv, NEW r \in Holders, Undone(r) \/ Close(r) \/ Report(r)
  PROVE  Concerns(r)
<1>1. AccountTypeOK /\ RuntimeInv(r) /\ HeldIsRemembered /\ BackendTypeOK
  BY DEF IInv, AccountTypeOK
<1>2. UNCHANGED <<backendVars, ticket, ticketUntil, stopped, leaseVars,
                  sessionVars, abandoned>>
  BY DEF Undone, Close, Report, lifeVars
<1>3. UNCHANGED <<lease, leaseUntil, heartbeat, renewal, open, subscribed,
                  session, broken, handler>>
  BY <1>2 DEF leaseVars, sessionVars
<1>4. BackendTypeOK' /\ BackendMoves /\ holder' = holder /\ InForce' = InForce
  <2>1. BackendTypeOK' /\ BackendMoves
    BY <1>1, <1>2, BackendEffect
  <2> QED BY <1>2, <2>1 DEF backendVars, InForce
<1>5. TokensAreIssued(r)' /\ RefusalStands(r)'
  <2>1. /\ lease[r] \in Nat /\ ticket[r] \in Nat /\ renewal[r].claim \in Nat
        /\ {issued, issued'} \subseteq Nat
    BY <1>1, <1>4 DEF AccountTypeOK, BackendTypeOK
  <2> QED BY <1>1, <1>2, <1>3, <1>4, <2>1
             DEF RuntimeInv, BackendMoves, TokensAreIssued, RefusalStands
<1>6. failure \in [Holders -> BOOLEAN] /\ frame[r] \in {"none", "closed", "closed with error"}
  BY <1>1 DEF AccountTypeOK
<1>7. Teardowns = {"halt", "startup"}
  BY DEF Teardowns
<1>8. CASE Undone(r)
  <2>1. /\ startup' = [startup EXCEPT ![r] = "idle"] /\ frame' = frame
        /\ teardown' = [teardown EXCEPT ![r] =
                          [teardown[r] EXCEPT !["startup"] = Nothing]]
        /\ teardown[r]["startup"].step = "given"
        /\ failure' \in [Holders -> BOOLEAN]
    <3>1. failure' = [failure EXCEPT ![r] = @ \/ teardown[r]["startup"].failed]
      BY <1>8 DEF Undone
    <3>2. failure' \in [Holders -> BOOLEAN]
      BY <1>6, <3>1
    <3> QED BY <1>8, <3>2 DEF Undone
  <2>2. /\ Nothing \in TeardownRecords
        /\ Nothing.step = "no" /\ Nothing.claim = NoClaim
    BY DEF Nothing, TeardownRecords, NoClaim
  <2>3. /\ teardown' \in [Holders -> [Teardowns -> TeardownRecords]]
        /\ \A s \in Holders, u \in Teardowns :
             teardown'[s][u].step \in {"stamp", "give"}
               => teardown'[s][u].claim # NoClaim
        /\ \A s \in Holders \ {r} : teardown'[s] = teardown[s]
        /\ teardown'[r]["startup"] = Nothing
        /\ teardown'[r]["halt"] = teardown[r]["halt"]
    <3>1. /\ "startup" \in Teardowns /\ "halt" \in Teardowns \ {"startup"}
          /\ Nothing.step \in {"stamp", "give"} => Nothing.claim # NoClaim
      BY <1>7, <2>2
    <3>2. PICK d \in TeardownRecords : d = Nothing
      BY <2>2
    <3>3. teardown' = [teardown EXCEPT ![r] =
                         [teardown[r] EXCEPT !["startup"] = d]]
      BY <2>1, <3>2
    <3>4. d.step \in {"stamp", "give"} => d.claim # NoClaim
      BY <3>1, <3>2
    <3>5. /\ teardown' \in [Holders -> [Teardowns -> TeardownRecords]]
          /\ \A s \in Holders, u \in Teardowns :
               teardown'[s][u].step \in {"stamp", "give"}
                 => teardown'[s][u].claim # NoClaim
          /\ \A s \in Holders \ {r} : teardown'[s] = teardown[s]
          /\ teardown'[r]["startup"] = d
          /\ \A u \in Teardowns \ {"startup"} : teardown'[r][u] = teardown[r][u]
      BY <1>1, <3>1, <3>3, <3>4, TeardownReplaced
    <3> QED BY <3>1, <3>2, <3>5
  <2>4. /\ startup' \in [Holders ->
             {"idle", "acquiring", "acquired", "announcing", "opening", "up",
              "undoing", "dead"}]
        /\ startup'[r] = "idle" /\ startup[r] = "undoing"
        /\ \A s \in Holders \ {r} : startup'[s] = startup[s]
    BY <1>1, <2>1 DEF AccountTypeOK, RuntimeInv, UndoingIsTornDown
  <2>5. AccountTypeOK'
    BY <1>1, <1>2, <1>3, <1>4, <2>1, <2>3, <2>4 DEF AccountTypeOK, TeardownRecords
  <2>6. \A s \in Holders \ {r} : Same(s)
    BY <1>2, <1>3, <2>1, <2>3, <2>4 DEF Same
  <2>7. /\ AnnouncedIsHeard(r)' /\ LeasedWhileStarted(r)'
        /\ UndoingIsTornDown(r)' /\ GivenIsNothing(r)' /\ HaltedHasNothing(r)'
        /\ ClosedIsGiven(r)'
    BY <1>1, <1>2, <1>3, <1>7, <2>1, <2>2, <2>3, <2>4
       DEF RuntimeInv, AnnouncedIsHeard, LeasedWhileStarted, UndoingIsTornDown,
           GivenIsNothing, HaltedHasNothing, ClosedIsGiven
  <2>8. RunningIsUp(r)' /\ UpIsOpen(r)' /\ BrokenIsKept(r)'
    BY <1>1, <1>3, <2>1, <2>4
       DEF RuntimeInv, RunningIsUp, UpIsOpen, BrokenIsKept
  <2>9. teardown[r]["startup"].claim = NoClaim
    BY <1>1, <1>7, <2>1 DEF RuntimeInv, GivenIsNothing
  <2>10. HeldIsRemembered'
    <3>1. ASSUME InForce, holder \in Remembered(r)
          PROVE  holder \in Remembered(r)'
      BY <1>3, <1>7, <2>3, <2>4, <2>9, <3>1 DEF InForce, Remembered
    <3> QED BY <1>1, <1>2, <1>4, <2>6, <3>1, MemoryHolds
  <2> QED BY <1>4, <1>5, <2>5, <2>6, <2>7, <2>8, <2>10 DEF Concerns, RuntimeInv
<1>9. CASE Close(r) \/ Report(r)
  <2>1. UNCHANGED <<startup, teardown>>
    BY <1>9 DEF Close, Report, lifeVars
  <2>2. failure' \in [Holders -> BOOLEAN]
    <3>1. \/ failure' = [failure EXCEPT ![r] = @ \/ teardown[r]["halt"].failed]
          \/ failure' = [failure EXCEPT ![r] = FALSE]
      BY <1>9 DEF Close, Report
    <3> QED BY <1>6, <3>1
  <2>3. /\ frame' \in [Holders -> {"none", "closed", "closed with error"}]
        /\ \A s \in Holders \ {r} : frame'[s] = frame[s]
    <3>1. \/ frame' = frame
          \/ frame' = [frame EXCEPT ![r] = "closed"]
          \/ frame' = [frame EXCEPT ![r] = "closed with error"]
      BY <1>9 DEF Close, Report
    <3> QED BY <1>1, <3>1 DEF AccountTypeOK
  <2>4. AccountTypeOK'
    BY <1>1, <1>2, <1>3, <1>4, <2>1, <2>2, <2>3, TeardownKept
       DEF AccountTypeOK, TeardownRecords
  <2>5. \A s \in Holders \ {r} : Same(s)
    BY <1>2, <1>3, <2>1, <2>3 DEF Same
  <2>6. /\ AnnouncedIsHeard(r)' /\ LeasedWhileStarted(r)'
        /\ UndoingIsTornDown(r)' /\ GivenIsNothing(r)' /\ HaltedHasNothing(r)'
        /\ RunningIsUp(r)' /\ UpIsOpen(r)'
    BY <1>1, <1>2, <1>3, <1>4, <2>1
       DEF RuntimeInv, backendVars, AnnouncedIsHeard, LeasedWhileStarted,
           UndoingIsTornDown, GivenIsNothing, HaltedHasNothing, RunningIsUp,
           UpIsOpen
  <2>7. ClosedIsGiven(r)'
    <3>1. CASE Close(r)
      BY <2>1, <3>1 DEF Close, ClosedIsGiven
    <3>2. CASE Report(r)
      BY <1>1, <2>1, <3>2 DEF Report, RuntimeInv, ClosedIsGiven
    <3> QED BY <1>9, <3>1, <3>2
  <2>8. BrokenIsKept(r)'
    <3>1. CASE Report(r)
      BY <1>1, <1>3, <2>1, <3>1 DEF Report, RuntimeInv, BrokenIsKept
    <3>2. CASE Close(r)
      <4>1. teardown[r]["halt"].step = "given" /\ frame \in [Holders -> {"none", "closed", "closed with error"}]
        BY <1>1, <3>2 DEF Close, AccountTypeOK
      <4>2. broken[r] => teardown[r]["halt"].failed
        BY <1>1, <4>1 DEF RuntimeInv, BrokenIsKept
      <4>3. teardown[r]["halt"].failed => failure'[r]
        BY <1>6, <3>2 DEF Close
      <4>4. failure'[r] => frame'[r] = "closed with error"
        BY <4>1, <3>2 DEF Close
      <4>5. broken[r] => frame'[r] # "closed"
        BY <4>2, <4>3, <4>4
      <4> QED BY <1>1, <1>3, <2>1, <4>5 DEF RuntimeInv, BrokenIsKept
    <3> QED BY <1>9, <3>1, <3>2
  <2>9. HeldIsRemembered'
    <3>1. Remembered(r)' = Remembered(r)
      BY <1>2, <1>3, <2>1 DEF Remembered
    <3> QED BY <1>1, <1>2, <1>4, <2>5, <3>1, MemoryHolds
  <2> QED BY <1>4, <1>5, <2>4, <2>5, <2>6, <2>7, <2>8, <2>9 DEF Concerns, RuntimeInv
<1> QED BY <1>8, <1>9

(***************************************************************************)
(* Startups. One that is under way has no Session yet, so its failure      *)
(* leaves only the lease and what was just opened to be given back.        *)
(***************************************************************************)
UnderWay == {"acquiring", "acquired", "announcing", "opening"}

LEMMA UnderWayHasNothing ==
  ASSUME AccountTypeOK, NEW r \in Holders, RuntimeInv(r),
         startup[r] \in UnderWay
  PROVE  /\ session[r] \in {"none", "ended"} /\ ~broken[r]
         /\ handler[r].step = "none"
         /\ teardown[r]["startup"].step = "no"
         /\ teardown[r]["startup"].claim = NoClaim
         /\ startup[r] \in {"acquiring", "acquired"} => lease[r] = NoClaim
         /\ teardown[r]["halt"].step # "no" => stopped[r]
<1>1. /\ session[r] \in {"none", "open", "live", "stopping", "failing", "ended"}
      /\ "startup" \in Teardowns
  BY DEF AccountTypeOK, Teardowns
<1> QED
  BY <1>1 DEF RuntimeInv, UnderWay, UndoingIsTornDown, GivenIsNothing,
     LeasedWhileStarted, RunningIsUp, BrokenIsKept, HaltedHasNothing

LEMMA AbortConcerns ==
  ASSUME IInv, NEW r \in Holders, NEW claim \in Nat, NEW opened \in BOOLEAN,
         Abort(r, claim, opened), startup[r] \in UnderWay,
         StartupOnly, ticketUntil' \in [Holders -> Nat],
         \/ session' = session
         \/ opened = TRUE /\ session' = [session EXCEPT ![r] = "open"],
         BackendTypeOK', BackendMoves,
         InForce' => InForce /\ holder' = holder,
         abandoned \subseteq abandoned', abandoned' \subseteq Nat,
         (\/ InForce' /\ holder = lease[r]
          \/ InForce' /\ holder = ticket[r] /\ startup[r] = "acquired")
           => holder \in {claim} \cup abandoned'
  PROVE  Concerns(r)
<1>1. AccountTypeOK /\ RuntimeInv(r) /\ HeldIsRemembered /\ BackendTypeOK
  BY DEF IInv, AccountTypeOK
<1>2. UNCHANGED <<ticket, stopped, renewal, broken, handler, failure, frame>>
  BY DEF StartupOnly
<1>3. /\ session[r] \in {"none", "ended"} /\ ~broken[r]
      /\ handler[r].step = "none"
      /\ teardown[r]["startup"].step = "no"
      /\ teardown[r]["startup"].claim = NoClaim
  BY <1>1, UnderWayHasNothing
<1>4. /\ TakeDown(r, "startup", claim, opened)
      /\ startup' = [startup EXCEPT ![r] = "undoing"]
  BY DEF Abort
<1>5. "startup" \in Teardowns /\ Teardowns = {"halt", "startup"}
  BY DEF Teardowns
<1>6. PICK d : /\ Begins(d, claim)
               /\ opened => d.step \in {"stamp", "stop"}
               /\ teardown' = [teardown EXCEPT ![r] =
                                 [teardown[r] EXCEPT !["startup"] = d]]
  BY <1>1, <1>4, <1>5, TakeDownEffect
<1>7. /\ lease' \in [Holders -> Nat] /\ leaseUntil' \in [Holders -> Nat]
      /\ heartbeat' \in [Holders -> BOOLEAN]
      /\ open' \in [Holders -> BOOLEAN]
      /\ subscribed' \in [Holders -> BOOLEAN]
      /\ lease'[r] = NoClaim
      /\ ~heartbeat'[r] /\ ~open'[r] /\ ~subscribed'[r]
      /\ \A s \in Holders \ {r} :
           /\ lease'[s] = lease[s] /\ heartbeat'[s] = heartbeat[s]
           /\ open'[s] = open[s] /\ subscribed'[s] = subscribed[s]
  BY <1>1, <1>4, <1>5, TakeDownEffect
<1>8. d \in TeardownRecords /\ (d.step \in {"stamp", "give"} => d.claim # NoClaim)
  BY <1>6 DEF Begins
<1>9. /\ teardown' \in [Holders -> [Teardowns -> TeardownRecords]]
      /\ \A s \in Holders, u \in Teardowns :
           teardown'[s][u].step \in {"stamp", "give"}
             => teardown'[s][u].claim # NoClaim
      /\ \A s \in Holders \ {r} : teardown'[s] = teardown[s]
      /\ teardown'[r]["startup"] = d
      /\ teardown'[r]["halt"] = teardown[r]["halt"]
  BY <1>1, <1>5, <1>6, <1>8, TeardownReplaced
<1>10. /\ startup' \in [Holders ->
            {"idle", "acquiring", "acquired", "announcing", "opening", "up",
             "undoing", "dead"}]
       /\ startup'[r] = "undoing"
       /\ \A s \in Holders \ {r} : startup'[s] = startup[s]
  BY <1>1, <1>4 DEF AccountTypeOK
<1>11. /\ session' \in [Holders ->
            {"none", "open", "live", "stopping", "failing", "ended"}]
       /\ session'[r] \in {"none", "ended"} \/ (opened /\ session'[r] = "open")
       /\ \A s \in Holders \ {r} : session'[s] = session[s]
  <2>1. session \in [Holders ->
            {"none", "open", "live", "stopping", "failing", "ended"}]
    BY <1>1 DEF AccountTypeOK
  <2> QED BY <1>3, <2>1
<1>12. AccountTypeOK'
  BY <1>1, <1>2, <1>7, <1>9, <1>10, <1>11 DEF AccountTypeOK, TeardownRecords
<1>13. \A s \in Holders \ {r} : Same(s)
  BY <1>2, <1>7, <1>9, <1>10, <1>11 DEF Same
<1>14. TokensAreIssued(r)' /\ RefusalStands(r)' /\ AnnouncedIsHeard(r)'
  <2>1. /\ lease[r] \in Nat /\ ticket[r] \in Nat /\ renewal[r].claim \in Nat
        /\ {issued, issued'} \subseteq Nat
    BY <1>1 DEF AccountTypeOK, BackendTypeOK
  <2> QED BY <1>1, <1>2, <1>7, <1>10, <2>1
             DEF RuntimeInv, BackendMoves, TokensAreIssued, RefusalStands,
                 AnnouncedIsHeard, NoClaim
<1>15. LeasedWhileStarted(r)' /\ UndoingIsTornDown(r)' /\ GivenIsNothing(r)'
  BY <1>1, <1>5, <1>6, <1>7, <1>9, <1>10
     DEF RuntimeInv, Begins, LeasedWhileStarted, UndoingIsTornDown, GivenIsNothing
<1>16. HaltedHasNothing(r)' /\ ClosedIsGiven(r)' /\ UpIsOpen(r)' /\ BrokenIsKept(r)'
  BY <1>1, <1>2, <1>3, <1>7, <1>9, <1>10
     DEF RuntimeInv, HaltedHasNothing, ClosedIsGiven, UpIsOpen, BrokenIsKept
<1>17. RunningIsUp(r)'
  BY <1>2, <1>3, <1>6, <1>9, <1>11 DEF Begins, RunningIsUp
<1>18. HeldIsRemembered'
  <2>1. ASSUME InForce', holder \in Remembered(r)
        PROVE  holder \in abandoned' \cup Remembered(r)'
    <3>1. holder # NoClaim
      BY <2>1 DEF InForce
    <3>2. \/ holder = lease[r] \/ holder = teardown[r]["halt"].claim
          \/ startup[r] = "acquired" /\ holder = ticket[r]
      BY <1>3, <1>5, <2>1, <3>1 DEF Remembered
    <3>3. CASE holder = teardown[r]["halt"].claim
      BY <1>5, <1>9, <3>3 DEF Remembered
    <3>4. CASE holder # teardown[r]["halt"].claim
      <4>1. holder \in {claim} \cup abandoned'
        BY <2>1, <3>2, <3>4
      <4>2. claim = teardown'[r]["startup"].claim
        BY <1>6, <1>9 DEF Begins
      <4> QED BY <1>5, <4>1, <4>2 DEF Remembered
    <3> QED BY <3>3, <3>4
  <2> QED BY <1>1, <1>13, <2>1, MemoryHolds
<1> QED
  BY <1>12, <1>13, <1>14, <1>15, <1>16, <1>17, <1>18 DEF Concerns, RuntimeInv

LEMMA FailingStartupsConcern ==
  ASSUME IInv, NEW r \in Holders,
         \/ StartupFails(r) \/ AnswerLost(r)
         \/ Acquired(r) /\ stopped[r]
         \/ Announce(r) /\ Abort(r, lease[r], open[r])
         \/ Opened(r) /\ stopped[r]
  PROVE  Concerns(r)
<1>1. AccountTypeOK /\ BackendTypeOK /\ RuntimeInv(r)
  BY DEF IInv, AccountTypeOK
<1>2. /\ lease[r] \in Nat /\ ticket[r] \in Nat /\ open[r] \in BOOLEAN
      /\ ticketUntil \in [Holders -> Nat] /\ abandoned \subseteq Nat
  BY <1>1 DEF AccountTypeOK
<1>3. startup[r] \in UnderWay /\ StartupOnly
  BY DEF StartupFails, AnswerLost, Acquired, Announce, Opened, UnderWay
<1>4. UNCHANGED backendVars \/ DataClaim(ticket[r])
  BY DEF StartupFails, AnswerLost, Acquired, Announce, Opened
<1>5. /\ BackendTypeOK' /\ BackendMoves
      /\ InForce' => InForce /\ holder' = holder
  <2>1. BackendTypeOK' /\ BackendMoves
    BY <1>1, <1>2, <1>4, BackendEffect
  <2>2. InForce' => InForce /\ holder' = holder
    BY <1>4 DEF backendVars, DataClaim, InForce
  <2> QED BY <2>1, <2>2
<1>6. ticketUntil' \in [Holders -> Nat]
  <2>1. ticketUntil' = ticketUntil \/ ticketUntil' = [ticketUntil EXCEPT ![r] = 0]
    BY DEF StartupFails, AnswerLost, Acquired, Announce, Opened
  <2> QED BY <1>2, <2>1
<1>7. CASE StartupFails(r)
  <2>1. /\ Abort(r, lease[r], open[r]) /\ startup[r] # "acquired"
        /\ session' = session /\ abandoned' = abandoned
    BY <1>7 DEF StartupFails
  <2> QED BY <1>2, <1>3, <1>5, <1>6, <2>1, AbortConcerns
<1>8. CASE AnswerLost(r)
  <2>1. /\ Abort(r, lease[r], open[r]) /\ session' = session
        /\ abandoned' = abandoned \cup {ticket[r]}
    BY <1>8 DEF AnswerLost
  <2> QED BY <1>2, <1>3, <1>5, <1>6, <2>1, AbortConcerns
<1>9. CASE Acquired(r) /\ stopped[r]
  <2>1. /\ Abort(r, ticket[r], open[r]) /\ startup[r] = "acquired"
        /\ session' = session /\ abandoned' = abandoned
    BY <1>9 DEF Acquired
  <2>2. lease[r] = NoClaim
    BY <1>1, <1>3, <2>1, UnderWayHasNothing
  <2>3. InForce' => holder # NoClaim
    BY <1>5 DEF InForce
  <2> QED BY <1>2, <1>3, <1>5, <1>6, <2>1, <2>2, <2>3, AbortConcerns
<1>10. CASE Announce(r) /\ Abort(r, lease[r], open[r])
  <2>1. /\ startup[r] # "acquired"
        /\ session' = session /\ abandoned' = abandoned
    BY <1>10 DEF Announce
  <2> QED BY <1>2, <1>3, <1>5, <1>6, <1>10, <2>1, AbortConcerns
<1>11. CASE Opened(r) /\ stopped[r]
  <2>1. /\ Abort(r, lease[r], TRUE) /\ startup[r] # "acquired"
        /\ session' = [session EXCEPT ![r] = "open"] /\ abandoned' = abandoned
    BY <1>11 DEF Opened
  <2> QED BY <1>2, <1>3, <1>5, <1>6, <2>1, AbortConcerns
<1> QED BY <1>7, <1>8, <1>9, <1>10, <1>11

\* A startup that goes on: it takes a lease, announces it, opens a Session.
LEMMA StartupsConcern ==
  ASSUME IInv, NEW r \in Holders,
         \/ StartRuntime(r) \/ Acquire(r)
         \/ Acquired(r) /\ ~stopped[r]
         \/ Announce(r) /\ ~Abort(r, lease[r], open[r])
         \/ Opened(r) /\ ~stopped[r]
  PROVE  Concerns(r)
<1>1. /\ AccountTypeOK /\ RuntimeInv(r) /\ HeldIsRemembered /\ BackendTypeOK
      /\ ticket[r] \in Nat /\ lease[r] \in Nat /\ renewal[r].claim \in Nat
      /\ {issued, newestClaim} \subseteq Nat
  BY DEF IInv, AccountTypeOK, BackendTypeOK
<1>2. UNCHANGED <<stopped, renewal, broken, handler, failure, frame, teardown,
                  abandoned>>
  BY DEF StartRuntime, Acquire, Acquired, Announce, Opened, StartupOnly,
         leaseVars, sessionVars, endVars
<1>3. \/ UNCHANGED backendVars \/ LeaseAcquire \/ DataClaim(ticket[r])
  BY DEF StartRuntime, Acquire, Acquired, Announce, Opened
<1>4. BackendTypeOK' /\ BackendMoves /\ {issued', heldUntil', newestClaim'} \subseteq Nat
  <2>1. BackendTypeOK' /\ BackendMoves
    BY <1>1, <1>3, BackendEffect
  <2> QED BY <2>1 DEF BackendTypeOK
<1>5. \/ startup[r] = "idle"
      \/ startup[r] \in UnderWay
  BY DEF StartRuntime, Acquire, Acquired, Announce, Opened, UnderWay
<1>6. startup[r] \in UnderWay =>
        /\ session[r] \in {"none", "ended"} /\ ~broken[r]
        /\ handler[r].step = "none"
        /\ teardown[r]["startup"].step = "no"
        /\ startup[r] \in {"acquiring", "acquired"} => lease[r] = NoClaim
        /\ teardown[r]["halt"].step # "no" => stopped[r]
  BY <1>1, UnderWayHasNothing
<1>7. ASSUME NEW next \in {"acquiring", "acquired", "announcing", "opening", "up"},
             startup' = [startup EXCEPT ![r] = next]
      PROVE  /\ startup' \in [Holders ->
                  {"idle", "acquiring", "acquired", "announcing", "opening",
                   "up", "undoing", "dead"}]
             /\ startup'[r] = next
             /\ \A s \in Holders \ {r} : startup'[s] = startup[s]
  BY <1>1, <1>7 DEF AccountTypeOK
<1>8. CASE StartRuntime(r)
  <2>1. /\ startup[r] = "idle" /\ startup' = [startup EXCEPT ![r] = "acquiring"]
        /\ UNCHANGED <<backendVars, ticket, ticketUntil, lease, leaseUntil,
                       heartbeat, open, subscribed, session>>
    BY <1>8 DEF StartRuntime, leaseVars, sessionVars
  <2>2. /\ startup' \in [Holders ->
             {"idle", "acquiring", "acquired", "announcing", "opening", "up",
              "undoing", "dead"}]
        /\ startup'[r] = "acquiring"
        /\ \A s \in Holders \ {r} : startup'[s] = startup[s]
    BY <1>7, <2>1
  <2>3. AccountTypeOK'
    BY <1>1, <1>2, <1>4, <2>1, <2>2, TeardownKept DEF AccountTypeOK, TeardownRecords
  <2>4. \A s \in Holders \ {r} : Same(s)
    BY <1>2, <2>1, <2>2 DEF Same
  <2>5. TokensAreIssued(r)' /\ RefusalStands(r)' /\ AnnouncedIsHeard(r)'
    BY <1>1, <1>2, <1>4, <2>1, <2>2 DEF RuntimeInv, BackendMoves,
       TokensAreIssued, RefusalStands, AnnouncedIsHeard
  <2>6. /\ LeasedWhileStarted(r)' /\ UndoingIsTornDown(r)' /\ GivenIsNothing(r)'
        /\ HaltedHasNothing(r)' /\ ClosedIsGiven(r)' /\ RunningIsUp(r)'
        /\ UpIsOpen(r)' /\ BrokenIsKept(r)'
    BY <1>1, <1>2, <2>1, <2>2
       DEF RuntimeInv, LeasedWhileStarted, UndoingIsTornDown, GivenIsNothing,
           HaltedHasNothing, ClosedIsGiven, RunningIsUp, UpIsOpen, BrokenIsKept
  <2>7. HeldIsRemembered'
    <3>1. holder' = holder /\ InForce' = InForce
      BY <2>1 DEF backendVars, InForce
    <3>2. Remembered(r)' = Remembered(r)
      BY <1>2, <2>1, <2>2 DEF Remembered
    <3> QED BY <1>1, <1>2, <2>4, <3>1, <3>2, MemoryHolds
  <2> QED BY <1>4, <2>3, <2>4, <2>5, <2>6, <2>7 DEF Concerns, RuntimeInv
<1>9. CASE Acquire(r)
  <2>1. /\ startup[r] = "acquiring" /\ startup' = [startup EXCEPT ![r] = "acquired"]
        /\ ticket' = [ticket EXCEPT ![r] = issued']
        /\ ticketUntil' = [ticketUntil EXCEPT ![r] = heldUntil']
        /\ UNCHANGED <<lease, leaseUntil, heartbeat, open, subscribed, session>>
    BY <1>9 DEF Acquire, leaseVars, sessionVars
  <2>2. /\ startup' \in [Holders ->
             {"idle", "acquiring", "acquired", "announcing", "opening", "up",
              "undoing", "dead"}]
        /\ startup'[r] = "acquired"
        /\ \A s \in Holders \ {r} : startup'[s] = startup[s]
    BY <1>7, <2>1
  <2>3. /\ ticket' \in [Holders -> Nat] /\ ticketUntil' \in [Holders -> Nat]
        /\ ticket'[r] = issued'
        /\ \A s \in Holders \ {r} : ticket'[s] = ticket[s]
    BY <1>1, <1>4, <2>1 DEF AccountTypeOK
  <2>4. AccountTypeOK'
    BY <1>1, <1>2, <1>4, <2>1, <2>2, <2>3, TeardownKept
       DEF AccountTypeOK, TeardownRecords
  <2>5. \A s \in Holders \ {r} : Same(s)
    BY <1>2, <2>1, <2>2, <2>3 DEF Same
  <2>6. TokensAreIssued(r)' /\ RefusalStands(r)' /\ AnnouncedIsHeard(r)'
    BY <1>1, <1>2, <1>4, <2>1, <2>2, <2>3 DEF RuntimeInv, BackendMoves,
       TokensAreIssued, RefusalStands, AnnouncedIsHeard
  <2>7. /\ LeasedWhileStarted(r)' /\ UndoingIsTornDown(r)' /\ GivenIsNothing(r)'
        /\ HaltedHasNothing(r)' /\ ClosedIsGiven(r)' /\ RunningIsUp(r)'
        /\ UpIsOpen(r)' /\ BrokenIsKept(r)'
    BY <1>1, <1>2, <2>1, <2>2
       DEF RuntimeInv, LeasedWhileStarted, UndoingIsTornDown, GivenIsNothing,
           HaltedHasNothing, ClosedIsGiven, RunningIsUp, UpIsOpen, BrokenIsKept
  <2>8. HeldIsRemembered'
    <3>1. holder' = ticket'[r]
      BY <1>9, <2>3 DEF Acquire, LeaseAcquire
    <3>2. holder' \in Remembered(r)'
      BY <2>2, <3>1 DEF Remembered
    <3> QED BY <3>2 DEF HeldIsRemembered
  <2> QED BY <1>4, <2>4, <2>5, <2>6, <2>7, <2>8 DEF Concerns, RuntimeInv
<1>10. CASE Acquired(r) /\ ~stopped[r]
  <2>1. /\ startup[r] = "acquired" /\ startup' = [startup EXCEPT ![r] = "announcing"]
        /\ lease' = [lease EXCEPT ![r] = ticket[r]]
        /\ leaseUntil' = [leaseUntil EXCEPT ![r] = ticketUntil[r]]
        /\ ticketUntil' = [ticketUntil EXCEPT ![r] = 0]
        /\ UNCHANGED <<backendVars, ticket, heartbeat, open, subscribed, session>>
    BY <1>10 DEF Acquired, StartupOnly
  <2>2. /\ startup' \in [Holders ->
             {"idle", "acquiring", "acquired", "announcing", "opening", "up",
              "undoing", "dead"}]
        /\ startup'[r] = "announcing"
        /\ \A s \in Holders \ {r} : startup'[s] = startup[s]
    BY <1>7, <2>1
  <2>3. /\ lease' \in [Holders -> Nat] /\ leaseUntil' \in [Holders -> Nat]
        /\ ticketUntil' \in [Holders -> Nat]
        /\ lease'[r] = ticket[r]
        /\ \A s \in Holders \ {r} : lease'[s] = lease[s]
    BY <1>1, <2>1 DEF AccountTypeOK
  <2>4. AccountTypeOK'
    BY <1>1, <1>2, <1>4, <2>1, <2>2, <2>3, TeardownKept
       DEF AccountTypeOK, TeardownRecords
  <2>5. \A s \in Holders \ {r} : Same(s)
    BY <1>2, <2>1, <2>2, <2>3 DEF Same
  <2>6. TokensAreIssued(r)' /\ RefusalStands(r)' /\ AnnouncedIsHeard(r)'
    BY <1>1, <1>2, <1>4, <2>1, <2>2, <2>3 DEF RuntimeInv, BackendMoves,
       TokensAreIssued, RefusalStands, AnnouncedIsHeard
  <2>7. /\ LeasedWhileStarted(r)' /\ UndoingIsTornDown(r)' /\ GivenIsNothing(r)'
        /\ HaltedHasNothing(r)' /\ ClosedIsGiven(r)' /\ RunningIsUp(r)'
        /\ UpIsOpen(r)' /\ BrokenIsKept(r)'
    BY <1>1, <1>2, <1>6, <1>10, <2>1, <2>2
       DEF RuntimeInv, UnderWay, LeasedWhileStarted, UndoingIsTornDown,
           GivenIsNothing, HaltedHasNothing, ClosedIsGiven, RunningIsUp,
           UpIsOpen, BrokenIsKept
  <2>8. HeldIsRemembered'
    <3>1. holder' = holder /\ InForce' = InForce
      BY <2>1 DEF backendVars, InForce
    <3>2. lease[r] = NoClaim
      BY <1>6, <2>1 DEF UnderWay
    <3>3. ASSUME InForce, holder \in Remembered(r)
          PROVE  holder \in Remembered(r)'
      BY <1>2, <2>1, <2>2, <2>3, <3>2, <3>3 DEF InForce, Remembered
    <3> QED BY <1>1, <1>2, <2>5, <3>1, <3>3, MemoryHolds
  <2> QED BY <1>4, <2>4, <2>5, <2>6, <2>7, <2>8 DEF Concerns, RuntimeInv
<1>11. CASE Announce(r) /\ ~Abort(r, lease[r], open[r])
  <2>1. /\ startup[r] = "announcing" /\ startup' = [startup EXCEPT ![r] = "opening"]
        /\ heartbeat' = [heartbeat EXCEPT ![r] = TRUE] /\ ~stopped[r]
        /\ DataClaim(ticket[r])
        /\ UNCHANGED <<ticket, ticketUntil, lease, leaseUntil, open,
                       subscribed, session>>
    BY <1>11 DEF Announce, StartupOnly
  <2>2. /\ startup' \in [Holders ->
             {"idle", "acquiring", "acquired", "announcing", "opening", "up",
              "undoing", "dead"}]
        /\ startup'[r] = "opening"
        /\ \A s \in Holders \ {r} : startup'[s] = startup[s]
    BY <1>7, <2>1
  <2>3. /\ heartbeat' \in [Holders -> BOOLEAN]
        /\ \A s \in Holders \ {r} : heartbeat'[s] = heartbeat[s]
    <3>1. heartbeat \in [Holders -> BOOLEAN]
      BY <1>1 DEF AccountTypeOK
    <3> QED BY <2>1, <3>1
  <2>4. AccountTypeOK'
    BY <1>1, <1>2, <1>4, <2>1, <2>2, <2>3, TeardownKept
       DEF AccountTypeOK, TeardownRecords
  <2>5. \A s \in Holders \ {r} : Same(s)
    BY <1>2, <2>1, <2>2, <2>3 DEF Same
  <2>6. TokensAreIssued(r)' /\ RefusalStands(r)'
    BY <1>1, <1>2, <1>4, <2>1, <2>2, <2>3 DEF RuntimeInv, BackendMoves,
       TokensAreIssued, RefusalStands
  <2>7. AnnouncedIsHeard(r)'
    BY <1>1, <2>1 DEF DataClaim, AnnouncedIsHeard
  <2>8. /\ LeasedWhileStarted(r)' /\ UndoingIsTornDown(r)' /\ GivenIsNothing(r)'
        /\ HaltedHasNothing(r)' /\ ClosedIsGiven(r)' /\ RunningIsUp(r)'
        /\ UpIsOpen(r)' /\ BrokenIsKept(r)'
    BY <1>1, <1>2, <1>6, <2>1, <2>2
       DEF RuntimeInv, UnderWay, LeasedWhileStarted, UndoingIsTornDown,
           GivenIsNothing, HaltedHasNothing, ClosedIsGiven, RunningIsUp,
           UpIsOpen, BrokenIsKept
  <2>9. HeldIsRemembered'
    <3>1. holder' = holder /\ InForce' = InForce
      BY <2>1 DEF DataClaim, InForce
    <3>2. Remembered(r)' = Remembered(r)
      BY <1>2, <2>1, <2>2 DEF Remembered
    <3> QED BY <1>1, <1>2, <2>5, <3>1, <3>2, MemoryHolds
  <2> QED BY <1>4, <2>4, <2>5, <2>6, <2>7, <2>8, <2>9 DEF Concerns, RuntimeInv
<1>12. CASE Opened(r) /\ ~stopped[r]
  <2>1. /\ startup[r] = "opening" /\ startup' = [startup EXCEPT ![r] = "up"]
        /\ session' = [session EXCEPT ![r] = "live"]
        /\ open' = [open EXCEPT ![r] = TRUE]
        /\ subscribed' = [subscribed EXCEPT ![r] = TRUE]
        /\ UNCHANGED <<backendVars, ticket, ticketUntil, lease, leaseUntil,
                       heartbeat>>
    BY <1>12 DEF Opened, StartupOnly
  <2>2. /\ startup' \in [Holders ->
             {"idle", "acquiring", "acquired", "announcing", "opening", "up",
              "undoing", "dead"}]
        /\ startup'[r] = "up"
        /\ \A s \in Holders \ {r} : startup'[s] = startup[s]
    BY <1>7, <2>1
  <2>3. /\ session' \in [Holders ->
             {"none", "open", "live", "stopping", "failing", "ended"}]
        /\ session'[r] = "live"
        /\ \A s \in Holders \ {r} : session'[s] = session[s]
    BY <1>1, <2>1 DEF AccountTypeOK
  <2>4. /\ open' \in [Holders -> BOOLEAN] /\ open'[r]
        /\ \A s \in Holders \ {r} : open'[s] = open[s]
    <3>1. open \in [Holders -> BOOLEAN]
      BY <1>1 DEF AccountTypeOK
    <3> QED BY <2>1, <3>1
  <2>5. /\ subscribed' \in [Holders -> BOOLEAN]
        /\ \A s \in Holders \ {r} : subscribed'[s] = subscribed[s]
    <3>1. subscribed \in [Holders -> BOOLEAN]
      BY <1>1 DEF AccountTypeOK
    <3> QED BY <2>1, <3>1
  <2>6. AccountTypeOK'
    BY <1>1, <1>2, <1>4, <2>1, <2>2, <2>3, <2>4, <2>5, TeardownKept
       DEF AccountTypeOK, TeardownRecords
  <2>7. \A s \in Holders \ {r} : Same(s)
    BY <1>2, <2>1, <2>2, <2>3, <2>4, <2>5 DEF Same
  <2>8. TokensAreIssued(r)' /\ RefusalStands(r)' /\ AnnouncedIsHeard(r)'
    BY <1>1, <1>2, <1>4, <2>1, <2>2 DEF RuntimeInv, BackendMoves,
       TokensAreIssued, RefusalStands, AnnouncedIsHeard
  <2>9. teardown[r]["halt"].step = "no"
    BY <1>6, <1>12, <2>1 DEF UnderWay
  <2>10. /\ LeasedWhileStarted(r)' /\ UndoingIsTornDown(r)' /\ GivenIsNothing(r)'
         /\ HaltedHasNothing(r)' /\ ClosedIsGiven(r)' /\ RunningIsUp(r)'
         /\ UpIsOpen(r)' /\ BrokenIsKept(r)'
    BY <1>1, <1>2, <1>6, <2>1, <2>2, <2>3, <2>4, <2>9
       DEF RuntimeInv, UnderWay, LeasedWhileStarted, UndoingIsTornDown,
           GivenIsNothing, HaltedHasNothing, ClosedIsGiven, RunningIsUp,
           UpIsOpen, BrokenIsKept
  <2>11. HeldIsRemembered'
    <3>1. holder' = holder /\ InForce' = InForce
      BY <2>1 DEF backendVars, InForce
    <3>2. Remembered(r)' = Remembered(r)
      BY <1>2, <2>1, <2>2 DEF Remembered
    <3> QED BY <1>1, <1>2, <2>7, <3>1, <3>2, MemoryHolds
  <2> QED BY <1>4, <2>6, <2>7, <2>8, <2>10, <2>11 DEF Concerns, RuntimeInv
<1> QED BY <1>8, <1>9, <1>10, <1>11, <1>12

LEMMA DeathConcerns ==
  ASSUME IInv, NEW r \in Holders, WorkerDies(r)
  PROVE  Concerns(r)
<1>1. AccountTypeOK /\ RuntimeInv(r) /\ HeldIsRemembered /\ BackendTypeOK
  BY DEF IInv, AccountTypeOK
<1>2. /\ UNCHANGED backendVars
      /\ abandoned' = abandoned \cup (Remembered(r) \ {NoClaim})
      /\ startup' = [startup EXCEPT ![r] = "dead"]
      /\ ticket' = [ticket EXCEPT ![r] = NoClaim]
      /\ ticketUntil' = [ticketUntil EXCEPT ![r] = 0]
      /\ lease' = [lease EXCEPT ![r] = NoClaim]
      /\ leaseUntil' = [leaseUntil EXCEPT ![r] = 0]
      /\ session' = [session EXCEPT ![r] = "none"]
      /\ frame' = [frame EXCEPT ![r] = "none"]
  BY DEF WorkerDies
<1>3. BackendTypeOK' /\ BackendMoves /\ holder' = holder /\ InForce' = InForce
  <2>1. BackendTypeOK' /\ BackendMoves
    BY <1>1, <1>2, BackendEffect
  <2> QED BY <1>2, <2>1 DEF backendVars, InForce
<1>4. /\ stopped' = [stopped EXCEPT ![r] = TRUE]
      /\ heartbeat' = [heartbeat EXCEPT ![r] = FALSE]
      /\ open' = [open EXCEPT ![r] = FALSE]
      /\ subscribed' = [subscribed EXCEPT ![r] = FALSE]
      /\ broken' = [broken EXCEPT ![r] = FALSE]
      /\ failure' = [failure EXCEPT ![r] = FALSE]
  BY DEF WorkerDies
<1>5. /\ startup' \in [Holders ->
           {"idle", "acquiring", "acquired", "announcing", "opening", "up",
            "undoing", "dead"}]
      /\ ticket' \in [Holders -> Nat] /\ ticketUntil' \in [Holders -> Nat]
      /\ lease' \in [Holders -> Nat] /\ leaseUntil' \in [Holders -> Nat]
      /\ session' \in [Holders ->
           {"none", "open", "live", "stopping", "failing", "ended"}]
      /\ frame' \in [Holders -> {"none", "closed", "closed with error"}]
      /\ startup'[r] = "dead" /\ ticket'[r] = NoClaim /\ lease'[r] = NoClaim
      /\ session'[r] = "none" /\ frame'[r] = "none"
      /\ \A s \in Holders \ {r} :
           /\ startup'[s] = startup[s] /\ ticket'[s] = ticket[s]
           /\ lease'[s] = lease[s] /\ session'[s] = session[s]
           /\ frame'[s] = frame[s]
  BY <1>1, <1>2 DEF AccountTypeOK, NoClaim
<1>6. ASSUME NEW flag \in [Holders -> BOOLEAN], NEW b \in BOOLEAN
      PROVE  /\ [flag EXCEPT ![r] = b] \in [Holders -> BOOLEAN]
             /\ [flag EXCEPT ![r] = b][r] = b
             /\ \A s \in Holders \ {r} : [flag EXCEPT ![r] = b][s] = flag[s]
  OBVIOUS
<1>7. /\ {stopped, heartbeat, open, subscribed, broken, failure}
           \subseteq [Holders -> BOOLEAN]
  BY <1>1 DEF AccountTypeOK
<1>8. /\ stopped' \in [Holders -> BOOLEAN]
      /\ \A s \in Holders \ {r} : stopped'[s] = stopped[s]
  BY <1>4, <1>6, <1>7
<1>9. /\ heartbeat' \in [Holders -> BOOLEAN] /\ open' \in [Holders -> BOOLEAN]
      /\ subscribed' \in [Holders -> BOOLEAN]
      /\ \A s \in Holders \ {r} :
           /\ heartbeat'[s] = heartbeat[s] /\ open'[s] = open[s]
           /\ subscribed'[s] = subscribed[s]
  BY <1>4, <1>6, <1>7
<1>10. /\ broken' \in [Holders -> BOOLEAN] /\ ~broken'[r]
       /\ failure' \in [Holders -> BOOLEAN]
       /\ \A s \in Holders \ {r} : broken'[s] = broken[s]
  BY <1>4, <1>6, <1>7
<1>11. /\ renewal' \in [Holders ->
            [step : {"none", "asked", "answered", "refused", "failed"},
             claim : Nat, until : Nat]]
       /\ renewal'[r].step = "none" /\ renewal'[r].claim = NoClaim
       /\ \A s \in Holders \ {r} : renewal'[s] = renewal[s]
  <2>1. renewal' = [renewal EXCEPT ![r] = NoRenewal]
    BY DEF WorkerDies
  <2>2. /\ NoRenewal.step = "none" /\ NoRenewal.claim = NoClaim
        /\ NoRenewal \in [step : {"none", "asked", "answered", "refused", "failed"},
                          claim : Nat, until : Nat]
    BY DEF NoRenewal, NoClaim
  <2> QED BY <1>1, <2>1, <2>2 DEF AccountTypeOK
<1>12. /\ handler' \in [Holders ->
            [step : {"none", "preparing", "accepting"}, claim : Nat]]
       /\ handler'[r].step = "none"
       /\ \A s \in Holders \ {r} : handler'[s] = handler[s]
  <2>1. handler' = [handler EXCEPT ![r] = NoHandler]
    BY DEF WorkerDies
  <2>2. /\ NoHandler.step = "none"
        /\ NoHandler \in [step : {"none", "preparing", "accepting"}, claim : Nat]
    BY DEF NoHandler, NoClaim
  <2> QED BY <1>1, <2>1, <2>2 DEF AccountTypeOK
<1>13. /\ teardown' \in [Holders -> [Teardowns -> TeardownRecords]]
       /\ \A t \in Teardowns :
            teardown'[r][t].step = "no" /\ teardown'[r][t].claim = NoClaim
       /\ \A s \in Holders \ {r} : teardown'[s] = teardown[s]
  <2>1. teardown' = [teardown EXCEPT ![r] = [t \in Teardowns |-> Nothing]]
    BY DEF WorkerDies
  <2>2. /\ Nothing \in TeardownRecords
        /\ Nothing.step = "no" /\ Nothing.claim = NoClaim
    BY DEF Nothing, TeardownRecords, NoClaim
  <2>3. teardown \in [Holders -> [Teardowns -> TeardownRecords]]
    BY <1>1 DEF AccountTypeOK, TeardownRecords
  <2> QED BY <2>1, <2>2, <2>3
<1>14. \A s \in Holders, u \in Teardowns :
         teardown'[s][u].step \in {"stamp", "give"}
           => teardown'[s][u].claim # NoClaim
  <2>1. ASSUME NEW s \in Holders, NEW u \in Teardowns,
               teardown'[s][u].step \in {"stamp", "give"}
        PROVE  teardown'[s][u].claim # NoClaim
    <3>1. s # r /\ teardown'[s] = teardown[s]
      BY <1>13, <2>1
    <3> QED BY <1>1, <2>1, <3>1, TeardownTyped
  <2> QED BY <2>1
<1>15. abandoned' \subseteq Nat /\ abandoned \subseteq abandoned'
  <2>1. Remembered(r) \subseteq Nat
    <3>1. lease[r] \in Nat /\ ticket[r] \in Nat
      BY <1>1 DEF AccountTypeOK
    <3>2. \A t \in Teardowns : teardown[r][t].claim \in Nat
      BY <1>1, TeardownTyped
    <3> QED BY <3>1, <3>2 DEF Remembered
  <2> QED BY <1>1, <1>2, <2>1 DEF AccountTypeOK
<1>16. AccountTypeOK'
  <2>1. \A s \in Holders :
          handler'[s].step = "accepting" => handler'[s].claim # NoClaim
    BY <1>1, <1>12 DEF AccountTypeOK
  <2>2. BackendTypeOK'
    BY <1>3
  <2> QED
    BY <1>5, <1>8, <1>9, <1>10, <1>11, <1>12, <1>13, <1>14, <1>15, <2>1, <2>2
       DEF AccountTypeOK, TeardownRecords
<1>17. \A s \in Holders \ {r} : Same(s)
  BY <1>5, <1>8, <1>9, <1>10, <1>11, <1>12, <1>13 DEF Same
<1>18. RuntimeInv(r)'
  <2>1. issued' \in Nat /\ newestClaim' \in Nat /\ {"halt", "startup"} = Teardowns
    BY <1>3 DEF BackendTypeOK, Teardowns
  <2>2. TokensAreIssued(r)' /\ RefusalStands(r)' /\ AnnouncedIsHeard(r)'
    <3>1. renewal'[r].step # "refused"
      BY <1>11
    <3>2. RefusalStands(r)'
      BY <3>1 DEF RefusalStands
    <3>3. startup'[r] \notin {"opening", "up"}
      BY <1>5
    <3>4. AnnouncedIsHeard(r)'
      BY <3>3 DEF AnnouncedIsHeard
    <3>5. lease'[r] = 0 /\ ticket'[r] = 0 /\ renewal'[r].claim = 0
      BY <1>5, <1>11 DEF NoClaim
    <3>6. TokensAreIssued(r)'
      BY <2>1, <3>5 DEF TokensAreIssued
    <3> QED BY <3>2, <3>4, <3>6
  <2>3. /\ LeasedWhileStarted(r)' /\ UndoingIsTornDown(r)' /\ GivenIsNothing(r)'
        /\ HaltedHasNothing(r)' /\ ClosedIsGiven(r)' /\ RunningIsUp(r)'
        /\ UpIsOpen(r)' /\ BrokenIsKept(r)'
    BY <1>5, <1>10, <1>12, <1>13, <2>1
       DEF LeasedWhileStarted, UndoingIsTornDown, GivenIsNothing,
           HaltedHasNothing, ClosedIsGiven, RunningIsUp, UpIsOpen, BrokenIsKept
  <2> QED BY <2>2, <2>3 DEF RuntimeInv
<1>19. HeldIsRemembered'
  <2>1. InForce => holder # NoClaim
    BY DEF InForce
  <2> QED BY <1>1, <1>2, <1>3, <1>15, <1>17, <2>1, MemoryHolds
<1> QED BY <1>3, <1>16, <1>17, <1>18, <1>19 DEF Concerns

(***************************************************************************)
(* Every step keeps the invariant.                                         *)
(***************************************************************************)
LEMMA StepConcerns ==
  ASSUME IInv, NEW r \in Holders, AccountStep(r)
  PROVE  Concerns(r)
<1>1. CASE \/ Observe(r) \/ HandlerStep(r) \/ SessionDies(r) \/ SessionWindsDown(r)
  BY <1>1, SessionStepsConcern DEF HandlerStep
<1>2. CASE RenewalStep(r)
  BY <1>2, RenewalStepsConcern, HaltStepsConcern DEF RenewalStep
<1>3. CASE SessionEnded(r) \/ Stop(r) \/ ExecutorFails(r)
  BY <1>3, HaltStepsConcern
<1>4. CASE Close(r) \/ Report(r) \/ Undone(r)
  BY <1>4, EndsConcern
<1>5. CASE \E t \in Teardowns : TeardownStep(r, t)
  BY <1>5, TeardownStepsConcern
<1>6. CASE \/ StartRuntime(r) \/ Acquire(r) \/ Acquired(r) \/ AnswerLost(r)
           \/ Announce(r) \/ Opened(r) \/ StartupFails(r)
  BY <1>6, FailingStartupsConcern, StartupsConcern
<1>7. CASE WorkerDies(r)
  BY <1>7, DeathConcerns
<1> QED
  BY <1>1, <1>2, <1>3, <1>4, <1>5, <1>6, <1>7 DEF AccountStep, StartupStep

LEMMA NextKeepsInvariant == IInv /\ [AccountNext]_accountVars => IInv'
<1> SUFFICES ASSUME IInv, [AccountNext]_accountVars PROVE IInv'
  OBVIOUS
<1>1. CASE \E r \in Holders : AccountStep(r)
  <2>1. PICK r \in Holders : AccountStep(r)
    BY <1>1
  <2>2. Concerns(r)
    BY <2>1, StepConcerns
  <2>3. /\ AccountTypeOK' /\ BackendTypeOK' /\ BackendMoves
        /\ RuntimeInv(r)' /\ HeldIsRemembered'
        /\ \A s \in Holders \ {r} : Same(s)
    BY <2>2 DEF Concerns, AccountTypeOK
  <2>4. ASSUME NEW s \in Holders \ {r} PROVE RuntimeInv(s)'
    BY <2>3, SameKeeps DEF IInv
  <2>5. \A s \in Holders : RuntimeInv(s)'
    BY <2>3, <2>4
  <2> QED BY <2>3, <2>5 DEF IInv
<1>2. CASE \/ LeaseTick /\ UNCHANGED <<lifeVars, leaseVars, sessionVars, endVars>>
           \/ UNCHANGED accountVars
  <2>1. /\ UNCHANGED <<startup, ticket, ticketUntil, stopped, lease, leaseUntil,
                       heartbeat, renewal, open, subscribed, session, broken,
                       handler, teardown, failure, frame, abandoned>>
        /\ LeaseTick \/ UNCHANGED backendVars
    BY <1>2 DEF accountVars, lifeVars, leaseVars, sessionVars, endVars
  <2>2. AccountTypeOK /\ BackendTypeOK /\ HeldIsRemembered /\ 0 \in Nat
    BY DEF IInv, AccountTypeOK
  <2>3. BackendTypeOK' /\ BackendMoves
    BY <2>1, <2>2, BackendEffect
  <2>4. AccountTypeOK'
    BY <2>1, <2>2, <2>3, TeardownKept DEF AccountTypeOK, TeardownRecords
  <2>5. ASSUME NEW s \in Holders PROVE Same(s)
    BY <2>1 DEF Same
  <2>6. \A s \in Holders : RuntimeInv(s)'
    BY <2>2, <2>3, <2>5, SameKeeps DEF IInv
  <2>7. holder' = holder /\ (InForce' => InForce)
    BY <2>1, <2>2 DEF LeaseTick, backendVars, InForce, BackendTypeOK
  <2>8. HeldIsRemembered'
    <3>1. \A s \in Holders : Remembered(s)' = Remembered(s)
      BY <2>1 DEF Remembered
    <3> QED BY <2>1, <2>2, <2>7, <3>1 DEF HeldIsRemembered
  <2> QED BY <2>4, <2>6, <2>8 DEF IInv
<1> QED BY <1>1, <1>2 DEF AccountNext

LEMMA InvariantHolds == AccountSpec => []IInv
  BY InitInvariant, NextKeepsInvariant, PTL DEF AccountSpec

-----------------------------------------------------------------------------
(***************************************************************************)
(* The theorems.                                                           *)
(***************************************************************************)

\* Whatever the runtimes of an account do, every variable keeps its type, and
\* what runtime.ts has on its way to the mirror or back to the lease store
\* names a claim.
THEOREM AccountTypes == AccountSpec => []AccountTypeOK
<1>1. IInv => AccountTypeOK
  BY DEF IInv
<1> QED BY <1>1, InvariantHolds, PTL

\* No claim is leaked by runtime.ts: wherever a stop lands in a startup, a
\* renewal or a teardown, a lease in force is known to a runtime that will
\* give it back, but for those of a crash or of an answer that was lost.
THEOREM NoClaimIsLeaked == AccountSpec => []HeldIsRemembered
<1>1. IInv => HeldIsRemembered
  BY DEF IInv
<1> QED BY <1>1, InvariantHolds, PTL

\* A runtime that has published its terminal frame, with no startup under way,
\* has no Session, no subscription, no heartbeat and no claim left.
THEOREM ClosedLeavesNothing == AccountSpec => []NothingIsLeft
<1>1. ASSUME IInv PROVE NothingIsLeft
  <2>1. SUFFICES ASSUME NEW r \in Holders, Settled(r)
                 PROVE  /\ session[r] \in {"none", "ended"}
                        /\ ~open[r] /\ ~subscribed[r] /\ ~heartbeat[r]
                        /\ Remembered(r) = {NoClaim}
    BY DEF NothingIsLeft
  <2>2. RuntimeInv(r) /\ AccountTypeOK
    BY <1>1 DEF IInv
  <2>3. frame[r] # "none" /\ startup[r] \in {"idle", "up"}
    BY <2>1 DEF Settled
  <2>4. teardown[r]["halt"].step = "given"
    BY <2>2, <2>3 DEF RuntimeInv, ClosedIsGiven
  <2>5. teardown[r]["startup"].step = "no"
    BY <2>2, <2>3 DEF RuntimeInv, UndoingIsTornDown
  <2>6. ~open[r] /\ ~subscribed[r] /\ ~heartbeat[r] /\ lease[r] = NoClaim
    BY <2>2, <2>4 DEF RuntimeInv, HaltedHasNothing
  <2>7. \A t \in Teardowns : teardown[r][t].claim = NoClaim
    BY <2>2, <2>4, <2>5 DEF RuntimeInv, GivenIsNothing, Teardowns
  <2>8. Remembered(r) = {NoClaim}
    BY <2>3, <2>6, <2>7 DEF Remembered
  <2>9. session[r] \in {"none", "open", "live", "stopping", "failing", "ended"}
    BY <2>2 DEF AccountTypeOK
  <2>10. session[r] \in {"none", "ended"}
    BY <2>2, <2>3, <2>4, <2>5, <2>9 DEF RuntimeInv, RunningIsUp, UpIsOpen
  <2> QED BY <2>6, <2>8, <2>10
<1> QED BY <1>1, InvariantHolds, PTL

\* A Session that ended in a failure never hides behind an orderly close: the
\* terminal frame of its runtime carries an error.
THEOREM FailureIsPublished == AccountSpec => []DeathIsVisible
<1>1. IInv => DeathIsVisible
  BY DEF IInv, RuntimeInv, BrokenIsKept, DeathIsVisible
<1> QED BY <1>1, InvariantHolds, PTL

(***************************************************************************)
(* Only two steps of a runtime write to the mirror: a handler's accept,    *)
(* and the final disconnection a teardown stamps.                          *)
(***************************************************************************)
LEMMA WritesAreAccepts ==
  ASSUME IInv, [AccountNext]_accountVars, batches' # batches
  PROVE  \E token \in Nat : DataAccept(token)
<1>1. ~ UNCHANGED backendVars
  BY DEF backendVars
<1>2. ~ UNCHANGED accountVars /\ ~LeaseTick
  BY <1>1 DEF accountVars, LeaseTick
<1>3. PICK r \in Holders : AccountStep(r)
  BY <1>2 DEF AccountNext
<1>4. AccountTypeOK
  BY DEF IInv
<1>5. CASE Accepted(r)
  <2>1. handler[r].claim \in Nat /\ DataAccept(handler[r].claim)
    BY <1>4, <1>5 DEF Accepted, AccountTypeOK
  <2> QED BY <2>1
<1>6. CASE \E t \in Teardowns : TeardownStep(r, t)
  <2>1. PICK t \in Teardowns : TeardownStep(r, t)
    BY <1>6
  <2>2. Stamp(r, t)
    BY <1>1, <2>1
       DEF TeardownStep, StopSession, Join, Give, LeaseRelease, backendVars
  <2>3. DataAccept(teardown[r][t].claim)
    BY <1>1, <2>2 DEF Stamp
  <2>4. teardown[r][t].claim \in Nat
    BY <1>4, TeardownTyped
  <2> QED BY <2>3, <2>4
<1>7. CASE StartupStep(r)
  BY <1>1, <1>7
     DEF StartupStep, Acquire, LeaseAcquire, Acquired, AnswerLost, Announce,
         DataClaim, Opened, StartupFails, Undone, backendVars
<1>8. CASE RenewalStep(r)
  BY <1>1, <1>8
     DEF RenewalStep, Beat, Renew, LeaseRenew, LeaseRenewRefused, Renewed,
         RenewalLost, RenewalFailed, backendVars
<1>9. CASE HandlerStep(r)
  BY <1>1, <1>5, <1>9 DEF HandlerStep, Accept, LetGo, AcceptRefused
<1>10. CASE \/ StartRuntime(r) \/ Observe(r) \/ SessionDies(r)
            \/ SessionWindsDown(r) \/ SessionEnded(r) \/ Close(r) \/ Stop(r)
            \/ Report(r) \/ ExecutorFails(r) \/ WorkerDies(r)
  BY <1>1, <1>10
     DEF StartRuntime, Observe, SessionDies, SessionWindsDown, SessionEnded,
         Close, Stop, Report, ExecutorFails, WorkerDies
<1> QED BY <1>3, <1>6, <1>7, <1>8, <1>9, <1>10 DEF AccountStep

\* Once a runtime has opened WhatsApp, nothing an older claim of the account
\* still has buffered, in flight or to stamp reaches the mirror.
THEOREM Fenced == AccountSpec => SuccessorIsFenced
<1>1. ASSUME IInv, [AccountNext]_accountVars
      PROVE  \A r \in Holders :
               batches' # batches /\ session[r] \in {"live", "stopping", "failing"}
                 => batches'[Len(batches')] >= ticket[r]
  <2>1. SUFFICES ASSUME NEW r \in Holders, batches' # batches,
                        session[r] \in {"live", "stopping", "failing"}
                 PROVE  batches'[Len(batches')] >= ticket[r]
    OBVIOUS
  <2>2. PICK token \in Nat : DataAccept(token)
    BY <1>1, <2>1, WritesAreAccepts
  <2>3. AccountTypeOK /\ BackendTypeOK /\ RuntimeInv(r)
    BY <1>1 DEF IInv, AccountTypeOK
  <2>4. newestClaim >= ticket[r]
    BY <2>1, <2>3 DEF RuntimeInv, RunningIsUp, AnnouncedIsHeard
  <2>5. batches \in Seq(Nat) /\ newestClaim \in Nat /\ ticket[r] \in Nat
    BY <2>3 DEF AccountTypeOK, BackendTypeOK
  <2>6. batches' = Append(batches, token) /\ token >= newestClaim
    BY <2>2, <2>5 DEF DataAccept, Superseded
  <2>7. batches'[Len(batches')] = token
    BY <2>5, <2>6
  <2> QED BY <2>4, <2>5, <2>6, <2>7
<1> QED
  BY <1>1, InvariantHolds, PTL DEF AccountSpec, SuccessorIsFenced

=============================================================================
