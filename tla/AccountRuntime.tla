--------------------------- MODULE AccountRuntime ---------------------------
(***************************************************************************)
(* The runtimes of one account over the backend they share: startup, the   *)
(* heartbeat that renews the lease, the Session whose observations are     *)
(* accepted, and teardown. Everything between two awaits of runtime.ts is  *)
(* one action, so a stop may land at every await of a startup.             *)
(*                                                                         *)
(* A teardown runs at most twice at a time in a runtime: once for halt()   *)
(* and once for a startup that failed. Each takes what is held when it     *)
(* begins and gives back only that; with no Session to stop it goes        *)
(* straight to the claim.                                                  *)
(***************************************************************************)
EXTENDS AccountBackend

CONSTANTS
  Holders,     \* the runtimes that want to hold the account
  MaxBatches   \* bound on observations: none is made once there are as many

VARIABLES
  startup,     \* where open() is; "idle" may be started (again)
  ticket,      \* the token of its acquire, and the expiry that came with it
  ticketUntil,
  lease,       \* token of the runtime's lease, or NoClaim
  leaseUntil,  \* the expiry the runtime knows of
  heartbeat,   \* the renewal timer is running
  renewal,     \* the renewal in flight
  open,        \* whether the runtime refers to a Session
  subscribed,  \* whether its handlers are subscribed
  session,     \* the Session itself
  broken,      \* whether the Session ended in a failure
  handler,     \* the handler of an observation in flight
  stopped,
  teardown,    \* of halt() and of a failed startup
  failure,     \* a failure kept for stop() to report
  frame,       \* the terminal frame, once published
  abandoned    \* tokens whose runtime crashed or was denied an answer

lifeVars == <<startup, ticket, ticketUntil, stopped>>
leaseVars == <<lease, leaseUntil, heartbeat, renewal>>
sessionVars == <<open, subscribed, session, broken, handler>>
endVars == <<teardown, failure, frame, abandoned>>
accountVars == <<backendVars, lifeVars, leaseVars, sessionVars, endVars>>

Teardowns == {"halt", "startup"}
Nothing ==
  [step |-> "no", claim |-> NoClaim, failed |-> FALSE]
NoRenewal == [step |-> "none", claim |-> NoClaim, until |-> 0]
NoHandler == [step |-> "none", claim |-> NoClaim]

\* Every variable has its type, and what is on its way to the mirror, or to be
\* given back, names a claim.
AccountTypeOK ==
  /\ BackendTypeOK
  /\ startup \in [Holders ->
       {"idle", "acquiring", "acquired", "announcing", "opening", "up",
        "undoing", "dead"}]
  /\ ticket \in [Holders -> Nat] /\ ticketUntil \in [Holders -> Nat]
  /\ lease \in [Holders -> Nat]  /\ leaseUntil \in [Holders -> Nat]
  /\ heartbeat \in [Holders -> BOOLEAN]
  /\ renewal \in [Holders ->
       [step : {"none", "asked", "answered", "refused", "failed"},
        claim : Nat, until : Nat]]
  /\ open \in [Holders -> BOOLEAN] /\ subscribed \in [Holders -> BOOLEAN]
  /\ session \in [Holders ->
       {"none", "open", "live", "stopping", "failing", "ended"}]
  /\ broken \in [Holders -> BOOLEAN]
  /\ handler \in [Holders ->
       [step : {"none", "preparing", "accepting"}, claim : Nat]]
  /\ stopped \in [Holders -> BOOLEAN]
  /\ teardown \in [Holders -> [Teardowns ->
       [step : {"no", "stamp", "stop", "join", "give", "given"},
        claim : Nat, failed : BOOLEAN]]]
  /\ failure \in [Holders -> BOOLEAN]
  /\ frame \in [Holders -> {"none", "closed", "closed with error"}]
  /\ abandoned \subseteq Nat
  /\ \A r \in Holders :
       /\ handler[r].step = "accepting" => handler[r].claim # NoClaim
       /\ \A t \in Teardowns :
            teardown[r][t].step \in {"stamp", "give"}
              => teardown[r][t].claim # NoClaim

AccountInit ==
  /\ BackendInit
  /\ startup = [r \in Holders |-> "idle"]
  /\ ticket = [r \in Holders |-> NoClaim]
  /\ ticketUntil = [r \in Holders |-> 0]
  /\ lease = [r \in Holders |-> NoClaim]
  /\ leaseUntil = [r \in Holders |-> 0]
  /\ heartbeat = [r \in Holders |-> FALSE]
  /\ renewal = [r \in Holders |-> NoRenewal]
  /\ open = [r \in Holders |-> FALSE]
  /\ subscribed = [r \in Holders |-> FALSE]
  /\ session = [r \in Holders |-> "none"]
  /\ broken = [r \in Holders |-> FALSE]
  /\ handler = [r \in Holders |-> NoHandler]
  /\ stopped = [r \in Holders |-> FALSE]
  /\ teardown = [r \in Holders |-> [t \in Teardowns |-> Nothing]]
  /\ failure = [r \in Holders |-> FALSE]
  /\ frame = [r \in Holders |-> "none"]
  /\ abandoned = {}

-----------------------------------------------------------------------------
(***************************************************************************)
(* Teardown: release() takes everything before its first await. The final  *)
(* disconnection is stamped under the claim it took, unless that has       *)
(* lapsed; there is one to stamp only where handlers were subscribed.      *)
(***************************************************************************)
Giving(claim) == IF claim = NoClaim THEN "given" ELSE "give"

TakeDown(r, t, claim, opened) ==
  LET stamps == subscribed[r] /\ claim # NoClaim IN
  /\ lease' = [lease EXCEPT ![r] = NoClaim]
  /\ leaseUntil' = [leaseUntil EXCEPT ![r] = 0]
  /\ heartbeat' = [heartbeat EXCEPT ![r] = FALSE]
  /\ open' = [open EXCEPT ![r] = FALSE]
  /\ subscribed' = [subscribed EXCEPT ![r] = FALSE]
  /\ teardown' = [teardown EXCEPT ![r][t] =
       [step    |-> IF stamps /\ leaseUntil[r] > now THEN "stamp"
                    ELSE IF opened THEN "stop" ELSE Giving(claim),
        claim   |-> claim,
        failed  |-> stamps /\ leaseUntil[r] <= now]]

\* halt(): latched at once, torn down once.
HaltRuntime(r, claim) ==
  /\ stopped' = [stopped EXCEPT ![r] = TRUE]
  /\ IF teardown[r]["halt"].step = "no"
     THEN TakeDown(r, "halt", claim, open[r])
     ELSE UNCHANGED <<lease, leaseUntil, heartbeat, open, subscribed, teardown>>

\* The catch of start().
Abort(r, claim, opened) ==
  /\ startup' = [startup EXCEPT ![r] = "undoing"]
  /\ TakeDown(r, "startup", claim, opened)

\* What a teardown step leaves alone.
TeardownOnly ==
  UNCHANGED <<lifeVars, leaseVars, open, subscribed, handler, failure, frame>>

Stamp(r, t) ==
  /\ teardown[r][t].step = "stamp"
  /\ \/ /\ DataAccept(teardown[r][t].claim)
        /\ teardown' = [teardown EXCEPT ![r][t].step = "stop"]
     \/ /\ Superseded(teardown[r][t].claim)
        /\ teardown' = [teardown EXCEPT ![r][t].step = "stop",
                                        ![r][t].failed = TRUE]
        /\ UNCHANGED backendVars
  /\ TeardownOnly
  /\ UNCHANGED <<session, broken, abandoned>>

\* session.stop() is called: a Session that was never started has nothing to
\* wind down.
StopSession(r, t) ==
  /\ teardown[r][t].step = "stop"
  /\ teardown' = [teardown EXCEPT ![r][t].step = "join"]
  /\ session' = [session EXCEPT ![r] =
       CASE @ = "open" -> "ended"
         [] @ = "live" -> "stopping"
         [] OTHER      -> @]
  /\ TeardownOnly
  /\ UNCHANGED <<backendVars, broken, abandoned>>

\* A join that trusts stop() and does not wait for the supervisor.
JoinAtOnce(r, t) ==
  /\ teardown[r][t].step = "join"
  /\ teardown' = [teardown EXCEPT ![r][t].step = Giving(teardown[r][t].claim)]
  /\ TeardownOnly
  /\ UNCHANGED <<backendVars, session, broken, abandoned>>

\* stop() and the supervisor have both settled.
Join(r, t) ==
  /\ teardown[r][t].step = "join"
  /\ session[r] = "ended"
  /\ teardown' = [teardown EXCEPT ![r][t].step = Giving(teardown[r][t].claim),
                                  ![r][t].failed = @ \/ broken[r]]
  /\ TeardownOnly
  /\ UNCHANGED <<backendVars, session, broken, abandoned>>

\* The claim is given back whatever came before; a store that rejects leaves
\* it to lapse.
Give(r, t) ==
  /\ teardown[r][t].step = "give"
  /\ \/ /\ LeaseRelease(teardown[r][t].claim)
        /\ teardown' = [teardown EXCEPT ![r][t].step = "given",
                                        ![r][t].claim = NoClaim]
        /\ UNCHANGED abandoned
     \/ /\ teardown' = [teardown EXCEPT ![r][t].step = "given",
                                        ![r][t].claim = NoClaim,
                                        ![r][t].failed = TRUE]
        /\ abandoned' = abandoned \cup {teardown[r][t].claim}
        /\ UNCHANGED backendVars
  /\ TeardownOnly
  /\ UNCHANGED <<session, broken>>

TeardownStep(r, t) ==
  Stamp(r, t) \/ StopSession(r, t) \/ Join(r, t) \/ Give(r, t)

\* A halt() that waits for the startup it interrupted.
CloseAfterStartup(r) ==
  /\ teardown[r]["halt"].step = "given"
  /\ frame[r] = "none"
  /\ startup[r] \in {"idle", "up"}
  /\ failure' = [failure EXCEPT ![r] = @ \/ teardown[r]["halt"].failed]
  /\ frame' = [frame EXCEPT ![r] =
                 IF failure'[r] THEN "closed with error" ELSE "closed"]
  /\ UNCHANGED <<backendVars, lifeVars, leaseVars, sessionVars, teardown, abandoned>>

\* The end of halt(): the terminal frame, and no listener after it.
Close(r) ==
  /\ teardown[r]["halt"].step = "given"
  /\ frame[r] = "none"
  /\ failure' = [failure EXCEPT ![r] = @ \/ teardown[r]["halt"].failed]
  /\ frame' = [frame EXCEPT ![r] =
                 IF failure'[r] THEN "closed with error" ELSE "closed"]
  /\ UNCHANGED <<backendVars, lifeVars, leaseVars, sessionVars, teardown, abandoned>>

\* The end of a failed startup: the caller sees the rejection and may retry.
Undone(r) ==
  /\ teardown[r]["startup"].step = "given"
  /\ startup' = [startup EXCEPT ![r] = "idle"]
  /\ teardown' = [teardown EXCEPT ![r]["startup"] = Nothing]
  /\ failure' = [failure EXCEPT ![r] = @ \/ teardown[r]["startup"].failed]
  /\ UNCHANGED <<backendVars, ticket, ticketUntil, stopped, leaseVars,
                 sessionVars, frame, abandoned>>

-----------------------------------------------------------------------------
(***************************************************************************)
(* Startup: acquire, announce the claim, open the Session, consume it.     *)
(***************************************************************************)
StartRuntime(r) ==
  /\ startup[r] = "idle" /\ ~stopped[r]
  /\ startup' = [startup EXCEPT ![r] = "acquiring"]
  /\ UNCHANGED <<backendVars, ticket, ticketUntil, stopped, leaseVars,
                 sessionVars, endVars>>

Acquire(r) ==
  /\ startup[r] = "acquiring"
  /\ LeaseAcquire
  /\ startup' = [startup EXCEPT ![r] = "acquired"]
  /\ ticket' = [ticket EXCEPT ![r] = issued']
  /\ ticketUntil' = [ticketUntil EXCEPT ![r] = heldUntil']
  /\ UNCHANGED <<stopped, leaseVars, sessionVars, endVars>>

\* What the rest of a startup leaves alone.
StartupOnly ==
  UNCHANGED <<ticket, stopped, renewal, broken, handler, failure, frame>>

\* The account is already claimed, the mirror has heard of a successor, the
\* Session does not open, or a call rejects.
StartupFails(r) ==
  /\ startup[r] \in {"acquiring", "announcing", "opening"}
  /\ Abort(r, lease[r], open[r])
  /\ StartupOnly
  /\ UNCHANGED <<backendVars, ticketUntil, session, abandoned>>

\* The claim was made, and the answer to acquire is lost.
AnswerLost(r) ==
  /\ startup[r] = "acquired"
  /\ abandoned' = abandoned \cup {ticket[r]}
  /\ ticketUntil' = [ticketUntil EXCEPT ![r] = 0]
  /\ Abort(r, lease[r], open[r])
  /\ StartupOnly
  /\ UNCHANGED <<backendVars, session>>

\* A startup that looks at the stop before it records the lease.
AcquiredTooLate(r) ==
  /\ startup[r] = "acquired"
  /\ ticketUntil' = [ticketUntil EXCEPT ![r] = 0]
  /\ IF stopped[r]
     THEN Abort(r, lease[r], open[r])
     ELSE /\ startup' = [startup EXCEPT ![r] = "announcing"]
          /\ lease' = [lease EXCEPT ![r] = ticket[r]]
          /\ leaseUntil' = [leaseUntil EXCEPT ![r] = ticketUntil[r]]
          /\ UNCHANGED <<heartbeat, open, subscribed, teardown>>
  /\ StartupOnly
  /\ UNCHANGED <<backendVars, session, abandoned>>

\* The lease is the runtime's from here on, even if it was stopped meanwhile.
Acquired(r) ==
  /\ startup[r] = "acquired"
  /\ ticketUntil' = [ticketUntil EXCEPT ![r] = 0]
  /\ IF stopped[r]
     THEN Abort(r, ticket[r], open[r])
     ELSE /\ startup' = [startup EXCEPT ![r] = "announcing"]
          /\ lease' = [lease EXCEPT ![r] = ticket[r]]
          /\ leaseUntil' = [leaseUntil EXCEPT ![r] = ticketUntil[r]]
          /\ UNCHANGED <<heartbeat, open, subscribed, teardown>>
  /\ StartupOnly
  /\ UNCHANGED <<backendVars, session, abandoned>>

\* The claim reaches the mirror before WhatsApp is opened. The call may still
\* reject.
Announce(r) ==
  /\ startup[r] = "announcing"
  /\ DataClaim(ticket[r])
  /\ \/ Abort(r, lease[r], open[r])
     \/ /\ ~stopped[r]
        /\ startup' = [startup EXCEPT ![r] = "opening"]
        /\ heartbeat' = [heartbeat EXCEPT ![r] = TRUE]
        /\ UNCHANGED <<lease, leaseUntil, open, subscribed, teardown>>
  /\ StartupOnly
  /\ UNCHANGED <<ticketUntil, session, abandoned>>

\* A startup that does not look at the stop once the Session is open.
OpenedRegardless(r) ==
  /\ startup[r] = "opening"
  /\ session' = [session EXCEPT ![r] = "live"]
  /\ startup' = [startup EXCEPT ![r] = "up"]
  /\ open' = [open EXCEPT ![r] = TRUE]
  /\ subscribed' = [subscribed EXCEPT ![r] = TRUE]
  /\ StartupOnly
  /\ UNCHANGED <<backendVars, ticketUntil, lease, leaseUntil, heartbeat, teardown,
                 abandoned>>

Opened(r) ==
  /\ startup[r] = "opening"
  /\ IF stopped[r]
     THEN /\ session' = [session EXCEPT ![r] = "open"]
          /\ Abort(r, lease[r], TRUE)
     ELSE /\ session' = [session EXCEPT ![r] = "live"]
          /\ startup' = [startup EXCEPT ![r] = "up"]
          /\ open' = [open EXCEPT ![r] = TRUE]
          /\ subscribed' = [subscribed EXCEPT ![r] = TRUE]
          /\ UNCHANGED <<lease, leaseUntil, heartbeat, teardown>>
  /\ StartupOnly
  /\ UNCHANGED <<backendVars, ticketUntil, abandoned>>

StartupStep(r) ==
  \/ Acquire(r) \/ Acquired(r) \/ AnswerLost(r) \/ Announce(r) \/ Opened(r)
  \/ StartupFails(r) \/ Undone(r)

-----------------------------------------------------------------------------
(***************************************************************************)
(* The heartbeat: one renewal at a time. A renewal that is refused for the *)
(* lease still held stops the runtime; one that rejects stops it whatever  *)
(* lease it was for.                                                       *)
(***************************************************************************)
RenewalOnly ==
  UNCHANGED <<startup, ticket, ticketUntil, session, broken, handler, frame,
              abandoned>>

Beat(r) ==
  /\ heartbeat[r] /\ ~stopped[r] /\ lease[r] # NoClaim
  /\ renewal[r].step = "none"
  /\ renewal' = [renewal EXCEPT ![r] = [NoRenewal EXCEPT !.step = "asked",
                                                       !.claim = lease[r]]]
  /\ RenewalOnly
  /\ UNCHANGED <<backendVars, stopped, lease, leaseUntil, heartbeat, open,
                 subscribed, teardown, failure>>

\* The store answers; until then, or on the way back, the call may fail.
Renew(r) ==
  /\ \/ /\ renewal[r].step = "asked"
        /\ LeaseRenew(renewal[r].claim)
        /\ renewal' = [renewal EXCEPT ![r].step = "answered",
                                      ![r].until = heldUntil']
     \/ /\ renewal[r].step = "asked"
        /\ LeaseRenewRefused(renewal[r].claim)
        /\ renewal' = [renewal EXCEPT ![r].step = "refused"]
     \/ /\ renewal[r].step \in {"asked", "answered", "refused"}
        /\ renewal' = [renewal EXCEPT ![r].step = "failed", ![r].until = 0]
        /\ UNCHANGED backendVars
  /\ RenewalOnly
  /\ UNCHANGED <<stopped, lease, leaseUntil, heartbeat, open, subscribed,
                 teardown, failure>>

Stale(r) == stopped[r] \/ lease[r] # renewal[r].claim

Renewed(r) ==
  /\ renewal[r].step = "answered"
  /\ renewal' = [renewal EXCEPT ![r] = NoRenewal]
  /\ leaseUntil' = [leaseUntil EXCEPT ![r] =
       IF Stale(r) THEN @ ELSE renewal[r].until]
  /\ RenewalOnly
  /\ UNCHANGED <<backendVars, stopped, lease, heartbeat, open, subscribed,
                 teardown, failure>>

\* A renewal that is told the lease is lost and carries on.
CarryOn(r) ==
  /\ renewal[r].step = "refused"
  /\ renewal' = [renewal EXCEPT ![r] = NoRenewal]
  /\ RenewalOnly
  /\ UNCHANGED <<backendVars, stopped, lease, leaseUntil, heartbeat, open,
                 subscribed, teardown, failure>>

RenewalLost(r) ==
  /\ renewal[r].step = "refused"
  /\ renewal' = [renewal EXCEPT ![r] = NoRenewal]
  /\ IF Stale(r)
     THEN UNCHANGED <<stopped, lease, leaseUntil, heartbeat, open, subscribed,
                      teardown>>
     ELSE HaltRuntime(r, NoClaim)
  /\ RenewalOnly
  /\ UNCHANGED <<backendVars, failure>>

RenewalFailed(r) ==
  /\ renewal[r].step = "failed"
  /\ renewal' = [renewal EXCEPT ![r] = NoRenewal]
  /\ failure' = [failure EXCEPT ![r] = TRUE]
  /\ HaltRuntime(r, lease[r])
  /\ RenewalOnly
  /\ UNCHANGED backendVars

RenewalStep(r) ==
  Beat(r) \/ Renew(r) \/ Renewed(r) \/ RenewalLost(r) \/ RenewalFailed(r)

-----------------------------------------------------------------------------
(***************************************************************************)
(* The Session: it hands one observation at a time to the handlers, and    *)
(* does not end while one is being handled. A handler prepares (a message's *)
(* media is captured first), then accepts under the lease it finds.        *)
(***************************************************************************)
SessionOnly ==
  UNCHANGED <<lifeVars, leaseVars, open, subscribed, endVars>>

Observe(r) ==
  /\ session[r] = "live" /\ subscribed[r] /\ handler[r] = NoHandler
  /\ Len(batches) < MaxBatches
  /\ handler' = [handler EXCEPT ![r].step = "preparing"]
  /\ SessionOnly
  /\ UNCHANGED <<backendVars, session, broken>>

LeaseLapsed(r) == lease[r] = NoClaim \/ leaseUntil[r] <= now

Accept(r) ==
  /\ handler[r].step = "preparing"
  /\ ~LeaseLapsed(r)
  /\ handler' = [handler EXCEPT ![r] = [step |-> "accepting", claim |-> lease[r]]]
  /\ SessionOnly
  /\ UNCHANGED <<backendVars, session, broken>>

\* A presence or connection signal without a lease is let go.
LetGo(r) ==
  /\ handler[r].step = "preparing"
  /\ lease[r] = NoClaim
  /\ handler' = [handler EXCEPT ![r] = NoHandler]
  /\ SessionOnly
  /\ UNCHANGED <<backendVars, session, broken>>

Accepted(r) ==
  /\ handler[r].step = "accepting"
  /\ DataAccept(handler[r].claim)
  /\ handler' = [handler EXCEPT ![r] = NoHandler]
  /\ SessionOnly
  /\ UNCHANGED <<session, broken>>

\* The handler rejects, which fails the Session.
AcceptRefused(r) ==
  /\ \/ handler[r].step = "preparing" /\ LeaseLapsed(r)
     \/ handler[r].step = "accepting" /\ Superseded(handler[r].claim)
  /\ handler' = [handler EXCEPT ![r] = NoHandler]
  /\ session' = [session EXCEPT ![r] = "failing"]
  /\ SessionOnly
  /\ UNCHANGED <<backendVars, broken>>

\* It ends on its own (logged out, suspended, a failure of the run)...
SessionDies(r) ==
  /\ session[r] = "live" /\ handler[r] = NoHandler
  /\ session' = [session EXCEPT ![r] = "ended"]
  /\ \E b \in BOOLEAN : broken' = [broken EXCEPT ![r] = b]
  /\ SessionOnly
  /\ UNCHANGED <<backendVars, handler>>

\* ...or after stop(), or after a handler has rejected.
SessionWindsDown(r) ==
  /\ session[r] \in {"stopping", "failing"} /\ handler[r] = NoHandler
  /\ session' = [session EXCEPT ![r] = "ended"]
  /\ \E b \in BOOLEAN :
       /\ session[r] = "failing" => b
       /\ broken' = [broken EXCEPT ![r] = b]
  /\ SessionOnly
  /\ UNCHANGED <<backendVars, handler>>

\* The supervisor settles: a Session that ended takes the runtime with it.
SessionEnded(r) ==
  /\ session[r] = "ended" /\ startup[r] = "up" /\ ~stopped[r]
  /\ HaltRuntime(r, lease[r])
  /\ UNCHANGED <<backendVars, startup, ticket, ticketUntil, renewal,
                 session, broken, handler, failure, frame, abandoned>>

HandlerStep(r) ==
  Accept(r) \/ LetGo(r) \/ Accepted(r) \/ AcceptRefused(r)

-----------------------------------------------------------------------------
(***************************************************************************)
(* The application and the world.                                          *)
(***************************************************************************)
Stop(r) ==
  /\ startup[r] # "dead" /\ ~stopped[r]
  /\ HaltRuntime(r, lease[r])
  /\ UNCHANGED <<backendVars, startup, ticket, ticketUntil, renewal,
                 session, broken, handler, failure, frame, abandoned>>

\* stop() throws the failure that was kept, once.
Report(r) ==
  /\ frame[r] # "none" /\ failure[r]
  /\ failure' = [failure EXCEPT ![r] = FALSE]
  /\ UNCHANGED <<backendVars, lifeVars, leaseVars, sessionVars, teardown,
                 frame, abandoned>>

\* The operation executor cannot reach its store.
ExecutorFails(r) ==
  /\ open[r]
  /\ failure' = [failure EXCEPT ![r] = TRUE]
  /\ HaltRuntime(r, lease[r])
  /\ UNCHANGED <<backendVars, startup, ticket, ticketUntil, renewal,
                 session, broken, handler, frame, abandoned>>

\* What a runtime, or a call it has under way, remembers having claimed.
Remembered(r) ==
  {lease[r]} \cup {teardown[r][t].claim : t \in Teardowns}
    \cup (IF startup[r] = "acquired" THEN {ticket[r]} ELSE {})

\* The process dies: of the runtime nothing remains.
WorkerDies(r) ==
  /\ startup[r] # "dead"
  /\ abandoned' = abandoned \cup (Remembered(r) \ {NoClaim})
  /\ startup' = [startup EXCEPT ![r] = "dead"]
  /\ ticket' = [ticket EXCEPT ![r] = NoClaim]
  /\ ticketUntil' = [ticketUntil EXCEPT ![r] = 0]
  /\ stopped' = [stopped EXCEPT ![r] = TRUE]
  /\ lease' = [lease EXCEPT ![r] = NoClaim]
  /\ leaseUntil' = [leaseUntil EXCEPT ![r] = 0]
  /\ heartbeat' = [heartbeat EXCEPT ![r] = FALSE]
  /\ renewal' = [renewal EXCEPT ![r] = NoRenewal]
  /\ open' = [open EXCEPT ![r] = FALSE]
  /\ subscribed' = [subscribed EXCEPT ![r] = FALSE]
  /\ session' = [session EXCEPT ![r] = "none"]
  /\ broken' = [broken EXCEPT ![r] = FALSE]
  /\ handler' = [handler EXCEPT ![r] = NoHandler]
  /\ teardown' = [teardown EXCEPT ![r] = [t \in Teardowns |-> Nothing]]
  /\ failure' = [failure EXCEPT ![r] = FALSE]
  /\ frame' = [frame EXCEPT ![r] = "none"]
  /\ UNCHANGED backendVars

AccountStep(r) ==
  \/ StartRuntime(r) \/ StartupStep(r) \/ RenewalStep(r)
  \/ Observe(r) \/ HandlerStep(r) \/ SessionDies(r) \/ SessionWindsDown(r)
  \/ SessionEnded(r) \/ Close(r) \/ \E t \in Teardowns : TeardownStep(r, t)
  \/ Stop(r) \/ Report(r) \/ ExecutorFails(r) \/ WorkerDies(r)

AccountNext ==
  \/ LeaseTick /\ UNCHANGED <<lifeVars, leaseVars, sessionVars, endVars>>
  \/ \E r \in Holders : AccountStep(r)

AccountSpec == AccountInit /\ [][AccountNext]_accountVars

(***************************************************************************)
(* Fairness. A backend call and a handler settle, timers fire, the socket  *)
(* closes once asked to. Nothing is assumed of a startup: the application's *)
(* openSession may never return.                                           *)
(***************************************************************************)
AccountLive ==
  /\ AccountSpec
  /\ \A r \in Holders :
       /\ WF_accountVars(RenewalStep(r)) /\ WF_accountVars(HandlerStep(r))
       /\ WF_accountVars(SessionWindsDown(r)) /\ WF_accountVars(SessionEnded(r))
       /\ WF_accountVars(Close(r))
       /\ \A t \in Teardowns : WF_accountVars(TeardownStep(r, t))

-----------------------------------------------------------------------------
(***************************************************************************)
(* Properties.                                                             *)
(***************************************************************************)
\* No claim is leaked: a lease in force is known to a runtime that will give
\* it back, whichever await of a startup, renewal or teardown a stop landed
\* at; only a crash or a lost answer leaves one to lapse.
HeldIsRemembered ==
  InForce => holder \in abandoned \cup UNION {Remembered(r) : r \in Holders}

\* Once a successor has opened WhatsApp, nothing a superseded runtime still
\* has buffered or in flight reaches the mirror.
SuccessorIsFenced ==
  [][\A r \in Holders :
       batches' # batches /\ session[r] \in {"live", "stopping", "failing"}
         => batches'[Len(batches')] >= ticket[r]]_accountVars

\* Where a runtime has closed and no startup is under way, nothing is left
\* behind: no Session, timer, claim or subscription.
Settled(r) ==
  /\ frame[r] # "none"
  /\ startup[r] \in {"idle", "up"}

NothingIsLeft ==
  \A r \in Holders :
    Settled(r) =>
      /\ session[r] \in {"none", "ended"}
      /\ ~open[r] /\ ~subscribed[r] /\ ~heartbeat[r]
      /\ Remembered(r) = {NoClaim}

\* A Session that ended in a failure is seen by the watchers of its runtime:
\* the terminal frame carries an error.
DeathIsVisible ==
  \A r \in Holders : broken[r] => frame[r] # "closed"

\* Whatever it was doing, a runtime that was stopped publishes its terminal
\* frame, though a startup may hang in openSession for ever.
StopSettles ==
  \A r \in Holders :
    stopped[r] ~> (frame[r] # "none" \/ startup[r] = "dead")

\* "A lost or expired lease closes the socket" (ADR-0009).
LeaseLost(r) == ~(InForce /\ holder = ticket[r])

LostLeaseCloses ==
  \A r \in Holders :
    (session[r] = "live" /\ LeaseLost(r)) ~> (session[r] # "live")

\* After every await the runtime asks whether it still owns the account
\* (runtime.ts:388-392), and "a later claim may have cleared/replaced this lease
\* while the backend call was in flight" (runtime.ts:701): once a runtime holds a
\* later lease, whatever comes of the renewal of the one before stops nothing.
HoldsLaterLease(r) == lease[r] \notin {NoClaim, renewal[r].claim}

StaleRenewalIsIgnored ==
  [][\A r \in Holders :
       (/\ renewal[r].step # "none" /\ renewal'[r].step = "none"
        /\ HoldsLaterLease(r) /\ startup'[r] # "dead")
         => stopped'[r] = stopped[r]]_accountVars
=============================================================================
