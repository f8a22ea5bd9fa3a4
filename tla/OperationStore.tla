--------------------------- MODULE OperationStore ---------------------------
(***************************************************************************)
(* The durable operation store of one account: the receipts of everything  *)
(* a client asked WhatsApp to do, and the transactions that move them.     *)
(* Both implementations (memory.ts, libsql-operations.ts) run each method  *)
(* as one serialised transaction, so each method is one action here.       *)
(*                                                                         *)
(* Time is a countdown: remaining[o] is the entry's expiresAt minus the    *)
(* store's clock, cut off at 0, so that "expiresAt <= now" is remaining = 0 *)
(* and the state space needs no bound on the clock.                        *)
(***************************************************************************)
EXTENDS Naturals

CONSTANTS
  Operations,   \* operation ids; an id is a digest of the idempotency key
  Attempts,     \* attempt ids (a random UUID in the code), as numbers
  Ttl           \* lease given to a claim and to an execution, in clock ticks

ASSUME TtlAssumption == Ttl \in Nat \ {0}
ASSUME AttemptsAssumption == Attempts \subseteq Nat \ {0}

VARIABLES
  status,        \* [Operations -> Statuses]
  attempt,       \* the attempt that leases the entry, or NoAttempt
  remaining,     \* ticks left of that lease
  sequence,      \* submission order, 0 for an operation never submitted
  nextSequence,
  acknowledged   \* the client has taken note of the terminal receipt

storeVars ==
  <<status, attempt, remaining, sequence, nextSequence, acknowledged>>

NoAttempt == 0
Leased    == {"claimed", "executing"}
Terminal  == {"succeeded", "failed", "outcome_unknown"}
Statuses  == {"absent", "queued"} \cup Leased \cup Terminal

StoreTypeOK ==
  /\ status       \in [Operations -> Statuses]
  /\ attempt      \in [Operations -> Attempts \cup {NoAttempt}]
  /\ remaining    \in [Operations -> 0 .. Ttl]
  /\ sequence     \in [Operations -> Nat]
  /\ nextSequence \in Nat
  /\ acknowledged \in [Operations -> BOOLEAN]

StoreInit ==
  /\ status       = [o \in Operations |-> "absent"]
  /\ attempt      = [o \in Operations |-> NoAttempt]
  /\ remaining    = [o \in Operations |-> 0]
  /\ sequence     = [o \in Operations |-> 0]
  /\ nextSequence = 1
  /\ acknowledged = [o \in Operations |-> FALSE]

(***************************************************************************)
(* Replacing an entry's state: a state without a lease carries no attempt. *)
(***************************************************************************)
Become(o, s) ==
  /\ status'    = [status EXCEPT ![o] = s]
  /\ attempt'   = [attempt EXCEPT ![o] = NoAttempt]
  /\ remaining' = [remaining EXCEPT ![o] = 0]
  /\ UNCHANGED <<sequence, nextSequence, acknowledged>>

(***************************************************************************)
(* A submission under a new idempotency key. Under a known key the store   *)
(* answers with the receipt it has, or refuses a different input: neither  *)
(* changes anything.                                                       *)
(***************************************************************************)
StoreSubmit(o) ==
  /\ status[o] = "absent"
  /\ status'       = [status EXCEPT ![o] = "queued"]
  /\ sequence'     = [sequence EXCEPT ![o] = nextSequence]
  /\ nextSequence' = nextSequence + 1
  /\ UNCHANGED <<attempt, remaining, acknowledged>>

(***************************************************************************)
(* claim: first recover every lapsed lease, then lease the queued entry    *)
(* that was submitted first.                                               *)
(***************************************************************************)
Lapsed(o) == status[o] \in Leased /\ remaining[o] = 0

\* A recovery that forgets that an execution may have reached WhatsApp.
RequeueEveryLapse ==
  [o \in Operations |-> IF Lapsed(o) THEN "queued" ELSE status[o]]

Recovered ==
  [o \in Operations |->
     CASE Lapsed(o) /\ status[o] = "claimed"   -> "queued"
       [] Lapsed(o) /\ status[o] = "executing" -> "outcome_unknown"
       [] OTHER                                -> status[o]]

RecoveredAttempt ==
  [o \in Operations |-> IF Lapsed(o) THEN NoAttempt ELSE attempt[o]]

FirstQueued ==
  {o \in Operations :
     /\ Recovered[o] = "queued"
     /\ \A p \in Operations :
          Recovered[p] = "queued" => sequence[o] <= sequence[p]}

StoreClaim(o, a) ==
  /\ o \in FirstQueued
  /\ status'    = [Recovered EXCEPT ![o] = "claimed"]
  /\ attempt'   = [RecoveredAttempt EXCEPT ![o] = a]
  /\ remaining' = [remaining EXCEPT ![o] = Ttl]
  /\ UNCHANGED <<sequence, nextSequence, acknowledged>>

StoreClaimNothing ==
  /\ FirstQueued = {}
  /\ status'  = Recovered
  /\ attempt' = RecoveredAttempt
  /\ UNCHANGED <<remaining, sequence, nextSequence, acknowledged>>

(***************************************************************************)
(* start: the only way into "executing", and only for the attempt that     *)
(* still holds an unexpired claim.                                         *)
(***************************************************************************)
Startable(o, a) ==
  /\ status[o] = "claimed"
  /\ attempt[o] = a
  /\ remaining[o] > 0

StoreStart(o, a) ==
  /\ Startable(o, a)
  /\ status'    = [status EXCEPT ![o] = "executing"]
  /\ remaining' = [remaining EXCEPT ![o] = Ttl]
  /\ UNCHANGED <<attempt, sequence, nextSequence, acknowledged>>

(***************************************************************************)
(* release, fail, succeed and unknown: each leaves one leased status, for  *)
(* the attempt on record only. None of them asks whether the lease has     *)
(* lapsed. For any other attempt the call changes nothing.                 *)
(***************************************************************************)
Held(o, a, leased) == status[o] = leased /\ attempt[o] = a

StoreComplete(o, a, leased, s) ==
  \/ Held(o, a, leased) /\ Become(o, s)
  \/ ~Held(o, a, leased) /\ UNCHANGED storeVars

StoreRelease(o, a) == StoreComplete(o, a, "claimed", "queued")
StoreFail(o, a)    == StoreComplete(o, a, "claimed", "failed")
StoreSucceed(o, a) == StoreComplete(o, a, "executing", "succeeded")
StoreUnknown(o, a) == StoreComplete(o, a, "executing", "outcome_unknown")

(***************************************************************************)
(* acknowledge: a terminal receipt, once.                                  *)
(***************************************************************************)
StoreAcknowledge(o) ==
  /\ status[o] \in Terminal
  /\ ~acknowledged[o]
  /\ acknowledged' = [acknowledged EXCEPT ![o] = TRUE]
  /\ UNCHANGED <<status, attempt, remaining, sequence, nextSequence>>

(***************************************************************************)
(* recoveryDelay: how long until the first lease in force lapses.          *)
(***************************************************************************)
LeasedOperations == {o \in Operations : status[o] \in Leased}

RecoveryDelay(d) ==
  /\ \E o \in LeasedOperations : remaining[o] = d
  /\ \A o \in LeasedOperations : d <= remaining[o]

\* What every change but the passing of time is announced by.
Announced == <<status, attempt, acknowledged>>' # <<status, attempt, acknowledged>>
=============================================================================
