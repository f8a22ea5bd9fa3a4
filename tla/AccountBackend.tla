--------------------------- MODULE AccountBackend ---------------------------
(***************************************************************************)
(* The two durable capabilities that make one runtime the writer of an     *)
(* account: the lease store and the fenced mirror. Each method is one      *)
(* transaction (memory.ts, libsql.ts), so each is one step here.           *)
(*                                                                         *)
(* A lease is known by its fencing token. Runtimes and backend are given   *)
(* one clock: the code compares a backend's expiresAt with the runtime's   *)
(* own Date.now().                                                         *)
(***************************************************************************)
EXTENDS Naturals, Sequences

CONSTANTS
  LeaseTtl,
  MaxTime,      \* bounds on the clock and on the claims ever issued, for
  MaxIssued     \* model checking

ASSUME BackendAssumption ==
  /\ LeaseTtl \in Nat \ {0}
  /\ {MaxTime, MaxIssued} \subseteq Nat

VARIABLES
  now,
  issued,        \* the last fencing token given out
  holder,        \* token of the lease on record, or NoClaim
  heldUntil,     \* its expiry
  newestClaim,   \* the highest token the mirror has heard of
  batches        \* the accepted batches, each as the token it came under

backendVars == <<now, issued, holder, heldUntil, newestClaim, batches>>

NoClaim == 0

BackendTypeOK ==
  /\ {now, issued, holder, heldUntil, newestClaim} \subseteq Nat
  /\ batches \in Seq(Nat)

BackendInit ==
  /\ now = 0
  /\ issued = NoClaim
  /\ holder = NoClaim
  /\ heldUntil = 0
  /\ newestClaim = NoClaim
  /\ batches = <<>>

LeaseTick ==
  /\ now < MaxTime
  /\ now' = now + 1
  /\ UNCHANGED <<issued, holder, heldUntil, newestClaim, batches>>

(***************************************************************************)
(* leases.acquire: refused while a lease is in force.                      *)
(***************************************************************************)
InForce == holder # NoClaim /\ heldUntil > now

LeaseAcquire ==
  /\ ~InForce
  /\ issued < MaxIssued
  /\ issued' = issued + 1
  /\ holder' = issued'
  /\ heldUntil' = now + LeaseTtl
  /\ UNCHANGED <<now, newestClaim, batches>>

(***************************************************************************)
(* leases.renew: only for the token on record, and only while it is in     *)
(* force. The memory store also drops a lapsed lease from its record and   *)
(* libSQL leaves it there; no method can tell the two apart.               *)
(***************************************************************************)
Renewable(token) == holder = token /\ InForce

LeaseRenew(token) ==
  /\ Renewable(token)
  /\ heldUntil' = now + LeaseTtl
  /\ UNCHANGED <<now, issued, holder, newestClaim, batches>>

LeaseRenewRefused(token) ==
  /\ ~Renewable(token)
  /\ UNCHANGED backendVars

LeaseRelease(token) ==
  /\ \/ holder = token /\ holder' = NoClaim /\ heldUntil' = 0
     \/ holder # token /\ UNCHANGED <<holder, heldUntil>>
  /\ UNCHANGED <<now, issued, newestClaim, batches>>

(***************************************************************************)
(* data.claim and data.accept: a superseded token is refused, any other    *)
(* becomes the newest one.                                                 *)
(***************************************************************************)
\* A mirror that lets a superseded writer in.
NeverSuperseded(token) == FALSE

Superseded(token) == token < newestClaim

DataClaim(token) ==
  /\ ~Superseded(token)
  /\ newestClaim' = token
  /\ UNCHANGED <<now, issued, holder, heldUntil, batches>>

DataAccept(token) ==
  /\ ~Superseded(token)
  /\ batches' = Append(batches, token)
  /\ newestClaim' = token
  /\ UNCHANGED <<now, issued, holder, heldUntil>>

-----------------------------------------------------------------------------
BackendStep(token) ==
  \/ LeaseRenew(token) \/ LeaseRelease(token)
  \/ DataClaim(token) \/ DataAccept(token)

BackendNext ==
  \/ LeaseTick
  \/ LeaseAcquire
  \/ \E token \in 1 .. issued : BackendStep(token)

BackendSpec == BackendInit /\ [][BackendNext]_backendVars
=============================================================================
