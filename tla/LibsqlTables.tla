---------------------------- MODULE LibsqlTables ----------------------------
(***************************************************************************)
(* The lease store and the fenced mirror as tables of a libSQL database     *)
(* (runtime/libsql.ts). Each call is a transaction of some statements       *)
(* (libsql-transaction.ts). SQLite's part is external: a transaction for    *)
(* writing has the database to itself, what it wrote is there from its       *)
(* commit on, and who has to wait too long for it is refused. A transaction *)
(* is short next to a tick of the clock.                                    *)
(***************************************************************************)
EXTENDS Naturals, Sequences

CONSTANTS
  Holders,      \* runtimes, each over a connection of its own
  Nobody,
  LeaseTtl,
  MaxTime,      \* bounds for model checking: on the clock, on the leases ever
  MaxIssued,    \* granted and on the batches ever accepted
  MaxBatches

ASSUME TablesAssumption ==
  /\ Nobody \notin Holders
  /\ LeaseTtl \in Nat \ {0}
  /\ {MaxTime, MaxIssued, MaxBatches} \subseteq Nat

VARIABLES
  now,
  lease,        \* the row of wa_account_leases
  newest,       \* wa_accounts.newest_fencing_token
  accepted,     \* wa_accepted_batches: the token of each
  granted,      \* the tokens each holder was granted
  work,         \* the call of each holder that is under way
  open,         \* the holders whose transaction has begun
  seen          \* the newest token as each transaction has read it

tables == <<lease, newest, accepted>>
tablesVars == <<now, tables, granted, work, open, seen>>

NoLease == 0
Unread == MaxIssued + 1   \* no token is as new, so nothing is done on it
NoWork == [kind |-> "none"]
NoRow == [holder |-> Nobody, counter |-> NoLease, expires |-> 0]

Works(h) ==
  {[kind |-> "acquire"]}
    \cup [kind : {"renew", "release", "claim", "accept"}, token : granted[h]]

TablesTypeOK ==
  /\ now \in 0 .. MaxTime
  /\ lease \in [holder : Holders \cup {Nobody}, counter : 0 .. MaxIssued, expires : Nat]
  /\ newest \in 0 .. MaxIssued
  /\ accepted \in Seq(1 .. MaxIssued)
  /\ granted \in [Holders -> SUBSET (1 .. MaxIssued)]
  /\ open \subseteq {h \in Holders : work[h] # NoWork}
  /\ seen \in [Holders -> 0 .. Unread]

TablesInit ==
  /\ now = 0
  /\ lease = NoRow
  /\ newest = 0
  /\ accepted = <<>>
  /\ granted = [h \in Holders |-> {}]
  /\ work = [h \in Holders |-> NoWork]
  /\ open = {}
  /\ seen = [h \in Holders |-> Unread]

TablesTick ==
  /\ now < MaxTime
  /\ now' = now + 1
  /\ UNCHANGED <<tables, granted, work, open, seen>>

Call(h) ==
  /\ work[h] = NoWork
  /\ \E w \in Works(h) : work' = [work EXCEPT ![h] = w]
  /\ UNCHANGED <<now, tables, granted, open, seen>>

-----------------------------------------------------------------------------
(***************************************************************************)
(* transact(): begin, the work, and commit, or rollback when any of it      *)
(* fails.                                                                  *)
(***************************************************************************)
\* A transaction that takes its lock when it first writes.
MayBeginReading == TRUE

MayBegin == open = {}

BeginTransaction(h) ==
  /\ work[h] # NoWork /\ h \notin open
  /\ MayBegin
  /\ open' = open \cup {h}
  /\ UNCHANGED <<now, tables, granted, work, seen>>

\* accountState
ReadAccount(h) ==
  /\ h \in open /\ work[h].kind \in {"claim", "accept"}
  /\ seen' = [seen EXCEPT ![h] = newest]
  /\ UNCHANGED <<now, tables, granted, work, open>>

EndTransaction(h) ==
  /\ work' = [work EXCEPT ![h] = NoWork]
  /\ open' = open \ {h}
  /\ seen' = [seen EXCEPT ![h] = Unread]
  /\ UNCHANGED now

\* The busy timeout, a superseded token, a failing statement, a dying process.
RollBack(h) ==
  /\ work[h] # NoWork
  /\ EndTransaction(h)
  /\ UNCHANGED <<tables, granted>>

Commits(h, kind) == h \in open /\ work[h].kind = kind /\ EndTransaction(h)

(***************************************************************************)
(* acquire: the row is taken over when nobody holds it or its lease has     *)
(* lapsed, and the counter in it goes on.                                  *)
(***************************************************************************)
Acquirable == lease.holder = Nobody \/ lease.expires <= now

CommitAcquire(h) ==
  /\ Acquirable /\ lease.counter < MaxIssued
  /\ Commits(h, "acquire")
  /\ lease' = [holder |-> h, counter |-> lease.counter + 1, expires |-> now + LeaseTtl]
  /\ granted' = [granted EXCEPT ![h] = @ \cup {lease'.counter}]
  /\ UNCHANGED <<newest, accepted>>

CommitRefusal(h) ==
  /\ ~Acquirable
  /\ Commits(h, "acquire")
  /\ UNCHANGED <<tables, granted>>

(***************************************************************************)
(* renew and release: the row has to name the same holder and token.       *)
(***************************************************************************)
OnRecord(h) == lease.holder = h /\ lease.counter = work[h].token

CommitRenew(h) ==
  /\ Commits(h, "renew")
  /\ lease' = IF OnRecord(h) /\ lease.expires > now
              THEN [lease EXCEPT !.expires = now + LeaseTtl]
              ELSE lease
  /\ UNCHANGED <<newest, accepted, granted>>

Freed == [lease EXCEPT !.holder = Nobody, !.expires = 0]

CommitRelease(h) ==
  /\ Commits(h, "release")
  /\ lease' = IF OnRecord(h) THEN Freed ELSE lease
  /\ UNCHANGED <<newest, accepted, granted>>

(***************************************************************************)
(* claim and accept: a token older than the one read is refused.           *)
(***************************************************************************)
CommitClaim(h) ==
  /\ Commits(h, "claim") /\ work[h].token >= seen[h]
  /\ newest' = work[h].token
  /\ UNCHANGED <<lease, accepted, granted>>

CommitAccept(h) ==
  /\ Commits(h, "accept") /\ work[h].token >= seen[h]
  /\ Len(accepted) < MaxBatches
  /\ accepted' = Append(accepted, work[h].token)
  /\ newest' = IF work[h].token > seen[h] THEN work[h].token ELSE seen[h]
  /\ UNCHANGED <<lease, granted>>

TablesNext ==
  \/ TablesTick
  \/ \E h \in Holders :
       \/ Call(h) \/ BeginTransaction(h) \/ ReadAccount(h) \/ RollBack(h)
       \/ CommitAcquire(h) \/ CommitRefusal(h) \/ CommitRenew(h) \/ CommitRelease(h)
       \/ CommitClaim(h) \/ CommitAccept(h)

TablesSpec == TablesInit /\ [][TablesNext]_tablesVars

-----------------------------------------------------------------------------
Backend == INSTANCE AccountBackend WITH
  issued <- lease.counter,
  holder <- IF lease.holder = Nobody THEN NoLease ELSE lease.counter,
  heldUntil <- lease.expires,
  newestClaim <- newest,
  batches <- accepted

\* The transactions of all runtimes on one database implement the backend they
\* rely on: each is one of its steps or none, no token is granted twice, and
\* what a newer claim has superseded writes nothing, however they interleave
\* and whichever of them fail.
ImplementsBackend == Backend!BackendSpec
=============================================================================
