---------------------------- MODULE TablesProofs ----------------------------
(***************************************************************************)
(* The transactions of LibsqlTables implement AccountBackend, for any       *)
(* number of holders and any bounds.                                       *)
(***************************************************************************)
EXTENDS LibsqlTables, TLAPS

USE TablesAssumption

(***************************************************************************)
(* The invariant: what a call goes by is a token that was granted, and     *)
(* what a transaction has read of the account is still so, for no other is *)
(* open beside it.                                                         *)
(***************************************************************************)
CallsHold ==
  \A h \in Holders :
    work[h] = NoWork \/ work[h].kind = "acquire"
      \/ /\ work[h].kind \in {"renew", "release", "claim", "accept"}
         /\ work[h].token \in granted[h]

ReadingHolds ==
  /\ \A h \in Holders : seen[h] # Unread => h \in open /\ seen[h] = newest
  /\ \A h, g \in open : h = g

LeaseHolds ==
  /\ lease.holder # Nobody => lease.counter # NoLease
  /\ \A h \in Holders : granted[h] \subseteq 1 .. lease.counter

Typed ==
  /\ now \in Nat
  /\ lease \in [holder : Holders \cup {Nobody}, counter : 0 .. MaxIssued, expires : Nat]
  /\ newest \in Nat
  /\ granted \in [Holders -> SUBSET Nat]
  /\ DOMAIN work = Holders
  /\ open \subseteq Holders
  /\ seen \in [Holders -> Nat]

TablesInv == Typed /\ LeaseHolds /\ CallsHold /\ ReadingHolds

LEMMA InitTables == TablesInit => TablesInv
BY DEF TablesInit, TablesInv, Typed, LeaseHolds, CallsHold, ReadingHolds, NoRow,
       NoWork, NoLease, Unread

(***************************************************************************)
(* Every end of a transaction, whatever it wrote, leaves what other holders *)
(* do alone.                                                               *)
(***************************************************************************)
LEMMA EndKeeps ==
  ASSUME TablesInv, NEW h \in Holders, EndTransaction(h),
         granted' = granted \/
           \E token \in Nat : granted' = [granted EXCEPT ![h] = @ \cup {token}],
         newest' = newest \/ h \in open
  PROVE  CallsHold' /\ ReadingHolds'
         /\ DOMAIN work' = Holders /\ open' \subseteq Holders /\ seen' \in [Holders -> Nat]
<1> USE DEF TablesInv, Typed, EndTransaction
<1>1. CallsHold'
  BY DEF CallsHold
<1>2. ReadingHolds'
  BY DEF ReadingHolds
<1>3. seen' \in [Holders -> Nat]
  BY DEF Unread
<1> QED BY <1>1, <1>2, <1>3

LEMMA StepKeeps == TablesInv /\ [TablesNext]_tablesVars => TablesInv'
<1> SUFFICES ASSUME TablesInv, [TablesNext]_tablesVars PROVE TablesInv'
  OBVIOUS
<1> USE DEF TablesInv, Typed
<1>1. CASE TablesTick
  BY <1>1 DEF TablesTick, tables, LeaseHolds, CallsHold, ReadingHolds
<1>2. ASSUME NEW h \in Holders, Call(h) PROVE TablesInv'
  <2>1. CallsHold'
    BY <1>2 DEF Call, Works, CallsHold
  <2> QED BY <1>2, <2>1 DEF Call, tables, LeaseHolds, ReadingHolds
<1>3. ASSUME NEW h \in Holders, BeginTransaction(h) PROVE TablesInv'
  BY <1>3 DEF BeginTransaction, MayBegin, tables, LeaseHolds, CallsHold, ReadingHolds
<1>4. ASSUME NEW h \in Holders, ReadAccount(h) PROVE TablesInv'
  BY <1>4 DEF ReadAccount, tables, LeaseHolds, CallsHold, ReadingHolds
<1>5. ASSUME NEW h \in Holders, RollBack(h) PROVE TablesInv'
  BY <1>5, EndKeeps DEF RollBack, EndTransaction, tables, LeaseHolds
<1>6. ASSUME NEW h \in Holders, CommitAcquire(h) PROVE TablesInv'
  <2>1. EndTransaction(h)
    BY <1>6 DEF CommitAcquire, Commits
  <2>2. /\ lease' = [holder |-> h, counter |-> lease.counter + 1, expires |-> now + LeaseTtl]
        /\ granted' = [granted EXCEPT ![h] = @ \cup {lease.counter + 1}]
        /\ newest' = newest /\ lease.counter < MaxIssued
    BY <1>6 DEF CommitAcquire
  <2>3. lease' \in [holder : Holders \cup {Nobody}, counter : 0 .. MaxIssued, expires : Nat]
    BY <2>2
  <2>4. LeaseHolds'
    BY <2>2 DEF LeaseHolds, NoLease
  <2>5. granted' \in [Holders -> SUBSET Nat]
    BY <2>2
  <2> QED BY <2>1, <2>2, <2>3, <2>4, <2>5, EndKeeps DEF EndTransaction
<1>7. ASSUME NEW h \in Holders, CommitRefusal(h) PROVE TablesInv'
  BY <1>7, EndKeeps DEF CommitRefusal, Commits, EndTransaction, tables, LeaseHolds
<1>8. ASSUME NEW h \in Holders, CommitRenew(h) PROVE TablesInv'
  <2>1. lease' = [lease EXCEPT !.expires = now + LeaseTtl] \/ lease' = lease
    BY <1>8 DEF CommitRenew
  <2>2. /\ lease' \in [holder : Holders \cup {Nobody}, counter : 0 .. MaxIssued, expires : Nat]
        /\ lease'.holder = lease.holder /\ lease'.counter = lease.counter
    BY <2>1
  <2>3. LeaseHolds'
    BY <1>8, <2>2 DEF CommitRenew, LeaseHolds
  <2> QED BY <1>8, <2>2, <2>3, EndKeeps DEF CommitRenew, Commits, EndTransaction
<1>9. ASSUME NEW h \in Holders, CommitRelease(h) PROVE TablesInv'
  BY <1>9, EndKeeps DEF CommitRelease, Commits, EndTransaction, Freed, LeaseHolds
<1>10. ASSUME NEW h \in Holders, CommitClaim(h) PROVE TablesInv'
  <2>1. work[h].token \in Nat
    BY <1>10 DEF CommitClaim, Commits, CallsHold, NoWork
  <2> QED BY <1>10, <2>1, EndKeeps DEF CommitClaim, Commits, EndTransaction, LeaseHolds
<1>11. ASSUME NEW h \in Holders, CommitAccept(h) PROVE TablesInv'
  <2>1. work[h].token \in Nat
    BY <1>11 DEF CommitAccept, Commits, CallsHold, NoWork
  <2> QED BY <1>11, <2>1, EndKeeps DEF CommitAccept, Commits, EndTransaction, LeaseHolds
<1>12. CASE UNCHANGED tablesVars
  BY <1>12 DEF tablesVars, tables, LeaseHolds, CallsHold, ReadingHolds
<1> QED
  BY <1>1, <1>2, <1>3, <1>4, <1>5, <1>6, <1>7, <1>8, <1>9, <1>10, <1>11, <1>12
  DEF TablesNext

LEMMA TablesInvariance == TablesSpec => []TablesInv
BY InitTables, StepKeeps, PTL DEF TablesSpec

(***************************************************************************)
(* Refinement.                                                             *)
(***************************************************************************)
LEMMA InitBackend == TablesInit => Backend!BackendInit
BY DEF TablesInit, Backend!BackendInit, NoRow, NoLease, Backend!NoClaim

LEMMA StepBackend ==
  TablesInv /\ [TablesNext]_tablesVars => [Backend!BackendNext]_(Backend!backendVars)
<1> SUFFICES ASSUME TablesInv, [TablesNext]_tablesVars
             PROVE  [Backend!BackendNext]_(Backend!backendVars)
  OBVIOUS
<1> USE DEF TablesInv, Typed, Backend!BackendNext
<1>0. ASSUME UNCHANGED <<now, tables>> PROVE UNCHANGED Backend!backendVars
  BY <1>0 DEF tables, Backend!backendVars
<1>1. CASE TablesTick
  BY <1>1 DEF TablesTick, tables, Backend!LeaseTick
<1>2. ASSUME NEW h \in Holders,
             Call(h) \/ BeginTransaction(h) \/ ReadAccount(h) \/ RollBack(h) \/ CommitRefusal(h)
      PROVE  UNCHANGED <<now, tables>>
  BY <1>2 DEF Call, BeginTransaction, ReadAccount, RollBack, CommitRefusal, Commits,
              EndTransaction, tables
<1>3. ASSUME NEW h \in Holders, CommitAcquire(h) PROVE Backend!BackendNext
  BY <1>3 DEF CommitAcquire, Acquirable, Commits, EndTransaction, NoLease,
              Backend!LeaseAcquire, Backend!InForce, Backend!NoClaim
<1>4. ASSUME NEW h \in Holders, NEW kind \in {"renew", "release", "claim", "accept"},
             Commits(h, kind)
      PROVE  work[h].token \in 1 .. lease.counter /\ now' = now
  BY <1>4 DEF Commits, EndTransaction, CallsHold, LeaseHolds, NoWork
<1>5. ASSUME NEW h \in Holders, CommitRenew(h)
      PROVE  Backend!BackendNext \/ UNCHANGED <<now, tables>>
  <2>1. work[h].token \in 1 .. lease.counter /\ now' = now
    BY <1>4, <1>5 DEF CommitRenew
  <2>2. CASE OnRecord(h) /\ lease.expires > now
    BY <1>5, <2>1, <2>2 DEF CommitRenew, OnRecord, LeaseHolds, NoLease, Backend!BackendStep,
       Backend!LeaseRenew, Backend!Renewable, Backend!InForce, Backend!NoClaim
  <2>3. CASE ~(OnRecord(h) /\ lease.expires > now)
    BY <1>5, <2>1, <2>3 DEF CommitRenew, tables
  <2> QED BY <2>2, <2>3
<1>6. ASSUME NEW h \in Holders, CommitRelease(h)
      PROVE  Backend!BackendNext \/ UNCHANGED <<now, tables>>
  <2>1. work[h].token \in 1 .. lease.counter /\ now' = now
    BY <1>4, <1>6 DEF CommitRelease
  <2>2. CASE OnRecord(h)
    BY <1>6, <2>1, <2>2 DEF CommitRelease, OnRecord, Freed, NoLease, Backend!BackendStep,
       Backend!LeaseRelease, Backend!NoClaim
  <2>3. CASE ~OnRecord(h)
    BY <1>6, <2>1, <2>3 DEF CommitRelease, tables
  <2> QED BY <2>2, <2>3
<1>7. ASSUME NEW h \in Holders, CommitClaim(h) \/ CommitAccept(h)
      PROVE  seen[h] = newest /\ work[h].token \in 1 .. lease.counter /\ now' = now
             /\ work[h].token >= newest
  <2>1. work[h].token \in 1 .. lease.counter /\ now' = now
    BY <1>4, <1>7 DEF CommitClaim, CommitAccept
  <2>2. seen[h] # Unread
    BY <1>7, <2>1 DEF CommitClaim, CommitAccept, Unread
  <2> QED BY <1>7, <2>1, <2>2 DEF CommitClaim, CommitAccept, ReadingHolds
<1>8. ASSUME NEW h \in Holders, CommitClaim(h) PROVE Backend!BackendNext
  BY <1>7, <1>8 DEF CommitClaim, Backend!BackendStep, Backend!DataClaim, Backend!Superseded
<1>9. ASSUME NEW h \in Holders, CommitAccept(h) PROVE Backend!BackendNext
  BY <1>7, <1>9 DEF CommitAccept, Backend!BackendStep, Backend!DataAccept, Backend!Superseded
<1>10. CASE UNCHANGED tablesVars
  BY <1>10, <1>0 DEF tablesVars
<1> QED
  BY <1>0, <1>1, <1>2, <1>3, <1>5, <1>6, <1>8, <1>9, <1>10 DEF TablesNext

\* The tables of one database, written by the transactions of any number of
\* runtimes, are the backend that AccountRuntime relies on: each transaction is
\* one of its steps or none (libsql.ts: acquire, renew, release, claim, accept).
THEOREM TablesAreTheBackend == TablesSpec => ImplementsBackend
<1>1. TablesSpec => Backend!BackendSpec
  BY InitBackend, StepBackend, TablesInvariance, PTL DEF TablesSpec, Backend!BackendSpec
<1> QED BY <1>1 DEF ImplementsBackend
=============================================================================
