-------------------------- MODULE CredentialStore ---------------------------
(***************************************************************************)
(* What the port CredentialStore (ports.ts) promises a session: entries    *)
(* that a write changes all together, that a read tells as they are, and    *)
(* that no restart changes. Only a clear is more than one step: once it was *)
(* begun, and until one has succeeded, entries may go missing; they never   *)
(* change otherwise and never come back. The memory and libSQL stores       *)
(* (memory.ts, libsql.ts) do each call in one step of these.                *)
(***************************************************************************)
EXTENDS Functions

CONSTANTS
  Keys,
  Values,
  Absent

VARIABLES
  entries,
  clearing,   \* a clear was begun that has not succeeded
  told        \* the call this step answers, and how

credentialVars == <<entries, clearing, told>>

Entries == [Keys -> Values \cup {Absent}]
Nothing == [k \in Keys |-> Absent]
Updates == UNION {[S -> Values \cup {Absent}] : S \in SUBSET Keys}

CredentialInit ==
  /\ entries \in Entries
  /\ clearing = FALSE
  /\ told = <<>>

Read(k) ==
  /\ told' = <<"read", k, entries[k]>>
  /\ UNCHANGED <<entries, clearing>>

Write(batch) ==
  /\ entries' = [k \in Keys |-> IF k \in DOMAIN batch THEN batch[k] ELSE entries[k]]
  /\ told' = <<"write", batch>>
  /\ UNCHANGED clearing

BeginClear == clearing' = TRUE /\ told' = <<>> /\ UNCHANGED entries

\* A part of what a clear was to remove is gone, with or without an end to it.
Forget(S) ==
  /\ clearing
  /\ entries' = [k \in Keys |-> IF k \in S THEN Absent ELSE entries[k]]
  /\ clearing' \in BOOLEAN
  /\ told' = <<>>

Clear ==
  /\ entries' = Nothing
  /\ clearing' = FALSE
  /\ told' = <<"clear">>

Silence == told' = <<>> /\ UNCHANGED <<entries, clearing>>

CredentialNext ==
  \/ Silence
  \/ \E k \in Keys : Read(k)
  \/ \E batch \in Updates : Write(batch)
  \/ BeginClear
  \/ \E S \in SUBSET Keys : Forget(S)
  \/ Clear

CredentialSpec == CredentialInit /\ [][CredentialNext]_credentialVars
=============================================================================
