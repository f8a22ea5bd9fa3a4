-------------------------- MODULE FileCredentials ---------------------------
(***************************************************************************)
(* The credential store in files (stores/file.ts). All entries are in one  *)
(* file that is replaced as a whole; a directory left by the first releases *)
(* holds one file per entry, which is looked at for keys the state file     *)
(* does not know, until a clear. Calls of one store wait for one another.   *)
(* Each step is one file operation; the process may die between any two,    *)
(* and any of them may fail.                                               *)
(***************************************************************************)
EXTENDS Sequences, Naturals

CONSTANTS
  Keys,
  Values,
  Absent,      \* no entry: null
  Unset,       \* the state file says nothing of the key
  LegacyOf,    \* the file name each key had; two keys may share one
  Callers,
  Batches,     \* what is written at a time
  MaxCrashes   \* bound on crashes, for model checking

LegacyFiles == {LegacyOf[k] : k \in Keys}

ASSUME FileAssumption ==
  /\ DOMAIN LegacyOf = Keys
  /\ Absent # Unset /\ {Absent, Unset} \cap Values = {}
  /\ Batches \subseteq UNION {[S -> Values \cup {Absent}] : S \in (SUBSET Keys) \ {{}}}
  /\ MaxCrashes \in Nat

VARIABLES
  legacy,      \* the content of each legacy file
  state,       \* the state file
  pending,        \* callers in the order of their calls
  task,        \* what each asked for
  step,        \* where each is in it
  draft,       \* the state each is about to commit
  removing,    \* legacy files each is removing
  stragglers,  \* removals under way of a clear that has already failed
  unfinished,  \* a clear was begun in this process that has not succeeded
  told,        \* the call this step answers, and how
  fileCrashes

diskVars == <<legacy, state>>
taskVars == <<pending, task, step, draft, removing>>
fileVars == <<diskVars, taskVars, stragglers, unfinished, told, fileCrashes>>

Silent == told' = <<>>

NoState == [fallback |-> TRUE, values |-> [k \in Keys |-> Unset], exists |-> FALSE]
EmptyState(fallback) == [NoState EXCEPT !.fallback = fallback, !.exists = TRUE]
NoTask == [type |-> "none"]

States ==
  [fallback : BOOLEAN, values : [Keys -> Values \cup {Absent, Unset}], exists : BOOLEAN]

Tasks ==
  [type : {"read"}, key : Keys] \cup [type : {"write"}, batch : Batches] \cup {[type |-> "clear"]}

FileTypeOK ==
  /\ legacy \in [LegacyFiles -> Values \cup {Absent}]
  /\ state \in States
  /\ step \in [Callers -> {"idle", "called", "looking", "removing", "drafted", "written"}]
  /\ task \in [Callers -> Tasks \cup {NoTask}]
  /\ \A c \in Callers :
       /\ step[c] = "idle" <=> task[c] = NoTask
       /\ step[c] # "idle" <=> \E i \in DOMAIN pending : pending[i] = c
       /\ draft[c] \in States
       /\ removing[c] \subseteq LegacyFiles
       /\ removing[c] # {} => step[c] = "removing"
  /\ stragglers \subseteq LegacyFiles
  /\ unfinished \in BOOLEAN
  /\ fileCrashes \in 0 .. MaxCrashes

\* A new directory, or one a first release has used.
FileInit ==
  /\ legacy \in [LegacyFiles -> Values \cup {Absent}]
  /\ state = NoState
  /\ pending = <<>>
  /\ task = [c \in Callers |-> NoTask]
  /\ step = [c \in Callers |-> "idle"]
  /\ draft = [c \in Callers |-> NoState]
  /\ removing = [c \in Callers |-> {}]
  /\ stragglers = {} /\ unfinished = FALSE
  /\ told = <<>>
  /\ fileCrashes = 0

-----------------------------------------------------------------------------
(***************************************************************************)
(* Calls wait for the one before, however that ends (serialize).           *)
(***************************************************************************)
Ask(c, t) ==
  /\ step[c] = "idle"
  /\ pending' = Append(pending, c)
  /\ task' = [task EXCEPT ![c] = t]
  /\ step' = [step EXCEPT ![c] = "called"]
  /\ UNCHANGED <<diskVars, draft, removing, stragglers, unfinished, fileCrashes>>
  /\ Silent

\* Calls that do not wait.
TurnAtOnce(c) == TRUE

Turn(c) == pending[1] = c

At(c, type, s) == task[c].type = type /\ step[c] = s /\ Turn(c)
Goes(c, s) == step' = [step EXCEPT ![c] = s] /\ UNCHANGED <<pending, task>>

Done(c) ==
  /\ pending' = Tail(pending)
  /\ task' = [task EXCEPT ![c] = NoTask]
  /\ step' = [step EXCEPT ![c] = "idle"]
  /\ draft' = [draft EXCEPT ![c] = NoState]
  /\ removing' = [removing EXCEPT ![c] = {}]

Answer(c, value) ==
  /\ told' = <<"read", task[c].key, value>>
  /\ Done(c)
  /\ UNCHANGED <<diskVars, stragglers, unfinished, fileCrashes>>

Draft(c, new) ==
  /\ draft' = [draft EXCEPT ![c] = new]
  /\ Goes(c, "drafted")
  /\ UNCHANGED <<diskVars, removing, stragglers, unfinished, fileCrashes>>
  /\ Silent

-----------------------------------------------------------------------------
(***************************************************************************)
(* read(): the state file decides on the keys it knows, a deleted one among *)
(* them, and on all keys after a clear; else the legacy file does, and its  *)
(* entry moves to the state file.                                          *)
(***************************************************************************)
ReadState(c) ==
  LET k == task[c].key IN
  /\ At(c, "read", "called")
  /\ IF state.values[k] # Unset
     THEN Answer(c, state.values[k])
     ELSE IF ~state.fallback
     THEN Answer(c, Absent)
     ELSE /\ draft' = [draft EXCEPT ![c] = state]
          /\ Goes(c, "looking")
          /\ UNCHANGED <<diskVars, removing, stragglers, unfinished, fileCrashes>>
          /\ Silent

ReadLegacy(c) ==
  LET k == task[c].key
      found == legacy[LegacyOf[k]]
  IN
  /\ At(c, "read", "looking")
  /\ IF found = Absent
     THEN Answer(c, Absent)
     ELSE Draft(c, [exists |-> TRUE, fallback |-> TRUE,
                    values |-> [draft[c].values EXCEPT ![k] = found]])

(***************************************************************************)
(* write(): an entry deleted is kept as such, for its legacy file is there. *)
(***************************************************************************)
Overlaid(batch) ==
  [state EXCEPT !.exists = TRUE,
                !.values = [k \in Keys |->
                  IF k \in DOMAIN batch THEN batch[k] ELSE state.values[k]]]

WriteDrafts(c) ==
  /\ At(c, "write", "called")
  /\ Draft(c, Overlaid(task[c].batch))

(***************************************************************************)
(* clear(): the legacy files are removed, all at a time, then the state     *)
(* file is made to say that there is nothing, whatever else is found.       *)
(***************************************************************************)
ListLegacy(c) ==
  /\ At(c, "clear", "called")
  /\ removing' = [removing EXCEPT ![c] = {f \in LegacyFiles : legacy[f] # Absent}]
  /\ unfinished' = TRUE
  /\ Goes(c, "removing")
  /\ UNCHANGED <<diskVars, draft, stragglers, fileCrashes>>
  /\ Silent

RemoveFile(c, f) ==
  /\ At(c, "clear", "removing") /\ f \in removing[c]
  /\ legacy' = [legacy EXCEPT ![f] = Absent]
  /\ removing' = [removing EXCEPT ![c] = @ \ {f}]
  /\ UNCHANGED <<state, pending, task, step, draft, stragglers, unfinished, fileCrashes>>
  /\ Silent

ClearDrafts(c) ==
  /\ At(c, "clear", "removing") /\ removing[c] = {}
  /\ Draft(c, EmptyState(FALSE))

StragglerRemoves(f) ==
  /\ f \in stragglers
  /\ legacy' = [legacy EXCEPT ![f] = Absent]
  /\ stragglers' = stragglers \ {f}
  /\ UNCHANGED <<state, taskVars, unfinished, fileCrashes>>
  /\ Silent

-----------------------------------------------------------------------------
(***************************************************************************)
(* commit(): a temporary file, on the disk before it takes the name of the  *)
(* state file.                                                             *)
(***************************************************************************)
WriteTemporary(c) ==
  /\ step[c] = "drafted" /\ Turn(c)
  /\ Goes(c, "written")
  /\ UNCHANGED <<diskVars, draft, removing, stragglers, unfinished, fileCrashes>>
  /\ Silent

Rename(c) ==
  /\ step[c] = "written" /\ Turn(c)
  /\ state' = draft[c]
  /\ told' = CASE task[c].type = "read" -> <<"read", task[c].key, draft[c].values[task[c].key]>>
               [] task[c].type = "write" -> <<"write", task[c].batch>>
               [] task[c].type = "clear" -> <<"clear">>
  /\ unfinished' = IF task[c].type = "clear" THEN FALSE ELSE unfinished
  /\ Done(c)
  /\ UNCHANGED <<legacy, stragglers, fileCrashes>>

\* A file operation fails. Of a clear, the other removals go on.
FileFails(c) ==
  /\ step[c] # "idle" /\ Turn(c)
  /\ stragglers' \in IF removing[c] = {} THEN {stragglers}
                     ELSE {stragglers \cup (removing[c] \ {f}) : f \in removing[c]}
  /\ Done(c)
  /\ UNCHANGED <<diskVars, unfinished, fileCrashes>>
  /\ Silent

FileCrash ==
  /\ fileCrashes < MaxCrashes
  /\ fileCrashes' = fileCrashes + 1
  /\ pending' = <<>>
  /\ task' = [c \in Callers |-> NoTask]
  /\ step' = [c \in Callers |-> "idle"]
  /\ draft' = [c \in Callers |-> NoState]
  /\ removing' = [c \in Callers |-> {}]
  /\ stragglers' = {} /\ unfinished' = FALSE
  /\ UNCHANGED diskVars
  /\ Silent

FileNext ==
  \/ \E c \in Callers :
       \/ \E t \in Tasks : Ask(c, t)
       \/ ReadState(c) \/ ReadLegacy(c) \/ WriteDrafts(c)
       \/ ListLegacy(c) \/ ClearDrafts(c)
       \/ \E f \in LegacyFiles : RemoveFile(c, f)
       \/ WriteTemporary(c) \/ Rename(c) \/ FileFails(c)
  \/ \E f \in LegacyFiles : StragglerRemoves(f)
  \/ FileCrash

FileSpec == FileInit /\ [][FileNext]_fileVars

-----------------------------------------------------------------------------
(***************************************************************************)
(* An entry is what the state file says of it, or else its legacy file. One *)
(* that a read has found and is about to move is already safe from removals *)
(* still under way.                                                        *)
(***************************************************************************)
Moving(k) ==
  {c \in Callers : /\ task[c].type = "read" /\ task[c].key = k
                   /\ step[c] \in {"drafted", "written"}}

Entry(k) ==
  IF state.values[k] # Unset THEN state.values[k]
  ELSE IF ~state.fallback THEN Absent
  ELSE IF Moving(k) # {} THEN draft[CHOOSE c \in Moving(k) : TRUE].values[k]
  ELSE legacy[LegacyOf[k]]

Port == INSTANCE CredentialStore WITH
  entries <- [k \in Keys |-> Entry(k)],
  clearing <- unfinished

\* The files implement the port: a batch is written as a whole or not at all, a
\* read tells what was last written, whatever calls and crashes come between, a
\* deleted or cleared entry never comes back from a legacy file, and nothing
\* goes missing but by a clear.
ImplementsCredentials == Port!CredentialSpec
=============================================================================
