----------------------------- MODULE MediaStore -----------------------------
(***************************************************************************)
(* The file media store (file-media.ts): bytes are written to a temporary   *)
(* file of their own, named by their digest once they are all there, and    *)
(* never changed again. An object is the account, owner, kind and bytes     *)
(* that its digest is taken over, so equal objects have one name. Each step *)
(* is one file operation; the machine may lose its power between any two,   *)
(* and with it whatever was not yet on the disk.                            *)
(***************************************************************************)
CONSTANTS
  Writers,   \* the calls of write()
  Objects

VARIABLES
  temporary,   \* the temporary file of each writer
  object,      \* the bytes under each object's name
  entered      \* the objects whose directory entry is on the disk

mediaVars == <<temporary, object, entered>>

MediaTypeOK ==
  /\ temporary \in [Writers -> {"none", "partial", "complete", "synced"}]
  /\ object \in [Objects -> {"none", "cached", "whole", "torn"}]
  /\ entered \in SUBSET {b \in Objects : object[b] # "none"}

MediaInit ==
  /\ temporary = [w \in Writers |-> "none"]
  /\ object = [b \in Objects |-> "none"]
  /\ entered = {}

Named == {b \in Objects : object[b] # "none"}

SetTemporary(w, t) ==
  /\ temporary' = [temporary EXCEPT ![w] = t]
  /\ UNCHANGED <<object, entered>>

CreateTemporary(w) == temporary[w] = "none" /\ SetTemporary(w, "partial")

\* The source is read to its end, chunk by chunk, into the file and the digest.
Consume(w) == temporary[w] = "partial" /\ SetTemporary(w, "complete")

SyncTemporary(w) == temporary[w] = "complete" /\ SetTemporary(w, "synced")

\* The name is made for whatever the file holds by then.
LinkObject(w, b) ==
  /\ temporary[w] \in {"complete", "synced"}
  /\ object[b] = "none"
  /\ object' = [object EXCEPT ![b] = IF temporary[w] = "synced" THEN "whole" ELSE "cached"]
  /\ UNCHANGED <<temporary, entered>>

\* The name exists: the bytes under it are read and compared.
FindObject(w, b) ==
  /\ temporary[w] \in {"complete", "synced"}
  /\ object[b] \in {"cached", "whole"}
  /\ UNCHANGED mediaVars

SyncObject(b) ==
  /\ object' = [object EXCEPT ![b] = IF object[b] = "cached" THEN "whole" ELSE object[b]]
  /\ UNCHANGED <<temporary, entered>>

\* The directory is not synced after the removal, or the removal itself fails: what
\* it leaves then is found by no one.
RemoveOnly(w) == SetTemporary(w, "none")

\* The temporary file goes, and the directory with the object's name is synced.
RemoveTemporary(w) ==
  /\ temporary' = [temporary EXCEPT ![w] = "none"]
  /\ entered' = Named
  /\ UNCHANGED object

(***************************************************************************)
(* Power is lost: names that were not on the disk may be gone, and bytes   *)
(* that were not may be incomplete.                                        *)
(***************************************************************************)
LosePower ==
  \E kept \in SUBSET Named, torn \in SUBSET {b \in Objects : object[b] = "cached"} :
    /\ entered \subseteq kept
    /\ object' = [b \in Objects |->
         IF b \notin kept THEN "none"
         ELSE IF b \in torn THEN "torn"
         ELSE IF object[b] = "cached" THEN "whole" ELSE object[b]]
    /\ entered' = kept
    /\ temporary' = [w \in Writers |-> "none"]

\* The process dies: its temporary files are found by no one.
AbandonTemporaries ==
  /\ temporary' = [w \in Writers |-> "none"]
  /\ UNCHANGED <<object, entered>>

\* open(): what a reader finds under a name.
Readable(b) == object[b] \in {"cached", "whole"}
=============================================================================
