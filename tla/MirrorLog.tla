------------------------------ MODULE MirrorLog ------------------------------
(***************************************************************************)
(* The accepted batches as the database keeps them (runtime/libsql.ts).    *)
(* The row of a batch is written in the transaction that writes its        *)
(* records and is never written again, so it does not matter when it is    *)
(* read. A consumer that reads from the first row on applies the patches   *)
(* as they are decoded. Rows of the version before patches carried aliases *)
(* are among them.                                                         *)
(***************************************************************************)
EXTENDS Projection

VARIABLES
  named,    \* by the batch under projection: the last contact written that
            \* owns the address, or nobody
  replayed  \* the records of the consumer

logVars == <<vars, named, replayed>>

NotNamed == [f \in NativeIds |-> Nobody]

LogInit ==
  /\ Init
  /\ named = NotNamed
  /\ replayed = Visible(EmptyMirror)

\* The contact that an event writes, if any: the upserts of a patch are a list,
\* of which Projection keeps the last one of each contact.
Upserted == {c \in NativeIds : work'.patch.contacts[c] # work.patch.contacts[c]}

LogObserve ==
  /\ Observing
  /\ named' = [f \in NativeIds |->
                 LET writes == {c \in Upserted : f \in work'.patch.contacts[c].ids}
                 IN  IF writes = {} THEN named[f] ELSE CHOOSE c \in writes : TRUE]
  /\ UNCHANGED replayed

-----------------------------------------------------------------------------
(***************************************************************************)
(* How a row is read. It carries aliases, if only an empty list, or it was  *)
(* written by the version before.                                          *)
(***************************************************************************)
\* No list is an empty one.
RecordedAliases(carried) == IF carried THEN work.patch.aliases ELSE NotNamed

\* "every alias it would have carried is derivable from its own contact upserts"
DecodedAliases(carried) == IF carried THEN work.patch.aliases ELSE named

\* A delete that does not say what it frees frees what its reader holds, with
\* the upserts of the patch applied.
Held(c) ==
  IF work.patch.contacts[c] # NoContact THEN work.patch.contacts[c]
  ELSE replayed.contacts[c]

DecodedFreed(carried) ==
  IF carried THEN work.patch.freed
  ELSE UNION {Held(c).ids : c \in work.patch.deleted}

\* A record of a patch has no mark that tells an empty roster from none.
DecodedRoster(roster) ==
  IF \A x \in People : roster.roles[x] = "none" THEN NoRoster ELSE roster

Decoded(carried) ==
  [work.patch EXCEPT !.aliases = DecodedAliases(carried),
                     !.freed = DecodedFreed(carried),
                     !.group.roster = DecodedRoster(@)]

\* accept() of this version or of the one before.
LogAccept ==
  /\ Accept
  /\ \E carried \in BOOLEAN : replayed' = Patched(replayed, Decoded(carried))
  /\ named' = NotNamed

LogRefuse ==
  /\ Refuse
  /\ named' = NotNamed
  /\ UNCHANGED replayed

LogNext == LogObserve \/ LogAccept \/ LogRefuse

LogSpec == LogInit /\ [][LogNext]_logVars

-----------------------------------------------------------------------------
(***************************************************************************)
(* Properties.                                                             *)
(***************************************************************************)
LogTypeOK ==
  /\ TypeOK
  /\ named \in [NativeIds -> NativeIds \cup {Nobody}]
  /\ replayed.owner \in [NativeIds -> NativeIds \cup {Nobody}]

\* "a consumer reading from revision 0 across an upgrade is not left with a
\* partial map" (libsql.ts:1034), nor with a wrong one: whichever version wrote
\* which batch, it ends where the mirror is. A roster known to be empty, which
\* comes back as unknown (DecodedRoster), is left aside.
ApartFromRoster(m) == [m EXCEPT !.group.roster = NoRoster]

ReplayReachesTheMirror == ApartFromRoster(replayed) = ApartFromRoster(Visible(mirror))
=============================================================================
