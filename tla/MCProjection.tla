---------------------------- MODULE MCProjection ----------------------------
(* Instances of Projection, with its log, for TLC. *)
EXTENDS MirrorLog

Symmetric == Permutations(NativeIds)

\* What a mirror knows of; TLC looks at one such part at a time, and at all of
\* them together in the first batch.
Parts(m) ==
  {part \in {"contacts", "message", "group", "account"} :
     CASE part = "contacts" -> m.contacts # EmptyMirror.contacts
       [] part = "message"  -> m.message # NoMessage \/ m.pending # <<>>
       [] part = "group"    -> m.group # NoGroup
       [] part = "account"  -> m.account # NoAccount}

OnePart ==
  mirror = EmptyMirror \/ Cardinality(Parts(mirror) \cup Parts(work.now)) <= 1
=============================================================================
