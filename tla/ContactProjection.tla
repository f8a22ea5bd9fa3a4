-------------------------- MODULE ContactProjection --------------------------
(***************************************************************************)
(* How one observation of a contact is projected into the current mirror   *)
(* (projection.ts). A state under projection is a record of the mirror as  *)
(* it then is (now) and of the patch made so far (patch).                  *)
(*                                                                         *)
(* Of a contact the model keeps the addresses it owns, the instant it was  *)
(* last seen (0: never) and a profile that stands for its other fields,    *)
(* which are all merged alike. A contact that owns no address does not     *)
(* exist. An address is observed in at most three forms: its id, its phone *)
(* number and its linked-device id.                                        *)
(***************************************************************************)
EXTENDS Naturals, FiniteSets

CONSTANTS
  NativeIds,   \* addresses in any form; a contact is known by one of them
  Nobody,
  Profiles,
  NoProfile,
  MaxInstant   \* bounds the instants observed

ASSUME ContactAssumption ==
  /\ Nobody \notin NativeIds
  /\ NoProfile \notin Profiles
  /\ MaxInstant \in Nat

Instants == 1 .. MaxInstant
Forms ==
  {forms \in UNION {[1 .. n -> NativeIds] : n \in 1 .. 3} :
     \A i, j \in DOMAIN forms : forms[i] = forms[j] => i = j}

Contacts ==
  [ids : SUBSET NativeIds, profile : Profiles \cup {NoProfile},
   seen : 0 .. MaxInstant]
NoContact == [ids |-> {}, profile |-> NoProfile, seen |-> 0]

Named(o) == {o.forms[i] : i \in DOMAIN o.forms}

\* The first of the forms that is in a set.
FirstIn(forms, set) ==
  forms[CHOOSE i \in DOMAIN forms :
          forms[i] \in set /\ \A j \in DOMAIN forms : j < i => forms[j] \notin set]

\* The forms that reach a contact, and the contacts they reach.
Known(m, o) == {f \in Named(o) : m.owner[f] # Nobody}
Reached(m, o) == {m.owner[f] : f \in Known(m, o)}

\* A redundant record wins: the contact is known by the form observed now.
SurvivorIsNew(m, o) == o.id

\* The contact that the first form to reach one reaches, or else a new one.
Survivor(m, o) ==
  IF Known(m, o) = {} THEN o.id ELSE m.owner[FirstIn(o.forms, Known(m, o))]

Latest(instants) == CHOOSE t \in instants : \A u \in instants : u <= t

\* A field is as observed now, or as the first contact reached that has one.
MergedProfile(m, o) ==
  LET profiled == {f \in Known(m, o) : m.contacts[m.owner[f]].profile # NoProfile}
  IN  CASE o.profile # NoProfile -> o.profile
        [] o.profile = NoProfile /\ profiled # {} ->
             m.contacts[m.owner[FirstIn(o.forms, profiled)]].profile
        [] OTHER                 -> NoProfile

\* What was observed, over what the contacts it reaches were known for.
MergedLatest(m, o) ==
  [ids     |-> (UNION {m.contacts[c].ids : c \in Reached(m, o)}) \cup Named(o),
   profile |-> MergedProfile(m, o),
   seen    |-> IF o.seen # 0 THEN o.seen ELSE m.contacts[Survivor(m, o)].seen]

MergedNarrowly(m, o) ==
  [ids     |-> m.contacts[Survivor(m, o)].ids \cup Named(o),
   profile |-> MergedProfile(m, o),
   seen    |-> Latest({m.contacts[c].seen : c \in Reached(m, o)} \cup {o.seen})]

Merged(m, o) ==
  [ids     |-> (UNION {m.contacts[c].ids : c \in Reached(m, o)}) \cup Named(o),
   profile |-> MergedProfile(m, o),
   seen    |-> Latest({m.contacts[c].seen : c \in Reached(m, o)} \cup {o.seen})]

\* Only an address with a new owner is a delta of the patch.
AliasesOfTheNew(p, m, ids, c) ==
  [f \in NativeIds |-> IF f \in ids /\ m.owner[f] = Nobody THEN c ELSE p.aliases[f]]

Aliases(p, m, ids, c) ==
  [f \in NativeIds |-> IF f \in ids /\ m.owner[f] # c THEN c ELSE p.aliases[f]]

\* projectContact(): the contacts reached become one, and every address they
\* owned resolves to it. An observation that says nothing new is not a delta.
ProjectContact(w, o) ==
  LET m == w.now
      p == w.patch
      c == Survivor(m, o)
      merged == Merged(m, o)
      gone == Reached(m, o) \ {c}
      freed == (UNION {m.contacts[d].ids : d \in gone})
                 \cup {f \in Named(o) : m.owner[f] \in gone}
  IN  [now   |-> [m EXCEPT
                   !.contacts = [d \in NativeIds |->
                                   IF d = c THEN merged
                                   ELSE IF d \in gone THEN NoContact
                                   ELSE m.contacts[d]],
                   !.owner = [f \in NativeIds |->
                                IF f \in merged.ids THEN c ELSE m.owner[f]]],
       patch |-> [p EXCEPT
                   !.contacts = [d \in NativeIds |->
                                   IF d = c /\ m.contacts[c] # merged
                                   THEN merged ELSE p.contacts[d]],
                   !.deleted = p.deleted \cup gone,
                   !.freed = p.freed \cup freed,
                   !.aliases = Aliases(p, m, merged.ids, c)]]

\* A last-seen updates the contact its address resolves to and creates none.
ProjectLastSeen(w, form, at) ==
  IF w.now.owner[form] = Nobody THEN w
  ELSE ProjectContact(w, [id |-> w.now.owner[form], forms |-> <<form>>,
                          profile |-> NoProfile, seen |-> at])
=============================================================================
