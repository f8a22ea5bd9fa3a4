-------------------------- MODULE ProjectionProofs --------------------------
(***************************************************************************)
(* Proofs about Projection and MirrorLog, for any set of addresses and any *)
(* length of a batch: contacts and address resolution agree, contacts are  *)
(* what AddressResolution says, who follows the patches is current, who    *)
(* reads the log from its first row too, a late message loses no update,   *)
(* and what is recorded as the latest never becomes an earlier one.        *)
(***************************************************************************)
EXTENDS MirrorLog, WellFoundedInduction, TLAPS

USE ContactAssumption

IsMap(g) == g = [x \in NativeIds |-> g[x]]

MirrorShape(m) ==
  m = [contacts |-> m.contacts, owner |-> m.owner, account |-> m.account,
       chat |-> m.chat, group |-> m.group, message |-> m.message,
       pending |-> m.pending]

PatchFields == {"contacts", "deleted", "freed", "aliases", "written"} \cup
               {"account", "chat", "group", "message"}
PatchShape(p) == p = [x \in PatchFields |-> p[x]]

Shape(w) ==
  w = [now |-> w.now, patch |-> w.patch] /\ MirrorShape(w.now) /\ PatchShape(w.patch)

\* A contact owns the address it is known by.
SelfOwned(m) ==
  \A c \in NativeIds : m.contacts[c].ids # {} => c \in m.contacts[c].ids

Consistent(m) ==
  /\ IsMap(m.contacts)
  /\ \A c \in NativeIds : m.contacts[c].ids \subseteq NativeIds
  /\ m.owner \in [NativeIds -> NativeIds \cup {Nobody}]
  /\ Resolved(m)
  /\ SelfOwned(m)

\* What the patch made so far means to a follower who holds f.
ContactsFollow(f, w) ==
  /\ \A c \in NativeIds :
       /\ c \in w.patch.deleted =>
            w.now.contacts[c] = NoContact /\ w.now.owner[c] # Nobody
       /\ c \notin w.patch.deleted =>
            w.now.contacts[c] = IF w.patch.contacts[c] # NoContact
                                THEN w.patch.contacts[c] ELSE f.contacts[c]
  /\ \A x \in NativeIds :
       /\ w.patch.aliases[x] # Nobody => w.now.owner[x] = w.patch.aliases[x]
       /\ w.patch.aliases[x] = Nobody =>
            x \notin w.patch.freed /\ w.now.owner[x] = f.owner[x]

Rest == {"account", "chat", "group", "message"}

RestFollows(f, w) ==
  \A r \in Rest :
    w.now[r] = IF r \in w.patch.written THEN w.patch[r] ELSE f[r]

Good(f, w) ==
  Shape(w) /\ Consistent(w.now) /\ ContactsFollow(f, w) /\ RestFollows(f, w)

(***************************************************************************)
(* The first form in a set exists.                                         *)
(***************************************************************************)
LEMMA FirstExists ==
  ASSUME NEW forms \in Forms, NEW set,
         \E i \in DOMAIN forms : forms[i] \in set
  PROVE  \E i \in DOMAIN forms :
           /\ FirstIn(forms, set) = forms[i] /\ forms[i] \in set
           /\ \A j \in DOMAIN forms : j < i => forms[j] \notin set
<1> DEFINE First(i) ==
      forms[i] \in set /\ \A j \in DOMAIN forms : j < i => forms[j] \notin set
<1>1. PICK n \in 1 .. 3 : DOMAIN forms = 1 .. n
  BY DEF Forms
<1>2. \E i \in DOMAIN forms : First(i)
  <2>1. CASE 1 \in DOMAIN forms /\ forms[1] \in set
    <3>1. First(1)
      BY <1>1, <2>1
    <3> QED BY <2>1, <3>1
  <2>2. CASE 2 \in DOMAIN forms /\ forms[2] \in set /\ forms[1] \notin set
    <3>1. First(2)
      BY <1>1, <2>2
    <3> QED BY <2>2, <3>1
  <2>3. CASE /\ 3 \in DOMAIN forms /\ forms[3] \in set
             /\ forms[1] \notin set /\ forms[2] \notin set
    <3>1. First(3)
      BY <1>1, <2>3
    <3> QED BY <2>3, <3>1
  <2> QED BY <1>1, <2>1, <2>2, <2>3
<1> DEFINE i == CHOOSE k \in DOMAIN forms : First(k)
<1>3. i \in DOMAIN forms /\ First(i)
  <2> HIDE DEF First
  <2> QED BY <1>2
<1>4. FirstIn(forms, set) = forms[i]
  BY DEF FirstIn
<1> QED BY <1>3, <1>4

(***************************************************************************)
(* Who survives an observation, and what it then owns.                     *)
(***************************************************************************)
\* The contact an observation would create is among its forms, or is the one
\* that they reach.
Valid(m, o) ==
  /\ o.forms \in Forms /\ o.id \in NativeIds
  /\ Known(m, o) = {} => o.id \in Named(o)

LEMMA FormsAreNamed ==
  ASSUME NEW m, NEW o, Valid(m, o)
  PROVE  Named(o) \subseteq NativeIds
<1>1. PICK n \in 1 .. 3 : o.forms \in [1 .. n -> NativeIds]
  BY DEF Valid, Forms
<1> QED BY <1>1 DEF Named

LEMMA WhoSurvives ==
  ASSUME NEW m, NEW o, Consistent(m), Valid(m, o)
  PROVE  /\ Survivor(m, o) \in NativeIds
         /\ Known(m, o) = {} =>
              /\ Survivor(m, o) = o.id /\ o.id \in Named(o)
              /\ m.contacts[o.id].ids = {} /\ Reached(m, o) = {}
         /\ Known(m, o) # {} => Survivor(m, o) \in Reached(m, o)
         /\ Reached(m, o) \subseteq NativeIds
<1>1. Reached(m, o) \subseteq NativeIds
  BY FormsAreNamed DEF Reached, Known, Consistent
<1>2. CASE Known(m, o) = {}
  <2>1. Survivor(m, o) = o.id /\ o.id \in Named(o) /\ Reached(m, o) = {}
    BY <1>2 DEF Survivor, Reached, Valid
  <2>2. m.owner[o.id] = Nobody
    BY <1>2, <2>1 DEF Known
  <2>3. m.contacts[o.id].ids = {}
    BY <2>2 DEF Consistent, SelfOwned, Resolved, Valid
  <2> QED BY <1>1, <1>2, <2>1, <2>3 DEF Valid
<1>3. CASE Known(m, o) # {}
  <2>1. \E i \in DOMAIN o.forms : o.forms[i] \in Known(m, o)
    BY <1>3 DEF Known, Named
  <2>2. FirstIn(o.forms, Known(m, o)) \in Known(m, o)
    BY <2>1, FirstExists DEF Valid
  <2>3. Survivor(m, o) \in Reached(m, o)
    BY <1>3, <2>2 DEF Survivor, Reached
  <2> QED BY <1>1, <1>3, <2>3
<1> QED BY <1>2, <1>3

LEMMA WhatIsOwned ==
  ASSUME NEW m, NEW o, Consistent(m), Valid(m, o)
  PROVE  /\ Merged(m, o).ids =
              Named(o) \cup {f \in NativeIds : m.owner[f] \in Reached(m, o)}
         /\ Survivor(m, o) \in Merged(m, o).ids
<1>1. Reached(m, o) \subseteq NativeIds /\ Named(o) \subseteq NativeIds
  BY WhoSurvives, FormsAreNamed
<1>2. UNION {m.contacts[c].ids : c \in Reached(m, o)}
        = {f \in NativeIds : m.owner[f] \in Reached(m, o)}
  <2>1. ASSUME NEW c \in Reached(m, o), NEW f \in m.contacts[c].ids
        PROVE  f \in NativeIds /\ m.owner[f] = c
    BY <1>1, <2>1 DEF Consistent, Resolved
  <2>2. ASSUME NEW f \in NativeIds, m.owner[f] \in Reached(m, o)
        PROVE  f \in m.contacts[m.owner[f]].ids
    BY <1>1, <2>2 DEF Consistent, Resolved
  <2> QED BY <2>1, <2>2
<1>3. Merged(m, o).ids =
        Named(o) \cup {f \in NativeIds : m.owner[f] \in Reached(m, o)}
  BY <1>2 DEF Merged
<1>4. CASE Known(m, o) = {}
  BY <1>3, <1>4, WhoSurvives
<1>5. CASE Known(m, o) # {}
  <2>1. Survivor(m, o) \in Reached(m, o) /\ Survivor(m, o) \in NativeIds
    BY <1>5, WhoSurvives
  <2>2. PICK f \in NativeIds : m.owner[f] = Survivor(m, o)
    BY <1>1, <2>1 DEF Reached, Known
  <2>3. m.owner[Survivor(m, o)] = Survivor(m, o)
    BY <2>1, <2>2 DEF Consistent, SelfOwned, Resolved
  <2> QED BY <1>3, <2>1, <2>3
<1> QED BY <1>3, <1>4, <1>5

\* A contact that is reached owns the address it is known by.
LEMMA ReachedIsSelfOwned ==
  ASSUME NEW m, NEW o, Consistent(m), Valid(m, o), NEW c \in Reached(m, o)
  PROVE  m.owner[c] = c /\ c \in m.contacts[c].ids
<1>1. PICK x \in NativeIds : m.owner[x] = c
  BY FormsAreNamed DEF Reached, Known
<1>2. c \in NativeIds
  BY WhoSurvives
<1> QED BY <1>1, <1>2 DEF Consistent, SelfOwned, Resolved

(***************************************************************************)
(* What the projection of a contact leaves, field by field.                *)
(***************************************************************************)
Gone(m, o) == Reached(m, o) \ {Survivor(m, o)}

ContactProjected(w, o, v) ==
  LET m == w.now
      p == w.patch
      c == Survivor(m, o)
  IN  /\ Shape(v)
      /\ \A r \in Rest : v.now[r] = m[r] /\ v.patch[r] = p[r]
      /\ v.patch.written = p.written
      /\ v.now.contacts = [d \in NativeIds |-> IF d = c THEN Merged(m, o)
                                               ELSE IF d \in Gone(m, o) THEN NoContact
                                               ELSE m.contacts[d]]
      /\ v.now.owner = [x \in NativeIds |->
                          IF x \in Merged(m, o).ids THEN c ELSE m.owner[x]]
      /\ v.patch.contacts = [d \in NativeIds |->
                               IF d = c /\ m.contacts[c] # Merged(m, o)
                               THEN Merged(m, o) ELSE p.contacts[d]]
      /\ v.patch.deleted = p.deleted \cup Gone(m, o)
      /\ v.patch.freed = p.freed \cup ((UNION {m.contacts[d].ids : d \in Gone(m, o)})
                                         \cup {x \in Named(o) : m.owner[x] \in Gone(m, o)})
      /\ v.patch.aliases = Aliases(p, m, Merged(m, o).ids, c)

LEMMA ContactFields ==
  ASSUME NEW w, NEW o, Shape(w)
  PROVE  ContactProjected(w, o, ProjectContact(w, o))
<1> DEFINE v == ProjectContact(w, o)
           C == [d \in NativeIds |-> IF d = Survivor(w.now, o) THEN Merged(w.now, o)
                                     ELSE IF d \in Gone(w.now, o) THEN NoContact
                                     ELSE w.now.contacts[d]]
           O == [x \in NativeIds |-> IF x \in Merged(w.now, o).ids
                                     THEN Survivor(w.now, o) ELSE w.now.owner[x]]
           P == [d \in NativeIds |->
                   IF d = Survivor(w.now, o)
                        /\ w.now.contacts[Survivor(w.now, o)] # Merged(w.now, o)
                   THEN Merged(w.now, o) ELSE w.patch.contacts[d]]
           D == w.patch.deleted \cup Gone(w.now, o)
           F == w.patch.freed
                  \cup ((UNION {w.now.contacts[d].ids : d \in Gone(w.now, o)})
                          \cup {x \in Named(o) : w.now.owner[x] \in Gone(w.now, o)})
           A == Aliases(w.patch, w.now, Merged(w.now, o).ids, Survivor(w.now, o))
<1>1. v = [now   |-> [w.now EXCEPT !.contacts = C, !.owner = O],
           patch |-> [w.patch EXCEPT !.contacts = P, !.deleted = D, !.freed = F,
                                     !.aliases = A]]
  BY DEF ProjectContact, Gone
<1> HIDE DEF v, C, O, P, D, F, A
<1>2. v.now = [contacts |-> C, owner |-> O, account |-> w.now.account,
               chat |-> w.now.chat, group |-> w.now.group,
               message |-> w.now.message, pending |-> w.now.pending]
  BY <1>1 DEF Shape, MirrorShape
<1>3. v.patch = [contacts |-> P, deleted |-> D, freed |-> F, aliases |-> A,
                 written |-> w.patch.written, account |-> w.patch.account,
                 chat |-> w.patch.chat, group |-> w.patch.group,
                 message |-> w.patch.message]
  BY <1>1 DEF Shape, PatchShape, PatchFields
<1>4. Shape(v)
  <2>1. v = [now |-> v.now, patch |-> v.patch]
    BY <1>1
  <2>2. MirrorShape(v.now)
    BY <1>2 DEF MirrorShape
  <2>3. PatchShape(v.patch)
    BY <1>3 DEF PatchShape, PatchFields
  <2> QED BY <2>1, <2>2, <2>3 DEF Shape
<1>5. \A r \in Rest : v.now[r] = w.now[r] /\ v.patch[r] = w.patch[r]
  BY <1>2, <1>3 DEF Rest
<1>6. /\ v.now.contacts = C /\ v.now.owner = O /\ v.patch.written = w.patch.written
      /\ v.patch.contacts = P /\ v.patch.deleted = D /\ v.patch.freed = F
      /\ v.patch.aliases = A
  BY <1>2, <1>3
<1> QED BY <1>4, <1>5, <1>6 DEF v, C, O, P, D, F, A, ContactProjected

(***************************************************************************)
(* Projecting a contact keeps all that holds between mirror, patch and     *)
(* follower; and it joins the classes that the observation names.          *)
(***************************************************************************)
LEMMA ContactKeeps ==
  ASSUME NEW f, NEW w, NEW o, Good(f, w), Valid(w.now, o)
  PROVE  /\ Good(f, ProjectContact(w, o))
         /\ ProjectContact(w, o).now.owner =
              [x \in NativeIds |->
                 IF x \in Named(o) \/ w.now.owner[x] \in Reached(w.now, o)
                 THEN Survivor(w.now, o) ELSE w.now.owner[x]]
<1> DEFINE v == ProjectContact(w, o)
           m == w.now
           p == w.patch
           c == Survivor(m, o)
           M == Merged(m, o)
           R == Reached(m, o)
           gone == Gone(m, o)
<1>1. Consistent(m) /\ Shape(w) /\ ContactsFollow(f, w) /\ RestFollows(f, w)
  BY DEF Good
<1>0. ContactProjected(w, o, v)
  BY <1>1, ContactFields
<1>2. /\ Shape(v)
      /\ \A r \in Rest : v.now[r] = m[r] /\ v.patch[r] = p[r]
      /\ v.patch.written = p.written
  BY <1>0 DEF ContactProjected
<1>3. /\ v.now.contacts = [d \in NativeIds |-> IF d = c THEN M
                                               ELSE IF d \in gone THEN NoContact
                                               ELSE m.contacts[d]]
      /\ v.now.owner = [x \in NativeIds |-> IF x \in M.ids THEN c ELSE m.owner[x]]
  BY <1>0 DEF ContactProjected
<1>4. /\ \A d \in NativeIds :
           v.patch.contacts[d] = IF d = c /\ m.contacts[c] # M THEN M ELSE p.contacts[d]
      /\ v.patch.deleted = p.deleted \cup gone
      /\ v.patch.freed = p.freed \cup ((UNION {m.contacts[d].ids : d \in gone})
                                         \cup {x \in Named(o) : m.owner[x] \in gone})
      /\ \A x \in NativeIds :
           v.patch.aliases[x] = IF x \in M.ids /\ m.owner[x] # c THEN c ELSE p.aliases[x]
  BY <1>0 DEF ContactProjected, Aliases
<1>5. /\ c \in NativeIds /\ R \subseteq NativeIds /\ Named(o) \subseteq NativeIds
      /\ M.ids = Named(o) \cup {x \in NativeIds : m.owner[x] \in R}
      /\ c \in M.ids
      /\ c \notin R => /\ c \in Named(o) /\ m.contacts[c].ids = {}
                       /\ m.owner[c] = Nobody /\ R = {}
  <2>1. c \notin R => c \in Named(o) /\ m.contacts[c].ids = {} /\ R = {}
    BY <1>1, WhoSurvives
  <2>2. c \notin R => m.owner[c] = Nobody
    BY <1>1, <2>1, FormsAreNamed DEF Reached, Known
  <2> QED BY <1>1, <2>1, <2>2, WhoSurvives, FormsAreNamed, WhatIsOwned
<1>6. gone = R \ {c}
  BY DEF Gone
<1>7. \A d \in R : m.owner[d] = d /\ d \in m.contacts[d].ids
  BY <1>1, ReachedIsSelfOwned
<1>8. \A x \in Named(o) : m.owner[x] # Nobody => m.owner[x] \in R
  BY DEF Reached, Known
<1> HIDE DEF v, m, p, c, M, R, gone
<1>9. /\ IsMap(m.contacts)
      /\ \A d \in NativeIds : m.contacts[d].ids \subseteq NativeIds
      /\ m.owner \in [NativeIds -> NativeIds \cup {Nobody}]
      /\ \A x, d \in NativeIds : m.owner[x] = d <=> x \in m.contacts[d].ids
      /\ \A d \in NativeIds : m.contacts[d].ids # {} => d \in m.contacts[d].ids
  BY <1>1 DEF Consistent, Resolved, SelfOwned
<1>10. \A d \in NativeIds :
         /\ d = c => v.now.contacts[d] = M
         /\ d \in gone => d # c /\ v.now.contacts[d] = NoContact
         /\ d # c /\ d \notin gone => v.now.contacts[d] = m.contacts[d] /\ d \notin R
  BY <1>3, <1>6
<1>11. \A x \in NativeIds :
         v.now.owner[x] = IF x \in M.ids THEN c ELSE m.owner[x]
  BY <1>3
<1>12. NoContact.ids = {}
  BY DEF NoContact
<1>13. Consistent(v.now)
  <2>1. IsMap(v.now.contacts)
    BY <1>3 DEF IsMap
  <2>2. \A d \in NativeIds : v.now.contacts[d].ids \subseteq NativeIds
    BY <1>5, <1>9, <1>10, <1>12
  <2>3. v.now.owner \in [NativeIds -> NativeIds \cup {Nobody}]
    BY <1>3, <1>5, <1>9
  <2>4. ASSUME NEW x \in NativeIds, NEW d \in NativeIds
        PROVE  v.now.owner[x] = d <=> x \in v.now.contacts[d].ids
    <3>1. CASE d = c
      BY <3>1, <1>5, <1>9, <1>10, <1>11
    <3>2. CASE d \in gone
      BY <3>2, <1>5, <1>6, <1>10, <1>11, <1>12
    <3>3. CASE d # c /\ d \notin gone
      <4>1. m.owner[x] = d => x \notin M.ids
        BY <3>3, <1>5, <1>8, <1>10, ContactAssumption
      <4> QED BY <4>1, <3>3, <1>9, <1>10, <1>11
    <3> QED BY <3>1, <3>2, <3>3
  <2>5. SelfOwned(v.now)
    BY <1>5, <1>9, <1>10, <1>12 DEF SelfOwned
  <2> QED BY <2>1, <2>2, <2>3, <2>4, <2>5 DEF Consistent, Resolved
<1>14. ContactsFollow(f, v)
  <2>1. ASSUME NEW d \in NativeIds, d \in gone
        PROVE  v.now.contacts[d] = NoContact /\ v.now.owner[d] # Nobody
    BY <2>1, <1>5, <1>6, <1>7, <1>10, <1>11, ContactAssumption
  <2>2. ASSUME NEW d \in NativeIds, d \in p.deleted, d \notin gone
        PROVE  v.now.contacts[d] = NoContact /\ v.now.owner[d] # Nobody
    <3>1. m.contacts[d] = NoContact /\ m.owner[d] # Nobody
      BY <2>2, <1>1 DEF ContactsFollow, m, p
    <3>2. d # c
      BY <3>1, <1>5, <1>7, <1>12
    <3> QED BY <3>1, <3>2, <2>2, <1>5, <1>10, <1>11, ContactAssumption
  <2>3. ASSUME NEW d \in NativeIds, d \notin p.deleted, d \notin gone
        PROVE  v.now.contacts[d] = IF v.patch.contacts[d] # NoContact
                                   THEN v.patch.contacts[d] ELSE f.contacts[d]
    <3>1. m.contacts[d] = IF p.contacts[d] # NoContact THEN p.contacts[d]
                          ELSE f.contacts[d]
      BY <2>3, <1>1 DEF ContactsFollow, m, p
    <3>2. M # NoContact
      BY <1>5, <1>12
    <3> QED BY <3>1, <3>2, <2>3, <1>4, <1>10
  <2>4. ASSUME NEW x \in NativeIds, v.patch.aliases[x] # Nobody
        PROVE  v.now.owner[x] = v.patch.aliases[x]
    <3>1. p.aliases[x] # Nobody => m.owner[x] = p.aliases[x]
      BY <1>1 DEF ContactsFollow, m, p
    <3> QED BY <3>1, <2>4, <1>4, <1>11
  <2>5. ASSUME NEW x \in NativeIds, v.patch.aliases[x] = Nobody
        PROVE  x \notin v.patch.freed /\ v.now.owner[x] = f.owner[x]
    <3>1. p.aliases[x] = Nobody /\ (x \in M.ids => m.owner[x] = c)
      BY <2>5, <1>4, <1>5, ContactAssumption
    <3>2. x \notin p.freed /\ m.owner[x] = f.owner[x]
      BY <3>1, <1>1 DEF ContactsFollow, m, p
    <3>3. m.owner[x] \notin gone
      BY <3>1, <1>5, <1>6
    <3>4. \A d \in gone : x \notin m.contacts[d].ids
      BY <3>3, <1>5, <1>6, <1>9
    <3> QED BY <3>1, <3>2, <3>3, <3>4, <1>4, <1>11
  <2> QED BY <2>1, <2>2, <2>3, <2>4, <2>5, <1>4 DEF ContactsFollow
<1>15. RestFollows(f, v)
  BY <1>1, <1>2 DEF RestFollows, m, p
<1>16. Good(f, v)
  BY <1>2, <1>13, <1>14, <1>15 DEF Good
<1>17. v.now.owner = [x \in NativeIds |-> IF x \in Named(o) \/ m.owner[x] \in R
                                          THEN c ELSE m.owner[x]]
  BY <1>3, <1>5
<1> QED BY <1>16, <1>17 DEF v, m, c, R

(***************************************************************************)
(* All other projections leave the contacts alone.                         *)
(***************************************************************************)
LEMMA UpsertFields ==
  ASSUME NEW w, Shape(w), NEW record \in Rest, NEW value
  PROVE  LET v == Upsert(w, record, value)
             m == w.now
             p == w.patch
         IN  /\ Shape(v)
             /\ v.now.contacts = m.contacts /\ v.now.owner = m.owner
             /\ v.now.pending = m.pending
             /\ \A r \in Rest : v.now[r] = IF r = record THEN value ELSE m[r]
             /\ v.patch.contacts = p.contacts /\ v.patch.deleted = p.deleted
             /\ v.patch.freed = p.freed /\ v.patch.aliases = p.aliases
             /\ \/ v = w
                \/ /\ v.patch.written = p.written \cup {record}
                   /\ \A r \in Rest : v.patch[r] = IF r = record THEN value ELSE p[r]
<1> DEFINE v == Upsert(w, record, value)
           m == w.now
           p == w.patch
<1>2. CASE m[record] = value
  <2>1. v = w
    BY <1>2 DEF Upsert
  <2> QED BY <1>2, <2>1
<1>3. CASE m[record] # value
  <2>1. v = [now |-> [m EXCEPT ![record] = value],
             patch |-> [p EXCEPT ![record] = value,
                                 !.written = p.written \cup {record}]]
    BY <1>3 DEF Upsert
  <2> HIDE DEF v, m, p
  <2>2. /\ MirrorShape(v.now)
        /\ v.now.contacts = m.contacts /\ v.now.owner = m.owner
        /\ v.now.pending = m.pending
        /\ \A r \in Rest : v.now[r] = IF r = record THEN value ELSE m[r]
    <3>1. MirrorShape(m) /\ v.now = [m EXCEPT ![record] = value]
      BY <2>1 DEF Shape, m
    <3>2. CASE record = "account"
      BY <3>1, <3>2 DEF MirrorShape, Rest
    <3>3. CASE record = "chat"
      BY <3>1, <3>3 DEF MirrorShape, Rest
    <3>4. CASE record = "group"
      BY <3>1, <3>4 DEF MirrorShape, Rest
    <3>5. CASE record = "message"
      BY <3>1, <3>5 DEF MirrorShape, Rest
    <3> QED BY <3>2, <3>3, <3>4, <3>5 DEF Rest
  <2>3. /\ PatchShape(v.patch)
        /\ v.patch.contacts = p.contacts /\ v.patch.deleted = p.deleted
        /\ v.patch.freed = p.freed /\ v.patch.aliases = p.aliases
        /\ v.patch.written = p.written \cup {record}
        /\ \A r \in Rest : v.patch[r] = IF r = record THEN value ELSE p[r]
    <3> DEFINE q == [p EXCEPT ![record] = value]
    <3>1. PatchShape(p)
      BY DEF Shape, p
    <3>2. /\ PatchShape(q)
          /\ q.contacts = p.contacts /\ q.deleted = p.deleted
          /\ q.freed = p.freed /\ q.aliases = p.aliases
          /\ \A r \in Rest : q[r] = IF r = record THEN value ELSE p[r]
      <4>1. q = [x \in PatchFields |-> IF x = record THEN value ELSE p[x]]
        BY <3>1 DEF PatchShape
      <4> HIDE DEF q
      <4> QED BY <4>1 DEF PatchShape, PatchFields, Rest
    <3>3. v.patch = [q EXCEPT !.written = p.written \cup {record}]
      BY <2>1
    <3> HIDE DEF q
    <3> QED BY <3>2, <3>3 DEF PatchShape, PatchFields, Rest
  <2>4. Shape(v)
    <3>1. v = [now |-> v.now, patch |-> v.patch]
      BY <2>1
    <3> QED BY <3>1, <2>2, <2>3 DEF Shape
  <2> QED BY <2>2, <2>3, <2>4 DEF v, m, p
<1> QED BY <1>2, <1>3

LEMMA UpsertKeeps ==
  ASSUME NEW f, NEW w, Good(f, w), NEW record \in Rest, NEW value
  PROVE  /\ Good(f, Upsert(w, record, value))
         /\ Upsert(w, record, value).now.owner = w.now.owner
<1> DEFINE v == Upsert(w, record, value)
           m == w.now
           p == w.patch
<1>1. Shape(w) /\ Consistent(m) /\ ContactsFollow(f, w) /\ RestFollows(f, w)
  BY DEF Good
<1>2. /\ Shape(v)
      /\ v.now.contacts = m.contacts /\ v.now.owner = m.owner
      /\ \A r \in Rest : v.now[r] = IF r = record THEN value ELSE m[r]
      /\ v.patch.contacts = p.contacts /\ v.patch.deleted = p.deleted
      /\ v.patch.freed = p.freed /\ v.patch.aliases = p.aliases
      /\ \/ v = w
         \/ /\ v.patch.written = p.written \cup {record}
            /\ \A r \in Rest : v.patch[r] = IF r = record THEN value ELSE p[r]
  BY <1>1, UpsertFields
<1> HIDE DEF v
<1>3. Consistent(v.now)
  BY <1>1, <1>2 DEF Consistent, Resolved, SelfOwned
<1>4. ContactsFollow(f, v)
  BY <1>1, <1>2 DEF ContactsFollow
<1>5. RestFollows(f, v)
  <2>1. CASE v = w
    BY <1>1, <2>1
  <2>2. CASE /\ v.patch.written = p.written \cup {record}
             /\ \A r \in Rest : v.patch[r] = IF r = record THEN value ELSE p[r]
    BY <1>1, <1>2, <2>2 DEF RestFollows
  <2> QED BY <1>2, <2>1, <2>2
<1> QED BY <1>2, <1>3, <1>4, <1>5 DEF Good, v

LEMMA WaitingFields ==
  ASSUME NEW w, Shape(w), NEW updates
  PROVE  LET v == SetPending(w, updates)
         IN  /\ Shape(v) /\ v.patch = w.patch
             /\ v.now.contacts = w.now.contacts /\ v.now.owner = w.now.owner
             /\ v.now.pending = updates
             /\ \A r \in Rest : v.now[r] = w.now[r]
<1> DEFINE v == SetPending(w, updates)
<1>1. v = [now |-> [w.now EXCEPT !.pending = updates], patch |-> w.patch]
      /\ MirrorShape(w.now)
  BY DEF Shape, SetPending
<1> HIDE DEF v
<1>2. /\ MirrorShape(v.now)
      /\ v.now.contacts = w.now.contacts /\ v.now.owner = w.now.owner
      /\ v.now.pending = updates
      /\ \A r \in Rest : v.now[r] = w.now[r]
  BY <1>1 DEF MirrorShape, Rest
<1>3. v.patch = w.patch /\ Shape(v)
  BY <1>1, <1>2 DEF Shape
<1> QED BY <1>2, <1>3 DEF v

LEMMA WaitingKeeps ==
  ASSUME NEW f, NEW w, Good(f, w), NEW updates
  PROVE  /\ Good(f, SetPending(w, updates))
         /\ SetPending(w, updates).now.owner = w.now.owner
<1> DEFINE v == SetPending(w, updates)
<1>1. Shape(w) /\ Consistent(w.now) /\ ContactsFollow(f, w) /\ RestFollows(f, w)
  BY DEF Good
<1>3. /\ v.now.contacts = w.now.contacts /\ v.now.owner = w.now.owner
      /\ \A r \in Rest : v.now[r] = w.now[r]
      /\ v.patch = w.patch /\ Shape(v)
  BY <1>1, WaitingFields
<1> HIDE DEF v
<1>5. Consistent(v.now)
  BY <1>1, <1>3 DEF Consistent, Resolved, SelfOwned
<1>6. ContactsFollow(f, v)
  BY <1>1, <1>3 DEF ContactsFollow
<1>7. RestFollows(f, v)
  BY <1>1, <1>3 DEF RestFollows
<1> QED BY <1>3, <1>5, <1>6, <1>7 DEF Good, v

\* What a projection that leaves the contacts alone keeps.
Keeps(f, w, v) == Good(f, v) /\ v.now.owner = w.now.owner

LEMMA ChatKeeps ==
  ASSUME NEW f, NEW w, Good(f, w), NEW subject, NEW at
  PROVE  Keeps(f, w, ProjectChat(w, subject, at))
BY UpsertKeeps DEF ProjectChat, Keeps, Rest

LEMMA GroupKeeps ==
  ASSUME NEW f, NEW w, Good(f, w), NEW subject, NEW roster
  PROVE  Keeps(f, w, ProjectGroup(w, subject, roster))
BY UpsertKeeps DEF ProjectGroup, Keeps, Rest

LEMMA ConnectionKeeps ==
  ASSUME NEW f, NEW w, Good(f, w), NEW end, NEW at
  PROVE  Keeps(f, w, ProjectConnection(w, end, at))
BY UpsertKeeps DEF ProjectConnection, Keeps, Rest

LEMMA UpdateKeeps ==
  ASSUME NEW f, NEW w, Good(f, w), NEW u
  PROVE  Keeps(f, w, ProjectUpdate(w, u))
<1>1. CASE w.now.message = NoMessage
  BY <1>1, WaitingKeeps DEF ProjectUpdate, Keeps
<1>2. CASE w.now.message # NoMessage
  BY <1>2, UpsertKeeps DEF ProjectUpdate, Keeps, Rest
<1> QED BY <1>1, <1>2

LEMMA LandedKeeps ==
  ASSUME NEW f, NEW w, Good(f, w), NEW content
  PROVE  Keeps(f, w, Landed(w, content))
<1> DEFINE landed == FoldLeft(Updated, Fresh(content), w.now.pending)
<1>1. CASE w.now.message # NoMessage
  BY <1>1 DEF Landed, Keeps
<1>2. CASE w.now.message = NoMessage
  <2>1. Landed(w, content) = SetPending(Upsert(w, "message", landed), <<>>)
    BY <1>2 DEF Landed
  <2> HIDE DEF landed
  <2>2. Keeps(f, w, Upsert(w, "message", landed))
    BY UpsertKeeps DEF Keeps, Rest
  <2> QED BY <2>1, <2>2, WaitingKeeps DEF Keeps
<1> QED BY <1>1, <1>2

(***************************************************************************)
(* An observation joins the classes of the addresses it names, under the   *)
(* name that its first form to have one had.                               *)
(***************************************************************************)
Joined(forms, before, after) ==
  \E name \in NativeIds :
    /\ \/ \E i \in DOMAIN forms :
            /\ name = before[forms[i]] /\ name # Nobody
            /\ \A j \in DOMAIN forms : j < i => before[forms[j]] = Nobody
       \/ name = forms[1] /\ \A i \in DOMAIN forms : before[forms[i]] = Nobody
    /\ after = [x \in NativeIds |->
                  IF \/ \E i \in DOMAIN forms : x = forms[i]
                     \/ before[x] # Nobody
                        /\ \E i \in DOMAIN forms : before[forms[i]] = before[x]
                  THEN name ELSE before[x]]

LEMMA ObservationKeeps ==
  ASSUME NEW f, NEW w, Good(f, w), NEW forms \in Forms, NEW profile
  PROVE  LET v == ProjectContact(w, Observation(forms, profile))
         IN  Good(f, v) /\ Joined(forms, w.now.owner, v.now.owner)
<1> DEFINE o == Observation(forms, profile)
           v == ProjectContact(w, o)
           m == w.now
           c == Survivor(m, o)
<1>1. o.forms = forms /\ o.id = forms[1] /\ 1 \in DOMAIN forms /\ forms[1] \in NativeIds
  BY DEF Observation, Forms
<1>2. Named(o) = {forms[i] : i \in DOMAIN forms}
  BY <1>1 DEF Named
<1>3. Valid(m, o) /\ Consistent(m)
  BY <1>1, <1>2 DEF Valid, Good
<1> HIDE DEF o
<1>4. /\ Good(f, v)
      /\ v.now.owner = [x \in NativeIds |-> IF x \in Named(o) \/ m.owner[x] \in Reached(m, o)
                                            THEN c ELSE m.owner[x]]
  BY <1>3, ContactKeeps
<1>5. \A x \in NativeIds :
        m.owner[x] \in Reached(m, o)
          <=> m.owner[x] # Nobody /\ \E i \in DOMAIN forms : m.owner[forms[i]] = m.owner[x]
  BY <1>2 DEF Reached, Known
<1>6. c \in NativeIds /\ (Known(m, o) = {} => c = forms[1])
  BY <1>1, <1>3, WhoSurvives
<1>7. CASE Known(m, o) = {}
  <2>1. \A i \in DOMAIN forms : m.owner[forms[i]] = Nobody
    BY <1>2, <1>7 DEF Known
  <2> QED BY <2>1, <1>2, <1>4, <1>5, <1>6, <1>7 DEF Joined, v, m, o
<1>8. CASE Known(m, o) # {}
  <2>1. \E i \in DOMAIN forms : forms[i] \in Known(m, o)
    BY <1>2, <1>8 DEF Known
  <2>2. PICK i \in DOMAIN forms :
          /\ FirstIn(forms, Known(m, o)) = forms[i] /\ forms[i] \in Known(m, o)
          /\ \A j \in DOMAIN forms : j < i => forms[j] \notin Known(m, o)
    BY <2>1, FirstExists
  <2>3. c = m.owner[forms[i]] /\ c # Nobody
    BY <1>1, <1>8, <2>2 DEF Survivor, Known
  <2>4. \A j \in DOMAIN forms : j < i => m.owner[forms[j]] = Nobody
    BY <1>2, <2>2 DEF Known
  <2> QED BY <2>3, <2>4, <1>2, <1>4, <1>5, <1>6 DEF Joined, v, m, o
<1> QED BY <1>7, <1>8

LEMMA LastSeenKeeps ==
  ASSUME NEW f, NEW w, Good(f, w), NEW form \in NativeIds, NEW at
  PROVE  Keeps(f, w, ProjectLastSeen(w, form, at))
<1> DEFINE m == w.now
           c == m.owner[form]
           o == [id |-> c, forms |-> <<form>>, profile |-> NoProfile, seen |-> at]
<1>1. CASE c = Nobody
  BY <1>1 DEF ProjectLastSeen, Keeps
<1>2. CASE c # Nobody
  <2>1. Consistent(m) /\ c \in NativeIds
    BY <1>2 DEF Good, Consistent
  <2>2. o.id = c /\ o.forms = <<form>> /\ DOMAIN o.forms = {1} /\ o.forms[1] = form
    OBVIOUS
  <2>3. o.forms \in Forms
    <3>1. <<form>> \in [1 .. 1 -> NativeIds]
      OBVIOUS
    <3> QED BY <2>2, <3>1 DEF Forms
  <2> HIDE DEF o
  <2>4. Named(o) = {form} /\ Known(m, o) = {form} /\ Reached(m, o) = {c}
    BY <1>2, <2>2 DEF Named, Known, Reached
  <2>5. Valid(m, o)
    BY <2>1, <2>2, <2>3, <2>4 DEF Valid
  <2>6. Survivor(m, o) = c
    BY <2>1, <2>4, <2>5, WhoSurvives
  <2> DEFINE v == ProjectContact(w, o)
  <2>7. /\ Good(f, v)
        /\ v.now.owner = [x \in NativeIds |->
                            IF x \in Named(o) \/ m.owner[x] \in Reached(m, o)
                            THEN Survivor(m, o) ELSE m.owner[x]]
    BY <2>5, ContactKeeps
  <2>8. v.now.owner = m.owner
    BY <2>1, <2>4, <2>6, <2>7 DEF Consistent
  <2>9. ProjectLastSeen(w, form, at) = v
    BY <1>2 DEF ProjectLastSeen, o
  <2> QED BY <2>7, <2>8, <2>9 DEF Keeps
<1> QED BY <1>1, <1>2

(***************************************************************************)
(* Every event.                                                            *)
(***************************************************************************)
\* What a projection keeps that may join contacts.
Resolves(f, w, v) ==
  /\ Good(f, v)
  /\ v.now.owner = w.now.owner
       \/ \E forms \in Forms : Joined(forms, w.now.owner, v.now.owner)

LEMMA EventKeeps ==
  ASSUME NEW f, NEW w, Good(f, w), NEW e \in Events
  PROVE  Resolves(f, w, Project(w, e))
<1>1. CASE e \in ContactEvents
  <2>1. /\ e.forms \in Forms
        /\ Project(w, e) = ProjectContact(w, Observation(e.forms, e.profile))
    BY <1>1 DEF ContactEvents, Project
  <2> QED BY <2>1, ObservationKeeps DEF Resolves
<1>2. CASE e \in LastSeenEvents
  <2>1. e.form \in NativeIds /\ Project(w, e) = ProjectLastSeen(w, e.form, e.at)
    BY <1>2 DEF LastSeenEvents, Project
  <2> QED BY <2>1, LastSeenKeeps DEF Resolves, Keeps
<1>3. CASE e \in ConnectionEvents
  <2>1. Project(w, e) = ProjectConnection(w, e.end, e.at)
    BY <1>3 DEF ConnectionEvents, Project
  <2> QED BY <2>1, ConnectionKeeps DEF Resolves, Keeps
<1>4. CASE e \in MessageEvents
  <2> DEFINE sent == Sender(w, e.sender)
  <2>1. /\ e.sender \in Forms
        /\ Project(w, e) = ProjectMessage(sent, e.content, e.at)
    BY <1>4 DEF MessageEvents, Project
  <2>2. Resolves(f, w, sent)
    BY <2>1, ObservationKeeps DEF Sender, Resolves
  <2> HIDE DEF sent
  <2>3. Keeps(f, sent, Landed(sent, e.content))
    BY <2>2, LandedKeeps DEF Resolves
  <2>4. Keeps(f, Landed(sent, e.content),
              ProjectChat(Landed(sent, e.content), "none", e.at))
    BY <2>3, ChatKeeps DEF Keeps
  <2> QED BY <2>1, <2>2, <2>3, <2>4 DEF Resolves, Keeps, ProjectMessage
<1>5. CASE e \in UpdateEvents
  <2>1. Project(w, e) = ProjectUpdate(w, e.update)
    BY <1>5 DEF UpdateEvents, Project
  <2> QED BY <2>1, UpdateKeeps DEF Resolves, Keeps
<1>6. CASE e \in ChatEvents
  <2>1. Project(w, e) = ProjectSyncedChat(w, e.subject, e.at, e.roster)
    BY <1>6 DEF ChatEvents, Project
  <2>2. Keeps(f, w, ProjectChat(w, e.subject, e.at))
    BY ChatKeeps
  <2>3. Keeps(f, ProjectChat(w, e.subject, e.at), Project(w, e))
    BY <2>1, <2>2, GroupKeeps DEF Keeps, ProjectSyncedChat
  <2> QED BY <2>2, <2>3 DEF Resolves, Keeps
<1>7. CASE e \in MetadataEvents
  <2>1. Project(w, e) = ProjectMetadata(w, e.subject, e.roster)
    BY <1>7 DEF MetadataEvents, Project
  <2> DEFINE grouped == ProjectGroup(w, e.subject, e.roster)
  <2>2. Keeps(f, w, grouped)
    BY GroupKeeps
  <2>3. Keeps(f, grouped, ProjectChat(grouped, e.subject, 0))
    BY <2>2, ChatKeeps DEF Keeps
  <2>4. Project(w, e) = grouped \/ Project(w, e) = ProjectChat(grouped, e.subject, 0)
    BY <2>1 DEF ProjectMetadata
  <2> QED BY <2>2, <2>3, <2>4 DEF Resolves, Keeps
<1>8. CASE e \in ParticipantEvents
  <2>1. Project(w, e) = ProjectParticipants(w, e.who, e.role)
    BY <1>8 DEF ParticipantEvents, Project
  <2> QED BY <2>1, GroupKeeps DEF Resolves, Keeps, ProjectParticipants
<1> QED BY <1>1, <1>2, <1>3, <1>4, <1>5, <1>6, <1>7, <1>8 DEF Events

(***************************************************************************)
(* Batches. A patch says all that the batch did to the mirror, and a new   *)
(* one starts from a follower who is current.                              *)
(***************************************************************************)
LEMMA PatchTellsAll ==
  ASSUME NEW f, NEW w, Good(f, w)
  PROVE  Patched(f, w.patch) = Visible(w.now)
<1> DEFINE m == w.now
           p == w.patch
<1>1. Consistent(m) /\ ContactsFollow(f, w) /\ RestFollows(f, w)
  BY DEF Good
<1>2. [c \in NativeIds |-> IF c \in p.deleted THEN NoContact
                           ELSE IF p.contacts[c] # NoContact THEN p.contacts[c]
                           ELSE f.contacts[c]] = m.contacts
  BY <1>1 DEF Consistent, IsMap, ContactsFollow
<1>3. [x \in NativeIds |-> IF p.aliases[x] # Nobody THEN p.aliases[x]
                           ELSE IF x \in p.freed THEN Nobody ELSE f.owner[x]] = m.owner
  BY <1>1 DEF Consistent, ContactsFollow
<1>4. /\ m.account = IF "account" \in p.written THEN p.account ELSE f.account
      /\ m.chat = IF "chat" \in p.written THEN p.chat ELSE f.chat
      /\ m.group = IF "group" \in p.written THEN p.group ELSE f.group
      /\ m.message = IF "message" \in p.written THEN p.message ELSE f.message
  BY <1>1 DEF RestFollows, Rest
<1> QED BY <1>2, <1>3, <1>4 DEF Patched, Visible

LEMMA NothingToTell ==
  ASSUME NEW m, IsMap(m.contacts), m.owner \in [NativeIds -> NativeIds \cup {Nobody}]
  PROVE  Patched(Visible(m), EmptyPatch) = Visible(m)
<1> DEFINE p == EmptyPatch
           f == Visible(m)
<1>1. /\ p.deleted = {} /\ p.freed = {} /\ p.written = {}
      /\ \A c \in NativeIds : p.contacts[c] = NoContact /\ p.aliases[c] = Nobody
  BY DEF EmptyPatch
<1>2. /\ f.contacts = m.contacts /\ f.owner = m.owner /\ f.account = m.account
      /\ f.chat = m.chat /\ f.group = m.group /\ f.message = m.message
  BY DEF Visible
<1> HIDE DEF p, f
<1>3. [c \in NativeIds |-> IF c \in p.deleted THEN NoContact
                           ELSE IF p.contacts[c] # NoContact THEN p.contacts[c]
                           ELSE f.contacts[c]] = m.contacts
  BY <1>1, <1>2 DEF IsMap
<1>4. [x \in NativeIds |-> IF p.aliases[x] # Nobody THEN p.aliases[x]
                           ELSE IF x \in p.freed THEN Nobody ELSE f.owner[x]] = m.owner
  BY <1>1, <1>2
<1>5. Patched(f, p) = Visible(m)
  BY <1>1, <1>2, <1>3, <1>4 DEF Patched, Visible
<1> QED BY <1>5 DEF p, f

LEMMA BatchBegins ==
  ASSUME NEW m, MirrorShape(m), Consistent(m)
  PROVE  Good(Visible(m), [now |-> m, patch |-> EmptyPatch])
<1> DEFINE p == EmptyPatch
           f == Visible(m)
           w == [now |-> m, patch |-> p]
<1>1. /\ PatchShape(p) /\ p.deleted = {} /\ p.freed = {} /\ p.written = {}
      /\ \A c \in NativeIds : p.contacts[c] = NoContact /\ p.aliases[c] = Nobody
  BY DEF EmptyPatch, PatchShape, PatchFields
<1>2. /\ f.contacts = m.contacts /\ f.owner = m.owner
      /\ \A r \in Rest : f[r] = m[r]
  BY DEF Visible, Rest
<1> HIDE DEF p, f
<1>3. w.now = m /\ w.patch = p
  OBVIOUS
<1>4. Shape(w)
  BY <1>1 DEF Shape
<1> HIDE DEF w
<1>5. ContactsFollow(f, w)
  BY <1>1, <1>2, <1>3 DEF ContactsFollow
<1>6. RestFollows(f, w)
  BY <1>1, <1>2, <1>3 DEF RestFollows
<1>7. Good(f, w)
  BY <1>3, <1>4, <1>5, <1>6 DEF Good
<1> QED BY <1>7 DEF w, p, f

(***************************************************************************)
(* The inductive invariant: in the middle of a batch, mirror and patch tell *)
(* a follower the same.                                                    *)
(***************************************************************************)
IInv ==
  /\ MirrorShape(mirror) /\ Consistent(mirror)
  /\ follower = Visible(mirror)
  /\ Good(follower, work)

LEMMA InitIInv == Init => IInv
<1> SUFFICES ASSUME Init PROVE IInv
  OBVIOUS
<1>1. MirrorShape(EmptyMirror)
  BY DEF EmptyMirror, MirrorShape
<1>2. Consistent(EmptyMirror)
  <2>1. /\ EmptyMirror.contacts = [c \in NativeIds |-> NoContact]
        /\ EmptyMirror.owner = [x \in NativeIds |-> Nobody] /\ NoContact.ids = {}
    BY DEF EmptyMirror, NoContact
  <2> QED BY <2>1 DEF Consistent, IsMap, Resolved, SelfOwned
<1>3. Good(Visible(EmptyMirror), [now |-> EmptyMirror, patch |-> EmptyPatch])
  BY <1>1, <1>2, BatchBegins
<1> QED BY <1>1, <1>2, <1>3 DEF Init, IInv

LEMMA NextIInv == IInv /\ [Next]_vars => IInv'
<1> SUFFICES ASSUME IInv, [Next]_vars PROVE IInv'
  OBVIOUS
<1>1. MirrorShape(work.now) /\ Consistent(work.now)
  BY DEF IInv, Good, Shape
<1>2. ASSUME NEW e \in Events, Observe(e) PROVE IInv'
  <2>1. Good(follower, Project(work, e))
    BY EventKeeps DEF IInv, Resolves
  <2> QED BY <2>1, <1>2 DEF IInv, Observe
<1>3. CASE Accept
  <2>1. mirror' = work.now /\ work' = [now |-> work.now, patch |-> EmptyPatch]
    BY <1>3 DEF Accept, IInv, Good, Shape
  <2>2. follower' = Visible(work.now)
    <3>1. Patched(follower, work.patch) = Visible(work.now)
      BY PatchTellsAll DEF IInv
    <3>2. CASE work.patch = EmptyPatch
      <4>1. Patched(follower, work.patch) = follower
        BY <3>2, NothingToTell DEF IInv, Consistent
      <4> QED BY <4>1, <3>1, <3>2, <1>3 DEF Accept
    <3>3. CASE work.patch # EmptyPatch
      BY <3>1, <3>3, <1>3 DEF Accept
    <3> QED BY <3>2, <3>3
  <2>3. Good(Visible(work.now), [now |-> work.now, patch |-> EmptyPatch])
    BY <1>1, BatchBegins
  <2> QED BY <1>1, <2>1, <2>2, <2>3 DEF IInv
<1>4. CASE Refuse
  <2>1. Good(Visible(mirror), [now |-> mirror, patch |-> EmptyPatch])
    BY BatchBegins DEF IInv
  <2> QED BY <1>4, <2>1 DEF Refuse, IInv
<1>5. CASE UNCHANGED vars
  BY <1>5 DEF vars, IInv
<1>6. Next => Accept \/ Refuse \/ \E e \in Events : Observe(e)
  BY DEF Next, Observing, Events
<1> QED BY <1>2, <1>3, <1>4, <1>5, <1>6

LEMMA Invariance == Spec => []IInv
BY InitIInv, NextIInv, PTL DEF Spec

\* An address resolves to a contact exactly when that contact exists and owns
\* it, whatever contacts projectContact() joined, in a batch or after it.
THEOREM ContactsAgree == Spec => []OneOwner
<1>1. IInv => OneOwner
  BY DEF IInv, Good, Consistent, OneOwner
<1> QED BY <1>1, Invariance, PTL

\* Whoever applies the patches that accept() returns holds the mirror.
THEOREM PatchesTellAll == Spec => []FollowerIsCurrent
<1>1. IInv => FollowerIsCurrent
  BY DEF IInv, FollowerIsCurrent
<1> QED BY <1>1, Invariance, PTL

(***************************************************************************)
(* Refinement.                                                             *)
(***************************************************************************)
LEMMA InitResolution == Init => Resolution!Init
BY DEF Init, Resolution!Init, EmptyMirror

LEMMA JoinedIsObserved ==
  ASSUME NEW forms \in Forms, Joined(forms, work.now.owner, work'.now.owner),
         UNCHANGED mirror
  PROVE  Resolution!Observe(forms)
BY DEF Joined, Resolution!Observe, Resolution!Named, Resolution!FirstKnown,
       Resolution!Unknown

LEMMA NextResolution ==
  IInv /\ [Next]_vars => [Resolution!Next]_<<work.now.owner, mirror.owner>>
<1> SUFFICES ASSUME IInv, [Next]_vars
             PROVE  [Resolution!Next]_<<work.now.owner, mirror.owner>>
  OBVIOUS
<1>1. ASSUME NEW e \in Events, Observe(e)
      PROVE  [Resolution!Next]_<<work.now.owner, mirror.owner>>
  <2>1. Resolves(follower, work, Project(work, e))
    BY EventKeeps DEF IInv
  <2>2. work' = Project(work, e) /\ UNCHANGED mirror
    BY <1>1 DEF Observe
  <2>3. CASE work'.now.owner = work.now.owner
    BY <2>2, <2>3
  <2>4. CASE \E forms \in Forms : Joined(forms, work.now.owner, work'.now.owner)
    BY <2>2, <2>4, JoinedIsObserved DEF Resolution!Next
  <2> QED BY <2>1, <2>2, <2>3, <2>4 DEF Resolves
<1>2. CASE Accept
  <2>1. mirror' = work.now /\ work'.now = work.now
    BY <1>2 DEF Accept, IInv, Good, Shape
  <2> QED BY <2>1 DEF Resolution!Next, Resolution!Accept
<1>3. CASE Refuse
  BY <1>3 DEF Refuse, Resolution!Next, Resolution!Refuse
<1>4. CASE UNCHANGED vars
  BY <1>4 DEF vars
<1>5. Next => Accept \/ Refuse \/ \E e \in Events : Observe(e)
  BY DEF Next, Observing, Events
<1> QED BY <1>1, <1>2, <1>3, <1>4, <1>5

\* Contacts are the classes of the addresses that were observed together.
THEOREM ContactsAreClasses == Spec => ImplementsResolution
<1>1. Spec => Resolution!Spec
  BY InitResolution, NextResolution, Invariance, PTL DEF Spec, Resolution!Spec
<1> QED BY <1>1 DEF ImplementsResolution

(***************************************************************************)
(* Extremes of sets of numbers.                                            *)
(***************************************************************************)
LEMMA LeastExists ==
  ASSUME NEW S, S \subseteq Nat, S # {}
  PROVE  \E x \in S : \A y \in S : x <= y
<1> DEFINE R == OpToRel(<, Nat)
<1>1. IsWellFoundedOn(R, Nat)
  BY NatLessThanWellFounded
<1>2. PICK x \in S : \A y \in S : ~ (<<y, x>> \in R)
  <2> HIDE DEF R
  <2> QED BY <1>1, WFMin
<1>3. \A y \in S : ~ (y < x)
  BY <1>2 DEF OpToRel
<1> HIDE DEF R
<1> QED BY <1>3

LEMMA GreatestExists ==
  ASSUME NEW n \in Nat, NEW S, S \subseteq 0 .. n, S # {}
  PROVE  \E x \in S : \A y \in S : y <= x
<1> DEFINE T == {n - x : x \in S}
<1>1. T \subseteq Nat /\ T # {}
  <2>1. \A x \in S : n - x \in Nat
    OBVIOUS
  <2> QED BY <2>1
<1>2. PICK t \in T : \A u \in T : t <= u
  <2> HIDE DEF T
  <2> QED BY <1>1, LeastExists
<1>3. PICK x \in S : t = n - x
  OBVIOUS
<1>4. \A y \in S : n - x <= n - y
  BY <1>2, <1>3
<1> QED BY <1>4

(***************************************************************************)
(* The updates that waited for a message, folded over it. Folds defines    *)
(* the fold by a recursive function on sets of indices; that function      *)
(* exists and is unique for every length, by the least length for which it *)
(* were not so.                                                            *)
(***************************************************************************)
Unfolds(F, b, s, n) ==
  F = [T \in SUBSET (1 .. n) |->
         IF T = {} THEN b ELSE Updated(F[T \ {Max(T)}], s[Max(T)])]

LEMMA MaxIs ==
  ASSUME NEW n \in Nat, NEW T \in SUBSET (1 .. n), T # {}
  PROVE  Max(T) \in T /\ \A y \in T : y <= Max(T)
<1>1. \E x \in T : \A y \in T : y <= x
  <2>1. T \subseteq 0 .. n
    OBVIOUS
  <2> QED BY <2>1, GreatestExists
<1>2. \E x \in T : \A y \in T : x >= y
  BY <1>1
<1>3. Max(T) \in T /\ \A y \in T : Max(T) >= y
  BY <1>2 DEF Max
<1> QED BY <1>3

\* The message that the updates s make of the message b.
Taken(b, s) == FoldLeft(Updated, b, s)

LEMMA FoldIs ==
  ASSUME NEW b, NEW s, NEW n \in Nat, DOMAIN s = 1 .. n
  PROVE  Taken(b, s) = (CHOOSE F : Unfolds(F, b, s, n))[1 .. n]
BY DEF Taken, FoldLeft, MapThenFoldSet, Unfolds

LEMMA UnfoldingGrows ==
  ASSUME NEW b, NEW s, NEW n \in Nat, NEW F, Unfolds(F, b, s, n)
  PROVE  \E G : Unfolds(G, b, s, n + 1)
<1> DEFINE G == [T \in SUBSET (1 .. n + 1) |->
                   IF T = {} THEN b ELSE Updated(F[T \ {Max(T)}], s[Max(T)])]
<1>1. ASSUME NEW T \in SUBSET (1 .. n) PROVE G[T] = F[T]
  <2>1. T \in SUBSET (1 .. n + 1)
    OBVIOUS
  <2>2. G[T] = IF T = {} THEN b ELSE Updated(F[T \ {Max(T)}], s[Max(T)])
    BY <2>1
  <2>3. F[T] = IF T = {} THEN b ELSE Updated(F[T \ {Max(T)}], s[Max(T)])
    BY DEF Unfolds
  <2> QED BY <2>2, <2>3
<1>2. ASSUME NEW T \in SUBSET (1 .. n + 1), T # {}
      PROVE  T \ {Max(T)} \in SUBSET (1 .. n)
  <2>1. n + 1 \in Nat
    OBVIOUS
  <2>2. Max(T) \in T /\ \A y \in T : y <= Max(T)
    BY <1>2, <2>1, MaxIs
  <2>3. ASSUME NEW y \in T, y # Max(T) PROVE y \in 1 .. n
    <3>1. y \in 1 .. n + 1 /\ Max(T) \in 1 .. n + 1 /\ y <= Max(T)
      BY <2>2
    <3> QED BY <2>3, <3>1
  <2> QED BY <2>3
<1>3. ASSUME NEW T \in SUBSET (1 .. n + 1), T # {}
      PROVE  G[T] = Updated(G[T \ {Max(T)}], s[Max(T)])
  <2>1. G[T \ {Max(T)}] = F[T \ {Max(T)}]
    BY <1>1, <1>2, <1>3
  <2>2. G[T] = Updated(F[T \ {Max(T)}], s[Max(T)])
    BY <1>3
  <2> QED BY <2>1, <2>2
<1>4. G = [T \in SUBSET (1 .. n + 1) |->
             IF T = {} THEN b ELSE Updated(G[T \ {Max(T)}], s[Max(T)])]
  <2>1. G[{}] = b
    OBVIOUS
  <2>2. G = [T \in SUBSET (1 .. n + 1) |-> G[T]]
    OBVIOUS
  <2> HIDE DEF G
  <2>3. \A T \in SUBSET (1 .. n + 1) :
          G[T] = IF T = {} THEN b ELSE Updated(G[T \ {Max(T)}], s[Max(T)])
    BY <1>3, <2>1
  <2> QED BY <2>2, <2>3
<1> HIDE DEF G
<1> QED BY <1>4 DEF Unfolds

LEMMA UnfoldingExists ==
  ASSUME NEW b, NEW s, NEW n \in Nat
  PROVE  \E F : Unfolds(F, b, s, n)
<1> DEFINE Bad == {k \in Nat : ~ \E F : Unfolds(F, b, s, k)}
<1>1. SUFFICES ASSUME Bad # {} PROVE FALSE
  OBVIOUS
<1>2. PICK k \in Bad : \A j \in Bad : k <= j
  BY <1>1, LeastExists
<1>3. Unfolds([T \in SUBSET (1 .. 0) |-> b], b, s, 0)
  <2>1. \A T \in SUBSET (1 .. 0) : T = {}
    OBVIOUS
  <2> QED BY <2>1 DEF Unfolds
<1>4. k # 0
  BY <1>3
<1>5. k - 1 \in Nat /\ k - 1 \notin Bad /\ k = (k - 1) + 1
  BY <1>2, <1>4
<1>6. PICK F : Unfolds(F, b, s, k - 1)
  BY <1>5
<1>7. \E G : Unfolds(G, b, s, k)
  BY <1>5, <1>6, UnfoldingGrows
<1> QED BY <1>7

\* What the unfoldings of two sequences have in common.
LEMMA UnfoldingsAgree ==
  ASSUME NEW b, NEW s, NEW t, NEW n \in Nat,
         NEW F, Unfolds(F, b, s, n), NEW G, Unfolds(G, b, t, n + 1),
         \A i \in 1 .. n : t[i] = s[i]
  PROVE  F[1 .. n] = G[1 .. n]
<1> DEFINE Bad == {k \in 0 .. n : \E T \in SUBSET (1 .. k) : F[T] # G[T]}
<1>1. \A k \in 0 .. n : \A T \in SUBSET (1 .. k) :
        T \in SUBSET (1 .. n) /\ T \in SUBSET (1 .. n + 1)
  OBVIOUS
<1>2. ASSUME Bad # {} PROVE FALSE
  <2>1. PICK k \in Bad : \A j \in Bad : k <= j
    <3>1. Bad \subseteq Nat
      OBVIOUS
    <3> HIDE DEF Bad
    <3> QED BY <1>2, <3>1, LeastExists
  <2>2. PICK T \in SUBSET (1 .. k) : F[T] # G[T]
    OBVIOUS
  <2>3. T \in SUBSET (1 .. n) /\ T \in SUBSET (1 .. n + 1) /\ k \in 0 .. n
    BY <1>1
  <2>4. T # {}
    BY <2>2, <2>3 DEF Unfolds
  <2>5. Max(T) \in T /\ \A y \in T : y <= Max(T)
    BY <2>3, <2>4, MaxIs
  <2>6. Max(T) \in 1 .. k
    BY <2>5
  <2>7. T \ {Max(T)} \in SUBSET (1 .. k - 1)
    <3>1. ASSUME NEW y \in T, y # Max(T) PROVE y \in 1 .. k - 1
      <4>1. y \in 1 .. k /\ y <= Max(T)
        BY <2>5
      <4> QED BY <2>3, <2>6, <3>1, <4>1
    <3> QED BY <3>1
  <2>8. F[T \ {Max(T)}] = G[T \ {Max(T)}]
    <3>1. k - 1 \in 0 .. n /\ ~ (k <= k - 1)
      BY <2>3, <2>6
    <3>2. k - 1 \notin Bad
      <4> HIDE DEF Bad
      <4> QED BY <2>1, <3>1
    <3> QED BY <2>7, <3>1, <3>2
  <2>9. s[Max(T)] = t[Max(T)]
    BY <2>3, <2>6
  <2>10. F[T] = Updated(F[T \ {Max(T)}], s[Max(T)])
    BY ONLY <2>3, <2>4, Unfolds(F, b, s, n) DEF Unfolds
  <2>11. G[T] = Updated(G[T \ {Max(T)}], t[Max(T)])
    BY ONLY <2>3, <2>4, Unfolds(G, b, t, n + 1) DEF Unfolds
  <2> QED BY <2>2, <2>8, <2>9, <2>10, <2>11
<1>3. Bad = {} => F[1 .. n] = G[1 .. n]
  <2>1. n \in 0 .. n
    OBVIOUS
  <2> QED BY <2>1
<1> QED BY <1>2, <1>3

LEMMA FoldOfNone ==
  ASSUME NEW b, NEW s, DOMAIN s = 1 .. 0
  PROVE  Taken(b, s) = b
<1>1. PICK F : F = CHOOSE G : Unfolds(G, b, s, 0)
  OBVIOUS
<1>2. Unfolds(F, b, s, 0)
  BY <1>1, UnfoldingExists
<1>3. F[1 .. 0] = b
  BY <1>2 DEF Unfolds
<1> QED BY <1>1, <1>3, FoldIs

LEMMA FoldOfOneMore ==
  ASSUME NEW b, NEW n \in Nat, NEW s, DOMAIN s = 1 .. n,
         NEW t, DOMAIN t = 1 .. n + 1, \A i \in 1 .. n : t[i] = s[i]
  PROVE  Taken(b, t) = Updated(Taken(b, s), t[n + 1])
<1>1. PICK F : F = CHOOSE H : Unfolds(H, b, s, n)
  OBVIOUS
<1>2. PICK G : G = CHOOSE H : Unfolds(H, b, t, n + 1)
  OBVIOUS
<1>3. Unfolds(F, b, s, n) /\ Unfolds(G, b, t, n + 1)
  <2>1. n + 1 \in Nat
    OBVIOUS
  <2> QED BY <1>1, <1>2, <2>1, UnfoldingExists
<1>4. F[1 .. n] = G[1 .. n]
  BY <1>3, UnfoldingsAgree
<1>5. G[1 .. n + 1] = Updated(G[1 .. n], t[n + 1])
  <2>1. 1 .. n + 1 \in SUBSET (1 .. n + 1) /\ 1 .. n + 1 # {}
    OBVIOUS
  <2>2. Max(1 .. n + 1) = n + 1
    <3>1. n + 1 \in 1 .. n + 1 /\ n + 1 \in Nat
      OBVIOUS
    <3>2. Max(1 .. n + 1) \in 1 .. n + 1 /\ n + 1 <= Max(1 .. n + 1)
      BY <2>1, <3>1, MaxIs
    <3> QED BY <3>2
  <2>3. (1 .. n + 1) \ {n + 1} = 1 .. n
    OBVIOUS
  <2> QED BY <1>3, <2>1, <2>2, <2>3 DEF Unfolds
<1>6. Taken(b, s) = F[1 .. n]
  BY <1>1, FoldIs
<1>7. Taken(b, t) = G[1 .. n + 1]
  <2>1. n + 1 \in Nat
    OBVIOUS
  <2> QED BY <1>2, <2>1, FoldIs
<1> QED BY <1>4, <1>5, <1>6, <1>7

(***************************************************************************)
(* Messages.                                                               *)
(***************************************************************************)
IsContent(x) ==
  x = [kind |-> x.kind, of |-> x.of] /\ x.kind \in {"text", "poll", "revoked"}

IsMessage(r) ==
  /\ r = [content |-> r.content, edited |-> r.edited, receipts |-> r.receipts,
          reactions |-> r.reactions]
  /\ IsContent(r.content)

LEMMA ContentsAre ==
  ASSUME NEW content \in Contents
  PROVE  IsContent(content) /\ content.kind # "revoked"
BY DEF Contents, IsContent, Text, Poll

LEMMA FreshIs ==
  ASSUME NEW content \in Contents
  PROVE  IsMessage(Fresh(content))
BY ContentsAre DEF IsMessage, Fresh, NoMessage

LEMMA NoMessageIsNone ==
  ASSUME NEW r, IsMessage(r)
  PROVE  r # NoMessage
BY DEF IsMessage, IsContent, NoMessage

\* An update leaves a message one, and one revoked as it is.
LEMMA UpdatedIs ==
  ASSUME NEW r, IsMessage(r), NEW u \in Updates
  PROVE  /\ IsMessage(Updated(r, u))
         /\ r.content.kind = "revoked" => Updated(r, u).content.kind = "revoked"
<1> DEFINE v == Updated(r, u)
<1>1. /\ r = [content |-> r.content, edited |-> r.edited, receipts |-> r.receipts,
              reactions |-> r.reactions]
      /\ IsContent(r.content)
  BY DEF IsMessage
<1>2. u.kind \in {"receipt", "reaction", "vote", "edit", "revoke"}
  BY DEF Updates
<1>3. CASE u.kind = "receipt"
  <2>1. v = [r EXCEPT !.receipts[u.by] = u.status]
    BY <1>3 DEF Updated
  <2> QED BY <1>1, <2>1 DEF IsMessage
<1>4. CASE u.kind = "reaction"
  <2>1. v = [r EXCEPT !.reactions = AfterReaction(r.reactions, u.by, u.emoji)]
    BY <1>4 DEF Updated
  <2> QED BY <1>1, <2>1 DEF IsMessage
<1>5. CASE u.kind = "vote" /\ r.content.kind = "poll"
  <2>1. v = [r EXCEPT !.content = [r.content EXCEPT !.of = AfterVote(r.content.of, u.by, u.selected)]]
    BY <1>5 DEF Updated
  <2>2. IsContent([r.content EXCEPT !.of = AfterVote(r.content.of, u.by, u.selected)])
    BY <1>1 DEF IsContent
  <2> QED BY <1>1, <1>5, <2>1, <2>2 DEF IsMessage
<1>6. CASE u.kind = "edit" /\ r.content.kind # "revoked"
  <2>1. v = [r EXCEPT !.content = u.content,
                      !.edited = IF u.at = 0 THEN r.edited ELSE u.at]
    BY <1>6 DEF Updated
  <2>2. IsContent(u.content)
    BY <1>6, ContentsAre DEF Updates
  <2> QED BY <1>1, <1>6, <2>1, <2>2 DEF IsMessage
<1>7. CASE u.kind = "revoke"
  <2>1. v = [r EXCEPT !.content = Revoked(u.by)]
    BY <1>7 DEF Updated
  <2>2. IsContent(Revoked(u.by)) /\ Revoked(u.by).kind = "revoked"
    BY DEF IsContent, Revoked
  <2> QED BY <1>1, <2>1, <2>2 DEF IsMessage
<1>8. CASE (u.kind = "vote" /\ r.content.kind # "poll")
             \/ (u.kind = "edit" /\ r.content.kind = "revoked")
  <2>1. v = r
    BY <1>8 DEF Updated
  <2> QED BY <2>1
<1> QED BY <1>2, <1>3, <1>4, <1>5, <1>6, <1>7, <1>8

\* What lands is a message, whatever waited for it.
LEMMA FoldIsAMessage ==
  ASSUME NEW content \in Contents, NEW s \in Seq(Updates)
  PROVE  IsMessage(Taken(Fresh(content), s))
<1> DEFINE b == Fresh(content)
           Upto(k) == SubSeq(s, 1, k)
           Bad == {k \in 0 .. Len(s) : ~ IsMessage(Taken(b, Upto(k)))}
<1>1. \A k \in 0 .. Len(s) : /\ DOMAIN Upto(k) = 1 .. k
                             /\ \A i \in 1 .. k : Upto(k)[i] = s[i] /\ s[i] \in Updates
  OBVIOUS
<1>2. ASSUME Bad # {} PROVE FALSE
  <2>1. PICK k \in Bad : \A j \in Bad : k <= j
    <3>1. Bad \subseteq Nat
      <4> HIDE DEF Upto
      <4> QED OBVIOUS
    <3> HIDE DEF Bad
    <3> QED BY <1>2, <3>1, LeastExists
  <2>2. CASE k = 0
    <3>1. DOMAIN Upto(0) = 1 .. 0
      BY <1>1
    <3>2. Taken(b, Upto(0)) = b
      BY <3>1, FoldOfNone
    <3> QED BY <2>2, <3>2, FreshIs
  <2>3. CASE k # 0
    <3>1. PICK n \in Nat : k = n + 1 /\ n \in 0 .. Len(s) /\ k \in 0 .. Len(s)
      <4>1. k - 1 \in Nat
        BY <2>3
      <4> QED BY <4>1
    <3>2. n \notin Bad
      <4>1. ~ (k <= n)
        BY <3>1
      <4> HIDE DEF Bad
      <4> QED BY <2>1, <4>1
    <3>3. IsMessage(Taken(b, Upto(n)))
      BY <3>1, <3>2
    <3>4. /\ DOMAIN Upto(n) = 1 .. n /\ DOMAIN Upto(k) = 1 .. n + 1
          /\ \A i \in 1 .. n : Upto(k)[i] = Upto(n)[i]
          /\ Upto(k)[n + 1] \in Updates
      <4>1. \A i \in 1 .. n + 1 : Upto(k)[i] = s[i] /\ s[i] \in Updates
        BY <1>1, <3>1
      <4>2. \A i \in 1 .. n : Upto(n)[i] = s[i] /\ i \in 1 .. n + 1
        BY <1>1, <3>1
      <4>3. n + 1 \in 1 .. n + 1
        OBVIOUS
      <4>4. DOMAIN Upto(n) = 1 .. n /\ DOMAIN Upto(k) = 1 .. n + 1
        BY <1>1, <3>1
      <4> HIDE DEF Upto
      <4> QED BY <4>1, <4>2, <4>3, <4>4
    <3> HIDE DEF Upto, b
    <3>5. Taken(b, Upto(k)) = Updated(Taken(b, Upto(n)), Upto(k)[n + 1])
      BY <3>4, FoldOfOneMore
    <3>6. IsMessage(Taken(b, Upto(k)))
      BY <3>3, <3>4, <3>5, UpdatedIs
    <3> QED BY <3>6
  <2> QED BY <2>2, <2>3
<1>3. Upto(Len(s)) = s /\ Len(s) \in 0 .. Len(s)
  OBVIOUS
<1> HIDE DEF Upto
<1> QED BY <1>2, <1>3

LEMMA FoldOfAppend ==
  ASSUME NEW b, NEW s \in Seq(Updates), NEW u \in Updates
  PROVE  Taken(b, Append(s, u)) = Updated(Taken(b, s), u)
<1> DEFINE t == Append(s, u)
<1>1. PICK n \in Nat : n = Len(s)
  OBVIOUS
<1>2. /\ DOMAIN s = 1 .. n /\ DOMAIN t = 1 .. n + 1 /\ t[n + 1] = u
      /\ \A i \in 1 .. n : t[i] = s[i]
  <2>1. DOMAIN s = 1 .. Len(s) /\ Len(t) = Len(s) + 1 /\ DOMAIN t = 1 .. Len(t)
    OBVIOUS
  <2>2. \A i \in 1 .. Len(s) : t[i] = s[i]
    OBVIOUS
  <2>3. t[Len(s) + 1] = u
    OBVIOUS
  <2> HIDE DEF t
  <2> QED BY <1>1, <2>1, <2>2, <2>3
<1> HIDE DEF t
<1>3. Taken(b, t) = Updated(Taken(b, s), t[n + 1])
  BY <1>2, FoldOfOneMore
<1> QED BY <1>2, <1>3 DEF t

(***************************************************************************)
(* Types, and what is recorded as the latest.                              *)
(***************************************************************************)
Ends == {"connected", "disconnected"}

Typed(m) ==
  /\ MirrorOK(m)
  /\ m.message = NoMessage \/ IsMessage(m.message)
  /\ m.account \in [Ends -> 0 .. MaxInstant]

\* Nothing that m records is taken back in n.
Forward(m, n) ==
  /\ \A f \in NativeIds :
       m.owner[f] # Nobody => n.owner[f] # Nobody /\ Seen(n, f) >= Seen(m, f)
  /\ n.chat.at >= m.chat.at
  /\ \A end \in Ends : n.account[end] >= m.account[end]
  /\ m.message.content.kind = "revoked" => n.message.content.kind = "revoked"

Advances(m, n) == Typed(n) /\ Forward(m, n)

LEMMA SeenIsANumber ==
  ASSUME NEW m, Typed(m), NEW f \in NativeIds, m.owner[f] # Nobody
  PROVE  Seen(m, f) \in 0 .. MaxInstant
BY DEF Typed, MirrorOK, Seen, Contacts

LEMMA ForwardForward ==
  ASSUME NEW l, NEW m, NEW n, Typed(l), Advances(l, m), Advances(m, n)
  PROVE  Advances(l, n)
<1>1. Typed(m) /\ Typed(n) /\ Forward(l, m) /\ Forward(m, n)
  BY DEF Advances
<1>2. ASSUME NEW f \in NativeIds, l.owner[f] # Nobody
      PROVE  n.owner[f] # Nobody /\ Seen(n, f) >= Seen(l, f)
  <2>1. m.owner[f] # Nobody /\ Seen(m, f) >= Seen(l, f)
    BY <1>1, <1>2 DEF Forward
  <2>2. n.owner[f] # Nobody /\ Seen(n, f) >= Seen(m, f)
    BY <1>1, <2>1 DEF Forward
  <2>3. /\ Seen(l, f) \in 0 .. MaxInstant /\ Seen(m, f) \in 0 .. MaxInstant
        /\ Seen(n, f) \in 0 .. MaxInstant
    BY <1>1, <1>2, <2>1, <2>2, SeenIsANumber
  <2> QED BY <2>1, <2>2, <2>3
<1>3. n.chat.at >= l.chat.at
  <2>1. /\ l.chat.at \in Nat /\ m.chat.at \in Nat /\ n.chat.at \in Nat
        /\ m.chat.at >= l.chat.at /\ n.chat.at >= m.chat.at
    BY <1>1 DEF Typed, MirrorOK, Forward
  <2> QED BY <2>1
<1>4. ASSUME NEW end \in Ends PROVE n.account[end] >= l.account[end]
  <2>1. /\ l.account[end] \in Nat /\ m.account[end] \in Nat /\ n.account[end] \in Nat
        /\ m.account[end] >= l.account[end] /\ n.account[end] >= m.account[end]
    BY <1>1 DEF Typed, Forward
  <2> QED BY <2>1
<1>5. l.message.content.kind = "revoked" => n.message.content.kind = "revoked"
  BY <1>1 DEF Forward
<1> QED BY <1>1, <1>2, <1>3, <1>4, <1>5 DEF Advances, Forward

LEMMA StandingStill ==
  ASSUME NEW m, Typed(m)
  PROVE  Advances(m, m)
<1>1. \A f \in NativeIds : m.owner[f] # Nobody => Seen(m, f) >= Seen(m, f)
  BY SeenIsANumber
<1>2. m.chat.at >= m.chat.at
  BY DEF Typed, MirrorOK
<1>3. \A end \in Ends : m.account[end] >= m.account[end]
  <2>1. \A end \in Ends : m.account[end] \in Nat
    BY DEF Typed
  <2> QED BY <2>1
<1> QED BY <1>1, <1>2, <1>3 DEF Advances, Forward

\* Where contacts, chat, account and message stay as they are.
LEMMA SameContacts ==
  ASSUME NEW m, NEW n, Typed(m), n.contacts = m.contacts, n.owner = m.owner
  PROVE  \A f \in NativeIds :
           m.owner[f] # Nobody => n.owner[f] # Nobody /\ Seen(n, f) >= Seen(m, f)
<1> SUFFICES ASSUME NEW f \in NativeIds, m.owner[f] # Nobody
             PROVE  n.owner[f] # Nobody /\ Seen(n, f) >= Seen(m, f)
  OBVIOUS
<1>1. Seen(n, f) = Seen(m, f)
  BY DEF Seen
<1>2. Seen(m, f) \in 0 .. MaxInstant
  BY SeenIsANumber
<1> QED BY <1>1, <1>2

LEMMA ChatAdvances ==
  ASSUME NEW w, Shape(w), Typed(w.now), NEW subject, NEW at \in 0 .. MaxInstant
  PROVE  LET v == ProjectChat(w, subject, at)
         IN  Shape(v) /\ Advances(w.now, v.now)
<1> DEFINE m == w.now
           chat == [known   |-> TRUE,
                    subject |-> IF subject = "none" THEN m.chat.subject ELSE subject,
                    at      |-> Later(m.chat.at, at)]
           v == Upsert(w, "chat", chat)
<1>1. "chat" \in Rest
  BY DEF Rest
<1>2. /\ Shape(v) /\ v.now.contacts = m.contacts /\ v.now.owner = m.owner
      /\ v.now.pending = m.pending /\ v.now.chat = chat
      /\ v.now.account = m.account /\ v.now.group = m.group /\ v.now.message = m.message
  <2> HIDE DEF chat
  <2> QED BY <1>1, UpsertFields DEF Rest
<1>3. chat.at \in 0 .. MaxInstant /\ chat.at >= m.chat.at
  <2>1. m.chat.at \in 0 .. MaxInstant
    BY DEF Typed, MirrorOK
  <2> QED BY <2>1 DEF Later
<1>4. v = ProjectChat(w, subject, at)
  BY DEF ProjectChat
<1> HIDE DEF v, chat
<1>5. Typed(v.now)
  BY <1>2, <1>3 DEF Typed, MirrorOK
<1>6. Forward(m, v.now)
  <2>1. Advances(m, m)
    BY StandingStill
  <2> QED BY <2>1, <1>2, <1>3, SameContacts DEF Advances, Forward
<1> QED BY <1>2, <1>4, <1>5, <1>6 DEF Advances

LEMMA GroupAdvances ==
  ASSUME NEW w, Shape(w), Typed(w.now), NEW subject, NEW roster \in Rosters
  PROVE  LET v == ProjectGroup(w, subject, roster)
         IN  Shape(v) /\ Advances(w.now, v.now)
<1> DEFINE m == w.now
           group == [known   |-> TRUE,
                     subject |-> IF subject = "none" THEN m.group.subject ELSE subject,
                     roster  |-> IF roster.listed THEN roster ELSE m.group.roster]
           v == Upsert(w, "group", group)
<1>1. "group" \in Rest
  BY DEF Rest
<1>2. /\ Shape(v) /\ v.now.contacts = m.contacts /\ v.now.owner = m.owner
      /\ v.now.pending = m.pending /\ v.now.group = group
      /\ v.now.account = m.account /\ v.now.chat = m.chat /\ v.now.message = m.message
  <2> HIDE DEF group
  <2> QED BY <1>1, UpsertFields DEF Rest
<1>3. group.roster \in Rosters
  BY DEF Typed, MirrorOK
<1>4. v = ProjectGroup(w, subject, roster)
  BY DEF ProjectGroup
<1> HIDE DEF v, group
<1>5. Typed(v.now)
  BY <1>2, <1>3 DEF Typed, MirrorOK
<1>6. Forward(m, v.now)
  <2>1. Advances(m, m)
    BY StandingStill
  <2> QED BY <2>1, <1>2, SameContacts DEF Advances, Forward
<1> QED BY <1>2, <1>4, <1>5, <1>6 DEF Advances

LEMMA ConnectionAdvances ==
  ASSUME NEW w, Shape(w), Typed(w.now), NEW end \in Ends, NEW at \in 0 .. MaxInstant
  PROVE  LET v == ProjectConnection(w, end, at)
         IN  Shape(v) /\ Advances(w.now, v.now)
<1> DEFINE m == w.now
           account == [m.account EXCEPT ![end] = Later(m.account[end], at)]
           v == Upsert(w, "account", account)
<1>1. "account" \in Rest
  BY DEF Rest
<1>2. /\ Shape(v) /\ v.now.contacts = m.contacts /\ v.now.owner = m.owner
      /\ v.now.pending = m.pending /\ v.now.account = account
      /\ v.now.group = m.group /\ v.now.chat = m.chat /\ v.now.message = m.message
  <2> HIDE DEF account
  <2> QED BY <1>1, UpsertFields DEF Rest
<1>3. /\ account \in [Ends -> 0 .. MaxInstant]
      /\ \A x \in Ends : account[x] >= m.account[x]
  <2>1. m.account \in [Ends -> 0 .. MaxInstant]
    BY DEF Typed
  <2>2. /\ Later(m.account[end], at) \in 0 .. MaxInstant
        /\ Later(m.account[end], at) >= m.account[end]
    BY <2>1 DEF Later
  <2>3. \A x \in Ends : m.account[x] \in Nat
    BY <2>1
  <2> QED BY <2>1, <2>2, <2>3
<1>4. v = ProjectConnection(w, end, at)
  BY DEF ProjectConnection
<1> HIDE DEF v, account
<1>5. Typed(v.now)
  BY <1>2, <1>3 DEF Typed, MirrorOK
<1>6. Forward(m, v.now)
  <2>1. Advances(m, m)
    BY StandingStill
  <2> QED BY <2>1, <1>2, <1>3, SameContacts DEF Advances, Forward
<1> QED BY <1>2, <1>4, <1>5, <1>6 DEF Advances

LEMMA WaitingAdvances ==
  ASSUME NEW w, Shape(w), Typed(w.now), NEW updates \in Seq(Updates),
         w.now.message # NoMessage => updates = <<>>
  PROVE  LET v == SetPending(w, updates)
         IN  Shape(v) /\ Advances(w.now, v.now)
<1> DEFINE v == SetPending(w, updates)
           m == w.now
<1>1. /\ Shape(v) /\ v.now.contacts = m.contacts /\ v.now.owner = m.owner
      /\ v.now.pending = updates
      /\ v.now.account = m.account /\ v.now.chat = m.chat
      /\ v.now.group = m.group /\ v.now.message = m.message
  BY WaitingFields DEF Rest
<1> HIDE DEF v
<1>2. Typed(v.now)
  BY <1>1 DEF Typed, MirrorOK
<1>3. Forward(m, v.now)
  <2>1. Advances(m, m)
    BY StandingStill
  <2> QED BY <2>1, <1>1, SameContacts DEF Advances, Forward
<1> QED BY <1>1, <1>2, <1>3 DEF Advances, v

\* A message that comes, or becomes another one.
LEMMA MessageAdvances ==
  ASSUME NEW w, Shape(w), Typed(w.now), w.now.pending = <<>>,
         NEW r, IsMessage(r),
         w.now.message.content.kind = "revoked" => r.content.kind = "revoked"
  PROVE  LET v == Upsert(w, "message", r)
         IN  Shape(v) /\ Advances(w.now, v.now)
<1> DEFINE v == Upsert(w, "message", r)
           m == w.now
<1>1. "message" \in Rest
  BY DEF Rest
<1>2. /\ Shape(v) /\ v.now.contacts = m.contacts /\ v.now.owner = m.owner
      /\ v.now.pending = m.pending /\ v.now.message = r
      /\ v.now.account = m.account /\ v.now.chat = m.chat /\ v.now.group = m.group
  BY <1>1, UpsertFields DEF Rest
<1> HIDE DEF v
<1>3. Typed(v.now)
  BY <1>2 DEF Typed, MirrorOK
<1>4. Forward(m, v.now)
  <2>1. Advances(m, m)
    BY StandingStill
  <2> QED BY <2>1, <1>2, SameContacts DEF Advances, Forward
<1> QED BY <1>2, <1>3, <1>4 DEF Advances, v

LEMMA UpdateAdvances ==
  ASSUME NEW w, Shape(w), Typed(w.now), NEW u \in Updates
  PROVE  LET v == ProjectUpdate(w, u)
         IN  Shape(v) /\ Advances(w.now, v.now)
<1>1. CASE w.now.message = NoMessage
  <2>1. Append(w.now.pending, u) \in Seq(Updates)
    BY DEF Typed, MirrorOK
  <2> QED BY <1>1, <2>1, WaitingAdvances DEF ProjectUpdate
<1>2. CASE w.now.message # NoMessage
  <2>1. IsMessage(w.now.message) /\ w.now.pending = <<>>
    BY <1>2 DEF Typed, MirrorOK
  <2>2. PICK r : r = Updated(w.now.message, u)
    OBVIOUS
  <2>3. /\ IsMessage(r)
        /\ w.now.message.content.kind = "revoked" => r.content.kind = "revoked"
    BY <2>1, <2>2, UpdatedIs
  <2>4. ProjectUpdate(w, u) = Upsert(w, "message", r)
    BY <1>2, <2>2 DEF ProjectUpdate
  <2> QED BY <2>1, <2>3, <2>4, MessageAdvances
<1> QED BY <1>1, <1>2

\* What landing does, the fold under its name.
LEMMA LandedIs ==
  ASSUME NEW w, NEW content, w.now.message = NoMessage
  PROVE  Landed(w, content)
           = SetPending(Upsert(w, "message", Taken(Fresh(content), w.now.pending)), <<>>)
BY DEF Landed, Taken

LEMMA LandedAdvances ==
  ASSUME NEW w, Shape(w), Typed(w.now), NEW content \in Contents
  PROVE  LET v == Landed(w, content)
         IN  Shape(v) /\ Advances(w.now, v.now)
<1>1. CASE w.now.message # NoMessage
  BY <1>1, StandingStill DEF Landed
<1>2. CASE w.now.message = NoMessage
  <2> DEFINE m == w.now
  <2>1. PICK r : r = Taken(Fresh(content), m.pending)
    OBVIOUS
  <2>2. IsMessage(r)
    BY <2>1, FoldIsAMessage DEF Typed, MirrorOK
  <2> DEFINE u == Upsert(w, "message", r)
             v == SetPending(u, <<>>)
  <2>3. "message" \in Rest
    BY DEF Rest
  <2>4. /\ Shape(u) /\ u.now.contacts = m.contacts /\ u.now.owner = m.owner
        /\ u.now.message = r
        /\ u.now.account = m.account /\ u.now.chat = m.chat /\ u.now.group = m.group
    BY <2>3, UpsertFields DEF Rest
  <2> HIDE DEF u
  <2>5. /\ Shape(v) /\ v.now.contacts = m.contacts /\ v.now.owner = m.owner
        /\ v.now.pending = <<>> /\ v.now.message = r
        /\ v.now.account = m.account /\ v.now.chat = m.chat /\ v.now.group = m.group
    BY <2>4, WaitingFields DEF Rest
  <2> HIDE DEF v
  <2>6. Typed(v.now)
    <3>1. <<>> \in Seq(Updates)
      OBVIOUS
    <3> QED BY <2>2, <2>5, <3>1 DEF Typed, MirrorOK
  <2>7. Forward(m, v.now)
    <3>1. Advances(m, m)
      BY StandingStill
    <3>2. m.message.content.kind # "revoked"
      BY <1>2 DEF NoMessage
    <3> QED BY <3>1, <3>2, <2>5, SameContacts DEF Advances, Forward
  <2>8. Landed(w, content) = v
    BY <1>2, <2>1, LandedIs DEF u, v
  <2> QED BY <2>5, <2>6, <2>7, <2>8 DEF Advances
<1> QED BY <1>1, <1>2

Sayable(o) ==
  o.profile \in Profiles \cup {NoProfile} /\ o.seen \in 0 .. MaxInstant

LEMMA MergedIs ==
  ASSUME NEW m, Typed(m), Consistent(m), NEW o, Valid(m, o), Sayable(o)
  PROVE  /\ Merged(m, o) \in Contacts
         /\ \A c \in Reached(m, o) : Merged(m, o).seen >= m.contacts[c].seen
<1>1. m.contacts \in [NativeIds -> Contacts]
  BY DEF Typed, MirrorOK
<1>2. Reached(m, o) \subseteq NativeIds /\ Named(o) \subseteq NativeIds
  BY WhoSurvives, FormsAreNamed
<1>3. \A c \in NativeIds : /\ m.contacts[c].ids \subseteq NativeIds
                           /\ m.contacts[c].profile \in Profiles \cup {NoProfile}
                           /\ m.contacts[c].seen \in 0 .. MaxInstant
  BY <1>1 DEF Contacts
<1>4. MergedProfile(m, o) \in Profiles \cup {NoProfile}
  <2> DEFINE profiled == {f \in Known(m, o) : m.contacts[m.owner[f]].profile # NoProfile}
  <2>1. CASE o.profile # NoProfile
    BY <2>1 DEF MergedProfile, Sayable
  <2>2. CASE o.profile = NoProfile /\ profiled = {}
    BY <2>2 DEF MergedProfile
  <2>3. CASE o.profile = NoProfile /\ profiled # {}
    <3>1. \E i \in DOMAIN o.forms : o.forms[i] \in profiled
      BY <2>3 DEF Known, Named
    <3>2. o.forms \in Forms
      BY DEF Valid
    <3>3. PICK f \in profiled : f = FirstIn(o.forms, profiled)
      <4> HIDE DEF profiled
      <4> QED BY <3>1, <3>2, FirstExists
    <3>4. m.owner[f] \in NativeIds
      BY <1>2 DEF Reached
    <3>5. MergedProfile(m, o) = m.contacts[m.owner[f]].profile
      BY <2>3, <3>3 DEF MergedProfile
    <3> QED BY <1>3, <3>4, <3>5
  <2> QED BY <2>1, <2>2, <2>3
<1> DEFINE instants == {m.contacts[c].seen : c \in Reached(m, o)} \cup {o.seen}
<1>5. /\ Latest(instants) \in instants /\ instants \subseteq 0 .. MaxInstant
      /\ \A t \in instants : t <= Latest(instants)
  <2>1. instants \subseteq 0 .. MaxInstant /\ instants # {}
    BY <1>2, <1>3 DEF Sayable
  <2> HIDE DEF instants
  <2>2. \E t \in instants : \A u \in instants : u <= t
    BY <2>1, GreatestExists
  <2> QED BY <2>1, <2>2 DEF Latest
<1>6. \A c \in Reached(m, o) : m.contacts[c].seen \in instants
  OBVIOUS
<1>7. /\ Merged(m, o) = [ids |-> Merged(m, o).ids, profile |-> MergedProfile(m, o),
                         seen |-> Latest(instants)]
      /\ Merged(m, o).seen = Latest(instants)
  BY DEF Merged
<1>8. Merged(m, o).ids \subseteq NativeIds
  BY <1>2, WhatIsOwned
<1> HIDE DEF instants
<1>9. Merged(m, o) \in Contacts
  BY <1>4, <1>5, <1>7, <1>8 DEF Contacts
<1>10. \A c \in Reached(m, o) : Merged(m, o).seen >= m.contacts[c].seen
  BY <1>5, <1>6, <1>7
<1> QED BY <1>9, <1>10

\* What was seen of a contact is seen of the one it becomes part of.
LEMMA ContactAdvances ==
  ASSUME NEW f, NEW w, Good(f, w), Typed(w.now),
         NEW o, Valid(w.now, o), Sayable(o)
  PROVE  Advances(w.now, ProjectContact(w, o).now)
<1> DEFINE m == w.now
           v == ProjectContact(w, o)
           c == Survivor(m, o)
           M == Merged(m, o)
           R == Reached(m, o)
<1>1. Consistent(m) /\ Shape(w)
  BY DEF Good
<1>2. ContactProjected(w, o, v) /\ Good(f, v)
  BY <1>1, ContactFields, ContactKeeps
<1>3. /\ \A r \in Rest : v.now[r] = m[r]
      /\ v.now.contacts = [d \in NativeIds |-> IF d = c THEN M
                                               ELSE IF d \in Gone(m, o) THEN NoContact
                                               ELSE m.contacts[d]]
      /\ v.now.owner = [x \in NativeIds |-> IF x \in M.ids THEN c ELSE m.owner[x]]
      /\ v.now.pending = m.pending
  <2>1. v.now.pending = m.pending
    <3>1. \E C, O : v.now = [m EXCEPT !.contacts = C, !.owner = O]
      BY DEF ProjectContact
    <3> HIDE DEF v, m
    <3> QED BY <1>1, <3>1 DEF Shape, MirrorShape, m
  <2> QED BY <1>2, <2>1 DEF ContactProjected
<1>4. M \in Contacts /\ \A d \in R : M.seen >= m.contacts[d].seen
  BY <1>1, MergedIs
<1>5. /\ c \in NativeIds /\ R \subseteq NativeIds
      /\ M.ids = Named(o) \cup {x \in NativeIds : m.owner[x] \in R}
      /\ R = {} => m.contacts[c].ids = {}
      /\ R # {} => c \in R
  <2>1. Known(m, o) = {} <=> R = {}
    BY DEF Reached
  <2> QED BY <1>1, <2>1, WhoSurvives, WhatIsOwned
<1>6. \A x \in Named(o) : m.owner[x] # Nobody => m.owner[x] \in R
  BY DEF Reached, Known
<1>7. NoContact \in Contacts
  BY DEF NoContact, Contacts
<1>8. /\ v.now.message = m.message /\ v.now.account = m.account
      /\ v.now.chat = m.chat /\ v.now.group = m.group
  BY <1>3 DEF Rest
<1>9. Typed(v.now)
  <2>1. m.contacts \in [NativeIds -> Contacts]
    BY DEF Typed, MirrorOK
  <2>2. v.now.contacts \in [NativeIds -> Contacts]
    <3> HIDE DEF v, m, c, M
    <3> QED BY <1>3, <1>4, <1>7, <2>1
  <2>3. v.now.owner \in [NativeIds -> NativeIds \cup {Nobody}]
    BY <1>2 DEF Good, Consistent
  <2> HIDE DEF v
  <2> QED BY <1>3, <1>8, <2>2, <2>3 DEF Typed, MirrorOK
<1>10. ASSUME NEW x \in NativeIds, m.owner[x] # Nobody
       PROVE  v.now.owner[x] # Nobody /\ Seen(v.now, x) >= Seen(m, x)
  <2>1. PICK d \in NativeIds : d = m.owner[x]
    BY <1>1, <1>10 DEF Consistent
  <2>2. x \in m.contacts[d].ids
    BY <1>1, <2>1 DEF Consistent, Resolved
  <2>3. Seen(m, x) = m.contacts[d].seen /\ Seen(m, x) \in 0 .. MaxInstant
    BY <1>10, <2>1, SeenIsANumber DEF Seen
  <2>4. CASE d \in R
    <3>1. v.now.owner[x] = c
      BY <1>3, <1>5, <2>1, <2>4
    <3>2. Seen(v.now, x) = M.seen
      BY <1>3, <1>5, <3>1 DEF Seen
    <3> QED BY <1>4, <1>5, <2>3, <2>4, <3>1, <3>2, ContactAssumption
  <2>5. CASE d \notin R
    <3>1. x \notin M.ids
      BY <1>5, <1>6, <1>10, <2>1, <2>5
    <3>2. v.now.owner[x] = d
      BY <1>3, <2>1, <3>1
    <3>3. d # c
      <4>1. CASE R = {}
        BY <1>5, <2>2, <4>1
      <4>2. CASE R # {}
        BY <1>5, <2>5, <4>2
      <4> QED BY <4>1, <4>2
    <3>4. v.now.contacts[d] = m.contacts[d]
      BY <1>3, <2>5, <3>3 DEF Gone
    <3> QED BY <2>3, <3>2, <3>4, <1>10, <2>1 DEF Seen
  <2> QED BY <2>4, <2>5
<1>11. Forward(m, v.now)
  <2>1. Advances(m, m)
    BY StandingStill
  <2> QED BY <2>1, <1>8, <1>10 DEF Advances, Forward
<1> QED BY <1>9, <1>11 DEF Advances

LEMMA ObservationAdvances ==
  ASSUME NEW f, NEW w, Good(f, w), Typed(w.now),
         NEW forms \in Forms, NEW profile \in Profiles \cup {NoProfile}
  PROVE  Advances(w.now, ProjectContact(w, Observation(forms, profile)).now)
<1> DEFINE o == Observation(forms, profile)
<1>1. /\ o.forms = forms /\ o.id = forms[1] /\ o.profile = profile /\ o.seen = 0
      /\ 1 \in DOMAIN forms /\ forms[1] \in NativeIds
  BY DEF Observation, Forms
<1>2. Valid(w.now, o) /\ Sayable(o)
  BY <1>1 DEF Valid, Named, Sayable
<1> QED BY <1>2, ContactAdvances

LEMMA LastSeenAdvances ==
  ASSUME NEW f, NEW w, Good(f, w), Typed(w.now),
         NEW form \in NativeIds, NEW at \in 0 .. MaxInstant
  PROVE  Advances(w.now, ProjectLastSeen(w, form, at).now)
<1> DEFINE m == w.now
           o == [id |-> m.owner[form], forms |-> <<form>>, profile |-> NoProfile, seen |-> at]
<1>1. CASE m.owner[form] = Nobody
  BY <1>1, StandingStill DEF ProjectLastSeen
<1>2. CASE m.owner[form] # Nobody
  <2>1. m.owner[form] \in NativeIds
    BY <1>2 DEF Good, Consistent
  <2>2. <<form>> \in [1 .. 1 -> NativeIds]
    OBVIOUS
  <2>3. /\ o.forms \in Forms /\ o.id = m.owner[form] /\ form \in Named(o)
        /\ o.profile = NoProfile /\ o.seen = at
    BY <2>2 DEF Forms, Named
  <2>4. Valid(m, o) /\ Sayable(o)
    BY <1>2, <2>1, <2>3 DEF Valid, Sayable, Known
  <2>5. ProjectLastSeen(w, form, at) = ProjectContact(w, o)
    BY <1>2 DEF ProjectLastSeen
  <2> HIDE DEF o
  <2> QED BY <2>4, <2>5, ContactAdvances
<1> QED BY <1>1, <1>2

LEMMA EventAdvances ==
  ASSUME NEW f, NEW w, Good(f, w), Typed(w.now), NEW e \in Events
  PROVE  Advances(w.now, Project(w, e).now)
<1>0. Shape(w)
  BY DEF Good
<1>1. CASE e \in ContactEvents
  BY <1>1, ObservationAdvances DEF ContactEvents, Project
<1>2. CASE e \in LastSeenEvents
  <2>1. e.form \in NativeIds /\ e.at \in 0 .. MaxInstant
        /\ Project(w, e) = ProjectLastSeen(w, e.form, e.at)
    BY <1>2 DEF LastSeenEvents, Project, Instants
  <2> QED BY <2>1, LastSeenAdvances
<1>3. CASE e \in ConnectionEvents
  <2>1. e.end \in Ends /\ e.at \in 0 .. MaxInstant
        /\ Project(w, e) = ProjectConnection(w, e.end, e.at)
    BY <1>3 DEF ConnectionEvents, Project, Instants, Ends
  <2> QED BY <1>0, <2>1, ConnectionAdvances
<1>4. CASE e \in MessageEvents
  <2>1. /\ e.sender \in Forms /\ e.content \in Contents /\ e.at \in 0 .. MaxInstant
        /\ Project(w, e) = ProjectMessage(Sender(w, e.sender), e.content, e.at)
    BY <1>4 DEF MessageEvents, Project, Instants
  <2>2. PICK s : s = Sender(w, e.sender)
    OBVIOUS
  <2>3. Good(f, s) /\ Advances(w.now, s.now)
    <3>1. CASE DOMAIN e.sender = {1}
      BY <2>2, <3>1, StandingStill DEF Sender
    <3>2. CASE DOMAIN e.sender # {1}
      BY <2>1, <2>2, <3>2, ObservationAdvances, ObservationKeeps DEF Sender
    <3> QED BY <3>1, <3>2
  <2>4. PICK l : l = Landed(s, e.content)
    OBVIOUS
  <2>5. Shape(l) /\ Advances(s.now, l.now)
    BY <2>1, <2>3, <2>4, LandedAdvances DEF Good, Advances
  <2>6. PICK v : v = ProjectChat(l, "none", e.at)
    OBVIOUS
  <2>7. Advances(l.now, v.now)
    BY <2>1, <2>5, <2>6, ChatAdvances DEF Advances
  <2>8. Project(w, e) = v
    BY <2>1, <2>2, <2>4, <2>6 DEF ProjectMessage
  <2>9. Advances(w.now, l.now)
    BY <2>3, <2>5, ForwardForward
  <2> QED BY <2>7, <2>8, <2>9, ForwardForward
<1>5. CASE e \in UpdateEvents
  <2>1. e.update \in Updates /\ Project(w, e) = ProjectUpdate(w, e.update)
    BY <1>5 DEF UpdateEvents, Project
  <2> QED BY <1>0, <2>1, UpdateAdvances
<1>6. CASE e \in ChatEvents
  <2>1. e.at \in 0 .. MaxInstant /\ e.roster \in Rosters
        /\ Project(w, e) = ProjectSyncedChat(w, e.subject, e.at, e.roster)
    BY <1>6 DEF ChatEvents, Project
  <2>2. PICK c : c = ProjectChat(w, e.subject, e.at)
    OBVIOUS
  <2>3. Shape(c) /\ Advances(w.now, c.now)
    BY <1>0, <2>1, <2>2, ChatAdvances
  <2>4. Advances(c.now, ProjectGroup(c, e.subject, e.roster).now)
    BY <2>1, <2>3, GroupAdvances DEF Advances
  <2>5. Project(w, e) = ProjectGroup(c, e.subject, e.roster)
    BY <2>1, <2>2 DEF ProjectSyncedChat
  <2> QED BY <2>3, <2>4, <2>5, ForwardForward
<1>7. CASE e \in MetadataEvents
  <2>1. e.roster \in Rosters /\ Project(w, e) = ProjectMetadata(w, e.subject, e.roster)
    BY <1>7 DEF MetadataEvents, Project
  <2>2. PICK g : g = ProjectGroup(w, e.subject, e.roster)
    OBVIOUS
  <2>3. Shape(g) /\ Advances(w.now, g.now)
    BY <1>0, <2>1, <2>2, GroupAdvances
  <2>4. 0 \in 0 .. MaxInstant
    BY ContactAssumption
  <2>5. Advances(g.now, ProjectChat(g, e.subject, 0).now)
    BY <2>3, <2>4, ChatAdvances DEF Advances
  <2>6. Project(w, e) = g \/ Project(w, e) = ProjectChat(g, e.subject, 0)
    BY <2>1, <2>2 DEF ProjectMetadata
  <2>7. Advances(w.now, ProjectChat(g, e.subject, 0).now)
    BY <2>3, <2>5, ForwardForward
  <2> QED BY <2>3, <2>6, <2>7
<1>8. CASE e \in ParticipantEvents
  <2>1. PICK r : r = RosterAfter(w.now.group.roster, e.who, e.role)
    OBVIOUS
  <2>2. e.who \in People /\ e.role \in Some(Roles)
    BY <1>8 DEF ParticipantEvents
  <2>3. r \in Rosters
    <3>1. w.now.group.roster \in Rosters
      BY DEF Typed, MirrorOK
    <3>2. CASE w.now.group.roster = NoRoster
      BY <2>1, <3>1, <3>2 DEF RosterAfter, NoRoster
    <3>3. CASE w.now.group.roster # NoRoster
      <4>1. PICK R : R = w.now.group.roster
        OBVIOUS
      <4>2. R \in [listed : {TRUE}, roles : [People -> Some(Roles)]]
        BY <3>1, <3>3, <4>1 DEF Rosters
      <4>3. R = [listed |-> TRUE, roles |-> R.roles] /\ R.roles \in [People -> Some(Roles)]
        BY <4>2
      <4>4. r = [listed |-> TRUE, roles |-> [R.roles EXCEPT ![e.who] = e.role]]
        <5>0. R.listed = TRUE /\ r = RosterAfter(R, e.who, e.role)
          BY <2>1, <4>1, <4>3
        <5>1. r = [R EXCEPT !.roles[e.who] = e.role]
          BY ONLY <5>0 DEF RosterAfter
        <5>2. PICK roles : roles = [R.roles EXCEPT ![e.who] = e.role]
          OBVIOUS
        <5>3. r = [R EXCEPT !.roles = roles]
          BY ONLY <5>1, <5>2
        <5>4. r = [listed |-> TRUE, roles |-> roles]
          <6>1. PICK known : R = [listed |-> TRUE, roles |-> known]
            BY <4>3
          <6>2. r = [[listed |-> TRUE, roles |-> known] EXCEPT !.roles = roles]
            BY <5>3, <6>1
          <6> QED BY ONLY <6>2
        <5> QED BY <5>2, <5>4
      <4> QED BY <2>2, <4>3, <4>4 DEF Rosters
    <3> QED BY <3>2, <3>3
  <2>4. Project(w, e) = ProjectGroup(w, "none", r)
    BY <1>8, <2>1 DEF ParticipantEvents, Project, ProjectParticipants
  <2> QED BY <1>0, <2>3, <2>4, GroupAdvances
<1> QED BY <1>1, <1>2, <1>3, <1>4, <1>5, <1>6, <1>7, <1>8 DEF Events

(***************************************************************************)
(* The invariant: the batch under projection is ahead of what is committed. *)
(***************************************************************************)
ForwardInv == IInv /\ Typed(mirror) /\ Advances(mirror, work.now)

LEMMA InitForward == Init => ForwardInv
<1> SUFFICES ASSUME Init PROVE ForwardInv
  OBVIOUS
<1>1. Typed(EmptyMirror)
  <2>1. /\ EmptyMirror.contacts = [c \in NativeIds |-> NoContact]
        /\ EmptyMirror.owner = [x \in NativeIds |-> Nobody]
        /\ EmptyMirror.account = NoAccount /\ EmptyMirror.chat = NoChat
        /\ EmptyMirror.group = NoGroup /\ EmptyMirror.message = NoMessage
        /\ EmptyMirror.pending = <<>>
    BY DEF EmptyMirror
  <2>2. NoContact \in Contacts
    BY DEF NoContact, Contacts
  <2>3. NoGroup.roster \in Rosters /\ NoChat.at = 0
    BY DEF NoGroup, NoChat, Rosters
  <2>4. NoAccount \in [Ends -> 0 .. MaxInstant]
    BY DEF NoAccount, Ends
  <2> QED BY <2>1, <2>2, <2>3, <2>4 DEF Typed, MirrorOK
<1> QED BY <1>1, InitIInv, StandingStill DEF Init, ForwardInv

LEMMA NextForward == ForwardInv /\ [Next]_vars => ForwardInv'
<1> SUFFICES ASSUME ForwardInv, [Next]_vars PROVE ForwardInv'
  OBVIOUS
<1>0. IInv' /\ IInv
  BY NextIInv DEF ForwardInv
<1>1. ASSUME NEW e \in Events, Observe(e) PROVE ForwardInv'
  <2>1. Good(follower, work) /\ Typed(mirror) /\ Typed(work.now) /\ Advances(mirror, work.now)
    BY DEF ForwardInv, IInv, Advances
  <2>2. Advances(work.now, Project(work, e).now)
    BY <2>1, EventAdvances
  <2>3. Advances(mirror, Project(work, e).now)
    BY <2>1, <2>2, ForwardForward
  <2> QED BY <1>0, <1>1, <2>1, <2>3 DEF ForwardInv, Observe
<1>2. CASE Accept
  <2>1. Typed(work.now)
    BY DEF ForwardInv, Advances
  <2>2. mirror' = work.now /\ work'.now = work.now
    BY <1>0, <1>2 DEF Accept, IInv, Good, Shape
  <2> QED BY <1>0, <2>1, <2>2, StandingStill DEF ForwardInv
<1>3. CASE Refuse
  <2>1. work'.now = mirror /\ mirror' = mirror /\ Typed(mirror)
    BY <1>3 DEF Refuse, ForwardInv
  <2> QED BY <1>0, <2>1, StandingStill DEF ForwardInv
<1>4. CASE UNCHANGED vars
  BY <1>0, <1>4 DEF vars, ForwardInv
<1>5. Next => Accept \/ Refuse \/ \E e \in Events : Observe(e)
  BY DEF Next, Observing, Events
<1> QED BY <1>1, <1>2, <1>3, <1>4, <1>5

LEMMA ForwardInvariance == Spec => []ForwardInv
BY InitForward, NextForward, PTL DEF Spec

LEMMA StepsGoForward == ForwardInv /\ [Next]_vars => Forward(mirror, mirror')
<1> SUFFICES ASSUME ForwardInv, [Next]_vars PROVE Forward(mirror, mirror')
  OBVIOUS
<1>1. mirror' = work.now \/ mirror' = mirror
  BY DEF Next, Observing, Observe, Accept, Refuse, vars
<1> QED BY <1>1, StandingStill DEF ForwardInv, Advances

\* What projectEvent() records as the latest - the instants of a contact, of the
\* chat and of the connection - never becomes an earlier one, also not for an
\* address whose contact was joined with another; what was revoked stays so.
THEOREM NothingIsTakenBack == Spec => NothingComesBack
<1>1. ForwardInv /\ [Next]_vars =>
        [/\ \A f \in NativeIds :
              mirror.owner[f] # Nobody =>
                mirror'.owner[f] # Nobody /\ Seen(mirror', f) >= Seen(mirror, f)
         /\ mirror'.chat.at >= mirror.chat.at
         /\ \A end \in {"connected", "disconnected"} :
              mirror'.account[end] >= mirror.account[end]
         /\ mirror.message.content.kind = "revoked"
              => mirror'.message.content.kind = "revoked"]_vars
  BY StepsGoForward DEF Forward, Ends
<1> QED BY <1>1, ForwardInvariance, PTL DEF Spec, NothingComesBack

\* The records of the mirror are of their kind, in the middle of a batch too,
\* and updates wait only for a message that is not there.
THEOREM ProjectionTypes == Spec => []TypeOK
<1>1. ForwardInv /\ batched \in 0 .. MaxBatch => TypeOK
  BY DEF ForwardInv, Advances, Typed, TypeOK
<1>2. Init => batched \in 0 .. MaxBatch
  BY ProjectionAssumption DEF Init
<1>3. batched \in 0 .. MaxBatch /\ [Next]_vars => (batched \in 0 .. MaxBatch)'
  BY ProjectionAssumption DEF Next, Observing, Observe, Accept, Refuse, vars
<1>4. Spec => [](batched \in 0 .. MaxBatch)
  BY <1>2, <1>3, PTL DEF Spec
<1> QED BY <1>1, <1>4, ForwardInvariance, PTL

(***************************************************************************)
(* An update that waited, and one that came in time.                       *)
(***************************************************************************)
LEMMA MessageWritten ==
  ASSUME NEW w, Shape(w), NEW r, r # w.now.message
  PROVE  LET v == Upsert(w, "message", r)
         IN  /\ v.now = [contacts |-> w.now.contacts, owner |-> w.now.owner,
                         account |-> w.now.account, chat |-> w.now.chat,
                         group |-> w.now.group, message |-> r,
                         pending |-> w.now.pending]
             /\ v.patch = [contacts |-> w.patch.contacts, deleted |-> w.patch.deleted,
                           freed |-> w.patch.freed, aliases |-> w.patch.aliases,
                           written |-> w.patch.written \cup {"message"},
                           account |-> w.patch.account, chat |-> w.patch.chat,
                           group |-> w.patch.group, message |-> r]
             /\ v = [now |-> v.now, patch |-> v.patch]
<1> DEFINE m == w.now
           p == w.patch
           v == Upsert(w, "message", r)
<1>1. v = [now |-> [m EXCEPT !["message"] = r],
           patch |-> [p EXCEPT !["message"] = r,
                               !.written = p.written \cup {"message"}]]
  BY DEF Upsert
<1>2. MirrorShape(m) /\ PatchShape(p)
  BY DEF Shape
<1> HIDE DEF m, p, v
<1>3. v.now = [contacts |-> m.contacts, owner |-> m.owner, account |-> m.account,
               chat |-> m.chat, group |-> m.group, message |-> r, pending |-> m.pending]
  BY <1>1, <1>2 DEF MirrorShape
<1>4. v.patch = [contacts |-> p.contacts, deleted |-> p.deleted,
                 freed |-> p.freed, aliases |-> p.aliases,
                 written |-> p.written \cup {"message"},
                 account |-> p.account, chat |-> p.chat,
                 group |-> p.group, message |-> r]
  BY <1>1, <1>2 DEF PatchShape, PatchFields
<1>5. v = [now |-> v.now, patch |-> v.patch]
  BY <1>1
<1> QED BY <1>3, <1>4, <1>5 DEF m, p, v

LEMMA WaitingWritten ==
  ASSUME NEW w, Shape(w), NEW updates
  PROVE  SetPending(w, updates)
           = [now |-> [contacts |-> w.now.contacts, owner |-> w.now.owner,
                       account |-> w.now.account, chat |-> w.now.chat,
                       group |-> w.now.group, message |-> w.now.message,
                       pending |-> updates],
              patch |-> w.patch]
<1>1. SetPending(w, updates) = [now |-> [w.now EXCEPT !.pending = updates], patch |-> w.patch]
  BY DEF Shape, SetPending
<1>2. MirrorShape(w.now)
  BY DEF Shape
<1>3. PICK m : m = w.now
  OBVIOUS
<1>4. [m EXCEPT !.pending = updates]
        = [contacts |-> m.contacts, owner |-> m.owner, account |-> m.account,
           chat |-> m.chat, group |-> m.group, message |-> m.message, pending |-> updates]
  BY <1>2, <1>3 DEF MirrorShape
<1> QED BY <1>1, <1>3, <1>4

LEMMA EitherOrder ==
  ASSUME NEW w, Shape(w), Typed(w.now), w.now.message = NoMessage,
         NEW u \in Updates, NEW content \in Contents
  PROVE  Landed(ProjectUpdate(w, u), content) = ProjectUpdate(Landed(w, content), u)
<1> DEFINE m == w.now
<1>1. m.pending \in Seq(Updates)
  BY DEF Typed, MirrorOK
<1>2. PICK r : r = Taken(Fresh(content), m.pending)
  OBVIOUS
<1>3. PICK s : s = Updated(r, u)
  OBVIOUS
<1>4. IsMessage(r) /\ IsMessage(s) /\ r # NoMessage /\ s # NoMessage
  BY <1>1, <1>2, <1>3, FoldIsAMessage, UpdatedIs, NoMessageIsNone
<1>5. Taken(Fresh(content), Append(m.pending, u)) = s
  BY <1>1, <1>2, <1>3, FoldOfAppend
\* The update first.
<1>6. PICK w1 : w1 = SetPending(w, Append(m.pending, u))
  OBVIOUS
<1>7. w1 = ProjectUpdate(w, u)
  BY <1>6 DEF ProjectUpdate
<1>8. /\ Shape(w1) /\ w1.patch = w.patch /\ w1.now.message = NoMessage
      /\ w1.now.pending = Append(m.pending, u)
      /\ w1.now.contacts = m.contacts /\ w1.now.owner = m.owner
      /\ w1.now.account = m.account /\ w1.now.chat = m.chat /\ w1.now.group = m.group
  <2>1. PICK waits : waits = Append(m.pending, u)
    OBVIOUS
  <2>2. /\ Shape(w1) /\ w1.patch = w.patch
        /\ w1.now.contacts = m.contacts /\ w1.now.owner = m.owner
        /\ w1.now.pending = waits
        /\ \A x \in Rest : w1.now[x] = m[x]
    <3>1. w1 = SetPending(w, waits)
      BY <1>6, <2>1
    <3> QED BY ONLY <3>1, Shape(w), WaitingFields
  <2> QED BY <2>1, <2>2 DEF Rest
<1>9. PICK w2 : w2 = Upsert(w1, "message", s)
  OBVIOUS
<1>10. Landed(w1, content) = SetPending(w2, <<>>)
  BY <1>5, <1>8, <1>9, LandedIs
\* The message first.
<1>11. PICK v1 : v1 = Upsert(w, "message", r)
  OBVIOUS
<1>12. PICK v2 : v2 = SetPending(v1, <<>>)
  OBVIOUS
<1>13. Landed(w, content) = v2
  BY <1>2, <1>11, <1>12, LandedIs
<1>14. Shape(v1) /\ v1.now.message = r
  <2>1. "message" \in Rest
    BY DEF Rest
  <2> QED BY <2>1, <1>11, UpsertFields
<1>15. Shape(v2) /\ v2.now.message = r
  BY <1>12, <1>14, WaitingFields DEF Rest
<1>16. ProjectUpdate(v2, u) = Upsert(v2, "message", s)
  BY <1>3, <1>4, <1>15 DEF ProjectUpdate
\* Where both end.
<1> DEFINE End(x) ==
      [now |-> [contacts |-> m.contacts, owner |-> m.owner, account |-> m.account,
                chat |-> m.chat, group |-> m.group, message |-> x, pending |-> <<>>],
       patch |-> [contacts |-> w.patch.contacts, deleted |-> w.patch.deleted,
                  freed |-> w.patch.freed, aliases |-> w.patch.aliases,
                  written |-> w.patch.written \cup {"message"},
                  account |-> w.patch.account, chat |-> w.patch.chat,
                  group |-> w.patch.group, message |-> x]]
<1>17. SetPending(w2, <<>>) = End(s)
  <2>1. Shape(w2)
    <3>1. "message" \in Rest
      BY DEF Rest
    <3> QED BY <3>1, <1>8, <1>9, UpsertFields
  <2>2. /\ w2.now = [contacts |-> m.contacts, owner |-> m.owner, account |-> m.account,
                     chat |-> m.chat, group |-> m.group, message |-> s,
                     pending |-> w1.now.pending]
        /\ w2.patch = End(s).patch
    <3>1. /\ w2.now = [contacts |-> w1.now.contacts, owner |-> w1.now.owner,
                       account |-> w1.now.account, chat |-> w1.now.chat,
                       group |-> w1.now.group, message |-> s,
                       pending |-> w1.now.pending]
          /\ w2.patch = [contacts |-> w1.patch.contacts, deleted |-> w1.patch.deleted,
                         freed |-> w1.patch.freed, aliases |-> w1.patch.aliases,
                         written |-> w1.patch.written \cup {"message"},
                         account |-> w1.patch.account, chat |-> w1.patch.chat,
                         group |-> w1.patch.group, message |-> s]
      BY <1>4, <1>8, <1>9, MessageWritten
    <3> HIDE DEF m
    <3> QED BY <3>1, <1>8
  <2> QED BY <2>1, <2>2, WaitingWritten
<1>18. v2 = End(r)
  <2>1. /\ v1.now = [contacts |-> m.contacts, owner |-> m.owner, account |-> m.account,
                     chat |-> m.chat, group |-> m.group, message |-> r,
                     pending |-> m.pending]
        /\ v1.patch = End(r).patch
    BY <1>4, <1>11, MessageWritten
  <2> QED BY <2>1, <1>12, <1>14, WaitingWritten
<1>19. Upsert(v2, "message", s) = End(s)
  <2>1. CASE r = s
    BY <2>1, <1>15, <1>18 DEF Upsert
  <2>2. CASE r # s
    <3>1. PICK v3 : v3 = Upsert(v2, "message", s)
      OBVIOUS
    <3>0. /\ v3.now = [contacts |-> v2.now.contacts, owner |-> v2.now.owner,
                       account |-> v2.now.account, chat |-> v2.now.chat,
                       group |-> v2.now.group, message |-> s,
                       pending |-> v2.now.pending]
          /\ v3.patch = [contacts |-> v2.patch.contacts, deleted |-> v2.patch.deleted,
                         freed |-> v2.patch.freed, aliases |-> v2.patch.aliases,
                         written |-> v2.patch.written \cup {"message"},
                         account |-> v2.patch.account, chat |-> v2.patch.chat,
                         group |-> v2.patch.group, message |-> s]
          /\ v3 = [now |-> v3.now, patch |-> v3.patch]
      BY <2>2, <3>1, <1>15, MessageWritten
    <3>2. /\ v3.now = End(s).now
          /\ v3.patch = [contacts |-> v2.patch.contacts, deleted |-> v2.patch.deleted,
                         freed |-> v2.patch.freed, aliases |-> v2.patch.aliases,
                         written |-> v2.patch.written \cup {"message"},
                         account |-> v2.patch.account, chat |-> v2.patch.chat,
                         group |-> v2.patch.group, message |-> s]
          /\ v3 = [now |-> v3.now, patch |-> v3.patch]
      BY <3>0, <1>18
    <3>3. v3.patch = End(s).patch
      BY <3>2, <1>18
    <3> QED BY <3>1, <3>2, <3>3
  <2> QED BY <2>1, <2>2
<1> HIDE DEF End, m
<1> QED BY <1>7, <1>10, <1>13, <1>16, <1>17, <1>19

\* An update that comes before its message is worth what it would have been
\* worth after it: projectMessageUpdate() keeps it, and the message that lands
\* takes what waited in the order in which it came.
THEOREM LateIsNotLost == Spec => []LateMessageLosesNothing
<1>1. ForwardInv => LateMessageLosesNothing
  <2> SUFFICES ASSUME ForwardInv, mirror.message = NoMessage,
                      NEW u \in Updates, NEW content \in Contents
               PROVE  LET w == [now |-> mirror, patch |-> EmptyPatch]
                      IN  Landed(ProjectUpdate(w, u), content)
                            = ProjectUpdate(Landed(w, content), u)
    BY DEF LateMessageLosesNothing
  <2> DEFINE w == [now |-> mirror, patch |-> EmptyPatch]
  <2>1. Good(Visible(mirror), w)
    BY BatchBegins DEF ForwardInv, IInv
  <2>2. Shape(w) /\ Typed(w.now) /\ w.now.message = NoMessage
    BY <2>1 DEF Good, ForwardInv
  <2> HIDE DEF w
  <2>3. Landed(ProjectUpdate(w, u), content) = ProjectUpdate(Landed(w, content), u)
    BY <2>2, EitherOrder
  <2> QED BY <2>3 DEF w
<1> QED BY <1>1, ForwardInvariance, PTL

(***************************************************************************)
(* The log. What a row of the version before leaves out - the aliases, and *)
(* what its deletes free - can be told from the contacts it writes and from *)
(* those its reader holds.                                                 *)
(***************************************************************************)
HeldIn(f, w, c) ==
  IF w.patch.contacts[c] # NoContact THEN w.patch.contacts[c] ELSE f.contacts[c]

\* An address that no contact written by the batch owns is where it was, and was
\* owned by none that the batch deletes.
Names(f, w, n) ==
  /\ w.patch.deleted \subseteq NativeIds
  /\ \A x \in NativeIds :
       /\ n[x] # Nobody => w.now.owner[x] = n[x]
       /\ n[x] = Nobody =>
            /\ w.now.owner[x] = f.owner[x]
            /\ \A c \in w.patch.deleted : x \notin HeldIn(f, w, c).ids

Written(w, v) == {c \in NativeIds : v.patch.contacts[c] # w.patch.contacts[c]}

Renamed(w, v, n) ==
  [x \in NativeIds |->
     LET writes == {c \in Written(w, v) : x \in v.patch.contacts[c].ids}
     IN  IF writes = {} THEN n[x] ELSE CHOOSE c \in writes : TRUE]

IsNaming(n) == n \in [NativeIds -> NativeIds \cup {Nobody}]

LEMMA RenamedIsNaming ==
  ASSUME NEW w, NEW v, NEW n, IsNaming(n)
  PROVE  IsNaming(Renamed(w, v, n))
<1>1. ASSUME NEW x \in NativeIds PROVE Renamed(w, v, n)[x] \in NativeIds \cup {Nobody}
  <2> DEFINE writes == {c \in Written(w, v) : x \in v.patch.contacts[c].ids}
  <2>1. writes # {} => (CHOOSE c \in writes : TRUE) \in NativeIds
    BY DEF Written
  <2>2. Renamed(w, v, n)[x] = IF writes = {} THEN n[x] ELSE CHOOSE c \in writes : TRUE
    BY DEF Renamed
  <2> HIDE DEF writes
  <2> QED BY <2>1, <2>2 DEF IsNaming
<1>2. Renamed(w, v, n) = [x \in NativeIds |-> Renamed(w, v, n)[x]]
  BY DEF Renamed
<1> QED BY <1>1, <1>2 DEF IsNaming

LEMMA ContactNames ==
  ASSUME NEW f, NEW w, Good(f, w), NEW o, Valid(w.now, o),
         NEW n, IsNaming(n), Names(f, w, n)
  PROVE  LET v == ProjectContact(w, o) IN Names(f, v, Renamed(w, v, n))
<1> DEFINE v == ProjectContact(w, o)
           m == w.now
           p == w.patch
           c == Survivor(m, o)
           M == Merged(m, o)
           R == Reached(m, o)
           gone == Gone(m, o)
           q == Renamed(w, v, n)
<1>1. Consistent(m) /\ Shape(w) /\ ContactsFollow(f, w)
  BY DEF Good
<1>2. ContactProjected(w, o, v)
  BY <1>1, ContactFields
<1>3. /\ v.now.owner = [x \in NativeIds |-> IF x \in M.ids THEN c ELSE m.owner[x]]
      /\ v.patch.contacts = [d \in NativeIds |-> IF d = c /\ m.contacts[c] # M
                                                 THEN M ELSE p.contacts[d]]
      /\ v.patch.deleted = p.deleted \cup gone
  BY <1>2 DEF ContactProjected
<1>4. /\ c \in NativeIds /\ R \subseteq NativeIds
      /\ M.ids = Named(o) \cup {x \in NativeIds : m.owner[x] \in R}
      /\ M.ids \subseteq NativeIds /\ c \in M.ids
  BY <1>1, WhoSurvives, WhatIsOwned, FormsAreNamed
<1>5. \A d \in R : m.owner[d] = d /\ d \in m.contacts[d].ids
  BY <1>1, ReachedIsSelfOwned
<1>6. c \notin p.deleted
  <2>1. CASE c \in R
    <3>1. m.contacts[c] # NoContact
      BY <1>5, <2>1 DEF NoContact
    <3> QED BY <1>1, <1>4, <3>1 DEF ContactsFollow
  <2>2. CASE c \notin R
    <3>1. Known(m, o) = {} /\ c = o.id /\ o.id \in Named(o)
      BY <1>1, <2>2, WhoSurvives
    <3>2. m.owner[c] = Nobody
      BY <1>4, <3>1 DEF Known
    <3> QED BY <1>1, <1>4, <3>2 DEF ContactsFollow
  <2> QED BY <2>1, <2>2
<1>7. gone = R \ {c}
  BY DEF Gone
<1>8. \A x, d \in NativeIds : m.owner[x] = d <=> x \in m.contacts[d].ids
  BY <1>1 DEF Consistent, Resolved
<1>9. /\ \A x \in NativeIds :
           /\ n[x] # Nobody => m.owner[x] = n[x]
           /\ n[x] = Nobody =>
                m.owner[x] = f.owner[x] /\ \A d \in p.deleted : x \notin HeldIn(f, w, d).ids
  BY DEF Names
<1>10. \A d \in NativeIds : d \notin p.deleted =>
         m.contacts[d] = IF p.contacts[d] # NoContact THEN p.contacts[d] ELSE f.contacts[d]
  BY <1>1 DEF ContactsFollow
<1>11. \A x \in NativeIds :
         q[x] = LET writes == {d \in Written(w, v) : x \in v.patch.contacts[d].ids}
                IN  IF writes = {} THEN n[x] ELSE CHOOSE d \in writes : TRUE
  BY DEF Renamed
<1>12. p.deleted \subseteq NativeIds /\ v.patch.deleted \subseteq NativeIds
  BY <1>3, <1>4, <1>7 DEF Names
<1>13. CASE m.contacts[c] = M
  <2>1. gone = {}
    <3>1. \A d \in R : d \in M.ids
      BY <1>4, <1>5
    <3>2. \A d \in R : m.owner[d] = c
      BY <1>4, <1>8, <1>13, <3>1
    <3> QED BY <1>5, <1>7, <3>2
  <2>2. \A x \in NativeIds : v.now.owner[x] = m.owner[x]
    BY <1>3, <1>4, <1>8, <1>13
  <2>3. \A d \in NativeIds : v.patch.contacts[d] = p.contacts[d]
    BY <1>3, <1>13
  <2>4. Written(w, v) = {}
    BY <2>3 DEF Written
  <2>5. \A x \in NativeIds : q[x] = n[x]
    BY <1>11, <2>4
  <2>6. \A d \in p.deleted : HeldIn(f, v, d) = HeldIn(f, w, d)
    BY <1>12, <2>3 DEF HeldIn
  <2>7. v.patch.deleted = p.deleted
    BY <1>3, <2>1
  <2> HIDE DEF v, q
  <2>8. \A x \in NativeIds :
          /\ q[x] # Nobody => v.now.owner[x] = q[x]
          /\ q[x] = Nobody =>
               /\ v.now.owner[x] = f.owner[x]
               /\ \A d \in v.patch.deleted : x \notin HeldIn(f, v, d).ids
    BY <1>9, <2>2, <2>5, <2>6, <2>7
  <2> QED BY <1>12, <2>8 DEF Names, v, q
<1>14. CASE m.contacts[c] # M
  <2>1. p.contacts[c] # M
    <3>1. M # NoContact
      BY <1>4 DEF NoContact
    <3> QED BY <1>4, <1>6, <1>10, <1>14, <3>1
  <2>2. Written(w, v) = {c} /\ v.patch.contacts[c] = M
    BY <1>3, <1>4, <1>14, <2>1 DEF Written
  <2>3. \A x \in NativeIds : q[x] = IF x \in M.ids THEN c ELSE n[x]
    <3> HIDE DEF v, q, M, c
    <3>1. ASSUME NEW x \in NativeIds PROVE q[x] = IF x \in M.ids THEN c ELSE n[x]
      <4>1. {d \in Written(w, v) : x \in v.patch.contacts[d].ids} = IF x \in M.ids THEN {c} ELSE {}
        BY <2>2
      <4>2. (CHOOSE d \in {c} : TRUE) = c
        OBVIOUS
      <4> QED BY <1>11, <4>1, <4>2
    <3> QED BY <3>1
  <2>4. ASSUME NEW x \in NativeIds, x \in M.ids
        PROVE  q[x] # Nobody /\ v.now.owner[x] = q[x]
    BY <1>3, <1>4, <2>3, <2>4, ContactAssumption
  <2>5. ASSUME NEW x \in NativeIds, x \notin M.ids
        PROVE  q[x] = n[x] /\ v.now.owner[x] = m.owner[x]
    BY <1>3, <2>3, <2>5
  <2>6. ASSUME NEW x \in NativeIds, x \notin M.ids, n[x] = Nobody, NEW d \in v.patch.deleted
        PROVE  x \notin HeldIn(f, v, d).ids
    <3>1. CASE d \in p.deleted
      <4>1. HeldIn(f, v, d) = HeldIn(f, w, d)
        <5>1. d # c
          BY <1>6, <3>1
        <5>2. v.patch.contacts[d] = p.contacts[d]
          BY <1>3, <1>12, <3>1, <5>1
        <5> QED BY <5>2 DEF HeldIn
      <4> QED BY <1>9, <2>6, <3>1, <4>1
    <3>2. CASE d \notin p.deleted
      <4>1. d \in gone /\ d \in R /\ d # c /\ d \in NativeIds
        BY <1>3, <1>4, <1>7, <3>2
      <4>2. v.patch.contacts[d] = p.contacts[d]
        BY <1>3, <4>1
      <4>3. HeldIn(f, v, d) = m.contacts[d]
        BY <1>10, <3>2, <4>1, <4>2 DEF HeldIn
      <4>4. m.owner[x] # d
        BY <1>4, <2>6, <4>1
      <4> QED BY <1>8, <4>1, <4>3, <4>4
    <3> QED BY <3>1, <3>2
  <2> HIDE DEF v, q, M, c
  <2>7. \A x \in NativeIds :
          /\ q[x] # Nobody => v.now.owner[x] = q[x]
          /\ q[x] = Nobody =>
               /\ v.now.owner[x] = f.owner[x]
               /\ \A d \in v.patch.deleted : x \notin HeldIn(f, v, d).ids
    BY <1>9, <2>4, <2>5, <2>6
  <2> QED BY <1>12, <2>7 DEF Names, v, q
<1> QED BY <1>13, <1>14

\* A projection that neither writes nor deletes a contact.
Quiet(w, v) ==
  /\ Shape(v) /\ v.now.owner = w.now.owner
  /\ v.patch.contacts = w.patch.contacts /\ v.patch.deleted = w.patch.deleted

LEMMA UpsertQuiet ==
  ASSUME NEW w, Shape(w), NEW record \in Rest, NEW value
  PROVE  Quiet(w, Upsert(w, record, value))
BY UpsertFields DEF Quiet

LEMMA WaitingQuiet ==
  ASSUME NEW w, Shape(w), NEW updates
  PROVE  Quiet(w, SetPending(w, updates))
BY WaitingFields DEF Quiet

LEMMA ChatQuiet ==
  ASSUME NEW w, Shape(w), NEW subject, NEW at
  PROVE  Quiet(w, ProjectChat(w, subject, at))
BY UpsertQuiet DEF ProjectChat, Rest

LEMMA GroupQuiet ==
  ASSUME NEW w, Shape(w), NEW subject, NEW roster
  PROVE  Quiet(w, ProjectGroup(w, subject, roster))
BY UpsertQuiet DEF ProjectGroup, Rest

LEMMA LandedQuiet ==
  ASSUME NEW w, Shape(w), NEW content
  PROVE  Quiet(w, Landed(w, content))
<1>1. CASE w.now.message # NoMessage
  BY <1>1 DEF Landed, Quiet
<1>2. CASE w.now.message = NoMessage
  <2>1. PICK r : r = Taken(Fresh(content), w.now.pending)
    OBVIOUS
  <2>2. PICK u : u = Upsert(w, "message", r)
    OBVIOUS
  <2>3. Quiet(w, u)
    BY <2>2, UpsertQuiet DEF Rest
  <2>4. Quiet(u, SetPending(u, <<>>))
    BY <2>3, WaitingQuiet DEF Quiet
  <2>5. Landed(w, content) = SetPending(u, <<>>)
    BY <1>2, <2>1, <2>2, LandedIs
  <2> QED BY <2>3, <2>4, <2>5 DEF Quiet
<1> QED BY <1>1, <1>2

LEMMA UpdateQuiet ==
  ASSUME NEW w, Shape(w), NEW u
  PROVE  Quiet(w, ProjectUpdate(w, u))
BY UpsertQuiet, WaitingQuiet DEF ProjectUpdate, Rest

LEMMA QuietQuiet ==
  ASSUME NEW u, NEW v, NEW w, Quiet(u, v), Quiet(v, w)
  PROVE  Quiet(u, w)
BY DEF Quiet

LEMMA QuietNames ==
  ASSUME NEW f, NEW w, NEW v, NEW n, IsNaming(n), Names(f, w, n), Quiet(w, v)
  PROVE  Names(f, v, Renamed(w, v, n))
<1>1. Written(w, v) = {}
  BY DEF Quiet, Written
<1>2. \A x \in NativeIds : Renamed(w, v, n)[x] = n[x]
  BY <1>1 DEF Renamed
<1>3. Renamed(w, v, n) = n
  <2>1. Renamed(w, v, n) = [x \in NativeIds |-> Renamed(w, v, n)[x]]
    BY DEF Renamed
  <2>2. n = [x \in NativeIds |-> n[x]]
    BY DEF IsNaming
  <2> QED BY <1>2, <2>1, <2>2
<1>4. \A c \in v.patch.deleted : HeldIn(f, v, c) = HeldIn(f, w, c)
  BY DEF Quiet, HeldIn
<1> QED BY <1>3, <1>4 DEF Names, Quiet

\* A quiet projection after one that wrote a contact names nothing more.
LEMMA QuietAfter ==
  ASSUME NEW f, NEW w, NEW s, NEW v, NEW n, IsNaming(n),
         Names(f, s, Renamed(w, s, n)), Quiet(s, v)
  PROVE  Names(f, v, Renamed(w, v, n))
<1>1. Renamed(w, v, n) = Renamed(w, s, n)
  <2>1. Written(w, v) = Written(w, s)
    BY DEF Quiet, Written
  <2> QED BY <2>1 DEF Renamed, Quiet
<1>2. \A c \in v.patch.deleted : HeldIn(f, v, c) = HeldIn(f, s, c)
  BY DEF Quiet, HeldIn
<1> QED BY <1>1, <1>2 DEF Names, Quiet

LEMMA ObservationNames ==
  ASSUME NEW f, NEW w, Good(f, w), NEW forms \in Forms, NEW profile,
         NEW n, IsNaming(n), Names(f, w, n)
  PROVE  LET v == ProjectContact(w, Observation(forms, profile))
         IN  Names(f, v, Renamed(w, v, n))
<1> DEFINE o == Observation(forms, profile)
<1>1. o.forms = forms /\ o.id = forms[1] /\ 1 \in DOMAIN forms /\ forms[1] \in NativeIds
  BY DEF Observation, Forms
<1>2. Valid(w.now, o)
  BY <1>1 DEF Valid, Named
<1> QED BY <1>2, ContactNames

LEMMA EventNames ==
  ASSUME NEW f, NEW w, Good(f, w), NEW e \in Events,
         NEW n, IsNaming(n), Names(f, w, n)
  PROVE  Names(f, Project(w, e), Renamed(w, Project(w, e), n))
<1>0. Shape(w)
  BY DEF Good
<1>1. CASE e \in ContactEvents
  <2>1. /\ e.forms \in Forms
        /\ Project(w, e) = ProjectContact(w, Observation(e.forms, e.profile))
    BY <1>1 DEF ContactEvents, Project
  <2> QED BY <2>1, ObservationNames
<1>2. CASE e \in LastSeenEvents
  <2>1. e.form \in NativeIds /\ Project(w, e) = ProjectLastSeen(w, e.form, e.at)
    BY <1>2 DEF LastSeenEvents, Project
  <2> DEFINE o == [id |-> w.now.owner[e.form], forms |-> <<e.form>>,
                   profile |-> NoProfile, seen |-> e.at]
  <2>2. CASE w.now.owner[e.form] = Nobody
    <3>1. Project(w, e) = w
      BY <2>1, <2>2 DEF ProjectLastSeen
    <3>2. Quiet(w, w)
      BY <1>0 DEF Quiet
    <3> QED BY <3>1, <3>2, QuietNames
  <2>3. CASE w.now.owner[e.form] # Nobody
    <3>1. w.now.owner[e.form] \in NativeIds
      BY <2>1, <2>3 DEF Good, Consistent
    <3>2. <<e.form>> \in [1 .. 1 -> NativeIds]
      BY <2>1
    <3>3. o.forms \in Forms /\ o.id = w.now.owner[e.form] /\ e.form \in Named(o)
      BY <3>2 DEF Forms, Named
    <3>4. Valid(w.now, o)
      BY <2>1, <2>3, <3>1, <3>3 DEF Valid, Known
    <3>5. Project(w, e) = ProjectContact(w, o)
      BY <2>1, <2>3 DEF ProjectLastSeen
    <3> HIDE DEF o
    <3> QED BY <3>4, <3>5, ContactNames
  <2> QED BY <2>2, <2>3
<1>3. CASE e \in ConnectionEvents
  <2>1. Project(w, e) = ProjectConnection(w, e.end, e.at)
    BY <1>3 DEF ConnectionEvents, Project
  <2>2. Quiet(w, Project(w, e))
    BY <1>0, <2>1, UpsertQuiet DEF ProjectConnection, Rest
  <2> QED BY <2>2, QuietNames
<1>4. CASE e \in MessageEvents
  <2>1. /\ e.sender \in Forms
        /\ Project(w, e) = ProjectMessage(Sender(w, e.sender), e.content, e.at)
    BY <1>4 DEF MessageEvents, Project
  <2>2. PICK s : s = Sender(w, e.sender)
    OBVIOUS
  <2>3. Good(f, s) /\ Names(f, s, Renamed(w, s, n))
    <3>1. CASE DOMAIN e.sender = {1}
      <4>1. s = w /\ Quiet(w, w)
        BY <1>0, <2>2, <3>1 DEF Sender, Quiet
      <4> QED BY <4>1, QuietNames
    <3>2. CASE DOMAIN e.sender # {1}
      BY <2>1, <2>2, <3>2, ObservationNames, ObservationKeeps DEF Sender
    <3> QED BY <3>1, <3>2
  <2>4. PICK l : l = Landed(s, e.content)
    OBVIOUS
  <2>5. Quiet(s, l)
    BY <2>3, <2>4, LandedQuiet DEF Good
  <2>6. Quiet(l, ProjectChat(l, "none", e.at))
    BY <2>5, ChatQuiet DEF Quiet
  <2>7. Project(w, e) = ProjectChat(l, "none", e.at)
    BY <2>1, <2>2, <2>4 DEF ProjectMessage
  <2>8. Quiet(s, Project(w, e))
    BY <2>5, <2>6, <2>7, QuietQuiet
  <2> QED BY <2>3, <2>8, QuietAfter
<1>5. CASE e \in UpdateEvents
  <2>1. Project(w, e) = ProjectUpdate(w, e.update)
    BY <1>5 DEF UpdateEvents, Project
  <2> QED BY <1>0, <2>1, UpdateQuiet, QuietNames
<1>6. CASE e \in ChatEvents
  <2>1. PICK c : c = ProjectChat(w, e.subject, e.at)
    OBVIOUS
  <2>2. Quiet(w, c)
    BY <1>0, <2>1, ChatQuiet
  <2>3. Quiet(c, ProjectGroup(c, e.subject, e.roster))
    BY <2>2, GroupQuiet DEF Quiet
  <2>4. Project(w, e) = ProjectGroup(c, e.subject, e.roster)
    BY <1>6, <2>1 DEF ChatEvents, Project, ProjectSyncedChat
  <2> QED BY <2>2, <2>3, <2>4, QuietQuiet, QuietNames
<1>7. CASE e \in MetadataEvents
  <2>1. PICK g : g = ProjectGroup(w, e.subject, e.roster)
    OBVIOUS
  <2>2. Quiet(w, g)
    BY <1>0, <2>1, GroupQuiet
  <2>3. Quiet(g, ProjectChat(g, e.subject, 0))
    BY <2>2, ChatQuiet DEF Quiet
  <2>4. Project(w, e) = g \/ Project(w, e) = ProjectChat(g, e.subject, 0)
    BY <1>7, <2>1 DEF MetadataEvents, Project, ProjectMetadata
  <2>5. Quiet(w, Project(w, e))
    BY <2>2, <2>3, <2>4, QuietQuiet
  <2> QED BY <2>5, QuietNames
<1>8. CASE e \in ParticipantEvents
  <2>1. Project(w, e) = ProjectParticipants(w, e.who, e.role)
    BY <1>8 DEF ParticipantEvents, Project
  <2>2. Quiet(w, Project(w, e))
    BY <1>0, <2>1, GroupQuiet DEF ProjectParticipants
  <2> QED BY <2>2, QuietNames
<1> QED BY <1>1, <1>2, <1>3, <1>4, <1>5, <1>6, <1>7, <1>8 DEF Events

\* The consumer holds the mirror, but for the roster.
Alike(r, m) ==
  /\ r = [contacts |-> r.contacts, owner |-> r.owner, account |-> r.account,
          chat |-> r.chat, group |-> r.group, message |-> r.message]
  /\ r.contacts = m.contacts /\ r.owner = m.owner
  /\ r.account = m.account /\ r.chat = m.chat /\ r.message = m.message
  /\ [r.group EXCEPT !.roster = NoRoster] = [m.group EXCEPT !.roster = NoRoster]

LogInv ==
  /\ IInv
  /\ IsNaming(named)
  /\ Names(follower, work, named)
  /\ Alike(replayed, mirror)

LEMMA AlikeIsReached == Alike(replayed, mirror) => ReplayReachesTheMirror
<1> SUFFICES ASSUME Alike(replayed, mirror) PROVE ReplayReachesTheMirror
  OBVIOUS
<1> DEFINE v == Visible(mirror)
<1>1. /\ v = [contacts |-> mirror.contacts, owner |-> mirror.owner,
              account |-> mirror.account, chat |-> mirror.chat,
              group |-> mirror.group, message |-> mirror.message]
  BY DEF Visible
<1>2. ApartFromRoster(v)
        = [contacts |-> mirror.contacts, owner |-> mirror.owner,
           account |-> mirror.account, chat |-> mirror.chat,
           group |-> [mirror.group EXCEPT !.roster = NoRoster],
           message |-> mirror.message]
  <2> HIDE DEF v
  <2> QED BY <1>1 DEF ApartFromRoster
<1>3. ApartFromRoster(replayed)
        = [contacts |-> replayed.contacts, owner |-> replayed.owner,
           account |-> replayed.account, chat |-> replayed.chat,
           group |-> [replayed.group EXCEPT !.roster = NoRoster],
           message |-> replayed.message]
  BY DEF ApartFromRoster, Alike
<1> HIDE DEF v
<1>4. ApartFromRoster(replayed) = ApartFromRoster(v)
  BY <1>2, <1>3 DEF Alike
<1> QED BY <1>4 DEF ReplayReachesTheMirror, v

LEMMA NamesBegin ==
  ASSUME NEW m
  PROVE  Names(Visible(m), [now |-> m, patch |-> EmptyPatch], NotNamed)
BY DEF Names, NotNamed, EmptyPatch, Visible

LEMMA InitLog == LogInit => LogInv
<1> SUFFICES ASSUME LogInit PROVE LogInv
  OBVIOUS
<1>1. IInv
  BY InitIInv DEF LogInit
<1>2. IsNaming(named)
  BY DEF LogInit, NotNamed, IsNaming
<1>3. Names(follower, work, named)
  BY NamesBegin DEF LogInit, Init
<1>4. Alike(replayed, mirror)
  BY DEF LogInit, Init, Alike, Visible
<1> QED BY <1>1, <1>2, <1>3, <1>4 DEF LogInv

\* What a row is read as, field by field.
LEMMA DecodedFields ==
  ASSUME NEW carried, PatchShape(work.patch)
  PROVE  LET d == Decoded(carried)
             p == work.patch
         IN  /\ d.contacts = p.contacts /\ d.deleted = p.deleted /\ d.written = p.written
             /\ d.account = p.account /\ d.chat = p.chat /\ d.message = p.message
             /\ d.aliases = DecodedAliases(carried) /\ d.freed = DecodedFreed(carried)
             /\ d.group = [p.group EXCEPT !.roster = DecodedRoster(p.group.roster)]
<1> DEFINE p == work.patch
           d == Decoded(carried)
           A == DecodedAliases(carried)
           F == DecodedFreed(carried)
           G == [p.group EXCEPT !.roster = DecodedRoster(p.group.roster)]
<1>1. d = [p EXCEPT !.aliases = A, !.freed = F, !.group = G]
  <2>1. [p EXCEPT !.aliases = A, !.freed = F].group.roster = p.group.roster
    <3> HIDE DEF A, F
    <3> QED BY DEF PatchShape, PatchFields
  <2>2. [p EXCEPT !.aliases = A, !.freed = F].group = p.group
    <3> HIDE DEF A, F
    <3> QED BY DEF PatchShape, PatchFields
  <2> QED BY <2>1, <2>2 DEF Decoded
<1> HIDE DEF d, A, F, G
<1>2. p = [contacts |-> p.contacts, deleted |-> p.deleted, freed |-> p.freed,
           aliases |-> p.aliases, written |-> p.written, account |-> p.account,
           chat |-> p.chat, group |-> p.group, message |-> p.message]
  BY DEF PatchShape, PatchFields
<1> HIDE DEF p
<1>3. d = [contacts |-> p.contacts, deleted |-> p.deleted, freed |-> F,
           aliases |-> A, written |-> p.written, account |-> p.account,
           chat |-> p.chat, group |-> G, message |-> p.message]
  BY <1>1, <1>2
<1> QED BY <1>3 DEF d, A, F, G, p

LEMMA RowTellsAll ==
  ASSUME LogInv, NEW carried \in BOOLEAN
  PROVE  Alike(Patched(replayed, Decoded(carried)), work.now)
<1> DEFINE p == work.patch
           m == work.now
           d == Decoded(carried)
           r == replayed
           s == Patched(r, d)
<1>1. /\ Good(follower, work) /\ Names(follower, work, named)
      /\ Alike(r, mirror) /\ follower = Visible(mirror)
  BY DEF LogInv, IInv
<1>2. /\ Consistent(m) /\ ContactsFollow(follower, work) /\ RestFollows(follower, work)
      /\ PatchShape(p)
  BY <1>1 DEF Good, Shape
<1>3. /\ follower.contacts = r.contacts /\ follower.owner = r.owner
      /\ follower.account = r.account /\ follower.chat = r.chat
      /\ follower.message = r.message
      /\ [follower.group EXCEPT !.roster = NoRoster] = [r.group EXCEPT !.roster = NoRoster]
  BY <1>1 DEF Alike, Visible
<1>4. /\ d.contacts = p.contacts /\ d.deleted = p.deleted /\ d.written = p.written
      /\ d.account = p.account /\ d.chat = p.chat /\ d.message = p.message
      /\ d.aliases = DecodedAliases(carried) /\ d.freed = DecodedFreed(carried)
      /\ d.group = [p.group EXCEPT !.roster = DecodedRoster(p.group.roster)]
  BY <1>2, DecodedFields
<1>5. s.contacts = m.contacts
  <2>1. s.contacts = [c \in NativeIds |-> IF c \in d.deleted THEN NoContact
                                          ELSE IF d.contacts[c] # NoContact
                                               THEN d.contacts[c] ELSE r.contacts[c]]
    BY DEF Patched
  <2> HIDE DEF s, d, m, p, r
  <2>2. \A c \in NativeIds :
          m.contacts[c] = IF c \in p.deleted THEN NoContact
                          ELSE IF p.contacts[c] # NoContact
                               THEN p.contacts[c] ELSE r.contacts[c]
    BY <1>2, <1>3 DEF ContactsFollow, m, p
  <2>3. m.contacts = [c \in NativeIds |-> m.contacts[c]]
    BY <1>2 DEF Consistent, IsMap
  <2> QED BY <1>4, <2>1, <2>2, <2>3
<1>6. s.owner = m.owner
  <2>1. s.owner = [x \in NativeIds |-> IF d.aliases[x] # Nobody THEN d.aliases[x]
                                       ELSE IF x \in d.freed THEN Nobody ELSE r.owner[x]]
    BY DEF Patched
  <2>2. m.owner = [x \in NativeIds |-> m.owner[x]]
    BY <1>2 DEF Consistent
  <2>3. ASSUME NEW x \in NativeIds
        PROVE  m.owner[x] = IF d.aliases[x] # Nobody THEN d.aliases[x]
                            ELSE IF x \in d.freed THEN Nobody ELSE r.owner[x]
    <3>1. CASE carried
      <4>1. d.aliases = p.aliases /\ d.freed = p.freed
        BY <1>4, <3>1 DEF DecodedAliases, DecodedFreed
      <4> HIDE DEF d
      <4> QED BY <1>2, <1>3, <4>1 DEF ContactsFollow
    <3>2. CASE ~ carried
      <4>1. /\ d.aliases = named
            /\ d.freed = UNION {Held(c).ids : c \in p.deleted}
        BY <1>4, <3>2 DEF DecodedAliases, DecodedFreed
      <4>2. /\ named[x] # Nobody => m.owner[x] = named[x]
            /\ named[x] = Nobody =>
                 /\ m.owner[x] = r.owner[x]
                 /\ \A c \in p.deleted : x \notin HeldIn(follower, work, c).ids
        BY <1>1, <1>3 DEF Names
      <4>3. \A c \in p.deleted : Held(c) = HeldIn(follower, work, c)
        BY <1>3 DEF Held, HeldIn
      <4>4. named[x] = Nobody => x \notin d.freed
        <5> HIDE DEF d
        <5> QED BY <4>1, <4>2, <4>3
      <4> HIDE DEF d
      <4> QED BY <4>1, <4>2, <4>4
    <3> QED BY <3>1, <3>2
  <2> HIDE DEF s, d, m, r
  <2> QED BY <2>1, <2>2, <2>3
<1>7. s.account = m.account /\ s.chat = m.chat /\ s.message = m.message
  <2>1. /\ s.account = IF "account" \in d.written THEN d.account ELSE r.account
        /\ s.chat = IF "chat" \in d.written THEN d.chat ELSE r.chat
        /\ s.message = IF "message" \in d.written THEN d.message ELSE r.message
    BY DEF Patched
  <2>2. /\ m.account = IF "account" \in p.written THEN p.account ELSE r.account
        /\ m.chat = IF "chat" \in p.written THEN p.chat ELSE r.chat
        /\ m.message = IF "message" \in p.written THEN p.message ELSE r.message
    BY <1>2, <1>3 DEF RestFollows, Rest
  <2> HIDE DEF s, d, m, p, r
  <2> QED BY <1>4, <2>1, <2>2
<1>8. [s.group EXCEPT !.roster = NoRoster] = [m.group EXCEPT !.roster = NoRoster]
  <2>1. s.group = IF "group" \in d.written THEN d.group ELSE r.group
    BY DEF Patched
  <2>2. m.group = IF "group" \in p.written THEN p.group ELSE follower.group
    BY <1>2 DEF RestFollows, Rest
  <2> HIDE DEF s, d, m, p, r
  <2>3. CASE "group" \in p.written
    <3>1. PICK x : x = DecodedRoster(p.group.roster)
      OBVIOUS
    <3>2. s.group = [m.group EXCEPT !.roster = x]
      BY <1>4, <2>1, <2>2, <2>3, <3>1
    <3> QED BY <3>2
  <2>4. CASE "group" \notin p.written
    BY <1>3, <1>4, <2>1, <2>2, <2>4
  <2> QED BY <2>3, <2>4
<1>9. s = [contacts |-> s.contacts, owner |-> s.owner, account |-> s.account,
           chat |-> s.chat, group |-> s.group, message |-> s.message]
  BY DEF Patched
<1> HIDE DEF s, m
<1>10. Alike(s, m)
  BY <1>5, <1>6, <1>7, <1>8, <1>9 DEF Alike
<1> QED BY <1>10 DEF s, m

LEMMA NextLog == LogInv /\ [LogNext]_logVars => LogInv'
<1> SUFFICES ASSUME LogInv, [LogNext]_logVars PROVE LogInv'
  OBVIOUS
<1>0. IInv /\ IInv'
  <2>1. [Next]_vars
    BY DEF LogNext, LogObserve, LogAccept, LogRefuse, Next, logVars
  <2> QED BY <2>1, NextIInv DEF LogInv
<1>1. CASE LogObserve
  <2>1. PICK e \in Events : Observe(e)
    BY <1>1 DEF LogObserve, Observing, Events
  <2>2. work' = Project(work, e) /\ UNCHANGED <<mirror, follower, replayed>>
    BY <1>1, <2>1 DEF Observe, LogObserve
  <2>3. named' = Renamed(work, work', named)
    <3>1. Upserted = Written(work, work')
      BY DEF Upserted, Written
    <3> QED BY <1>1, <3>1 DEF LogObserve, Renamed
  <2>4. Names(follower, Project(work, e), Renamed(work, Project(work, e), named))
    BY EventNames DEF LogInv, IInv
  <2>5. IsNaming(named')
    BY <2>3, RenamedIsNaming DEF LogInv
  <2>6. Names(follower', work', named')
    BY <2>2, <2>3, <2>4
  <2>7. Alike(replayed', mirror')
    BY <2>2 DEF LogInv
  <2> QED BY <1>0, <2>5, <2>6, <2>7 DEF LogInv
<1>2. CASE LogAccept
  <2>1. Accept /\ named' = NotNamed
    BY <1>2 DEF LogAccept
  <2>2. PICK carried \in BOOLEAN : replayed' = Patched(replayed, Decoded(carried))
    BY <1>2 DEF LogAccept
  <2>3. mirror' = work.now /\ work' = [now |-> work.now, patch |-> EmptyPatch]
    BY <1>0, <2>1 DEF Accept, IInv, Good, Shape
  <2>4. Alike(replayed', mirror')
    BY <2>2, <2>3, RowTellsAll
  <2>5. follower' = Visible(mirror')
    BY <1>0 DEF IInv
  <2>6. Names(follower', work', named')
    BY <2>1, <2>3, <2>5, NamesBegin
  <2>7. IsNaming(named')
    BY <2>1 DEF NotNamed, IsNaming
  <2> QED BY <1>0, <2>4, <2>6, <2>7 DEF LogInv
<1>3. CASE LogRefuse
  <2>1. /\ work' = [now |-> mirror, patch |-> EmptyPatch] /\ named' = NotNamed
        /\ UNCHANGED <<mirror, follower, replayed>>
    BY <1>3 DEF LogRefuse, Refuse
  <2>2. Names(follower', work', named')
    <3>1. follower' = Visible(mirror)
      BY <1>0, <2>1 DEF IInv
    <3> QED BY <2>1, <3>1, NamesBegin
  <2>3. IsNaming(named')
    BY <2>1 DEF NotNamed, IsNaming
  <2>4. Alike(replayed', mirror')
    BY <2>1 DEF LogInv
  <2> QED BY <1>0, <2>2, <2>3, <2>4 DEF LogInv
<1>4. CASE UNCHANGED logVars
  BY <1>0, <1>4 DEF logVars, vars, LogInv
<1> QED BY <1>1, <1>2, <1>3, <1>4 DEF LogNext

\* Whoever reads the rows of the log from the first on ends where the mirror is,
\* whichever of them the version before wrote: the aliases that its rows lack
\* follow from the contacts they write.
THEOREM LogIsTheMirror == LogSpec => []ReplayReachesTheMirror
<1>1. LogInv => ReplayReachesTheMirror
  BY AlikeIsReached DEF LogInv
<1> QED BY <1>1, InitLog, NextLog, PTL DEF LogSpec
=============================================================================
