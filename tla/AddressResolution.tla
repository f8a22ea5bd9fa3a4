-------------------------- MODULE AddressResolution --------------------------
(***************************************************************************)
(* What the projection promises of contacts: native addresses (phone and   *)
(* linked-device forms) fall into classes, one per person as far as was    *)
(* observed, and each class is known by one of its addresses. An           *)
(* observation that names several addresses joins their classes, and the   *)
(* class of the first of them that is known keeps its name. What a batch   *)
(* observed counts when the batch is accepted, and never if it is refused. *)
(***************************************************************************)
EXTENDS Naturals

CONSTANTS NativeIds, Nobody, Observed

VARIABLES
  owner,    \* the name each address resolves to, in the batch at hand
  settled   \* and in what has been accepted

Init ==
  /\ owner = [f \in NativeIds |-> Nobody]
  /\ settled = owner

Named(forms) == {forms[i] : i \in DOMAIN forms}

FirstKnown(forms, name) ==
  \E i \in DOMAIN forms :
    /\ name = owner[forms[i]] /\ name # Nobody
    /\ \A j \in DOMAIN forms : j < i => owner[forms[j]] = Nobody

Unknown(forms) == \A i \in DOMAIN forms : owner[forms[i]] = Nobody

\* Observing the forms of one address joins their classes under one name.
Observe(forms) ==
  \E name \in NativeIds :
    /\ FirstKnown(forms, name) \/ (Unknown(forms) /\ name = forms[1])
    /\ owner' = [f \in NativeIds |->
                   IF \/ f \in Named(forms)
                      \/ /\ owner[f] # Nobody
                         /\ \E g \in Named(forms) : owner[g] = owner[f]
                   THEN name ELSE owner[f]]
    /\ UNCHANGED settled

Accept == settled' = owner /\ UNCHANGED owner

Refuse == owner' = settled /\ UNCHANGED settled

Next ==
  \/ \E forms \in Observed : Observe(forms)
  \/ Accept
  \/ Refuse

Spec == Init /\ [][Next]_<<owner, settled>>
=============================================================================
