------------------------------- MODULE MCShown -------------------------------
(***************************************************************************)
(* What is shown of an account: the presence a client tells of, the chat   *)
(* it gives, and the page of the web example. They are looked at one at a   *)
(* time: what one of them does says nothing of the others.                 *)
(***************************************************************************)
EXTENDS LiveObservations, Transcript, WebClient, TLC

VARIABLE shown

\* Nothing tells one address or one kind of presence from another.
Symmetric == Permutations(Addresses) \cup Permutations(Kinds)

AtPresence == shown = "presence" /\ UNCHANGED <<shown, transcriptVars, webVars>>
AtChat == shown = "chat" /\ UNCHANGED <<shown, liveVars, webVars>>
AtPage == shown = "page" /\ UNCHANGED <<shown, liveVars, transcriptVars>>

ShownInit ==
  /\ shown \in {"presence", "chat", "page"}
  /\ LiveInit /\ TranscriptInit /\ WebInit

ShownNext ==
  \/ AtPresence /\ LiveNext
  \/ AtChat /\ TranscriptNext
  \/ AtPage /\ WebNext

ShownSpec == ShownInit /\ [][ShownNext]_<<shown, liveVars, transcriptVars, webVars>>
=============================================================================
