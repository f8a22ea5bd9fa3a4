------------------------------ MODULE MCClient ------------------------------
(***************************************************************************)
(* What a client follows and what it asks for, looked at one at a time: the *)
(* mirror and the receipts reach it by streams of their own. A step that is *)
(* not of the part looked at is never enabled, and its fairness asks for    *)
(* nothing.                                                                *)
(***************************************************************************)
EXTENDS ClientMirror, ClientOperations

CONSTANTS o1, c1, c2, c3, image, text

VARIABLE part

\* Of three messages, a batch changes the middle one, or the oldest and the
\* newest together (a history sync).
MCBatches == {{2}, {1, 3}}

\* Two calls with the same media and one with a text, all by one key.
MCOperationOf == [c \in Calls |-> o1]
MCContentOf == [c \in Calls |-> IF c = c3 THEN text ELSE image]
MCObjects == {<<o1, image>>}

AtMirror == part = "mirror" /\ UNCHANGED <<part, operationVars>>
AtOperations == part = "operations" /\ UNCHANGED <<part, vars>>

ClientInit ==
  /\ part \in {"mirror", "operations"}
  /\ Init /\ OperationsInit
  /\ part = "operations" => log = <<{2}>>

ClientNext ==
  \/ AtMirror /\ Next
  \/ AtOperations /\ OperationsNext

OnMirror(step) == part = "mirror" /\ step
OnOperations(step) == part = "operations" /\ step

ClientSpec ==
  /\ ClientInit /\ [][ClientNext]_<<part, vars, operationVars>>
  /\ WF_vars(OnMirror(Publish)) /\ WF_vars(OnMirror(Follow)) /\ WF_vars(OnMirror(Paging))
  /\ WF_operationVars(OnOperations(ListRead \/ ListArrives))
  /\ WF_operationVars(OnOperations(WaitsCancelled))
=============================================================================
