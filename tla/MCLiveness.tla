----------------------------- MODULE MCLiveness -----------------------------
(***************************************************************************)
(* What must eventually happen to operations and to the runtimes of an     *)
(* account, looked at one at a time. A step that is not of the side looked  *)
(* at is never enabled, and its fairness asks for nothing.                 *)
(***************************************************************************)
EXTENDS OperationExecution, AccountRuntime

VARIABLE side

AtOperations == side = "operations" /\ UNCHANGED <<side, accountVars>>
AtAccount == side = "account" /\ UNCHANGED <<side, vars>>

LivenessInit == side \in {"operations", "account"} /\ Init /\ AccountInit

LivenessNext ==
  \/ AtOperations /\ Next
  \/ AtAccount /\ AccountNext

OnOperations(step) == side = "operations" /\ step
OnAccount(step) == side = "account" /\ step

LivenessSpec ==
  /\ LivenessInit /\ [][LivenessNext]_<<side, vars, accountVars>>
  /\ WF_vars(OnOperations(Tick))
  /\ \A r \in Runtimes :
       WF_vars(OnOperations(Drain(r))) /\ WF_vars(OnOperations(RetryFires(r)))
  /\ \A r \in Holders :
       /\ WF_accountVars(OnAccount(RenewalStep(r)))
       /\ WF_accountVars(OnAccount(HandlerStep(r)))
       /\ WF_accountVars(OnAccount(SessionWindsDown(r)))
       /\ WF_accountVars(OnAccount(SessionEnded(r)))
       /\ WF_accountVars(OnAccount(Close(r)))
       /\ \A t \in Teardowns : WF_accountVars(OnAccount(TeardownStep(r, t)))
=============================================================================
