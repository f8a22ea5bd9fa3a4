-------------------------- MODULE OperationReceipt --------------------------
(***************************************************************************)
(* What the durable operations of an account promise a client, with no     *)
(* runtimes, leases or attempts: a receipt that moves one way, and a       *)
(* Session that is asked at most once. A receipt is "pending" while a      *)
(* runtime may still take the operation up and "begun" once its execution  *)
(* may reach WhatsApp. From there it can only become a verdict, and        *)
(* "outcome_unknown" is honest in the strongest sense: the one request may *)
(* already have been made, may never be made, or may still be made later.  *)
(***************************************************************************)
EXTENDS Naturals

CONSTANTS Operations

VARIABLES receipt, invocations, acknowledged

receiptVars == <<receipt, invocations, acknowledged>>

Verdicts == {"succeeded", "failed", "outcome_unknown"}

ReceiptInit ==
  /\ receipt      = [o \in Operations |-> "absent"]
  /\ invocations  = [o \in Operations |-> 0]
  /\ acknowledged = [o \in Operations |-> FALSE]

Turn(o, from, to) ==
  /\ receipt[o] = from
  /\ receipt' = [receipt EXCEPT ![o] = to]

Submitted(o) ==
  Turn(o, "absent", "pending") /\ UNCHANGED <<invocations, acknowledged>>

Refused(o) ==
  Turn(o, "pending", "failed") /\ UNCHANGED <<invocations, acknowledged>>

Begun(o) ==
  Turn(o, "pending", "begun") /\ UNCHANGED <<invocations, acknowledged>>

Asked(o) ==
  /\ receipt[o] \in {"begun", "outcome_unknown"}
  /\ invocations[o] = 0
  /\ invocations' = [invocations EXCEPT ![o] = 1]
  /\ UNCHANGED <<receipt, acknowledged>>

Confirmed(o) ==
  /\ invocations[o] = 1
  /\ Turn(o, "begun", "succeeded")
  /\ UNCHANGED <<invocations, acknowledged>>

\* Several lapsed executions are given up at once, by one claim.
GivenUp(S) ==
  /\ \A o \in S : receipt[o] = "begun"
  /\ receipt' = [o \in Operations |->
                   IF o \in S THEN "outcome_unknown" ELSE receipt[o]]
  /\ UNCHANGED <<invocations, acknowledged>>

Acknowledged(o) ==
  /\ receipt[o] \in Verdicts
  /\ ~acknowledged[o]
  /\ acknowledged' = [acknowledged EXCEPT ![o] = TRUE]
  /\ UNCHANGED <<receipt, invocations>>

\* The first disjunct lets TLC accept at once a step that changes no receipt.
ReceiptNext ==
  \/ UNCHANGED receiptVars
  \/ \E o \in Operations :
       \/ Submitted(o) \/ Refused(o) \/ Begun(o) \/ Asked(o)
       \/ Confirmed(o) \/ Acknowledged(o)
  \/ \E S \in SUBSET Operations : GivenUp(S)

ReceiptSpec == ReceiptInit /\ [][ReceiptNext]_receiptVars
=============================================================================
