-------------------------- MODULE ConnectionMachine --------------------------
(***************************************************************************)
(* The connection, pairing and sync state machine: the pure reducer of     *)
(* machine.ts. A status is its phase (pairing and authenticated are split  *)
(* into their steps) and the retry attempt that connecting and backing_off *)
(* carry. What a status merely shows (a QR, a code, a progress, a reason)  *)
(* is left out. A close is known by where its fault leads (errors.ts).     *)
(***************************************************************************)
EXTENDS Naturals

CONSTANTS
  Methods,      \* the ways accounts are linked: "qr", "pairing_code"
  MaxAttempt    \* attempts are not told apart from here on: the delay has
                \* long reached its cap

ASSUME MachineAssumption ==
  /\ Methods \subseteq {"qr", "pairing_code"}
  /\ MaxAttempt \in Nat

VARIABLE method   \* the one given when the session was made

Pairing == {"awaiting_ready", "challenge_live", "restart_pending"}
Authenticated == {"draining", "syncing"}
Final == {"logged_out", "suspended"}
Phases ==
  {"disconnected", "connecting", "online", "backing_off"}
    \cup Pairing \cup Authenticated \cup Final

Closes ==
  {"closed_intentional", "closed_retryable", "closed_logged_out",
   "closed_suspended"}
Inputs ==
  {"start", "ready", "qr_refresh", "code_ready", "paired", "open",
   "pending_drained", "sync_progress", "synced", "retry_due",
   "pairing_rejected", "stop"} \cup Closes

Statuses == [phase : Phases, attempt : 0 .. MaxAttempt]

At(phase) == [phase |-> phase, attempt |-> 0]

\* The default disposition of a fault is to retry, of an intentional end too.
Retryable(close) == close \in {"closed_retryable", "closed_intentional"}

OnClose(close, attempt) ==
  CASE close = "closed_intentional" -> At("disconnected")
    [] close = "closed_logged_out"  -> At("logged_out")
    [] close = "closed_suspended"   -> At("suspended")
    [] close = "closed_retryable"   ->
         [phase |-> "backing_off", attempt |-> attempt]

\* A reducer in which a close moves every phase.
AfterAnyClose(s, close) ==
  IF s.phase = "restart_pending" /\ Retryable(close)
  THEN At("connecting")
  ELSE OnClose(close, IF s.phase = "connecting" THEN s.attempt ELSE 0)

\* Reconnecting after a pairing is expected, and starts counting afresh.
AfterClose(s, close) ==
  CASE s.phase \in Final -> s
    [] s.phase = "restart_pending" /\ Retryable(close) -> At("connecting")
    [] OTHER -> OnClose(close, IF s.phase = "connecting" THEN s.attempt ELSE 0)

AfterRetry(s) ==
  [phase   |-> "connecting",
   attempt |-> IF s.attempt < MaxAttempt THEN s.attempt + 1 ELSE MaxAttempt]

\* The phase an input leads to where it is expected; elsewhere it is ignored.
Target(phase, input) ==
  CASE phase = "disconnected" /\ input = "start" -> "connecting"
    [] phase = "connecting" /\ input = "open" -> "draining"
    [] phase = "connecting" /\ input = "code_ready" /\ method = "pairing_code"
         -> "challenge_live"
    [] phase = "connecting" /\ input = "ready"
         -> IF method = "qr" THEN "challenge_live" ELSE "awaiting_ready"
    [] phase \in Pairing /\ input = "paired" -> "restart_pending"
    [] phase = "awaiting_ready" /\ input = "code_ready" -> "challenge_live"
    [] phase = "challenge_live" /\ input = "pairing_rejected" -> "logged_out"
    [] phase = "restart_pending" /\ input = "open" -> "draining"
    [] phase \in Authenticated /\ input = "synced" -> "online"
    [] phase = "draining" /\ input \in {"pending_drained", "sync_progress"}
         -> "syncing"
    [] OTHER -> phase

Transition(s, input) ==
  CASE input = "stop" -> IF s.phase \in Final THEN s ELSE At("disconnected")
    [] input \in Closes -> AfterClose(s, input)
    [] input = "retry_due" -> IF s.phase = "backing_off" THEN AfterRetry(s) ELSE s
    [] OTHER -> IF Target(s.phase, input) = s.phase
                THEN s ELSE At(Target(s.phase, input))

\* The same phase announced anew: another QR, another progress, a second stop,
\* a pairing confirmed twice, a close while backing off.
Reannounced(s, input) ==
  \/ s.phase = "challenge_live" /\ input = "qr_refresh" /\ method = "qr"
  \/ s.phase = "syncing" /\ input = "sync_progress"
  \/ s.phase = "disconnected" /\ input \in {"stop", "closed_intentional"}
  \/ s.phase = "restart_pending" /\ input = "paired"
  \/ s.phase = "backing_off" /\ input = "closed_retryable"

Moves(s, input) == Transition(s, input) # s \/ Reannounced(s, input)
=============================================================================
