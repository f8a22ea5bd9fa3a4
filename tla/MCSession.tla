------------------------------ MODULE MCSession ------------------------------
(***************************************************************************)
(* A session over its sockets, and the adapter that turns the events of     *)
(* the protocol library into those it takes, looked at one at a time: to    *)
(* the session each of them is only one more event. A step of the layer     *)
(* that is not looked at is never enabled, and its fairness asks for        *)
(* nothing.                                                                *)
(***************************************************************************)
EXTENDS Session, SocketEvents

CONSTANTS text, poll

VARIABLE layer

AtSession == layer = "session" /\ UNCHANGED <<layer, socketVars>>
AtAdapter == layer = "adapter" /\ UNCHANGED <<layer, vars>>

LayersInit ==
  /\ layer \in {"session", "adapter"}
  /\ Init /\ SocketInit
  /\ layer = "session" => direct
  /\ layer = "adapter" => method = (CHOOSE m \in Methods : TRUE) /\ stored = "none"

LayersNext ==
  \/ AtSession /\ Next
  \/ AtAdapter /\ SocketNext

OnSession(step) == layer = "session" /\ step

LayersSpec ==
  /\ LayersInit /\ [][LayersNext]_<<layer, vars, socketVars>>
  /\ WF_vars(OnSession(Supervisor)) /\ WF_vars(OnSession(Pipeline))
  /\ WF_vars(OnSession(StopProceeds))
  /\ WF_vars(OnSession(Drained)) /\ WF_vars(OnSession(Save))
  /\ WF_vars(OnSession(end # "no" /\ SocketCloses))
=============================================================================
