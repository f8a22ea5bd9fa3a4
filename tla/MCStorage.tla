----------------------------- MODULE MCStorage ------------------------------
(***************************************************************************)
(* The stores beside one another, looked at one at a time: what one of them *)
(* does says nothing of the others.                                        *)
(***************************************************************************)
EXTENDS FileCredentials, LibsqlClient, LibsqlTables

CONSTANTS k1, k2, v1, v2, b1, b2, b3, p1, p2

VARIABLE store

MCLegacyOf == [k \in Keys |-> k]
MCBatches == {[k \in {k2} |-> v2], [k \in Keys |-> IF k = k1 THEN v2 ELSE Absent]}
MCProcessOf == [b \in Clients |-> IF b = b3 THEN p2 ELSE p1]

AtFiles == store = "files" /\ UNCHANGED <<store, clientVars, tablesVars>>
AtClient == store = "client" /\ UNCHANGED <<store, fileVars, tablesVars>>
AtTables == store = "tables" /\ UNCHANGED <<store, fileVars, clientVars>>

StorageInit ==
  /\ store \in {"files", "client", "tables"}
  /\ FileInit /\ LibsqlInit /\ TablesInit
  /\ \E old \in {v1, Absent} : legacy = [f \in LegacyFiles |-> old]
  /\ store # "files" => legacy[k1] = Absent
  /\ store # "client" => ~reachesWal

StorageNext ==
  \/ AtFiles /\ FileNext
  \/ AtClient /\ LibsqlNext
  \/ AtTables /\ TablesNext

StorageSpec ==
  /\ StorageInit
  /\ [][StorageNext]_<<store, fileVars, clientVars, tablesVars>>
  /\ LibsqlFairness

StorageTypeOK == FileTypeOK /\ LibsqlTypeOK /\ TablesTypeOK
=============================================================================
