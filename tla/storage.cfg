CONSTANTS
  k1 = k1
  k2 = k2
  v1 = v1
  v2 = v2
  b1 = b1
  b2 = b2
  b3 = b3
  p1 = p1
  p2 = p2
  Keys = {k1, k2}
  Values = {v1, v2}
  Absent = Absent
  Unset = Unset
  LegacyOf <- MCLegacyOf
  Callers = {c1, c2}
  Batches <- MCBatches
  MaxCrashes = 1
  Clients = {b1, b2, b3}
  ProcessOf <- MCProcessOf
  MaxCalls = 2
  Holders = {h1, h2}
  Nobody = Nobody
  LeaseTtl = 1
  MaxTime = 2
  MaxIssued = 2
  MaxBatches = 2
SPECIFICATION StorageSpec
INVARIANTS NobodyBlocksItsOwnProcess CloseOutlivesWork
PROPERTIES ImplementsCredentials ImplementsBackend EverythingReturns
CHECK_DEADLOCK FALSE
