CONSTANTS
  Operations = {o1}
  Runtimes = {r1, r2}
  Attempts = {1, 2, 3}
  Ttl = 2
  SharedProcess = TRUE
  Holders = {r1}
  LeaseTtl = 1
  MaxTime = 2
  MaxIssued = 3
  MaxBatches = 2
SPECIFICATION LivenessSpec
PROPERTIES EverythingSettles StopSettles LostLeaseCloses
CHECK_DEADLOCK FALSE
