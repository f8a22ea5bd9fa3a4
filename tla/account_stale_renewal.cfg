CONSTANTS
  Holders = {r1}
  LeaseTtl = 1
  MaxTime = 1
  MaxIssued = 2
  MaxBatches = 1
SPECIFICATION AccountSpec
PROPERTIES StaleRenewalIsIgnored
CHECK_DEADLOCK FALSE
