CONSTANTS
  Holders = {r1, r2}
  LeaseTtl = 1
  MaxTime = 1
  MaxIssued = 2
  MaxBatches = 1
SPECIFICATION AccountSpec
INVARIANTS HeldIsRemembered NothingIsLeft DeathIsVisible
PROPERTIES SuccessorIsFenced
SYMMETRY Symmetric
CHECK_DEADLOCK FALSE
