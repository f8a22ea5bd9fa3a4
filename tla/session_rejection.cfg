CONSTANTS
  Methods = {"qr"}
  MaxAttempt = 1
  MaxQueued = 2
  MaxWrites = 1
SPECIFICATION Spec
INVARIANTS RejectionSettles
CHECK_DEADLOCK FALSE
