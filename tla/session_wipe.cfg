CONSTANTS
  Methods = {"pairing_code"}
  MaxAttempt = 1
  MaxQueued = 2
  MaxWrites = 2
SPECIFICATION Spec
INVARIANTS LoggedOutMeansGone
CHECK_DEADLOCK FALSE
