CONSTANTS
  Operations = {o1, o2}
  Runtimes = {r1, r2}
  Attempts = {1, 2, 3, 4}
  Ttl = 2
  SharedProcess = FALSE
SPECIFICATION Spec
INVARIANTS AtMostOneInvocation ReceiptTellsTheTruth
PROPERTIES ImplementsReceipt
SYMMETRY Symmetric
CHECK_DEADLOCK FALSE
