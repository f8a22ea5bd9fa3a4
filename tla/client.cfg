CONSTANTS
  Newest = 3
  PageSize = 2
  MaxRevision = 4
  Batches <- MCBatches
  o1 = o1
  c1 = c1
  c2 = c2
  c3 = c3
  image = image
  text = text
  NoContent = NoContent
  Operations = {o1}
  Calls = {c1, c2, c3}
  Writers = {c1, c2}
  Contents = {image, text}
  OperationOf <- MCOperationOf
  ContentOf <- MCContentOf
  Objects <- MCObjects
  MaxCalls = 2
  MaxCrashes = 1
SPECIFICATION ClientSpec
INVARIANTS ViewIsARevision NeverBehind NoHole NothingMissed MediaOutlivesPower
PROPERTIES CatchesUp ClosureIsHeard WaitSettles
CHECK_DEADLOCK FALSE
