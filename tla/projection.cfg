CONSTANTS
  NativeIds = {a1, a2, a3}
  Nobody = Nobody
  Profiles = {p1}
  NoProfile = NoProfile
  MaxInstant = 3
  LastInstant = 3
  Texts = {"t1"}
  Options = {"x1"}
  People = {"u1", "u2"}
  Readers = {"r1"}
  Roles = {"member"}
  Emojis = {"e1"}
  Subjects = {"s1"}
  MaxBatch = 2
  MaxPending = 2
SPECIFICATION LogSpec
INVARIANTS OneOwner FollowerIsCurrent ReplayReachesTheMirror LateMessageLosesNothing
PROPERTIES ImplementsResolution NothingComesBack
CONSTRAINT OnePart
SYMMETRY Symmetric
CHECK_DEADLOCK FALSE
