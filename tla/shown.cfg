CONSTANTS
  Addresses = {pn, lid}
  Kinds = {available, composing}
  NoKind = NoKind
  Listeners = 2
  Freshness = 2
  LeaseTime = 1
  MaxClock = 2
  MaxFrames = 2
  MaxDepth = 2
  LastSend = 2
  MaxSnapshots = 1
  WebChats = {w1, w2}
  NoWebChat = NoWebChat
  WebCommands = {m1}
  MaxAnnounced = 4
SPECIFICATION ShownSpec
INVARIANTS LatestTruthIsSaid OneBurstOneValue EverySendIsShownOnce
PROPERTIES ViewNeverGoesBack
SYMMETRY Symmetric
CHECK_DEADLOCK FALSE
