CONSTANTS
  Methods = {"qr", "pairing_code"}
  MaxAttempt = 1
  MaxQueued = 2
  MaxWrites = 2
  text = text
  poll = poll
  Messages = {text, poll}
  Polls = {poll}
  Mine = {text}
  Me = Me
  Peer = Peer
  Group = Group
  NoParticipant = NoParticipant
  RecentCap = 2
  MaxEnvelopes = 3
  MaxPayload = 2
SPECIFICATION LayersSpec
INVARIANTS StoppedMeansQuiet OneWriter 
PROPERTIES FinalIsFinal HandlerFailureWins StopSettles LossIsNoticed
CHECK_DEADLOCK FALSE
