CONSTANTS
  Messages = {text, poll}
  Polls = {poll}
  Mine = {text}
  Me = Me
  Peer = Peer
  Group = Group
  NoParticipant = NoParticipant
  RecentCap = 2
  MaxEnvelopes = 3
  MaxPayload = 2
SPECIFICATION SocketSpec
INVARIANT ReactorIsTold
CHECK_DEADLOCK FALSE
