SPECIFICATION Spec
CONSTANTS
  Clients = {c1}
  TraceCap = 2
  Base = 4
  Mantissa = 4
  KeyWidth = 2
  MaxMsgs = 0
  MaxRooms = 3
  MaxConns = 2
  MaxNet = 1
  LiveCap = 2
  EventCap = 3
  Ts <- NoStamps
  Nonce <- NoStamps
  NetEvents <- Report
CHECK_DEADLOCK FALSE
INVARIANTS ViewFollowsRoom
