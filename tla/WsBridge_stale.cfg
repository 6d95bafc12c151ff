SPECIFICATION Spec
CONSTANTS
  Clients = {c1}
  TraceCap = 2
  Base = 4
  Mantissa = 4
  KeyWidth = 2
  MaxMsgs = 1
  MaxRooms = 2
  MaxConns = 2
  MaxNet = 0
  LiveCap = 2
  EventCap = 3
  Ts <- OneTs
  Nonce <- OneNonce
  NetEvents <- Report
CHECK_DEADLOCK FALSE
INVARIANT NoGap
