SPECIFICATION Spec
CONSTANTS
  Clients = {c1}
  TraceCap = 2
  Base = 4
  Mantissa = 4
  KeyWidth = 2
  MaxMsgs = 2
  MaxRooms = 1
  MaxConns = 2
  MaxNet = 1
  LiveCap = 1
  EventCap = 1
  Ts <- TwoTs
  Nonce <- TwoNonce
  NetEvents <- PeerNews
CHECK_DEADLOCK FALSE
INVARIANTS TypeOK NoGap KeptInOrder NoDuplicate HistoryInOrder PillsShown
