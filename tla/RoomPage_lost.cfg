SPECIFICATION Spec
CONSTANTS
  TraceCap = 1
  MaxRooms = 1
  MaxFaults = 0
  MaxVisits = 2
  MaxOther = 0
  MaxCmds = 2
CHECK_DEADLOCK FALSE
INVARIANT RoomEndsOnPurpose
