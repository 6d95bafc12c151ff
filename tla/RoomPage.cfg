SPECIFICATION FairSpec
CONSTANTS
  TraceCap = 1
  MaxRooms = 2
  MaxFaults = 1
  MaxVisits = 2
  MaxOther = 1
  MaxCmds = 1
CHECK_DEADLOCK FALSE
INVARIANTS TypeOK OutlookIsLastFrame PageFollowsRoom ClosedByHost HostControls TimeoutIsPending
PROPERTY WaysOn
