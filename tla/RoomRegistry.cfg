SPECIFICATION FairSpec
CONSTANTS
  Rooms = {r1, r2}
  Pages = {p1}
  ListCap = 1
  MaxStarts = 2
  MaxConns = 2
CHECK_DEADLOCK FALSE
INVARIANTS TypeOK CaughtUp
PROPERTIES OverIsGone ImplementsDirectory
