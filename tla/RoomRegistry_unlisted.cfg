SPECIFICATION FairSpec
CONSTANTS
  Rooms = {r1}
  Pages = {p1}
  ListCap = 1
  MaxStarts = 2
  MaxConns = 2
CHECK_DEADLOCK FALSE
PROPERTY AliveIsListed
