SPECIFICATION FairSpec
CONSTANTS
  TableSeats = {0, 1}
  MaxConns = 2
  MaxIntents = 4
  MaxPushes = 1
  Capacity = 1
INVARIANTS SeatedIsConnected ViewAgrees
PROPERTIES LostIsNoticed
CHECK_DEADLOCK FALSE
