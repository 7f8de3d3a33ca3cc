SPECIFICATION Spec
CONSTANTS
  TableSeats = {0, 1, 2}
  N = 3
  Me = 1
  MySeat = 1
  Actions = {"Fold", "Raise", "AllIn"}
  Short = {{}}
  Capacity = 4
  MaxHands = 1
  MaxActs = 1
  MaxConns = 2
  MaxRequests = 1
INVARIANTS ReplayPrecedesLive
CHECK_DEADLOCK FALSE
