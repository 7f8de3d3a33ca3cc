SPECIFICATION Spec
CONSTANTS
  TableSeats = {0, 1, 2}
  N = 3
  Me = 1
  MySeat = 1
  Actions = {"Fold", "Raise", "AllIn"}
  Short = {{}, {1}, {0, 1, 2}}
  Capacity = 4
  MaxHands = 1
  MaxActs = 1
  MaxConns = 2
  MaxRequests = 1
INVARIANTS ReplayRebuilds MyTurnIsShown CardsPrivate
CHECK_DEADLOCK FALSE
