SPECIFICATION Spec
CONSTANTS
  Users = {u1, u2}
  MaxConns = 4
  HandSeats = 2
  MaxHands = 1
SYMMETRY Permuted
INVARIANTS TypeOK LiveSessionIsNewest DriverIsOnline NoGhostPresence HandsWhole
PROPERTIES EntryNeverGoesBack
CHECK_DEADLOCK FALSE
