SPECIFICATION FairSpec
CONSTANTS
  Players <- Two
  MaxSessions = 3
  Owner <- OneReturns
  MaxSeats = 2
  MinSeats = 2
  BigBlind = 2
  MinBuyIn = 2
  BuyIns = {1, 2}
  MaxChips = 4
  NoSeat = NoSeat
  p1 = p1
  p2 = p2
INVARIANTS TypeOK HandSeatsHeld OneSeatPerPlayer 
PROPERTIES QuorumStartsHand LeaveHonoured
CHECK_DEADLOCK FALSE
