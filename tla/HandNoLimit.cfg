SPECIFICATION FairSpec
CONSTANTS
  N = 3
  StackSizes = {0, 1, 2, 3, 4, 6}
  Dealers = {0, 2}
  SmallBlind = 1
  BigBlind = 2
  Ante = 0
  Variant = "NoLimit"
  MaxDead = 1
  MinContenders = 2
  Disciplined = TRUE
  Ranks = {1, 2, 3}
INVARIANTS TypeOK SeatAccounting PotAccounting ChipsConserved ContestedAwardIsPosts ContendersMatched ShowdownFair BetsCovered
PROPERTIES ReopensOnFullRaise HandEnds
CHECK_DEADLOCK FALSE
