SPECIFICATION TreeFairSpec
CONSTANTS
  N = 3
  StackSizes = {0, 3, 4, 6}
  Dealers = {0, 1}
  SmallBlind = 1
  BigBlind = 2
  Ante = 0
  Variant = "PotLimit"
  MaxDead = 1
  MinContenders = 2
  Disciplined = TRUE
  Ranks = {1, 2}
PROPERTIES ImplementsEngine TreeEnds
CHECK_DEADLOCK FALSE
