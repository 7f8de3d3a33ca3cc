SPECIFICATION Spec
CONSTANTS
  N = 4
  StackSizes = {3, 6}
  Dealers = {1}
  SmallBlind = 1
  BigBlind = 2
  Ante = 1
  Variant = "FixedLimit"
  MaxDead = 1
  MinContenders = 2
  Disciplined = FALSE
  Ranks = {1, 2}
INVARIANTS ChipsConserved SidePotsCapped
CHECK_DEADLOCK FALSE
