SPECIFICATION Spec
CONSTANTS
  N = 3
  starting_stacks <- const_stacks
  HandCounts = {0, 1, 2, 5}
  MaxThreads = 3
  BaseSeed = 7
  Blinds = 1
  MaxWin = 1
  MaxActs = 1
INVARIANTS SeedsPartition ChipsTracked DealerHasChips ReportAgrees
CHECK_DEADLOCK FALSE
