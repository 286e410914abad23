SPECIFICATION Spec
CONSTANTS
  h1 = h1
  h2 = h2
  h3 = h3
  h4 = h4
  Hits <- Three
  Rank <- RankThree
  MaxScore = 2
  Hidden <- NoneHidden
  Limits = {1}
  WatchLimit = 1
  MaxIterations = 2
  MaxShifts = 0
  NoCursor = NoCursor
  Forever = Forever
INVARIANTS CursorsSkipNothing
CHECK_DEADLOCK FALSE
