SPECIFICATION Spec
CONSTANTS
  h1 = h1
  h2 = h2
  h3 = h3
  h4 = h4
  Hits <- Four
  Rank <- RankFour
  MaxScore = 2
  Hidden <- OneHidden
  Limits = {1, 2}
  WatchLimit = 1
  MaxIterations = 2
  MaxShifts = 1
  NoCursor = NoCursor
  Forever = Forever
INVARIANTS TypeOK PagesInOrder NothingSkipped SkippedOnlyAtTheCut
PROPERTIES WalkEnds WatchCatchesUp
CHECK_DEADLOCK FALSE
