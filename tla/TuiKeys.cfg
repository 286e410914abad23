SPECIFICATION Spec
CONSTANTS
  Count = 3
  MaxQuery = 2
  MaxProject = 1
  MaxChan = 1
  MaxStars = 1
  Hits <- SomeHits
  Failed = Failed
  Rows <- SomeRows
  HiddenBy <- NothingHidden
  InProject <- SomeProject
  Having <- SomeHaving
  Readable <- SomeReadable
  CacheSize = 1
  HybridAvailable = TRUE
INVARIANTS TypeOK ListIsCurrent BrowseHasFocus
PROPERTIES ReadingStable
