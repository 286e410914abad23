CONSTANTS
  p1 = p1
  p2 = p2
  ui = ui
  here = here
  laptop = laptop
  s1 = s1
  hit = hit
  miss = miss
  review = review
  Procs = {p1, p2}
  Tuis = {ui}
  Sources = {here, laptop}
  Local = here
  Sessions = {s1}
  Alike <- MCAlike
  Refs <- MCRefs
  Bodies = {hit, miss}
  Hits = {hit}
  Tags = {review}
  MaxRows = 2
  MaxRuns = 3
  FirstNotes <- MCFirstNotes
  MaxFailures = 1
SPECIFICATION Spec
SYMMETRY MCSymmetry
INVARIANTS TypeOK StarsWrittenThrough FilterSound EditsHitTheListedNote
CHECK_DEADLOCK FALSE
