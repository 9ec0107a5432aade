\* Containers numbered with seq, whose updates may be dropped one by one, and
\* short pushes that overtake them; any of them may be lost.
CONSTANTS
  MaxPts = 2
  MaxQts = 1
  MaxSeq = 3
  MaxCount = 1
  MaxRestarts = 0
  Kinds = {"updates", "combined", "short"}
  Strangers = {}
  Errors = FALSE
SPECIFICATION LiveSpec
\* The program stops when it has failed, and the server at its bounds.
CHECK_DEADLOCK FALSE
INVARIANTS
  SeqCovers
PROPERTIES
  CatchesUp
