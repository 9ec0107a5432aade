\* The refinement of the abstract stream: single pushes and answers that carry
\* pts, gaps of one and two numbers, failing requests, a restart.
CONSTANTS
  MaxPts = 3
  MaxQts = 0
  MaxSeq = 0
  MaxCount = 2
  MaxRestarts = 1
  Kinds = {"message", "sent", "affected", "too_long"}
  Strangers = {"message", "sent"}
  Errors = TRUE
SPECIFICATION Spec
\* The program stops when it has failed, and the server at its bounds.
CHECK_DEADLOCK FALSE
INVARIANTS
  NothingLost
PROPERTIES
  StreamSpec
