\* Two messages in one direction, so that they can change places, one in the
\* other, and one fault: a restart, requests out of order, updates repeated or
\* before an answer.
CONSTANTS
  MaxMessages <- OneTwo
  MaxFaults = 1
  MaxCrashes = 1
  AutoAccept = TRUE
  Faults = {"reorder", "overtake", "repeat", "absent", "refuse", "crash"}
SPECIFICATION Spec
\* The chat is discarded or the bound on the messages reached.
CHECK_DEADLOCK FALSE
INVARIANTS
  HeardInOrder
  ReadyHasKey
  NeverAhead
