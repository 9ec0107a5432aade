\* Three events: one of the client's own, two of others or deletions, in every
\* order; a history, a deletion, a difference and the answer under way at once.
CONSTANTS
  RandomId <- MCRandomId
  MaxId = 3
SPECIFICATION LiveSpec
\* The server stops at its bounds.
CHECK_DEADLOCK FALSE
INVARIANTS
  IndexesAgree
  GetsOwnId
  SentIsSettled
  AnnouncedOnce
PROPERTIES
  Settles
