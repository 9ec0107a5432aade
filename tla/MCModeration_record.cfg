SPECIFICATION Spec
CONSTANTS
  us = us
  boss = boss
  ann = ann
  bob = bob
  c1 = c1
  c2 = c2
  User <- MCUser
  Us = us
  Admin <- MCAdmin
  Sudo <- MCSudo
  Support <- MCSupport
  Nameless <- MCNameless
  Chat <- MCChat
  Lock <- MCLock
  Text <- MCText
  Kind <- MCKind
  NoEntry = NoEntry
  NoView = NoView
  MaxRequests = 2
  MaxCommands = 4
SYMMETRY Symmetric
\* The bounds end it.
CHECK_DEADLOCK FALSE
INVARIANTS
  GroupsHaveEntries
  PowerIsGranted
PROPERTIES
  KicksSpareRanks
