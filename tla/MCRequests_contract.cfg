\* The contract, with fairness, in one data centre; beside it 2 users, a group,
\* a channel and a secret chat, and 2 numbers for names.
CONSTANTS
  Query = {q1, q2}
  DC = {d1}
  HomeDC = d1
  MsgId = {1, 2, 3}
  SessionId = {1, 2, 3}
  Forced = {q2}
  Codes = {"fail"}
  Repeats = FALSE
  Pfs = FALSE
  MaxDrift = 0
  NoId = 0
  NoSession = 0
  NoQuery = NoQuery
  FirstSession <- MCFirstSession
  q1 = q1
  q2 = q2
  d1 = d1
  User <- MCUser
  Group <- MCGroup
  Channel <- MCChannel
  Secret <- MCSecret
  Partner <- MCPartner
  Title <- MCTitle
  Username <- MCUsername
  Pasts <- MCPasts
  Printed <- MCPrinted
  Bang <- MCBang
  MaxVersion = 2
  MaxAsked = 1
  MaxSuffix = 1
  NoTitle = NoTitle
  NoName = NoName
  NoUsername = NoUsername
  Empty = ""
SPECIFICATION RequestsSpec
\* The program stops when it has halted or aborted.
CHECK_DEADLOCK FALSE
INVARIANTS
  FoundByName
  FaultsAreNamed
PROPERTIES
  ImplementsContract
