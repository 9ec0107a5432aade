\* Sessions and keys that are replaced, and requests that move between two
\* data centres, with a server that answers each message once.
CONSTANTS
  Query = {q1, q2}
  DC = {d1, d2}
  HomeDC = d1
  MsgId = {1, 2, 3}
  SessionId = {1, 2, 3}
  Forced = {q2}
  Codes = {"migrate"}
  Repeats = FALSE
  Pfs = TRUE
  MaxDrift = 0
  NoId = 0
  NoSession = 0
  NoQuery = NoQuery
  FirstSession <- MCFirstSession
  q1 = q1
  q2 = q2
  d1 = d1
  d2 = d2
SPECIFICATION Spec
\* The program stops when it has halted or aborted.
CHECK_DEADLOCK FALSE
INVARIANTS
  AckedIsRecoverable
  NotExecutedTwice
  NothingForgotten
