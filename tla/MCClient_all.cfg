\* Pages of 2 of lists of up to 6 items, of which 2 more may arrive and 1 be deleted;
\* 2 data centres and a late one, 1 connection and 2 commands that wait.
SPECIFICATION ClientSpec
CONSTANTS
  Kinds <- MCKinds
  Limits <- MCLimits
  Offsets <- MCOffsets
  Lengths <- MCLengths
  PageSize = 2
  MaxNew = 2
  Deletions = TRUE
  Dcs = {1, 2}
  Late = 3
  HomeDC = 1
  HasFile = {TRUE, FALSE}
  Bots = {"no", "asks", "given"}
  Conns = {c1}
  Ops = {1, 2}
  Room = 6
  MaxTokens = 3
  MaxKept = 1
  Daemon = {TRUE, FALSE}
  Given = {TRUE, FALSE}
INVARIANTS PagesJoin AllThere  RefsAreHeld LogsInOnce
PROPERTIES Ends LetsGo Starts
\* The program or the call ends.
CHECK_DEADLOCK FALSE
