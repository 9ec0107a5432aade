\* Limits of 2 in place of 4, 4 and 8, and a flood of 2 messages.
SPECIFICATION GuardSpec
CONSTANTS
  boss = boss
  ann = ann
  bob = bob
  c1 = c1
  c2 = c2
  old = old
  pm = pm
  User <- MCUser
  Support = {}
  Admin = {boss}
  Sudo = {}
  Owners <- MCOwners
  Whitelisted = {}
  Botlike = {bob}
  Chat <- MCChat
  Basic = {old}
  Pm = pm
  Registered = {c1, c2}
  Settings <- MCSettings
  FloodMax <- MCFloodMax
  Silenced = {}
  Orders <- MCOrders
  Messages <- MCMessages
  GbanAfter = 2
  KickAfter = 1
  BanAfter = 2
  MaxMessages = 4
  MaxLookups = 1
  MaxChanges = 1
\* The bounds end it.
CHECK_DEADLOCK FALSE
INVARIANTS
  BansAreEarned
PROPERTIES
  BannedIsNotObeyed
  RanksAreSpared
  OwnSettingWins
