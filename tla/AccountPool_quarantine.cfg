SPECIFICATION Spec
CONSTANTS
  Accounts = {a1, a2}
  Chats = {k1}
  Calls = {c1, c2}
  NoAccount = noaccount
  NoChat = nochat
  Barrable = {}
  Resets = {1}
  Cooldown = 1
  MaxTime = 1
  MaxWrites = 2
  MaxReports = 2
  MaxRestarts = 0
PROPERTY QuarantineHolds
CHECK_DEADLOCK FALSE
