SPECIFICATION Spec
CONSTANTS
  Accounts = {a1, a2}
  Chats = {k1}
  Calls = {c1}
  NoAccount = noaccount
  NoChat = nochat
  Barrable = {}
  Resets = {1}
  Cooldown = 1
  MaxTime = 1
  MaxWrites = 2
  MaxReports = 1
  MaxRestarts = 0
INVARIANT ConversationAtHome
CHECK_DEADLOCK FALSE
