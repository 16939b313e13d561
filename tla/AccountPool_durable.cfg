SPECIFICATION Spec
CONSTANTS
  Accounts = {a1, a2}
  Chats = {k1, k2}
  Calls = {c1}
  NoAccount = noaccount
  NoChat = nochat
  Barrable = {a1, a2}
  Resets = {1}
  Cooldown = 1
  MaxTime = 1
  MaxWrites = 2
  MaxReports = 1
  MaxRestarts = 1
SYMMETRY Symmetry
INVARIANTS
  TypeOK
  RestartAgrees
  PinsDurable
CHECK_DEADLOCK FALSE
VIEW View
