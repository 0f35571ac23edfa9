SPECIFICATION SyncSpec
CONSTANTS
  Ids = {1}
  Names = {1}
  Texts = {1, 2}
  Copies = {1, 2}
  UserCopies = {1, 2}
  FirstDocs <- OneDoc
  FirstTitle = 1
  FirstFolder = TRUE
  Overtaking = TRUE
  MaxUser = 1
  MaxApp = 1
  MaxFaults = 0
PROPERTY OthersKept
CHECK_DEADLOCK FALSE
