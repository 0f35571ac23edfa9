SPECIFICATION SyncSpec
CONSTANTS
  Ids = {1}
  Names = {1}
  Texts = {1, 2}
  Copies = {1}
  UserCopies = {1}
  FirstDocs <- OneDoc
  FirstTitle = 1
  FirstFolder = TRUE
  Overtaking = FALSE
  MaxUser = 1
  MaxApp = 1
  MaxFaults = 0
INVARIANT RenamesKept
CHECK_DEADLOCK FALSE
