SPECIFICATION SyncSpec
CONSTANTS
  Ids = {1, 2}
  Names = {1}
  Texts = {1, 2}
  Copies = {1, 2, 3}
  UserCopies = {3}
  FirstDocs <- OneDoc
  FirstTitle = 1
  FirstFolder = TRUE
  Overtaking = FALSE
  MaxUser = 2
  MaxApp = 1
  MaxFaults = 0
INVARIANTS InStep LatestWins


CHECK_DEADLOCK FALSE
