SPECIFICATION SyncSpec
CONSTANTS
  Ids = {1,2}
  Names = {1}
  Texts = {1}
  Copies = {1,2}
  UserCopies = {2}
  FirstDocs <- OneDoc
  FirstTitle = 1
  FirstFolder = TRUE
  Overtaking = FALSE
  MaxUser = 2
  MaxApp = 1
  MaxFaults = 1
PROPERTY GoesWithItsOwnFile
CHECK_DEADLOCK FALSE
