SPECIFICATION SyncSpec
CONSTANTS
  Ids = {1}
  Names = {1}
  Texts = {1, 2}
  Copies = {1, 2}
  UserCopies = {1, 2}
  FirstDocs <- OneDoc
  FirstTitle = 1
  FirstFolder = TRUE
  Overtaking = FALSE
  MaxUser = 0
  MaxApp = 1
  MaxFaults = 2
PROPERTY GoesWhenDeleted
CHECK_DEADLOCK FALSE
