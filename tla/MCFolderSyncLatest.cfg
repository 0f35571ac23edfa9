SPECIFICATION SyncSpec
CONSTANTS
  Ids = {1, 2, 3}
  Names = {1}
  Texts = {1, 2}
  Copies = {1, 2}
  UserCopies = {1, 2}
  FirstDocs <- TwoDocs
  FirstTitle = 1
  FirstFolder = TRUE
  Overtaking = FALSE
  MaxUser = 0
  MaxApp = 1
  MaxFaults = 1
INVARIANT LatestAlwaysWins
\* With this line for the one above: Finding 1 without a failing write.
\* PROPERTY GoesWhenDeleted
CHECK_DEADLOCK FALSE
