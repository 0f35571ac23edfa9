SPECIFICATION FairSpec
CONSTANTS
  Ids = {1, 2, 3}
  Names = {1}
  Texts = {1, 2}
  Copies = {1, 2, 3, 4}
  UserCopies = {3}
  FirstDocs <- TwoDocs
  FirstTitle = 1
  FirstFolder = TRUE
  Overtaking = FALSE
  MaxUser = 1
  MaxApp = 1
  MaxFaults = 1
INVARIANTS InStep LatestWins
PROPERTIES OthersKept Settles
CHECK_DEADLOCK FALSE
