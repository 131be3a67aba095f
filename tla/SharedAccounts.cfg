CONSTANTS
  Users = {u1}
  Handlers = {h1, h2}
  Tokens = {t1, t2}
  NoUser = NoUser
  NoHandler = NoHandler
  NoToken = NoToken
  MaxFailedAttempts = 2
  LockDuration = 1
  SharedAccounts = TRUE
  MayMistype = TRUE
  MayCrash = FALSE
SPECIFICATION FairSpec
INVARIANTS TypeOK SessionHasOwner ThresholdIsEnforced OvershootBounded
PROPERTIES SessionsDrain FailuresLock
