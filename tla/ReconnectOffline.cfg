CONSTANTS
  Users = {u1}
  Handlers = {h1, h2}
  Tokens = {t1, t2}
  NoUser = NoUser
  NoHandler = NoHandler
  NoToken = NoToken
  MaxFailedAttempts = 2
  LockDuration = 1
  SharedAccounts = FALSE
  MayMistype = FALSE
  MayCrash = FALSE
SPECIFICATION Spec
INVARIANT LoggedInIsOnline
