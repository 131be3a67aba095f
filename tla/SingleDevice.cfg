CONSTANTS
  Users = {u1, u2}
  Handlers = {h1, h2, h3}
  Tokens = {t1, t2, t3, t4, t5}
  NoUser = NoUser
  NoHandler = NoHandler
  NoToken = NoToken
  MaxFailedAttempts = 3
  LockDuration = 1
  SharedAccounts = FALSE
  MayMistype = FALSE
  MayCrash = TRUE
SPECIFICATION Spec
SYMMETRY Symmetry
INVARIANTS SessionsDoNotPileUp TokenStaysValid NoDanglingRegistration
PROPERTY ImplementsLogin
