CONSTANTS
  u1 = u1
  u2 = u2
  u3 = u3
  Users = {u1, u2, u3}
  FirstQueue <- MCFirstQueue
  Leavers = {u3}
  Timer = timer
  Room <- MCRoom
  NoThread = none
  Buffer = 1
  MaxAsks = 2
  MaxTimers = 1
SPECIFICATION FairSpec
CHECK_DEADLOCK FALSE
INVARIANTS TypeOK SameOrder
PROPERTIES EveryMessageArrives
