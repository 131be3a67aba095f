CONSTANTS
  Users = {u1, u2}
  FirstPlayers = {u1}
  MaxJoins = 2
  MaxAsks = 3
SPECIFICATION FairSpec
CHECK_DEADLOCK FALSE
INVARIANTS TypeOK EveryoneIsCounted
PROPERTIES OkIsUnanimous AcceptIsAnswered AgreementIsAnswered
