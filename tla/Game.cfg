CONSTANTS
  Joined <- MCJoined
  QuestionCount = 4
  PerRound = 2
  StableSize = 16
  MaxScore = 20
SPECIFICATION FairSpec
CHECK_DEADLOCK FALSE
INVARIANTS TypeOK FinalistsLead WinnerIsEntitled
PROPERTIES FirstRoundWaits MatchEnds
