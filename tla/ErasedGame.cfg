CONSTANTS
  Joined <- MCJoined
  QuestionCount = 3
  PerRound = 2
  StableSize = 16
  MaxScore = 20
SPECIFICATION Spec
CHECK_DEADLOCK FALSE
INVARIANTS UpdatesExistingGame
