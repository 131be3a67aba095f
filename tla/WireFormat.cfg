CONSTANTS
  KeyOrder <- MCKeyOrder
  Typed <- MCTyped
  Names <- MCNames
  ServerBuffer = 26
  ClientBuffer = 22
  MaxCuts = 1
  MaxRequests = 3
SPECIFICATION Spec
CHECK_DEADLOCK FALSE
INVARIANTS RequestArrives AnswersMatch CarriedOutInOrder WaitIsServed
