CONSTANTS
  MaxDeltas = 2
  TargetChars = 2
  NumQuestions = 1
  Answers <- MCOneAnswer
  MaxOthers = 0
  MaxDbErrors = 0
SPECIFICATION Spec
INVARIANT SentIsSafe
CHECK_DEADLOCK FALSE
