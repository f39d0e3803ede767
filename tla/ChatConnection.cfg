CONSTANTS
  MaxDeltas = 2
  TargetChars = 2
  NumQuestions = 2
  Answers <- MCAnswers
  MaxOthers = 1
  MaxDbErrors = 1
SPECIFICATION FairSpec
INVARIANTS
  TypeOK
  FramesFollowTheProtocol
  OneAnswerAtATime
  CancelStopsNoLaterQuestion
  EndedMeansStored
  DoneIsTheWholeAnswer
PROPERTIES
  EveryQuestionEnds
  ConnectionIsReleased
CHECK_DEADLOCK FALSE
