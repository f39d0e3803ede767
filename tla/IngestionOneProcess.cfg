SPECIFICATION FairSpec
CONSTANTS
  NumJobs = 2
  NumDocs = 2
  Size <- MCSize
  Name <- MCName
  Embedded <- MCEmbedded
  Procs = {p1}
  MaxCrashes = 1
  MaxDbErrors = 0
INVARIANTS
  TypeOK
  AnswerableIsComplete
  CancelledLeavesNothing
  PassagesComeFromTheirDocument
  ProgressIsHonest
  RunningItemIsWorkedOn
PROPERTIES
  TerminalIsFinal
  EveryUploadSettles
  ImplementsLifecycle
CHECK_DEADLOCK FALSE
