SPECIFICATION Spec
CONSTANTS
  NumJobs = 1
  NumDocs = 2
  Size <- MCSize
  Name <- MCName
  Embedded <- MCEmbedded
  Procs = {p1, p2}
  MaxCrashes = 2
  MaxDbErrors = 2
INVARIANTS
  OneHolderPerJob
  AnswerableIsComplete
  CancelledLeavesNothing
  BaseOutlivesItsWorker
CHECK_DEADLOCK FALSE
