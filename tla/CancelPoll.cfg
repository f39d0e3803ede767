SPECIFICATION Spec
CONSTANTS
  NumJobs = 1
  NumDocs = 2
  Size <- MCSize
  Name <- MCName
  Embedded <- MCEmbedded
  Procs = {p1}
  MaxCrashes = 0
  MaxDbErrors = 0
PROPERTY
  PollSeesCancel
CHECK_DEADLOCK FALSE
