SPECIFICATION Spec
CONSTANTS
  NumJobs = 1
  NumDocs = 2
  Size <- MCSize
  Name <- MCName
  Embedded <- MCEmbedded
  Procs = {p1, p2}
  MaxCrashes = 1
  MaxDbErrors = 0
PROPERTY
  TerminalIsFinal
CHECK_DEADLOCK FALSE
