SPECIFICATION Spec
CONSTANTS
  NumJobs = 1
  NumDocs = 2
  Size <- MCSize
  Name <- CollidingName
  Embedded <- MCEmbedded
  Procs = {p1}
  MaxCrashes = 0
  MaxDbErrors = 0
INVARIANT
  PassagesComeFromTheirDocument
CHECK_DEADLOCK FALSE
