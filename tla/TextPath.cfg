SPECIFICATION MCSpec
CONSTANTS
  MaxRetries = 2
  Backoff = 1
  SleepCap = 4
  Hints <- MCHints
  Words = {"x", "y"}
  Deltas <- MCDeltas
  MaxEvents = 3
  MinSize = 3
  MaxSize = 5
  RawSizes <- MCRawSizes
  RawOverlaps <- MCRawOverlaps
  Texts <- MCTexts
  PassageKinds <- MCKinds
  PassageCount = 3
  Questions <- MCQuestions
  RelationWords = {"compare"}
  ModalityWords <- MCModalityWords
  EntityWords = {"pool"}
  Similarities = {0, 150, 400}
  Floor = 200
  CitedK = 2
  DepthK = 3
  MergedK = 3
  JudgedK = 1
  ChunkCount = 3
  TermSets <- MCTermSets
  Typed = {"t", "u"}
  Expansions <- MCExpansions
  Negatives = {"f"}
  Idf <- MCIdf
  FilterLists <- MCFilters
  Setups <- MCSetups
  FamilySize = 3
  ParentChars = 8
  Lengths <- MCLengths
INVARIANTS
  StreamIsTheStrippedText
  TurnIsWhatWasShown
  ChunksCoverTheText
  BestMatchIsCited
  BestEvidenceSurvives
PROPERTY
  RetriesAreBounded
CHECK_DEADLOCK FALSE
