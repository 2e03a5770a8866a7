SPECIFICATION ServicesSpec
CONSTANTS
  Workers = {w1, w2}
  MaxJobs = 2
  RetryLimits = {0, 3}
  MaxCancels = 2
  MaxDeaths = 1
  Askers = {a1, a2}
  Widths = {2, 3}
  Sizes = {0, 1, 5, 6, 7}
  Chunks = 2
  MaxMishaps = 1
  RowIds = {1, 2}
  Edges = {e1, e2}
  LiveEdges = {e1}
  Cues = {c1}
  NullCue = NullCue
  Scores = {0, 1}
  CrashAt <- NotBetweenTables
  MaxCrashes = 1
  Builders = {b1}
  Slots <- TwoAnalyzers
  Outputs <- TwoOutputs
  Missing = Missing
  MaxNow = 2
  MaxRuns = 2
  MaxClaims = 2
  MaxDeletes = 1
  MaxRefreshes = 2
  MaxChanges = 2
  FromCues <- ManyCues
  FromDurations = {0, 4, 40, 70, 200}
  ToCues <- TwoCues
  Rooms = {0, 1, 20, 200}
  Ratios <- AtOddTempi
INVARIANTS
  ServicesTypeOK AttemptsBounded OneWorkerPerJob
  AnswersAsAsked PeaksFit
  ServesPresentShape CandidatesKept
  ForcedBuildIsCurrent BrokenProvenanceIsStale LabelledRunWasDecided
  TimingFits
PROPERTIES
  JobsEnd
  ShownNeverGoesBack NewestRefreshCounts
CHECK_DEADLOCK FALSE
