SPECIFICATION DbSpec
CONSTANTS
  RowIds = {1, 2}
  Edges = {e1, e2}
  LiveEdges = {e1}
  Cues = {c1}
  NullCue = NullCue
  Scores = {0, 1}
  CrashAt <- AnyStatement
  MaxCrashes = 1
INVARIANT RestartNeverRefused
CHECK_DEADLOCK FALSE
