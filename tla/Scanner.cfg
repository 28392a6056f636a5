\* Every disk of MCScenes.  MaxFiles 3, so that three entries pass and a fourth
\* does not; TreeCap 4 entries; a pipe of 2 units read 2 at a time.
SPECIFICATION Spec
CONSTANTS
  ErrCap = 1
  Chunk = 2
  PipeSize = 2
  MaxBytes = 2
  MaxCommits = 2
  MaxFiles = 3
  MaxTotal = 2
  MaxFindings = 3
  TreeCap = 4
  Errs = {0, 2}
  Scenes <- MCScenes
INVARIANTS WholeOrNothing FilesAreWhole HistoryIsWhole LimitsHold
PROPERTY ScanEnds
CHECK_DEADLOCK FALSE
