\* A process group or a job, two children, every limit and every signal, fair
\* threads.
CONSTANTS
  Leader = leader
  Children = {c1, c2}
  Streams = {out}
  Limit = 1
  Capacity = 2
  MaxOutput = 3
SPECIFICATION FairSpec
INVARIANTS
  CaptureIsComplete
  ContainerIsEmpty
  SuccessWasUndisturbed
  CommandIsInJob
PROPERTIES
  AlwaysReturns
  WritersNeverStick
  ContainerDies
CHECK_DEADLOCK FALSE
