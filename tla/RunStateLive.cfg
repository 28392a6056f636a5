\* Fair processes on a busy lock, killed at any point.
CONSTANTS
  Procs = {p1, p2}
  NoProc = NoProc
  NoSha = NoSha
  Root = c1
  Commits = {c1}
  TrackedIn = {}
  StateTrackedIn = {}
  LockTrackedIn = {}
  Requests <- AnyOutcome
SPECIFICATION FairSpec
PROPERTIES
  EveryRunEnds
  LockComesFree
