\* Two concurrent invocations and two commits.
CONSTANTS
  Procs = {p1, p2}
  Commits = {c1, c2}
  NoProc = NoProc
  NoSha = NoSha
  Root = c1
  TrackedIn = {}
  StateTrackedIn = {}
  LockTrackedIn = {}
  Requests <- ShaRequests
SPECIFICATION Spec
SYMMETRY Symmetry
CONSTRAINT StaysClean
INVARIANTS
  Exclusive
  AckedShaStays
PROPERTIES
  ImplementsRegister
