\* One invocation against a checkout that moves at every point, with a commit
\* that tracks runtime state, and somebody who edits the state file without the
\* lock.
CONSTANTS
  Procs = {p1}
  NoProc = NoProc
  NoSha = NoSha
  Root = c1
  Commits = {c1, c2}
  TrackedIn = {c2}
  StateTrackedIn = {c2}
  LockTrackedIn = {c2}
  Requests <- Writers
SPECIFICATION ForeignSpec
CONSTRAINT OuterFields
PROPERTIES
  QuietAdvanceIsClean
  NoLostUpdate
