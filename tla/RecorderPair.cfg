\* Two invocations of one category, both with the default paths.
CONSTANTS
  Procs = {p1, p2}
  c1 = c1
  c2 = c2
  c3 = c3
  Commits = {c1}
  NoSha = NoSha
  Root = c1
  TrackedIn = {}
  OutTrackedIn = {}
  Cats = {"testing"}
  Mandatory = {"testing"}
  Bound = {}
  Profiles = {"library", "saas"}
  NoProfile = "none"
  NAAllowed <- SeoMatrix
  Trees = {"t1", "t2"}
  NoTree = "no tree"
  TreeOf <- CommitTree
  ProfileFileIn = {c1}
  ProfileOf <- CommitProfile
  Slots = {1}
  Logs = {"log"}
  Requests <- RunOnly
SPECIFICATION Spec
SYMMETRY Symmetry
CONSTRAINT StaysClean
INVARIANTS
  HashesItsCapture
