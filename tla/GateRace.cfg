\* Recorders that write while the gate reads and HEAD moves.
CONSTANTS
  Procs = {p1}
  c1 = c1
  c2 = c2
  Commits = {c1, c2}
  NoSha = NoSha
  Root = c1
  TrackedIn = {}
  OutTrackedIn = {}
  Cats = {"testing"}
  Mandatory = {"testing"}
  Bound = {}
  Profiles = {"library", "saas"}
  NoProfile = "none"
  NAAllowed <- SeoMatrix
  Trees = {"t1"}
  NoTree = "no tree"
  TreeOf <- OneTree
  ProfileFileIn = {c1, c2}
  ProfileOf <- OneProfile
  Slots = {1}
  Logs = {"log"}
  Requests <- OneCategory
SPECIFICATION GateSpec
CONSTRAINTS
  StaysClean
  OneGate
INVARIANTS
  PassIsEarned
  AcceptedArtifactShowsIt
