\* One category executed and one waived, by up to two files, while HEAD moves
\* and the checkout may be dirty.
CONSTANTS
  Procs = {p1}
  c1 = c1
  c2 = c2
  Commits = {c1, c2}
  NoSha = NoSha
  Root = c1
  TrackedIn = {}
  OutTrackedIn = {}
  Cats = {"testing", "seo"}
  Mandatory = {"testing"}
  Bound = {"testing"}
  Profiles = {"library", "saas"}
  NoProfile = "none"
  NAAllowed <- SeoMatrix
  Trees = {"t1"}
  NoTree = "no tree"
  TreeOf <- OneTree
  ProfileFileIn = {c1, c2}
  ProfileOf <- CommitProfile
  Slots = {1, 2, 3}
  Logs = {"log"}
  Requests <- RunAndWaive
SPECIFICATION GateSpec
CONSTRAINTS
  GateMeetsDirt
  Undisturbed
  OneSuccess
INVARIANTS
  VerdictIsContract
