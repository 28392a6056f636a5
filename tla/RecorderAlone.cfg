\* One invocation against a checkout that moves at every point.
CONSTANTS
  Procs = {p1}
  c1 = c1
  c2 = c2
  c3 = c3
  Commits = {c1, c2, c3}
  NoSha = NoSha
  Root = c1
  TrackedIn = {c3}
  OutTrackedIn = {c3}
  Cats = {"deployment", "seo"}
  Mandatory = {"deployment"}
  Bound = {"deployment"}
  Profiles = {"library", "saas"}
  NoProfile = "none"
  NAAllowed <- SeoMatrix
  Trees = {"t1", "t2"}
  NoTree = "no tree"
  TreeOf <- CommitTree
  ProfileFileIn = {c1}
  ProfileOf <- CommitProfile
  Slots = {1, 2}
  Logs = {"log"}
  Requests <- RunAndWaive
SPECIFICATION Spec
CONSTRAINT FirstRecord
INVARIANTS
  TypeOK
PROPERTIES
  ActsOnConfirmedPlan
  RecordDescribesCheckout
