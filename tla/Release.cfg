\* Two builds in a row, one helper, one push by somebody else; then a tagger, two
\* attempts of the release jobs and two interventions.
CONSTANTS
  Commits = {"good", "same", "uncut", "unfit", "lacks", "other"}
  Of <- MCOf
  MaxBuilds = 2
  Helpers = {"p"}
  Heads <- MCHeads
  MaxMoves = 1
  MaxRuns = 2
  MaxMeddles = 2
SPECIFICATION MCSpec
INVARIANTS
  BranchIsPackage
  GreenIsGood
  PublicIsApproved
PROPERTIES
  PushesOnlyCreate
  PublishesItsOwn
\* Everything has ended and every bound is used up.
CHECK_DEADLOCK FALSE
