SPECIFICATION MCSpec
CONSTANTS
  a = a
  b = b
  i = i
  v = v
  g = g
  s = s
  p1 = p1
  p2 = p2
  tasks = tasks
  notes = notes
  app = app
  sha = sha
  rec = rec
  cat = cat
  build = build
  finalize = finalize
  ready = ready
  merge = merge
  tree1 = tree1
  tree2 = tree2
  None = None
  Unknown = Unknown
  Seats = {a, b, i, v, g, s}
  Stages = 4
  Profiles = {p1, p2}
  Categories = {cat}
  Memory = {tasks, notes}
  Code = {app}
  RunStateFile = sha
  Record <- NoRecord
  Commands = {build, finalize, ready, merge}
  Implicit <- NoImplicit
  ManualCommands = {finalize}
  ProductionReady = ready
  FinalizeEvidence = finalize
  Worktrees = {tree1, tree2}
  Folders = {}
  MaxLaps = 1
INVARIANTS
  DisjointWork
  GateIsLast
  FreezeHoldsDownstream
  EvidenceIsFinal
  VerifiersSeeIntegration
  LossIsExplained
CHECK_DEADLOCK FALSE
