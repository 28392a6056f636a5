----------------------------- MODULE ReleaseBranch -----------------------------
(* prepare-release-branch: helpers that turn the reviewed package of a build   *)
(* into one commit on top of the remote's HEAD and push it as a new branch,    *)
(* while the output directory is built again and others push.  A commit of the *)
(* remote is its tree and its parent's name; objects are never lost.           *)
EXTENDS ReleaseBuild

CONSTANTS Helpers,
          Heads,       \* commits the remote's HEAD can be at, all known
          MaxMoves     \* pushes by others

VARIABLES main, branch,            \* refs of the remote; NoCommit: absent
          helper,                  \* helper -> where it is and what it has read
          pushed,                  \* <<provenance's commit, commit pushed>>
          moves

remoteVars == <<main, branch, moves>>
branchVars == <<buildVars, remoteVars, helper, pushed>>

NoCommit == [name |-> "none", tree |-> "none", parent |-> "none"]
ASSUME HeadsAssumption == NoCommit \notin Heads /\ MaxMoves \in Nat

Candidate(head, tree) == [name |-> "candidate", tree |-> tree, parent |-> head.name]

NoHelper == [pc |-> "start", head |-> NoCommit, sums |-> "none", zip |-> "none",
             tree |-> "none", source |-> "none", commit |-> NoCommit]

BranchInit ==
  /\ BuildInit
  /\ main \in Heads /\ branch = NoCommit /\ moves = 0
  /\ helper = [p \in Helpers |-> NoHelper] /\ pushed = {}

Goes(p, from, h) ==
  /\ helper[p].pc = from /\ helper' = [helper EXCEPT ![p] = h]
  /\ UNCHANGED <<buildVars, remoteVars, pushed>>

Fails(p) == [helper[p] EXCEPT !.pc = "failed"]
On(p, then) == [helper[p] EXCEPT !.pc = then]

\* The remote HEAD must be the expected one: before the clone, after it, and
\* before the push.
BeginHelper(p, expected) ==
  Goes(p, "start", IF main = expected
                   THEN [On(p, "clone") EXCEPT !.head = expected] ELSE Fails(p))

HeadIsExpected(p, from, then) ==
  Goes(p, from, IF main = helper[p].head THEN On(p, then) ELSE Fails(p))

------------------------------------------------------------------------------
(* Expand-AndVerifyReleasePackage: five readings of files that are not locked.*)

Whole(a) == dist[a].commit \notin {"none", "torn"}

ReadSums(p) ==
  Goes(p, "sums", IF Whole("sums")
                  THEN [On(p, "hash") EXCEPT !.sums = dist["sums"].commit] ELSE Fails(p))

HashZip(p) ==
  Goes(p, "hash", IF Whole("zip") /\ dist["zip"].commit = helper[p].sums
                  THEN [On(p, "inspect") EXCEPT !.zip = dist["zip"].commit] ELSE Fails(p))

\* The archive is opened by name for its list of entries, and again to extract
\* them, so it may be another one each time; every extracted file is compared with
\* its checksum.
ListZip(p) == Goes(p, "inspect", IF Whole("zip") THEN On(p, "extract") ELSE Fails(p))

Extract(p) ==
  Goes(p, "extract",
       IF Whole("zip") /\ Of[dist["zip"].commit].tree = Of[helper[p].sums].tree
       THEN [On(p, "provenance") EXCEPT !.tree = Of[dist["zip"].commit].tree]
       ELSE Fails(p))

\* Mutant: the provenance is looked at and not compared with the archive.
BindsNothing(p) ==
  LET prov == dist["provenance"]
  IN Whole("provenance") /\ Of[prov.commit].version = "this" /\ ~prov.dirty

\* The version, the archive's digest, a clean source, and the staged tree.
Binds(p) ==
  LET prov == dist["provenance"]
  IN /\ Whole("provenance") /\ Of[prov.commit].version = "this" /\ ~prov.dirty
     /\ prov.commit = helper[p].zip /\ Of[prov.commit].tree = helper[p].tree

ReadProvenance(p) ==
  Goes(p, "provenance",
       IF Binds(p) THEN [On(p, "commit") EXCEPT !.source = dist["provenance"].commit]
       ELSE Fails(p))

------------------------------------------------------------------------------
(* The commit and its push.                                                  *)

\* The clone's files are replaced; an empty difference is refused.  The blobs of
\* the commit are archived and compared once more.
CommitCandidate(p) ==
  Goes(p, "commit",
       IF helper[p].tree = helper[p].head.tree THEN Fails(p)
       ELSE [On(p, "head again") EXCEPT
               !.commit = Candidate(helper[p].head, helper[p].tree)])

IsAbsent(p) ==
  Goes(p, "absent", IF branch = NoCommit THEN On(p, "push") ELSE Fails(p))

Pushed(p, then) ==
  /\ branch' = helper[p].commit
  /\ pushed' = pushed \cup {<<helper[p].source, helper[p].commit>>}
  /\ helper' = [helper EXCEPT ![p] = On(p, then)]

Rejected(p) == helper' = [helper EXCEPT ![p] = Fails(p)] /\ UNCHANGED <<branch, pushed>>

\* Mutant: the push is a forced one.
PushForced(p) ==
  /\ helper[p].pc = "push"
  /\ Pushed(p, "verify") \/ Pushed(p, "failed")
  /\ UNCHANGED <<buildVars, main, moves>>

\* --force-with-lease with an empty value: the ref must not exist.  The answer
\* can be lost after the ref was made.
Push(p) ==
  /\ helper[p].pc = "push"
  /\ IF branch = NoCommit THEN Pushed(p, "verify") \/ Pushed(p, "failed") ELSE Rejected(p)
  /\ UNCHANGED <<buildVars, main, moves>>

VerifyBranch(p) ==
  Goes(p, "verify", IF branch = helper[p].commit THEN On(p, "done") ELSE Fails(p))

\* git, the network, the disk, PowerShell: every step can throw.
HelperDies(p) ==
  Goes(p, helper[p].pc, Fails(p)) /\ helper[p].pc \notin {"done", "failed"}

HelperStep(p) ==
  \/ \E m \in Heads : BeginHelper(p, m)
  \/ Goes(p, "clone", On(p, "head")) \/ HeadIsExpected(p, "head", "sums")
  \/ ReadSums(p) \/ HashZip(p) \/ ListZip(p) \/ Extract(p) \/ ReadProvenance(p)
  \/ CommitCandidate(p)
  \/ HeadIsExpected(p, "head again", "absent") \/ IsAbsent(p) \/ Push(p)
  \/ VerifyBranch(p) \/ HelperDies(p)

\* Others push to the default branch, or make, move or delete the review branch.
OthersPush ==
  /\ moves < MaxMoves /\ moves' = moves + 1
  /\ \/ main' \in Heads \ {main} /\ UNCHANGED branch
     \/ branch' \in (Heads \cup {NoCommit}) \ {branch} /\ UNCHANGED main
  /\ UNCHANGED <<buildVars, helper, pushed>>

BranchNext ==
  \/ \E p \in Helpers : HelperStep(p)
  \/ OthersPush
  \/ BuildStep /\ UNCHANGED <<remoteVars, helper, pushed>>

Spec == BranchInit /\ [][BranchNext]_branchVars

------------------------------------------------------------------------------
(* Properties.                                                               *)

BranchTypeOK ==
  /\ main \in Heads /\ branch.tree \in {"none"} \cup {m.tree : m \in Heads}
                                       \cup {Of[c].tree : c \in Commits}
  /\ \A a \in Artifacts : dist[a].commit \in Commits \cup {"none", "torn"}
  /\ clean \subseteq Commits /\ builds \in 0..MaxBuilds /\ moves \in 0..MaxMoves
  /\ \A p \in Helpers : helper[p].sums \in Commits \cup {"none"}
                        /\ helper[p].zip \in {"none", helper[p].sums}

\* A commit that a helper puts on the review branch holds exactly the tree of one
\* commit of the source, of the version being released, whose build found its
\* worktree clean; however builds that failed, were killed or are still running
\* have mixed their files in the output directory.
BranchIsPackage ==
  \A x \in pushed : /\ x[1] \in clean /\ Of[x[1]].version = "this"
                    /\ x[2].tree = Of[x[1]].tree

\* A helper never changes a review branch that exists, whoever made it and
\* whenever: its push only creates the branch.
NeverOverwrites == [][pushed' # pushed => branch = NoCommit]_branchVars
==============================================================================
