----------------------------- MODULE ReleaseProofs -----------------------------
(* Theorems about the release tools, for every set of commits, any number of   *)
(* builds, helpers and runs and any amount of meddling: what the helpers push, *)
(* what a green run stands for, and what becomes public.                       *)
EXTENDS ReleaseTag, TLAPS

(* The invariants need of a record only that it has its fields.                *)
BuildShape ==
  DOMAIN build = {"pc", "commit", "dirty", "allow"} /\ build.dirty \in BOOLEAN
HelperShape(h) ==
  DOMAIN h = {"pc", "head", "sums", "zip", "tree", "source", "commit"}

------------------------------------------------------------------------------
(* The review branch.                                                        *)

\* A provenance file that says "clean" names a commit a build found clean.
ProvenanceIsTrue ==
  /\ DOMAIN dist = Artifacts
  /\ BuildShape
  /\ build.pc \notin {"idle", "measure"} /\ build.dirty = FALSE =>
       build.commit \in clean
  /\ dist["provenance"].dirty \in BOOLEAN
  /\ Whole("provenance") /\ dist["provenance"].dirty = FALSE =>
       dist["provenance"].commit \in clean

\* A helper that has compared a provenance with its package.
Bound == {"commit", "head again", "absent", "push", "verify"}
HelperIsBound(p) ==
  LET h == helper[p]
  IN /\ HelperShape(h)
     /\ h.pc \in Bound => /\ h.source \in clean /\ Of[h.source].version = "this"
                          /\ h.tree = Of[h.source].tree
     /\ h.pc \in Bound \ {"commit"} => h.commit.tree = h.tree

BranchInv ==
  /\ ProvenanceIsTrue
  /\ DOMAIN helper = Helpers /\ \A p \in Helpers : HelperIsBound(p)
  /\ BranchIsPackage

\* The fields of the fixed records.
LEMMA FixedRecords ==
  /\ NoFile.commit = "none" /\ NoFile.dirty = FALSE
  /\ Torn.commit = "torn" /\ Torn.dirty = FALSE
  /\ DOMAIN NoBuild = {"pc", "commit", "dirty", "allow"}
  /\ NoBuild.pc = "idle" /\ NoBuild.dirty = FALSE
BY DEF NoFile, Torn, NoBuild

\* The release begins with no branch.
LEMMA BranchInvInit == BranchInit => BranchInv
<1> SUFFICES ASSUME BranchInit PROVE BranchInv
  OBVIOUS
<1>1. ProvenanceIsTrue
  <2>1. DOMAIN dist = Artifacts /\ dist["provenance"] = NoFile
    BY DEF BranchInit, BuildInit, Artifacts
  <2>2. build = NoBuild
    BY DEF BranchInit, BuildInit
  <2>3. BuildShape /\ build.pc = "idle"
    BY <2>2, FixedRecords DEF BuildShape
  <2>4. dist["provenance"].dirty \in BOOLEAN /\ ~Whole("provenance")
    BY <2>1, FixedRecords DEF Whole
  <2> QED BY <2>1, <2>3, <2>4 DEF ProvenanceIsTrue
<1>2. DOMAIN helper = Helpers /\ \A p \in Helpers : helper[p] = NoHelper
  BY DEF BranchInit
<1>3. HelperShape(NoHelper) /\ NoHelper.pc = "start"
  BY DEF HelperShape, NoHelper
<1> QED BY <1>1, <1>2, <1>3 DEF BranchInv, HelperIsBound, Bound, BranchIsPackage, BranchInit

\* Opening or filling a file of the output directory.
Stages == {"open zip", "fill zip", "inspect", "open sums", "fill sums", "metadata",
           "open sbom", "fill sbom", "open last", "fill last", "exit"}
StaysTrue == ProvenanceIsTrue' /\ clean \subseteq clean'

\* Writing one artifact leaves true what the build records of itself.
LEMMA FileKeeps ==
  ASSUME ProvenanceIsTrue, NEW a \in Artifacts, NEW at \in Stages, NEW then \in Stages,
         OpenFile(a, at, then) \/ Fill(a, at, then)
  PROVE  StaysTrue
<1> USE DEF ProvenanceIsTrue, BuildShape, Whole, Stages
<1>1. /\ build.pc \notin {"idle", "measure"} /\ clean' = clean
      /\ build'.dirty = build.dirty /\ build'.commit = build.commit
      /\ build'.pc = then /\ BuildShape'
  BY DEF OpenFile, Fill
<1>2. DOMAIN dist' = Artifacts
  BY DEF OpenFile, Fill, Put
<1>3. \/ dist'["provenance"] = dist["provenance"]
      \/ dist'["provenance"] = Torn
      \/ /\ dist'["provenance"].commit = build.commit
         /\ dist'["provenance"].dirty = build.dirty
  <2>1. CASE OpenFile(a, at, then)
    BY <2>1 DEF OpenFile, Put, Artifacts
  <2>2. CASE Fill(a, at, then) /\ a # "provenance"
    BY <2>2 DEF Fill, Put, Artifacts
  <2>3. CASE Fill(a, at, then) /\ a = "provenance"
    <3> DEFINE file == [commit |-> build.commit, dirty |-> build.dirty]
    <3>1. file.commit = build.commit /\ file.dirty = build.dirty
      OBVIOUS
    <3>2. dist' = dist \/ dist' = [dist EXCEPT !["provenance"] = file]
      BY <2>3 DEF Fill, Put
    <3> HIDE DEF file
    <3> QED BY <3>1, <3>2 DEF Artifacts
  <2> QED BY <2>1, <2>2, <2>3
<1>5. /\ dist'["provenance"].dirty \in BOOLEAN
      /\ Whole("provenance")' /\ dist'["provenance"].dirty = FALSE =>
           dist'["provenance"].commit \in clean
  <2>1. CASE dist'["provenance"] = dist["provenance"]
    BY <1>1, <2>1
  <2>2. CASE dist'["provenance"] = Torn
    BY <2>2, FixedRecords
  <2>3. CASE /\ dist'["provenance"].commit = build.commit
             /\ dist'["provenance"].dirty = build.dirty
    BY <1>1, <2>3
  <2> QED BY <1>3, <2>1, <2>2, <2>3
<1> QED BY <1>1, <1>2, <1>5 DEF StaysTrue

\* A build only adds to the clean commits, and its provenance is true.
LEMMA BuildKeeps ==
  ASSUME ProvenanceIsTrue, BuildStep PROVE StaysTrue
<1>1. ASSUME NEW c \in Commits, NEW allow \in BOOLEAN, Resolve(c, allow)
      PROVE  StaysTrue
  BY <1>1 DEF Resolve, NoBuild, ProvenanceIsTrue, BuildShape, Whole, StaysTrue
<1>2. ASSUME NEW dirty \in BOOLEAN, Measure(dirty)
      PROVE  StaysTrue
  BY <1>2 DEF Measure, NoBuild, ProvenanceIsTrue, BuildShape, Whole, StaysTrue
<1>3. CASE Inspect
  <2>1. /\ clean' = clean /\ BuildShape'
        /\ \/ build'.pc = "idle"
           \/ /\ build'.dirty = build.dirty /\ build'.commit = build.commit
              /\ build.pc = "inspect"
    <3>1. CASE build' = NoBuild
      BY <1>3, <3>1, FixedRecords DEF Inspect, BuildShape
    <3>2. CASE build' = [build EXCEPT !.pc = "open sums"]
      BY <1>3, <3>2 DEF Inspect, ProvenanceIsTrue, BuildShape
    <3> QED BY <1>3, <3>1, <3>2 DEF Inspect
  <2>2. DOMAIN dist' = Artifacts /\ dist'["provenance"] = dist["provenance"]
    BY <1>3 DEF Inspect, Put, Artifacts, ProvenanceIsTrue
  <2> QED BY <2>1, <2>2 DEF ProvenanceIsTrue, Whole, StaysTrue
<1>4. CASE JudgeMetadata \/ Exit0 \/ BuildDies
  <2>1. dist' = dist /\ clean' = clean
    BY <1>4 DEF JudgeMetadata, Exit0, BuildDies
  <2>2. CASE build' = NoBuild
    BY <2>1, <2>2, FixedRecords DEF ProvenanceIsTrue, BuildShape, Whole, StaysTrue
  <2>3. CASE build.pc = "metadata" /\ build' = [build EXCEPT !.pc = "open sbom"]
    BY <2>1, <2>3 DEF ProvenanceIsTrue, BuildShape, Whole, StaysTrue
  <2> QED BY <1>4, <2>2, <2>3 DEF JudgeMetadata, Exit0, BuildDies
<1>5. CASE Files
  <2> USE DEF Stages, Artifacts
  <2>1. CASE OpenFile("zip", "open zip", "fill zip") BY <2>1, FileKeeps
  <2>2. CASE Fill("zip", "fill zip", "inspect") BY <2>2, FileKeeps
  <2>3. CASE OpenFile("sums", "open sums", "fill sums") BY <2>3, FileKeeps
  <2>4. CASE Fill("sums", "fill sums", "metadata") BY <2>4, FileKeeps
  <2>5. CASE OpenFile("sbom", "open sbom", "fill sbom") BY <2>5, FileKeeps
  <2>6. CASE Fill("sbom", "fill sbom", "open last") BY <2>6, FileKeeps
  <2>7. CASE OpenFile("provenance", "open last", "fill last") BY <2>7, FileKeeps
  <2>8. CASE Fill("provenance", "fill last", "exit") BY <2>8, FileKeeps
  <2> QED
    BY <1>3, <1>4, <1>5, <2>1, <2>2, <2>3, <2>4, <2>5, <2>6, <2>7, <2>8 DEF Files
<1> QED BY <1>1, <1>2, <1>4, <1>5 DEF BuildStep

\* A step of one helper, on what the build has left.
LEMMA HelperKeeps ==
  ASSUME BranchInv, NEW p \in Helpers, HelperStep(p) PROVE BranchInv'
<1> USE DEF BranchInv
<1>1. ASSUME NEW from, NEW h, Goes(p, from, h), HelperShape(h),
             h.pc \in Bound => /\ h.source \in clean /\ Of[h.source].version = "this"
                               /\ h.tree = Of[h.source].tree,
             h.pc \in Bound \ {"commit"} => h.commit.tree = h.tree
      PROVE  BranchInv'
  <2>1. /\ UNCHANGED <<dist, build, clean, pushed>>
        /\ helper' = [helper EXCEPT ![p] = h]
    BY <1>1 DEF Goes, buildVars
  <2>2. ProvenanceIsTrue' /\ BranchIsPackage'
    BY <2>1 DEF ProvenanceIsTrue, BuildShape, Whole, BranchIsPackage
  <2>3. \A q \in Helpers : HelperIsBound(q)'
    BY <1>1, <2>1 DEF HelperIsBound
  <2> QED BY <2>1, <2>2, <2>3
<1>2. HelperIsBound(p) /\ HelperShape(helper[p])
  BY DEF HelperIsBound
<1>3. HelperShape(Fails(p)) /\ Fails(p).pc \notin Bound
  BY <1>2 DEF Fails, HelperShape, Bound
<1>4. ASSUME NEW m \in Heads, BeginHelper(p, m) PROVE BranchInv'
  <2>1. HelperShape([On(p, "clone") EXCEPT !.head = m])
        /\ [On(p, "clone") EXCEPT !.head = m].pc \notin Bound
    BY <1>2 DEF On, HelperShape, Bound
  <2> QED BY <1>1, <1>3, <1>4, <2>1 DEF BeginHelper, Bound
<1>5. ASSUME NEW then, then \notin Bound
      PROVE  HelperShape(On(p, then)) /\ On(p, then).pc \notin Bound
  BY <1>2, <1>5 DEF On, HelperShape
<1>6. CASE Goes(p, "clone", On(p, "head")) \/ HeadIsExpected(p, "head", "sums")
  <2>1. "head" \notin Bound /\ "sums" \notin Bound
    BY DEF Bound
  <2> QED BY <1>1, <1>3, <1>5, <1>6, <2>1 DEF HeadIsExpected, Bound
<1>7. CASE ReadSums(p)
  <2> DEFINE h == [On(p, "hash") EXCEPT !.sums = dist["sums"].commit]
  <2>1. HelperShape(h) /\ h.pc \notin Bound
    BY <1>2 DEF On, HelperShape, Bound
  <2> QED BY <1>1, <1>3, <1>7, <2>1 DEF ReadSums, Bound
<1>8. CASE HashZip(p)
  <2> DEFINE h == [On(p, "inspect") EXCEPT !.zip = dist["zip"].commit]
  <2>1. HelperShape(h) /\ h.pc \notin Bound
    BY <1>2 DEF On, HelperShape, Bound
  <2> QED BY <1>1, <1>3, <1>8, <2>1 DEF HashZip, Bound
<1>16. CASE ListZip(p)
  <2>1. "extract" \notin Bound
    BY DEF Bound
  <2> QED BY <1>1, <1>3, <1>5, <1>16, <2>1 DEF ListZip, Bound
<1>9. CASE Extract(p)
  <2> DEFINE h == [On(p, "provenance") EXCEPT !.tree = Of[dist["zip"].commit].tree]
  <2>1. HelperShape(h) /\ h.pc \notin Bound
    BY <1>2 DEF On, HelperShape, Bound
  <2> QED BY <1>1, <1>3, <1>9, <2>1 DEF Extract, Bound
<1>10. CASE ReadProvenance(p)
  <2> DEFINE h == [On(p, "commit") EXCEPT !.source = dist["provenance"].commit]
  <2>1. /\ HelperShape(h) /\ h.pc = "commit" /\ h.tree = helper[p].tree
        /\ h.source = dist["provenance"].commit
    BY <1>2 DEF On, HelperShape
  <2>2. Binds(p) => /\ h.source \in clean /\ Of[h.source].version = "this"
                    /\ h.tree = Of[h.source].tree
    <3>1. Binds(p) => dist["provenance"].dirty = FALSE
      BY DEF Binds, ProvenanceIsTrue
    <3> QED BY <2>1, <3>1 DEF Binds, ProvenanceIsTrue
  <2> HIDE DEF h
  <2> QED BY <1>1, <1>3, <1>10, <2>1, <2>2 DEF ReadProvenance, Bound, h
<1>11. CASE CommitCandidate(p)
  <2> DEFINE h == [On(p, "head again") EXCEPT
                     !.commit = Candidate(helper[p].head, helper[p].tree)]
  <2>1. /\ HelperShape(h) /\ h.pc = "head again" /\ h.tree = helper[p].tree
        /\ h.source = helper[p].source /\ h.commit.tree = h.tree
    BY <1>2 DEF On, HelperShape, Candidate
  <2>2. helper[p].pc = "commit"
    BY <1>11 DEF CommitCandidate, Goes
  <2>3. /\ h.source \in clean /\ Of[h.source].version = "this" /\ h.tree = Of[h.source].tree
    BY <1>2, <2>1, <2>2 DEF HelperIsBound, Bound
  <2> HIDE DEF h
  <2> QED BY <1>1, <1>3, <1>11, <2>1, <2>3 DEF CommitCandidate, Bound, h
<1>12. ASSUME NEW from \in Bound \ {"commit"}, NEW then, helper[p].pc = from
       PROVE  LET h == On(p, then)
              IN /\ HelperShape(h) /\ h.source \in clean /\ Of[h.source].version = "this"
                 /\ h.tree = Of[h.source].tree /\ h.commit.tree = h.tree
                 /\ h.commit = helper[p].commit /\ h.source = helper[p].source
  BY <1>2, <1>12 DEF HelperIsBound, HelperShape, On, Bound
<1>13. CASE HeadIsExpected(p, "head again", "absent") \/ IsAbsent(p) \/ VerifyBranch(p)
  <2>1. helper[p].pc \in {"head again", "absent", "verify"}
    BY <1>13 DEF HeadIsExpected, IsAbsent, VerifyBranch, Goes
  <2>2. helper[p].pc \in Bound \ {"commit"}
    BY <2>1 DEF Bound
  <2> QED BY <1>1, <1>3, <1>12, <1>13, <2>2 DEF HeadIsExpected, IsAbsent, VerifyBranch
<1>14. CASE Push(p)
  <2>1. UNCHANGED <<dist, build, clean>> /\ helper[p].pc \in Bound \ {"commit"}
    BY <1>14 DEF Push, buildVars, Bound
  <2>2. PICK h : /\ helper' = [helper EXCEPT ![p] = h]
                 /\ h = Fails(p) \/ (\E then \in {"verify", "failed"} : h = On(p, then))
                 /\ pushed' \in {pushed,
                        pushed \cup {<<helper[p].source, helper[p].commit>>}}
    BY <1>14 DEF Push, Pushed, Rejected
  <2>3. ProvenanceIsTrue'
    BY <2>1 DEF ProvenanceIsTrue, BuildShape, Whole
  <2>4. /\ helper[p].source \in clean /\ Of[helper[p].source].version = "this"
        /\ helper[p].commit.tree = Of[helper[p].source].tree
    BY <1>2, <2>1 DEF HelperIsBound
  <2>5. BranchIsPackage'
    BY <2>1, <2>2, <2>4 DEF BranchIsPackage
  <2>6. \A q \in Helpers : HelperIsBound(q)'
    BY <1>3, <1>12, <2>1, <2>2 DEF HelperIsBound
  <2> QED BY <2>2, <2>3, <2>5, <2>6
<1>15. CASE HelperDies(p)
  BY <1>1, <1>3, <1>15 DEF HelperDies, Bound
<1> QED
  BY <1>4, <1>6, <1>7, <1>8, <1>9, <1>10, <1>11, <1>13, <1>14, <1>15,
     <1>16 DEF HelperStep

\* Every step of the branch workflow keeps its invariant.
LEMMA BranchKeeps == BranchInv /\ [BranchNext]_branchVars => BranchInv'
<1> SUFFICES ASSUME BranchInv, [BranchNext]_branchVars PROVE BranchInv'
  OBVIOUS
<1>1. ASSUME NEW p \in Helpers, HelperStep(p) PROVE BranchInv'
  BY <1>1, HelperKeeps
<1>2. CASE OthersPush \/ UNCHANGED branchVars
  BY <1>2 DEF OthersPush, branchVars, buildVars, remoteVars, BranchInv, ProvenanceIsTrue,
     BuildShape, Whole, HelperIsBound, HelperShape, BranchIsPackage
<1>3. CASE BuildStep /\ UNCHANGED <<remoteVars, helper, pushed>>
  <2>1. ProvenanceIsTrue' /\ clean \subseteq clean'
    BY <1>3, BuildKeeps DEF BranchInv, StaysTrue
  <2> QED BY <1>3, <2>1 DEF BranchInv, HelperIsBound, HelperShape, BranchIsPackage
<1> QED BY <1>1, <1>2, <1>3 DEF BranchNext

\* A step of the whole is one of the branch helpers or leaves their part alone.
LEMMA BranchPart == [ReleaseNext]_allVars => [BranchNext]_branchVars
BY DEF ReleaseNext, allVars

\* What a helper pushes is the clean, reviewed package of one commit of the
\* source, however many builds, helpers and pushes by others there are.
THEOREM PackageAlways == ReleaseSpec => []BranchIsPackage
<1>1. BranchInv => BranchIsPackage BY DEF BranchInv
<1> QED BY BranchInvInit, BranchKeeps, BranchPart, <1>1, PTL DEF ReleaseSpec

TaggerShape == DOMAIN tagger = {"pc", "oid", "moves"}

\* At its push the tagger knows where the review branch is, unless others have
\* pushed since it looked: a helper's push does not move a branch that is there.
SawInv ==
  /\ TaggerShape /\ moves \in Nat /\ tagger.moves \in Nat /\ tagger.moves <= moves
  /\ tagger.pc # "start" => tagger.oid # NoCommit
  /\ tagger.pc = "push" /\ moves = tagger.moves => branch = tagger.oid

\* At first the tagger has not looked.
LEMMA SawInit == BranchInit /\ TagInit => SawInv
BY DEF BranchInit, TagInit, SawInv, TaggerShape

\* What the branch workflow does while the tagger is about to push.
LEMMA SawBranch == ASSUME SawInv, BranchNext, UNCHANGED tagVars PROVE SawInv'
<1>1. tagger' = tagger
  BY DEF tagVars
<1>2. ASSUME UNCHANGED <<branch, moves>> PROVE SawInv'
  BY <1>1, <1>2 DEF SawInv, TaggerShape
<1>3. ASSUME NEW p \in Helpers, HelperStep(p) PROVE SawInv'
  <2>1. CASE Push(p)
    <3>1. moves' = moves /\ (branch # NoCommit => branch' = branch)
      BY <2>1 DEF Push, Rejected
    <3> QED BY <1>1, <3>1 DEF SawInv, TaggerShape
  <2>2. CASE ~Push(p)
    <3>1. UNCHANGED <<branch, moves>>
      BY <1>3, <2>2 DEF HelperStep, BeginHelper, HeadIsExpected, ReadSums, HashZip, ListZip,
         Extract, ReadProvenance, CommitCandidate, IsAbsent, VerifyBranch, HelperDies, Goes,
         remoteVars
    <3> QED BY <1>2, <3>1
  <2> QED BY <2>1, <2>2
<1>4. CASE OthersPush
  <2>1. moves' = moves + 1
    BY <1>4 DEF OthersPush
  <2>2. moves' \in Nat /\ tagger.moves <= moves' /\ moves' # tagger.moves
    BY <2>1 DEF SawInv
  <2> QED BY <1>1, <2>2 DEF SawInv, TaggerShape
<1>5. CASE BuildStep /\ UNCHANGED <<remoteVars, helper, pushed>>
  BY <1>2, <1>5 DEF remoteVars
<1> QED BY <1>3, <1>4, <1>5 DEF BranchNext

\* The tagger's own steps: it goes to its push only by way of that look.
LEMMA SawTagger == ASSUME SawInv, TaggerStep, UNCHANGED branchVars PROVE SawInv'
<1>1. UNCHANGED <<branch, moves>>
  BY DEF branchVars, remoteVars
<1>2. ASSUME NEW oid, oid # NoCommit, BeginTagger(oid) PROVE SawInv'
  BY <1>1, <1>2 DEF BeginTagger, SawInv, TaggerShape
<1>3. CASE BranchAgain
  <2>1. /\ tagger.pc = "branch again" /\ TaggerShape' /\ tagger'.oid = tagger.oid
        /\ tagger'.moves = moves /\ (tagger'.pc = "push" => branch = tagger.oid)
    BY <1>3 DEF BranchAgain, SawInv, TaggerShape
  <2>2. moves \in Nat /\ moves' = moves /\ branch' = branch /\ tagger.oid # NoCommit
    BY <1>1, <2>1 DEF SawInv
  <2>3. \A a, b, c : a \in Nat /\ b = a /\ c = a => b \in Nat /\ c \in Nat /\ b <= c
    OBVIOUS
  <2>4. tagger'.moves \in Nat /\ moves' \in Nat /\ tagger'.moves <= moves'
    BY <2>1, <2>2, <2>3, Zenon
  <2> QED BY <2>1, <2>2, <2>4 DEF SawInv
<1>4. ASSUME tagger.pc # "start",
             \E then : then # "push" /\ tagger' = [tagger EXCEPT !.pc = then]
      PROVE  SawInv'
  BY <1>1, <1>4 DEF SawInv, TaggerShape
<1>5. ASSUME NEW from, NEW then, Tagger(from, then), from # "start", then # "push"
      PROVE  SawInv'
  BY <1>4, <1>5 DEF Tagger
<1>6. CASE PushTag
  BY <1>4, <1>6 DEF PushTag, TagPushed
<1> QED BY <1>2, <1>3, <1>5, <1>6 DEF TaggerStep, TaggerLooks

\* Every step keeps what the tagger knows.
LEMMA SawKeeps == SawInv /\ [ReleaseNext]_allVars => SawInv'
<1> SUFFICES ASSUME SawInv, [ReleaseNext]_allVars PROVE SawInv'
  OBVIOUS
<1>1. ASSUME UNCHANGED <<tagger, branch, moves>> PROVE SawInv'
  BY <1>1 DEF SawInv, TaggerShape
<1>2. CASE UNCHANGED allVars
  BY <1>1, <1>2 DEF allVars, tagVars, branchVars, remoteVars
<1>3. CASE (RunStep \/ Meddle) /\ UNCHANGED branchVars
  <2>1. tagger' = tagger
    BY <1>3 DEF RunStep, RunStarts, ReRun, ReRunPublish, NothingDone, Exists, Peel, LooksAt,
       Looks, Judges, CreateDraft, View, Download, Promote, Preflight, Meddle
  <2> QED BY <1>1, <1>3, <2>1 DEF branchVars, remoteVars
<1> QED BY <1>2, <1>3, SawBranch, SawTagger DEF ReleaseNext, TagStep

\* Neither tool's push ever replaces a ref: a helper only makes the review branch,
\* the tagger only makes the tag, with the commit it was given, which is the head
\* of the review branch unless others pushed after the tagger's last look.
THEOREM CreatesAlways == ReleaseSpec => PushesOnlyCreate
<1>1. [ReleaseNext]_allVars => [pushed' # pushed => branch = NoCommit]_branchVars
  <2>1. ASSUME NEW p \in Helpers, HelperStep(p), pushed' # pushed PROVE branch = NoCommit
    BY <2>1 DEF HelperStep, BeginHelper, HeadIsExpected, ReadSums, HashZip, ListZip, Extract,
       ReadProvenance, CommitCandidate, IsAbsent, VerifyBranch, HelperDies, Goes, Push,
       Rejected
  <2> QED BY <2>1, BranchPart DEF BranchNext, OthersPush, branchVars
<1>2. SawInv /\ [ReleaseNext]_allVars =>
        [tagger' # tagger /\ tag' # tag
           => /\ tag = NoTag /\ tag' = [target |-> tagger.oid, annotated |-> TRUE]
              /\ moves = tagger.moves => branch = tagger.oid]_allVars
  <2> SUFFICES ASSUME SawInv, ReleaseNext, tagger' # tagger, tag' # tag
               PROVE  /\ tag = NoTag /\ tag' = [target |-> tagger.oid, annotated |-> TRUE]
                      /\ moves = tagger.moves => branch = tagger.oid
    OBVIOUS
  <2>1. TaggerStep
    BY DEF ReleaseNext, tagVars, TagStep, RunStep, RunStarts, ReRun, ReRunPublish,
       NothingDone, Exists, Peel, LooksAt, Looks, Judges, CreateDraft, View, Download,
       Promote, Preflight, Meddle
  <2>2. PushTag
    BY <2>1 DEF TaggerStep, BeginTagger, BranchAgain, TaggerLooks, Tagger
  <2> QED BY <2>2 DEF PushTag, TagPushed, SetsTag, SawInv
<1> QED BY SawInit, SawKeeps, <1>1, <1>2, PTL
        DEF ReleaseSpec, PushesOnlyCreate, NeverOverwrites, TaggerOnlyCreates

------------------------------------------------------------------------------
(* The release jobs.                                                         *)

CiShape == DOMAIN ci = {"pc", "sha", "n"}
ReleaseShape == release \in [state : {"none", "draft", "public"},
                             bundle : {release.bundle}, fixed : BOOLEAN]

AfterPublic  == {"compare again", "last view", "peel 3", "green"}
AfterCompare == AfterPublic \ {"compare again"}
AfterBuild   == {"not published", "setting", "ruleset", "exists", "peel 1", "create", "draft", "compare",
                 "peel 2", "promote", "public"} \cup AfterPublic

\* What a run has established: the build, then a public release that is fixed,
\* then that it is its own, then the tag.
GreenInv ==
  /\ CiShape /\ ReleaseShape
  /\ ci.pc \in {"none", "red", "tag check", "build"} \cup AfterBuild
  /\ ci.pc \in AfterBuild => Builds(ci.sha)
  /\ ci.pc \in AfterPublic => release.state = "public" /\ release.fixed = TRUE
  /\ ci.pc \in AfterCompare => release.bundle = Own
  /\ ci.pc = "green" => TagIsMine

\* What it knows at the promotion of a draft and a tag nobody has touched.
PromoteInv ==
  /\ meddles \in Nat
  /\ ci.pc \in {"peel 2", "promote"} /\ "draft" \notin touched => release.bundle = Own
  /\ ci.pc = "promote" /\ "tag" \notin touched => TagIsMine

RunInv == GreenInv /\ PromoteInv

\* An annotated tag is not a commit.
LEMMA AnnotatedIsTag ==
  ASSUME NEW oid PROVE [target |-> oid, annotated |-> TRUE] # NoTag
<1>1. [target |-> oid, annotated |-> TRUE].annotated = TRUE
  OBVIOUS
<1>2. NoTag.annotated = FALSE
  BY DEF NoTag
<1> QED BY <1>1, <1>2

\* A run that creates a draft, or fails to, leaves one of its own, half of one, or
\* what there was.
LEMMA DraftMade ==
  ASSUME CiShape, ReleaseShape, CreateDraft
  PROVE  /\ ci.pc = "create" /\ CiShape' /\ ReleaseShape'
         /\ ci'.sha = ci.sha /\ ci'.n = ci.n /\ ci'.pc \in {"draft", "not published"}
         /\ \/ release' = release
            \/ release'.state = "draft" /\ release'.bundle \in {Own, NoBundle}
<1>1. ci.pc = "create"
  BY DEF CreateDraft
<1>2. ASSUME release' = release, NEW then \in {"draft", "not published"},
             ci' = [ci EXCEPT !.pc = then]
      PROVE  /\ CiShape' /\ ReleaseShape'
             /\ ci'.sha = ci.sha /\ ci'.n = ci.n /\ ci'.pc \in {"draft", "not published"}
  BY <1>2 DEF CiShape, ReleaseShape
<1>3. CASE NothingDone
  BY <1>1, <1>2, <1>3 DEF NothingDone
<1>4. ASSUME NEW b \in {Own, NoBundle},
             release' = [state |-> "draft", bundle |-> b, fixed |-> FALSE],
             ci' = [ci EXCEPT !.pc = IF b = Own THEN "draft" ELSE "not published"]
      PROVE  /\ CiShape' /\ ReleaseShape'
             /\ ci'.sha = ci.sha /\ ci'.n = ci.n /\ ci'.pc \in {"draft", "not published"}
             /\ release'.state = "draft" /\ release'.bundle \in {Own, NoBundle}
  <2>1. CiShape' /\ ci'.sha = ci.sha /\ ci'.n = ci.n /\ ci'.pc \in {"draft", "not published"}
    BY <1>4 DEF CiShape
  <2>2. release'.state = "draft" /\ release'.bundle = b /\ ReleaseShape'
    BY <1>4 DEF ReleaseShape
  <2> QED BY <2>1, <2>2
<1>5. CASE release' = release /\ \E then \in {"draft", "not published"} :
                                  ci' = [ci EXCEPT !.pc = then]
  BY <1>1, <1>2, <1>5
<1> QED BY <1>1, <1>3, <1>4, <1>5 DEF CreateDraft

\* No run has begun.
LEMMA RunInvInit == TagInit => RunInv
BY DEF TagInit, RunInv, GreenInv, PromoteInv, CiShape, ReleaseShape, NoRelease, AfterBuild,
       AfterPublic, AfterCompare

\* Whatever a run looks at, it goes on to a step whose condition it has seen.
LEMMA LooksKeep ==
  ASSUME RunInv, NEW from, NEW then, NEW fine, Judges(from, then, fine),
         touched' \subseteq touched, from \in {"tag check", "build"} \cup AfterBuild,
         fine => /\ then \in {"build"} \cup AfterBuild
                 /\ then \in AfterBuild => from \in AfterBuild \/ Builds(ci.sha)
                 /\ then \in AfterPublic =>
                      release.state = "public" /\ release.fixed = TRUE
                 /\ then \in AfterCompare => release.bundle = Own
                 /\ then = "green" => TagIsMine
                 /\ then \in {"peel 2", "promote"} /\ "draft" \notin touched' =>
                      release.bundle = Own
                 /\ then = "promote" /\ "tag" \notin touched' => TagIsMine
  PROVE  RunInv'
<1>1. /\ ci.pc = from /\ UNCHANGED <<tag, release, meddles>>
      /\ ci' = [ci EXCEPT !.pc = IF fine THEN then ELSE Red(from)]
  BY DEF Judges
<1>2. /\ CiShape' /\ ci'.sha = ci.sha /\ ci'.n = ci.n
      /\ ci'.pc = IF fine THEN then ELSE Red(from)
  BY <1>1 DEF RunInv, GreenInv, CiShape
<1>3. Own' = Own /\ (TagIsMine)' = TagIsMine
  BY <1>1, <1>2 DEF Own, TagIsMine
<1>4. CASE fine
  BY <1>1, <1>2, <1>3, <1>4 DEF RunInv, GreenInv, PromoteInv, ReleaseShape
<1>5. CASE ~fine
  <2>1. ci'.pc = Red(from) /\ Red(from) \in {"red", "not published"}
    BY <1>2, <1>5 DEF Red
  <2>2. ci'.pc \notin AfterPublic \cup AfterCompare \cup {"peel 2", "promote"}
    BY <2>1 DEF AfterPublic, AfterCompare
  <2>3. ci'.pc # "green" /\ ci'.pc # "promote"
    BY <2>1
  <2>4. ci'.pc \in AfterBuild => Builds(ci.sha)
    <3>1. "red" \notin AfterBuild
      BY DEF AfterBuild, AfterPublic
    <3>2. from \notin {"tag check", "build"} => Builds(ci.sha)
      BY <1>1 DEF RunInv, GreenInv
    <3> QED BY <2>1, <3>1, <3>2 DEF Red
  <2>5. ci'.pc \in {"red"} \cup AfterBuild
    BY <2>1 DEF AfterBuild
  <2> QED BY <1>1, <1>2, <2>2, <2>3, <2>4, <2>5 DEF RunInv, GreenInv, PromoteInv, ReleaseShape
<1> QED BY <1>4, <1>5

\* Every step of the publication keeps its invariant.
LEMMA RunKeeps == RunInv /\ [ReleaseNext]_allVars => RunInv'
<1> SUFFICES ASSUME RunInv, [ReleaseNext]_allVars PROVE RunInv'
  OBVIOUS
<1> DEFINE Kept == UNCHANGED <<ci, release, touched, meddles>>
<1>1. ASSUME Kept, tag' = tag PROVE RunInv'
  BY <1>1 DEF RunInv, GreenInv, PromoteInv, CiShape, ReleaseShape, Own, TagIsMine
<1>2. CASE BranchNext /\ UNCHANGED tagVars
  BY <1>1, <1>2 DEF tagVars
<1>3. CASE UNCHANGED allVars
  BY <1>1, <1>3 DEF allVars, tagVars
<1>4. CASE TaggerStep
  <2>1. CASE PushTag
    <3>1. TagIsMine => tag' = tag
      BY <2>1, AnnotatedIsTag DEF PushTag, TagIsMine
    <3> QED BY <2>1, <3>1 DEF PushTag, RunInv, GreenInv, PromoteInv, CiShape, ReleaseShape,
                              Own, TagIsMine
  <2> QED BY <1>1, <1>4, <2>1 DEF TaggerStep, BeginTagger, BranchAgain, TaggerLooks, Tagger
<1>5. CASE RunStep
  <2> USE DEF AfterBuild, AfterPublic, AfterCompare
  <2>1. CASE RunStarts
    <3>1. CiShape' /\ ci'.pc = "tag check"
      BY <2>1 DEF RunStarts, CiShape
    <3> QED BY <2>1, <3>1 DEF RunStarts, RunInv, GreenInv, PromoteInv, ReleaseShape
  <2>2. CASE ReRun
    <3>1. CiShape' /\ ci'.pc = "tag check"
      BY <2>2 DEF ReRun, RunInv, GreenInv, CiShape
    <3> QED BY <2>2, <3>1 DEF ReRun, RunInv, GreenInv, PromoteInv, ReleaseShape
  <2>18. CASE ReRunPublish
    <3>1. CiShape' /\ ci'.pc = "setting" /\ ci'.sha = ci.sha
      BY <2>18 DEF ReRunPublish, RunInv, GreenInv, CiShape
    <3>2. Builds(ci.sha)
      BY <2>18 DEF ReRunPublish, RunInv, GreenInv
    <3> QED BY <2>18, <3>1, <3>2
            DEF ReRunPublish, RunInv, GreenInv, PromoteInv, ReleaseShape
  <2>3. CASE Looks("tag check", "build", TagIsMine /\ IsVersion(ci.sha))
    BY <2>3, LooksKeep DEF Looks
  <2>4. CASE Looks("build", "setting", Builds(ci.sha))
    BY <2>4, LooksKeep DEF Looks
  <2>5. CASE \/ Preflight("setting", "ruleset", "immutable releases")
             \/ Preflight("ruleset", "exists", "tag ruleset")
    BY <2>5, LooksKeep DEF Looks, Preflight
  <2>6. CASE Exists
    <3>1. PICK seen \in BOOLEAN : Looks("exists", "peel 1", ~seen)
      BY <2>6 DEF Exists
    <3> QED BY <3>1, LooksKeep DEF Looks
  <2>7. CASE Peel("peel 1", "create")
    BY <2>7, LooksKeep DEF Peel, LooksAt
  <2>8. CASE CreateDraft
    <3>1. /\ ci.pc = "create" /\ CiShape' /\ ReleaseShape' /\ ci'.sha = ci.sha
          /\ ci'.pc \in {"draft", "not published"} /\ UNCHANGED meddles
      BY <2>8, DraftMade DEF RunInv, GreenInv, CreateDraft
    <3>2. Builds(ci.sha)
      BY <3>1 DEF RunInv, GreenInv
    <3> QED BY <3>1, <3>2 DEF RunInv, GreenInv, PromoteInv
  <2>9. CASE View("draft", "compare", "draft", FALSE)
    BY <2>9, LooksKeep DEF View, Looks
  <2>10. CASE Download("compare", "peel 2")
    BY <2>10, LooksKeep DEF Download, LooksAt
  <2>11. CASE Peel("peel 2", "promote")
    <3>1. "draft" \notin touched \ {"tag"} => "draft" \notin touched
      OBVIOUS
    <3> QED BY <2>11, <3>1, LooksKeep DEF Peel, LooksAt, Judges, RunInv, PromoteInv
  <2>12. CASE Promote
    <3>1. PICK then \in {"public", "not published"} : ci' = [ci EXCEPT !.pc = then]
      BY <2>12 DEF Promote, NothingDone
    <3>2. /\ CiShape' /\ ci'.sha = ci.sha /\ ci'.pc \in {"public", "not published"}
          /\ ci.pc = "promote"
      BY <2>12, <3>1 DEF Promote, RunInv, GreenInv, CiShape
    <3>3. ReleaseShape'
      BY <2>12 DEF Promote, NothingDone, RunInv, GreenInv, ReleaseShape
    <3>4. Builds(ci.sha)
      BY <3>2 DEF RunInv, GreenInv
    <3> QED BY <2>12, <3>2, <3>3, <3>4 DEF Promote, RunInv, GreenInv, PromoteInv
  <2>13. CASE View("public", "compare again", "public", TRUE)
    BY <2>13, LooksKeep DEF View, Looks
  <2>14. CASE Download("compare again", "last view")
    BY <2>14, LooksKeep DEF Download, LooksAt, Judges, RunInv, GreenInv
  <2>15. CASE View("last view", "peel 3", "public", TRUE)
    BY <2>15, LooksKeep DEF View, Looks, Judges, RunInv, GreenInv
  <2>16. CASE Peel("peel 3", "green")
    BY <2>16, LooksKeep DEF Peel, LooksAt, Judges, RunInv, GreenInv
  <2>17. CASE Running /\ Looks(ci.pc, "red", FALSE)
    <3>1. ci.pc \in {"tag check", "build"} \cup AfterBuild
      BY <2>17 DEF Running, RunInv, GreenInv
    <3> QED BY <2>17, <3>1, LooksKeep DEF Looks
  <2> QED
    BY <1>5, <2>1, <2>2, <2>3, <2>4, <2>5, <2>6, <2>7, <2>8, <2>9, <2>10, <2>11, <2>12,
       <2>13, <2>14, <2>15, <2>16, <2>17, <2>18 DEF RunStep
<1>6. CASE Meddle
  <2>1. ci' = ci /\ meddles' = meddles + 1 /\ meddles' \in Nat /\ CiShape' /\ Own' = Own
    <3>1. ci' = ci /\ meddles' = meddles + 1
      BY <1>6 DEF Meddle
    <3>2. meddles' \in Nat
      <4>1. meddles \in Nat
        BY DEF RunInv, PromoteInv
      <4> QED BY <3>1, <4>1
    <3>3. CiShape' /\ Own' = Own
      BY <3>1 DEF RunInv, GreenInv, CiShape, Own
    <3> QED BY <3>1, <3>2, <3>3
  <2>2. CASE MovesTag
    <3>1. ci.pc # "green"
      BY <2>2 DEF MovesTag, Held, RunInv, GreenInv, AfterPublic
    <3>2. release' = release /\ touched' = touched \cup {"tag"}
      BY <2>2 DEF MovesTag
    <3>3. GreenInv'
      BY <2>1, <3>1, <3>2 DEF RunInv, GreenInv, ReleaseShape
    <3>4. PromoteInv'
      BY <2>1, <3>2 DEF RunInv, PromoteInv
    <3> QED BY <3>3, <3>4 DEF RunInv
  <2>3. CASE TouchesRelease
    <3>1. ci.pc \notin AfterPublic
      BY <2>3 DEF TouchesRelease, RunInv, GreenInv
    <3>2. tag' = tag /\ touched' = touched \cup {"draft"}
      BY <2>3 DEF TouchesRelease
    <3>3. ReleaseShape'
      <4>1. CASE release' = NoRelease
        BY <4>1 DEF NoRelease, ReleaseShape
      <4>2. CASE release' # NoRelease
        <5>1. PICK b \in Bundles, s \in {"draft", "public"} :
                release' = [state |-> s, bundle |-> b,
                            fixed |-> s = "public" /\ "immutable releases" \in settings]
          BY <2>3, <4>2 DEF TouchesRelease
        <5> DEFINE x == s = "public" /\ "immutable releases" \in settings
        <5>2. x \in BOOLEAN /\ release' = [state |-> s, bundle |-> b, fixed |-> x]
          BY <5>1
        <5> HIDE DEF x
        <5> QED BY <5>2 DEF ReleaseShape
      <4> QED BY <4>1, <4>2
    <3>4. GreenInv'
      BY <2>1, <3>1, <3>3 DEF RunInv, GreenInv, AfterCompare, AfterPublic
    <3>5. PromoteInv'
      BY <2>1, <3>2 DEF RunInv, PromoteInv, TagIsMine
    <3> QED BY <3>4, <3>5 DEF RunInv
  <2>4. CASE ChangesSettings
    <3>1. UNCHANGED <<tag, release, touched>>
      BY <2>4 DEF ChangesSettings
    <3>2. GreenInv'
      BY <2>1, <3>1 DEF RunInv, GreenInv, ReleaseShape, TagIsMine
    <3>3. PromoteInv'
      BY <2>1, <3>1 DEF RunInv, PromoteInv, TagIsMine
    <3> QED BY <3>2, <3>3 DEF RunInv
  <2> QED BY <1>6, <2>2, <2>3, <2>4 DEF Meddle
<1> QED BY <1>2, <1>3, <1>4, <1>5, <1>6 DEF ReleaseNext, TagStep

\* A green run stands for a public release that nobody can change: its own signed
\* bundle, from the commit its annotated tag names, whoever meddled and however
\* often.
THEOREM GreenAlways == ReleaseSpec => []GreenIsGood
<1>1. RunInv => GreenIsGood
  <2> SUFFICES ASSUME RunInv, ci.pc = "green" PROVE GreenIsGood
    BY DEF GreenIsGood
  <2>1. /\ release.state = "public" /\ release.fixed = TRUE /\ release.bundle = Own
        /\ TagIsMine /\ Builds(ci.sha)
    BY DEF RunInv, GreenInv, AfterPublic, AfterCompare, AfterBuild
  <2>2. release = [state |-> "public", bundle |-> Own, fixed |-> TRUE]
    BY <2>1 DEF RunInv, GreenInv, ReleaseShape
  <2> QED BY <2>1, <2>2 DEF GreenIsGood
<1> QED BY RunInvInit, RunKeeps, <1>1, PTL DEF ReleaseSpec

\* What a run makes public is its own bundle under its own tag, unless draft or
\* tag was touched after the run looked at them for the last time.
THEOREM PublishesOwnAlways == ReleaseSpec => PublishesItsOwn
<1>1. RunInv /\ [ReleaseNext]_allVars =>
        [ci.pc = "promote" /\ ci'.n = ci.n /\ release' # release
           /\ release'.state = "public" /\ meddles' = meddles /\ touched = {}
         => release'.bundle = Own /\ TagIsMine]_allVars
  <2> SUFFICES ASSUME RunInv, ReleaseNext, ci.pc = "promote", release' # release,
                      meddles' = meddles, touched = {}
               PROVE  release'.bundle = Own /\ TagIsMine
    OBVIOUS
  <2>1. release.bundle = Own /\ TagIsMine /\ meddles \in Nat
    BY DEF RunInv, PromoteInv
  <2>2. ~Meddle
    BY <2>1 DEF Meddle
  <2>3. RunStep
    BY <2>2 DEF ReleaseNext, tagVars, TagStep, TaggerStep, BeginTagger, BranchAgain,
       TaggerLooks, Tagger, PushTag, TagPushed, SetsTag
  <2>4. Promote
    BY <2>3 DEF RunStep, RunStarts, ReRun, ReRunPublish, NothingDone, Exists, Peel,
       LooksAt, Looks, Judges, CreateDraft, View, Download, Preflight
  <2>5. release'.bundle = release.bundle
    BY <2>4 DEF Promote, NothingDone, RunInv, GreenInv, ReleaseShape
  <2> QED BY <2>1, <2>5
<1> QED BY RunInvInit, RunKeeps, <1>1, PTL DEF ReleaseSpec, PublishesItsOwn

------------------------------------------------------------------------------
(* As long as nobody meddles.                                                *)

AfterSetting == {"ruleset", "exists", "peel 1", "create", "draft", "compare",
                 "peel 2", "promote"}

TheTaggers == /\ tag = [target |-> tagger.oid, annotated |-> TRUE]
              /\ IsVersion(tagger.oid)
              /\ tagger.pc \in {"verify", "done", "failed"}

\* The only tag is the tagger's, of the version being released; every run is of
\* its commit; and what is public was found equal to the run's bundle, with the
\* releases of the repository immutable.
Quiet ==
  /\ tag # NoTag => TheTaggers
  /\ tagger.pc \in {"still absent", "branch again", "push"} => IsVersion(tagger.oid)
  /\ due # NoCommit => tag # NoTag /\ due = tag.target
  /\ ci.pc # "none" => tag # NoTag /\ ci.sha = tag.target
  /\ ci.pc \in AfterSetting => "immutable releases" \in settings
  /\ ci.pc \in {"peel 2", "promote"} => release.bundle = Own
  /\ release.state = "public" =>
       tag # NoTag /\ release.bundle.sha = tag.target /\ release.fixed = TRUE

QuietInv == RunInv /\ TaggerShape /\ (meddles = 0 => Quiet)

\* At first nobody has meddled.
LEMMA QuietInit == TagInit => QuietInv
<1> SUFFICES ASSUME TagInit PROVE QuietInv
  OBVIOUS
<1>1. tagger.pc = "start" /\ TaggerShape /\ ci.pc = "none"
  BY DEF TagInit, TaggerShape
<1>2. release.state = "none"
  BY DEF TagInit, NoRelease
<1>3. tag = NoTag /\ due = NoCommit
  BY DEF TagInit
<1> QED BY <1>1, <1>2, <1>3, RunInvInit DEF QuietInv, Quiet, AfterSetting

\* The tagger's steps: only its push touches the tag, and only when there is none.
LEMMA TaggerQuiet ==
  ASSUME RunInv, TaggerShape, Quiet, TaggerStep
  PROVE  TaggerShape' /\ Quiet'
<1>1. UNCHANGED <<ci, release, settings>>
  BY DEF TaggerStep, BeginTagger, BranchAgain, TaggerLooks, Tagger, PushTag
<1>2. Own' = Own
  BY <1>1 DEF Own
<1>3. CASE PushTag /\ tag = NoTag
  <2>1. PICK then \in {"verify", "failed"} : TagPushed(then)
    BY <1>3 DEF PushTag
  <2>2. /\ tag' = [target |-> tagger.oid, annotated |-> TRUE] /\ due' = tag'.target
        /\ TaggerShape' /\ tagger'.oid = tagger.oid /\ tagger'.pc = then
    BY <2>1 DEF TagPushed, SetsTag, TaggerShape
  <2>3. IsVersion(tagger.oid) /\ ci.pc = "none" /\ release.state # "public"
    BY <1>3 DEF PushTag, Quiet
  <2>4. TheTaggers'
    BY <2>1, <2>2, <2>3 DEF TheTaggers
  <2> QED BY <1>1, <2>1, <2>2, <2>3, <2>4, AnnotatedIsTag DEF Quiet, AfterSetting
<1>4. ASSUME UNCHANGED <<tag, due>>, TaggerShape', tagger'.oid = tagger.oid \/ tag = NoTag,
             tag # NoTag => tagger'.pc \in {"verify", "done", "failed"},
             tagger'.pc \in {"still absent", "branch again", "push"} => IsVersion(tagger'.oid)
      PROVE  TaggerShape' /\ Quiet'
  <2>1. tag # NoTag => TheTaggers'
    BY <1>4 DEF Quiet, TheTaggers
  <2> QED BY <1>1, <1>2, <1>4, <2>1 DEF Quiet
<1>5. ASSUME NEW oid, BeginTagger(oid) PROVE TaggerShape' /\ Quiet'
  <2>1. tagger.pc = "start" /\ TaggerShape' /\ tagger'.pc \in {"absent", "failed"}
    BY <1>5 DEF BeginTagger, TaggerShape
  <2>2. tag = NoTag
    BY <2>1 DEF Quiet, TheTaggers
  <2> QED BY <1>4, <1>5, <2>1, <2>2 DEF BeginTagger
<1>6. ASSUME NEW from, NEW then, Tagger(from, then)
      PROVE  /\ UNCHANGED <<tag, due>> /\ tagger.pc = from
             /\ TaggerShape' /\ tagger'.pc = then /\ tagger'.oid = tagger.oid
  BY <1>6 DEF Tagger, TaggerShape
<1>14. CASE BranchAgain
  <2>1. /\ UNCHANGED <<tag, due>> /\ tagger.pc = "branch again"
        /\ TaggerShape' /\ tagger'.pc \in {"push", "failed"} /\ tagger'.oid = tagger.oid
    BY <1>14 DEF BranchAgain, TaggerShape
  <2> QED BY <1>4, <2>1 DEF Quiet, TheTaggers
<1>7. CASE \E then \in {"clone", "failed"} : Tagger("absent", then)
  BY <1>4, <1>6, <1>7 DEF Quiet, TheTaggers
<1>8. CASE \/ Tagger("clone", "still absent") /\ IsVersion(tagger.oid)
           \/ Tagger("clone", "failed")
  BY <1>4, <1>6, <1>8 DEF Quiet, TheTaggers
<1>9. CASE \E then \in {"branch again", "failed"} : Tagger("still absent", then)
  BY <1>4, <1>6, <1>9 DEF Quiet, TheTaggers
<1>11. CASE \E then \in {"done", "failed"} : Tagger("verify", then)
  BY <1>4, <1>6, <1>11 DEF Quiet, TheTaggers
<1>12. CASE Tagger(tagger.pc, "failed")
  BY <1>4, <1>6, <1>12 DEF Quiet, TheTaggers
<1>13. CASE PushTag /\ tag # NoTag
  <2>1. UNCHANGED <<tag, due>> /\ tagger' = [tagger EXCEPT !.pc = "failed"]
    BY <1>13 DEF PushTag
  <2>2. TaggerShape' /\ tagger'.pc = "failed" /\ tagger'.oid = tagger.oid
    BY <2>1 DEF TaggerShape
  <2> QED BY <1>4, <2>1, <2>2
<1> QED BY <1>3, <1>5, <1>7, <1>8, <1>9, <1>11, <1>12, <1>13, <1>14
        DEF TaggerStep, TaggerLooks

\* A step of the run at which it judges something, the release as it was.
LEMMA JudgesQuiet ==
  ASSUME RunInv, Quiet, NEW from, NEW then, NEW fine, Judges(from, then, fine),
         from # "none", UNCHANGED tagger,
         fine => /\ then \in AfterSetting =>
                      from \in AfterSetting \/ "immutable releases" \in settings
                 /\ then \in {"peel 2", "promote"} => release.bundle = Own
  PROVE  Quiet'
<1>1. /\ ci.pc = from /\ UNCHANGED <<tag, due, release, settings>>
      /\ ci'.pc = IF fine THEN then ELSE Red(from)
      /\ ci'.sha = ci.sha /\ ci'.n = ci.n
  BY DEF Judges, RunInv, GreenInv, CiShape
<1>2. Own' = Own
  BY <1>1 DEF Own
<1>3. (tag # NoTag => TheTaggers)'
  BY <1>1 DEF Quiet, TheTaggers
<1>4. CASE fine
  BY <1>1, <1>2, <1>3, <1>4 DEF Quiet
<1>5. CASE ~fine
  <2>1. ci'.pc \in {"red", "not published"}
    BY <1>1, <1>5 DEF Red
  <2> QED BY <1>1, <1>3, <2>1 DEF Quiet, AfterSetting
<1> QED BY <1>4, <1>5

\* A run alone sees what it wrote itself.
LEMMA RunQuiet ==
  ASSUME RunInv, Quiet, RunStep PROVE Quiet'
<1> USE DEF AfterSetting
<1>0. UNCHANGED tagger
  BY DEF RunStep, RunStarts, ReRun, ReRunPublish, NothingDone, Exists, Peel, LooksAt,
     Looks, Judges, CreateDraft, View, Download, Promote, Preflight
<1>1. CASE RunStarts \/ ReRun
  <2>1. UNCHANGED <<tag, release, settings>> /\ ci'.pc = "tag check"
    <3>1. RunStarts => UNCHANGED <<tag, release, settings>> /\ ci'.pc = "tag check"
      <4> SUFFICES ASSUME RunStarts
                   PROVE  UNCHANGED <<tag, release, settings>> /\ ci'.pc = "tag check"
        OBVIOUS
      <4>1. UNCHANGED <<tag, release, settings>>
        BY DEF RunStarts
      <4>2. ci'.pc = "tag check"
        BY ONLY RunStarts DEF RunStarts
      <4> QED BY <4>1, <4>2
    <3>2. ReRun => UNCHANGED <<tag, release, settings>> /\ ci'.pc = "tag check"
      BY DEF ReRun, RunInv, GreenInv, CiShape
    <3> QED BY <1>1, <3>1, <3>2
  <2>2. CASE RunStarts
    <3>1. ci'.sha = due /\ due # NoCommit /\ due' = NoCommit
      BY <2>2 DEF RunStarts
    <3> QED BY <1>0, <2>1, <3>1 DEF Quiet, TheTaggers
  <2>3. CASE ReRun
    <3>1. ci'.sha = ci.sha /\ ci.pc # "none" /\ due' = due
      BY <2>3 DEF ReRun, RunInv, GreenInv, CiShape
    <3> QED BY <1>0, <2>1, <3>1 DEF Quiet, TheTaggers
  <2> QED BY <1>1, <2>2, <2>3
<1>14. CASE ReRunPublish
  <2>1. /\ UNCHANGED <<tag, due, release, settings>> /\ ci.pc # "none"
        /\ ci'.pc = "setting" /\ ci'.sha = ci.sha
    BY <1>14 DEF ReRunPublish, RunInv, GreenInv, CiShape
  <2> QED BY <1>0, <2>1 DEF Quiet, TheTaggers
<1>2. CASE Looks("tag check", "build", TagIsMine /\ IsVersion(ci.sha))
           \/ Looks("build", "setting", Builds(ci.sha))
  BY <1>0, <1>2, JudgesQuiet DEF Looks
<1>3. CASE \/ Preflight("setting", "ruleset", "immutable releases")
           \/ Preflight("ruleset", "exists", "tag ruleset")
  BY <1>0, <1>3, JudgesQuiet DEF Looks, Preflight
<1>4. CASE Exists
  <2>1. PICK seen \in BOOLEAN : Looks("exists", "peel 1", ~seen)
    BY <1>4 DEF Exists
  <2> QED BY <1>0, <2>1, JudgesQuiet DEF Looks
<1>5. CASE Peel("peel 1", "create")
  BY <1>0, <1>5, JudgesQuiet DEF Peel, LooksAt
<1>6. CASE CreateDraft
  <2>1. /\ UNCHANGED <<tag, due, settings>> /\ ci.pc = "create"
        /\ ci'.pc \in {"draft", "not published"} /\ ci'.sha = ci.sha
        /\ release'.state = "draft" \/ release' = release
    BY <1>6, DraftMade DEF CreateDraft, RunInv, GreenInv
  <2> QED BY <1>0, <2>1 DEF Quiet, TheTaggers
<1>7. CASE View("draft", "compare", "draft", FALSE)
  BY <1>0, <1>7, JudgesQuiet DEF View, Looks
<1>8. CASE Download("compare", "peel 2")
  BY <1>0, <1>8, JudgesQuiet DEF Download, LooksAt
<1>9. CASE Peel("peel 2", "promote")
  <2>1. release.bundle = Own
    BY <1>9 DEF Peel, LooksAt, Judges, Quiet
  <2> QED BY <1>0, <1>9, <2>1, JudgesQuiet DEF Peel, LooksAt
<1>10. CASE Promote
  <2>1. /\ UNCHANGED <<tag, due, settings>> /\ ci.pc = "promote"
        /\ ci'.pc \in {"public", "not published"} /\ ci'.sha = ci.sha
        /\ release'.bundle = release.bundle
    BY <1>10 DEF Promote, NothingDone, RunInv, GreenInv, CiShape, ReleaseShape
  <2>2. release.bundle.sha = tag.target /\ "immutable releases" \in settings
        /\ tag # NoTag
    <3>1. Own.sha = ci.sha
      BY DEF Own
    <3> QED BY <2>1, <3>1 DEF Quiet
  <2>3. release'.state = "public" => release'.fixed = TRUE
    BY <1>10, <2>2 DEF Promote, NothingDone, RunInv, GreenInv, ReleaseShape
  <2> QED BY <1>0, <2>1, <2>2, <2>3 DEF Quiet, TheTaggers
<1>11. CASE \/ View("public", "compare again", "public", TRUE)
            \/ View("last view", "peel 3", "public", TRUE)
  BY <1>0, <1>11, JudgesQuiet DEF View, Looks
<1>12. CASE Download("compare again", "last view") \/ Peel("peel 3", "green")
  BY <1>0, <1>12, JudgesQuiet DEF Download, Peel, LooksAt
<1>13. CASE Running /\ Looks(ci.pc, "red", FALSE)
  BY <1>0, <1>13, JudgesQuiet DEF Looks, Running
<1> QED BY <1>1, <1>2, <1>3, <1>4, <1>5, <1>6, <1>7, <1>8, <1>9, <1>10, <1>11, <1>12,
           <1>13, <1>14 DEF RunStep

\* Every undisturbed step keeps that.
LEMMA QuietKeeps == QuietInv /\ [ReleaseNext]_allVars => QuietInv'
<1> SUFFICES ASSUME QuietInv, [ReleaseNext]_allVars PROVE QuietInv'
  OBVIOUS
<1>1. RunInv' /\ RunInv /\ TaggerShape /\ meddles \in Nat /\ (meddles = 0 => Quiet)
  BY RunKeeps DEF QuietInv, RunInv, PromoteInv
<1>2. CASE UNCHANGED tagVars
  BY <1>1, <1>2 DEF tagVars, QuietInv, TaggerShape, Quiet, TheTaggers, Own
<1>3. CASE TaggerStep
  <2>1. meddles' = meddles
    BY <1>3 DEF TaggerStep, BeginTagger, BranchAgain, TaggerLooks, Tagger, PushTag
  <2>2. TaggerShape'
    BY <1>1, <1>3 DEF TaggerStep, BeginTagger, BranchAgain, TaggerLooks, Tagger, PushTag,
       TagPushed, TaggerShape
  <2> QED BY <1>1, <1>3, <2>1, <2>2, TaggerQuiet DEF QuietInv
<1>4. CASE RunStep
  <2>1. meddles' = meddles /\ tagger' = tagger
    BY <1>4 DEF RunStep, RunStarts, ReRun, ReRunPublish, NothingDone, Exists, Peel,
       LooksAt, Looks, Judges, CreateDraft, View, Download, Promote, Preflight
  <2> QED BY <1>1, <1>4, <2>1, RunQuiet DEF QuietInv, TaggerShape
<1>5. CASE Meddle
  <2>1. meddles' = meddles + 1 /\ tagger' = tagger
    BY <1>5 DEF Meddle
  <2>2. meddles' # 0
    BY <1>1, <2>1
  <2> QED BY <1>1, <2>1, <2>2 DEF QuietInv, TaggerShape
<1> QED BY <1>2, <1>3, <1>4, <1>5 DEF ReleaseNext, TagStep, allVars

\* Whatever is public was approved, as long as nobody else touches tag, release or
\* settings: for any number of runs and retries, and whatever answers are lost.
THEOREM ApprovedAlways == ReleaseSpec => []PublicIsApproved
<1>1. QuietInv => PublicIsApproved
  <2> SUFFICES ASSUME QuietInv, meddles = 0, release.state = "public"
               PROVE  /\ tag.target = tagger.oid /\ IsVersion(tag.target)
                      /\ release.bundle.sha = tag.target /\ release.fixed
    BY DEF PublicIsApproved
  <2>1. tag # NoTag /\ TheTaggers /\ release.bundle.sha = tag.target
        /\ release.fixed = TRUE
    BY DEF QuietInv, Quiet
  <2>2. tag.target = tagger.oid /\ IsVersion(tagger.oid)
    BY <2>1 DEF TheTaggers
  <2> QED BY <2>1, <2>2
<1> QED BY QuietInit, QuietKeeps, <1>1, PTL DEF ReleaseSpec
------------------------------------------------------------------------------
(* From the source to the release.                                           *)

\* Whatever the remote calls the review branch was pushed by a helper or by
\* somebody else, and the tagger was given what the branch was.
Candidates == {x[2] : x \in pushed}
OriginInv ==
  /\ branch \in Heads \cup {NoCommit} \cup Candidates
  /\ TaggerShape
  /\ tagger.pc # "start" => tagger.oid \in (Heads \cup Candidates) \ {NoCommit}

\* What a release holds came through a build.
BuiltInv == meddles = 0 /\ release.bundle # NoBundle => Builds(release.bundle.sha)

\* What becomes public, as long as nobody touches tag, release or settings and the
\* approved commit is not one that somebody else pushed, is the tree of one commit
\* of the source: of this version, found clean by a build, pushed by a helper, and
\* one that the release jobs could build.
ReleasedIsReviewed ==
  meddles = 0 /\ release.state = "public" /\ tagger.oid \notin Heads =>
    /\ Builds(tag.target)
    /\ \E x \in pushed : /\ x[2] = release.bundle.sha
                         /\ x[1] \in clean /\ Of[x[1]].version = "this"
                         /\ release.bundle.sha.tree = Of[x[1]].tree

\* The branch and the tagger begin with nothing.
LEMMA OriginInit == BranchInit /\ TagInit => OriginInv /\ BuiltInv
BY DEF BranchInit, TagInit, OriginInv, TaggerShape, BuiltInv, NoRelease

\* A helper's candidate is known to have been pushed from then on.
LEMMA OriginBranch ==
  ASSUME OriginInv, [BranchNext]_branchVars, UNCHANGED tagger
  PROVE  OriginInv'
<1>1. pushed \subseteq pushed' /\ branch' \in {branch} \cup Heads \cup {NoCommit} \cup Candidates'
  <2>1. ASSUME NEW p \in Helpers, Push(p)
        PROVE  pushed \subseteq pushed' /\ branch' \in {branch} \cup Candidates'
    <3> DEFINE x == <<helper[p].source, helper[p].commit>>
    <3>1. CASE branch' = helper[p].commit /\ pushed' = pushed \cup {x}
      <4>1. x \in pushed' /\ x[2] = branch'
        BY <3>1
      <4> QED BY <3>1, <4>1 DEF Candidates
    <3>2. CASE UNCHANGED <<branch, pushed>>
      BY <3>2
    <3> QED BY <2>1, <3>1, <3>2 DEF Push, Pushed, Rejected
  <2>2. ASSUME NEW p \in Helpers, HelperStep(p), ~Push(p)
        PROVE  UNCHANGED <<branch, pushed>>
    BY <2>2 DEF HelperStep, BeginHelper, HeadIsExpected, ReadSums, HashZip, ListZip, Extract,
       ReadProvenance, CommitCandidate, IsAbsent, VerifyBranch, HelperDies, Goes, remoteVars
  <2> QED BY <2>1, <2>2 DEF BranchNext, OthersPush, remoteVars, branchVars
<1>2. Candidates \subseteq Candidates'
  BY <1>1 DEF Candidates
<1> QED BY <1>1, <1>2 DEF OriginInv, TaggerShape

\* The tagger takes what the branch is at that moment and keeps it.
LEMMA OriginTag ==
  ASSUME OriginInv, TagStep, UNCHANGED branchVars
  PROVE  OriginInv'
<1>1. branch' = branch /\ Candidates' = Candidates
  BY DEF branchVars, remoteVars, Candidates
<1>2. ASSUME NEW oid \in Heads \cup {branch}, oid # NoCommit, BeginTagger(oid)
      PROVE  OriginInv'
  BY <1>1, <1>2 DEF BeginTagger, OriginInv, TaggerShape
<1>3. ASSUME tagger.pc # "start",
             \/ tagger' = tagger \/ \E then : tagger' = [tagger EXCEPT !.pc = then]
             \/ \E then : tagger' = [tagger EXCEPT !.pc = then, !.moves = moves]
      PROVE  OriginInv'
  <2>1. TaggerShape' /\ tagger'.oid = tagger.oid
    BY <1>3 DEF OriginInv, TaggerShape
  <2> QED BY <1>1, <1>3, <2>1 DEF OriginInv
<1>4. ASSUME NEW from, NEW then, Tagger(from, then), from # "start"
      PROVE  OriginInv'
  BY <1>3, <1>4 DEF Tagger
<1>5. CASE PushTag
  BY <1>3, <1>5 DEF PushTag, TagPushed
<1>9. CASE BranchAgain
  BY <1>3, <1>9 DEF BranchAgain
<1>6. CASE UNCHANGED tagger
  BY <1>1, <1>6 DEF OriginInv, TaggerShape
<1>7. CASE RunStep \/ Meddle
  BY <1>6, <1>7 DEF RunStep, RunStarts, ReRun, ReRunPublish, NothingDone, Exists, Peel,
     LooksAt, Looks, Judges, CreateDraft, View, Download, Promote, Preflight, Meddle
<1>8. CASE TaggerStep
  BY <1>2, <1>4, <1>5, <1>8, <1>9 DEF TaggerStep, TaggerLooks
<1> QED BY <1>7, <1>8 DEF TagStep

\* A draft is made by a run that has built its commit, and nothing else alters
\* what a release holds.
LEMMA BuiltKeeps == RunInv /\ BuiltInv /\ [ReleaseNext]_allVars => BuiltInv'
<1> SUFFICES ASSUME RunInv, BuiltInv, [ReleaseNext]_allVars PROVE BuiltInv'
  OBVIOUS
<1>1. ASSUME UNCHANGED meddles, release' = release \/ release'.bundle = release.bundle
      PROVE  BuiltInv'
  BY <1>1 DEF BuiltInv, Builds
<1>2. CASE CreateDraft
  <2>1. CASE release' # release
    <3>1. release'.bundle \in {Own, NoBundle} /\ ci.pc = "create"
      BY <1>2, <2>1, DraftMade DEF RunInv, GreenInv
    <3>2. Builds(Own.sha)
      BY <3>1 DEF RunInv, GreenInv, AfterBuild, Own
    <3> QED BY <3>1, <3>2 DEF BuiltInv, Builds
  <2> QED BY <1>1, <1>2, <2>1 DEF CreateDraft
<1>3. CASE Promote
  <2>1. release' = release \/ release'.bundle = release.bundle
    BY <1>3 DEF Promote, NothingDone, RunInv, GreenInv, ReleaseShape
  <2> QED BY <1>1, <1>3, <2>1 DEF Promote
<1>4. CASE Meddle
  <2>1. meddles \in Nat /\ meddles' = meddles + 1
    BY <1>4 DEF Meddle, RunInv, PromoteInv
  <2>2. meddles' # 0
    BY <2>1
  <2> QED BY <2>2 DEF BuiltInv
<1>5. CASE RunStep /\ ~CreateDraft /\ ~Promote
  BY <1>1, <1>5 DEF RunStep, RunStarts, ReRun, ReRunPublish, NothingDone, Exists, Peel,
     LooksAt, Looks, Judges, View, Download, Preflight
<1>6. CASE TaggerStep
  BY <1>1, <1>6 DEF TaggerStep, BeginTagger, BranchAgain, TaggerLooks, Tagger, PushTag
<1>7. CASE UNCHANGED tagVars
  BY <1>1, <1>7 DEF tagVars
<1> QED BY <1>2, <1>3, <1>4, <1>5, <1>6, <1>7 DEF ReleaseNext, TagStep, allVars

\* Every step keeps where things come from.
LEMMA OriginKeeps == OriginInv /\ [ReleaseNext]_allVars => OriginInv'
<1>1. OriginInv /\ UNCHANGED allVars => OriginInv'
  BY DEF allVars, tagVars, branchVars, remoteVars, OriginInv, TaggerShape, Candidates
<1>2. OriginInv /\ BranchNext /\ UNCHANGED tagVars => OriginInv'
  BY OriginBranch DEF tagVars
<1> QED BY <1>1, <1>2, OriginTag DEF ReleaseNext

\* The release that becomes public is the reviewed package of a clean commit of
\* the source, for any number of builds into the same directory, of helpers, of
\* pushes by others and of runs, and whatever answers are lost.
THEOREM ReviewedAlways == ReleaseSpec => []ReleasedIsReviewed
<1>1. BranchInv /\ QuietInv /\ OriginInv /\ BuiltInv => ReleasedIsReviewed
  <2> SUFFICES ASSUME BranchInv, QuietInv, OriginInv, BuiltInv,
                      meddles = 0, release.state = "public", tagger.oid \notin Heads
               PROVE  /\ Builds(tag.target)
                      /\ \E x \in pushed : /\ x[2] = release.bundle.sha
                                           /\ x[1] \in clean /\ Of[x[1]].version = "this"
                                           /\ release.bundle.sha.tree = Of[x[1]].tree
    BY DEF ReleasedIsReviewed
  <2>1. tag # NoTag /\ TheTaggers /\ release.bundle.sha = tag.target
    BY DEF QuietInv, Quiet
  <2>2. tag.target = tagger.oid /\ tagger.pc # "start"
    BY <2>1 DEF TheTaggers
  <2>3. tagger.oid \in Candidates /\ tagger.oid # NoCommit
    BY <2>2 DEF OriginInv
  <2>4. release.bundle # NoBundle
    BY <2>1, <2>2, <2>3 DEF NoBundle
  <2>5. PICK x \in pushed : x[2] = tagger.oid
    BY <2>3 DEF Candidates
  <2>6. x[1] \in clean /\ Of[x[1]].version = "this" /\ x[2].tree = Of[x[1]].tree
    BY <2>5 DEF BranchInv, BranchIsPackage
  <2>7. release.bundle.sha = x[2] /\ release.bundle.sha = tag.target
    BY <2>1, <2>2, <2>5
  <2>8. Builds(tag.target)
    BY <2>4, <2>7 DEF BuiltInv
  <2> QED BY <2>6, <2>7, <2>8
<1>2. QuietInv => RunInv
  BY DEF QuietInv
<1>3. BranchInit /\ TagInit => BranchInv /\ QuietInv /\ OriginInv /\ BuiltInv
  BY BranchInvInit, QuietInit, OriginInit
<1>4. BranchInv /\ QuietInv /\ OriginInv /\ BuiltInv /\ [ReleaseNext]_allVars =>
        BranchInv' /\ QuietInv' /\ OriginInv' /\ BuiltInv'
  BY BranchKeeps, BranchPart, QuietKeeps, OriginKeeps, BuiltKeeps, <1>2
<1> QED BY <1>1, <1>3, <1>4, PTL DEF ReleaseSpec

------------------------------------------------------------------------------
(* Types: the output directory, the helpers and the refs.                    *)

Trees == {Of[c].tree : c \in Commits}
Early == {"start", "clone", "head", "sums"}
HelperTyped(h) ==
  /\ h.sums \in Commits \cup {"none"} /\ h.zip \in {"none", h.sums}
  /\ h.tree \in {"none"} \cup Trees /\ h.commit.tree \in {"none"} \cup Trees
  /\ h.pc \in Early => h.zip = "none"

DistTyped ==
  /\ DOMAIN dist = Artifacts
  /\ \A a \in Artifacts : dist[a].commit \in Commits \cup {"none", "torn"}
BuildTyped ==
  /\ DistTyped /\ BuildShape
  /\ build.pc # "idle" => build.commit \in Commits
  /\ clean \subseteq Commits /\ builds \in 0..MaxBuilds
RefsTyped ==
  /\ main \in Heads /\ moves \in 0..MaxMoves
  /\ branch.tree \in {"none"} \cup {m.tree : m \in Heads} \cup Trees
HelpersTyped ==
  /\ DOMAIN helper = Helpers
  /\ \A p \in Helpers : HelperShape(helper[p]) /\ HelperTyped(helper[p])

BranchTypes == BuildTyped /\ RefsTyped /\ HelpersTyped

\* At first there are no files and no branch.
LEMMA BranchTypesInit == BranchInit => BranchTypes
<1> SUFFICES ASSUME BranchInit PROVE BranchTypes
  OBVIOUS
<1>1. BuildTyped
  <2>1. build = NoBuild /\ clean = {} /\ builds = 0 /\ dist = [a \in Artifacts |-> NoFile]
    BY DEF BranchInit, BuildInit
  <2>2. DistTyped
    BY <2>1, FixedRecords DEF DistTyped
  <2>3. BuildShape /\ build.pc = "idle"
    BY <2>1, FixedRecords DEF BuildShape
  <2>4. builds \in 0..MaxBuilds
    BY <2>1, BuildsAssumption
  <2> QED BY <2>1, <2>2, <2>3, <2>4 DEF BuildTyped
<1>2. RefsTyped
  BY HeadsAssumption DEF BranchInit, RefsTyped, NoCommit
<1>3. HelperShape(NoHelper) /\ HelperTyped(NoHelper)
  BY DEF NoHelper, HelperShape, HelperTyped, NoCommit, Early
<1> QED BY <1>1, <1>2, <1>3 DEF BranchTypes, HelpersTyped, BranchInit

\* A file that is written holds nothing, a torn state or the build's commit.
LEMMA PutTyped ==
  ASSUME DistTyped, NEW a \in Artifacts, NEW v, Put(a, v),
         v.commit \in Commits \cup {"none", "torn"}
  PROVE  DistTyped'
BY DEF Put, DistTyped

\* A build's step keeps the types of what it writes.
LEMMA BuildTypes == ASSUME BuildTyped, BuildStep PROVE BuildTyped'
<1> USE DEF BuildTyped
<1>1. ASSUME NEW c \in Commits, NEW allow \in BOOLEAN, Resolve(c, allow)
      PROVE  BuildTyped'
  <2>1. builds' \in 0..MaxBuilds
    BY <1>1, BuildsAssumption DEF Resolve
  <2>2. DistTyped' /\ clean' \subseteq Commits
    BY <1>1 DEF Resolve, DistTyped
  <2>3. BuildShape' /\ (build'.pc # "idle" => build'.commit \in Commits)
    BY <1>1, FixedRecords DEF Resolve, BuildShape
  <2> QED BY <2>1, <2>2, <2>3
<1>2. ASSUME NEW dirty \in BOOLEAN, Measure(dirty)
      PROVE  BuildTyped'
  BY <1>2, FixedRecords DEF Measure, BuildShape, DistTyped
<1>3. ASSUME UNCHANGED <<clean, builds>>, DistTyped', build.pc # "idle",
             \/ build' = NoBuild
             \/ \E then \in Stages : build' = [build EXCEPT !.pc = then]
      PROVE  BuildTyped'
  BY <1>3, FixedRecords DEF BuildShape, Stages
<1>4. ASSUME NEW a \in Artifacts, NEW at \in Stages, NEW then \in Stages,
             OpenFile(a, at, then) \/ Fill(a, at, then)
      PROVE  BuildTyped'
  <2>1. build.pc # "idle" /\ UNCHANGED <<clean, builds>>
        /\ build' = [build EXCEPT !.pc = then]
    BY <1>4 DEF OpenFile, Fill, Stages
  <2>2. CASE OpenFile(a, at, then)
    <3>1. DistTyped'
      BY <2>2, PutTyped, FixedRecords DEF OpenFile
    <3> QED BY <1>3, <2>1, <3>1
  <2>3. CASE Fill(a, at, then)
    <3> DEFINE v == [commit |-> build.commit,
                     dirty |-> IF a = "provenance" THEN build.dirty ELSE FALSE]
    <3>1. v.commit \in Commits /\ Put(a, v)
      BY <2>1, <2>3 DEF Fill
    <3> HIDE DEF v
    <3>2. DistTyped'
      BY <3>1, PutTyped
    <3> QED BY <1>3, <2>1, <3>2
  <2> QED BY <1>4, <2>2, <2>3
<1>5. CASE Inspect
  <2>1. "zip" \in Artifacts /\ "open sums" \in Stages
    BY DEF Artifacts, Stages
  <2>2. DistTyped'
    BY <1>5, <2>1, PutTyped, FixedRecords DEF Inspect, DistTyped
  <2> QED BY <1>3, <1>5, <2>1, <2>2 DEF Inspect
<1>6. CASE JudgeMetadata \/ Exit0 \/ BuildDies
  <2>1. DistTyped' /\ "open sbom" \in Stages
    BY <1>6 DEF JudgeMetadata, Exit0, BuildDies, DistTyped, Stages
  <2> QED BY <1>3, <1>6, <2>1 DEF JudgeMetadata, Exit0, BuildDies
<1>7. CASE Files
  <2> USE DEF Stages, Artifacts
  <2>1. CASE OpenFile("zip", "open zip", "fill zip") BY <2>1, <1>4
  <2>2. CASE Fill("zip", "fill zip", "inspect") BY <2>2, <1>4
  <2>3. CASE OpenFile("sums", "open sums", "fill sums") BY <2>3, <1>4
  <2>4. CASE Fill("sums", "fill sums", "metadata") BY <2>4, <1>4
  <2>5. CASE OpenFile("sbom", "open sbom", "fill sbom") BY <2>5, <1>4
  <2>6. CASE Fill("sbom", "fill sbom", "open last") BY <2>6, <1>4
  <2>7. CASE OpenFile("provenance", "open last", "fill last") BY <2>7, <1>4
  <2>8. CASE Fill("provenance", "fill last", "exit") BY <2>8, <1>4
  <2> QED
    BY <1>5, <1>6, <1>7, <2>1, <2>2, <2>3, <2>4, <2>5, <2>6, <2>7, <2>8 DEF Files
<1> QED BY <1>1, <1>2, <1>6, <1>7 DEF BuildStep

\* So does a helper's.
LEMMA HelperTypes ==
  ASSUME BranchTypes, NEW p \in Helpers, HelperStep(p) PROVE BranchTypes'
<1> USE DEF BranchTypes
<1>1. ASSUME NEW from, NEW h, Goes(p, from, h), HelperShape(h), HelperTyped(h)
      PROVE  BranchTypes'
  <2>1. UNCHANGED <<dist, build, clean, builds, main, branch, moves>>
        /\ helper' = [helper EXCEPT ![p] = h]
    BY <1>1 DEF Goes, buildVars, remoteVars
  <2>2. BuildTyped' /\ RefsTyped'
    BY <2>1 DEF BuildTyped, DistTyped, BuildShape, RefsTyped
  <2>3. HelpersTyped'
    BY <1>1, <2>1 DEF HelpersTyped
  <2> QED BY <2>2, <2>3
<1>2. HelperShape(helper[p]) /\ HelperTyped(helper[p])
  BY DEF HelpersTyped
<1>3. ASSUME NEW then, then \in Early => helper[p].zip = "none"
      PROVE  HelperShape(On(p, then)) /\ HelperTyped(On(p, then))
  BY <1>2, <1>3 DEF On, HelperShape, HelperTyped
<1>4. HelperShape(Fails(p)) /\ HelperTyped(Fails(p))
  BY <1>2 DEF Fails, HelperShape, HelperTyped, Early
<1>5. ASSUME NEW m \in Heads, BeginHelper(p, m) PROVE BranchTypes'
  <2> DEFINE h == [On(p, "clone") EXCEPT !.head = m]
  <2>1. helper[p].pc = "start"
    BY <1>5 DEF BeginHelper, Goes
  <2>2. HelperShape(h) /\ HelperTyped(h)
    BY <1>2, <2>1 DEF On, HelperShape, HelperTyped, Early
  <2> QED BY <1>1, <1>4, <1>5, <2>2 DEF BeginHelper
<1>6. CASE Goes(p, "clone", On(p, "head")) \/ HeadIsExpected(p, "head", "sums")
  <2>1. helper[p].pc \in Early
    BY <1>6 DEF HeadIsExpected, Goes, Early
  <2>2. helper[p].zip = "none"
    BY <1>2, <2>1 DEF HelperTyped
  <2> QED BY <1>1, <1>3, <1>4, <1>6, <2>2 DEF HeadIsExpected
<1>7. ASSUME NEW a \in Artifacts, Whole(a) PROVE dist[a].commit \in Commits
  BY <1>7 DEF Whole, BuildTyped, DistTyped
<1>8. CASE ReadSums(p)
  <2> DEFINE h == [On(p, "hash") EXCEPT !.sums = dist["sums"].commit]
  <2>1. helper[p].zip = "none"
    BY <1>2, <1>8 DEF ReadSums, Goes, HelperTyped, Early
  <2>2. Whole("sums") => dist["sums"].commit \in Commits
    BY <1>7 DEF Artifacts
  <2>3. Whole("sums") => HelperShape(h) /\ HelperTyped(h)
    BY <1>2, <2>1, <2>2 DEF On, HelperShape, HelperTyped, Early
  <2> QED BY <1>1, <1>4, <1>8, <2>3 DEF ReadSums
<1>9. CASE HashZip(p)
  <2> DEFINE h == [On(p, "inspect") EXCEPT !.zip = dist["zip"].commit]
  <2>1. dist["zip"].commit = helper[p].sums => HelperShape(h) /\ HelperTyped(h)
    BY <1>2 DEF On, HelperShape, HelperTyped, Early
  <2> QED BY <1>1, <1>4, <1>9, <2>1 DEF HashZip
<1>16. CASE ListZip(p)
  BY <1>1, <1>3, <1>4, <1>16 DEF ListZip, Early
<1>10. CASE Extract(p)
  <2> DEFINE t == Of[dist["zip"].commit].tree
             h == [On(p, "provenance") EXCEPT !.tree = t]
  <2>1. Whole("zip") => t \in Trees
    BY <1>7 DEF Artifacts, Trees
  <2> HIDE DEF t
  <2>2. Whole("zip") => HelperShape(h) /\ HelperTyped(h)
    BY <1>2, <2>1 DEF On, HelperShape, HelperTyped, Early
  <2> USE DEF t
  <2> QED BY <1>1, <1>4, <1>10, <2>2 DEF Extract
<1>11. CASE ReadProvenance(p)
  <2> DEFINE h == [On(p, "commit") EXCEPT !.source = dist["provenance"].commit]
  <2>1. HelperShape(h) /\ HelperTyped(h)
    BY <1>2 DEF On, HelperShape, HelperTyped, Early
  <2> QED BY <1>1, <1>4, <1>11, <2>1 DEF ReadProvenance
<1>12. CASE CommitCandidate(p)
  <2> DEFINE h == [On(p, "head again") EXCEPT
                     !.commit = Candidate(helper[p].head, helper[p].tree)]
  <2>1. HelperShape(h) /\ HelperTyped(h)
    BY <1>2 DEF On, HelperShape, HelperTyped, Early, Candidate
  <2> QED BY <1>1, <1>4, <1>12, <2>1 DEF CommitCandidate
<1>13. CASE HeadIsExpected(p, "head again", "absent") \/ IsAbsent(p) \/ VerifyBranch(p)
  BY <1>1, <1>3, <1>4, <1>13 DEF HeadIsExpected, IsAbsent, VerifyBranch, Early
<1>14. CASE Push(p)
  <2>1. UNCHANGED <<dist, build, clean, builds, main, moves>>
    BY <1>14 DEF Push, buildVars
  <2>2. branch' \in {branch, helper[p].commit}
    BY <1>14 DEF Push, Pushed, Rejected
  <2>3. PICK h : helper' = [helper EXCEPT ![p] = h] /\ HelperShape(h) /\ HelperTyped(h)
    BY <1>3, <1>4, <1>14 DEF Push, Pushed, Rejected, Early
  <2>4. BuildTyped' /\ RefsTyped'
    BY <1>2, <2>1, <2>2 DEF BuildTyped, DistTyped, BuildShape, RefsTyped, HelperTyped
  <2>5. HelpersTyped'
    BY <2>3 DEF HelpersTyped
  <2> QED BY <2>4, <2>5
<1>15. CASE HelperDies(p)
  BY <1>1, <1>4, <1>15 DEF HelperDies
<1> QED
  BY <1>5, <1>6, <1>8, <1>9, <1>10, <1>11, <1>12, <1>13, <1>14, <1>15,
     <1>16 DEF HelperStep

\* The refs, the directory and the helpers keep their types.
THEOREM BranchTypesAlways == ReleaseSpec => []BranchTypeOK
<1>1. BranchTypes => BranchTypeOK
  BY DEF BranchTypes, BranchTypeOK, BuildTyped, DistTyped, RefsTyped, HelpersTyped,
     HelperTyped, Trees
<1>2. BranchTypes /\ [BranchNext]_branchVars => BranchTypes'
  <2> SUFFICES ASSUME BranchTypes, [BranchNext]_branchVars PROVE BranchTypes'
    OBVIOUS
  <2>1. ASSUME NEW p \in Helpers, HelperStep(p) PROVE BranchTypes'
    BY <2>1, HelperTypes
  <2>2. CASE OthersPush
    <3>1. /\ UNCHANGED <<dist, build, clean, builds, helper>>
          /\ moves < MaxMoves /\ moves' = moves + 1
          /\ main' \in Heads \cup {main} /\ branch' \in Heads \cup {NoCommit, branch}
      BY <2>2 DEF OthersPush, buildVars
    <3>2. RefsTyped'
      BY <3>1, HeadsAssumption DEF BranchTypes, RefsTyped, NoCommit
    <3> QED BY <3>1, <3>2 DEF BranchTypes, BuildTyped, DistTyped, BuildShape, HelpersTyped
  <2>3. CASE BuildStep /\ UNCHANGED <<remoteVars, helper, pushed>>
    BY <2>3, BuildTypes DEF BranchTypes, remoteVars, RefsTyped, HelpersTyped
  <2>4. CASE UNCHANGED branchVars
    BY <2>4 DEF branchVars, buildVars, remoteVars, BranchTypes, BuildTyped, DistTyped,
       BuildShape, RefsTyped, HelpersTyped
  <2> QED BY <2>1, <2>2, <2>3, <2>4 DEF BranchNext
<1> QED BY BranchTypesInit, BranchPart, <1>1, <1>2, PTL DEF ReleaseSpec

------------------------------------------------------------------------------
(* Types: the tag, the run and the release.                                  *)

\* A run compared the draft with its bundle, so there is one to make public.
TagTyped ==
  /\ tag.target \in Heads \cup {NoCommit, tagger.oid}
  /\ tagger.pc = "start" => tagger.oid = NoCommit
RunTyped ==
  /\ ci.n \in 0..MaxRuns /\ (ci.pc # "none" => ci.n # 0)
  /\ settings \subseteq Protections /\ touched \subseteq {"tag", "draft"}
ReleaseTyped ==
  /\ release.bundle.n \in 0..ci.n
  /\ release.state = "none" => release = NoRelease
  /\ release.state = "public" => release.bundle # NoBundle
  /\ ci.pc \in {"peel 2", "promote"} /\ release.state # "none" =>
       release.bundle # NoBundle

TagTypes == RunInv /\ TaggerShape /\ TagTyped /\ RunTyped /\ ReleaseTyped

\* At first there is no tag, no run and no release.
LEMMA TagTypesInit == TagInit => TagTypes
<1> SUFFICES ASSUME TagInit PROVE TagTypes
  OBVIOUS
<1>1. /\ tag.target = NoCommit /\ tagger.oid = NoCommit /\ TaggerShape
      /\ ci.n = 0 /\ ci.pc = "none" /\ settings \subseteq Protections /\ touched = {}
  BY DEF TagInit, NoTag, TaggerShape
<1>2. release = NoRelease /\ release.state = "none" /\ release.bundle.n = 0
  BY DEF TagInit, NoRelease, NoBundle
<1> QED BY <1>1, <1>2, RunInvInit, RunsAssumption
        DEF TagTypes, TagTyped, RunTyped, ReleaseTyped

\* A bundle that a run or somebody else has signed is one.
LEMMA BundlesAreSome ==
  ASSUME RunTyped
  PROVE  /\ \A b \in Bundles : b # NoBundle /\ b.n = 0
         /\ ci.pc # "none" => Own # NoBundle /\ Own.n = ci.n
         /\ NoBundle.n = 0
BY HeadsAssumption DEF Bundles, NoBundle, Own, RunTyped

\* The tagger's steps change the tag to its own commit or not at all.
LEMMA TaggerTyped ==
  ASSUME TagTypes, TaggerStep PROVE TaggerShape' /\ TagTyped'
<1> USE DEF TagTypes
<1>1. ASSUME NEW oid, BeginTagger(oid) PROVE TaggerShape' /\ TagTyped'
  BY <1>1 DEF BeginTagger, TaggerShape, TagTyped
<1>2. ASSUME NEW from, NEW then, Tagger(from, then), then # "start"
      PROVE  TaggerShape' /\ TagTyped'
  BY <1>2 DEF Tagger, TaggerShape, TagTyped
<1>3. CASE PushTag
  <2>1. /\ TaggerShape' /\ tagger'.oid = tagger.oid /\ tagger'.pc \in {"verify", "failed"}
        /\ tag' = tag \/ tag' = [target |-> tagger.oid, annotated |-> TRUE]
    BY <1>3 DEF PushTag, TagPushed, SetsTag, TaggerShape
  <2> QED BY <2>1 DEF TagTyped
<1>4. CASE BranchAgain
  BY <1>4 DEF BranchAgain, TaggerShape, TagTyped
<1> QED BY <1>1, <1>2, <1>3, <1>4 DEF TaggerStep, TaggerLooks

\* A judgement of the run keeps the types, and reaches the promotion only with a
\* bundle.
LEMMA JudgesTyped ==
  ASSUME TagTypes, NEW from, NEW then, NEW fine, Judges(from, then, fine),
         from # "none", touched' \subseteq touched,
         fine /\ then \in {"peel 2", "promote"} =>
           release.bundle # NoBundle \/ release.state = "none"
  PROVE  RunTyped' /\ ReleaseTyped'
<1>1. /\ ci.pc = from /\ UNCHANGED <<release, settings>>
      /\ ci'.pc = IF fine THEN then ELSE Red(from)
      /\ ci'.n = ci.n
  BY DEF Judges, TagTypes, RunInv, GreenInv, CiShape
<1>2. RunTyped'
  BY <1>1 DEF TagTypes, RunTyped
<1>3. ci'.pc \in {"peel 2", "promote"} /\ release.state # "none" =>
        release.bundle # NoBundle
  <2>1. CASE fine
    BY <1>1, <2>1
  <2>2. CASE ~fine
    <3>1. ci'.pc \in {"red", "not published"}
      BY <1>1, <2>2 DEF Red
    <3> QED BY <3>1
  <2> QED BY <2>1, <2>2
<1>4. ReleaseTyped'
  <2>1. ReleaseTyped
    BY DEF TagTypes
  <2> QED BY <1>1, <1>3, <2>1 DEF ReleaseTyped
<1> QED BY <1>2, <1>4

\* The run's steps keep the types.
LEMMA RunTypes == ASSUME TagTypes, RunStep PROVE RunTyped' /\ ReleaseTyped'
<1>0. CiShape /\ ReleaseShape /\ RunTyped /\ ReleaseTyped
  BY DEF TagTypes, RunInv, GreenInv
<1>1. ASSUME ci'.pc = "tag check", ci'.n = ci.n + 1, ci.n < MaxRuns,
             UNCHANGED <<release, settings, touched>>
      PROVE  RunTyped' /\ ReleaseTyped'
  <2> DEFINE n == ci.n
             k == release.bundle.n
  <2>0. n \in 0..MaxRuns /\ n < MaxRuns /\ k \in 0..n /\ ci'.n = n + 1
    BY <1>0, <1>1 DEF RunTyped, ReleaseTyped
  <2> HIDE DEF n, k
  <2>1. ci'.n \in 0..MaxRuns /\ ci'.n # 0
    BY <2>0, RunsAssumption
  <2>2. k \in 0..ci'.n
    BY <2>0, RunsAssumption
  <2> USE DEF k
  <2> QED BY <1>0, <1>1, <2>1, <2>2 DEF RunTyped, ReleaseTyped
<1>2. CASE RunStarts
  <2>1. ci' = [pc |-> "tag check", sha |-> due, n |-> ci.n + 1]
    BY <1>2 DEF RunStarts
  <2> DEFINE k == ci.n + 1
  <2>2. ci' = [pc |-> "tag check", sha |-> due, n |-> k]
    BY <2>1
  <2> HIDE DEF k
  <2>3. ci'.pc = "tag check" /\ ci'.n = k
    BY <2>2
  <2> USE DEF k
  <2> QED BY <1>1, <1>2, <2>3 DEF RunStarts
<1>3. CASE ReRun
  <2>1. ci'.pc = "tag check" /\ ci'.n = ci.n + 1
    BY <1>0, <1>3 DEF ReRun, CiShape
  <2> QED BY <1>1, <1>3, <2>1 DEF ReRun
<1>13. CASE ReRunPublish
  <2>1. ci'.pc = "setting" /\ ci'.n = ci.n /\ ci.pc # "none"
        /\ UNCHANGED <<release, settings, touched>>
    BY <1>0, <1>13 DEF ReRunPublish, CiShape
  <2> QED BY <1>0, <2>1 DEF RunTyped, ReleaseTyped
<1>4. CASE \/ Looks("tag check", "build", TagIsMine /\ IsVersion(ci.sha))
           \/ Looks("build", "setting", Builds(ci.sha))
           \/ Preflight("setting", "ruleset", "immutable releases")
           \/ Preflight("ruleset", "exists", "tag ruleset")
  BY <1>4, JudgesTyped DEF Looks, Preflight
<1>5. CASE Exists
  <2>1. PICK seen \in BOOLEAN : Looks("exists", "peel 1", ~seen)
    BY <1>5 DEF Exists
  <2> QED BY <2>1, JudgesTyped DEF Looks
<1>6. CASE Peel("peel 1", "create") \/ Peel("peel 3", "green")
  BY <1>6, JudgesTyped DEF Peel, LooksAt
<1>7. CASE \/ View("draft", "compare", "draft", FALSE)
           \/ View("public", "compare again", "public", TRUE)
           \/ View("last view", "peel 3", "public", TRUE)
  BY <1>7, JudgesTyped DEF View, Looks
<1>8. CASE Download("compare", "peel 2") \/ Download("compare again", "last view")
  <2>1. ci.pc # "none"
    BY <1>8 DEF Download, LooksAt, Judges
  <2>2. Own # NoBundle
    BY <1>0, <2>1, BundlesAreSome
  <2> QED BY <1>8, <2>2, JudgesTyped DEF Download, LooksAt
<1>9. CASE Peel("peel 2", "promote")
  <2>1. release.bundle # NoBundle \/ release.state = "none"
    BY <1>0, <1>9 DEF Peel, LooksAt, Judges, ReleaseTyped
  <2> QED BY <1>9, <2>1, JudgesTyped DEF Peel, LooksAt
<1>10. CASE Running /\ Looks(ci.pc, "red", FALSE)
  BY <1>10, JudgesTyped DEF Looks, Running
<1>11. CASE CreateDraft
  <2>1. /\ UNCHANGED <<settings, touched>> /\ ci.pc = "create"
        /\ ci'.n = ci.n /\ ci'.pc \in {"draft", "not published"}
    BY <1>0, <1>11, DraftMade DEF CreateDraft
  <2>2. RunTyped'
    BY <1>0, <2>1 DEF RunTyped
  <2>3. \/ release' = release
        \/ release'.state = "draft" /\ release'.bundle \in {Own, NoBundle}
    BY <1>0, <1>11, DraftMade
  <2>4. Own.n = ci.n /\ NoBundle.n = 0
    BY <1>0, <2>1, BundlesAreSome
  <2> DEFINE n == ci.n
             k == release'.bundle.n
  <2>5. n \in 0..MaxRuns /\ (k \in 0..n \/ k = n \/ k = 0) /\ ci'.n = n
    BY <1>0, <2>1, <2>3, <2>4 DEF RunTyped, ReleaseTyped
  <2> HIDE DEF n, k
  <2>6. k \in 0..n
    BY <2>5, RunsAssumption
  <2> USE DEF k
  <2> QED BY <1>0, <2>1, <2>2, <2>3, <2>5, <2>6 DEF ReleaseTyped
<1>12. CASE Promote
  <2>1. /\ UNCHANGED <<settings, touched>> /\ ci.pc = "promote"
        /\ ci'.n = ci.n /\ ci'.pc \in {"public", "not published"}
    BY <1>0, <1>12 DEF Promote, NothingDone, CiShape
  <2>2. RunTyped'
    BY <1>0, <2>1 DEF RunTyped
  <2>3. \/ release' = release
        \/ /\ release.state # "none" /\ release'.state = "public"
           /\ release'.bundle = release.bundle
    BY <1>0, <1>12 DEF Promote, NothingDone, ReleaseShape
  <2> QED BY <1>0, <2>1, <2>2, <2>3 DEF ReleaseTyped
<1> QED BY <1>2, <1>3, <1>4, <1>5, <1>6, <1>7, <1>8, <1>9, <1>10, <1>11, <1>12, <1>13
        DEF RunStep

\* So do others.
LEMMA MeddleTyped ==
  ASSUME TagTypes, Meddle PROVE TaggerShape' /\ TagTyped' /\ RunTyped' /\ ReleaseTyped'
<1>0. TaggerShape /\ TagTyped /\ RunTyped /\ ReleaseTyped
  BY DEF TagTypes
<1>1. UNCHANGED <<tagger, ci>>
  BY DEF Meddle
<1>2. CASE MovesTag
  <2>1. tag'.target \in Heads \cup {NoCommit}
    BY <1>2 DEF MovesTag, SetsTag, NoTag
  <2>2. UNCHANGED <<release, settings>> /\ touched' = touched \cup {"tag"}
    BY <1>2 DEF MovesTag
  <2> QED BY <1>0, <1>1, <2>1, <2>2 DEF TaggerShape, TagTyped, RunTyped, ReleaseTyped
<1>3. CASE TouchesRelease
  <2>1. UNCHANGED <<tag, settings>> /\ touched' = touched \cup {"draft"}
    BY <1>3 DEF TouchesRelease
  <2>2. TaggerShape' /\ TagTyped' /\ RunTyped' /\ ci.n \in Nat
    BY <1>0, <1>1, <2>1, RunsAssumption DEF TaggerShape, TagTyped, RunTyped
  <2>3. CASE release' = NoRelease
    <3>1. release'.state = "none" /\ release'.bundle.n = 0
      BY <2>3 DEF NoRelease, NoBundle
    <3> QED BY <1>1, <2>2, <2>3, <3>1 DEF ReleaseTyped
  <2>4. CASE release' # NoRelease
    <3>1. release'.bundle \in Bundles /\ release'.state \in {"draft", "public"}
      <4>1. PICK b \in Bundles, s \in {"draft", "public"} :
              release' = [state |-> s, bundle |-> b,
                          fixed |-> s = "public" /\ "immutable releases" \in settings]
        BY <1>3, <2>4 DEF TouchesRelease
      <4> DEFINE x == s = "public" /\ "immutable releases" \in settings
      <4>2. release' = [state |-> s, bundle |-> b, fixed |-> x]
        BY <4>1
      <4> HIDE DEF x
      <4> QED BY <4>2
    <3>2. release'.bundle # NoBundle /\ release'.bundle.n = 0
      BY <1>0, <3>1, BundlesAreSome
    <3>3. release'.bundle.n \in 0..ci.n
      BY <2>2, <3>2
    <3> QED BY <1>1, <2>2, <3>1, <3>2, <3>3 DEF ReleaseTyped
  <2> QED BY <2>3, <2>4
<1>4. CASE ChangesSettings
  BY <1>0, <1>1, <1>4
     DEF ChangesSettings, TaggerShape, TagTyped, RunTyped, ReleaseTyped
<1> QED BY <1>2, <1>3, <1>4 DEF Meddle

\* The tag is what others or the tagger made it, attempts are counted within their
\* bound, and whatever is public holds a bundle, of this or an earlier attempt.
THEOREM TagTypesAlways == ReleaseSpec => []TagTypeOK
<1>1. TagTypes => TagTypeOK
  BY DEF TagTypes, TagTyped, RunTyped, ReleaseTyped, TagTypeOK
<1>2. TagTypes /\ [ReleaseNext]_allVars => TagTypes'
  <2> SUFFICES ASSUME TagTypes, [ReleaseNext]_allVars PROVE TagTypes'
    OBVIOUS
  <2>1. RunInv'
    BY RunKeeps DEF TagTypes
  <2>2. CASE TaggerStep
    <3>1. UNCHANGED <<ci, release, settings, touched>>
      BY <2>2 DEF TaggerStep, BeginTagger, BranchAgain, TaggerLooks, Tagger, PushTag
    <3> QED BY <2>1, <2>2, <3>1, TaggerTyped DEF TagTypes, RunTyped, ReleaseTyped
  <2>3. CASE RunStep
    <3>1. UNCHANGED <<tag, tagger>>
      BY <2>3 DEF RunStep, RunStarts, ReRun, ReRunPublish, NothingDone, Exists, Peel,
         LooksAt, Looks, Judges, CreateDraft, View, Download, Promote, Preflight
    <3> QED BY <2>1, <2>3, <3>1, RunTypes DEF TagTypes, TaggerShape, TagTyped
  <2>4. CASE Meddle
    BY <2>1, <2>4, MeddleTyped DEF TagTypes
  <2>5. CASE UNCHANGED tagVars
    BY <2>1, <2>5 DEF tagVars, TagTypes, TaggerShape, TagTyped, RunTyped, ReleaseTyped
  <2> QED BY <2>2, <2>3, <2>4, <2>5 DEF ReleaseNext, TagStep, allVars
<1> QED BY TagTypesInit, <1>1, <1>2, PTL DEF ReleaseSpec
==============================================================================
