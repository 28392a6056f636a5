------------------------------ MODULE ReleaseTag ------------------------------
(* publish-approved-tag and the release jobs of ci.yml: the tag of an approved *)
(* commit, the runs that its push starts, and the release they publish, while  *)
(* others may move the tag, touch the release and change the settings.  Runs   *)
(* of one tag are one concurrency group: a new one cancels the one before it.  *)
EXTENDS ReleaseBranch

CONSTANTS MaxRuns,     \* attempts of the release jobs
          MaxMeddles   \* interventions by others
ASSUME RunsAssumption == MaxRuns \in Nat

VARIABLES tag,         \* the remote's tag; NoTag: absent
          due,         \* a push of the tag that has not started its run
          tagger,      \* [pc, oid, moves]: of others, before its last look
          ci,          \* the tag's run: [pc, sha, n], n counting what it built
          release,     \* [state, bundle, fixed]
          settings,    \* which of the two protections are on
          touched,     \* what others have changed since the run looked last
          meddles

tagVars == <<tag, due, tagger, ci, release, settings, touched, meddles>>
allVars == <<branchVars, tagVars>>

NoTag == [target |-> NoCommit, annotated |-> FALSE]
NoBundle == [sha |-> NoCommit, n |-> 0]
NoRelease == [state |-> "none", bundle |-> NoBundle, fixed |-> FALSE]
Protections == {"immutable releases", "tag ruleset"}

\* marketplace.json is part of the tree.
IsVersion(commit) ==
  \E c \in Commits : Of[c].tree = commit.tree /\ Of[c].version = "this"
\* The tagged tree passes the tests, and the builder takes it.
Builds(commit) ==
  \E c \in Commits : Of[c] = [tree |-> commit.tree, version |-> "this",
                              cut |-> TRUE, fits |-> TRUE, meta |-> TRUE]

TagInit ==
  /\ tag = NoTag /\ due = NoCommit
  /\ tagger = [pc |-> "start", oid |-> NoCommit, moves |-> 0]
  /\ ci = [pc |-> "none", sha |-> NoCommit, n |-> 0]
  /\ release = NoRelease /\ settings \in SUBSET Protections
  /\ touched = {} /\ meddles = 0

------------------------------------------------------------------------------
(* The tagger.                                                               *)

Tagger(from, then) ==
  /\ tagger.pc = from /\ tagger' = [tagger EXCEPT !.pc = then]
  /\ UNCHANGED <<tag, due, ci, release, settings, touched, meddles>>

TaggerLooks(from, then, fine) == Tagger(from, IF fine THEN then ELSE "failed")

BeginTagger(oid) ==
  /\ tagger.pc = "start"
  /\ tagger' = [tagger EXCEPT !.pc = IF branch = oid THEN "absent" ELSE "failed",
                              !.oid = oid]
  /\ UNCHANGED <<tag, due, ci, release, settings, touched, meddles>>

\* A fresh clone has what the branches of the remote name, and its history.
Cloned(oid) == \/ oid \in {main, branch}
               \/ oid.name \in {main.parent, branch.parent}

\* Mutant: the branch is not asked for again before the push.
BranchOnce ==
  /\ tagger.pc = "branch again"
  /\ tagger' = [tagger EXCEPT !.pc = "push", !.moves = moves]
  /\ UNCHANGED <<tag, due, ci, release, settings, touched, meddles>>

\* The review branch must still be at the approved commit.
BranchAgain ==
  /\ tagger.pc = "branch again"
  /\ tagger' = [tagger EXCEPT !.pc = IF branch = tagger.oid THEN "push" ELSE "failed",
                              !.moves = moves]
  /\ UNCHANGED <<tag, due, ci, release, settings, touched, meddles>>

\* A ref that is created or moved is a push event.
SetsTag(t) == tag' = t /\ due' = t.target

TagPushed(then) ==
  /\ SetsTag([target |-> tagger.oid, annotated |-> TRUE])
  /\ tagger' = [tagger EXCEPT !.pc = then]

\* Mutant: the push is a forced one.
PushTagForced ==
  /\ tagger.pc = "push"
  /\ TagPushed("verify") \/ TagPushed("failed")
  /\ UNCHANGED <<ci, release, settings, touched, meddles>>

\* Not forced: an existing tag is rejected.  The answer can be lost.
PushTag ==
  /\ tagger.pc = "push"
  /\ IF tag = NoTag THEN TagPushed("verify") \/ TagPushed("failed")
     ELSE tagger' = [tagger EXCEPT !.pc = "failed"] /\ UNCHANGED <<tag, due>>
  /\ UNCHANGED <<ci, release, settings, touched, meddles>>

TaggerStep ==
  \/ \E oid \in Heads \cup {branch} : oid # NoCommit /\ BeginTagger(oid)
  \/ TaggerLooks("absent", "clone", tag = NoTag)
  \/ TaggerLooks("clone", "still absent", Cloned(tagger.oid) /\ IsVersion(tagger.oid))
  \/ TaggerLooks("still absent", "branch again", tag = NoTag)
  \/ BranchAgain \/ PushTag
  \/ TaggerLooks("verify", "done", tag = [target |-> tagger.oid, annotated |-> TRUE])
  \/ tagger.pc \notin {"start", "done", "failed"} /\ Tagger(tagger.pc, "failed")

------------------------------------------------------------------------------
(* A run: release-build, release-sign and release-publish.  What it signs is   *)
(* its own bundle of its own commit, and the artifact store hands it over.     *)

Own == [sha |-> ci.sha, n |-> ci.n]
Running == ci.pc \notin {"none", "red", "not published", "green"}

\* The failure of release-publish is one of its own: what is signed stays.
Red(from) == IF from \in {"tag check", "build"} THEN "red" ELSE "not published"

\* A push cancels the run before it, wherever it is.
RunStarts ==
  /\ due # NoCommit /\ ci.n < MaxRuns
  /\ ci' = [pc |-> "tag check", sha |-> due, n |-> ci.n + 1]
  /\ due' = NoCommit
  /\ UNCHANGED <<tag, tagger, release, settings, touched, meddles>>

\* All jobs of the run once more.
ReRun ==
  /\ ci.pc \in {"red", "not published", "green"} /\ ci.n < MaxRuns
  /\ ci' = [ci EXCEPT !.pc = "tag check", !.n = @ + 1]
  /\ UNCHANGED <<tag, due, tagger, release, settings, touched, meddles>>

\* Only the failed job once more, with the bundle that is there.
ReRunPublish ==
  /\ ci.pc = "not published" /\ ci' = [ci EXCEPT !.pc = "setting"]
  /\ UNCHANGED <<tag, due, tagger, release, settings, touched, meddles>>

Judges(from, then, fine) ==
  /\ ci.pc = from /\ ci' = [ci EXCEPT !.pc = IF fine THEN then ELSE Red(from)]
  /\ UNCHANGED <<tag, due, tagger, release, settings, meddles>>

Looks(from, then, fine) == Judges(from, then, fine) /\ UNCHANGED touched
LooksAt(thing, from, then, fine) ==
  Judges(from, then, fine) /\ touched' = touched \ {thing}

TagIsMine == tag = [target |-> ci.sha, annotated |-> TRUE]

\* Mutant: the promotion is not followed by another look at the tag.
PeelOnce(from, then) == LooksAt("tag", from, then, from = "peel 3" \/ TagIsMine)

\* verify_api_annotated_tag_peel
Peel(from, then) == LooksAt("tag", from, then, TagIsMine)

\* Mutant: an asset's name is enough.
DownloadNames(from, then) == LooksAt("draft", from, then, release.state # "none")

\* Every asset is fetched and compared with the signed bundle.
Download(from, then) == LooksAt("draft", from, then, release.bundle = Own)

\* Mutant: whether the public release is immutable is not looked at.
ViewStateOnly(from, then, state, fixed) == Looks(from, then, release.state = state)

\* gh release view: draft or public, immutable or not, the names of its assets.
View(from, then, state, fixed) ==
  Looks(from, then, /\ release.state = state /\ release.fixed = fixed
                    /\ release.bundle # NoBundle)

\* The query also fails when GitHub cannot be asked.
Exists == \E seen \in {FALSE, release.state # "none"} : Looks("exists", "peel 1", ~seen)

NothingDone == release' = release /\ ci' = [ci EXCEPT !.pc = "not published"]

\* --verify-tag; the upload can end half-way and leave the draft.  A tag can have
\* several drafts: of two, the run goes on to see either the new or the old one.
CreateDraft ==
  /\ ci.pc = "create"
  /\ \/ (tag = NoTag \/ release.state = "public") /\ NothingDone
     \/ /\ tag # NoTag /\ release.state # "public"
        /\ \E b \in {Own, NoBundle} :
             /\ release' = [state |-> "draft", bundle |-> b, fixed |-> FALSE]
             /\ ci' = [ci EXCEPT !.pc = IF b = Own THEN "draft" ELSE "not published"]
     \/ /\ tag # NoTag /\ release.state = "draft" /\ release' = release
        /\ \E then \in {"draft", "not published"} : ci' = [ci EXCEPT !.pc = then]
  /\ UNCHANGED <<tag, due, tagger, settings, touched, meddles>>

\* gh release edit --draft=false.  Immutability is the repository's setting at
\* that moment.  The answer can be lost.
Promote ==
  /\ ci.pc = "promote"
  /\ IF release.state = "none" THEN NothingDone
     ELSE /\ release' = [release EXCEPT !.state = "public",
                           !.fixed = @ \/ "immutable releases" \in settings]
          /\ \E then \in {"public", "not published"} : ci' = [ci EXCEPT !.pc = then]
  /\ UNCHANGED <<tag, due, tagger, settings, touched, meddles>>

\* Mutant: the repository's setting is read and not required.
PreflightReads(from, then, protection) == Looks(from, then, TRUE)

Preflight(from, then, protection) == Looks(from, then, protection \in settings)

RunStep ==
  \/ RunStarts \/ ReRun \/ ReRunPublish
  \/ Looks("tag check", "build", TagIsMine /\ IsVersion(ci.sha))
  \/ Looks("build", "setting", Builds(ci.sha))
  \/ Preflight("setting", "ruleset", "immutable releases")
  \/ Preflight("ruleset", "exists", "tag ruleset")
  \/ Exists \/ Peel("peel 1", "create") \/ CreateDraft
  \/ View("draft", "compare", "draft", FALSE) \/ Download("compare", "peel 2")
  \/ Peel("peel 2", "promote") \/ Promote
  \/ View("public", "compare again", "public", TRUE)
  \/ Download("compare again", "last view")
  \/ View("last view", "peel 3", "public", TRUE) \/ Peel("peel 3", "green")
  \/ Running /\ Looks(ci.pc, "red", FALSE)     \* cancelled, timed out, failed

------------------------------------------------------------------------------
(* Others.  A public immutable release cannot be changed and holds its tag; a  *)
(* ruleset holds an existing tag.                                             *)

Held == (release.state = "public" /\ release.fixed)
        \/ (tag # NoTag /\ "tag ruleset" \in settings)
Bundles == [sha : Heads, n : {0}]        \* what others upload

MovesTag ==
  /\ ~Held
  /\ \/ \E m \in Heads, a \in BOOLEAN : SetsTag([target |-> m, annotated |-> a])
     \/ tag' = NoTag /\ due' = due
  /\ tag' # tag
  /\ touched' = touched \cup {"tag"} /\ UNCHANGED <<release, settings>>

TouchesRelease ==
  /\ ~(release.state = "public" /\ release.fixed)
  /\ \/ release' = NoRelease
     \/ \E b \in Bundles, s \in {"draft", "public"} :
          release' = [state |-> s, bundle |-> b,
                      fixed |-> s = "public" /\ "immutable releases" \in settings]
  /\ release' # release
  /\ touched' = touched \cup {"draft"} /\ UNCHANGED <<tag, due, settings>>

ChangesSettings ==
  /\ settings' \in SUBSET Protections /\ settings' # settings
  /\ UNCHANGED <<tag, due, release, touched>>

Meddle ==
  /\ meddles < MaxMeddles /\ meddles' = meddles + 1
  /\ MovesTag \/ TouchesRelease \/ ChangesSettings
  /\ UNCHANGED <<tagger, ci>>

TagStep == TaggerStep \/ RunStep \/ Meddle

ReleaseNext == \/ BranchNext /\ UNCHANGED tagVars
               \/ TagStep /\ UNCHANGED branchVars
ReleaseSpec == BranchInit /\ TagInit /\ [][ReleaseNext]_allVars

------------------------------------------------------------------------------
(* Properties.                                                               *)

TagTypeOK ==
  /\ tag.target \in Heads \cup {NoCommit, tagger.oid} /\ ci.n \in 0..MaxRuns
  /\ settings \subseteq Protections /\ touched \subseteq {"tag", "draft"}
  /\ release.bundle.n \in 0..ci.n
  /\ release.state = "none" => release = NoRelease
  /\ release.state = "public" => release.bundle # NoBundle

\* A run that is green stands for a public release that nobody can change any
\* more: the signed bundle of this very attempt, built from the commit that the
\* annotated tag names.  Neither a moved tag, nor a draft somebody touched, nor
\* a protection switched off in between ends in a green run without it.
GreenIsGood ==
  ci.pc = "green" =>
    /\ release = [state |-> "public", bundle |-> Own, fixed |-> TRUE]
    /\ TagIsMine /\ Builds(ci.sha)

\* Unless somebody touches draft or tag after the run has looked at it for the
\* last time, a run makes nothing public but its own bundle, under its own tag.
PublishesItsOwn ==
  [][ci.pc = "promote" /\ ci'.n = ci.n /\ release' # release
       /\ release'.state = "public" /\ meddles' = meddles /\ touched = {}
     => release'.bundle = Own /\ TagIsMine]_allVars

\* The tagger only ever creates the tag, and with the approved commit, even when
\* somebody else makes it between the tagger's last look and its push; and unless
\* others pushed since that look, the commit is the head of the review branch.
TaggerOnlyCreates ==
  [][tagger' # tagger /\ tag' # tag
     => /\ tag = NoTag /\ tag' = [target |-> tagger.oid, annotated |-> TRUE]
        /\ moves = tagger.moves => branch = tagger.oid]_allVars

\* Whatever ref the two tools push, they create it: nothing that is on the
\* remote is ever replaced by them.
PushesOnlyCreate == NeverOverwrites /\ TaggerOnlyCreates

\* As long as nobody else touches tag, release or settings, whatever is public
\* was approved: the tag's commit, which the tagger was given.
PublicIsApproved ==
  meddles = 0 /\ release.state = "public" =>
    /\ tag.target = tagger.oid /\ IsVersion(tag.target)
    /\ release.bundle.sha = tag.target /\ release.fixed
==============================================================================
