----------------------------- MODULE ReleaseBuild -----------------------------
(* main of build_release.py: one build after another into the same output      *)
(* directory, each file written in place, any of them ending half-way.  What a *)
(* build writes is a function of the commit it selected, so a file is named by *)
(* that commit.                                                                *)
EXTENDS Integers, FiniteSets

CONSTANTS Commits,     \* commits of the developer's repository
          Of,          \* commit -> what its tree holds: see OfAssumption
          MaxBuilds

ASSUME OfAssumption ==
  \A c \in Commits :
    /\ Of[c].tree # "none"                  \* what would be packaged of it
    /\ Of[c].version \in {"this", "other"}   \* "this": the version being released
    /\ Of[c].cut  \in BOOLEAN    \* the release cut: no plan left, metadata, lock
    /\ Of[c].fits \in BOOLEAN    \* no forbidden name, one top folder
    /\ Of[c].meta \in BOOLEAN    \* dependency metadata covers the lock
ASSUME BuildsAssumption == MaxBuilds \in Nat

VARIABLES dist,        \* file -> what is in it
          build,       \* [pc, commit, dirty, allow]
          clean,       \* commits a build has found in a clean worktree
          builds

buildVars == <<dist, build, clean, builds>>

Artifacts == {"zip", "sums", "sbom", "provenance"}
NoFile == [commit |-> "none", dirty |-> FALSE]
Torn   == [commit |-> "torn", dirty |-> FALSE]
NoBuild == [pc |-> "idle", commit |-> "none", dirty |-> FALSE, allow |-> FALSE]

BuildInit ==
  /\ dist = [a \in Artifacts |-> NoFile]
  /\ build = NoBuild /\ clean = {} /\ builds = 0

Built == Of[build.commit]

\* resolve_git_source, git_tree_entries, the version, the lock: exit 2 before
\* anything is written.
Resolve(c, allow) ==
  /\ build.pc = "idle" /\ builds < MaxBuilds /\ builds' = builds + 1
  /\ build' = IF Of[c].cut
              THEN [pc |-> "measure", commit |-> c, dirty |-> FALSE, allow |-> allow]
              ELSE NoBuild
  /\ UNCHANGED <<dist, clean>>

\* Mutant: --allow-dirty also forgets that the worktree is dirty.
MeasureForgets(dirty) ==
  /\ build.pc = "measure"
  /\ build' = IF dirty /\ ~build.allow THEN NoBuild
              ELSE [build EXCEPT !.pc = "open zip", !.dirty = FALSE]
  /\ clean' = IF dirty THEN clean ELSE clean \cup {build.commit}
  /\ UNCHANGED <<dist, builds>>

\* git_state: a changed worktree is refused, or allowed and recorded.
Measure(dirty) ==
  /\ build.pc = "measure"
  /\ build' = IF dirty /\ ~build.allow THEN NoBuild
              ELSE [build EXCEPT !.pc = "open zip", !.dirty = dirty]
  /\ clean' = IF dirty THEN clean ELSE clean \cup {build.commit}
  /\ UNCHANGED <<dist, builds>>

\* The archive has the version in its name: one of another version is another
\* file, and none of the ones modelled.
Writes(a) == ~(a = "zip" /\ Built.version = "other")
Put(a, v) == dist' = IF Writes(a) THEN [dist EXCEPT ![a] = v] ELSE dist

\* open(..., "w") empties the file; the last byte is written later.
OpenFile(a, at, then) ==
  /\ build.pc = at /\ build' = [build EXCEPT !.pc = then]
  /\ Put(a, Torn) /\ UNCHANGED <<clean, builds>>

Fill(a, at, then) ==
  /\ build.pc = at /\ build' = [build EXCEPT !.pc = then]
  /\ Put(a, [commit |-> build.commit,
            dirty |-> IF a = "provenance" THEN build.dirty ELSE FALSE])
  /\ UNCHANGED <<clean, builds>>

\* The names in the archive are read back; a bad archive is removed.
Inspect ==
  /\ build.pc = "inspect"
  /\ IF Built.fits THEN build' = [build EXCEPT !.pc = "open sums"] /\ dist' = dist
     ELSE build' = NoBuild /\ Put("zip", NoFile)
  /\ UNCHANGED <<clean, builds>>

\* FATAL: the archive and the checksums stay.
JudgeMetadata ==
  /\ build.pc = "metadata"
  /\ build' = IF Built.meta THEN [build EXCEPT !.pc = "open sbom"] ELSE NoBuild
  /\ UNCHANGED <<dist, clean, builds>>

Files ==
  \/ OpenFile("zip", "open zip", "fill zip") \/ Fill("zip", "fill zip", "inspect")
  \/ Inspect
  \/ OpenFile("sums", "open sums", "fill sums") \/ Fill("sums", "fill sums", "metadata")
  \/ JudgeMetadata
  \/ OpenFile("sbom", "open sbom", "fill sbom") \/ Fill("sbom", "fill sbom", "open last")
  \/ OpenFile("provenance", "open last", "fill last")
  \/ Fill("provenance", "fill last", "exit")

Exit0 ==
  /\ build.pc = "exit" /\ build' = NoBuild
  /\ UNCHANGED <<dist, clean, builds>>

\* Killed, or an exception (a blob that cannot be read, a full disk).
BuildDies ==
  /\ build.pc # "idle" /\ build' = NoBuild
  /\ UNCHANGED <<dist, clean, builds>>

BuildStep == \/ \E c \in Commits, allow \in BOOLEAN : Resolve(c, allow)
             \/ \E dirty \in BOOLEAN : Measure(dirty)
             \/ Files \/ Exit0 \/ BuildDies
==============================================================================
