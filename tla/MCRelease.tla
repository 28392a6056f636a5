------------------------------- MODULE MCRelease -------------------------------
(* Instances of ReleaseTag for TLC: commits that a build accepts, two of them  *)
(* with the same package, and one for each point at which it refuses.          *)
EXTENDS ReleaseTag

Holds(tree, version, cut, fits, meta) ==
  [tree |-> tree, version |-> version, cut |-> cut, fits |-> fits, meta |-> meta]

MCOf ==
  [good   |-> Holds("ta", "this", TRUE, TRUE, TRUE),
   same   |-> Holds("ta", "this", TRUE, TRUE, TRUE),
   uncut  |-> Holds("tb", "this", FALSE, TRUE, TRUE),
   unfit  |-> Holds("tc", "this", TRUE, FALSE, TRUE),
   lacks  |-> Holds("td", "this", TRUE, TRUE, FALSE),
   other  |-> Holds("te", "other", TRUE, TRUE, TRUE)]

\* The second one already holds what a good commit would release, the third one
\* a tree of this version that does not build.
MCHeads ==
  {[name |-> "m0", tree |-> "t0", parent |-> "none"],
   [name |-> "m1", tree |-> "ta", parent |-> "m0"],
   [name |-> "m2", tree |-> "td", parent |-> "m0"]}

m0 == [name |-> "m0", tree |-> "t0", parent |-> "none"]

\* Bound: two parts of the behaviour, one after the other.  In the first the
\* package becomes the review branch; the second starts when a helper has pushed
\* it and ended, with the output directory as the build left it.
VARIABLE part

Init ==
  /\ part \in {"branch", "tag"}
  /\ part = "branch" => BranchInit /\ TagInit /\ settings = {}
  /\ part = "tag" =>
       /\ TagInit /\ main = m0 /\ branch = Candidate(m0, "ta")
       /\ dist = [a \in Artifacts |-> [commit |-> "good", dirty |-> FALSE]]
       /\ build = NoBuild /\ clean = {"good"} /\ builds = MaxBuilds /\ moves = 0
       /\ pushed = {<<"good", branch>>}
       /\ helper = [p \in Helpers |->
            [pc |-> "done", head |-> m0, sums |-> "good", zip |-> "good",
             tree |-> "ta", source |-> "good", commit |-> branch]]

Next ==
  /\ UNCHANGED part
  /\ \/ part = "branch" /\ BranchNext /\ UNCHANGED tagVars
     \/ part = "tag" /\ ReleaseNext

MCSpec == Init /\ [][Next]_<<allVars, part>>
==============================================================================
