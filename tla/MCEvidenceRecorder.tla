------------------------- MODULE MCEvidenceRecorder -------------------------
(* Instances of EvidenceRecorder for TLC.  "testing" is mandatory, the     *)
(* output of "deployment" must name HEAD, "seo" is N/A for a library.      *)
EXTENDS EvidenceRecorder, TLC

CONSTANTS c1, c2, c3

\* c2 reverts c1's tree under another project profile; c3 tracks evidence.
CommitTree == [c \in Commits |-> IF c = c3 THEN "t2" ELSE "t1"]
CommitProfile == [c \in Commits |-> IF c = c2 THEN "saas" ELSE "library"]
SeoMatrix == [c \in Cats |-> IF c = "seo" THEN {"library"} ELSE {}]

\* `run` without a token or with any, and `preview`, of one category.
Executions(c) == {r \in Requested : r.mode # "na" /\ r.cat = c /\ r.out = 1}

\* Two categories, one that is executed and one that is not applicable.
RunAndWaive ==
  Executions("deployment")
    \cup {[mode |-> "na", cat |-> "seo", out |-> 2, profile |-> "library"]}

\* One category, confirmed and executed.
RunOnly == Executions("testing")

Symmetry == Permutations(Procs)

\* Bound: the working tree stays clean, HEAD moves between commits that exist.
StaysClean == dirt = {}

\* Bound: every history up to the first record, as what a recorder does never
\* depends on the records already there.
FirstRecord ==
  /\ \A s \in Slots : recs[s] = NoFile
  /\ \A l \in Logs : logs[l] # NoFile => \E p \in Procs : pc[p] # "idle"
=============================================================================
