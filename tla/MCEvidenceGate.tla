--------------------------- MODULE MCEvidenceGate ---------------------------
(* Instances of EvidenceGate for TLC.  "testing" is mandatory, "seo" is N/A *)
(* for a library.                                                          *)
EXTENDS EvidenceGate, TLC

CONSTANTS c1, c2

OneTree == [c \in Commits |-> "t1"]
CommitProfile == [c \in Commits |-> IF c = c2 THEN "saas" ELSE "library"]
OneProfile == [c \in Commits |-> "library"]
SeoMatrix == [c \in Cats |-> IF c = "seo" THEN {"library"} ELSE {}]

\* `run` with every token there is, and `preview`.
Executions(slots) ==
  {r \in Requested : r.mode # "na" /\ r.cat = "testing" /\ r.out \in slots
                     /\ (r.mode = "run" => r.plan # NoPlan)}

\* One category, executed into any record file.
OneCategory == Executions(Slots)

\* One category that is executed and one that is not applicable, which two
\* record files may claim.
RunAndWaive ==
  Executions({1})
    \cup {[mode |-> "na", cat |-> "seo", out |-> s, profile |-> "library"] :
            s \in {2, 3}}

\* Bound: the working tree stays clean, HEAD moves between commits that exist.
StaysClean == dirt = {}

\* Bound: one kind of dirt, which the gate meets and a recorder does not (the
\* recorder's own instance has all kinds at every point).
GateMeetsDirt ==
  dirt = {} \/ (dirt = {"unstaged"} /\ \A p \in Procs : pc[p] = "idle")

\* Bound: one commit at which a command exits 0 (OneCategory has both).
OneSuccess == \A x, y \in ran : x = y

\* Bound: one run of the gate, as its processes share nothing but the disk.
OneGate == verdict = "none"

\* Bound: a gate that was disturbed is not followed any further, as a property
\* of undisturbed gates says nothing of it.
Undisturbed == OneGate /\ (stirred => gpc = "idle")
=============================================================================
