----------------------------- MODULE MCRunState -----------------------------
(* Instances of RunState for TLC. *)
EXTENDS RunState, TLC

Symmetry == Permutations(Procs)

\* The sub-commands that touch a SHA.
ShaRequests == [mode : {"advance", "verify"}, stage : Stages]

\* Bound: the working tree stays clean, HEAD moves between commits that exist.
StaysClean == dirt = {}

\* The two sub-commands that write, with the field that the order of the fields
\* binds on both sides.
Writers ==
  {o \in Ops : o.mode = "init" \/ (o.mode = "advance" /\ o.stage = 2)}

\* Bound: the other two fields are empty or hold the root commit, as the
\* sub-commands of Writers only ask whether they are set.
OuterFields == \A f \in {1, 3} : file.kind = "valid" => file.sha[f] \in {NoSha, Root}

\* One field and the sub-commands that touch none.
AnyOutcome ==
  {o \in Ops : o.mode \in {"init", "show"} \/ (o.mode = "advance" /\ o.stage = 3)}
=============================================================================
