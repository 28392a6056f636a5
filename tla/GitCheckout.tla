---------------------------- MODULE GitCheckout ----------------------------
(***************************************************************************)
(* The git checkout the gate tools look at, and the questions              *)
(* plugins/gate/lib/gate_policy.py asks it.  Git itself and the people and *)
(* agents who use it are not part of the repository: Env is what they may  *)
(* do between two of the tools' `git` subprocesses.                        *)
(*                                                                         *)
(* A commit is an abstract value.  What the tools tell apart about one is  *)
(* its tree digest (TreeOf) and whether it tracks files below the two      *)
(* generated runtime directories (TrackedIn).  The dirt of the checkout is *)
(* the set of kinds that repo_state scans for, outside those directories.  *)
(***************************************************************************)
EXTENDS Naturals

CONSTANTS Commits,    \* every commit the checkout may ever point at
          NoSha,      \* "no commit": a field not set, a HEAD not read
          TrackedIn,  \* commits that track files below the runtime dirs
          Root        \* the commit the checkout starts at

ASSUME CheckoutAssumption ==
  /\ NoSha \notin Commits
  /\ TrackedIn \subseteq Commits
  /\ Root \in Commits

VARIABLES head,       \* the commit HEAD names
          dirt,       \* kinds of uncommitted change outside the runtime dirs
          made        \* commits that exist

gitVars == <<head, dirt, made>>

Kinds == {"staged", "unstaged", "untracked"}

\* repo_state runs one plumbing command per kind, in this order.
ScanOrder == <<"staged", "unstaged", "untracked">>

\* Mutant: `git ls-files --others` is left out.
LastScanTracked == 2

\* The number of those commands.
LastScan == 3

GitTypeOK ==
  /\ head \in made
  /\ dirt \subseteq Kinds
  /\ made \subseteq Commits

GitInit ==
  /\ head = Root
  /\ dirt \in SUBSET Kinds
  /\ made \in {m \in SUBSET Commits : Root \in m}

\* git_head(root): the SHA `git rev-parse HEAD` prints now.
GitHead == head

\* evidence_tracked_in_head / tracked_in_head: runtime files are in HEAD's tree.
TrackedInHead == head \in TrackedIn

\* What the k-th command of repo_state reports now.
ScanSees(k) == ScanOrder[k] \in dirt

----------------------------------------------------------------------------
\* Somebody edits a tracked file or adds one.
Edit(k) ==
  /\ k \in {"unstaged", "untracked"}
  /\ dirt' = dirt \cup {k}
  /\ UNCHANGED <<head, made>>

\* git add / git rm --cached: changes move between the index and the tree.
Stage(k) ==
  /\ k \in dirt \ {"staged"}
  /\ dirt' = (dirt \ {k}) \cup {"staged"}
  /\ UNCHANGED <<head, made>>

Unstage(k) ==
  /\ "staged" \in dirt
  /\ k \in {"unstaged", "untracked"}
  /\ dirt' = (dirt \ {"staged"}) \cup {k}
  /\ UNCHANGED <<head, made>>

\* git restore / git clean / git stash, of one kind of change.
Discard(k) ==
  /\ k \in dirt
  /\ dirt' = dirt \ {k}
  /\ UNCHANGED <<head, made>>

\* git commit: the index becomes a new commit, the rest stays dirty.
Commit(c) ==
  /\ "staged" \in dirt
  /\ c \in Commits \ made
  /\ head' = c
  /\ made' = made \cup {c}
  /\ dirt' = dirt \ {"staged"}

\* git checkout / git reset of a commit that exists; local changes travel.
Checkout(c) ==
  /\ c \in made \ {head}
  /\ head' = c
  /\ UNCHANGED <<dirt, made>>

Env ==
  \/ \E k \in Kinds : Edit(k) \/ Stage(k) \/ Unstage(k) \/ Discard(k)
  \/ \E c \in Commits : Commit(c) \/ Checkout(c)
=============================================================================
