---------------------------- MODULE RunRegister ----------------------------
(***************************************************************************)
(* What run-state-v1 promises about a run's three SHAs, without processes, *)
(* locks, files or git: each field is written at most once, and only while *)
(* no later field is set (update_run_state.py, "MONOTONIC transitions").   *)
(***************************************************************************)
EXTENDS Naturals

CONSTANTS Commits, NoSha

VARIABLE sha

Fields == 1..3

RegisterTypeOK == sha \in [Fields -> Commits \cup {NoSha}]

Init == sha = [s \in Fields |-> NoSha]

\* advance base | integration | final
Advance(s, c) ==
  /\ sha[s] = NoSha
  /\ \A t \in Fields : t > s => sha[t] = NoSha
  /\ sha' = [sha EXCEPT ![s] = c]

Next == \E s \in Fields, c \in Commits : Advance(s, c)

Spec == Init /\ [][Next]_sha

\* A field that is set never changes, and once a later field is set an
\* earlier one never does either: a run never rewinds.
NeverRewinds ==
  [][\A s, t \in Fields : s <= t /\ sha[t] # NoSha => sha'[s] = sha[s]]_sha
=============================================================================
