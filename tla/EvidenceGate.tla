---------------------------- MODULE EvidenceGate ----------------------------
(***************************************************************************)
(* check_evidence.py beside the recorders: one run of the gate reads HEAD, *)
(* the profile, the tree, the state of the checkout and then one record    *)
(* file and one artifact after another, while recorders write, files are   *)
(* removed and the checkout moves.  Project, environment, reviewer, command*)
(* policy, executable and clock are the same for recorder and checker here.*)
(***************************************************************************)
EXTENDS EvidenceRecorder

VARIABLES
  gpc,      \* where the checker is
  ghd, gprof, gtr, \* derived HEAD, committed profile and tree digest
  gtracked, \* runtime files are tracked in HEAD
  gscan, gsaw,     \* repo_state, as in the recorder
  todo,     \* record files collected and not yet read
  current,  \* the verified record whose artifact is next
  accepted, \* category -> number of accepted records
  rejected, \* some record was rejected
  verdict,  \* "pass" (exit 0), "fail" (1) or "error"
  stirred   \* history: something outside the checker acted since it started

gateVars == <<gpc, ghd, gprof, gtr, gtracked, gscan, gsaw, todo, current,
              accepted, rejected, verdict, stirred>>
allVars == <<vars, gateVars>>

\* The checker's own variables; TypeOK is about the ones it shares.
GateTypeOK ==
  /\ gpc \in {"idle", "head", "listing", "profile", "tree", "tracked", "scan",
              "collect", "read", "artifact", "binding"}
  /\ ghd \in Commits \cup {NoSha}
  /\ gprof \in Profiles \cup {NoProfile}
  /\ gtr \in Trees \cup {NoTree}
  /\ gtracked \in BOOLEAN
  /\ gscan \in 0..LastScan
  /\ gsaw \in BOOLEAN
  /\ todo \subseteq Slots
  /\ current \in Records \cup {NoFile}
  /\ accepted \in [Cats -> 0..2]
  /\ rejected \in BOOLEAN
  /\ verdict \in {"none", "pass", "fail", "error"}
  /\ stirred \in BOOLEAN

NoneAccepted == [c \in Cats |-> 0]

GateInit ==
  /\ Init
  /\ gpc = "idle"
  /\ ghd = NoSha
  /\ gprof = NoProfile
  /\ gtr = NoTree
  /\ gtracked = FALSE
  /\ gscan = 0
  /\ gsaw = FALSE
  /\ todo = {}
  /\ current = NoFile
  /\ accepted = NoneAccepted
  /\ rejected = FALSE
  /\ verdict = "none"
  /\ stirred = FALSE

----------------------------------------------------------------------------
\* The checker is a fresh process: every variable of it starts over.
StartGate ==
  /\ gpc = "idle"
  /\ gpc' = "head"
  /\ gscan' = 0
  /\ gsaw' = FALSE
  /\ current' = NoFile
  /\ accepted' = NoneAccepted
  /\ rejected' = FALSE
  /\ verdict' = "none"
  /\ stirred' = FALSE
  /\ UNCHANGED <<vars, ghd, gprof, gtr, gtracked, todo>>

\* The run is over.  Its facts stay known until the next one starts.
Conclude(v) ==
  /\ gpc' = "idle"
  /\ verdict' = v

GateHead ==
  /\ gpc = "head"
  /\ ghd' = GitHead
  /\ gpc' = "listing"
  /\ UNCHANGED <<vars, gprof, gtr, gtracked, gscan, gsaw, todo, current,
                 accepted, rejected, verdict, stirred>>

\* committed_project_profile: `git ls-tree` shows one regular file.
GateListing ==
  /\ gpc = "listing"
  /\ head \in ProfileFileIn
  /\ gpc' = "profile"
  /\ UNCHANGED <<vars, ghd, gprof, gtr, gtracked, gscan, gsaw, todo, current,
                 accepted, rejected, verdict, stirred>>

\* Then `git show`, and the --profile that must agree with what it shows.
GateProfile ==
  /\ gpc = "profile"
  /\ ProfileOf[head] # NoProfile
  /\ gprof' = ProfileOf[head]
  /\ gpc' = "tree"
  /\ UNCHANGED <<vars, ghd, gtr, gtracked, gscan, gsaw, todo, current,
                 accepted, rejected, verdict, stirred>>

GateTree ==
  /\ gpc = "tree"
  /\ gtr' = TreeOf[head]
  /\ gpc' = "tracked"
  /\ UNCHANGED <<vars, ghd, gprof, gtracked, gscan, gsaw, todo, current,
                 accepted, rejected, verdict, stirred>>

GateTracked ==
  /\ gpc = "tracked"
  /\ gtracked' = TrackedInHead
  /\ gpc' = "scan"
  /\ UNCHANGED <<vars, ghd, gprof, gtr, gscan, gsaw, todo, current, accepted,
                 rejected, verdict, stirred>>

GateScan ==
  /\ gpc = "scan"
  /\ gscan' = gscan + 1
  /\ gsaw' = (gsaw \/ ScanSees(gscan + 1))
  /\ gpc' = IF gscan + 1 < LastScan THEN "scan" ELSE "collect"
  /\ UNCHANGED <<vars, ghd, gprof, gtr, gtracked, todo, current, accepted,
                 rejected, verdict, stirred>>

\* Either of the two cannot tell: the gate goes on, and will not pass.
GateCannotTell ==
  /\ gpc \in {"tracked", "scan"}
  /\ IF gpc = "tracked"
     THEN gtracked' = TRUE /\ gpc' = "scan" /\ UNCHANGED gsaw
     ELSE gsaw' = TRUE /\ gpc' = "collect" /\ UNCHANGED gtracked
  /\ stirred' = TRUE
  /\ UNCHANGED <<vars, ghd, gprof, gtr, gscan, todo, current, accepted,
                 rejected, verdict>>

\* glob of the evidence directory.
Collect ==
  /\ gpc = "collect"
  /\ todo' = {s \in Slots : recs[s] # NoFile}
  /\ gpc' = "read"
  /\ UNCHANGED <<vars, ghd, gprof, gtr, gtracked, gscan, gsaw, current,
                 accepted, rejected, verdict, stirred>>

\* Mutant: the exit code is not looked at.
WellFormedAnyExit(r) ==
  /\ r.kind # "nothing"
  /\ r.commit = ghd
  /\ r.kind = "na" => /\ r.cat \notin Mandatory
                      /\ r.profile = gprof
                      /\ r.profile \in NAAllowed[r.cat]
  /\ r.kind = "verified" => r.tree = gtr

\* Mutant: a record for another commit is not stale.
WellFormedAnyCommit(r) ==
  /\ r.kind # "nothing"
  /\ r.kind = "na" => /\ r.cat \notin Mandatory
                      /\ r.profile = gprof
                      /\ r.profile \in NAAllowed[r.cat]
  /\ r.kind = "verified" => r.passed /\ r.tree = gtr

\* Mutant: the profile of an N/A record need not be the committed one.
WellFormedAnyProfile(r) ==
  /\ r.kind # "nothing"
  /\ r.commit = ghd
  /\ r.kind = "na" => /\ r.cat \notin Mandatory
                      /\ r.profile \in NAAllowed[r.cat]
  /\ r.kind = "verified" => r.passed /\ r.tree = gtr

\* check_common, check_na_applicability and check_record up to the artifact;
\* a file that is gone by now is "invalid JSON".
WellFormed(r) ==
  /\ r.kind # "nothing"
  /\ r.commit = ghd
  /\ r.kind = "na" => /\ r.cat \notin Mandatory
                      /\ r.profile = gprof
                      /\ r.profile \in NAAllowed[r.cat]
  /\ r.kind = "verified" => r.passed /\ r.tree = gtr

\* Mutant: the hash is not recomputed.
ArtifactExists(r) == logs[r.art] # NoFile

\* The artifact exists and sha256_file reads the recorded digest.
ArtifactAgrees(r) ==
  /\ logs[r.art] # NoFile
  /\ logs[r.art] = r.sum

\* It is opened again for the output binding: a bound output names HEAD.
OutputNames(r) ==
  /\ logs[r.art] # NoFile
  /\ logs[r.art].says = ghd

\* by_category; two stand for any number above one.
Accept(c) == accepted' = [accepted EXCEPT ![c] = IF @ = 0 THEN 1 ELSE 2]

\* The next record file, in the order of their names.
ReadRecord ==
  /\ gpc = "read"
  /\ \E s \in todo :
       /\ \A t \in todo : s <= t
       /\ todo' = todo \ {s}
       /\ IF ~WellFormed(recs[s])
          THEN rejected' = TRUE /\ UNCHANGED <<gpc, current, accepted>>
          ELSE IF recs[s].kind = "na"
          THEN Accept(recs[s].cat) /\ UNCHANGED <<gpc, current, rejected>>
          ELSE /\ gpc' = "artifact"
               /\ current' = recs[s]
               /\ UNCHANGED <<accepted, rejected>>
  /\ UNCHANGED <<vars, ghd, gprof, gtr, gtracked, gscan, gsaw, verdict, stirred>>

\* The record passes or is rejected, and the next one is due.
Settle(good) ==
  /\ gpc' = "read"
  /\ current' = NoFile
  /\ IF good THEN Accept(current.cat) /\ UNCHANGED rejected
             ELSE rejected' = TRUE /\ UNCHANGED accepted

ReadArtifact ==
  /\ gpc = "artifact"
  /\ IF ArtifactAgrees(current) /\ current.cat \in Bound
     THEN gpc' = "binding" /\ UNCHANGED <<current, accepted, rejected>>
     ELSE Settle(ArtifactAgrees(current))
  /\ UNCHANGED <<vars, ghd, gprof, gtr, gtracked, gscan, gsaw, todo, verdict,
                 stirred>>

RereadArtifact ==
  /\ gpc = "binding"
  /\ Settle(OutputNames(current))
  /\ UNCHANGED <<vars, ghd, gprof, gtr, gtracked, gscan, gsaw, todo, verdict,
                 stirred>>

\* Mutant: the last of several records for a category wins.
CompleteAnyNumber == \A c \in Cats : accepted[c] # 0

\* No category is missing, none is there twice.
Complete == \A c \in Cats : accepted[c] = 1

\* main's `ok`.
Decide ==
  /\ gpc = "read"
  /\ todo = {}
  /\ Conclude(IF Complete /\ ~rejected /\ ~gtracked /\ ~gsaw
              THEN "pass" ELSE "fail")
  /\ UNCHANGED <<vars, ghd, gprof, gtr, gtracked, gscan, gsaw, todo, current,
                 accepted, rejected, stirred>>

\* No verdict: HEAD, the profile or the tree cannot be read or disagree with
\* the arguments, a record leaves the evidence directory, git hangs, a kill.
GateAbort ==
  /\ gpc # "idle"
  /\ Conclude("error")
  /\ UNCHANGED <<vars, ghd, gprof, gtr, gtracked, gscan, gsaw, todo, current,
                 accepted, rejected, stirred>>

GateStep ==
  \/ GateHead \/ GateListing \/ GateProfile \/ GateTree \/ GateTracked
  \/ GateScan \/ GateCannotTell \/ Collect \/ ReadRecord \/ ReadArtifact
  \/ RereadArtifact \/ Decide \/ GateAbort

OtherStep ==
  /\ RecorderNext
  /\ stirred' = TRUE
  /\ UNCHANGED <<gpc, ghd, gprof, gtr, gtracked, gscan, gsaw, todo, current,
                 accepted, rejected, verdict>>

GateNext == StartGate \/ GateStep \/ OtherStep

GateSpec == GateInit /\ [][GateNext]_allVars

----------------------------------------------------------------------------
\* check_evidence.py:15-47, of one record and of all of them, at one instant.
Acceptable(r) ==
  /\ r.commit = head
  /\ \/ /\ r.kind = "na"
        /\ r.profile = ProfileOf[head]
        /\ r.profile \in NAAllowed[r.cat]
        /\ r.cat \notin Mandatory
     \/ /\ r.kind = "verified"
        /\ r.passed
        /\ r.tree = TreeOf[head]
        /\ logs[r.art] = r.sum
        /\ r.cat \in Bound => r.sum.says = head

Contract ==
  LET written == {s \in Slots : recs[s] # NoFile}
  IN /\ dirt = {}
     /\ ~TrackedInHead
     /\ head \in ProfileFileIn
     /\ \A s \in written : Acceptable(recs[s])
     /\ {recs[s].cat : s \in written} = Cats
     /\ \A s, t \in written : recs[s].cat = recs[t].cat => s = t

\* While nobody else acts, the sequence of readings decides the documented
\* contract: exit 0 when it holds and exit 1 when it does not.
VerdictIsContract ==
  verdict \in {"pass", "fail"} /\ ~stirred
    => (verdict = "pass" <=> Contract)

\* Whoever writes, removes, crashes or moves HEAD while the gate reads: for
\* every category a passing gate rests on a command of that category that
\* really exited 0 and whose recorder read the gate's HEAD, or on the matrix
\* letting the profile the gate derived skip a category that is not mandatory.
PassIsEarned ==
  verdict = "pass" =>
    \A c \in Cats : \/ <<c, ghd>> \in ran
                   \/ (c \notin Mandatory /\ gprof \in NAAllowed[c])

\* With one recorder at a time, which may die between its two writes: the
\* artifact of a record the gate accepts is the capture of a command of that
\* category, at that commit, that exited 0.
AcceptedArtifactShowsIt ==
  gpc = "artifact" /\ ArtifactAgrees(current)
    => LET shown == logs[current.art]
       IN /\ shown.passed
          /\ shown.cat = current.cat
          /\ shown.commit = ghd
=============================================================================
