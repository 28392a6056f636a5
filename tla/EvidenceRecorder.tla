-------------------------- MODULE EvidenceRecorder --------------------------
(***************************************************************************)
(* record_evidence.py: processes that mint gate-evidence-v1 records below  *)
(* .solo/gate-evidence/ of one checkout.  `run` executes a command when it *)
(* is given the token of the plan it derives, and writes the captured      *)
(* output and then the record; `preview` only shows plan and token; `na`   *)
(* writes a record that the category does not apply.  Every run shows its  *)
(* token too, and anybody can compute one (an unkeyed SHA-256 of the plan):*)
(* an invocation may come with any token.                                  *)
(*                                                                         *)
(* No lock is taken: processes meet on the disk.                           *)
(* A step is one `git` subprocess, one file access, or the command itself. *)
(* Env is everybody who changes the checkout, the executed command among   *)
(* them.  Checks of the arguments alone (usage, command policy, resolved   *)
(* executable, matrix cell) come first and are conditions on Requests.     *)
(* Two contents have the same SHA-256 iff they are equal.                  *)
(***************************************************************************)
EXTENDS GitCheckout

CONSTANTS Procs,        \* concurrent invocations
          Cats,         \* evidence categories
          Mandatory,    \* those that can never be not-applicable
          Bound,        \* those whose command has an output binding
          Profiles,     \* recognized project profiles
          NoProfile,    \* no single recognized profile is committed
          NAAllowed,    \* category -> profiles under which it may be N/A
          Trees, NoTree,
          TreeOf,       \* commit -> digest of its tree
          ProfileFileIn, \* commits where .solo/project.md is a regular file
          ProfileOf,    \* commit -> profile its .solo/project.md names
          OutTrackedIn, \* commits that track the output files
          Slots,        \* record files, in the order the checker sorts them
          Logs,         \* captured-output files
          Requests      \* the invocations

\* What a confirmation token binds.  Two categories never share a command,
\* so the category stands for the argv, the limits and the network approval.
Plans == [cat : Cats, commit : Commits, tree : Trees]
NoPlan == [cat |-> "none"]

\* Arguments that reach the first look at the repository.  The plan is the
\* one whose token --confirm-execution repeats.
Requested ==
  [mode : {"run"}, cat : Cats, out : Slots, art : Logs,
   plan : Plans \cup {NoPlan}]
    \cup [mode : {"preview"}, cat : Cats, out : Slots, art : Logs]
    \cup {r \in [mode : {"na"}, cat : Cats \ Mandatory, out : Slots,
                 profile : Profiles] : r.profile \in NAAllowed[r.cat]}

ASSUME RecorderAssumption ==
  /\ Mandatory \subseteq Cats
  /\ Bound \subseteq Cats
  /\ NoProfile \notin Profiles
  /\ NAAllowed \in [Cats -> SUBSET Profiles]
  /\ NoTree \notin Trees
  /\ TreeOf \in [Commits -> Trees]
  /\ ProfileFileIn \subseteq Commits
  /\ ProfileOf \in [Commits -> Profiles \cup {NoProfile}]
  /\ OutTrackedIn \subseteq TrackedIn
  /\ Slots \subseteq Nat
  /\ Requests \subseteq Requested

VARIABLES recs,    \* record file -> the record in it
          logs,    \* captured-output file -> the capture in it
          pc, req,
          hd, tr,  \* _check_repo_identity's head and digest
          hd2, tr2,\* the same, read again after the command
          scan,    \* how many of repo_state's commands have run
          saw,     \* one of them reported dirt
          got,     \* the capture of the command that ran
          sum,     \* what sha256_file read
          moved,   \* history: Env has acted since the last reading of HEAD
          ran      \* history: (category, commit) of commands that exited 0

diskVars == <<recs, logs>>
localVars == <<hd, tr, hd2, tr2, scan, saw, got, sum, moved>>
recorderVars == <<diskVars, pc, req, localVars, ran>>
vars == <<gitVars, recorderVars>>

----------------------------------------------------------------------------
NoFile == [kind |-> "nothing"]

Captures == [kind : {"capture"}, cat : Cats, commit : Commits, tree : Trees,
             passed : BOOLEAN, says : Commits \cup {NoSha}]

Records ==
  [kind : {"verified"}, cat : Cats, commit : Commits, tree : Trees,
   passed : BOOLEAN, art : Logs, sum : Captures]
    \cup [kind : {"na"}, cat : Cats, commit : Commits, profile : Profiles]

NoRequest == [mode |-> "none"]

BeforeCommand == {"head", "tracked", "scan", "digest", "listing", "profile",
                  "paths", "outpath"}
AfterCommand == {"rehead", "rescan", "redigest", "judge", "repaths",
                 "reoutpath", "artifact", "hash", "record"}
PCs == {"idle", "confirm", "exec"} \cup BeforeCommand \cup AfterCommand

\* Steps that run a git subprocess.
GitSteps == BeforeCommand \cup {"rehead", "rescan", "redigest", "repaths",
                               "reoutpath"}

TypeOK ==
  /\ GitTypeOK
  /\ recs \in [Slots -> Records \cup {NoFile}]
  /\ logs \in [Logs -> Captures \cup {NoFile}]
  /\ pc \in [Procs -> PCs]
  /\ req \in [Procs -> Requested \cup {NoRequest}]
  /\ hd \in [Procs -> Commits \cup {NoSha}]
  /\ tr \in [Procs -> Trees \cup {NoTree}]
  /\ hd2 \in [Procs -> Commits \cup {NoSha}]
  /\ tr2 \in [Procs -> Trees \cup {NoTree}]
  /\ scan \in [Procs -> 0..LastScan]
  /\ saw \in [Procs -> BOOLEAN]
  /\ got \in [Procs -> Captures \cup {NoFile}]
  /\ sum \in [Procs -> Captures \cup {NoFile}]
  /\ moved \in [Procs -> BOOLEAN]
  /\ ran \subseteq Cats \X Commits

Init ==
  /\ GitInit
  /\ recs = [s \in Slots |-> NoFile]
  /\ logs = [l \in Logs |-> NoFile]
  /\ pc = [p \in Procs |-> "idle"]
  /\ req = [p \in Procs |-> NoRequest]
  /\ hd = [p \in Procs |-> NoSha]
  /\ tr = [p \in Procs |-> NoTree]
  /\ hd2 = [p \in Procs |-> NoSha]
  /\ tr2 = [p \in Procs |-> NoTree]
  /\ scan = [p \in Procs |-> 0]
  /\ saw = [p \in Procs |-> FALSE]
  /\ got = [p \in Procs |-> NoFile]
  /\ sum = [p \in Procs |-> NoFile]
  /\ moved = [p \in Procs |-> FALSE]
  /\ ran = {}

----------------------------------------------------------------------------
Goto(p, l) == pc' = [pc EXCEPT ![p] = l]

\* The invocation ends, with any exit code; its memory is gone.
Exit(p) ==
  /\ Goto(p, "idle")
  /\ req' = [req EXCEPT ![p] = NoRequest]
  /\ hd' = [hd EXCEPT ![p] = NoSha]
  /\ tr' = [tr EXCEPT ![p] = NoTree]
  /\ hd2' = [hd2 EXCEPT ![p] = NoSha]
  /\ tr2' = [tr2 EXCEPT ![p] = NoTree]
  /\ scan' = [scan EXCEPT ![p] = 0]
  /\ saw' = [saw EXCEPT ![p] = FALSE]
  /\ got' = [got EXCEPT ![p] = NoFile]
  /\ sum' = [sum EXCEPT ![p] = NoFile]
  /\ moved' = [moved EXCEPT ![p] = FALSE]

\* The tool goes on to step l, or ends here without writing anything.
GoOrExit(p, cond, l) ==
  IF cond THEN Goto(p, l) /\ UNCHANGED <<req, localVars>> ELSE Exit(p)

\* main: the arguments pass.
Start(p, r) ==
  /\ pc[p] = "idle"
  /\ Goto(p, "head")
  /\ req' = [req EXCEPT ![p] = r]
  /\ UNCHANGED <<gitVars, diskVars, localVars, ran>>

\* _check_repo_identity: git_head.
ReadHead(p) ==
  /\ pc[p] = "head"
  /\ hd' = [hd EXCEPT ![p] = GitHead]
  /\ moved' = [moved EXCEPT ![p] = FALSE]
  /\ Goto(p, "tracked")
  /\ UNCHANGED <<gitVars, diskVars, req, tr, hd2, tr2, scan,
                 saw, got, sum, ran>>

\* evidence_tracked_in_head.
CheckTracked(p) ==
  /\ pc[p] = "tracked"
  /\ GoOrExit(p, ~TrackedInHead, "scan")
  /\ UNCHANGED <<gitVars, diskVars, ran>>

\* One command of repo_state, before or after the executed command.  Before
\* it dirt is a refusal at once, after it main judges everything together.
Scan(p) ==
  /\ pc[p] \in {"scan", "rescan"}
  /\ LET k == scan[p] + 1
         dirty == saw[p] \/ ScanSees(k)
     IN IF k = LastScan /\ dirty /\ pc[p] = "scan"
        THEN Exit(p)
        ELSE /\ scan' = [scan EXCEPT ![p] = IF k = LastScan THEN 0 ELSE k]
             /\ saw' = [saw EXCEPT ![p] = dirty]
             /\ Goto(p, IF k < LastScan THEN pc[p]
                        ELSE IF pc[p] = "scan" THEN "digest" ELSE "redigest")
             /\ UNCHANGED <<req, hd, tr, hd2, tr2, got, sum, moved>>
  /\ UNCHANGED <<gitVars, diskVars, ran>>

\* committed_tree_digest.
Digest(p) ==
  /\ pc[p] = "digest"
  /\ tr' = [tr EXCEPT ![p] = TreeOf[head]]
  /\ Goto(p, IF req[p].mode = "na" THEN "listing" ELSE "paths")
  /\ UNCHANGED <<gitVars, diskVars, req, hd, hd2, tr2, scan,
                 saw, got, sum, moved, ran>>

\* record_not_applicable, committed_project_profile: `git ls-tree` shows one
\* regular file, and then `git show` the profile it names, each at HEAD,
\* whatever HEAD is by now; it must be the requested one.
ListProfile(p) ==
  /\ pc[p] = "listing"
  /\ GoOrExit(p, head \in ProfileFileIn, "profile")
  /\ UNCHANGED <<gitVars, diskVars, ran>>

CheckProfile(p) ==
  /\ pc[p] = "profile"
  /\ GoOrExit(p, ProfileOf[head] = req[p].profile, "outpath")
  /\ UNCHANGED <<gitVars, diskVars, ran>>

\* safe_evidence_path of the artifact and then of the record, before and
\* again after the command: an output that HEAD tracks is refused (one that
\* leaves the directory is an Abort).
CheckPath(p) ==
  /\ pc[p] \in {"paths", "outpath", "repaths", "reoutpath"}
  /\ GoOrExit(p, head \notin OutTrackedIn,
              CASE pc[p] = "paths" -> "outpath"
                [] pc[p] = "repaths" -> "reoutpath"
                [] pc[p] = "reoutpath" -> "artifact"
                [] OTHER -> IF req[p].mode = "na" THEN "record" ELSE "confirm")
  /\ UNCHANGED <<gitVars, diskVars, ran>>

\* _preview_token, of what this invocation would run.
Plan(p) == [cat |-> req[p].cat, commit |-> hd[p], tree |-> tr[p]]

\* --preview stops here.
Preview(p) ==
  /\ pc[p] = "confirm"
  /\ req[p].mode = "preview"
  /\ Exit(p)
  /\ UNCHANGED <<gitVars, diskVars, ran>>

\* Mutant: the token leaves out the commit, as the tree digest is in it.
ConfirmTree(p) ==
  /\ pc[p] = "confirm"
  /\ req[p].mode = "run"
  /\ GoOrExit(p, /\ req[p].plan # NoPlan
                 /\ req[p].plan.cat = req[p].cat
                 /\ req[p].plan.tree = tr[p], "exec")
  /\ UNCHANGED <<gitVars, diskVars, ran>>

\* --confirm-execution: the token must be that of this very plan.
Confirm(p) ==
  /\ pc[p] = "confirm"
  /\ req[p].mode = "run"
  /\ GoOrExit(p, req[p].plan = Plan(p), "exec")
  /\ UNCHANGED <<gitVars, diskVars, ran>>

\* The command ends with an exit code and an output that may name a commit
\* (a timeout is exit code 124), or it could not be started, contained or
\* cleaned up after, which is a refusal (Abort).
EndCommand(p, passed, says) ==
  /\ pc[p] = "exec"
  /\ req[p].cat \notin Bound => says = NoSha
  /\ got' = [got EXCEPT ![p] =
       [kind |-> "capture", cat |-> req[p].cat, commit |-> hd[p],
        tree |-> tr[p], passed |-> passed, says |-> says]]
  /\ ran' = IF passed THEN ran \cup {<<req[p].cat, hd[p]>>} ELSE ran
  /\ Goto(p, "rehead")
  /\ UNCHANGED <<gitVars, diskVars, req, hd, tr, hd2, tr2,
                 scan, saw, sum, moved>>

\* The re-check: HEAD again, then repo_state (Scan), then the digest.
ReadHeadAgain(p) ==
  /\ pc[p] = "rehead"
  /\ hd2' = [hd2 EXCEPT ![p] = GitHead]
  /\ moved' = [moved EXCEPT ![p] = FALSE]
  /\ Goto(p, "rescan")
  /\ UNCHANGED <<gitVars, diskVars, req, hd, tr, tr2, scan,
                 saw, got, sum, ran>>

DigestAgain(p) ==
  /\ pc[p] = "redigest"
  /\ tr2' = [tr2 EXCEPT ![p] = TreeOf[head]]
  /\ Goto(p, "judge")
  /\ UNCHANGED <<gitVars, diskVars, req, hd, tr, hd2, scan,
                 saw, got, sum, moved, ran>>

\* Mutant: a moved HEAD is forgiven when the tree is the same.
JudgeByTree(p) ==
  /\ pc[p] = "judge"
  /\ GoOrExit(p, /\ tr2[p] = tr[p]
                 /\ ~saw[p]
                 /\ req[p].cat \in Bound => got[p].says = hd[p], "repaths")
  /\ UNCHANGED <<gitVars, diskVars, ran>>

\* main: same HEAD, same tree, still clean, and a bound output names HEAD.
Judge(p) ==
  /\ pc[p] = "judge"
  /\ GoOrExit(p, /\ hd2[p] = hd[p]
                 /\ tr2[p] = tr[p]
                 /\ ~saw[p]
                 /\ req[p].cat \in Bound => got[p].says = hd[p], "repaths")
  /\ UNCHANGED <<gitVars, diskVars, ran>>

\* atomic_write_bytes of header and output.
WriteArtifact(p) ==
  /\ pc[p] = "artifact"
  /\ logs' = [logs EXCEPT ![req[p].art] = got[p]]
  /\ Goto(p, "hash")
  /\ UNCHANGED <<gitVars, recs, req, localVars, ran>>

\* Mutant: a missing artifact hashes like an empty one.
HashAnything(p) ==
  /\ pc[p] = "hash"
  /\ sum' = [sum EXCEPT ![p] = logs[req[p].art]]
  /\ Goto(p, "record")
  /\ UNCHANGED <<gitVars, diskVars, req, hd, tr, hd2, tr2,
                 scan, saw, got, moved, ran>>

\* sha256_file(artifact_path): the file is opened and read again.
HashArtifact(p) ==
  /\ pc[p] = "hash"
  /\ logs[req[p].art] # NoFile
  /\ sum' = [sum EXCEPT ![p] = logs[req[p].art]]
  /\ Goto(p, "record")
  /\ UNCHANGED <<gitVars, diskVars, req, hd, tr, hd2, tr2,
                 scan, saw, got, moved, ran>>

\* It is gone: FileNotFoundError.
HashMissing(p) ==
  /\ pc[p] = "hash"
  /\ logs[req[p].art] = NoFile
  /\ Exit(p)
  /\ UNCHANGED <<gitVars, diskVars, ran>>

\* The record: the exit code is preserved whatever it is.
Record(p) ==
  IF req[p].mode = "na"
  THEN [kind |-> "na", cat |-> req[p].cat, commit |-> hd[p],
        profile |-> req[p].profile]
  ELSE [kind |-> "verified", cat |-> req[p].cat, commit |-> hd[p],
        tree |-> tr[p], passed |-> got[p].passed, art |-> req[p].art,
        sum |-> sum[p]]

\* atomic_write_bytes of the record, whatever was there before; then exit.
WriteRecord(p) ==
  /\ pc[p] = "record"
  /\ recs' = [recs EXCEPT ![req[p].out] = Record(p)]
  /\ Exit(p)
  /\ UNCHANGED <<gitVars, logs, ran>>

\* The invocation ends with nothing further written: a git command fails or
\* hangs, an output path leaves the directory, the URL guard refuses, the
\* command cannot be started or leaves a process behind, a file operation
\* raises OSError, or somebody kills the process.
Abort(p) ==
  /\ pc[p] # "idle"
  /\ Exit(p)
  /\ UNCHANGED <<gitVars, diskVars, ran>>

\* The checkout changes; while the command runs nobody's readings are due.
EnvStep ==
  /\ Env
  /\ moved' = [p \in Procs |-> pc[p] \notin {"idle", "head", "exec", "rehead"}]
  /\ UNCHANGED <<diskVars, pc, req, hd, tr, hd2, tr2, scan, saw,
                 got, sum, ran>>

\* Somebody removes an evidence file.
Remove ==
  /\ \/ /\ \E s \in Slots : recs[s] # NoFile /\ recs' = [recs EXCEPT ![s] = NoFile]
        /\ UNCHANGED logs
     \/ /\ \E l \in Logs : logs[l] # NoFile /\ logs' = [logs EXCEPT ![l] = NoFile]
        /\ UNCHANGED recs
  /\ UNCHANGED <<gitVars, pc, req, localVars, ran>>

Invoke(p) == \E r \in Requests : Start(p, r)

Step(p) ==
  \/ ReadHead(p) \/ CheckTracked(p) \/ Scan(p) \/ Digest(p)
  \/ ListProfile(p) \/ CheckProfile(p) \/ CheckPath(p)
  \/ Preview(p) \/ Confirm(p)
  \/ \E passed \in BOOLEAN, says \in made \cup {NoSha} :
       EndCommand(p, passed, says)
  \/ ReadHeadAgain(p) \/ DigestAgain(p) \/ Judge(p)
  \/ WriteArtifact(p) \/ HashArtifact(p) \/ HashMissing(p) \/ WriteRecord(p)

RecorderNext ==
  \/ \E p \in Procs : Invoke(p) \/ Step(p) \/ Abort(p)
  \/ EnvStep
  \/ Remove

Spec == Init /\ [][RecorderNext]_vars

----------------------------------------------------------------------------
\* A record is written only by a process that saw the checkout it describes:
\* if nobody touches the checkout from the last reading of HEAD on, the
\* commit and the tree are those of a clean HEAD, and an N/A record names
\* the profile committed there.  Whatever the command did to the checkout.
RecordDescribesCheckout ==
  [][\A p \in Procs :
        pc[p] = "record" /\ recs' # recs /\ pc'[p] = "idle" /\ ~moved[p]
          => LET r == recs'[req[p].out]
             IN /\ r.commit = head
                /\ dirt = {}
                /\ r.kind = "verified" => r.tree = TreeOf[head]
                /\ r.kind = "na" => r.profile = ProfileOf[head]]_vars

\* The two moments at which a confirmed run acts on its approval.  Whatever
\* token it was given, however long ago and of whatever plan: if nobody has
\* touched the checkout since its last reading of HEAD, the command starts,
\* and its record is written, only under the token of this category at the
\* commit and tree of a clean HEAD.  The first is "bound ... exact HEAD/tree"
\* (record_evidence.py:1090), the second survives what the command did.
ActsOnConfirmedPlan ==
  [][\A p \in Procs :
        (/\ req[p].mode = "run"
         /\ ~moved[p]
         /\ \/ pc[p] = "confirm" /\ pc'[p] = "exec"
            \/ pc[p] = "record" /\ pc'[p] = "idle" /\ recs' # recs)
          => /\ req[p].plan =
                  [cat |-> req[p].cat, commit |-> head, tree |-> TreeOf[head]]
             /\ dirt = {}]_vars

\* "hash the captured output" (record_evidence.py:10): the digest a record is
\* about to carry is the digest of what this process captured.
HashesItsCapture ==
  \A p \in Procs :
    pc[p] = "record" /\ req[p].mode = "run" => sum[p] = got[p]
=============================================================================
