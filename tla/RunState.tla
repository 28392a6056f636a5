------------------------------ MODULE RunState ------------------------------
(***************************************************************************)
(* update_run_state.py: any number of processes, started by the seats of   *)
(* one room run, that operate on the same .solo/run-state/<run_id>.json.   *)
(*                                                                         *)
(* A step of a process is one access to something shared: the advisory     *)
(* lock, the state file, or one `git` subprocess.  Everything git reports  *)
(* may be out of date one step later, because Env moves HEAD and the       *)
(* working tree while the process runs.                                    *)
(***************************************************************************)
EXTENDS GitCheckout

CONSTANTS Procs,         \* concurrent invocations of the tool
          NoProc,        \* nobody holds the lock
          Requests,      \* the sub-commands they are invoked with
          StateTrackedIn,\* commits that track this very state file
          LockTrackedIn  \* commits that track its lock file

\* base_sha, integration_sha, final_sha in the order of FIELDS.
Stages == 1..3

\* (mode, stage); init and show take no stage.
Ops == [mode : {"advance", "verify"}, stage : Stages]
         \cup [mode : {"init", "show"}, stage : {1}]

ASSUME RunStateAssumption ==
  /\ NoProc \notin Procs
  /\ Requests \subseteq Ops
  /\ StateTrackedIn \subseteq TrackedIn
  /\ LockTrackedIn \subseteq TrackedIn

VARIABLES file,    \* the run-state file: its kind and its three SHA fields
          lock,    \* the process holding <run_id>.json.lock, or NoProc
          pc,      \* where each process is
          op,      \* the sub-command a process runs: its mode and stage
          st,      \* read_state's result: the file as the process read it
          hd,      \* check_root's `head`
          scan,    \* how many of repo_state's commands have run
          saw,     \* one of them reported dirt
          out,     \* exit code of the last finished run
          agreed,  \* history: the checkout was `hd` and clean at one of them
          moved,   \* history: since HEAD was read, it or a change has moved
          raced    \* history: a foreign write hit the compare/replace window

\* What is lost when a process ends, and what stays known of it.
localVars == <<st, scan, saw, agreed, moved, raced>>
runVars == <<pc, op, hd, out>>
vars == <<gitVars, file, lock, runVars, localVars>>

----------------------------------------------------------------------------
Shas == [Stages -> Commits \cup {NoSha}]
Unset == [s \in Stages |-> NoSha]

\* The file is absent, holds a valid run-state-v1 object, or is corrupt,
\* foreign or a link.  Two files have the same revision digest iff equal.
Absent == [kind |-> "absent", sha |-> Unset]
Corrupt == [kind |-> "corrupt", sha |-> Unset]
Files == [kind : {"valid"}, sha : Shas] \cup {Absent, Corrupt}

\* The lock is held from "recheck" to "unlock".
InSection == {"recheck", "rechecklock", "refusing", "read", "head", "tracked",
              "scan", "decide", "compare", "replace", "unlock"}
PCs == {"idle", "resolve", "resolvelock", "lock"} \cup InSection

\* check_root's `head` has been read and is still going to be used.
SinceHead == {"tracked", "scan", "decide", "compare", "replace"}

\* Steps that run a git subprocess, before the lock is asked for and under it.
GitBefore == {"resolve", "resolvelock"}
GitSteps == {"recheck", "rechecklock", "refusing", "head", "tracked", "scan"}

TypeOK ==
  /\ GitTypeOK
  /\ file \in Files
  /\ lock \in Procs \cup {NoProc}
  /\ pc \in [Procs -> PCs]
  /\ op \in [Procs -> Ops]
  /\ st \in [Procs -> Files]
  /\ hd \in [Procs -> Commits \cup {NoSha}]
  /\ scan \in [Procs -> 0..LastScan]
  /\ saw \in [Procs -> BOOLEAN]
  /\ agreed \in [Procs -> BOOLEAN]
  /\ out \in [Procs -> {"none", "ok", "failed", "refused"}]
  /\ moved \in [Procs -> BOOLEAN]
  /\ raced \in [Procs -> BOOLEAN]

Init ==
  /\ GitInit
  /\ file \in {Absent, Corrupt}
  /\ lock = NoProc
  /\ pc = [p \in Procs |-> "idle"]
  /\ op = [p \in Procs |-> [mode |-> "show", stage |-> 1]]
  /\ st = [p \in Procs |-> Absent]
  /\ hd = [p \in Procs |-> NoSha]
  /\ scan = [p \in Procs |-> 0]
  /\ saw = [p \in Procs |-> FALSE]
  /\ agreed = [p \in Procs |-> FALSE]
  /\ out = [p \in Procs |-> "none"]
  /\ moved = [p \in Procs |-> FALSE]
  /\ raced = [p \in Procs |-> FALSE]

----------------------------------------------------------------------------
Goto(p, l) == pc' = [pc EXCEPT ![p] = l]

\* The process is gone, and its local variables with it; what it was asked
\* and what it printed (op, hd, out) is still known.
Exit(p, code) ==
  /\ Goto(p, "idle")
  /\ out' = [out EXCEPT ![p] = code]
  /\ st' = [st EXCEPT ![p] = Absent]
  /\ scan' = [scan EXCEPT ![p] = 0]
  /\ saw' = [saw EXCEPT ![p] = FALSE]
  /\ agreed' = [agreed EXCEPT ![p] = FALSE]
  /\ moved' = [moved EXCEPT ![p] = FALSE]
  /\ raced' = [raced EXCEPT ![p] = FALSE]

\* A return inside `with state_lock`: the exit code is decided, the lock
\* is still held until the context manager's finally block.
Return(p, code) ==
  /\ Goto(p, "unlock")
  /\ out' = [out EXCEPT ![p] = code]

\* main: parse the arguments, load the schema, enter _operate_locked.
Start(p, o) ==
  /\ pc[p] = "idle"
  /\ Goto(p, "resolve")
  /\ op' = [op EXCEPT ![p] = o]
  /\ hd' = [hd EXCEPT ![p] = NoSha]
  /\ out' = [out EXCEPT ![p] = "none"]
  /\ UNCHANGED <<gitVars, file, lock, localVars>>

\* safe_run_state_path, before the lock: of the state file, then of the lock
\* file.  It refuses a tracked path, and (the last disjunct) one that leaves
\* the directory or is a link.
Resolve(p) ==
  /\ \/ /\ pc[p] = "resolve"
        /\ head \notin StateTrackedIn
        /\ Goto(p, "resolvelock")
        /\ UNCHANGED <<out, localVars>>
     \/ /\ pc[p] = "resolvelock"
        /\ head \notin LockTrackedIn
        /\ Goto(p, "lock")
        /\ UNCHANGED <<out, localVars>>
     \/ /\ pc[p] \in GitBefore
        /\ Exit(p, "refused")
  /\ UNCHANGED <<gitVars, file, lock, op, hd>>

\* Mutant: a shared instead of an exclusive flock.
AcquireShared(p) ==
  /\ pc[p] = "lock"
  /\ lock' = p
  /\ Goto(p, "recheck")
  /\ UNCHANGED <<gitVars, file, op, hd, out, localVars>>

\* state_lock: the non-blocking flock succeeds ...
Acquire(p) ==
  /\ pc[p] = "lock"
  /\ lock = NoProc
  /\ lock' = p
  /\ Goto(p, "recheck")
  /\ UNCHANGED <<gitVars, file, op, hd, out, localVars>>

\* Mutant: a blocking lock, with no deadline.
GiveUpNever(p) == FALSE /\ UNCHANGED vars

\* ... or the deadline passes (or the lock file cannot be opened) first.
GiveUp(p) ==
  /\ pc[p] = "lock"
  /\ Exit(p, "refused")
  /\ UNCHANGED <<gitVars, file, lock, op, hd>>

\* The same path checks again, now under the lock.  The second is made even
\* when the first refuses ("refusing"): only then are both looked at.
Recheck(p) ==
  /\ \/ /\ pc[p] = "recheck"
        /\ \/ head \notin StateTrackedIn /\ Goto(p, "rechecklock")
           \/ Goto(p, "refusing")
        /\ UNCHANGED out
     \/ /\ pc[p] = "rechecklock"
        /\ head \notin LockTrackedIn
        /\ Goto(p, "read")
        /\ UNCHANGED out
     \/ /\ pc[p] \in {"rechecklock", "refusing"}
        /\ Return(p, "refused")
  /\ UNCHANGED <<gitVars, file, lock, op, hd, localVars>>

\* read_state, then `show`, which needs nothing else.
ReadState(p) ==
  /\ pc[p] = "read"
  /\ st' = [st EXCEPT ![p] = file]
  /\ \/ /\ file.kind = "corrupt"
        /\ Return(p, "refused")
     \/ /\ file.kind # "corrupt"
        /\ op[p].mode = "show"
        /\ Return(p, IF file.kind = "valid" THEN "ok" ELSE "refused")
     \/ /\ file.kind # "corrupt"
        /\ op[p].mode # "show"
        /\ Goto(p, "head")
        /\ UNCHANGED out
  /\ UNCHANGED <<gitVars, file, lock, op, hd, scan, saw, agreed, moved, raced>>

\* check_root, first command: git_head.
ReadHead(p) ==
  /\ pc[p] = "head"
  /\ hd' = [hd EXCEPT ![p] = GitHead]
  /\ Goto(p, "tracked")
  /\ moved' = [moved EXCEPT ![p] = FALSE]
  /\ UNCHANGED <<gitVars, file, lock, op, st, scan, saw, agreed, out, raced>>

\* check_root, second command: evidence_tracked_in_head.  `verify` stops
\* here (require_clean is False), the others go on to repo_state.
CheckTracked(p) ==
  /\ pc[p] = "tracked"
  /\ IF TrackedInHead
     THEN Return(p, "refused")
     ELSE /\ Goto(p, IF op[p].mode = "verify" THEN "decide" ELSE "scan")
          /\ UNCHANGED out
  /\ UNCHANGED <<gitVars, file, lock, op, hd, localVars>>

\* check_root, then repo_state: one command per kind of dirt; the verdict
\* is given after the last.
Scan(p) ==
  /\ pc[p] = "scan"
  /\ LET k == scan[p] + 1
         dirty == saw[p] \/ ScanSees(k)
     IN /\ scan' = [scan EXCEPT ![p] = k]
        /\ saw' = [saw EXCEPT ![p] = dirty]
        /\ agreed' = [agreed EXCEPT ![p] = @ \/ (head = hd[p] /\ dirt = {})]
        /\ IF k < LastScan
           THEN UNCHANGED <<pc, out>>
           ELSE IF dirty
                THEN Return(p, "refused")
                ELSE Goto(p, "decide") /\ UNCHANGED out
  /\ UNCHANGED <<gitVars, file, lock, op, st, hd, moved, raced>>

\* Mutant: state_lock releases after its body, not in a finally block, and
\* the lock is a file that outlives its process.
AbortHolding(p, code) ==
  /\ pc[p] \in GitSteps \cup GitBefore
  /\ Exit(p, code)
  /\ UNCHANGED <<gitVars, file, lock, op, hd>>

\* A run that a git subprocess stops, before or under the lock.
Abort(p, code) ==
  /\ \/ /\ pc[p] \in GitBefore
        /\ Exit(p, code)
     \/ /\ pc[p] \in GitSteps
        /\ Return(p, code)
        /\ UNCHANGED localVars
  /\ UNCHANGED <<gitVars, file, lock, op, hd>>

\* The command exits non-zero: "cannot tell" is a refusal everywhere.
GitFails(p) == Abort(p, "refused")

\* _git's 60 s limit raises TimeoutExpired, which `except (OSError,
\* TimeoutError)` does not catch: the interpreter exits 1.
GitHangs(p) == Abort(p, "failed")

\* `verify`: the recorded field against the HEAD that was read.
DecideVerify(p) ==
  /\ pc[p] = "decide"
  /\ op[p].mode = "verify"
  /\ LET want == st[p].sha[op[p].stage]
     IN Return(p, IF want # NoSha /\ want = hd[p] THEN "ok" ELSE "failed")
  /\ UNCHANGED <<gitVars, file, lock, op, hd, localVars>>

\* `init`: idempotent when the file exists.
DecideInit(p) ==
  /\ pc[p] = "decide"
  /\ op[p].mode = "init"
  /\ IF st[p].kind = "valid"
     THEN Return(p, "ok")
     ELSE Goto(p, "compare") /\ UNCHANGED out
  /\ UNCHANGED <<gitVars, file, lock, op, hd, localVars>>

\* Mutant: only the field after the next one is looked at.
LaterSetOffByOne(f, s) == \E t \in Stages : t > s + 1 /\ f.sha[t] # NoSha

\* A later field is already set.
LaterSet(f, s) == \E t \in Stages : t > s /\ f.sha[t] # NoSha

\* Mutant: a set field is simply written again.
DecideAdvanceAnew(p) ==
  /\ pc[p] = "decide"
  /\ op[p].mode = "advance"
  /\ IF LaterSet(st[p], op[p].stage)
     THEN Return(p, "refused")
     ELSE Goto(p, "compare") /\ UNCHANGED out
  /\ UNCHANGED <<gitVars, file, lock, op, hd, localVars>>

\* `advance`: refused when a later field is set or this one holds another
\* SHA, a no-op when it holds this one, a write when it is empty.
DecideAdvance(p) ==
  /\ pc[p] = "decide"
  /\ op[p].mode = "advance"
  /\ LET s == op[p].stage
         current == st[p].sha[s]
     IN IF LaterSet(st[p], s) THEN Return(p, "refused")
        ELSE IF current = NoSha THEN Goto(p, "compare") /\ UNCHANGED out
        ELSE Return(p, IF current = hd[p] THEN "ok" ELSE "refused")
  /\ UNCHANGED <<gitVars, file, lock, op, hd, localVars>>

\* Mutant: no revision comparison.
CompareNothing(p) ==
  /\ pc[p] = "compare"
  /\ Goto(p, "replace")
  /\ UNCHANGED <<gitVars, file, lock, op, hd, out, localVars>>

\* write_state: refuse when the file is no longer the one that was read.
Compare(p) ==
  /\ pc[p] = "compare"
  /\ IF file = st[p]
     THEN Goto(p, "replace") /\ UNCHANGED out
     ELSE Return(p, "refused")
  /\ UNCHANGED <<gitVars, file, lock, op, hd, localVars>>

\* The object the process writes: what it read, plus its own field.
NewFile(p) ==
  [kind |-> "valid",
   sha |-> IF op[p].mode = "init" THEN Unset
           ELSE [st[p].sha EXCEPT ![op[p].stage] = hd[p]]]

\* atomic_write_bytes: os.replace swaps the whole file in, or an OSError
\* leaves it as it was.
Replace(p) ==
  /\ pc[p] = "replace"
  /\ \/ /\ file' = NewFile(p)
        /\ Return(p, "ok")
     \/ /\ UNCHANGED file
        /\ Return(p, "refused")
  /\ UNCHANGED <<gitVars, lock, op, hd, localVars>>

\* state_lock's finally block.
Unlock(p) ==
  /\ pc[p] = "unlock"
  /\ lock' = NoProc
  /\ Exit(p, out[p])
  /\ UNCHANGED <<gitVars, file, op, hd>>

\* The process is killed: the kernel drops its flock, the file stays.
Crash(p) ==
  /\ pc[p] # "idle"
  /\ lock' = IF lock = p THEN NoProc ELSE lock
  /\ Exit(p, "none")
  /\ UNCHANGED <<gitVars, file, op, hd>>

\* HEAD stays, and every change in the working tree stays where it is: all
\* that Env has done is to make a new one.
OnlyAdds == head' = head /\ dirt \subseteq dirt'

\* The repository changes under the running processes.
EnvStep ==
  /\ Env
  /\ moved' = [p \in Procs |-> pc[p] \in SinceHead /\ (moved[p] \/ ~OnlyAdds)]
  /\ UNCHANGED <<file, lock, runVars, st, scan, saw, agreed, raced>>

Step(p) ==
  \/ Resolve(p) \/ Acquire(p) \/ GiveUp(p) \/ Recheck(p) \/ ReadState(p)
  \/ ReadHead(p) \/ CheckTracked(p) \/ Scan(p) \/ GitFails(p) \/ GitHangs(p)
  \/ DecideVerify(p) \/ DecideInit(p) \/ DecideAdvance(p)
  \/ Compare(p) \/ Replace(p) \/ Unlock(p)

Next ==
  \/ \E p \in Procs : Step(p) \/ Crash(p) \/ \E o \in Requests : Start(p, o)
  \/ EnvStep

Spec == Init /\ [][Next]_vars
FairSpec == Spec /\ \A p \in Procs : WF_vars(Step(p))

----------------------------------------------------------------------------
\* Somebody edits the state file by hand and takes no lock.  The tool is
\* "the ONLY writer"; its revision check is there for whoever is not it.
Foreign(f) ==
  /\ f # file
  /\ file' = f
  /\ raced' = [p \in Procs |-> raced[p] \/ pc[p] = "replace"]
  /\ UNCHANGED <<gitVars, lock, runVars, st, scan, saw, agreed, moved>>

ForeignNext == Next \/ \E f \in Files : Foreign(f)
ForeignSpec == Init /\ [][ForeignNext]_vars

----------------------------------------------------------------------------
\* Process p changes the state file in this step.
Records(p) == pc[p] = "replace" /\ pc'[p] = "unlock" /\ file' # file

\* Two invocations are never between lock acquisition and release together,
\* whatever crashes and timeouts happen: the read-modify-write of the state
\* file is a critical section.
Exclusive ==
  \A p \in Procs : pc[p] \in InSection => lock = p

\* An exit status 0 of `advance` or `verify` is a promise that outlives the
\* process: the field still holds the SHA that run read from HEAD, however
\* many other runs have come and gone since.
AckedShaStays ==
  \A p \in Procs :
    out[p] = "ok" /\ op[p].mode \in {"advance", "verify"}
      => /\ file.kind = "valid"
         /\ hd[p] # NoSha
         /\ file.sha[op[p].stage] = hd[p]

\* Edits race the scans: people go on changing files while the three scans
\* run one after another.  As long as they only make changes, and neither move
\* HEAD nor stage or drop what is there, a SHA that is recorded is HEAD, a
\* commit that tracks no runtime state, and was checked out clean at the
\* moment of one of the scans: no change that was there before all of them is
\* overlooked by each.
QuietAdvanceIsClean ==
  [][\A p \in Procs :
        Records(p) /\ ~moved[p]
          => agreed[p] /\ hd[p] = head /\ head \notin TrackedIn]_vars

\* The three fields behave as one write-once register that fills in the
\* order base, integration, final and never rewinds.
Register == INSTANCE RunRegister WITH sha <- file.sha
ImplementsRegister == Register!Spec

\* A write that no foreign edit overtook between the revision comparison and
\* os.replace destroys nothing: not a field, not a file it could not parse.
NoLostUpdate ==
  [][\A p \in Procs :
        Records(p) /\ ~raced[p]
          => /\ file.kind # "corrupt"
             /\ \A s \in Stages : file.sha[s] # NoSha
                                    => file'.sha[s] = file.sha[s]]_vars

\* Every run ends, whether it gets the lock, times out, is refused or is
\* killed ...
EveryRunEnds == \A p \in Procs : pc[p] # "idle" ~> pc[p] = "idle"

\* ... and no run leaves the lock taken behind it: whoever is waiting, some
\* state with a free lock comes.
LockComesFree == \A p \in Procs : lock = p ~> lock = NoProc

\* "recording a SHA for a tree that does not match it would be meaningless"
\* (update_run_state.py:35): the commit about to be recorded was checked out,
\* and clean, during at least one of the commands by which repo_state found no
\* dirt.
RecordedTreeWasClean ==
  \A p \in Procs :
    pc[p] = "replace" /\ op[p].mode = "advance" => agreed[p]

\* "1 = verification failed (verify: field missing or != current HEAD)"
\* (update_run_state.py:48): no other sub-command exits 1.
OnlyVerifyExitsOne ==
  \A p \in Procs : out[p] = "failed" => op[p].mode = "verify"
=============================================================================
