---------------------------- MODULE ProcessTree ----------------------------
(***************************************************************************)
(* record_evidence.py, _run_bounded: one evidence command, the processes   *)
(* it starts, the recorder thread that waits for it and stops it, and the  *)
(* two threads that drain its output pipes.                                *)
(*                                                                         *)
(* The tree is held in a container: a session's process group on POSIX, a  *)
(* kill-on-close job on Windows.  Every wait of the recorder has a limit,  *)
(* and a limit may pass at any moment.                                     *)
(***************************************************************************)
EXTENDS Integers

CONSTANTS Leader,    \* the process Popen starts
          Children,  \* the processes the tree may start
          Streams,   \* stdout and stderr
          Limit,     \* max_output_bytes
          Capacity,  \* what a pipe holds before its writers block
          MaxOutput  \* what the tree would write to one pipe at most

Procs == {Leader} \cup Children

ASSUME ProcessTreeAssumption ==
  /\ Leader \notin Children
  /\ Limit \in Nat
  /\ Capacity \in Nat \ {0}
  /\ MaxOutput \in Nat

VARIABLES windows,  \* which container; never changes
          pc,       \* where _run_bounded is
          timedOut, \* its `timed_out`
          ok,       \* its `cleanup_ok`, or the part of it known so far
          exit,     \* its `exit_code`
          life,     \* each process: not started, alive, exited and unreaped, gone
          box,      \* the members of the container
          started,  \* the command runs (Windows: the bootstrap was released)
          released, \* the bootstrap's release file exists
          doomed,   \* processes a signal or a terminated job is about to end
          code,     \* how the leader ended
          holds,    \* who has the write end of each pipe
          written,  \* bytes written to each pipe so far
          pipe,     \* bytes in each pipe
          rd,       \* each reader thread
          data,     \* bytes each stream retained
          cut       \* its `truncated`

mainVars == <<pc, timedOut, ok, exit>>
treeVars == <<life, box, started, released, doomed, code>>
readVars == <<rd, data, cut>>
pipeVars == <<holds, written, pipe>>
stepVars == <<mainVars, treeVars, readVars, pipeVars>>
vars == <<stepVars, windows>>

----------------------------------------------------------------------------
\* _run_bounded in order; the steps of Stopping are _terminate_tree.
Stopping == {"term", "grace", "kill", "reap", "reap2", "verify"}
Launching == {"launch", "assign", "release"}
Ended == {"done", "refused", "dead"}
PCs == Launching \cup {"wait", "settle", "check", "drain", "judge"}
         \cup Stopping \cup Ended

Types ==
  /\ pc \in PCs
  /\ timedOut \in BOOLEAN
  /\ ok \in BOOLEAN
  /\ exit \in {"none", "zero", "nonzero", "limit"}
  /\ life \in [Procs -> {"none", "alive", "zombie", "gone"}]
  /\ box \subseteq Procs
  /\ started \in BOOLEAN
  /\ released \in BOOLEAN
  /\ doomed \subseteq Procs
  /\ code \in {"none", "zero", "nonzero"}
  /\ holds \in [Streams -> SUBSET Procs]
  /\ written \in [Streams -> 0..MaxOutput]
  /\ pipe \in [Streams -> 0..Capacity]
  /\ rd \in [Streams -> {"none", "reading", "eof", "failed"}]
  /\ data \in [Streams -> 0..Limit]
  /\ cut \in [Streams -> BOOLEAN]

TypeOK == Types /\ windows \in BOOLEAN

Init ==
  /\ windows \in BOOLEAN
  /\ pc = "launch"
  /\ timedOut = FALSE
  /\ ok = TRUE
  /\ exit = "none"
  /\ life = [p \in Procs |-> "none"]
  /\ box = {}
  /\ started = FALSE
  /\ released = FALSE
  /\ doomed = {}
  /\ code = "none"
  /\ holds = [s \in Streams |-> {}]
  /\ written = [s \in Streams |-> 0]
  /\ pipe = [s \in Streams |-> 0]
  /\ rd = [s \in Streams |-> "none"]
  /\ data = [s \in Streams |-> 0]
  /\ cut = [s \in Streams |-> FALSE]

Alive == {p \in Procs : life[p] = "alive"}

\* A reader thread that can no longer change its stream.
Drained(s) == rd[s] \in {"eof", "failed"}

\* _posix_group_active: killpg(pgid, 0) also finds an unreaped member.
\* Job accounting counts running processes only.
TreeActive ==
  \E p \in box : life[p] = "alive" \/ (~windows /\ life[p] = "zombie")

----------------------------------------------------------------------------
\* The command and its descendants.
Runs(p) == life[p] = "alive" /\ p \notin doomed /\ (p = Leader => started)

\* Mutant: the bootstrap does not wait.
BootstrapHurries ==
  /\ life[Leader] = "alive"
  /\ Leader \notin doomed
  /\ ~started
  /\ started' = TRUE
  /\ UNCHANGED <<mainVars, life, box, released, doomed, code, readVars, pipeVars>>

\* Windows: the bootstrap sees the release file and starts the command.  The
\* two are one process here, as the first only waits for the second.
BootstrapStarts ==
  /\ life[Leader] = "alive"
  /\ Leader \notin doomed
  /\ released
  /\ ~started
  /\ started' = TRUE
  /\ UNCHANGED <<mainVars, life, box, released, doomed, code, readVars, pipeVars>>

\* A child is a member of its parent's container and inherits its handles.
Fork(p, c) ==
  /\ Runs(p)
  /\ c \in Children
  /\ life[c] = "none"
  /\ life' = [life EXCEPT ![c] = "alive"]
  /\ box' = IF p \in box THEN box \cup {c} ELSE box
  /\ holds' = [s \in Streams |-> IF p \in holds[s] THEN holds[s] \cup {c}
                                                  ELSE holds[s]]
  /\ UNCHANGED <<mainVars, started, released, doomed, code, readVars, written, pipe>>

\* setsid or setpgid: a child leaves the process group for one of its own.  A job
\* without a breakaway limit has no such exit.
Leave(p) ==
  /\ Runs(p)
  /\ p # Leader
  /\ ~windows
  /\ p \in box
  /\ box' = box \ {p}
  /\ UNCHANGED <<mainVars, life, started, released, doomed, code, readVars, pipeVars>>

Write(p, s) ==
  /\ Runs(p)
  /\ p \in holds[s]
  /\ rd[s] # "failed"
  /\ pipe[s] < Capacity
  /\ written[s] < MaxOutput
  /\ written' = [written EXCEPT ![s] = @ + 1]
  /\ pipe' = [pipe EXCEPT ![s] = @ + 1]
  /\ UNCHANGED <<mainVars, treeVars, readVars, holds>>

\* Redirecting an output closes the inherited end.
CloseOutput(p, s) ==
  /\ Runs(p)
  /\ p \in holds[s]
  /\ holds' = [holds EXCEPT ![s] = @ \ {p}]
  /\ UNCHANGED <<mainVars, treeVars, readVars, written, pipe>>

\* The end of a process closes its handles.
End(p, how) ==
  /\ life' = [life EXCEPT ![p] = "zombie"]
  /\ code' = IF p = Leader THEN how ELSE code
  /\ doomed' = doomed \ {p}
  /\ holds' = [s \in Streams |-> holds[s] \ {p}]
  /\ UNCHANGED <<mainVars, box, started, released, readVars, written, pipe>>

\* On its own account; a bootstrap that nobody releases exits 125.
ExitsItself(p, how) ==
  /\ life[p] = "alive"
  /\ p \notin doomed
  /\ p = Leader /\ ~started => how = "nonzero"
  /\ End(p, how)

\* By a signal, or because its job was terminated, some time after it.
Dies(p) ==
  /\ life[p] = "alive"
  /\ p \in doomed
  /\ End(p, "nonzero")

\* Whoever is the parent by now collects it.  The recorder alone collects
\* the leader, unless the recorder is gone.
ReapOrphan(p) ==
  /\ life[p] = "zombie"
  /\ p # Leader \/ pc = "dead"
  /\ life' = [life EXCEPT ![p] = "gone"]
  /\ UNCHANGED <<mainVars, box, started, released, doomed, code, readVars, pipeVars>>

Command ==
  \/ BootstrapStarts
  \/ \E p \in Procs :
       \/ Leave(p) \/ Dies(p) \/ ReapOrphan(p)
       \/ \E c \in Children : Fork(p, c)
       \/ \E s \in Streams : Write(p, s) \/ CloseOutput(p, s)
       \/ \E how \in {"zero", "nonzero"} : ExitsItself(p, how)

----------------------------------------------------------------------------
\* Mutant: a reader that has enough reads no further.
ReadNoFurther(s) ==
  /\ rd[s] = "reading"
  /\ data[s] < Limit
  /\ \E n \in 1..pipe[s] :
       LET room == Limit - data[s]
       IN /\ pipe' = [pipe EXCEPT ![s] = @ - n]
          /\ data' = [data EXCEPT ![s] = @ + (IF n < room THEN n ELSE room)]
          /\ cut' = [cut EXCEPT ![s] = @ \/ n > room]
  /\ UNCHANGED <<mainVars, treeVars, rd, holds, written>>

\* The reader threads, _BoundedStream.drain.  Beyond the limit they go on
\* reading and drop what they read.
Read(s) ==
  /\ rd[s] = "reading"
  /\ \E n \in 1..pipe[s] :
       LET room == Limit - data[s]
       IN /\ pipe' = [pipe EXCEPT ![s] = @ - n]
          /\ data' = [data EXCEPT ![s] = @ + (IF n < room THEN n ELSE room)]
          /\ cut' = [cut EXCEPT ![s] = @ \/ n > room]
  /\ UNCHANGED <<mainVars, treeVars, rd, holds, written>>

\* End of file: the pipe is empty and nobody can write to it again.
ReadEof(s) ==
  /\ rd[s] = "reading"
  /\ pipe[s] = 0
  /\ holds[s] = {}
  /\ rd' = [rd EXCEPT ![s] = "eof"]
  /\ UNCHANGED <<mainVars, treeVars, data, cut, pipeVars>>

\* Any exception ends the thread, kept in `error`; its end of the pipe closes.
ReadFails(s) ==
  /\ rd[s] = "reading"
  /\ rd' = [rd EXCEPT ![s] = "failed"]
  /\ pipe' = [pipe EXCEPT ![s] = 0]
  /\ UNCHANGED <<mainVars, treeVars, data, cut, holds, written>>

Readers == \E s \in Streams : Read(s) \/ ReadEof(s) \/ ReadFails(s)

----------------------------------------------------------------------------
\* The thread that called _run_bounded.
At(here, there) == pc = here /\ pc' = there

\* SIGKILL to, or a terminated or closed job of, a set of processes.
Doom(P) == doomed' = doomed \cup (P \cap Alive)

\* Mutant: the job is created without the kill-on-close limit.
CloseOrdinaryJob == Doom({})

\* job.close(), of a job that kills on close; there is none on POSIX.
CloseJob == Doom(IF windows THEN box ELSE {})

\* Popen: on POSIX the new session's group exists before the command runs;
\* on Windows the bootstrap is in no job yet.
Launch ==
  /\ \/ /\ At("launch", IF windows THEN "assign" ELSE "wait")
        /\ life' = [life EXCEPT ![Leader] = "alive"]
        /\ holds' = [s \in Streams |-> {Leader}]
        /\ started' = ~windows
        /\ box' = IF windows THEN {} ELSE {Leader}
        /\ rd' = [s \in Streams |-> IF windows THEN "none" ELSE "reading"]
     \/ /\ At("launch", "refused")
        /\ UNCHANGED <<life, holds, started, box, rd>>
  /\ UNCHANGED <<timedOut, ok, exit, released, doomed, code, data, cut, written, pipe>>

\* job.assign, or the bootstrap is killed and the error raised.
Assign ==
  /\ \/ At("assign", "release") /\ box' = {Leader} /\ UNCHANGED doomed
     \/ At("assign", "refused") /\ UNCHANGED box /\ Doom({Leader})
  /\ UNCHANGED <<timedOut, ok, exit, life, started, released, code, readVars, pipeVars>>

\* Create the release file and start the readers, or close the job.
Release ==
  /\ \/ /\ At("release", "wait")
        /\ released' = TRUE
        /\ rd' = [s \in Streams |-> "reading"]
        /\ UNCHANGED doomed
     \/ /\ At("release", "refused")
        /\ CloseJob
        /\ UNCHANGED <<released, rd>>
  /\ UNCHANGED <<timedOut, ok, exit, life, box, started, code, data, cut, pipeVars>>

\* proc.wait: the leader is collected.  It may have been collected before.
Collected ==
  /\ life[Leader] \in {"zombie", "gone"}
  /\ life' = [life EXCEPT ![Leader] = "gone"]
  /\ UNCHANGED <<box, started, released, doomed, code>>

\* The command returns within its time ...
Returned ==
  /\ At("wait", "settle")
  /\ Collected
  /\ exit' = code
  /\ UNCHANGED <<timedOut, ok, readVars, pipeVars>>

\* Mutant: the exit status is looked at after the tree was stopped.
LimitPassesKeepsCode ==
  /\ At("wait", "term")
  /\ timedOut' = TRUE
  /\ exit' = IF code = "zero" THEN code ELSE "limit"
  /\ UNCHANGED <<ok, treeVars, readVars, pipeVars>>

\* ... or its time is up first.
LimitPasses ==
  /\ At("wait", "term")
  /\ timedOut' = TRUE
  /\ exit' = "limit"
  /\ UNCHANGED <<ok, treeVars, readVars, pipeVars>>

\* _join_readers(threads, 1.0)
Settle ==
  /\ At("settle", "check")
  /\ ok' = (\A s \in Streams : Drained(s))
  /\ UNCHANGED <<timedOut, exit, treeVars, readVars, pipeVars>>

\* Mutant: only the readers are looked at.
CheckReadersOnly ==
  /\ pc = "check"
  /\ pc' = IF ok THEN "judge" ELSE "term"
  /\ UNCHANGED <<timedOut, ok, exit, treeVars, readVars, pipeVars>>

\* _wait_tree_gone(proc, job, 0.0): one look at the container, and the
\* decision to stop what is left.
Check ==
  /\ pc = "check"
  /\ \E gone \in {FALSE, ~TreeActive} :   \* the query may fail
       /\ ok' = (ok /\ gone)
       /\ pc' = IF ok /\ gone THEN "judge" ELSE "term"
  /\ UNCHANGED <<timedOut, exit, treeVars, readVars, pipeVars>>

\* SIGTERM, which any member may ignore; or job.terminate, which may fail.
Terminate ==
  /\ At("term", IF windows THEN "reap" ELSE "grace")
  /\ \E hit \in IF windows THEN {{}, box} ELSE SUBSET box : Doom(hit)
  /\ UNCHANGED <<timedOut, ok, exit, life, box, started, released, code, readVars, pipeVars>>

\* Two seconds for the group to disappear.
Grace ==
  /\ pc = "grace"
  /\ pc' = IF TreeActive THEN "kill" ELSE "reap"
  /\ UNCHANGED <<timedOut, ok, exit, treeVars, readVars, pipeVars>>

\* Mutant: SIGKILL to the command's own process, not to its group.
KillLeaderOnly ==
  /\ At("kill", "reap")
  /\ Doom({Leader})
  /\ UNCHANGED <<timedOut, ok, exit, life, box, started, released, code, readVars, pipeVars>>

\* SIGKILL to the group.
Kill ==
  /\ At("kill", "reap")
  /\ Doom(box)
  /\ UNCHANGED <<timedOut, ok, exit, life, box, started, released, code, readVars, pipeVars>>

\* proc.wait(timeout=5), else proc.kill().
Reap ==
  /\ \/ At("reap", "verify") /\ Collected
     \/ /\ At("reap", "reap2")
        /\ Doom({Leader})
        /\ UNCHANGED <<life, box, started, released, code>>
  /\ UNCHANGED <<timedOut, ok, exit, readVars, pipeVars>>

\* proc.wait(timeout=2), else the tree is given up.
ReapAgain ==
  /\ \/ At("reap2", "verify") /\ Collected /\ UNCHANGED ok
     \/ At("reap2", "drain") /\ ok' = FALSE /\ UNCHANGED treeVars
  /\ UNCHANGED <<timedOut, exit, readVars, pipeVars>>

\* _wait_tree_gone(proc, job, 5.0), the result of _terminate_tree.
Verify ==
  /\ At("verify", "drain")
  /\ \E gone \in {FALSE, ~TreeActive} : ok' = gone
  /\ UNCHANGED <<timedOut, exit, treeVars, readVars, pipeVars>>

\* Mutant: what _join_readers returns is not looked at.
DrainUnchecked ==
  /\ At("drain", "judge")
  /\ ok' = (timedOut /\ ok)
  /\ UNCHANGED <<timedOut, exit, treeVars, readVars, pipeVars>>

\* Mutant: the threads are joined without a limit.
DrainForever ==
  /\ At("drain", "judge")
  /\ \A s \in Streams : Drained(s)
  /\ ok' = (timedOut /\ ok)
  /\ UNCHANGED <<timedOut, exit, treeVars, readVars, pipeVars>>

\* _join_readers(threads, 5.0).  A command that returned by itself and had
\* to be stopped is refused whatever comes of it.
Drain ==
  /\ At("drain", "judge")
  /\ ok' = (timedOut /\ ok /\ \A s \in Streams : Drained(s))
  /\ UNCHANGED <<timedOut, exit, treeVars, readVars, pipeVars>>

\* out.error or err.error; then job.close() and the result.
Judge ==
  /\ At("judge", "done")
  /\ ok' = (ok /\ \A s \in Streams : rd[s] # "failed")
  /\ CloseJob
  /\ UNCHANGED <<timedOut, exit, life, box, started, released, code, readVars, pipeVars>>

Main ==
  \/ Launch \/ Assign \/ Release \/ Returned \/ LimitPasses \/ Settle \/ Check
  \/ Terminate \/ Grace \/ Kill \/ Reap \/ ReapAgain \/ Verify \/ Drain \/ Judge

\* The recorder is killed: its threads end, its end of the pipes and its
\* handle of the job close.
RecorderDies ==
  /\ pc \notin Ended
  /\ pc' = "dead"
  /\ rd' = [s \in Streams |-> IF Drained(s) THEN rd[s] ELSE "failed"]
  /\ pipe' = [s \in Streams |-> 0]
  /\ CloseJob
  /\ UNCHANGED <<timedOut, ok, exit, life, box, started, released, code,
                 data, cut, holds, written>>

Next == (Main \/ Readers \/ Command \/ RecorderDies) /\ UNCHANGED windows

Spec == Init /\ [][Next]_vars

\* The recorder's threads are scheduled; the kernel ends who was killed.
\* The command owes nothing.
FairSpec ==
  /\ Spec
  /\ WF_stepVars(Main)
  /\ \A s \in Streams : WF_stepVars(Read(s)) /\ WF_stepVars(ReadEof(s))
  /\ \A p \in Procs : WF_stepVars(Dies(p))

----------------------------------------------------------------------------
\* A result the caller writes a record from.
Recordable == pc = "done" /\ ok

Smaller(m, n) == IF m < n THEN m ELSE n

\* "refuses evidence unless capture readers reach EOF": a recordable result
\* holds everything the whole tree ever wrote, up to the limit, says when
\* there was more, and nobody is left who could write another byte.
CaptureIsComplete ==
  Recordable =>
    \A s \in Streams :
      /\ holds[s] = {}
      /\ data[s] = Smaller(written[s], Limit)
      /\ cut[s] <=> written[s] > Limit

\* A recordable result leaves nothing in the container, not even an exited
\* process that somebody still has to collect.
ContainerIsEmpty == Recordable => ~TreeActive

\* A recorded exit status 0 is the command's own verdict on all of its work:
\* it gave it within its time, and no process of the tree was stopped by
\* the recorder before or after.
SuccessWasUndisturbed ==
  Recordable /\ exit = "zero" =>
    code = "zero" /\ started /\ ~timedOut /\ doomed \cap box = {}

\* The bootstrap closes the race between Popen and the assignment to the
\* job: on Windows no process of the command ever runs outside it.
CommandIsInJob ==
  windows /\ started => Alive \subseteq box

\* "A timeout may be recorded only after the complete process tree is gone"
\* (record_evidence.py:494), "A command that returns while descendants still
\* run is terminated and marked unsafe" (:495): no process of the tree is
\* alive when the result is recordable.
WholeTreeIsGone == Recordable => Alive = {}

\* A job cannot be left, so there that promise is kept.
JobTreeIsGone == windows => WholeTreeIsGone

\* Every wait is bounded: _run_bounded ends, whatever the command does.
AlwaysReturns == <>(pc \in Ended)

\* A reader past its limit keeps draining: as long as the recorder waits, no
\* writer blocks for ever on a full pipe.
WritersNeverStick ==
  \A s \in Streams :
    pipe[s] = Capacity ~> pipe[s] < Capacity

\* Once _run_bounded has returned nothing stays alive in the container; on
\* Windows that also holds when the recorder itself is killed.
ContainerDies ==
  (pc = "done" \/ (windows /\ pc = "dead")) ~> (box \cap Alive = {})
=============================================================================
