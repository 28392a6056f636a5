------------------------------ MODULE BoundedGit ------------------------------
(* _git_bounded of scan_secrets.py: one git command in a process group of its *)
(* own, a daemon thread per pipe that keeps at most a cap of what it reads,   *)
(* and a main loop that polls events, the process and the clock.  Output is   *)
(* counted in units; what a unit says is the caller's affair.                 *)
EXTENDS Integers

CONSTANTS ErrCap,      \* GIT_STDERR_CAP
          Chunk,       \* GIT_PIPE_CHUNK
          PipeSize     \* units the kernel's pipe holds

ASSUME GitAssumption == ErrCap \in Nat \ {0} /\ Chunk \in Nat \ {0}
                        /\ PipeSize \in Nat \ {0}

VARIABLES gpc,         \* the calling thread
          child,       \* none, running, exited, dead
          code,        \* what git exits with when nobody kills it
          holder,      \* a process outside the group has the pipes open
          pipe,        \* stream -> units to write, in the pipe, cap left, kept
          limit, broken,           \* limit_hit, read_failed
          timedOut, lingering,     \* lingering: readers_alive
          rc, truncated            \* what the call returns

gitVars == <<gpc, child, code, holder, pipe, limit, broken, timedOut, lingering,
             rc, truncated>>
procVars == <<child, code, holder>>
callVars == <<timedOut, lingering, rc, truncated>>

Streams == {"out", "err"}
Least(x, y) == IF x < y THEN x ELSE y
Stream(n, cap) == [total |-> n, left |-> n, full |-> 0, room |-> cap, kept |-> 0, done |-> FALSE]

GitInit ==
  /\ gpc = "idle" /\ child = "none" /\ code = 0 /\ holder = FALSE
  /\ pipe = [s \in Streams |-> Stream(0, 0)]
  /\ limit = FALSE /\ broken = FALSE /\ timedOut = FALSE /\ lingering = FALSE
  /\ rc = 0 /\ truncated = FALSE

\* Popen and both readers; git would write n units, and err units to stderr.
Begin(cap, n, err, c, h) ==
  /\ gpc = "idle" /\ gpc' = "events"
  /\ child' = "running" /\ code' = c /\ holder' = h
  /\ pipe' = [s \in Streams |-> IF s = "out" THEN Stream(n, cap)
                                             ELSE Stream(err, ErrCap)]
  /\ limit' = FALSE /\ broken' = FALSE /\ timedOut' = FALSE /\ lingering' = FALSE
  /\ rc' = 0 /\ truncated' = FALSE

\* Popen raised OSError: 127, no output, not truncated.
CannotBegin ==
  /\ gpc = "idle" /\ gpc' = "returned"
  /\ child' = "none" /\ code' = 127 /\ holder' = FALSE
  /\ pipe' = [s \in Streams |-> Stream(0, 0)]
  /\ limit' = FALSE /\ broken' = FALSE /\ timedOut' = FALSE /\ lingering' = FALSE
  /\ rc' = 127 /\ truncated' = FALSE

------------------------------------------------------------------------------
(* The command.                                                              *)

Write(s) ==
  /\ child = "running" /\ pipe[s].left > 0 /\ pipe[s].full < PipeSize
  /\ pipe' = [pipe EXCEPT ![s].left = @ - 1, ![s].full = @ + 1]
  /\ UNCHANGED <<gpc, procVars, limit, broken, callVars>>

Exits ==
  /\ child = "running" /\ child' = "exited"
  /\ \/ (\A s \in Streams : pipe[s].left = 0) /\ code' = code
     \/ code' = 1                         \* it fails half-way
  /\ UNCHANGED <<gpc, holder, pipe, limit, broken, callVars>>

LetsGo == /\ holder /\ holder' = FALSE
          /\ UNCHANGED <<gpc, child, code, pipe, limit, broken, callVars>>

------------------------------------------------------------------------------
(* _read_bounded_pipe.                                                       *)

\* One read of at most one unit beyond the cap; the extra unit is not kept.
Read(s) ==
  /\ ~pipe[s].done /\ pipe[s].full > 0
  /\ \E n \in 1..Least(pipe[s].full, Least(Chunk, pipe[s].room + 1)) :
       LET keep == Least(n, pipe[s].room)
       IN /\ pipe' = [pipe EXCEPT ![s].full = @ - n, ![s].room = @ - keep,
                                  ![s].kept = @ + keep, ![s].done = n > keep]
          /\ limit' = (limit \/ n > keep)
  /\ UNCHANGED <<gpc, procVars, broken, callVars>>

ReadEnds(s) ==
  /\ ~pipe[s].done /\ pipe[s].full = 0 /\ child # "running" /\ ~holder
  /\ pipe' = [pipe EXCEPT ![s].done = TRUE]
  /\ UNCHANGED <<gpc, procVars, limit, broken, callVars>>

ReadFails(s) ==
  /\ child # "none" /\ ~pipe[s].done
  /\ broken' = TRUE /\ pipe' = [pipe EXCEPT ![s].done = TRUE]
  /\ UNCHANGED <<gpc, procVars, limit, callVars>>

------------------------------------------------------------------------------
(* The calling thread: events, then the process, then the clock, and again.  *)

BothDone == \A s \in Streams : pipe[s].done

LooksAtEvents ==
  /\ gpc = "events" /\ gpc' = IF limit \/ broken THEN "judge" ELSE "ends"
  /\ UNCHANGED <<procVars, pipe, limit, broken, callVars>>

LooksAtEnds ==
  /\ gpc = "ends"
  /\ gpc' = IF child # "running" /\ BothDone THEN "judge" ELSE "clock"
  /\ UNCHANGED <<procVars, pipe, limit, broken, callVars>>

WaitsOn == /\ gpc = "clock" /\ gpc' = "events"
           /\ UNCHANGED <<procVars, pipe, limit, broken, callVars>>

RunsOut == /\ gpc = "clock" /\ gpc' = "judge" /\ timedOut' = TRUE
           /\ UNCHANGED <<procVars, pipe, limit, broken, lingering, rc, truncated>>

\* SIGKILL to the group or TerminateJobObject; a process in an uninterruptible
\* call does not die at once.
Kill == child' \in IF child = "running" THEN {"running", "dead"} ELSE {child}

Judges ==
  /\ gpc = "judge" /\ gpc' = "wait"
  /\ IF timedOut \/ limit \/ broken THEN Kill ELSE child' = child
  /\ UNCHANGED <<code, holder, pipe, limit, broken, callVars>>

\* proc.wait(2), a second kill, proc.wait(2).
Waits ==
  /\ gpc = "wait" /\ gpc' = "join"
  /\ Kill
  /\ rc' = CASE child' = "running" -> 124 [] child' = "dead" -> 137
             [] OTHER -> code
  /\ UNCHANGED <<code, holder, pipe, limit, broken, timedOut, lingering, truncated>>

\* Mutant: a reader is waited for until it ends.
JoinsForGood ==
  /\ gpc = "join" /\ gpc' = "return" /\ BothDone /\ lingering' = FALSE
  /\ UNCHANGED <<procVars, pipe, limit, broken, timedOut, rc, truncated>>

\* The joins have time limits; readers that do not end in them are given up.
Joins ==
  /\ gpc = "join" /\ gpc' = "return"
  /\ \/ BothDone /\ lingering' = FALSE
     \/ ~BothDone /\ lingering' = TRUE
  /\ UNCHANGED <<procVars, pipe, limit, broken, timedOut, rc, truncated>>

\* Mutant: only the clock counts as a failure.
ReturnsUnlessLate ==
  /\ gpc = "return" /\ gpc' = "returned"
  /\ rc' = IF timedOut THEN 124 ELSE rc
  /\ truncated' = timedOut
  /\ UNCHANGED <<procVars, pipe, limit, broken, timedOut, lingering>>

Returns ==
  /\ gpc = "return" /\ gpc' = "returned"
  /\ rc' = IF timedOut THEN 124 ELSE rc
  /\ truncated' = (timedOut \/ limit \/ broken \/ lingering)
  /\ UNCHANGED <<procVars, pipe, limit, broken, timedOut, lingering>>

Answered == gpc = "returned" /\ rc = 0 /\ ~truncated
Failed   == gpc = "returned" /\ ~(rc = 0 /\ ~truncated)
Output   == pipe["out"].kept

Calling == LooksAtEvents \/ LooksAtEnds \/ WaitsOn \/ RunsOut \/ Judges \/ Waits
           \/ Joins \/ Returns

GitStep == \/ \E s \in Streams : Write(s) \/ Read(s) \/ ReadEnds(s) \/ ReadFails(s)
           \/ Exits \/ LetsGo \/ Calling
==============================================================================
