------------------------- MODULE ProcessTreeProofs -------------------------
(***************************************************************************)
(* Theorems about ProcessTree for every tree, limit and container.  The    *)
(* inductive invariant IInv keeps the books of each pipe, says who can be  *)
(* in the container, and what `cleanup_ok` has established at each point.  *)
(***************************************************************************)
EXTENDS ProcessTree, TLAPS

\* What a working reader has taken out of its pipe is in `data`, up to the
\* limit, and `truncated` says when there was more.
Books ==
  \A s \in Streams : rd[s] # "failed" =>
    /\ pipe[s] <= written[s]
    /\ data[s] = Smaller(written[s] - pipe[s], Limit)
    /\ cut[s] <=> written[s] - pipe[s] > Limit

\* End of file is final.
EofIsFinal ==
  \A s \in Streams :
    /\ pc \in Launching => rd[s] = "none"
    /\ rd[s] = "eof" => pipe[s] = 0 /\ holds[s] = {}

\* Only processes that have run are in the container, and nothing runs
\* before Popen.
BoxHasRun ==
  /\ \A p \in box : life[p] # "none"
  /\ pc = "assign" => life[Leader] # "none"
  /\ pc = "launch" => \A p \in Procs : life[p] = "none"

\* The launch protocol on Windows: the bootstrap is assigned to the job, then
\* released, then starts the command.
JobHoldsAll ==
  /\ pc \in Launching => ~released
  /\ windows =>
       /\ pc \notin Launching \cup {"refused", "dead"} => released
       /\ pc = "release" \/ released => Leader \in box
       /\ started => released
       /\ Alive \subseteq IF started THEN box ELSE {Leader}

\* What cleanup_ok stands for at each point.
AllDrained == \A s \in Streams : Drained(s)

OkMeans ==
  /\ pc = "check" /\ ok => AllDrained
  /\ pc = "drain" /\ ok => ~TreeActive
  /\ pc = "judge" /\ ok => AllDrained /\ ~TreeActive
  /\ pc = "done" /\ ok => ~TreeActive /\ \A s \in Streams : rd[s] = "eof"

\* What exit_code stands for, and whom the recorder has stopped.
ExitMeans ==
  /\ pc \in Launching \cup {"wait", "settle", "check"} => ~timedOut /\ doomed = {}
  /\ pc \in {"judge", "done"} /\ ok /\ ~timedOut => doomed = {}
  /\ timedOut => exit = "limit"
  /\ exit \in {"zero", "nonzero"} => exit = code /\ life[Leader] = "gone"
  /\ code = "zero" => started
  /\ pc = "launch" => code = "none"

IInv ==
  /\ TypeOK
  /\ Books
  /\ EofIsFinal
  /\ BoxHasRun
  /\ JobHoldsAll
  /\ OkMeans
  /\ ExitMeans

----------------------------------------------------------------------------
\* The container begins empty.
LEMMA InitInv == Init => IInv
<1> SUFFICES ASSUME Init PROVE IInv
  OBVIOUS
<1> USE ProcessTreeAssumption DEF Init
<1>a. 0 \in 0..Limit /\ 0 \in 0..Capacity /\ 0 \in 0..MaxOutput
  OBVIOUS
<1>b. pc \in PCs /\ exit \in {"none", "zero", "nonzero", "limit"}
      /\ code \in {"none", "zero", "nonzero"}
  BY DEF PCs, Launching
<1>c. timedOut \in BOOLEAN /\ ok \in BOOLEAN /\ started \in BOOLEAN
      /\ released \in BOOLEAN
  OBVIOUS
<1>d. /\ life \in [Procs -> {"none", "alive", "zombie", "gone"}]
      /\ box \subseteq Procs
      /\ doomed \subseteq Procs
      /\ holds \in [Streams -> SUBSET Procs]
      /\ rd \in [Streams -> {"none", "reading", "eof", "failed"}]
      /\ cut \in [Streams -> BOOLEAN]
  OBVIOUS
<1>e. /\ written \in [Streams -> 0..MaxOutput]
      /\ pipe \in [Streams -> 0..Capacity]
      /\ data \in [Streams -> 0..Limit]
  BY <1>a
<1>1. Types
  BY <1>b, <1>c, <1>d, <1>e DEF Types
<1>2. Books
  BY DEF Books, Smaller
<1>f. EofIsFinal /\ BoxHasRun
  BY DEF EofIsFinal, BoxHasRun, Launching
<1>4. TypeOK
  BY <1>1 DEF TypeOK
<1>3. JobHoldsAll /\ OkMeans /\ ExitMeans
  BY DEF JobHoldsAll, OkMeans, ExitMeans, Launching, Alive
<1> QED
  BY <1>2, <1>3, <1>4, <1>f DEF IInv

----------------------------------------------------------------------------
\* Types and the retained prefix: no reader keeps more than the limit.
LEMMA TypeMain == Types /\ Main => Types'
<1> SUFFICES ASSUME Types, Main PROVE Types'
  OBVIOUS
<1> USE ProcessTreeAssumption DEF Types, PCs, Launching, Stopping, Ended, At,
        mainVars, treeVars, readVars, pipeVars, Procs
<1>1. CASE Launch
  <2>1. started' \in BOOLEAN
    BY <1>1 DEF Launch
  <2>2. /\ pc' \in PCs
        /\ life' \in [Procs -> {"none", "alive", "zombie", "gone"}]
        /\ box' \subseteq Procs
        /\ holds' \in [Streams -> SUBSET Procs]
        /\ rd' \in [Streams -> {"none", "reading", "eof", "failed"}]
    BY <1>1 DEF Launch
  <2> QED
    BY <1>1, <2>1, <2>2 DEF Launch
<1>2. CASE Assign \/ Release
  BY <1>2 DEF Assign, Release, Doom, CloseJob, Alive
<1>3. CASE Returned \/ LimitPasses \/ Settle \/ Check
  BY <1>3 DEF Returned, LimitPasses, Settle, Check, Collected
<1>4. CASE Terminate \/ Kill
  BY <1>4 DEF Terminate, Kill, Doom, Alive
<1>5. CASE Reap \/ ReapAgain
  BY <1>5 DEF Reap, ReapAgain, Collected, Doom, Alive
<1>6. CASE Grace \/ Verify \/ Drain
  BY <1>6 DEF Grace, Verify, Drain
<1>7. CASE Judge
  BY <1>7 DEF Judge, CloseJob, Doom, Alive
<1> QED
  BY <1>1, <1>2, <1>3, <1>4, <1>5, <1>6, <1>7 DEF Main

\* The reader threads keep the types.
LEMMA TypeReaders == Types /\ Readers => Types'
<1> SUFFICES ASSUME Types, NEW s \in Streams, Read(s) \/ ReadEof(s) \/ ReadFails(s)
             PROVE  Types'
  BY DEF Readers
<1> USE ProcessTreeAssumption DEF Types, mainVars, treeVars, readVars, pipeVars
<1>1. CASE Read(s)
  BY <1>1 DEF Read
<1>2. CASE ReadEof(s) \/ ReadFails(s)
  BY <1>2 DEF ReadEof, ReadFails
<1> QED
  BY <1>1, <1>2

\* So do the command and its children.
LEMMA TypeCommand == Types /\ Command => Types'
<1> SUFFICES ASSUME Types, Command PROVE Types'
  OBVIOUS
<1> USE ProcessTreeAssumption DEF Types, mainVars, treeVars, readVars, pipeVars, Procs
<1>1. CASE BootstrapStarts
  BY <1>1 DEF BootstrapStarts
<1>2. ASSUME NEW p \in Procs, Leave(p) \/ ReapOrphan(p) PROVE Types'
  BY <1>2 DEF Leave, ReapOrphan
<1>3. ASSUME NEW p \in Procs, Dies(p) \/ \E how \in {"zero", "nonzero"} : ExitsItself(p, how)
      PROVE  Types'
  BY <1>3 DEF Dies, ExitsItself, End
<1>4. ASSUME NEW p \in Procs, NEW c \in Children, Fork(p, c) PROVE Types'
  BY <1>4 DEF Fork, Runs
<1>5. ASSUME NEW p \in Procs, NEW s \in Streams, Write(p, s) \/ CloseOutput(p, s)
      PROVE  Types'
  BY <1>5 DEF Write, CloseOutput, Runs
<1> QED
  BY <1>1, <1>2, <1>3, <1>4, <1>5 DEF Command

\* And so does every step.
LEMMA TypeStep == TypeOK /\ [Next]_vars => TypeOK'
<1> SUFFICES ASSUME TypeOK, [Next]_vars PROVE TypeOK'
  OBVIOUS
<1>1. ASSUME RecorderDies PROVE Types'
  BY <1>1, ProcessTreeAssumption DEF RecorderDies, TypeOK, Types, PCs, Ended, CloseJob, Doom,
     Alive, Drained
<1>2. CASE UNCHANGED vars
  BY <1>2 DEF Types, TypeOK, vars, stepVars, mainVars, treeVars, readVars, pipeVars
<1>3. windows' = windows
  BY DEF Next, vars
<1> QED
  BY <1>1, <1>2, <1>3, TypeMain, TypeReaders, TypeCommand DEF Next, TypeOK

----------------------------------------------------------------------------
\* Which steps leave a pipe and its reader alone.
SamePipe(s) ==
  /\ pipe'[s] = pipe[s]
  /\ written'[s] = written[s]
  /\ data'[s] = data[s]
  /\ cut'[s] = cut[s]

\* The main thread moves no output.
LEMMA MainKeepsPipes ==
  ASSUME Types, EofIsFinal, Main, NEW s \in Streams
  PROVE  /\ SamePipe(s)
         /\ rd[s] # "failed" \/ rd'[s] = "failed"
<1> USE DEF SamePipe, readVars, pipeVars
<1>1. CASE Launch
  BY <1>1 DEF Launch, At, EofIsFinal, Launching
<1>2. CASE Release
  BY <1>2 DEF Release, At, EofIsFinal, Launching
<1>3. CASE Assign \/ Returned \/ LimitPasses \/ Settle \/ Check \/ Terminate \/ Grace
  BY <1>3 DEF Assign, Returned, LimitPasses, Settle, Check, Terminate, Grace
<1>4. CASE Kill \/ Reap \/ ReapAgain \/ Verify \/ Drain \/ Judge
  BY <1>4 DEF Kill, Reap, ReapAgain, Verify, Drain, Judge
<1> QED
  BY <1>1, <1>2, <1>3, <1>4 DEF Main

\* The command reaches a pipe by writing only, and never a reader.
LEMMA CommandKeepsPipes ==
  ASSUME Types, Command, NEW s \in Streams
  PROVE  /\ rd' = rd /\ data' = data /\ cut' = cut
         /\ \/ SamePipe(s)
            \/ /\ written'[s] = written[s] + 1
               /\ pipe'[s] = pipe[s] + 1
<1> USE DEF SamePipe, readVars, pipeVars
<1>1. ASSUME NEW p \in Procs, NEW t \in Streams, Write(p, t)
      PROVE  /\ rd' = rd /\ data' = data /\ cut' = cut
             /\ \/ SamePipe(s)
                \/ /\ written'[s] = written[s] + 1
                   /\ pipe'[s] = pipe[s] + 1
  BY <1>1 DEF Write, Types
<1>2. ASSUME NEW p \in Procs,
             \/ Leave(p) \/ Dies(p) \/ ReapOrphan(p)
             \/ \E c \in Children : Fork(p, c)
             \/ \E t \in Streams : CloseOutput(p, t)
             \/ \E how \in {"zero", "nonzero"} : ExitsItself(p, how)
      PROVE  rd' = rd /\ data' = data /\ cut' = cut /\ SamePipe(s)
  BY <1>2 DEF Leave, Dies, ReapOrphan, Fork, CloseOutput, ExitsItself, End
<1>3. CASE BootstrapStarts
  BY <1>3 DEF BootstrapStarts
<1> QED
  BY <1>1, <1>2, <1>3 DEF Command

\* Every step keeps the account of where each chunk is.
LEMMA BooksStep == Types /\ EofIsFinal /\ Books /\ [Next]_vars => Books'
<1> SUFFICES ASSUME Types, EofIsFinal, Books, [Next]_vars,
                    NEW s \in Streams, rd'[s] # "failed"
             PROVE  /\ pipe'[s] <= written'[s]
                    /\ data'[s] = Smaller(written'[s] - pipe'[s], Limit)
                    /\ cut'[s] <=> written'[s] - pipe'[s] > Limit
  BY DEF Books
<1>1. /\ pipe[s] \in Nat /\ written[s] \in Nat /\ data[s] \in Nat /\ Limit \in Nat
      /\ data[s] <= Limit /\ cut[s] \in BOOLEAN
  BY ProcessTreeAssumption DEF Types
<1>2. rd[s] # "failed" =>
        /\ pipe[s] <= written[s]
        /\ data[s] = Smaller(written[s] - pipe[s], Limit)
        /\ cut[s] <=> written[s] - pipe[s] > Limit
  BY DEF Books
<1>3. CASE SamePipe(s) /\ rd[s] # "failed"
  BY <1>2, <1>3 DEF SamePipe
<1>4. CASE Main
  BY <1>3, <1>4, MainKeepsPipes
<1>5. CASE Command
  <2>1. /\ rd[s] # "failed" /\ data'[s] = data[s] /\ cut'[s] = cut[s]
        /\ written'[s] - pipe'[s] = written[s] - pipe[s]
        /\ pipe'[s] <= written'[s]
    BY <1>1, <1>2, <1>5, CommandKeepsPipes DEF SamePipe
  <2> QED
    BY <1>2, <2>1
<1>6. CASE Readers
  <2>1. ASSUME NEW t \in Streams, ReadEof(t) \/ ReadFails(t) \/ (Read(t) /\ t # s)
        PROVE  SamePipe(s) /\ rd[s] # "failed"
    BY <2>1 DEF ReadEof, ReadFails, Read, SamePipe, pipeVars, Types
  <2>2. CASE Read(s)
    <3>1. PICK n \in 1..pipe[s] :
            /\ pipe'[s] = pipe[s] - n
            /\ data'[s] = data[s] + (IF n < Limit - data[s] THEN n ELSE Limit - data[s])
            /\ cut'[s] <=> cut[s] \/ n > Limit - data[s]
      BY <2>2 DEF Read, Types
    <3>2. written'[s] = written[s] /\ rd[s] # "failed"
      BY <2>2 DEF Read
    <3> QED
      BY <1>1, <1>2, <3>1, <3>2 DEF Smaller
  <2> QED
    BY <1>3, <1>6, <2>1, <2>2 DEF Readers
<1>7. CASE RecorderDies
  <2>1. SamePipe(s) \/ rd'[s] = "failed" \/ rd[s] = "eof"
    BY <1>7 DEF RecorderDies, Drained
  <2>2. rd[s] = "eof" => SamePipe(s)
    BY <1>7 DEF RecorderDies, SamePipe, EofIsFinal
  <2>3. rd[s] # "failed"
    BY <1>7 DEF RecorderDies, Drained
  <2> QED
    BY <1>3, <2>1, <2>2, <2>3
<1>8. CASE UNCHANGED vars
  BY <1>3, <1>8 DEF SamePipe, vars, stepVars, readVars, pipeVars
<1> QED
  BY <1>4, <1>5, <1>6, <1>7, <1>8 DEF Next

\* A stream at its end stays there: nobody holds the pipe, so nobody can pass
\* it on.
LEMMA EofStep == Types /\ EofIsFinal /\ [Next]_vars => EofIsFinal'
<1> SUFFICES ASSUME Types, EofIsFinal, [Next]_vars, NEW s \in Streams
             PROVE  /\ pc' \in Launching => rd'[s] = "none"
                    /\ rd'[s] = "eof" => pipe'[s] = 0 /\ holds'[s] = {}
  BY DEF EofIsFinal
<1>1. /\ pc \in Launching => rd[s] = "none"
      /\ rd[s] = "eof" => pipe[s] = 0 /\ holds[s] = {}
  BY DEF EofIsFinal
<1>2. CASE Main
  <2> USE DEF Launching, At
  <2>1. CASE Launch
    BY <1>1, <2>1 DEF Launch
  <2>2. CASE Assign \/ Release
    BY <1>1, <2>2 DEF Assign, Release, readVars, pipeVars
  <2>3. CASE Returned \/ LimitPasses \/ Settle \/ Check \/ Terminate \/ Grace
    BY <1>1, <2>3 DEF Returned, LimitPasses, Settle, Check, Terminate, Grace,
       readVars, pipeVars
  <2>4. CASE Kill \/ Reap \/ ReapAgain \/ Verify \/ Drain \/ Judge
    BY <1>1, <2>4 DEF Kill, Reap, ReapAgain, Verify, Drain, Judge, readVars, pipeVars
  <2> QED
    BY <1>2, <2>1, <2>2, <2>3, <2>4 DEF Main
<1>3. CASE Command
  <2> USE DEF mainVars, readVars, pipeVars
  <2>1. ASSUME NEW p \in Procs, NEW c \in Children, Fork(p, c)
        PROVE  pc' = pc /\ rd' = rd /\ (holds[s] = {} => pipe'[s] = pipe[s] /\ holds'[s] = {})
    BY <2>1 DEF Fork
  <2>2. ASSUME NEW p \in Procs, NEW t \in Streams, Write(p, t) \/ CloseOutput(p, t)
        PROVE  pc' = pc /\ rd' = rd /\ (holds[s] = {} => pipe'[s] = pipe[s] /\ holds'[s] = {})
    BY <2>2 DEF Write, CloseOutput, Types
  <2>3. ASSUME NEW p \in Procs, Dies(p) \/ \E how \in {"zero", "nonzero"} : ExitsItself(p, how)
        PROVE  pc' = pc /\ rd' = rd /\ (holds[s] = {} => pipe'[s] = pipe[s] /\ holds'[s] = {})
    BY <2>3 DEF Dies, ExitsItself, End
  <2>4. ASSUME BootstrapStarts \/ \E p \in Procs : Leave(p) \/ ReapOrphan(p)
        PROVE  pc' = pc /\ rd' = rd /\ (holds[s] = {} => pipe'[s] = pipe[s] /\ holds'[s] = {})
    BY <2>4 DEF BootstrapStarts, Leave, ReapOrphan
  <2> QED
    BY <1>1, <1>3, <2>1, <2>2, <2>3, <2>4 DEF Command
<1>4. CASE Readers
  BY <1>1, <1>4 DEF Readers, Read, ReadEof, ReadFails, mainVars, pipeVars, Types
<1>5. CASE RecorderDies
  BY <1>1, <1>5 DEF RecorderDies, Drained, Launching
<1>6. CASE UNCHANGED vars
  BY <1>1, <1>6 DEF vars, stepVars, mainVars, readVars, pipeVars
<1> QED
  BY <1>2, <1>3, <1>4, <1>5, <1>6 DEF Next

----------------------------------------------------------------------------
\* Membership of the container: nothing enters it but the leader, once, and
\* the children of members.
LEMMA BoxStep == Types /\ BoxHasRun /\ [Next]_vars => BoxHasRun'
<1> SUFFICES ASSUME Types, BoxHasRun, [Next]_vars PROVE BoxHasRun'
  OBVIOUS
<1> USE DEF BoxHasRun, At, mainVars, treeVars, Procs
<1>1. CASE Launch \/ Assign \/ Release
  BY <1>1 DEF Launch, Assign, Release, Types
<1>2. CASE Returned \/ Reap \/ ReapAgain
  BY <1>2 DEF Returned, Reap, ReapAgain, Collected, Types
<1>3. CASE LimitPasses \/ Settle \/ Check \/ Terminate \/ Grace
  BY <1>3 DEF LimitPasses, Settle, Check, Terminate, Grace
<1>4. CASE Kill \/ Verify \/ Drain \/ Judge
  BY <1>4 DEF Kill, Verify, Drain, Judge
<1>5. CASE Command
  <2>1. ASSUME NEW p \in Procs, NEW c \in Children, Fork(p, c) PROVE BoxHasRun'
    BY <2>1 DEF Fork, Runs, Types
  <2>2. ASSUME NEW p \in Procs, Dies(p) \/ \E how \in {"zero", "nonzero"} : ExitsItself(p, how)
        PROVE  BoxHasRun'
    BY <2>2 DEF Dies, ExitsItself, End, Types
  <2>3. ASSUME NEW p \in Procs, Leave(p) \/ ReapOrphan(p) PROVE BoxHasRun'
    BY <2>3 DEF Leave, ReapOrphan, Runs, Types
  <2>4. ASSUME \/ BootstrapStarts
               \/ \E p \in Procs, t \in Streams : Write(p, t) \/ CloseOutput(p, t)
        PROVE  BoxHasRun'
    BY <2>4 DEF BootstrapStarts, Write, CloseOutput
  <2> QED
    BY <1>5, <2>1, <2>2, <2>3, <2>4 DEF Command
<1>6. CASE Readers
  BY <1>6 DEF Readers, Read, ReadEof, ReadFails
<1>7. CASE RecorderDies
  BY <1>7 DEF RecorderDies
<1>8. CASE UNCHANGED vars
  BY <1>8 DEF vars, stepVars
<1> QED
  BY <1>1, <1>2, <1>3, <1>4, <1>5, <1>6, <1>7, <1>8 DEF Next, Main

\* The launch protocol: assigned, then released, then started; and a job has
\* no exit.
LEMMA JobStep ==
  Types /\ BoxHasRun /\ JobHoldsAll /\ [Next]_vars => JobHoldsAll'
<1> SUFFICES ASSUME Types, BoxHasRun, JobHoldsAll, [Next]_vars PROVE JobHoldsAll'
  OBVIOUS
<1> USE DEF JobHoldsAll, Launching, At, Alive, mainVars, treeVars, Procs
<1>0. windows' = windows
  BY DEF Next, vars
<1>1. CASE Launch
  BY <1>0, <1>1 DEF Launch, BoxHasRun, Types
<1>2. CASE Assign \/ Release
  BY <1>0, <1>2 DEF Assign, Release
<1>3. CASE Returned \/ Reap \/ ReapAgain
  BY <1>0, <1>3 DEF Returned, Reap, ReapAgain, Collected, Types
<1>4. CASE \/ LimitPasses \/ Settle \/ Check \/ Terminate \/ Grace
           \/ Kill \/ Verify \/ Drain \/ Judge
  <2>1. UNCHANGED <<life, box, started, released>>
    BY <1>0, <1>4 DEF LimitPasses, Settle, Check, Terminate, Grace, Kill, Verify, Drain, Judge
  <2>2. {pc, pc'} \cap (Launching \cup {"refused", "dead"}) = {}
    BY <1>0, <1>4 DEF LimitPasses, Settle, Check, Terminate, Grace, Kill, Verify, Drain, Judge
  <2> QED
    BY <1>0, <2>1, <2>2
<1>5. CASE Command
  <2>1. ASSUME NEW p \in Procs, NEW c \in Children, Fork(p, c) PROVE JobHoldsAll'
    BY <1>0, <2>1 DEF Fork, Runs, Types
  <2>2. ASSUME NEW p \in Procs, Dies(p) \/ \E how \in {"zero", "nonzero"} : ExitsItself(p, how)
        PROVE  JobHoldsAll'
    BY <1>0, <2>2 DEF Dies, ExitsItself, End, Types
  <2>3. ASSUME NEW p \in Procs, Leave(p) \/ ReapOrphan(p) PROVE JobHoldsAll'
    BY <1>0, <2>3 DEF Leave, ReapOrphan, Runs, Types
  <2>4. ASSUME \E p \in Procs, t \in Streams : Write(p, t) \/ CloseOutput(p, t)
        PROVE  JobHoldsAll'
    BY <1>0, <2>4 DEF Write, CloseOutput
  <2>5. CASE BootstrapStarts
    BY <1>0, <2>5 DEF BootstrapStarts
  <2> QED
    BY <1>0, <1>5, <2>1, <2>2, <2>3, <2>4, <2>5 DEF Command
<1>6. CASE Readers
  BY <1>0, <1>6 DEF Readers, Read, ReadEof, ReadFails
<1>7. CASE RecorderDies
  BY <1>0, <1>7 DEF RecorderDies
<1>8. CASE UNCHANGED vars
  BY <1>0, <1>8 DEF vars, stepVars
<1> QED
  BY <1>0, <1>1, <1>2, <1>3, <1>4, <1>5, <1>6, <1>7, <1>8 DEF Next, Main

----------------------------------------------------------------------------
\* An empty container stays empty, and a drained reader stays drained: what
\* the recorder looked at is still true when it uses it.
LEMMA EmptyStays ==
  ASSUME Types, BoxHasRun, ~TreeActive, Command \/ Readers,
         windows' = windows
  PROVE  ~TreeActive'
<1> USE windows' = windows DEF TreeActive
<1>1. ASSUME NEW p \in Procs, NEW c \in Children, Fork(p, c) PROVE ~TreeActive'
  BY <1>1 DEF Fork, Runs, Types, BoxHasRun, Procs
<1>2. ASSUME NEW p \in Procs, Dies(p) \/ \E how \in {"zero", "nonzero"} : ExitsItself(p, how)
      PROVE  ~TreeActive'
  BY <1>2 DEF Dies, ExitsItself, End, Types
<1>3. ASSUME NEW p \in Procs, Leave(p) \/ ReapOrphan(p) PROVE ~TreeActive'
  BY <1>3 DEF Leave, ReapOrphan, Types
<1>4. ASSUME \/ BootstrapStarts
             \/ \E p \in Procs, t \in Streams : Write(p, t) \/ CloseOutput(p, t)
      PROVE  ~TreeActive'
  BY <1>4 DEF BootstrapStarts, Write, CloseOutput, treeVars
<1>5. CASE Readers
  BY <1>5 DEF Readers, Read, ReadEof, ReadFails, treeVars
<1> QED
  BY <1>1, <1>2, <1>3, <1>4, <1>5 DEF Command

\* A pipe that has been read to its end stays so.
LEMMA DrainedStays ==
  ASSUME Types, Command \/ Readers, NEW s \in Streams, Drained(s)
  PROVE  rd'[s] = rd[s]
<1>1. CASE Command
  BY <1>1, CommandKeepsPipes
<1>2. CASE Readers
  BY <1>2 DEF Readers, Read, ReadEof, ReadFails, Drained, Types
<1> QED
  BY <1>1, <1>2

\* cleanup_ok, point by point.
LEMMA OkStep == Types /\ BoxHasRun /\ OkMeans /\ [Next]_vars => OkMeans'
<1> SUFFICES ASSUME Types, BoxHasRun, OkMeans, [Next]_vars PROVE OkMeans'
  OBVIOUS
<1> USE DEF OkMeans, At, mainVars, treeVars, readVars
<1>0. windows' = windows
  BY DEF Next, vars
<1>1. CASE Settle
  BY <1>1 DEF Settle, AllDrained, Drained
<1>2. CASE Check
  <2>1. PICK gone \in {FALSE, ~TreeActive} :
          /\ ok' = (ok /\ gone)
          /\ pc' = IF ok /\ gone THEN "judge" ELSE "term"
    BY <1>2 DEF Check
  <2>2. pc' = "term" \/ (pc' = "judge" /\ ok /\ ~TreeActive)
    BY <2>1
  <2>3. UNCHANGED <<treeVars, readVars>> /\ pc = "check"
    BY <1>2 DEF Check
  <2> QED
    BY <1>0, <2>2, <2>3 DEF AllDrained, Drained, TreeActive
<1>3. CASE Verify
  <2>1. PICK gone \in {FALSE, ~TreeActive} : ok' = gone
    BY <1>3 DEF Verify
  <2>2. pc' = "drain" /\ (ok' => ~TreeActive) /\ UNCHANGED treeVars
    BY <1>3, <2>1 DEF Verify
  <2> QED
    BY <1>0, <2>2 DEF TreeActive
<1>4. CASE Drain
  BY <1>0, <1>4 DEF Drain, AllDrained, Drained, TreeActive
<1>5. CASE Judge
  BY <1>0, <1>5 DEF Judge, AllDrained, Drained, TreeActive, Types
<1>6. CASE Launch \/ Assign \/ Release
  BY <1>6 DEF Launch, Assign, Release
<1>7. CASE Returned \/ LimitPasses \/ Terminate \/ Grace \/ Kill
  BY <1>7 DEF Returned, LimitPasses, Terminate, Grace, Kill
<1>8. CASE Reap \/ ReapAgain
  BY <1>8 DEF Reap, ReapAgain
<1>9. CASE Command \/ Readers
  <2>1. pc' = pc /\ ok' = ok
    BY <1>9 DEF Command, Readers, BootstrapStarts, Leave, Dies, ReapOrphan, Fork, Write,
       CloseOutput, ExitsItself, End, Read, ReadEof, ReadFails
  <2>2. AllDrained => AllDrained'
    BY <1>9, DrainedStays DEF AllDrained, Drained
  <2>3. (\A s \in Streams : rd[s] = "eof") => \A s \in Streams : rd'[s] = "eof"
    BY <1>9, DrainedStays DEF Drained
  <2>4. ~TreeActive => ~TreeActive'
    BY <1>0, <1>9, EmptyStays
  <2> QED
    BY <2>1, <2>2, <2>3, <2>4
<1>10. CASE RecorderDies
  BY <1>10 DEF RecorderDies
<1>11. CASE UNCHANGED vars
  BY <1>11 DEF vars, stepVars, AllDrained, Drained, TreeActive
<1> QED
  BY <1>1, <1>2, <1>3, <1>4, <1>5, <1>6, <1>7, <1>8, <1>9, <1>10, <1>11 DEF Next, Main

\* exit_code, and who was stopped.
LEMMA ExitStep ==
  Types /\ BoxHasRun /\ OkMeans /\ ExitMeans /\ [Next]_vars => ExitMeans'
<1> SUFFICES ASSUME Types, BoxHasRun, OkMeans, ExitMeans, [Next]_vars PROVE ExitMeans'
  OBVIOUS
<1> USE DEF ExitMeans, Launching, At, mainVars, treeVars
<1>1. CASE Launch
  <2>1. UNCHANGED <<timedOut, exit, doomed, code>> /\ code = "none"
    BY <1>1 DEF Launch
  <2>2. pc = "launch" /\ pc' \in {"assign", "wait", "refused"}
    BY <1>1 DEF Launch
  <2>3. exit \notin {"zero", "nonzero"}
    BY <2>2 DEF BoxHasRun, Procs
  <2> QED
    BY <2>1, <2>2, <2>3
<1>2. CASE Returned
  BY <1>2 DEF Returned, Collected, Types, Procs
<1>3. CASE LimitPasses
  BY <1>3 DEF LimitPasses
<1>4. CASE Assign \/ Release \/ Settle \/ Check
  <2>1. /\ UNCHANGED <<timedOut, exit, life, started, code>>
        /\ pc \in {"assign", "release", "settle", "check"}
        /\ pc' \in {"release", "refused", "wait", "check", "judge", "term"}
        /\ pc' # "refused" => doomed' = doomed
    BY <1>4 DEF Assign, Release, Settle, Check
  <2> QED
    BY <2>1
<1>5. CASE Terminate \/ Grace \/ Kill \/ Verify
  <2>1. /\ UNCHANGED <<timedOut, exit, life, started, code>>
        /\ pc' \in {"grace", "kill", "reap", "drain"}
    BY <1>5 DEF Terminate, Grace, Kill, Verify
  <2> QED
    BY <2>1
<1>6. CASE Reap \/ ReapAgain
  BY <1>6 DEF Reap, ReapAgain, Collected, Types, Procs
<1>7. CASE Drain
  BY <1>7 DEF Drain
<1>8. CASE Judge
  <2>1. ok /\ ~timedOut => doomed' = {}
    BY <1>8 DEF Judge, CloseJob, Doom, OkMeans, TreeActive, Alive
  <2> QED
    BY <1>8, <2>1 DEF Judge
<1>9. CASE Command
  <2>1. UNCHANGED mainVars /\ doomed' \subseteq doomed /\ (started => started')
    BY <1>9 DEF Command, BootstrapStarts, Leave, Dies, ReapOrphan, Fork, Write,
       CloseOutput, ExitsItself, End
  <2>2. life[Leader] = "gone" => life'[Leader] = "gone" /\ code' = code
    BY <1>9, ProcessTreeAssumption DEF Command, BootstrapStarts, Leave, Dies, ReapOrphan,
       Fork, Write, CloseOutput, ExitsItself, End, Procs, Types
  <2>3. code' = "zero" => code = "zero" \/ started'
    BY <1>9 DEF Command, BootstrapStarts, Leave, Dies, ReapOrphan, Fork, Write,
       CloseOutput, ExitsItself, End
  <2>4. pc = "launch" => code' = code
    BY <1>9 DEF Command, BootstrapStarts, Leave, Dies, ReapOrphan, Fork, Write,
       CloseOutput, ExitsItself, End, BoxHasRun, Procs
  <2> QED
    BY <2>1, <2>2, <2>3, <2>4
<1>10. CASE Readers
  BY <1>10 DEF Readers, Read, ReadEof, ReadFails
<1>11. CASE RecorderDies
  BY <1>11 DEF RecorderDies
<1>12. CASE UNCHANGED vars
  BY <1>12 DEF vars, stepVars
<1> QED
  BY <1>1, <1>2, <1>3, <1>4, <1>5, <1>6, <1>7, <1>8, <1>9, <1>10, <1>11, <1>12
     DEF Next, Main

----------------------------------------------------------------------------
\* The inductive invariant holds of every execution.
THEOREM Invariance == Spec => []IInv
<1>1. IInv /\ [Next]_vars => IInv'
  BY TypeStep, BooksStep, EofStep, BoxStep, JobStep, OkStep, ExitStep DEF IInv, TypeOK
<1> QED
  BY InitInv, <1>1, PTL DEF Spec

\* The types, and that a stream retains no more than max_output_bytes.
THEOREM TypeCorrect == Spec => []TypeOK
<1>1. IInv => TypeOK
  BY DEF IInv
<1> QED
  BY Invariance, <1>1, PTL

\* What is recorded of the output is all of it, up to the announced limit.
THEOREM CompleteCapture == Spec => []CaptureIsComplete
<1>1. IInv => CaptureIsComplete
  <2> SUFFICES ASSUME IInv, Recordable, NEW s \in Streams
               PROVE  /\ holds[s] = {}
                      /\ data[s] = Smaller(written[s], Limit)
                      /\ cut[s] <=> written[s] > Limit
    BY DEF CaptureIsComplete
  <2>1. rd[s] = "eof"
    BY DEF IInv, OkMeans, Recordable
  <2>2. holds[s] = {} /\ pipe[s] = 0
    BY <2>1 DEF IInv, EofIsFinal
  <2>3. /\ data[s] = Smaller(written[s] - pipe[s], Limit)
        /\ cut[s] <=> written[s] - pipe[s] > Limit
    BY <2>1 DEF IInv, Books
  <2>4. written[s] - pipe[s] = written[s]
    BY <2>2, ProcessTreeAssumption DEF IInv, TypeOK, Types
  <2> QED
    BY <2>2, <2>3, <2>4
<1> QED
  BY Invariance, <1>1, PTL

\* A recordable result leaves nothing in the container.
THEOREM EmptyContainer == Spec => []ContainerIsEmpty
<1>1. IInv => ContainerIsEmpty
  BY DEF IInv, OkMeans, ContainerIsEmpty, Recordable
<1> QED
  BY Invariance, <1>1, PTL

\* A recorded exit status 0 is the command's own, given within its time.
THEOREM UndisturbedSuccess == Spec => []SuccessWasUndisturbed
<1>1. IInv => SuccessWasUndisturbed
  BY DEF IInv, ExitMeans, SuccessWasUndisturbed, Recordable
<1> QED
  BY Invariance, <1>1, PTL

\* On Windows no process of the command ever runs outside the job.
THEOREM NothingOutsideTheJob == Spec => []CommandIsInJob
<1>1. IInv => CommandIsInJob
  BY DEF IInv, JobHoldsAll, CommandIsInJob
<1> QED
  BY Invariance, <1>1, PTL

\* With a container that cannot be left the documented promise holds: when a
\* result is recordable the complete tree is gone.
THEOREM TreeGoneOnWindows == Spec => []JobTreeIsGone
<1>1. IInv => JobTreeIsGone
  <2> SUFFICES ASSUME IInv, windows, Recordable PROVE Alive = {}
    BY DEF JobTreeIsGone, WholeTreeIsGone
  <2>1. Alive \cap box = {}
    BY DEF IInv, OkMeans, Recordable, TreeActive, Alive
  <2>2. Leader \in box /\ Alive \subseteq IF started THEN box ELSE {Leader}
    BY DEF IInv, JobHoldsAll, Recordable, Launching
  <2> QED
    BY <2>1, <2>2
<1> QED
  BY Invariance, <1>1, PTL
=============================================================================
