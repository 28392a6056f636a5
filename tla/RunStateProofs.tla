--------------------------- MODULE RunStateProofs ---------------------------
(***************************************************************************)
(* Theorems about RunState for every set of processes, commits and         *)
(* requests.  The inductive invariant IInv says what a process knows at    *)
(* each point of its run: the lock is its own, what it read is still what  *)
(* the file holds, and the field it is about to write is empty.  Beside an *)
(* editor who takes no lock only Grounds and ReplaceIsFresh are left of it.*)
(***************************************************************************)
EXTENDS RunState, TLAPS

\* The process has read the file and may still write it.
Informed == {"head", "tracked", "scan", "decide", "compare", "replace"}
Writing == {"compare", "replace"}

\* A process that goes on has read an object it could parse, or none.
ReadParses ==
  \A p \in Procs : pc[p] \in Informed => st[p].kind # "corrupt"

\* Nobody else writes between a process's read and its write.
ReadIsFresh ==
  \A p \in Procs : pc[p] \in Informed => st[p] = file

\* Nobody has written between the revision comparison and the write.
ReplaceIsFresh ==
  \A p \in Procs : pc[p] = "replace" /\ ~raced[p] => st[p] = file

HeadIsRead ==
  \A p \in Procs : pc[p] \in SinceHead => hd[p] \in Commits

\* What the decisions of `init` and `advance` established.
WriteIsLegal ==
  \A p \in Procs : pc[p] \in Writing =>
    /\ op[p].mode \in {"init", "advance"}
    /\ op[p].mode = "init" => st[p] = Absent
    /\ op[p].mode = "advance" => /\ st[p].sha[op[p].stage] = NoSha
                                 /\ ~LaterSet(st[p], op[p].stage)

\* The exit code is decided at the return, not before.
NoEarlyExit ==
  \A p \in Procs : pc[p] \notin {"idle", "unlock"} => out[p] = "none"

\* repo_state starts from nothing and has a command left to run.
Unscanned == {"idle", "resolve", "resolvelock", "lock", "recheck", "rechecklock",
              "refusing", "read", "head", "tracked"}

ScanBound ==
  \A p \in Procs :
    /\ pc[p] \in Unscanned => scan[p] = 0
    /\ pc[p] = "scan" => scan[p] < LastScan

\* What holds whoever else writes the file.
Grounds ==
  /\ TypeOK
  /\ ScanBound
  /\ Exclusive
  /\ ReadParses
  /\ HeadIsRead
  /\ WriteIsLegal
  /\ NoEarlyExit

IInv == Grounds /\ ReadIsFresh /\ AckedShaStays

ForeignInv == Grounds /\ ReplaceIsFresh

----------------------------------------------------------------------------
\* The environment only touches the checkout, and keeps it well-formed.
LEMMA EnvType == GitTypeOK /\ Env => GitTypeOK'
BY CheckoutAssumption DEF GitTypeOK, Env, Edit, Stage, Unstage, Discard, Commit,
   Checkout, Kinds

\* A record of the state file, field by field.
LEMMA FileShape ==
  ASSUME NEW f \in Files
  PROVE  /\ f.sha \in Shas
         /\ f.kind \in {"valid", "absent", "corrupt"}
         /\ f.kind # "valid" => f.sha = Unset
         /\ f.kind = "absent" => f = Absent
BY DEF Files, Absent, Corrupt, Shas, Unset, Stages

\* An operation in progress, field by field.
LEMMA OpShape ==
  ASSUME NEW o \in Ops
  PROVE  o.mode \in {"advance", "verify", "init", "show"} /\ o.stage \in Stages
BY DEF Ops, Stages

\* The file an operation writes is well formed.
LEMMA NewFileType ==
  ASSUME TypeOK, NEW p \in Procs
  PROVE  NewFile(p) \in Files
<1>1. op[p].stage \in Stages
  BY OpShape DEF TypeOK
<1>2. st[p].sha \in Shas
  BY FileShape DEF TypeOK
<1>3. Unset \in Shas
  BY DEF Unset, Shas
<1>4. [st[p].sha EXCEPT ![op[p].stage] = hd[p]] \in Shas
  BY <1>1, <1>2 DEF TypeOK, Shas
<1>. QED
  BY <1>3, <1>4 DEF NewFile, Files

\* A missing and a corrupt file are files too.
LEMMA AbsentType == Absent \in Files /\ Corrupt \in Files
BY DEF Files

\* The helpers that end a run keep every local variable well-typed.
LEMMA ExitType ==
  ASSUME TypeOK, NEW p \in Procs,
         NEW code \in {"none", "ok", "failed", "refused"}, Exit(p, code)
  PROVE  /\ pc' \in [Procs -> PCs]
         /\ st' \in [Procs -> Files]
         /\ scan' \in [Procs -> 0..LastScan]
         /\ saw' \in [Procs -> BOOLEAN]
         /\ agreed' \in [Procs -> BOOLEAN]
         /\ out' \in [Procs -> {"none", "ok", "failed", "refused"}]
         /\ moved' \in [Procs -> BOOLEAN]
         /\ raced' \in [Procs -> BOOLEAN]
<1>. USE AbsentType DEF TypeOK, Exit, Goto, LastScan
<1>1. pc' \in [Procs -> PCs]  BY DEF PCs
<1>2. st' \in [Procs -> Files]  OBVIOUS
<1>3. scan' \in [Procs -> 0..LastScan]  OBVIOUS
<1>4. saw' \in [Procs -> BOOLEAN] /\ agreed' \in [Procs -> BOOLEAN]  OBVIOUS
<1>5. out' \in [Procs -> {"none", "ok", "failed", "refused"}]  OBVIOUS
<1>6. moved' \in [Procs -> BOOLEAN] /\ raced' \in [Procs -> BOOLEAN]  OBVIOUS
<1>. QED
  BY <1>1, <1>2, <1>3, <1>4, <1>5, <1>6

\* An untouched checkout stays well formed.
LEMMA GitFrame == UNCHANGED gitVars /\ GitTypeOK => GitTypeOK'
BY DEF gitVars, GitTypeOK

\* A step that moves only pc and out, as most steps do, is well-typed.
LEMMA MoveType ==
  ASSUME TypeOK, UNCHANGED <<gitVars, file, op, hd, localVars>>,
         lock' \in Procs \cup {NoProc},
         pc' \in [Procs -> PCs],
         out' \in [Procs -> {"none", "ok", "failed", "refused"}]
  PROVE  TypeOK'
BY GitFrame DEF TypeOK, localVars

\* What every step of the specification preserves about types.
LEMMA TypeStep == TypeOK /\ ScanBound /\ [Next]_vars => TypeOK'
<1>. SUFFICES ASSUME TypeOK, ScanBound, [Next]_vars
             PROVE  TypeOK'
  OBVIOUS
<1>. USE DEF Goto, Return, PCs, InSection
<1>1. ASSUME NEW p \in Procs, NEW o \in Requests, Start(p, o)
      PROVE  TypeOK'
  BY <1>1, GitFrame, RunStateAssumption DEF Start, TypeOK, localVars
<1>2. ASSUME NEW p \in Procs, Resolve(p)
      PROVE  TypeOK'
  <2>1. CASE Exit(p, "refused")
    BY <1>2, <2>1, ExitType, GitFrame DEF Resolve, TypeOK
  <2>2. CASE /\ Goto(p, "lock") \/ Goto(p, "resolvelock")
             /\ UNCHANGED <<out, localVars>>
    BY <1>2, <2>2, MoveType DEF Resolve, TypeOK
  <2>. QED
    BY <1>2, <2>1, <2>2 DEF Resolve
<1>3. ASSUME NEW p \in Procs, Acquire(p)
      PROVE  TypeOK'
  BY <1>3, MoveType DEF Acquire, TypeOK
<1>4. ASSUME NEW p \in Procs, GiveUp(p)
      PROVE  TypeOK'
  BY <1>4, ExitType, GitFrame DEF GiveUp, TypeOK
<1>5. ASSUME NEW p \in Procs, Recheck(p)
      PROVE  TypeOK'
  BY <1>5, MoveType DEF Recheck, TypeOK
<1>6. ASSUME NEW p \in Procs, ReadState(p)
      PROVE  TypeOK'
  BY <1>6, GitFrame DEF ReadState, TypeOK
<1>7. ASSUME NEW p \in Procs, ReadHead(p)
      PROVE  TypeOK'
  BY <1>7, GitFrame DEF ReadHead, GitHead, TypeOK, GitTypeOK
<1>8. ASSUME NEW p \in Procs, CheckTracked(p)
      PROVE  TypeOK'
  BY <1>8, MoveType DEF CheckTracked, TypeOK
<1>9. ASSUME NEW p \in Procs, Scan(p)
      PROVE  TypeOK'
  <2>1. scan' \in [Procs -> 0..LastScan]
    BY <1>9 DEF Scan, TypeOK, ScanBound, LastScan
  <2>2. saw' \in [Procs -> BOOLEAN] /\ agreed' \in [Procs -> BOOLEAN]
    BY <1>9 DEF Scan, TypeOK, ScanSees
  <2>3. /\ pc' \in [Procs -> PCs]
        /\ out' \in [Procs -> {"none", "ok", "failed", "refused"}]
    BY <1>9 DEF Scan, TypeOK
  <2>. QED
    BY <1>9, <2>1, <2>2, <2>3, GitFrame DEF Scan, TypeOK
<1>10. ASSUME NEW p \in Procs, GitFails(p) \/ GitHangs(p)
       PROVE  TypeOK'
  <2>1. PICK code \in {"refused", "failed"} : Abort(p, code)
    BY <1>10 DEF GitFails, GitHangs
  <2>2. CASE Exit(p, code)
    BY <2>1, <2>2, ExitType, GitFrame DEF Abort, TypeOK
  <2>3. CASE Return(p, code) /\ UNCHANGED localVars
    BY <2>1, <2>3, MoveType DEF Abort, TypeOK
  <2>. QED
    BY <2>1, <2>2, <2>3 DEF Abort
<1>11. ASSUME NEW p \in Procs,
              DecideVerify(p) \/ DecideInit(p) \/ DecideAdvance(p) \/ Compare(p)
       PROVE  TypeOK'
  BY <1>11, MoveType DEF DecideVerify, DecideInit, DecideAdvance, Compare, TypeOK
<1>12. ASSUME NEW p \in Procs, Replace(p)
       PROVE  TypeOK'
  BY <1>12, NewFileType, GitFrame DEF Replace, TypeOK, localVars
<1>13. ASSUME NEW p \in Procs, Unlock(p) \/ Crash(p)
       PROVE  TypeOK'
  <2>1. PICK code \in {"none", "ok", "failed", "refused"} : Exit(p, code)
    BY <1>13 DEF Unlock, Crash, TypeOK
  <2>. QED
    BY <1>13, <2>1, ExitType, GitFrame DEF Unlock, Crash, TypeOK
<1>14. CASE EnvStep
  BY <1>14, EnvType DEF EnvStep, TypeOK, runVars
<1>15. CASE UNCHANGED vars
  BY <1>15, GitFrame DEF vars, runVars, localVars, TypeOK
<1>. QED
  BY <1>1, <1>2, <1>3, <1>4, <1>5, <1>6, <1>7, <1>8, <1>9, <1>10, <1>11,
     <1>12, <1>13, <1>14, <1>15 DEF Next, Step

----------------------------------------------------------------------------
\* The file changes only in Replace, by the process that holds the lock.
LEMMA FileChanges ==
  ASSUME [Next]_vars, file' # file
  PROVE  \E p \in Procs : /\ pc[p] = "replace"
                           /\ file' = NewFile(p)
                           /\ Replace(p)
BY DEF Next, vars, Step, Start, Resolve, Acquire, GiveUp, Recheck, ReadState,
   ReadHead, CheckTracked, Scan, GitFails, GitHangs, Abort, DecideVerify,
   DecideInit, DecideAdvance, Compare, Replace, Unlock, Crash, EnvStep

\* A step of one process leaves every variable of the others alone.
OthersSame(p) ==
  \A q \in Procs \ {p} :
    /\ pc'[q] = pc[q]
    /\ op'[q] = op[q]
    /\ st'[q] = st[q]
    /\ hd'[q] = hd[q]
    /\ scan'[q] = scan[q]
    /\ saw'[q] = saw[q]
    /\ agreed'[q] = agreed[q]
    /\ out'[q] = out[q]
    /\ moved'[q] = moved[q]
    /\ raced'[q] = raced[q]
    /\ lock = q => lock' = q

ProcStep(p) == Step(p) \/ Crash(p) \/ \E o \in Requests : Start(p, o)

\* Another process's operation is its own.
LEMMA OthersKeep ==
  ASSUME TypeOK, Exclusive, NEW p \in Procs, ProcStep(p)
  PROVE  OthersSame(p)
<1>. USE DEF TypeOK, Goto, Return, Exit, localVars, OthersSame
<1>1. CASE \E o \in Requests : Start(p, o)
  BY <1>1 DEF Start
<1>2. CASE Resolve(p)
  BY <1>2 DEF Resolve
<1>3. CASE Acquire(p) \/ GiveUp(p)
  BY <1>3, RunStateAssumption DEF Acquire, GiveUp
<1>4. CASE Recheck(p) \/ ReadState(p) \/ ReadHead(p) \/ CheckTracked(p)
  BY <1>4 DEF Recheck, ReadState, ReadHead, CheckTracked
<1>5. CASE Scan(p)
  BY <1>5 DEF Scan
<1>6. CASE GitFails(p) \/ GitHangs(p)
  BY <1>6 DEF GitFails, GitHangs, Abort
<1>7. CASE DecideVerify(p) \/ DecideInit(p) \/ DecideAdvance(p)
  BY <1>7 DEF DecideVerify, DecideInit, DecideAdvance
<1>8. CASE Compare(p) \/ Replace(p)
  BY <1>8 DEF Compare, Replace
<1>9. CASE Unlock(p) \/ Crash(p)
  BY <1>9 DEF Unlock, Crash, Exclusive, InSection
<1>. QED
  BY <1>1, <1>2, <1>3, <1>4, <1>5, <1>6, <1>7, <1>8, <1>9 DEF ProcStep, Step

\* The process that steps has the lock whenever it is in the section after.
LEMMA LockStep == TypeOK /\ Exclusive /\ [Next]_vars => Exclusive'
<1>. SUFFICES ASSUME TypeOK, Exclusive, [Next]_vars
             PROVE  Exclusive'
  OBVIOUS
<1>1. ASSUME NEW p \in Procs, ProcStep(p)
      PROVE  pc'[p] \in InSection => lock' = p
  <2>. USE DEF TypeOK, Exclusive, Goto, Return, Exit, localVars, InSection
  <2>1. CASE \E o \in Requests : Start(p, o)
    BY <2>1 DEF Start
  <2>2. CASE Resolve(p) \/ Acquire(p) \/ GiveUp(p) \/ Unlock(p) \/ Crash(p)
    BY <2>2 DEF Resolve, Acquire, GiveUp, Unlock, Crash
  <2>3. CASE Recheck(p) \/ ReadState(p) \/ ReadHead(p) \/ CheckTracked(p)
    BY <2>3 DEF Recheck, ReadState, ReadHead, CheckTracked
  <2>4. CASE Scan(p) \/ GitFails(p) \/ GitHangs(p)
    BY <2>4 DEF Scan, GitFails, GitHangs, Abort, GitSteps
  <2>5. CASE DecideVerify(p) \/ DecideInit(p) \/ DecideAdvance(p)
    BY <2>5 DEF DecideVerify, DecideInit, DecideAdvance
  <2>6. CASE Compare(p) \/ Replace(p)
    BY <2>6 DEF Compare, Replace
  <2>. QED
    BY <1>1, <2>1, <2>2, <2>3, <2>4, <2>5, <2>6 DEF ProcStep, Step
<1>2. ASSUME NEW p \in Procs, ProcStep(p)
      PROVE  Exclusive'
  BY <1>1, <1>2, OthersKeep DEF Exclusive, OthersSame
<1>3. CASE EnvStep \/ UNCHANGED vars
  BY <1>3 DEF EnvStep, vars, runVars, Exclusive
<1>. QED
  BY <1>2, <1>3 DEF Next, ProcStep
----------------------------------------------------------------------------
\* What the acting process itself knows after its step.
LEMMA ActorKnows ==
  ASSUME Grounds, NEW p \in Procs, ProcStep(p)
  PROVE  /\ pc'[p] \in Informed => st'[p].kind # "corrupt"
         /\ pc'[p] \in SinceHead => hd'[p] \in Commits
         /\ pc'[p] \in Writing =>
              /\ op'[p].mode \in {"init", "advance"}
              /\ op'[p].mode = "init" => st'[p] = Absent
              /\ op'[p].mode = "advance" => /\ st'[p].sha[op'[p].stage] = NoSha
                                            /\ ~LaterSet(st'[p], op'[p].stage)
         /\ pc'[p] \notin {"idle", "unlock"} => out'[p] = "none"
         /\ pc'[p] \in Unscanned => scan'[p] = 0
         /\ pc'[p] = "scan" => scan'[p] < LastScan
<1>. USE DEF Grounds, TypeOK, Goto, Return, Exit, localVars, Informed, SinceHead,
         Writing, Unscanned, ScanBound
<1>1. CASE \E o \in Requests : Start(p, o)
  BY <1>1 DEF Start
<1>2. CASE Resolve(p) \/ Acquire(p) \/ GiveUp(p) \/ Unlock(p) \/ Crash(p)
  BY <1>2 DEF Resolve, Acquire, GiveUp, Unlock, Crash, NoEarlyExit
<1>3. CASE Recheck(p) \/ ReadState(p)
  BY <1>3 DEF Recheck, ReadState, NoEarlyExit
<1>4. CASE ReadHead(p)
  BY <1>4 DEF ReadHead, ReadParses, NoEarlyExit, GitHead, GitTypeOK
<1>5. CASE CheckTracked(p)
  BY <1>5 DEF CheckTracked, ReadParses, HeadIsRead, NoEarlyExit, LastScan
<1>6. CASE Scan(p)
  BY <1>6 DEF Scan, ReadParses, HeadIsRead, NoEarlyExit, LastScan
<1>7. CASE GitFails(p) \/ GitHangs(p)
  BY <1>7 DEF GitFails, GitHangs, Abort
<1>8. CASE DecideVerify(p)
  BY <1>8 DEF DecideVerify
<1>9. CASE DecideInit(p)
  <2>1. st[p] \in Files /\ st[p].kind # "corrupt"
    BY <1>9 DEF DecideInit, ReadParses
  <2>. QED
    BY <1>9, <2>1, FileShape DEF DecideInit, ReadParses, HeadIsRead, NoEarlyExit
<1>10. CASE DecideAdvance(p)
  BY <1>10 DEF DecideAdvance, ReadParses, HeadIsRead, NoEarlyExit
<1>11. CASE Compare(p)
  BY <1>11 DEF Compare, ReadParses, HeadIsRead, NoEarlyExit, WriteIsLegal
<1>12. CASE Replace(p)
  BY <1>12 DEF Replace
<1>. QED
  BY <1>1, <1>2, <1>3, <1>4, <1>5, <1>6, <1>7, <1>8, <1>9, <1>10, <1>11, <1>12
     DEF ProcStep, Step

\* What it has read it has read just now, or the file has not changed since.
LEMMA ActorFresh ==
  ASSUME IInv, NEW p \in Procs, ProcStep(p), pc'[p] \in Informed
  PROVE  st'[p] = file'
<1>. USE DEF IInv, Grounds, TypeOK, Goto, Return, Exit, localVars, Informed,
         ReadIsFresh
<1>1. CASE \E o \in Requests : Start(p, o)
  BY <1>1 DEF Start
<1>2. CASE Resolve(p) \/ Acquire(p) \/ GiveUp(p) \/ Unlock(p) \/ Crash(p)
  BY <1>2 DEF Resolve, Acquire, GiveUp, Unlock, Crash
<1>3. CASE Recheck(p) \/ ReadState(p) \/ ReadHead(p) \/ CheckTracked(p)
  BY <1>3 DEF Recheck, ReadState, ReadHead, CheckTracked
<1>4. CASE Scan(p) \/ GitFails(p) \/ GitHangs(p)
  BY <1>4 DEF Scan, GitFails, GitHangs, Abort
<1>5. CASE DecideVerify(p) \/ DecideInit(p) \/ DecideAdvance(p)
  BY <1>5 DEF DecideVerify, DecideInit, DecideAdvance
<1>6. CASE Compare(p) \/ Replace(p)
  BY <1>6 DEF Compare, Replace
<1>. QED
  BY <1>1, <1>2, <1>3, <1>4, <1>5, <1>6 DEF ProcStep, Step

\* The file stays what a process in mid-run has read, unless it writes it.
LEMMA FileStable ==
  ASSUME IInv, [Next]_vars, NEW q \in Procs,
         pc[q] \in Informed, pc'[q] \in Informed
  PROVE  file' = file
<1>. SUFFICES ASSUME file' # file
             PROVE  FALSE
  OBVIOUS
<1>1. PICK r \in Procs : pc[r] = "replace" /\ Replace(r)
  BY FileChanges
<1>2. r = q
  BY <1>1 DEF IInv, Grounds, Exclusive, InSection, Informed
<1>3. pc'[r] = "unlock"
  BY <1>1 DEF Replace, Return, Goto, IInv, Grounds, TypeOK
<1>. QED
  BY <1>2, <1>3 DEF Informed

\* A write only ever fills an empty field that no later one follows.
LEMMA WriteFills ==
  ASSUME IInv, NEW p \in Procs, pc[p] = "replace", file' = NewFile(p)
  PROVE  /\ file'.kind = "valid"
         /\ \/ file'.sha = file.sha
            \/ \E s \in Stages, c \in Commits :
                 /\ file.sha[s] = NoSha
                 /\ \A t \in Stages : t > s => file.sha[t] = NoSha
                 /\ file'.sha = [file.sha EXCEPT ![s] = c]
<1>1. file'.kind = "valid"
  BY DEF NewFile
<1>2. st[p] = file /\ op[p].mode \in {"init", "advance"}
  BY DEF IInv, Grounds, ReadIsFresh, Informed, WriteIsLegal, Writing
<1>3. CASE op[p].mode = "init"
  BY <1>2, <1>3 DEF NewFile, Absent, IInv, Grounds, WriteIsLegal, Writing
<1>4. CASE op[p].mode = "advance"
  <2>1. hd[p] \in Commits
    BY DEF IInv, Grounds, HeadIsRead, SinceHead
  <2>2. op[p].stage \in Stages
    BY OpShape DEF IInv, Grounds, TypeOK
  <2>3. /\ file.sha[op[p].stage] = NoSha
        /\ ~LaterSet(file, op[p].stage)
    BY <1>2, <1>4 DEF IInv, Grounds, WriteIsLegal, Writing
  <2>4. file'.sha = [file.sha EXCEPT ![op[p].stage] = hd[p]]
    BY <1>2, <1>4 DEF NewFile
  <2>. QED
    BY <1>1, <2>1, <2>2, <2>3, <2>4 DEF LaterSet
<1>. QED
  BY <1>1, <1>2, <1>3, <1>4

\* So no step changes a field that holds a SHA.
LEMMA SetFieldsStay ==
  ASSUME IInv, [Next]_vars, NEW s \in Stages, file.sha[s] # NoSha
  PROVE  file'.sha[s] = file.sha[s] /\ file'.kind = "valid"
<1>1. file \in Files /\ file.sha \in Shas
  BY FileShape DEF IInv, Grounds, TypeOK
<1>2. CASE file' = file
  BY <1>1, <1>2, FileShape DEF Unset
<1>3. CASE file' # file
  <2>1. PICK p \in Procs : pc[p] = "replace" /\ file' = NewFile(p)
    BY <1>3, FileChanges
  <2>. QED
    BY <1>1, <2>1, WriteFills DEF Shas
<1>. QED
  BY <1>2, <1>3

----------------------------------------------------------------------------
\* The acknowledgement of the process that acts: an earlier one still holds,
\* a new one is given only when the field holds the SHA that was read.
LEMMA ActorAcks ==
  ASSUME IInv, NEW p \in Procs, ProcStep(p), [Next]_vars,
         out'[p] = "ok", op'[p].mode \in {"advance", "verify"}
  PROVE  /\ file'.kind = "valid"
         /\ hd'[p] # NoSha
         /\ file'.sha[op'[p].stage] = hd'[p]
<1>. DEFINE Goal == /\ file'.kind = "valid"
                   /\ hd'[p] # NoSha
                   /\ file'.sha[op'[p].stage] = hd'[p]
<1>. USE DEF IInv, Grounds, TypeOK, Goto, Return, Exit, localVars
<1>0. op[p].stage \in Stages
  BY OpShape
<1>1. ASSUME op'[p] = op[p], hd'[p] = hd[p], hd[p] # NoSha,
             file.sha[op[p].stage] = hd[p]
      PROVE  Goal
  BY <1>0, <1>1, SetFieldsStay
<1>2. CASE \E o \in Requests : Start(p, o)
  BY <1>2 DEF Start
<1>3. CASE Resolve(p) \/ Acquire(p) \/ GiveUp(p) \/ Crash(p) \/ Recheck(p)
  BY <1>3 DEF Resolve, Acquire, GiveUp, Crash, Recheck, NoEarlyExit
<1>4. CASE ReadState(p) \/ ReadHead(p) \/ CheckTracked(p)
  BY <1>4 DEF ReadState, ReadHead, CheckTracked, NoEarlyExit
<1>5. CASE Scan(p) \/ GitFails(p) \/ GitHangs(p)
  BY <1>5 DEF Scan, GitFails, GitHangs, Abort, GitSteps, NoEarlyExit
<1>6. CASE DecideVerify(p)
  BY <1>1, <1>6 DEF DecideVerify, ReadIsFresh, Informed
<1>7. CASE DecideInit(p)
  BY <1>7 DEF DecideInit
<1>8. CASE DecideAdvance(p)
  <2>1. hd[p] # NoSha
    BY <1>8, CheckoutAssumption DEF DecideAdvance, HeadIsRead, SinceHead
  <2>. QED
    BY <1>1, <1>8, <2>1 DEF DecideAdvance, ReadIsFresh, Informed, NoEarlyExit
<1>9. CASE Compare(p)
  BY <1>9 DEF Compare, NoEarlyExit
<1>10. CASE Replace(p)
  <2>1. hd[p] # NoSha /\ op[p].mode = "advance" /\ file' = NewFile(p)
    BY <1>10, CheckoutAssumption
       DEF Replace, HeadIsRead, SinceHead, WriteIsLegal, Writing
  <2>2. st[p].sha \in Shas
    BY FileShape
  <2>. QED
    BY <1>0, <1>10, <2>1, <2>2 DEF Replace, NewFile, Shas
<1>11. CASE Unlock(p)
  <2>1. op'[p] = op[p] /\ hd'[p] = hd[p] /\ out[p] = "ok"
    BY <1>11 DEF Unlock
  <2>. QED
    BY <1>1, <2>1 DEF AckedShaStays
<1>. QED
  BY <1>2, <1>3, <1>4, <1>5, <1>6, <1>7, <1>8, <1>9, <1>10, <1>11
     DEF ProcStep, Step

\* One step preserves what a process relies on whoever else writes.
LEMMA GroundsStep == Grounds /\ [Next]_vars => Grounds'
<1>. SUFFICES ASSUME Grounds, [Next]_vars
             PROVE  Grounds'
  OBVIOUS
<1>1. TypeOK' /\ Exclusive'
  BY TypeStep, LockStep DEF Grounds
<1>2. ASSUME NEW p \in Procs, ProcStep(p)
      PROVE  ReadParses' /\ HeadIsRead' /\ WriteIsLegal' /\ NoEarlyExit'
             /\ ScanBound'
  <2>1. OthersSame(p)
    BY <1>2, OthersKeep DEF Grounds
  <2>2. ReadParses' /\ HeadIsRead' /\ NoEarlyExit' /\ ScanBound'
    BY <1>2, <2>1, ActorKnows
       DEF Grounds, OthersSame, ReadParses, HeadIsRead, NoEarlyExit, ScanBound
  <2>3. WriteIsLegal'
    BY <1>2, <2>1, ActorKnows DEF Grounds, OthersSame, WriteIsLegal, LaterSet
  <2>. QED
    BY <2>2, <2>3
<1>3. ASSUME EnvStep \/ UNCHANGED vars
      PROVE  ReadParses' /\ HeadIsRead' /\ WriteIsLegal' /\ NoEarlyExit'
             /\ ScanBound'
  <2>1. UNCHANGED <<pc, op, hd, out, st, scan>>
    BY <1>3 DEF EnvStep, vars, runVars, localVars
  <2>. QED
    BY <2>1 DEF Grounds, ReadParses, HeadIsRead, NoEarlyExit, ScanBound,
       WriteIsLegal, LaterSet
<1>. QED
  BY <1>1, <1>2, <1>3 DEF Next, ProcStep, Grounds

\* One step preserves the inductive invariant.
LEMMA IInvStep == IInv /\ [Next]_vars => IInv'
<1>. SUFFICES ASSUME IInv, [Next]_vars
             PROVE  IInv'
  OBVIOUS
<1>1. Grounds'
  BY GroundsStep DEF IInv
<1>2. ASSUME NEW p \in Procs, ProcStep(p)
      PROVE  ReadIsFresh' /\ AckedShaStays'
  <2>1. OthersSame(p)
    BY <1>2, OthersKeep DEF IInv, Grounds
  <2>2. ReadIsFresh'
    <3>. SUFFICES ASSUME NEW q \in Procs, pc'[q] \in Informed
                 PROVE  st'[q] = file'
      BY DEF ReadIsFresh
    <3>1. CASE q = p
      BY <1>2, <3>1, ActorFresh
    <3>2. CASE q # p
      <4>1. pc[q] \in Informed /\ st'[q] = st[q]
        BY <2>1, <3>2 DEF OthersSame
      <4>. QED
        BY <4>1, FileStable DEF IInv, ReadIsFresh
    <3>. QED
      BY <3>1, <3>2
  <2>3. AckedShaStays'
    <3>. SUFFICES ASSUME NEW q \in Procs, out'[q] = "ok",
                        op'[q].mode \in {"advance", "verify"}
                 PROVE  /\ file'.kind = "valid"
                        /\ hd'[q] # NoSha
                        /\ file'.sha[op'[q].stage] = hd'[q]
      BY DEF AckedShaStays
    <3>1. CASE q = p
      BY <1>2, <3>1, ActorAcks
    <3>2. CASE q # p
      BY <2>1, <3>2, SetFieldsStay, OpShape
         DEF OthersSame, IInv, Grounds, AckedShaStays, TypeOK
    <3>. QED
      BY <3>1, <3>2
  <2>. QED
    BY <2>2, <2>3
<1>3. ASSUME EnvStep \/ UNCHANGED vars
      PROVE  ReadIsFresh' /\ AckedShaStays'
  <2>1. UNCHANGED <<file, pc, op, hd, out, st>>
    BY <1>3 DEF EnvStep, vars, runVars, localVars
  <2>. QED
    BY <2>1 DEF IInv, ReadIsFresh, AckedShaStays
<1>. QED
  BY <1>1, <1>2, <1>3 DEF Next, ProcStep, IInv

\* Both invariants hold at the start.
LEMMA IInvInit == Init => IInv /\ ReplaceIsFresh
<1>. SUFFICES ASSUME Init
             PROVE  IInv /\ ReplaceIsFresh
  OBVIOUS
<1>1. TypeOK
  BY CheckoutAssumption, AbsentType
     DEF Init, TypeOK, GitInit, GitTypeOK, PCs, Ops, Stages, LastScan
<1>2. /\ Exclusive /\ ReadParses /\ HeadIsRead /\ WriteIsLegal /\ NoEarlyExit
      /\ ScanBound
  BY DEF Init, Exclusive, InSection, ReadParses, Informed, HeadIsRead,
     SinceHead, WriteIsLegal, Writing, NoEarlyExit, ScanBound, LastScan
<1>3. ReadIsFresh /\ ReplaceIsFresh /\ AckedShaStays
  BY DEF Init, ReadIsFresh, ReplaceIsFresh, Informed, AckedShaStays
<1>. QED
  BY <1>1, <1>2, <1>3 DEF IInv, Grounds

\* The inductive invariant holds in every reachable state.
THEOREM Invariant == Spec => []IInv
BY IInvInit, IInvStep, PTL DEF Spec

\* Every variable keeps its type.
THEOREM TypeCorrect == Spec => []TypeOK
BY Invariant, PTL DEF IInv, Grounds

\* At most one invocation is between the acquisition and the release of the
\* lock, for any number of processes, timeouts and kills.
THEOREM MutualExclusion == Spec => []Exclusive
BY Invariant, PTL DEF IInv, Grounds

\* What `advance` or `verify` reported with exit status 0 stays true.
THEOREM AcksAreDurable == Spec => []AckedShaStays
BY Invariant, PTL DEF IInv, Grounds

\* The tool implements the write-once register.
THEOREM Refinement == Spec => ImplementsRegister
<1>1. Init => Register!Init
  BY DEF Init, Register!Init, Register!Fields, Absent, Corrupt, Unset, Stages
<1>2. IInv /\ [Next]_vars => [Register!Next]_(file.sha)
  <2>. SUFFICES ASSUME IInv, [Next]_vars, file' # file
               PROVE  Register!Next \/ file'.sha = file.sha
    OBVIOUS
  <2>1. PICK p \in Procs : pc[p] = "replace" /\ file' = NewFile(p)
    BY FileChanges
  <2>. QED
    BY <2>1, WriteFills
       DEF Register!Next, Register!Advance, Register!Fields, Stages
<1>. QED
  BY <1>1, <1>2, Invariant, PTL DEF Spec, ImplementsRegister, Register!Spec
----------------------------------------------------------------------------
\* What a run may conclude from its git commands as long as HEAD and the
\* changes stay where they are: a change that none of the scans has seen, in a
\* checkout that was clean at none of them, is one a later scan will see.
KnowsCheckout(p) ==
  /\ hd[p] = head
  /\ pc[p] # "tracked" => head \notin TrackedIn
  /\ pc[p] = "scan" /\ scan[p] > 0 /\ ~saw[p] /\ ~agreed[p]
       => \E k \in scan[p] + 1 .. LastScan : ScanSees(k)
  /\ pc[p] \in {"decide", "compare", "replace"} /\ op[p].mode # "verify"
       => agreed[p]

QuietKnows ==
  \A p \in Procs : pc[p] \in SinceHead /\ ~moved[p] => KnowsCheckout(p)

\* Whatever dirt there is, one of the scans is for its kind.
LEMMA SomeScanSees ==
  ASSUME GitTypeOK, dirt # {}
  PROVE  \E k \in 1..LastScan : ScanSees(k)
<1>1. "staged" \in dirt \/ "unstaged" \in dirt \/ "untracked" \in dirt
  BY DEF GitTypeOK, Kinds
<1>2. ScanSees(1) \/ ScanSees(2) \/ ScanSees(3)
  BY <1>1 DEF ScanSees, ScanOrder
<1>. QED
  BY <1>2 DEF LastScan

\* An actor's step in a quiet repository keeps what it has seen true.
LEMMA ActorQuiet ==
  ASSUME Grounds, QuietKnows, NEW p \in Procs, ProcStep(p),
         pc'[p] \in SinceHead, ~moved'[p]
  PROVE  KnowsCheckout(p)'
<1>. USE DEF Grounds, TypeOK, Goto, Return, Exit, localVars, SinceHead, KnowsCheckout
<1>1. CASE \/ \E o \in Requests : Start(p, o)
           \/ Resolve(p) \/ Acquire(p) \/ GiveUp(p) \/ Unlock(p) \/ Crash(p)
           \/ Recheck(p) \/ ReadState(p) \/ Replace(p)
           \/ GitFails(p) \/ GitHangs(p) \/ DecideVerify(p)
  BY <1>1 DEF Start, Resolve, Acquire, GiveUp, Unlock, Crash, Recheck,
     ReadState, Replace, GitFails, GitHangs, Abort, DecideVerify
<1>2. CASE ReadHead(p)
  BY <1>2 DEF ReadHead, GitHead, gitVars
<1>3. CASE CheckTracked(p)
  BY <1>3 DEF CheckTracked, TrackedInHead, QuietKnows, gitVars, ScanBound,
     Unscanned
<1>4. CASE Scan(p)
  <2>1. /\ head' = head /\ dirt' = dirt /\ hd' = hd /\ op' = op
        /\ pc[p] = "scan" /\ ~moved[p] /\ scan[p] \in 0..2
    BY <1>4 DEF Scan, gitVars, ScanBound, LastScan
  <2>2. KnowsCheckout(p)
    BY <2>1 DEF QuietKnows
  <2>3. scan'[p] = scan[p] + 1
    BY <1>4 DEF Scan
  <2>4. ~saw'[p] => ~saw[p] /\ ~ScanSees(scan[p] + 1)
    BY <1>4 DEF Scan
  <2>5. ~agreed'[p] => ~agreed[p] /\ dirt # {}
    BY <1>4, <2>2 DEF Scan
  <2>6. ~saw'[p] /\ ~agreed'[p]
          => \E k \in scan[p] + 1 .. LastScan : ScanSees(k)
    BY <2>1, <2>2, <2>4, <2>5, SomeScanSees
  <2>7. ~saw'[p] /\ ~agreed'[p]
          => \E k \in scan'[p] + 1 .. LastScan : ScanSees(k)
    BY <2>1, <2>3, <2>4, <2>6 DEF LastScan
  <2>8. ~saw'[p] /\ ~agreed'[p]
          => \E k \in scan'[p] + 1 .. LastScan : ScanSees(k)'
    BY <2>1, <2>7 DEF ScanSees
  <2>9. pc'[p] = "decide" => scan'[p] = LastScan /\ ~saw'[p]
    BY <1>4, <2>1, <2>3 DEF Scan, LastScan
  <2>10. pc'[p] \in {"scan", "decide", "unlock"}
    BY <1>4 DEF Scan
  <2>11. pc'[p] = "decide" => agreed'[p]
    BY <2>8, <2>9 DEF LastScan
  <2>. QED
    BY <2>1, <2>2, <2>8, <2>10, <2>11
<1>5. CASE DecideInit(p) \/ DecideAdvance(p) \/ Compare(p)
  BY <1>5 DEF DecideInit, DecideAdvance, Compare, QuietKnows, gitVars, ScanSees
<1>. QED
  BY <1>1, <1>2, <1>3, <1>4, <1>5 DEF ProcStep, Step

\* So does every step.
LEMMA QuietStep == Grounds /\ QuietKnows /\ [Next]_vars => QuietKnows'
<1>. SUFFICES ASSUME Grounds, QuietKnows, [Next]_vars,
                    NEW q \in Procs, pc'[q] \in SinceHead, ~moved'[q]
             PROVE  KnowsCheckout(q)'
  BY DEF QuietKnows
<1>1. ASSUME NEW p \in Procs, ProcStep(p)
      PROVE  KnowsCheckout(q)'
  <2>1. CASE q = p
    BY <1>1, <2>1, ActorQuiet
  <2>2. CASE q # p
    <3>1. OthersSame(p) /\ UNCHANGED gitVars
      BY <1>1, OthersKeep
         DEF Grounds, ProcStep, Step, Start, Resolve, Acquire, GiveUp, Recheck,
             ReadState, ReadHead, CheckTracked, Scan, GitFails, GitHangs, Abort,
             DecideVerify, DecideInit, DecideAdvance, Compare, Replace, Unlock,
             Crash
    <3>. QED
      BY <2>2, <3>1 DEF OthersSame, QuietKnows, KnowsCheckout, gitVars, ScanSees
  <2>. QED
    BY <2>1, <2>2
<1>2. CASE EnvStep
  <2>1. /\ pc' = pc /\ op' = op /\ hd' = hd
        /\ scan' = scan /\ saw' = saw /\ agreed' = agreed
        /\ ~moved[q] /\ OnlyAdds
    BY <1>2 DEF EnvStep, runVars
  <2>2. KnowsCheckout(q)
    BY <2>1 DEF QuietKnows
  <2>3. \A k \in 1..LastScan : ScanSees(k) => ScanSees(k)'
    BY <2>1 DEF OnlyAdds, ScanSees
  <2>. QED
    BY <2>1, <2>2, <2>3 DEF KnowsCheckout, OnlyAdds, Grounds, TypeOK, LastScan
<1>3. CASE UNCHANGED vars
  BY <1>3 DEF vars, gitVars, runVars, localVars, QuietKnows, KnowsCheckout,
     ScanSees
<1>. QED
  BY <1>1, <1>2, <1>3 DEF Next, ProcStep

\* What a run knows of a quiet repository when it writes.
LEMMA QuietWrite ==
  ASSUME Grounds, QuietKnows, NEW p \in Procs, pc[p] = "replace", ~moved[p]
  PROVE  agreed[p] /\ hd[p] = head /\ head \notin TrackedIn
BY DEF QuietKnows, KnowsCheckout, SinceHead, Grounds, WriteIsLegal, Writing

----------------------------------------------------------------------------
\* An edit that takes no lock changes nothing a process relies on: what it
\* parsed, decided and read from git is its own copy.
LEMMA ForeignKeeps ==
  ASSUME Grounds, QuietKnows, ReplaceIsFresh, NEW f \in Files, Foreign(f)
  PROVE  Grounds' /\ QuietKnows' /\ ReplaceIsFresh'
<1>1. /\ UNCHANGED <<gitVars, lock, pc, op, hd, out, st, scan, saw, moved>>
      /\ UNCHANGED agreed
      /\ file' \in Files
      /\ raced' = [p \in Procs |-> raced[p] \/ pc[p] = "replace"]
  BY DEF Foreign, runVars
<1>2. TypeOK'
  BY <1>1, GitFrame DEF Grounds, TypeOK
<1>3. /\ ScanBound' /\ Exclusive' /\ ReadParses' /\ HeadIsRead' /\ NoEarlyExit'
      /\ WriteIsLegal'
  BY <1>1 DEF Grounds, ScanBound, Exclusive, ReadParses, HeadIsRead,
     NoEarlyExit, WriteIsLegal, LaterSet
<1>4. QuietKnows'
  BY <1>1 DEF QuietKnows, KnowsCheckout, ScanSees, gitVars
<1>5. ReplaceIsFresh'
  BY <1>1 DEF ReplaceIsFresh
<1>. QED
  BY <1>2, <1>3, <1>4, <1>5 DEF Grounds

\* The process that enters the window has just compared; a step inside it
\* leaves it, and nobody else's step writes the file.
LEMMA FreshStep ==
  Grounds /\ ReplaceIsFresh /\ [Next]_vars => ReplaceIsFresh'
<1>. SUFFICES ASSUME Grounds, ReplaceIsFresh, [Next]_vars,
                    NEW q \in Procs, pc'[q] = "replace", ~raced'[q]
             PROVE  st'[q] = file'
  BY DEF ReplaceIsFresh
<1>. USE DEF Grounds, TypeOK, Goto, Return, Exit, localVars
<1>1. ASSUME NEW p \in Procs, ProcStep(p)
      PROVE  st'[q] = file'
  <2>1. CASE q = p
    <3>1. CASE Compare(p)
      BY <2>1, <3>1 DEF Compare
    <3>2. CASE \/ \E o \in Requests : Start(p, o)
               \/ Resolve(p) \/ Acquire(p) \/ GiveUp(p) \/ Unlock(p) \/ Crash(p)
      BY <2>1, <3>2 DEF Start, Resolve, Acquire, GiveUp, Unlock, Crash
    <3>3. CASE Recheck(p) \/ ReadState(p) \/ ReadHead(p) \/ CheckTracked(p)
      BY <2>1, <3>3 DEF Recheck, ReadState, ReadHead, CheckTracked
    <3>4. CASE Scan(p) \/ GitFails(p) \/ GitHangs(p)
      BY <2>1, <3>4 DEF Scan, GitFails, GitHangs, Abort, GitSteps
    <3>5. CASE \/ DecideVerify(p) \/ DecideInit(p) \/ DecideAdvance(p)
               \/ Replace(p)
      BY <2>1, <3>5 DEF DecideVerify, DecideInit, DecideAdvance, Replace
    <3>. QED
      BY <1>1, <3>1, <3>2, <3>3, <3>4, <3>5 DEF ProcStep, Step
  <2>2. CASE q # p
    <3>1. pc[q] = "replace" /\ st'[q] = st[q]
      BY <1>1, <2>2, OthersKeep DEF OthersSame
    <3>2. raced'[q] = raced[q]
      BY <1>1, <2>2, OthersKeep DEF OthersSame
    <3>3. file' = file
      <4>1. pc[p] # "replace"
        BY <2>2, <3>1 DEF Exclusive, InSection
      <4>. QED
        BY <1>1, <4>1 DEF ProcStep, Step, Start, Resolve, Acquire, GiveUp,
           Recheck, ReadState, ReadHead, CheckTracked, Scan, GitFails, GitHangs,
           Abort, DecideVerify, DecideInit, DecideAdvance, Compare, Replace,
           Unlock, Crash
    <3>. QED
      BY <3>1, <3>2, <3>3 DEF ReplaceIsFresh
  <2>. QED
    BY <2>1, <2>2
<1>2. CASE EnvStep \/ UNCHANGED vars
  BY <1>2 DEF EnvStep, vars, runVars, ReplaceIsFresh
<1>. QED
  BY <1>1, <1>2 DEF Next, ProcStep

\* Every step beside a foreign editor keeps what the proofs rest on.
LEMMA ForeignStep ==
  ForeignInv /\ QuietKnows /\ [ForeignNext]_vars => ForeignInv' /\ QuietKnows'
<1>1. ForeignInv /\ QuietKnows /\ [Next]_vars => ForeignInv' /\ QuietKnows'
  BY GroundsStep, FreshStep, QuietStep DEF ForeignInv
<1>2. ASSUME ForeignInv, QuietKnows, NEW f \in Files, Foreign(f)
      PROVE  ForeignInv' /\ QuietKnows'
  BY <1>2, ForeignKeeps DEF ForeignInv
<1>. QED
  BY <1>1, <1>2 DEF ForeignNext

\* What the proofs rest on holds in every reachable state.
THEOREM ForeignInvariant == ForeignSpec => [](ForeignInv /\ QuietKnows)
<1>1. Init => ForeignInv /\ QuietKnows
  BY IInvInit DEF Init, IInv, ForeignInv, QuietKnows, SinceHead
<1>. QED
  BY <1>1, ForeignStep, PTL DEF ForeignSpec

\* Every variable keeps its type beside an editor who takes no lock ...
THEOREM ForeignTypes == ForeignSpec => []TypeOK
BY ForeignInvariant, PTL DEF ForeignInv, Grounds

\* ... and the section between acquisition and release stays exclusive.
THEOREM ForeignExclusion == ForeignSpec => []Exclusive
BY ForeignInvariant, PTL DEF ForeignInv, Grounds

\* Whoever edits files while the scans run, and the state file: as long as
\* HEAD and the changes stay where they are, `advance` and `init` write only
\* at a HEAD that tracks no runtime state and was clean at one of the scans.
THEOREM QuietAdvance == ForeignSpec => QuietAdvanceIsClean
<1>1. ForeignInv /\ QuietKnows =>
        [\A p \in Procs : Records(p) /\ ~moved[p]
            => agreed[p] /\ hd[p] = head /\ head \notin TrackedIn]_vars
  BY QuietWrite DEF Records, ForeignInv
<1>. QED
  BY <1>1, ForeignInvariant, PTL DEF QuietAdvanceIsClean

\* What a write replaces when nobody wrote since the revision comparison: no
\* field that holds a SHA, and no file that could not be parsed.
LEMMA WriteLosesNothing ==
  ASSUME ForeignInv, [ForeignNext]_vars, NEW p \in Procs, Records(p), ~raced[p]
  PROVE  /\ file.kind # "corrupt"
         /\ \A s \in Stages : file.sha[s] # NoSha => file'.sha[s] = file.sha[s]
<1>1. st[p] = file /\ file.kind # "corrupt" /\ file.sha \in Shas
  BY FileShape DEF ForeignInv, ReplaceIsFresh, Records, Grounds, ReadParses,
     Informed, TypeOK
<1>2. PICK r \in Procs : pc[r] = "replace" /\ file' = NewFile(r)
  <2>1. ASSUME NEW f \in Files, Foreign(f)
        PROVE  FALSE
    BY <2>1 DEF Foreign, runVars, Records
  <2>2. [Next]_vars
    BY <2>1 DEF ForeignNext
  <2>. QED
    BY <2>2, FileChanges DEF Records
<1>3. r = p
  BY <1>2 DEF Records, ForeignInv, Grounds, Exclusive, InSection
<1>4. CASE op[p].mode = "init"
  BY <1>1, <1>4 DEF Records, ForeignInv, Grounds, WriteIsLegal, Writing,
     Absent, Unset
<1>5. CASE op[p].mode = "advance"
  <2>1. file.sha[op[p].stage] = NoSha
    BY <1>1, <1>5 DEF Records, ForeignInv, Grounds, WriteIsLegal, Writing
  <2>2. file'.sha = [file.sha EXCEPT ![op[p].stage] = hd[p]]
    BY <1>1, <1>2, <1>3, <1>5 DEF NewFile
  <2>. QED
    BY <1>1, <2>1, <2>2 DEF Shas
<1>. QED
  BY <1>4, <1>5 DEF Records, ForeignInv, Grounds, WriteIsLegal, Writing

\* The revision comparison is what keeps a foreign edit: a write that none
\* overtook after it destroys nothing.
THEOREM LostUpdate == ForeignSpec => NoLostUpdate
<1>1. ForeignInv /\ [ForeignNext]_vars =>
        [\A p \in Procs : Records(p) /\ ~raced[p]
            => /\ file.kind # "corrupt"
               /\ \A s \in Stages : file.sha[s] # NoSha
                                      => file'.sha[s] = file.sha[s]]_vars
  BY WriteLosesNothing
<1>. QED
  BY <1>1, ForeignInvariant, PTL DEF ForeignSpec, NoLostUpdate

----------------------------------------------------------------------------
\* What the abstract register promises, the file keeps: a set field never
\* changes and an earlier one is never filled in behind it.
THEOREM FieldsNeverRewind == Spec => Register!NeverRewinds
<1>1. Register!RegisterTypeOK /\ Register!Next =>
        \A s, t \in Register!Fields :
          s <= t /\ file.sha[t] # NoSha => (file.sha)'[s] = file.sha[s]
  BY DEF Register!RegisterTypeOK, Register!Next, Register!Advance,
     Register!Fields
<1>2. IInv => Register!RegisterTypeOK
  BY FileShape DEF IInv, Grounds, TypeOK, Register!RegisterTypeOK, Register!Fields,
     Shas, Stages
<1>3. Register!RegisterTypeOK /\ [Register!Next]_(file.sha) =>
        [\A s, t \in Register!Fields :
           s <= t /\ file.sha[t] # NoSha => (file.sha)'[s] = file.sha[s]]_(file.sha)
  BY <1>1
<1>. QED
  BY <1>2, <1>3, Invariant, Refinement, PTL
     DEF ImplementsRegister, Register!Spec, Register!NeverRewinds
=============================================================================
