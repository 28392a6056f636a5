------------------------------ MODULE ScanProofs ------------------------------
(* What the scan of files and of history keeps true, for every repository,    *)
(* every set of limits and every way the reader threads, the caps, the clock  *)
(* and git itself interleave.                                                 *)
EXTENDS SecretScan, FiniteSetTheorems, TLAPS

------------------------------------------------------------------------------
(* One call of git.                                                          *)

PipeFields == {"total", "left", "full", "room", "kept", "done"}

PipeTypes ==
  /\ DOMAIN pipe = Streams /\ pipe = [s \in Streams |-> pipe[s]]
  /\ \A s \in Streams :
       /\ DOMAIN pipe[s] = PipeFields
       /\ pipe[s].total \in Nat /\ pipe[s].left \in Nat
       /\ pipe[s].room \in Nat /\ pipe[s].kept \in Nat
       /\ pipe[s].full \in 0..PipeSize /\ pipe[s].done \in BOOLEAN

CallTypes ==
  /\ gpc \in {"idle", "events", "ends", "clock", "judge", "wait", "join",
              "return", "returned"}
  /\ child \in {"none", "running", "exited", "dead"}
  /\ limit \in BOOLEAN /\ broken \in BOOLEAN /\ timedOut \in BOOLEAN
  /\ lingering \in BOOLEAN /\ truncated \in BOOLEAN

\* Nothing is lost between git and what is kept, as long as no cap cut it.
NothingLost ==
  \A s \in Streams :
    /\ limit = FALSE => pipe[s].kept + pipe[s].full + pipe[s].left = pipe[s].total
    /\ pipe[s].done = TRUE /\ limit = FALSE /\ broken = FALSE
         => pipe[s].full = 0 /\ child # "running"
    /\ child = "exited" /\ code = 0 => pipe[s].left = 0

\* How far the calling thread has come.
CallStage ==
  /\ gpc = "idle" => child = "none"
  /\ gpc \in {"events", "ends", "clock", "judge", "wait", "join", "return"}
       => child # "none"
  /\ gpc \in {"join", "return", "returned"} /\ rc = 0
       => child = "exited" /\ code = 0
  /\ gpc = "return" /\ lingering = FALSE
       => \A s \in Streams : pipe[s].done = TRUE
  /\ gpc = "returned" /\ rc = 0 /\ truncated = FALSE
       => /\ limit = FALSE /\ broken = FALSE
          /\ \A s \in Streams : pipe[s].done = TRUE

CallInv == PipeTypes /\ CallTypes /\ NothingLost /\ CallStage

\* What a step of a call in progress leaves alone.
Pending == /\ \A s \in Streams : pipe'[s].total = pipe[s].total
           /\ (gpc' = "idle") = (gpc = "idle")
           /\ (child' = "none") = (child = "none")

\* The readers' and git's own steps move units along the pipe.
LEMMA PipeKeeps ==
  ASSUME CallInv, NEW s \in Streams,
         Write(s) \/ Read(s) \/ ReadEnds(s) \/ ReadFails(s)
  PROVE  CallInv' /\ Pending
<1> USE GitAssumption DEF CallInv
<1>1. CASE Write(s)
  <2>1. PipeTypes'
    BY <1>1 DEF Write, PipeTypes, PipeFields, Streams, procVars, callVars
  <2>2. NothingLost'
    BY <1>1 DEF Write, PipeTypes, PipeFields, NothingLost, CallTypes, Streams, procVars,
                callVars
  <2>3. CallTypes' /\ CallStage' /\ Pending
    BY <1>1 DEF Write, PipeTypes, PipeFields, CallTypes, CallStage, Pending, Streams,
                procVars, callVars
  <2> QED BY <2>1, <2>2, <2>3
<1>2. CASE Read(s)
  <2>1. PICK n \in 1..Least(pipe[s].full, Least(Chunk, pipe[s].room + 1)) :
          LET keep == Least(n, pipe[s].room)
          IN /\ pipe' = [pipe EXCEPT ![s].full = @ - n, ![s].room = @ - keep,
                                     ![s].kept = @ + keep, ![s].done = n > keep]
             /\ limit' = (limit \/ n > keep)
    BY <1>2 DEF Read
  <2> DEFINE keep == Least(n, pipe[s].room)
  <2>2. /\ n \in Nat /\ n <= pipe[s].full
        /\ keep \in Nat /\ keep <= n /\ keep <= pipe[s].room
    BY DEF Least, PipeTypes
  <2>3. PICK b \in BOOLEAN :
          /\ pipe' = [pipe EXCEPT ![s].full = @ - n, ![s].room = @ - keep,
                                  ![s].kept = @ + keep, ![s].done = b]
          /\ b = FALSE => n = keep
          /\ b = TRUE => limit' = TRUE
          /\ b = FALSE => limit' = limit
    <3>1. CASE n > keep
      <4>1. (n > keep) = TRUE
        BY <3>1
      <4> QED BY <2>1, <4>1 DEF CallTypes
    <3>2. CASE ~(n > keep)
      <4>1. (n > keep) = FALSE /\ n = keep
        BY <3>2, <2>2
      <4> QED BY <2>1, <4>1 DEF CallTypes
    <3> QED BY <3>1, <3>2
  <2>4. UNCHANGED <<gpc, procVars, broken, callVars>> /\ ~pipe[s].done
    BY <1>2 DEF Read
  <2> HIDE DEF keep
  <2>5. /\ DOMAIN pipe' = Streams /\ pipe' = [t \in Streams |-> pipe'[t]]
        /\ \A t \in Streams \ {s} : pipe'[t] = pipe[t]
    BY <2>3 DEF PipeTypes
  <2>6. /\ DOMAIN pipe'[s] = PipeFields
        /\ pipe'[s].total = pipe[s].total /\ pipe'[s].left = pipe[s].left
        /\ pipe'[s].full = pipe[s].full - n /\ pipe'[s].room = pipe[s].room - keep
        /\ pipe'[s].kept = pipe[s].kept + keep /\ pipe'[s].done = b
    BY <2>3 DEF PipeTypes, PipeFields
  <2>7. PipeTypes'
    BY <2>2, <2>5, <2>6 DEF PipeTypes
  <2>8. NothingLost'
    BY <2>2, <2>3, <2>4, <2>5, <2>6 DEF PipeTypes, NothingLost, CallTypes, procVars
  <2>9. CallTypes'
    BY <2>3, <2>4 DEF CallTypes, procVars, callVars
  <2>10. CallStage'
    BY <2>3, <2>4, <2>5, <2>6 DEF CallStage, procVars, callVars
  <2>11. Pending
    BY <2>4, <2>5, <2>6 DEF Pending, procVars
  <2> QED BY <2>7, <2>8, <2>9, <2>10, <2>11
<1>3. CASE ReadEnds(s)
  <2>1. PipeTypes'
    BY <1>3 DEF ReadEnds, PipeTypes, PipeFields, Streams
  <2>2. NothingLost'
    BY <1>3 DEF ReadEnds, PipeTypes, PipeFields, NothingLost, CallTypes, Streams, procVars,
                callVars
  <2>3. CallTypes' /\ CallStage' /\ Pending
    BY <1>3 DEF ReadEnds, PipeTypes, PipeFields, CallTypes, CallStage, Pending, Streams,
                procVars, callVars
  <2> QED BY <2>1, <2>2, <2>3
<1>4. CASE ReadFails(s)
  <2>1. PipeTypes'
    BY <1>4 DEF ReadFails, PipeTypes, PipeFields, Streams
  <2>2. NothingLost'
    BY <1>4 DEF ReadFails, PipeTypes, PipeFields, NothingLost, CallTypes, Streams,
                procVars, callVars
  <2>3. CallTypes' /\ CallStage' /\ Pending
    BY <1>4 DEF ReadFails, PipeTypes, PipeFields, CallTypes, CallStage, Pending, Streams,
                procVars, callVars
  <2> QED BY <2>1, <2>2, <2>3
<1> QED BY <1>1, <1>2, <1>3, <1>4

\* The calling thread's steps, and the end of git, leave the pipes alone.
LEMMA CallerKeeps ==
  ASSUME CallInv, Exits \/ LetsGo \/ Calling
  PROVE  CallInv' /\ Pending
<1> USE DEF CallInv, PipeTypes, CallTypes, NothingLost, CallStage, Pending,
            procVars, callVars, Kill, BothDone
<1>1. CASE Exits \/ LetsGo
  BY <1>1 DEF Exits, LetsGo
<1>2. CASE LooksAtEvents \/ LooksAtEnds \/ WaitsOn \/ RunsOut
  BY <1>2 DEF LooksAtEvents, LooksAtEnds, WaitsOn, RunsOut
<1>3. CASE Judges
  BY <1>3 DEF Judges
<1>4. CASE Waits
  BY <1>4 DEF Waits
<1>5. CASE Joins
  BY <1>5 DEF Joins
<1>6. CASE Returns
  BY <1>6 DEF Returns
<1> QED BY <1>1, <1>2, <1>3, <1>4, <1>5, <1>6 DEF Calling

\* Every step of a call in progress keeps its invariant.
LEMMA GitKeeps ==
  ASSUME CallInv, GitStep
  PROVE  CallInv' /\ Pending
BY PipeKeeps, CallerKeeps DEF GitStep

\* A call that is over leaves nothing behind.
LEMMA ResetKeeps ==
  ASSUME GitReset
  PROVE  CallInv' /\ gpc' = "idle" /\ child' = "none"
<1>1. pipe' = [s \in Streams |-> Stream(0, 0)]
  BY DEF GitReset
<1>2. \A s \in Streams :
        /\ DOMAIN pipe'[s] = PipeFields
        /\ pipe'[s].total = 0 /\ pipe'[s].left = 0 /\ pipe'[s].full = 0
        /\ pipe'[s].room = 0 /\ pipe'[s].kept = 0 /\ pipe'[s].done = FALSE
  BY <1>1 DEF Stream, PipeFields
<1>3. PipeTypes'
  <2>1. DOMAIN pipe' = Streams /\ pipe' = [s \in Streams |-> pipe'[s]]
    BY <1>1
  <2>2. 0 \in 0..PipeSize /\ 0 \in Nat
    BY GitAssumption
  <2> QED BY <1>2, <2>1, <2>2 DEF PipeTypes
<1>4. CallTypes'
  BY DEF GitReset, CallTypes
<1>5. NothingLost'
  BY <1>2 DEF GitReset, NothingLost
<1>6. CallStage'
  BY <1>2 DEF GitReset, CallStage
<1> QED BY <1>3, <1>4, <1>5, <1>6 DEF CallInv, GitReset

\* A call begins with empty pipes, and all of git's output still to be written.
LEMMA BeginKeeps ==
  ASSUME NEW cap \in Nat, NEW n \in Nat, NEW err \in Nat, NEW c, NEW h,
         Begin(cap, n, err, c, h)
  PROVE  CallInv' /\ gpc' = "events" /\ pipe'["out"].total = n
<1>1. pipe' = [s \in Streams |-> IF s = "out" THEN Stream(n, cap)
                                              ELSE Stream(err, ErrCap)]
      /\ child' = "running" /\ gpc' = "events"
  BY DEF Begin
<1>2. PICK total \in [Streams -> Nat], cut \in [Streams -> Nat] :
        /\ total["out"] = n
        /\ pipe' = [s \in Streams |-> Stream(total[s], cut[s])]
  <2>1. [s \in Streams |-> IF s = "out" THEN n ELSE err] \in [Streams -> Nat]
        /\ [s \in Streams |-> IF s = "out" THEN cap ELSE ErrCap] \in [Streams -> Nat]
    BY GitAssumption
  <2> QED BY <1>1, <2>1 DEF Streams
<1>3. \A s \in Streams :
        /\ DOMAIN pipe'[s] = PipeFields
        /\ pipe'[s].total = total[s] /\ pipe'[s].left = total[s]
        /\ pipe'[s].full = 0 /\ pipe'[s].room = cut[s]
        /\ pipe'[s].kept = 0 /\ pipe'[s].done = FALSE
  BY <1>2 DEF Stream, PipeFields
<1>4. PipeTypes'
  <2>1. DOMAIN pipe' = Streams /\ pipe' = [s \in Streams |-> pipe'[s]]
    BY <1>2
  <2>2. 0 \in 0..PipeSize /\ 0 \in Nat
    BY GitAssumption
  <2> QED BY <1>3, <2>1, <2>2 DEF PipeTypes
<1>5. CallTypes'
  BY DEF Begin, CallTypes
<1>6. NothingLost'
  BY <1>1, <1>3 DEF NothingLost
<1>7. CallStage'
  BY <1>1 DEF Begin, CallStage
<1> QED BY <1>1, <1>2, <1>3, <1>4, <1>5, <1>6, <1>7 DEF CallInv, Streams

\* Where git cannot be started the call has failed already.
LEMMA CannotKeeps ==
  ASSUME CannotBegin
  PROVE  CallInv' /\ gpc' = "returned" /\ child' = "none"
<1>1. pipe' = [s \in Streams |-> Stream(0, 0)]
  BY DEF CannotBegin
<1>2. \A s \in Streams :
        /\ DOMAIN pipe'[s] = PipeFields
        /\ pipe'[s].total = 0 /\ pipe'[s].left = 0 /\ pipe'[s].full = 0
        /\ pipe'[s].room = 0 /\ pipe'[s].kept = 0 /\ pipe'[s].done = FALSE
  BY <1>1 DEF Stream, PipeFields
<1>3. PipeTypes'
  <2>1. DOMAIN pipe' = Streams /\ pipe' = [s \in Streams |-> pipe'[s]]
    BY <1>1
  <2>2. 0 \in 0..PipeSize /\ 0 \in Nat
    BY GitAssumption
  <2> QED BY <1>2, <2>1, <2>2 DEF PipeTypes
<1>4. CallTypes'
  BY DEF CannotBegin, CallTypes
<1>5. NothingLost'
  BY <1>2 DEF CannotBegin, NothingLost
<1>6. CallStage'
  BY <1>2 DEF CannotBegin, CallStage
<1> QED BY <1>3, <1>4, <1>5, <1>6 DEF CallInv, CannotBegin

\* An answered call has all of it.
LEMMA AnsweredIsWhole ==
  ASSUME CallInv, Answered
  PROVE  /\ Output = pipe["out"].total /\ child = "exited" /\ code = 0
         /\ Output \in Nat
BY DEF CallInv, PipeTypes, CallTypes, NothingLost, CallStage, Answered, Output, Streams

------------------------------------------------------------------------------
(* The files.                                                                *)

Early  == {"walk", "check", "read"}
Later  == {"root", "revs", "tree", "entry", "sum", "ended"}
Listed(f) == \A v \in Versions(f) :
               v.dir \notin scene.hidden /\ v.kind \notin {"absent", "policy"}

FileTypes ==
  /\ scene \in Scenes /\ pc \in Early \cup Later
  /\ DOMAIN files = Files /\ outcome \in [Files -> Outcomes \cup {"none"}]
  /\ todo \subseteq Files /\ touched \subseteq Files /\ hits \subseteq Files
  /\ at \in Files \cup {"none"} /\ (pc \in {"check", "read"} => at \in Files)

\* An untouched file is what it was, of a size that could be checked; an edited one
\* is where it was; of both what the read saw is told.
FileContents ==
  /\ \A f \in Files : files[f].size \in Nat /\ files[f].secret \in 0..files[f].size
  /\ pc = "read" /\ at \notin touched => files[at].size <= MaxBytes
  /\ \A f \in Files : f \notin touched => files[f] = scene.files[f]
  /\ \A f \in Files : files[f].dir = scene.files[f].dir
  /\ \A f \in Files :
       outcome[f] = "inspected" /\ (\A v \in Versions(f) : Shows(f, v)) => f \in hits

\* No listable file falls out between the walk's lists.
NoneForgotten ==
  /\ \A f \in Files :
       Listed(f) => \/ outcome[f] # "none" \/ f \in todo \/ files[f].dir \in dirs
                    \/ pc \in {"check", "read"} /\ f = at
  /\ pc \in Later => todo = {} /\ dirs = {}

FileInv == FileTypes /\ FileContents /\ NoneForgotten

\* The walk begins with every directory still to visit.
LEMMA FileInvInit ==
  ASSUME Init
  PROVE  FileInv
<1>1. WellMade(scene) /\ scene \in Scenes /\ files = scene.files
  BY ScanAssumption DEF Init
<1>2. FileTypes /\ NoneForgotten
  BY <1>1 DEF Init, FileTypes, NoneForgotten, Early, Later, Files, Listed, Versions, Outcomes
<1>3. FileContents
  BY <1>1 DEF Init, FileContents, WellMade, Files, Versions, Shows
<1> QED BY <1>2, <1>3 DEF FileInv

\* Every step of the walk keeps what is known of the files.
LEMMA FilesStep ==
  ASSUME FileInv, OverFiles
  PROVE  FileInv'
<1> USE DEF FileInv, FileTypes, Files, Outcomes
<1>1. ASSUME Walk PROVE FileInv'
  <2>1. FileTypes' /\ FileContents'
    BY <1>1 DEF Walk, FileContents, gitVars, Versions, Shows
  <2>2. NoneForgotten'
    BY <1>1 DEF Walk, NoneForgotten, Early, Later, Listed, Versions
  <2> QED BY <2>1, <2>2
<1>2. ASSUME NEW f \in Files, Take(f) PROVE FileInv'
  <2>1. FileTypes' /\ FileContents'
    BY <1>2 DEF Take, FileContents, Early, Later, Versions, Shows
  <2>2. NoneForgotten'
    BY <1>2 DEF Take, NoneForgotten, Early, Later, Listed, Versions
  <2> QED BY <2>1, <2>2
<1>3. ASSUME Check PROVE FileInv'
  <2>1. /\ pc = "check" /\ at \in Files
        /\ UNCHANGED <<scene, files, touched, dirs, todo, hits>>
    BY <1>3 DEF Check
  <2>2. \/ /\ outcome' \in {[outcome EXCEPT ![at] = o] :
                            o \in {"unsafe_symlink", "unreadable", "skipped_too_large"}}
           /\ pc' = "walk" /\ at' = "none"
        \/ /\ files[at].size <= MaxBytes /\ pc' = "read" /\ UNCHANGED <<outcome, at>>
    <3> HIDE DEF FileInv, FileTypes
    <3>1. FileContents BY DEF FileInv
    <3>2. CASE files[at].kind = "link"
      BY <1>3, <3>2 DEF Check, Tell
    <3>3. CASE files[at].kind = "absent"
      BY <1>3, <3>3 DEF Check, Tell
    <3>4. CASE files[at].kind \notin {"link", "absent"} /\ files[at].size > MaxBytes
      BY <1>3, <3>4 DEF Check, Tell
    <3>5. CASE files[at].kind \notin {"link", "absent"} /\ ~(files[at].size > MaxBytes)
      <4>1. pc' = "read" /\ UNCHANGED <<outcome, at>>
        BY <1>3, <3>5 DEF Check
      <4>2. files[at].size <= MaxBytes
        BY <2>1, <3>1, <3>5, ScanAssumption DEF FileContents
      <4> QED BY <4>1, <4>2
    <3> QED BY <3>2, <3>3, <3>4, <3>5
  <2>3. FileTypes' /\ FileContents'
    BY <2>1, <2>2 DEF FileContents, Early, Later, Versions, Shows
  <2>4. NoneForgotten'
    BY <2>1, <2>2 DEF NoneForgotten, Early, Later, Listed, Versions
  <2> QED BY <2>3, <2>4
<1>4. ASSUME Read1 PROVE FileInv'
  <2>1. /\ pc = "read" /\ at \in Files /\ pc' = "walk" /\ at' = "none"
        /\ UNCHANGED <<scene, files, touched, dirs, todo>>
    BY <1>4 DEF Read1, Tell
  <2>2. PICK o \in {"unreadable", "binary", "unsupported_encoding", "inspected"} :
          /\ outcome' = [outcome EXCEPT ![at] = o]
          /\ hits' \in {hits, hits \cup {at}}
          /\ o = "inspected" /\ files[at].secret # 0
               /\ files[at].secret <= MaxBytes + 1 => at \in hits'
    BY <1>4 DEF Read1, Tell, ReadCap
  <2>3. FileTypes'
    BY <2>1, <2>2 DEF Early, Later
  <2>4. at \notin touched => files[at].secret <= MaxBytes + 1
    BY <2>1, ScanAssumption DEF FileContents
  <2>5. FileContents'
    <3>1. \A f \in Files : outcome'[f] = "inspected"
              /\ (\A v \in Versions(f)' : Shows(f, v)') => f \in hits'
      <4> SUFFICES ASSUME NEW f \in Files, outcome'[f] = "inspected",
                          \A v \in Versions(f)' : Shows(f, v)'
                   PROVE  f \in hits'
        OBVIOUS
      <4>1. \A v \in Versions(f) : Shows(f, v)
        BY <2>1 DEF Versions, Shows
      <4>2. CASE f # at
        BY <2>1, <2>2, <4>1, <4>2 DEF FileContents
      <4>3. CASE f = at
        <5>1. Shows(at, files[at])
          BY <4>1, <4>3 DEF Versions
        <5>2. o = "inspected"
          BY <2>1, <2>2, <4>3
        <5>3. at \in hits'
          BY <2>1, <2>2, <2>4, <5>1, <5>2 DEF Shows
        <5> QED BY <4>3, <5>3
      <4> QED BY <4>2, <4>3
    <3>2. /\ \A f \in Files : files'[f].size \in Nat /\ files'[f].secret \in 0..files'[f].size
          /\ pc' # "read"
          /\ \A f \in Files : f \notin touched' => files'[f] = scene'.files[f]
          /\ \A f \in Files : files'[f].dir = scene'.files[f].dir
      BY <2>1 DEF FileContents
    <3> QED BY <2>1, <3>1, <3>2 DEF FileContents
  <2>6. NoneForgotten'
    BY <2>1, <2>2 DEF NoneForgotten, Early, Later, Listed, Versions
  <2> QED BY <2>3, <2>5, <2>6
<1>5. ASSUME Counted PROVE FileInv'
  BY <1>5 DEF Counted, fileVars, FileContents, NoneForgotten, Early, Later, Listed,
              Versions, Shows, Versions
<1> QED BY <1>1, <1>2, <1>3, <1>4, <1>5 DEF OverFiles

\* Somebody saves a file, in the same directory: what was promised of the contents
\* it had is promised of both.
LEMMA EditStep ==
  ASSUME FileInv, NEW f \in Files, Edit(f)
  PROVE  FileInv'
<1> USE DEF FileInv, FileTypes, Files, Outcomes
<1>1. PICK e \in scene.edits : files' = [files EXCEPT ![f] = e] /\ e.dir = files[f].dir
  BY DEF Edit
<1>2. e.size \in Nat /\ e.secret \in 0..e.size
  BY ScanAssumption DEF WellMade
<1>3. /\ touched' = touched \cup {f} /\ f \notin touched /\ pc \in Early
      /\ UNCHANGED <<scene, pc, dirs, todo, at, outcome, hits>>
  BY DEF Edit, Early
<1>4. FileTypes'
  BY <1>1, <1>3
<1>5. files[f] = scene.files[f]
  BY <1>3 DEF FileContents
<1>6. \A g \in Files : Versions(g) \subseteq Versions(g)'
  BY <1>1, <1>3, <1>5 DEF Versions
<1>7. FileContents'
  <2>1. \A g \in Files : \A v : Shows(g, v)' => Shows(g, v)
    BY <1>3 DEF Shows
  <2>2. \A g \in Files : outcome'[g] = "inspected"
            /\ (\A v \in Versions(g)' : Shows(g, v)') => g \in hits'
    BY <1>3, <1>6, <2>1 DEF FileContents
  <2>3. /\ \A g \in Files : files'[g].size \in Nat /\ files'[g].secret \in 0..files'[g].size
        /\ pc' = "read" /\ at' \notin touched' => files'[at'].size <= MaxBytes
        /\ \A g \in Files : g \notin touched' => files'[g] = scene'.files[g]
        /\ \A g \in Files : files'[g].dir = scene'.files[g].dir
    BY <1>1, <1>2, <1>3 DEF FileContents
  <2> QED BY <1>3, <2>2, <2>3 DEF FileContents
<1>8. NoneForgotten'
  <2>1. \A g \in Files : Listed(g)' => Listed(g)
    BY <1>3, <1>6 DEF Listed
  <2>2. \A g \in Files : files'[g].dir = files[g].dir
    BY <1>1
  <2> QED BY <1>3, <2>1, <2>2 DEF NoneForgotten, Early, Later
<1> QED BY <1>4, <1>7, <1>8

------------------------------------------------------------------------------
(* The history.                                                              *)

HistFields == {"complete", "revs", "commit", "entry", "entries", "commits",
               "considered", "bytes", "cache", "found"}
Listings   == Repo.commits

HistTypes ==
  /\ DOMAIN hist = HistFields
  /\ hist.complete \in BOOLEAN /\ hist.revs \in Seq(Nat)
  /\ hist.commit \in Nat /\ hist.entry \in Nat /\ hist.entries \in Nat
  /\ hist.commits \in Nat /\ hist.considered \in Nat /\ hist.bytes \in Nat

Budgets ==
  /\ hist.commits + Len(hist.revs) <= MaxCommits
  /\ hist.considered <= MaxFiles /\ hist.bytes <= MaxTotal
  /\ IsFiniteSet(hist.found) /\ Cardinality(hist.found) <= MaxFindings

\* Where the scan is: commits are taken in order, and so are entries.
Places ==
  /\ pc \in Early \cup {"root", "revs"} => hist = NoHistory
  /\ gpc # "idle" => pc \in {"root", "revs", "tree", "entry"}
  /\ hist.commits + Len(hist.revs) <= Len(Listings)
  /\ \A i \in 1..Len(hist.revs) : hist.revs[i] = hist.commits + i
  /\ pc = "tree" /\ gpc # "idle"
       => hist.commit = hist.commits /\ hist.commit \in 1..Len(Listings)
  /\ pc = "entry" => /\ hist.commit = hist.commits /\ hist.commit \in 1..Len(Listings)
                      /\ hist.entries = Len(Listings[hist.commit])
                      /\ hist.entry \in 1..hist.entries + 1

\* What the call in progress was asked for.
Asked ==
  /\ pc = "revs" /\ child # "none"
       => pipe["out"].total = Least(Len(Listings), MaxCommits + 1)
  /\ pc = "tree" /\ child # "none"
       => pipe["out"].total = Len(Listings[hist.commit])
  /\ pc = "entry" /\ gpc # "idle"
       => /\ hist.entry <= hist.entries /\ Eligible(Entry)
          /\ Blob(Entry).size <= MaxBytes
          /\ hist.bytes + Blob(Entry).size <= MaxTotal
          /\ child # "none" => pipe["out"].total = Blob(Entry).size

\* What is behind the scan has been reported, as long as it calls itself complete.
Shown(c, p) ==
  LET e == Listings[c][p]
  IN /\ e.what # "bad"
     /\ Eligible(e) => /\ Blob(e).kind = "text"
                       /\ \A k \in 1..Blob(e).hits : <<c, p, k>> \in hist.found

Behind(c, p) == \/ c < hist.commits
                \/ c = hist.commits /\ pc = "tree" /\ gpc = "idle"
                \/ c = hist.commits /\ pc = "entry" /\ p < hist.entry

AllShown == \A c \in 1..Len(Listings) : \A p \in 1..Len(Listings[c]) : Shown(c, p)

Reported ==
  hist.complete = TRUE =>
    /\ Repo.hash # "sha256" /\ pc \in {"tree", "entry"}
         => hist.commits + Len(hist.revs) = Len(Listings)
    /\ pc \in {"tree", "entry"} =>
         \A c \in 1..Len(Listings) : \A p \in 1..Len(Listings[c]) :
           Behind(c, p) => Shown(c, p)
    /\ Repo.hash # "sha256" /\ scene.history /\ pc \in {"sum", "ended"} => AllShown

HistInv == HistTypes /\ Budgets /\ Places /\ Asked /\ Reported

\* What a listing names.
LEMMA RepoIs ==
  ASSUME scene \in Scenes
  PROVE  /\ Len(Listings) \in Nat /\ DOMAIN Listings = 1..Len(Listings)
         /\ \A c \in 1..Len(Listings) :
              /\ Len(Listings[c]) \in Nat
              /\ DOMAIN Listings[c] = 1..Len(Listings[c])
              /\ \A p \in 1..Len(Listings[c]) :
                   /\ Blob(Listings[c][p]).size \in Nat
                   /\ Blob(Listings[c][p]).hits \in Nat
<1>1. WellMade(scene)
  BY ScanAssumption
<1> DEFINE Entries == [what : {"file", "link", "bad"}, blob : DOMAIN Repo.blobs]
<1>2. Listings \in Seq(Seq(Entries))
  BY <1>1 DEF WellMade, Listings, Repo
<1>3. \A c \in 1..Len(Listings) : Listings[c] \in Seq(Entries)
  BY <1>2
<1>4. \A c \in 1..Len(Listings) : \A p \in 1..Len(Listings[c]) :
        Listings[c][p].blob \in DOMAIN Repo.blobs
  <2>1. \A e \in Entries : e.blob \in DOMAIN Repo.blobs
    OBVIOUS
  <2> HIDE DEF Entries
  <2> QED BY <1>3, <2>1
<1> HIDE DEF Entries
<1>5. \A b \in DOMAIN Repo.blobs : Repo.blobs[b].size \in Nat /\ Repo.blobs[b].hits \in Nat
  BY <1>1 DEF WellMade, Repo
<1> QED BY <1>2, <1>3, <1>4, <1>5 DEF Blob

\* The history before it is scanned.
LEMMA NoHistoryIs ==
  /\ DOMAIN NoHistory = HistFields
  /\ NoHistory.complete = TRUE /\ NoHistory.revs = <<>> /\ NoHistory.commit = 0
  /\ NoHistory.entry = 0 /\ NoHistory.entries = 0 /\ NoHistory.commits = 0
  /\ NoHistory.considered = 0 /\ NoHistory.bytes = 0
  /\ NoHistory.cache = {} /\ NoHistory.found = {}
BY DEF NoHistory, HistFields

\* While the files are read, and before the first commit, the history is empty.
LEMMA EmptyHist ==
  ASSUME hist = NoHistory, scene \in Scenes
  PROVE  /\ HistTypes /\ Budgets
         /\ hist.commits + Len(hist.revs) <= Len(Listings)
         /\ \A i \in 1..Len(hist.revs) : hist.revs[i] = hist.commits + i
<1>1. HistTypes
  <2>1. hist.revs \in Seq(Nat)
    BY NoHistoryIs
  <2>2. hist.complete \in BOOLEAN
    BY NoHistoryIs
  <2>3. 0 \in Nat
    OBVIOUS
  <2> QED BY <2>1, <2>2, <2>3, NoHistoryIs DEF HistTypes
<1>2. Budgets
  BY NoHistoryIs, FS_EmptySet, ScanAssumption DEF Budgets
<1> QED BY <1>1, <1>2, NoHistoryIs, RepoIs

\* What has been shown stays shown.
LEMMA ShownStays ==
  ASSUME UNCHANGED scene, hist.found \subseteq hist'.found
  PROVE  \A c, p : Shown(c, p) => Shown(c, p)'
BY DEF Shown, Repo, Listings, Blob, Eligible

\* A step that touches neither the history nor the call.
LEMMA HistStays ==
  ASSUME HistInv, CallInv, UNCHANGED <<scene, hist, pc>>, Pending
  PROVE  HistInv'
<1> USE DEF HistInv, Repo, Listings, Entry, Blob
<1>1. HistTypes' /\ Budgets'
  BY DEF HistTypes, Budgets
<1>2. Places'
  BY DEF Places, Pending
<1>3. Asked'
  BY DEF Asked, Pending, Streams
<1>4. Reported'
  <2>1. Listings' = Listings /\ Repo' = Repo /\ scene' = scene
    OBVIOUS
  <2>2. \A c, p : Shown(c, p) => Shown(c, p)'
    BY ShownStays
  <2>3. \A c, p : Behind(c, p)' => Behind(c, p)
    BY DEF Pending, Behind
  <2> HIDE DEF Repo, Listings, Entry, Blob
  <2> QED BY <2>1, <2>2, <2>3 DEF Reported, AllShown
<1> QED BY <1>1, <1>2, <1>3, <1>4

\* Asking: the call is under way, or has failed already.
LEMMA AskKeeps ==
  ASSUME NEW what, NEW cap \in Nat, NEW n \in Nat, NEW c, Ask(what, cap, n, c)
  PROVE  /\ CallInv' /\ gpc = "idle" /\ gpc' # "idle" /\ pc = what
         /\ UNCHANGED <<scene, fileVars, pc, exitCode>>
         /\ child' # "none" => pipe'["out"].total = n
<1>1. ASSUME NEW e \in Errs, Begin(cap, n, e, c, FALSE)
      PROVE  CallInv' /\ gpc' = "events" /\ pipe'["out"].total = n /\ gpc = "idle"
  <2>1. e \in Nat
    BY ScanAssumption
  <2>2. gpc = "idle"
    BY <1>1 DEF Begin
  <2> QED BY <1>1, <2>1, <2>2, BeginKeeps
<1>2. ASSUME Begin(cap, n, 0, c, TRUE)
      PROVE  CallInv' /\ gpc' = "events" /\ pipe'["out"].total = n /\ gpc = "idle"
  <2>1. 0 \in Nat /\ gpc = "idle"
    BY <1>2 DEF Begin
  <2> QED BY <1>2, <2>1, BeginKeeps
<1>3. ASSUME CannotBegin
      PROVE  CallInv' /\ gpc' = "returned" /\ child' = "none" /\ gpc = "idle"
  <2>1. gpc = "idle"
    BY <1>3 DEF CannotBegin
  <2> QED BY <1>3, <2>1, CannotKeeps
<1>4. pc = what /\ UNCHANGED <<scene, fileVars, pc, exitCode>>
  BY DEF Ask
<1> QED BY <1>1, <1>2, <1>3, <1>4 DEF Ask

\* Using an answer: it is whole, and the call is over.
LEMMA UseKeeps ==
  ASSUME CallInv, NEW what, Uses(what)
  PROVE  /\ CallInv' /\ gpc' = "idle" /\ child' = "none" /\ pc = what
         /\ gpc # "idle" /\ child # "none" /\ Output = pipe["out"].total /\ Output \in Nat
         /\ UNCHANGED <<scene, fileVars, exitCode>>
BY ResetKeeps, AnsweredIsWhole DEF Uses, Answered

\* Giving up is said: what was not looked at counts against the scan.
LEMMA StopsShort ==
  ASSUME HistInv, UNCHANGED scene, pc' = "sum", gpc' = "idle", pc \notin Early,
         DOMAIN hist' = HistFields, hist'.complete = FALSE,
         hist'.revs = hist.revs, hist'.commit = hist.commit,
         hist'.entry = hist.entry, hist'.entries = hist.entries,
         hist'.commits = hist.commits, hist'.found = hist.found,
         hist'.considered \in Nat, hist'.considered <= MaxFiles,
         hist'.bytes = hist.bytes
  PROVE  HistInv'
<1>1. HistTypes' /\ Budgets'
  BY DEF HistInv, HistTypes, Budgets
<1>2. Places' /\ Asked' /\ Reported'
  BY DEF HistInv, Places, Asked, Reported, Repo, Listings, Early
<1> QED BY <1>1, <1>2 DEF HistInv

\* Looking for a repository.
LEMMA RootSteps ==
  ASSUME CallInv, HistInv, scene \in Scenes, AskRoot \/ UseRoot \/ OutsideRoot
  PROVE  CallInv' /\ HistInv'
<1>1. ASSUME AskRoot PROVE CallInv' /\ HistInv'
  <2>1. PICK n \in Nat : \E c : Ask("root", 1, n, c)
    BY <1>1 DEF AskRoot
  <2>2. CallInv' /\ pc = "root" /\ UNCHANGED <<scene, pc, hist>>
    BY <1>1, <2>1, AskKeeps DEF AskRoot
  <2>3. HistInv'
    BY <2>2 DEF HistInv, HistTypes, Budgets, Places, Asked, Reported, Repo, Listings, Early
  <2> QED BY <2>2, <2>3
<1>2. ASSUME UseRoot PROVE CallInv' /\ HistInv'
  <2>1. CallInv' /\ gpc' = "idle" /\ child' = "none" /\ pc = "root" /\ pc' = "revs"
        /\ UNCHANGED <<scene, hist>>
    BY <1>2, UseKeeps DEF UseRoot
  <2>2. HistInv'
    BY <2>1 DEF HistInv, HistTypes, Budgets, Places, Asked, Reported, Repo, Listings, Early
  <2> QED BY <2>1, <2>2
<1>3. ASSUME OutsideRoot PROVE CallInv' /\ HistInv'
  <2>1. CallInv' /\ gpc' = "idle" /\ pc = "root" /\ pc' = "sum" /\ UNCHANGED scene
    BY <1>3, UseKeeps DEF OutsideRoot
  <2>2. /\ DOMAIN hist' = HistFields /\ hist'.complete = FALSE
        /\ hist'.revs = hist.revs /\ hist'.commit = hist.commit
        /\ hist'.entry = hist.entry /\ hist'.entries = hist.entries
        /\ hist'.commits = hist.commits /\ hist'.found = hist.found
        /\ hist'.considered = hist.considered /\ hist'.bytes = hist.bytes
    BY <1>3 DEF OutsideRoot, HistInv, HistTypes, HistFields
  <2>3. hist.considered \in Nat /\ hist.considered <= MaxFiles
    BY DEF HistInv, HistTypes, Budgets
  <2> QED BY <2>1, <2>2, <2>3, StopsShort DEF Early
<1> QED BY <1>1, <1>2, <1>3

\* The commits: one more than the limit is asked for, so that a history that is
\* longer shows.
LEMMA RevsSteps ==
  ASSUME CallInv, HistInv, scene \in Scenes, AskRevs \/ UseRevs
  PROVE  CallInv' /\ HistInv'
<1>a. Len(Listings) \in Nat
  BY RepoIs
<1>1. ASSUME AskRevs PROVE CallInv' /\ HistInv'
  <2>1. RevCap \in Nat /\ Least(Len(Listings), MaxCommits + 1) \in Nat
    BY <1>a, ScanAssumption DEF RevCap, Width, Least
  <2>2. PICK n \in Nat : \E c : Ask("revs", RevCap, n, c)
                            /\ n = Least(Len(Listings), MaxCommits + 1)
    BY <1>1, <2>1 DEF AskRevs, Listings
  <2>3. /\ CallInv' /\ pc = "revs" /\ UNCHANGED <<scene, pc, hist>>
        /\ child' # "none" => pipe'["out"].total = n
    BY <1>1, <2>1, <2>2, AskKeeps DEF AskRevs
  <2>4. HistInv'
    BY <2>2, <2>3 DEF HistInv, HistTypes, Budgets, Places, Asked, Reported, Repo, Listings,
                      Early
  <2> QED BY <2>3, <2>4
<1>2. ASSUME UseRevs PROVE CallInv' /\ HistInv'
  <2>1. /\ CallInv' /\ gpc' = "idle" /\ child' = "none" /\ pc = "revs" /\ pc' = "tree"
        /\ scene' = scene /\ hist = NoHistory
        /\ Output = Least(Len(Listings), MaxCommits + 1)
    BY <1>2, UseKeeps DEF UseRevs, HistInv, Places, Asked
  <2>2. PICK n \in Nat : n = Least(Commits, MaxCommits)
    BY <2>1, <1>a, ScanAssumption DEF Commits, Least
  <2>3. /\ Commits \in Nat /\ Commits <= Len(Listings)
        /\ n <= MaxCommits /\ n <= Commits
        /\ Repo.hash # "sha256" /\ Commits <= MaxCommits => n = Len(Listings)
    BY <2>1, <2>2, <1>a, ScanAssumption DEF Commits, Least
  <2>4. PICK b \in BOOLEAN :
          /\ hist' = [hist EXCEPT !.revs = [i \in 1..n |-> i], !.complete = b]
          /\ b = TRUE => Commits <= MaxCommits
    <3>1. hist.complete = TRUE
      BY <2>1, NoHistoryIs
    <3>2. CASE Commits <= MaxCommits
      <4>1. (hist.complete /\ Commits <= MaxCommits) = TRUE
        BY <3>1, <3>2
      <4> QED BY <1>2, <2>2, <3>2, <4>1 DEF UseRevs
    <3>3. CASE ~(Commits <= MaxCommits)
      <4>1. (hist.complete /\ Commits <= MaxCommits) = FALSE
        BY <3>1, <3>3
      <4> QED BY <1>2, <2>2, <3>3, <4>1 DEF UseRevs
    <3> QED BY <3>2, <3>3
  <2>5. [i \in 1..n |-> i] \in Seq(Nat) /\ Len([i \in 1..n |-> i]) = n
    OBVIOUS
  <2>6. /\ DOMAIN hist' = HistFields /\ hist'.complete = b
        /\ hist'.revs = [i \in 1..n |-> i] /\ hist'.commit = 0 /\ hist'.entry = 0
        /\ hist'.entries = 0 /\ hist'.commits = 0 /\ hist'.considered = 0
        /\ hist'.bytes = 0 /\ hist'.found = {}
    BY <2>1, <2>4, NoHistoryIs DEF HistFields
  <2>7. HistTypes'
    BY <2>5, <2>6 DEF HistTypes
  <2>8. Budgets'
    BY <2>3, <2>5, <2>6, FS_EmptySet, ScanAssumption DEF Budgets
  <2>9. Places' /\ Asked'
    BY <2>1, <2>3, <2>5, <2>6 DEF Places, Asked, Repo, Listings, Early
  <2>10. Reported'
    BY <1>a, <2>1, <2>3, <2>4, <2>5, <2>6 DEF Reported, Repo, Listings, Behind
  <2> QED BY <2>1, <2>7, <2>8, <2>9, <2>10 DEF HistInv
<1> QED BY <1>1, <1>2

\* One commit after another.
LEMMA TreeSteps ==
  ASSUME CallInv, HistInv, scene \in Scenes,
         AskTree \/ UseTree \/ NoMoreTrees \/ EndOfTree
  PROVE  CallInv' /\ HistInv'
<1>a. /\ Len(Listings) \in Nat
      /\ \A c \in 1..Len(Listings) : Len(Listings[c]) \in Nat
  BY RepoIs
<1>b. /\ HistTypes /\ Budgets /\ Places /\ Asked /\ Reported
  BY DEF HistInv
<1>1. ASSUME AskTree PROVE CallInv' /\ HistInv'
  <2>1. hist.revs # <<>> /\ hist.revs \in Seq(Nat) /\ Len(hist.revs) \in Nat \ {0}
    BY <1>1, <1>b DEF AskTree, HistTypes
  <2>2. /\ Head(hist.revs) = hist.commits + 1
        /\ hist.commits + 1 \in 1..Len(Listings)
    <3>1. hist.commits \in Nat /\ 1 \in 1..Len(hist.revs)
      BY <1>b, <2>1 DEF HistTypes
    <3>2. hist.revs[1] = hist.commits + 1
      BY <1>b, <3>1 DEF Places
    <3>3. hist.commits + Len(hist.revs) <= Len(Listings)
      BY <1>b DEF Places
    <3>4. Head(hist.revs) = hist.revs[1]
      BY <2>1
    <3> QED BY <1>a, <2>1, <3>1, <3>2, <3>3, <3>4
  <2>3. PICK n \in Nat : n = Len(Listings[Head(hist.revs)])
    BY <1>a, <2>2
  <2>4. Ask("tree", TreeCap, n, 0)
    BY <1>1, <2>3 DEF AskTree, Listings
  <2>5. /\ CallInv' /\ gpc = "idle" /\ gpc' # "idle" /\ pc = "tree"
        /\ UNCHANGED <<scene, pc>>
        /\ child' # "none" => pipe'["out"].total = n
    BY <2>4, AskKeeps, ScanAssumption
  <2>6. /\ DOMAIN hist' = HistFields /\ hist'.complete = hist.complete
        /\ hist'.revs = Tail(hist.revs) /\ hist'.commit = hist.commits + 1
        /\ hist'.entry = hist.entry /\ hist'.entries = hist.entries
        /\ hist'.commits = hist.commits + 1 /\ hist'.considered = hist.considered
        /\ hist'.bytes = hist.bytes /\ hist'.found = hist.found
    BY <1>1, <1>b, <2>2 DEF AskTree, HistTypes, HistFields
  <2>7. /\ Tail(hist.revs) \in Seq(Nat) /\ Len(Tail(hist.revs)) = Len(hist.revs) - 1
        /\ \A i \in 1..Len(hist.revs) - 1 : Tail(hist.revs)[i] = hist.revs[i + 1]
    BY <2>1
  <2>8. HistTypes'
    BY <1>b, <2>6, <2>7 DEF HistTypes
  <2>9. Budgets'
    BY <1>b, <2>1, <2>6, <2>7, ScanAssumption DEF Budgets, HistTypes
  <2>a. Listings' = Listings /\ Repo' = Repo
    BY <2>5 DEF Repo, Listings
  <2>b. \A i \in 1..Len(hist'.revs) : hist'.revs[i] = hist'.commits + i
    <3>1. SUFFICES ASSUME NEW i \in 1..Len(hist.revs) - 1
                   PROVE  hist'.revs[i] = hist.commits + 1 + i
      BY <2>1, <2>6, <2>7
    <3>2. i + 1 \in 1..Len(hist.revs)
      BY <2>1
    <3>3. hist'.revs[i] = hist.revs[i + 1]
      BY <2>6, <2>7
    <3>4. hist.revs[i + 1] = hist.commits + (i + 1)
      BY <1>b, <3>2 DEF Places
    <3>5. hist.commits \in Nat /\ i \in Nat
      BY <1>b, <2>1 DEF HistTypes
    <3> QED BY <3>3, <3>4, <3>5
  <2>c. hist'.commits + Len(hist'.revs) = hist.commits + Len(hist.revs)
    BY <1>b, <2>1, <2>6, <2>7 DEF HistTypes
  <2>10. Places'
    BY <1>a, <1>b, <2>2, <2>5, <2>6, <2>a, <2>b, <2>c DEF Places, Early
  <2>11. Asked'
    BY <2>2, <2>3, <2>5, <2>6 DEF Asked, Repo, Listings
  <2>12. Reported'
    <3>1. \A c \in 1..Len(Listings) : \A p : Behind(c, p)' => Behind(c, p)
      BY <1>a, <1>b, <2>5, <2>6 DEF Behind, HistTypes
    <3>2. \A c, p : Shown(c, p) => Shown(c, p)'
      BY <2>5, <2>6, ShownStays
    <3> QED BY <1>b, <2>5, <2>6, <2>a, <2>c, <3>1, <3>2 DEF Reported
  <2> QED BY <2>5, <2>8, <2>9, <2>10, <2>11, <2>12 DEF HistInv
<1>2. ASSUME UseTree PROVE CallInv' /\ HistInv'
  <2>1. /\ CallInv' /\ gpc' = "idle" /\ child' = "none" /\ pc = "tree" /\ pc' = "entry"
        /\ scene' = scene /\ Output \in Nat
        /\ hist.commit = hist.commits /\ hist.commit \in 1..Len(Listings)
        /\ Output = Len(Listings[hist.commit])
    BY <1>2, <1>b, UseKeeps DEF UseTree, Places, Asked
  <2>2. /\ DOMAIN hist' = HistFields /\ hist'.complete = hist.complete
        /\ hist'.revs = hist.revs /\ hist'.commit = hist.commit
        /\ hist'.entry = 1 /\ hist'.entries = Output
        /\ hist'.commits = hist.commits /\ hist'.considered = hist.considered
        /\ hist'.bytes = hist.bytes /\ hist'.found = hist.found
    BY <1>2, <1>b DEF UseTree, HistTypes, HistFields
  <2>3. HistTypes' /\ Budgets'
    BY <1>b, <2>1, <2>2 DEF HistTypes, Budgets
  <2>4. Places' /\ Asked'
    BY <1>b, <2>1, <2>2 DEF Places, Asked, Repo, Listings, Early
  <2>5. Reported'
    BY <1>b, <2>1, <2>2 DEF Reported, Behind, Shown, Repo, Listings, Blob
  <2> QED BY <2>1, <2>3, <2>4, <2>5 DEF HistInv
<1>3. ASSUME NoMoreTrees PROVE CallInv' /\ HistInv'
  <2>1. /\ pc = "tree" /\ gpc = "idle" /\ hist.revs = <<>> /\ pc' = "sum"
        /\ UNCHANGED <<scene, hist, gitVars>>
    BY <1>3 DEF NoMoreTrees
  <2>2. CallInv'
    BY <2>1 DEF gitVars, CallInv, PipeTypes, CallTypes, NothingLost, CallStage
  <2>3. HistTypes' /\ Budgets' /\ Places' /\ Asked'
    BY <1>b, <2>1 DEF gitVars, HistTypes, Budgets, Places, Asked, Repo, Listings, Early
  <2>4. Reported'
    <3>1. hist.complete = TRUE /\ Repo.hash # "sha256" => AllShown
      BY <1>a, <1>b, <2>1 DEF Reported, Behind, AllShown, HistTypes
    <3> QED BY <2>1, <3>1 DEF Reported, AllShown, Shown, Repo, Listings, Blob
  <2> QED BY <2>2, <2>3, <2>4 DEF HistInv
<1>4. ASSUME EndOfTree PROVE CallInv' /\ HistInv'
  <2>1. /\ pc = "entry" /\ gpc = "idle" /\ hist.entry > hist.entries /\ pc' = "tree"
        /\ UNCHANGED <<scene, hist, gitVars>>
    BY <1>4 DEF EndOfTree
  <2>2. CallInv'
    BY <2>1 DEF gitVars, CallInv, PipeTypes, CallTypes, NothingLost, CallStage
  <2>3. HistTypes' /\ Budgets' /\ Places'
    BY <1>b, <2>1 DEF gitVars, HistTypes, Budgets, Places, Repo, Listings, Early
  <2>4. Asked'
    BY <2>1 DEF gitVars, Asked, CallInv, CallStage
  <2>5. Reported'
    <3>1. \A c \in 1..Len(Listings) : \A p \in 1..Len(Listings[c]) :
            Behind(c, p)' => Behind(c, p)
      BY <1>a, <1>b, <2>1 DEF Behind, Places, HistTypes
    <3>2. \A c, p : Shown(c, p) => Shown(c, p)'
      BY <2>1, ShownStays
    <3>3. Listings' = Listings /\ Repo' = Repo
      BY <2>1 DEF Repo, Listings
    <3> QED BY <1>b, <2>1, <3>1, <3>2, <3>3 DEF Reported
  <2> QED BY <2>2, <2>3, <2>4, <2>5 DEF HistInv
<1> QED BY <1>1, <1>2, <1>3, <1>4

\* A failed call ends the history scan, which says so.
LEMMA GivesUpStep ==
  ASSUME CallInv, HistInv, NEW what \in {"root", "revs", "tree", "entry"}, GivesUp(what)
  PROVE  CallInv' /\ HistInv'
<1>1. CallInv' /\ gpc' = "idle" /\ pc' = "sum" /\ pc = what /\ UNCHANGED scene
  BY ResetKeeps DEF GivesUp
<1>2. /\ DOMAIN hist' = HistFields /\ hist'.complete = FALSE
      /\ hist'.revs = hist.revs /\ hist'.commit = hist.commit
      /\ hist'.entry = hist.entry /\ hist'.entries = hist.entries
      /\ hist'.commits = hist.commits /\ hist'.found = hist.found
      /\ hist'.considered = hist.considered /\ hist'.bytes = hist.bytes
  BY DEF GivesUp, HistInv, HistTypes, HistFields
<1>3. hist.considered \in Nat /\ hist.considered <= MaxFiles
  BY DEF HistInv, HistTypes, Budgets
<1> QED BY <1>1, <1>2, <1>3, StopsShort DEF Early

\* The entry that is looked at is one of the listing.
LEMMA EntryIs ==
  ASSUME HistInv, scene \in Scenes, pc = "entry", hist.entry <= hist.entries
  PROVE  /\ hist.commit = hist.commits /\ hist.commit \in 1..Len(Listings)
         /\ hist.entries = Len(Listings[hist.commit]) /\ hist.entries \in Nat
         /\ hist.entry \in 1..Len(Listings[hist.commit])
         /\ Entry = Listings[hist.commit][hist.entry]
         /\ Blob(Entry).size \in Nat /\ Blob(Entry).hits \in Nat
BY RepoIs DEF HistInv, HistTypes, Places, Entry, Listings

\* An entry is done with: passed over, or shown, or counted against the scan.
LEMMA EntryDone ==
  ASSUME HistInv, scene \in Scenes, UNCHANGED scene, pc = "entry",
         hist.entry <= hist.entries, gpc' = "idle", child' = "none",
         pc' \in {"entry", "sum"}, DOMAIN hist' = HistFields,
         hist'.revs = hist.revs, hist'.commit = hist.commit,
         hist'.entry = hist.entry + 1, hist'.entries = hist.entries,
         hist'.commits = hist.commits,
         hist'.considered \in Nat, hist'.considered <= MaxFiles,
         hist'.bytes \in Nat, hist'.bytes <= MaxTotal,
         hist.found \subseteq hist'.found, IsFiniteSet(hist'.found),
         Cardinality(hist'.found) <= MaxFindings, hist'.complete \in BOOLEAN,
         NEW c0, NEW p0, c0 = hist.commit, p0 = hist.entry,
         hist'.complete = TRUE => /\ hist.complete = TRUE /\ pc' = "entry"
                                  /\ Shown(c0, p0)'
  PROVE  HistInv'
<1>a. /\ HistTypes /\ Budgets /\ Places /\ Reported
      /\ Listings' = Listings /\ Repo' = Repo
  BY DEF HistInv, Listings, Repo
<1>b. /\ hist.commit = hist.commits /\ hist.commit \in 1..Len(Listings)
      /\ hist.entry \in 1..hist.entries /\ hist.entries = Len(Listings[hist.commit])
      /\ hist.entries \in Nat
  BY EntryIs
<1>1. HistTypes'
  <2>1. hist.revs \in Seq(Nat) /\ hist.entry + 1 \in Nat
    BY <1>a DEF HistTypes
  <2> QED BY <1>a, <2>1 DEF HistTypes
<1>2. Budgets'
  BY <1>a DEF Budgets
<1>3. Places'
  BY <1>a, <1>b DEF Places, Early
<1>4. Asked'
  BY DEF Asked
<1>5. Reported'
  <2>1. \A c, p : Shown(c, p) => Shown(c, p)'
    BY ShownStays
  <2>2. ASSUME NEW c \in 1..Len(Listings), NEW p \in 1..Len(Listings[c]), Behind(c, p)',
               pc' = "entry"
        PROVE  Behind(c, p) \/ (c = c0 /\ p = p0)
    <3>1. hist.entry \in Nat /\ p \in Int
      BY <1>a, RepoIs DEF HistTypes
    <3> QED BY <1>b, <2>2, <3>1 DEF Behind
  <2>3. ASSUME hist'.complete = TRUE
        PROVE  /\ hist.complete = TRUE /\ pc' = "entry"
               /\ Shown(c0, p0)'
    BY <2>3
  <2> HIDE DEF Behind, Shown
  <2>4. ASSUME hist'.complete = TRUE, NEW c \in 1..Len(Listings),
               NEW p \in 1..Len(Listings[c]), Behind(c, p)'
        PROVE  Shown(c, p)'
    BY <1>a, <1>b, <2>1, <2>2, <2>3, <2>4 DEF Reported
  <2> QED BY <1>a, <2>3, <2>4 DEF Reported
<1> QED BY <1>1, <1>2, <1>3, <1>4, <1>5 DEF HistInv

\* A report is cut to the findings there is room for, and says so.
LEMMA NewFindings ==
  ASSUME NEW S, IsFiniteSet(S), NEW m \in Nat, Cardinality(S) + m <= MaxFindings,
         NEW new, NEW f \in Surjection(1..m, new)
  PROVE  IsFiniteSet(S \cup new) /\ Cardinality(S \cup new) <= MaxFindings
<1>2. IsFiniteSet(1..m) /\ Cardinality(1..m) = m
  BY FS_Interval
<1>3. IsFiniteSet(new) /\ Cardinality(new) <= m
  BY <1>2, FS_Surjection
<1>4. /\ IsFiniteSet(S \cup new)
      /\ Cardinality(S \cup new) = Cardinality(S) + Cardinality(new) - Cardinality(S \cap new)
  BY <1>3, FS_Union
<1>5. IsFiniteSet(S \cap new)
  BY FS_Subset
<1>6. /\ Cardinality(S) \in Nat /\ Cardinality(new) \in Nat
      /\ Cardinality(S \cap new) \in Nat
  BY <1>3, <1>5, FS_CardinalityType
<1>7. Cardinality(S \cup new) <= MaxFindings
  BY <1>3, <1>4, <1>6, ScanAssumption
<1> QED BY <1>4, <1>7

\* A report of a blob keeps the invariant, cut or not.
LEMMA ReportKeeps ==
  ASSUME HistInv, scene \in Scenes, UNCHANGED scene, pc = "entry", Eligible(Entry),
         hist.entry <= hist.entries, gpc' = "idle", child' = "none",
         NEW h, Report(h), DOMAIN h = HistFields,
         h.complete = hist.complete, h.revs = hist.revs, h.commit = hist.commit,
         h.entry = hist.entry, h.entries = hist.entries,
         h.commits = hist.commits, h.found = hist.found,
         h.considered \in Nat, h.considered <= MaxFiles,
         h.bytes \in Nat, h.bytes <= MaxTotal
  PROVE  HistInv'
<1> DEFINE b    == Blob(Entry)
           room == MaxFindings - Cardinality(hist.found)
           m    == Least(b.hits, room)
           new  == {<<h.commit, h.entry, k>> : k \in 1..m}
<1>a. HistTypes /\ Budgets
  BY DEF HistInv
<1>1. /\ IsFiniteSet(hist.found) /\ Cardinality(hist.found) \in Nat
      /\ room \in Nat /\ m \in Nat /\ Cardinality(hist.found) + m <= MaxFindings
      /\ Cardinality(hist.found) <= MaxFindings
      /\ b.hits \in Nat /\ (b.hits <= room => m = b.hits)
  <2>1. b.hits \in Nat
    BY EntryIs
  <2>2. IsFiniteSet(hist.found) /\ Cardinality(hist.found) <= MaxFindings
    BY <1>a DEF Budgets
  <2>3. Cardinality(hist.found) \in Nat
    BY <2>2, FS_CardinalityType
  <2> HIDE DEF b
  <2> QED BY <2>1, <2>2, <2>3, ScanAssumption DEF Least
<1>2. CASE b.kind # "text"
  <2>1. hist' = [h EXCEPT !.complete = FALSE, !.entry = @ + 1] /\ pc' = "entry"
    BY <1>2 DEF Report
  <2>2. /\ DOMAIN hist' = HistFields /\ hist'.complete = FALSE
        /\ hist'.revs = hist.revs /\ hist'.commit = hist.commit
        /\ hist'.entry = hist.entry + 1 /\ hist'.entries = hist.entries
        /\ hist'.commits = hist.commits /\ hist'.considered = h.considered
        /\ hist'.bytes = h.bytes /\ hist'.found = hist.found
    BY <2>1 DEF HistFields
  <2>3. hist.found \subseteq hist'.found /\ hist'.complete \in BOOLEAN
    BY <2>2
  <2>4. PICK c0, p0 : c0 = hist.commit /\ p0 = hist.entry
    OBVIOUS
  <2>5. hist'.complete # TRUE
    BY <2>2
  <2> HIDE DEF new, m, room, b
  <2> QED BY <1>1, <2>1, <2>2, <2>3, <2>4, <2>5, EntryDone
<1>3. CASE b.kind = "text"
  <2>1. PICK all \in BOOLEAN :
          /\ hist' = [h EXCEPT !.found = @ \cup new, !.entry = @ + 1, !.complete = all]
          /\ all = TRUE => /\ hist.complete = TRUE /\ b.hits <= room /\ pc' = "entry"
          /\ pc' \in {"entry", "sum"}
    <3>1. /\ hist' = [h EXCEPT !.found = @ \cup new, !.entry = @ + 1,
                               !.complete = @ /\ b.hits <= room]
          /\ pc' = IF b.hits <= room THEN "entry" ELSE "sum"
      BY <1>3 DEF Report
    <3>2. h.complete \in BOOLEAN
      BY <1>a DEF HistTypes
    <3>3. CASE h.complete = TRUE /\ b.hits <= room
      <4>1. (h.complete /\ b.hits <= room) = TRUE
        BY <3>3
      <4>2. hist' = [h EXCEPT !.found = @ \cup new, !.entry = @ + 1, !.complete = TRUE]
        BY <3>1, <4>1
      <4> QED BY <3>1, <3>3, <4>2
    <3>4. CASE ~(h.complete = TRUE /\ b.hits <= room)
      <4>1. (h.complete /\ b.hits <= room) = FALSE
        BY <3>2, <3>4
      <4>2. hist' = [h EXCEPT !.found = @ \cup new, !.entry = @ + 1, !.complete = FALSE]
        BY <3>1, <4>1
      <4> QED BY <3>1, <4>2
    <3> QED BY <3>3, <3>4
  <2>2. /\ DOMAIN hist' = HistFields /\ hist'.complete = all
        /\ hist'.revs = hist.revs /\ hist'.commit = hist.commit
        /\ hist'.entry = hist.entry + 1 /\ hist'.entries = hist.entries
        /\ hist'.commits = hist.commits /\ hist'.considered = h.considered
        /\ hist'.bytes = h.bytes /\ hist'.found = hist.found \cup new
    BY <2>1 DEF HistFields
  <2>3. IsFiniteSet(hist'.found) /\ Cardinality(hist'.found) <= MaxFindings
    <3>1. PICK n \in Nat : n = m
      BY <1>1
    <3>2. PICK N : N = new
      OBVIOUS
    <3>3. PICK F : F = hist.found
      OBVIOUS
    <3>4. PICK c, p : c = h.commit /\ p = h.entry
      OBVIOUS
    <3>5. [k \in 1..n |-> <<c, p, k>>] \in Surjection(1..n, N)
      BY <3>1, <3>2, <3>4 DEF Surjection
    <3>6. IsFiniteSet(F) /\ Cardinality(F) + n <= MaxFindings
      BY <1>1, <3>1, <3>3
    <3>7. IsFiniteSet(F \cup N) /\ Cardinality(F \cup N) <= MaxFindings
      BY <3>5, <3>6, NewFindings
    <3> QED BY <2>2, <3>2, <3>3, <3>7
  <2>4. PICK c0, p0 : c0 = hist.commit /\ p0 = hist.entry
    OBVIOUS
  <2>5. ASSUME all = TRUE PROVE Shown(c0, p0)'
    <3>1. Entry = Listings[c0][p0]
      BY <2>4, EntryIs
    <3>2. Listings' = Listings /\ Repo' = Repo
      BY DEF Listings, Repo
    <3>3. h.commit = c0 /\ h.entry = p0 /\ b.hits = m
      BY <1>1, <2>1, <2>4, <2>5
    <3>4. \A k \in 1..b.hits : <<c0, p0, k>> \in hist'.found
      BY <2>2, <3>3
    <3>5. Entry.what # "bad"
      BY DEF Eligible
    <3> QED BY <1>3, <3>1, <3>2, <3>4, <3>5 DEF Shown, Blob
  <2>6. hist.found \subseteq hist'.found /\ hist'.complete \in BOOLEAN
    BY <2>2
  <2> HIDE DEF new, m, room, b
  <2> QED BY <1>1, <2>1, <2>2, <2>3, <2>4, <2>5, <2>6, EntryDone
<1> QED BY <1>2, <1>3

\* An entry that counts against the limit of files.
LEMMA ConsideredIs ==
  ASSUME HistInv, hist.considered < MaxFiles, NEW h, h = Considered
  PROVE  /\ DOMAIN h = HistFields /\ h.considered = hist.considered + 1
         /\ h.considered \in Nat /\ h.considered <= MaxFiles
         /\ h.complete = hist.complete /\ h.revs = hist.revs
         /\ h.commit = hist.commit /\ h.entry = hist.entry
         /\ h.entries = hist.entries /\ h.commits = hist.commits
         /\ h.bytes = hist.bytes /\ h.found = hist.found
         /\ h.bytes \in Nat /\ h.bytes <= MaxTotal
<1>1. HistTypes /\ Budgets
  BY DEF HistInv
<1>2. hist.considered + 1 \in Nat /\ hist.considered + 1 <= MaxFiles
  BY <1>1, ScanAssumption DEF HistTypes
<1> QED BY <1>1, <1>2 DEF Considered, HistTypes, Budgets, HistFields

\* An entry that git need not be asked about.
LEMMA EntrySteps ==
  ASSUME CallInv, HistInv, scene \in Scenes,
         \/ PassesOver \/ Unparseable \/ FileCapReached
         \/ TooLarge \/ FromCache \/ TotalCapReached
  PROVE  CallInv' /\ HistInv'
<1>a. /\ pc = "entry" /\ gpc = "idle" /\ hist.entry <= hist.entries
      /\ UNCHANGED <<scene, gitVars>>
  BY DEF PassesOver, Unparseable, FileCapReached, TooLarge, FromCache, TotalCapReached,
         Unread, MayConsider, AtEntry
<1>b. CallInv' /\ gpc' = "idle" /\ child' = "none"
  BY <1>a DEF gitVars, CallInv, PipeTypes, CallTypes, NothingLost, CallStage
<1>c. HistTypes /\ Budgets
  BY DEF HistInv
<1>d. PICK c0, p0 : c0 = hist.commit /\ p0 = hist.entry
  OBVIOUS
<1>1. ASSUME PassesOver PROVE HistInv'
  <2>1. /\ DOMAIN hist' = HistFields /\ hist'.complete = hist.complete
        /\ hist'.revs = hist.revs /\ hist'.commit = hist.commit
        /\ hist'.entry = hist.entry + 1 /\ hist'.entries = hist.entries
        /\ hist'.commits = hist.commits /\ hist'.considered = hist.considered
        /\ hist'.bytes = hist.bytes /\ hist'.found = hist.found /\ pc' = "entry"
    BY <1>1, <1>a, <1>c DEF PassesOver, HistTypes, HistFields
  <2>2. Listings[c0][p0].what = "link"
    BY <1>1, <1>a, <1>d, EntryIs DEF PassesOver
  <2>3. Shown(c0, p0)'
    BY <1>a, <2>2 DEF Shown, Listings, Repo, Eligible
  <2>4. /\ hist'.considered \in Nat /\ hist'.considered <= MaxFiles
        /\ hist'.bytes \in Nat /\ hist'.bytes <= MaxTotal
        /\ IsFiniteSet(hist'.found) /\ Cardinality(hist'.found) <= MaxFindings
        /\ hist'.complete \in BOOLEAN /\ hist.found \subseteq hist'.found
    BY <1>c, <2>1 DEF HistTypes, Budgets
  <2> QED BY <1>a, <1>b, <1>d, <2>1, <2>3, <2>4, EntryDone
<1>2. ASSUME Unparseable \/ FileCapReached PROVE HistInv'
  <2>1. /\ DOMAIN hist' = HistFields /\ hist'.complete = FALSE
        /\ hist'.revs = hist.revs /\ hist'.commit = hist.commit
        /\ hist'.entry = hist.entry /\ hist'.entries = hist.entries
        /\ hist'.commits = hist.commits /\ hist'.considered = hist.considered
        /\ hist'.bytes = hist.bytes /\ hist'.found = hist.found /\ pc' = "sum"
    BY <1>2, <1>c DEF Unparseable, FileCapReached, HistTypes, HistFields
  <2>2. hist.considered \in Nat /\ hist.considered <= MaxFiles
    BY <1>c DEF HistTypes, Budgets
  <2> QED BY <1>a, <1>b, <2>1, <2>2, StopsShort DEF Early
<1>3. ASSUME TooLarge PROVE HistInv'
  <2>1. PICK h : h = Considered
    OBVIOUS
  <2>2. /\ hist.considered < MaxFiles /\ pc' = pc
        /\ hist' = [h EXCEPT !.complete = FALSE, !.entry = @ + 1]
    BY <1>3, <2>1 DEF TooLarge, MayConsider
  <2>3. /\ DOMAIN h = HistFields /\ h.considered \in Nat /\ h.considered <= MaxFiles
        /\ h.revs = hist.revs /\ h.commit = hist.commit /\ h.entry = hist.entry
        /\ h.entries = hist.entries /\ h.commits = hist.commits
        /\ h.bytes = hist.bytes /\ h.found = hist.found
        /\ h.bytes \in Nat /\ h.bytes <= MaxTotal
    BY <2>1, <2>2, ConsideredIs
  <2>4. /\ DOMAIN hist' = HistFields /\ hist'.complete = FALSE
        /\ hist'.revs = hist.revs /\ hist'.commit = hist.commit
        /\ hist'.entry = hist.entry + 1 /\ hist'.entries = hist.entries
        /\ hist'.commits = hist.commits /\ hist'.considered = h.considered
        /\ hist'.bytes = h.bytes /\ hist'.found = hist.found
    BY <2>2, <2>3 DEF HistFields
  <2>5. /\ IsFiniteSet(hist'.found) /\ Cardinality(hist'.found) <= MaxFindings
        /\ hist.found \subseteq hist'.found
    BY <1>c, <2>4 DEF Budgets
  <2>6. hist'.complete \in BOOLEAN /\ hist'.complete # TRUE
    BY <2>4
  <2> QED BY <1>a, <1>b, <1>d, <2>2, <2>3, <2>4, <2>5, <2>6, EntryDone
<1>4. ASSUME FromCache PROVE HistInv'
  <2>1. PICK h : h = Considered
    OBVIOUS
  <2>2. hist.considered < MaxFiles /\ Eligible(Entry) /\ Report(h)
    BY <1>4, <2>1 DEF FromCache, MayConsider
  <2> QED BY <1>a, <1>b, <2>1, <2>2, ConsideredIs, ReportKeeps
<1>5. ASSUME TotalCapReached PROVE HistInv'
  <2>1. PICK h : h = Considered
    OBVIOUS
  <2>2. /\ hist.considered < MaxFiles /\ pc' = "sum"
        /\ hist' = [h EXCEPT !.complete = FALSE]
    BY <1>5, <2>1 DEF TotalCapReached, Unread, MayConsider
  <2>3. /\ DOMAIN h = HistFields /\ h.considered \in Nat /\ h.considered <= MaxFiles
        /\ h.revs = hist.revs /\ h.commit = hist.commit /\ h.entry = hist.entry
        /\ h.entries = hist.entries /\ h.commits = hist.commits
        /\ h.bytes = hist.bytes /\ h.found = hist.found
    BY <2>1, <2>2, ConsideredIs
  <2>4. /\ DOMAIN hist' = HistFields /\ hist'.complete = FALSE
        /\ hist'.revs = hist.revs /\ hist'.commit = hist.commit
        /\ hist'.entry = hist.entry /\ hist'.entries = hist.entries
        /\ hist'.commits = hist.commits /\ hist'.considered = h.considered
        /\ hist'.bytes = hist.bytes /\ hist'.found = hist.found
    BY <2>2, <2>3 DEF HistFields
  <2> QED BY <1>a, <1>b, <2>2, <2>3, <2>4, StopsShort DEF Early
<1> QED BY <1>b, <1>1, <1>2, <1>3, <1>4, <1>5

\* A blob is asked for when there is room for it, and is used when it is whole.
LEMMA BlobSteps ==
  ASSUME CallInv, HistInv, scene \in Scenes, AskBlob \/ UseBlob
  PROVE  CallInv' /\ HistInv'
<1>a. HistTypes /\ Budgets /\ Places /\ Reported
  BY DEF HistInv
<1>1. ASSUME AskBlob PROVE CallInv' /\ HistInv'
  <2>1. /\ pc = "entry" /\ gpc = "idle" /\ hist.entry <= hist.entries
        /\ Eligible(Entry) /\ hist.considered < MaxFiles
        /\ Blob(Entry).size <= MaxBytes
        /\ hist.bytes + Blob(Entry).size <= MaxTotal
        /\ hist' = Considered
        /\ Ask("entry", MaxBytes, Blob(Entry).size, 0)
    BY <1>1 DEF AskBlob
  <2>2. PICK n \in Nat : n = Blob(Entry).size
    BY <2>1, EntryIs
  <2>3. /\ CallInv' /\ gpc' # "idle" /\ UNCHANGED <<scene, pc>>
        /\ child' # "none" => pipe'["out"].total = n
    <3>1. Ask("entry", MaxBytes, n, 0) /\ MaxBytes \in Nat
      BY <2>1, <2>2, ScanAssumption
    <3> QED BY <3>1, AskKeeps
  <2>4. PICK h : h = Considered
    OBVIOUS
  <2>5. /\ DOMAIN hist' = HistFields /\ hist'.considered \in Nat
        /\ hist'.considered <= MaxFiles
        /\ hist'.complete = hist.complete /\ hist'.revs = hist.revs
        /\ hist'.commit = hist.commit /\ hist'.entry = hist.entry
        /\ hist'.entries = hist.entries /\ hist'.commits = hist.commits
        /\ hist'.bytes = hist.bytes /\ hist'.found = hist.found
    BY <2>1, <2>4, ConsideredIs
  <2>6. Listings' = Listings /\ Repo' = Repo
    BY <2>3 DEF Listings, Repo
  <2>7. HistTypes' /\ Budgets'
    BY <1>a, <2>5 DEF HistTypes, Budgets
  <2>8. Places'
    BY <1>a, <2>1, <2>3, <2>5, <2>6 DEF Places, Early
  <2>9. Asked'
    <3>1. Entry' = Entry /\ Blob(Entry)' = Blob(Entry) /\ Eligible(Entry)' = Eligible(Entry)
      BY <2>3, <2>5 DEF Entry, Blob, Repo, Eligible
    <3> QED BY <2>1, <2>2, <2>3, <2>5, <3>1 DEF Asked
  <2>10. Reported'
    <3>1. \A c, p : Behind(c, p)' => Behind(c, p)
      BY <2>1, <2>3, <2>5 DEF Behind
    <3>2. \A c, p : Shown(c, p) => Shown(c, p)'
      BY <2>3, <2>5, ShownStays
    <3> QED BY <1>a, <2>1, <2>3, <2>5, <2>6, <3>1, <3>2 DEF Reported
  <2> QED BY <2>3, <2>7, <2>8, <2>9, <2>10 DEF HistInv
<1>2. ASSUME UseBlob PROVE CallInv' /\ HistInv'
  <2>1. /\ CallInv' /\ gpc' = "idle" /\ child' = "none" /\ pc = "entry"
        /\ gpc # "idle" /\ child # "none" /\ UNCHANGED scene
        /\ Output = pipe["out"].total /\ Output \in Nat
    BY <1>2, UseKeeps DEF UseBlob
  <2>2. /\ hist.entry <= hist.entries /\ Eligible(Entry) /\ Output = Blob(Entry).size
        /\ hist.bytes + Output <= MaxTotal
    BY <2>1 DEF HistInv, Asked
  <2>3. PICK h : h = [hist EXCEPT !.bytes = @ + Output, !.cache = @ \cup {Entry.blob}]
    OBVIOUS
  <2>4. Report(h)
    BY <1>2, <2>2, <2>3 DEF UseBlob
  <2>5. /\ DOMAIN h = HistFields /\ h.complete = hist.complete /\ h.revs = hist.revs
        /\ h.commit = hist.commit /\ h.entry = hist.entry /\ h.entries = hist.entries
        /\ h.commits = hist.commits /\ h.found = hist.found
        /\ h.considered = hist.considered /\ h.bytes = hist.bytes + Output
    BY <1>a, <2>3 DEF HistTypes, HistFields
  <2>6. /\ h.considered \in Nat /\ h.considered <= MaxFiles
        /\ h.bytes \in Nat /\ h.bytes <= MaxTotal
    BY <1>a, <2>1, <2>2, <2>5 DEF HistTypes, Budgets
  <2> QED BY <2>1, <2>2, <2>4, <2>5, <2>6, ReportKeeps
<1> QED BY <1>1, <1>2

------------------------------------------------------------------------------
(* The exit code, and all of it together.                                    *)

ExitInv == /\ exitCode \in {0, 1, 3, 9} /\ (pc # "ended" => exitCode = 9)
           /\ exitCode \in {0, 1} => FilesComplete /\ hist.complete = TRUE

ScanInv == CallInv /\ FileInv /\ HistInv /\ ExitInv

\* Neither the history nor the sums move a file.
LEMMA FilesStay ==
  ASSUME FileInv, UNCHANGED <<scene, fileVars>>,
         (pc \in Later /\ pc' \in Later) \/ pc' = pc
  PROVE  FileInv'
BY DEF FileInv, FileTypes, FileContents, NoneForgotten, fileVars, Files, Listed, Versions,
   Shows, Early, Later

\* Nor do files and sums move the call or the history.
LEMMA CallStays ==
  ASSUME CallInv, UNCHANGED gitVars
  PROVE  CallInv'
BY DEF gitVars, CallInv, PipeTypes, CallTypes, NothingLost, CallStage

\* While the files are read the history is empty.
LEMMA HistWaits ==
  ASSUME HistInv, CallInv, scene \in Scenes, UNCHANGED <<scene, hist, gitVars>>,
         pc \in Early, pc' \in Early \cup {"root", "sum"},
         pc' = "sum" => ~scene.history
  PROVE  HistInv'
<1>1. hist = NoHistory /\ gpc = "idle" /\ child = "none"
  BY DEF HistInv, Places, CallInv, CallStage, Early
<1>2. HistTypes' /\ Budgets'
  BY DEF HistInv, HistTypes, Budgets
<1>3. Places'
  BY <1>1 DEF HistInv, Places, gitVars, Repo, Listings, Early
<1>4. Asked' /\ Reported'
  BY <1>1 DEF Asked, Reported, gitVars, Early
<1> QED BY <1>2, <1>3, <1>4 DEF HistInv

\* The scan begins with nothing read.
LEMMA ScanInvInit ==
  ASSUME Init
  PROVE  ScanInv
<1>1. scene \in Scenes /\ pc = "walk" /\ hist = NoHistory /\ exitCode = 9 /\ GitInit
  BY DEF Init
<1>2. CallInv
  <2>1. gpc = "idle" /\ child = "none" /\ pipe = [s \in Streams |-> Stream(0, 0)]
    BY <1>1 DEF GitInit
  <2>2. \A s \in Streams :
          /\ DOMAIN pipe[s] = PipeFields
          /\ pipe[s].total = 0 /\ pipe[s].left = 0 /\ pipe[s].full = 0
          /\ pipe[s].room = 0 /\ pipe[s].kept = 0 /\ pipe[s].done = FALSE
    BY <2>1 DEF Stream, PipeFields
  <2>3. PipeTypes
    <3>1. DOMAIN pipe = Streams /\ pipe = [s \in Streams |-> pipe[s]]
      BY <2>1
    <3>2. 0 \in 0..PipeSize /\ 0 \in Nat
      BY GitAssumption
    <3> QED BY <2>2, <3>1, <3>2 DEF PipeTypes
  <2>4. CallTypes
    BY <1>1 DEF GitInit, CallTypes
  <2>5. NothingLost
    BY <2>1, <2>2 DEF NothingLost
  <2>6. CallStage
    BY <2>1 DEF CallStage
  <2> QED BY <2>3, <2>4, <2>5, <2>6 DEF CallInv
<1>3. HistInv
  <2>1. gpc = "idle"
    BY <1>1 DEF GitInit
  <2>2. Places
    BY <1>1, <2>1, EmptyHist DEF Places, Early
  <2>3. Asked /\ Reported
    BY <1>1 DEF Asked, Reported
  <2> QED BY <1>1, <2>2, <2>3, EmptyHist DEF HistInv
<1>4. ExitInv
  BY <1>1 DEF ExitInv
<1> QED BY <1>2, <1>3, <1>4, FileInvInit DEF ScanInv

\* Every step of the scanner, of git and of the editor keeps the invariant.
LEMMA ScanInvNext ==
  ASSUME ScanInv, [Next]_vars
  PROVE  ScanInv'
<1>a. CallInv /\ FileInv /\ HistInv /\ ExitInv /\ scene \in Scenes
  BY DEF ScanInv, FileInv, FileTypes
<1>1. ASSUME OverFiles PROVE ScanInv'
  <2>1. /\ UNCHANGED <<scene, hist, gitVars, exitCode>> /\ pc \in Early
        /\ pc' \in Early \cup {"root", "sum"} /\ (pc' = "sum" => ~scene.history)
    <3>1. ASSUME Check
          PROVE  /\ UNCHANGED <<scene, hist, gitVars, exitCode>> /\ pc = "check"
                 /\ pc' \in {"walk", "read"}
      BY <3>1 DEF Check, Tell
    <3>2. ASSUME Walk \/ (\E f \in Files : Take(f)) \/ Read1
          PROVE  /\ UNCHANGED <<scene, hist, gitVars, exitCode>> /\ pc \in Early
                 /\ pc' \in Early
      BY <3>2 DEF Walk, Take, Read1, Tell, Early
    <3>3. ASSUME Counted
          PROVE  /\ UNCHANGED <<scene, hist, gitVars, exitCode>> /\ pc \in Early
                 /\ pc' \in {"root", "sum"} /\ (pc' = "sum" => ~scene.history)
      BY <3>3 DEF Counted, Early
    <3> QED BY <1>1, <3>1, <3>2, <3>3 DEF OverFiles, Early
  <2>2. CallInv' /\ HistInv'
    BY <1>a, <2>1, CallStays, HistWaits
  <2>3. ExitInv'
    BY <1>a, <2>1 DEF ExitInv, Early
  <2> QED BY <1>1, <1>a, <2>2, <2>3, FilesStep DEF ScanInv
<1>2. ASSUME NEW f \in Files, Edit(f) PROVE ScanInv'
  <2>1. UNCHANGED <<scene, pc, hist, gitVars, exitCode>> /\ pc \in Early
    BY <1>2 DEF Edit, Early
  <2>2. CallInv' /\ HistInv'
    BY <1>a, <2>1, CallStays, HistWaits DEF Early
  <2>3. ExitInv'
    BY <1>a, <2>1 DEF ExitInv, Early
  <2> QED BY <1>2, <1>a, <2>2, <2>3, EditStep DEF ScanInv
<1>3. ASSUME OverHistory PROVE ScanInv'
  <2>1. CallInv' /\ HistInv'
    BY <1>3, <1>a, RootSteps, RevsSteps, TreeSteps, EntrySteps, BlobSteps, GivesUpStep
       DEF OverHistory
  <2>2. UNCHANGED <<scene, fileVars, exitCode>> /\ pc \in Later \ {"ended"} /\ pc' \in Later
    <3>1. ASSUME AskRoot \/ AskRevs \/ AskTree \/ AskBlob
          PROVE  /\ UNCHANGED <<scene, fileVars, exitCode>> /\ pc' = pc
                 /\ pc \in {"root", "revs", "tree", "entry"}
      BY <3>1 DEF AskRoot, AskRevs, AskTree, AskBlob, Ask
    <3>2. ASSUME UseRoot \/ OutsideRoot \/ UseRevs \/ UseTree \/ NoMoreTrees \/ EndOfTree
          PROVE  /\ UNCHANGED <<scene, fileVars, exitCode>> /\ pc' \in Later
                 /\ pc \in {"root", "revs", "tree", "entry"}
      BY <3>2 DEF UseRoot, OutsideRoot, UseRevs, UseTree, NoMoreTrees, EndOfTree, Uses, Later
    <3>3. ASSUME \/ PassesOver \/ Unparseable \/ FileCapReached
                 \/ TooLarge \/ FromCache \/ TotalCapReached
          PROVE  /\ UNCHANGED <<scene, fileVars, exitCode>> /\ pc' \in Later
                 /\ pc = "entry"
      BY <3>3 DEF PassesOver, Unparseable, FileCapReached, TooLarge, FromCache, TotalCapReached,
                  Unread, MayConsider, AtEntry, Report, Later
    <3>4. ASSUME UseBlob
          PROVE  /\ UNCHANGED <<scene, fileVars, exitCode>> /\ pc' \in Later
                 /\ pc = "entry"
      BY <3>4 DEF UseBlob, Uses, Report, Later
    <3>5. ASSUME NEW what \in {"root", "revs", "tree", "entry"}, GivesUp(what)
          PROVE  /\ UNCHANGED <<scene, fileVars, exitCode>> /\ pc' = "sum" /\ pc = what
      BY <3>5 DEF GivesUp
    <3> QED BY <1>3, <3>1, <3>2, <3>3, <3>4, <3>5 DEF OverHistory, Later
  <2>3. FileInv'
    BY <1>a, <2>2, FilesStay
  <2>4. ExitInv'
    BY <1>a, <2>2 DEF ExitInv
  <2> QED BY <2>1, <2>3, <2>4 DEF ScanInv
<1>4. ASSUME SumUp PROVE ScanInv'
  <2>1. /\ pc = "sum" /\ pc' = "ended" /\ exitCode' = ExitCode
        /\ UNCHANGED <<scene, fileVars, hist, gitVars>>
    BY <1>4 DEF SumUp
  <2>2. FileInv' /\ CallInv'
    BY <1>a, <2>1, FilesStay, CallStays DEF Later
  <2>3. gpc = "idle" /\ child = "none"
    BY <1>a, <2>1 DEF HistInv, Places, CallInv, CallStage
  <2>4. HistTypes' /\ Budgets'
    BY <1>a, <2>1 DEF HistInv, HistTypes, Budgets
  <2>5. Places' /\ Asked'
    BY <1>a, <2>1, <2>3 DEF HistInv, Places, Asked, gitVars, Repo, Listings, Early
  <2>6. Reported'
    BY <1>a, <2>1 DEF HistInv, Reported, AllShown, Shown, Repo, Listings, Blob
  <2>7. ExitInv'
    <3>1. /\ hist.complete \in BOOLEAN /\ (FilesComplete' = FilesComplete)
          /\ ExitCode \in {0, 1, 3}
      BY <1>a, <2>1 DEF HistInv, HistTypes, FilesComplete, Files, fileVars, ExitCode
    <3>2. ExitCode \in {0, 1} => FilesComplete /\ hist.complete = TRUE
      <4>1. CASE FilesComplete /\ hist.complete = TRUE
        BY <4>1
      <4>2. CASE ~(FilesComplete /\ hist.complete = TRUE)
        <5>1. (FilesComplete /\ hist.complete) = FALSE
          BY <3>1, <4>2
        <5>2. ExitCode = 3
          BY <5>1 DEF ExitCode
        <5> QED BY <5>2
      <4> QED BY <4>1, <4>2
    <3> QED BY <2>1, <3>1, <3>2 DEF ExitInv
  <2> QED BY <2>2, <2>4, <2>5, <2>6, <2>7 DEF ScanInv, HistInv
<1>5. ASSUME Git PROVE ScanInv'
  <2>1. GitStep /\ UNCHANGED <<scene, fileVars, pc, hist, exitCode>>
    BY <1>5 DEF Git
  <2>2. CallInv' /\ HistInv' /\ FileInv'
    BY <1>a, <2>1, GitKeeps, HistStays, FilesStay
  <2>3. ExitInv'
    BY <1>a, <2>1 DEF ExitInv, FilesComplete, Files, fileVars
  <2> QED BY <2>2, <2>3 DEF ScanInv
<1>6. ASSUME UNCHANGED vars PROVE ScanInv'
  <2>1. UNCHANGED <<scene, fileVars, pc, hist, exitCode, gitVars>>
    BY <1>6 DEF vars
  <2>2. Pending
    BY <2>1 DEF Pending, gitVars
  <2>3. CallInv' /\ HistInv' /\ FileInv'
    BY <1>a, <2>1, <2>2, CallStays, HistStays, FilesStay
  <2>4. ExitInv'
    BY <1>a, <2>1 DEF ExitInv, FilesComplete, Files, fileVars
  <2> QED BY <2>3, <2>4 DEF ScanInv
<1> QED BY <1>1, <1>2, <1>3, <1>4, <1>5, <1>6 DEF Next

\* So it holds throughout.
LEMMA ScanInvAlways == Spec => []ScanInv
<1>1. Init => ScanInv
  BY ScanInvInit
<1>2. ScanInv /\ [Next]_vars => ScanInv'
  BY ScanInvNext
<1> QED BY <1>1, <1>2, PTL DEF Spec

\* Types, of main, of the history scan and of a git call.
THEOREM ScanTypes == Spec => []TypeOK
<1>1. ScanInv => TypeOK
  BY DEF ScanInv, CallInv, CallTypes, PipeTypes, FileInv, FileTypes, HistInv, HistTypes,
         ExitInv, TypeOK, Early, Later
<1> QED BY <1>1, ScanInvAlways, PTL

\* A git call counts as answered only with all of git's output, however the
\* readers, the caps, the clock and git interleave (_git_bounded).
THEOREM WholeAlways == Spec => []WholeOrNothing
<1>1. ScanInv => WholeOrNothing
  BY AnsweredIsWhole DEF ScanInv, WholeOrNothing
<1> QED BY <1>1, ScanInvAlways, PTL

\* Exit code 0 or 1 says that every file that was listable all along was inspected,
\* and that it is among the hits if there was a secret in it all along: of a file
\* edited meanwhile, in the part that is read (iter_candidates,
\* _scan_file_with_outcome, main).
THEOREM FilesAlways == Spec => []FilesAreWhole
<1>1. ScanInv => FilesAreWhole
  <2> SUFFICES ASSUME ScanInv, exitCode \in {0, 1}, NEW f \in Files, Listed(f)
               PROVE  /\ outcome[f] = "inspected"
                      /\ (\A v \in Versions(f) : Shows(f, v)) => f \in hits
    BY DEF FilesAreWhole, Listed
  <2>1. pc = "ended" /\ FilesComplete /\ FileInv
    BY DEF ScanInv, ExitInv
  <2>2. outcome[f] # "none"
    BY <2>1 DEF FileInv, NoneForgotten, Later
  <2>3. outcome[f] = "inspected"
    BY <2>1, <2>2 DEF FilesComplete
  <2> QED BY <2>1, <2>3 DEF FileInv, FileContents
<1> QED BY <1>1, ScanInvAlways, PTL

\* With exit code 0 or 1 every entry of every commit parses, the eligible ones are
\* text and all of their hits are reported, in repositories with 40-digit names (scan_git_history).
THEOREM HistoryAlways == Spec => []HistoryIsWhole
<1>1. ScanInv => HistoryIsWhole
  <2> SUFFICES ASSUME ScanInv, Repo.hash # "sha256", exitCode \in {0, 1}, scene.history
               PROVE  \A c \in DOMAIN Repo.commits : \A p \in DOMAIN Repo.commits[c] :
                        Shown(c, p)
    BY DEF HistoryIsWhole, HistoryShown, Shown, Listings
  <2>1. pc = "ended" /\ hist.complete = TRUE /\ HistInv /\ scene \in Scenes
    BY DEF ScanInv, ExitInv, FileInv, FileTypes
  <2>2. AllShown
    BY <2>1 DEF HistInv, Reported
  <2> QED BY <2>1, <2>2, RepoIs DEF AllShown, Listings
<1> QED BY <1>1, ScanInvAlways, PTL

\* The limits of the command line hold at every moment of the history scan
\* (scan_git_history's counters).
THEOREM ScanLimitsAlways == Spec => []LimitsHold
<1>1. ScanInv => LimitsHold
  <2> SUFFICES ASSUME ScanInv PROVE LimitsHold
    OBVIOUS
  <2>1. HistTypes /\ Budgets
    BY DEF ScanInv, HistInv
  <2>2. Len(hist.revs) \in Nat
    BY <2>1 DEF HistTypes
  <2>3. hist.commits <= MaxCommits
    BY <2>1, <2>2, ScanAssumption DEF HistTypes, Budgets
  <2> QED BY <2>1, <2>3 DEF LimitsHold, Budgets
<1> QED BY <1>1, ScanInvAlways, PTL

------------------------------------------------------------------------------
(* What is left to do.  A step of the scanner's own thread takes away a        *)
(* directory, a file, a commit or an entry, or a stage of one of them, whatever *)
(* the editor writes meanwhile and whatever git answers.                       *)

\* The parts of main, from the last to the first.
Phase == CASE pc \in Early             -> 5
           [] pc = "root"              -> 4
           [] pc = "revs"              -> 3
           [] pc \in {"tree", "entry"} -> 2
           [] pc = "sum"               -> 1
           [] OTHER                    -> 0

\* Directories or commits to come.
Outer == CASE pc \in Early             -> Cardinality(dirs)
           [] pc \in {"tree", "entry"} -> Len(hist.revs)
           [] OTHER                    -> 0

\* Files of the directory to come, or how far the commit's listing has got.
Middle == CASE pc \in Early                  -> Cardinality(todo)
            [] pc = "tree" /\ gpc # "idle"   -> 2
            [] pc = "entry"                  -> 1
            [] OTHER                         -> 0

\* Entries of the listing to come.
Inner == IF pc = "entry" THEN hist.entries + 1 - hist.entry ELSE 0

\* What a file still has before it, or whether git has still to be asked.
Last == CASE pc = "check" -> 2
          [] pc = "read"  -> 1
          [] pc = "walk"  -> 0
          [] OTHER        -> IF gpc = "idle" THEN 1 ELSE 0

Rest == <<Phase, Outer, Middle, Inner, Last>>

Less(a, b) ==
  \/ a[1] < b[1]
  \/ a[1] = b[1] /\ a[2] < b[2]
  \/ a[1] = b[1] /\ a[2] = b[2] /\ a[3] < b[3]
  \/ a[1] = b[1] /\ a[2] = b[2] /\ a[3] = b[3] /\ a[4] < b[4]
  \/ a[1] = b[1] /\ a[2] = b[2] /\ a[3] = b[3] /\ a[4] = b[4] /\ a[5] < b[5]

\* There are only so many directories.
Visitable == IsFiniteSet(dirs)

\* The five counts are natural numbers.
LEMMA RestIsNatural ==
  ScanInv /\ IsFiniteSet(dirs) => Rest \in Nat \X Nat \X Nat \X Nat \X Nat
<1> SUFFICES ASSUME ScanInv, IsFiniteSet(dirs)
             PROVE  Rest \in Nat \X Nat \X Nat \X Nat \X Nat
  OBVIOUS
<1>1. FileTypes /\ HistTypes /\ Places
  BY DEF ScanInv, FileInv, HistInv
<1>2. IsFiniteSet(todo)
  <2>1. IsFiniteSet(Files)
    BY <1>1, ScanAssumption DEF FileTypes, WellMade, Files
  <2> QED BY <1>1, <2>1, FS_Subset DEF FileTypes
<1>3. Outer \in Nat /\ Middle \in Nat
  <2>1. Cardinality(dirs) \in Nat /\ Cardinality(todo) \in Nat
    BY <1>2, FS_CardinalityType
  <2>2. Len(hist.revs) \in Nat
    BY <1>1 DEF HistTypes
  <2> QED BY <2>1, <2>2 DEF Outer, Middle
<1>4. Inner \in Nat
  BY <1>1 DEF Inner, Places, HistTypes
<1>5. Phase \in Nat /\ Last \in Nat
  BY DEF Phase, Last
<1> QED BY <1>3, <1>4, <1>5 DEF Rest

\* The directories to visit are those of the files, and then fewer.
LEMMA DirsStayFinite ==
  /\ Init => IsFiniteSet(dirs)
  /\ IsFiniteSet(dirs) /\ [Next]_vars => IsFiniteSet(dirs')
<1>1. ASSUME Init PROVE IsFiniteSet(dirs)
  <2>1. IsFiniteSet(DOMAIN files)
    BY <1>1, ScanAssumption DEF Init, WellMade
  <2> DEFINE dir == [f \in DOMAIN files |-> files[f].dir]
  <2>2. dirs = {files[f].dir : f \in DOMAIN files}
    BY <1>1 DEF Init
  <2>3. dir \in Surjection(DOMAIN files, dirs)
    BY <2>2 DEF Surjection
  <2> QED BY <2>1, <2>3, FS_Surjection
<1>2. ASSUME IsFiniteSet(dirs), [Next]_vars PROVE IsFiniteSet(dirs')
  <2>1. dirs' = dirs \/ \E d : dirs' = dirs \ {d}
    <3>1. CASE OverFiles
      BY <3>1 DEF OverFiles, Walk, Take, Check, Read1, Counted, fileVars
    <3>2. CASE OverHistory
      BY <3>2 DEF OverHistory, AskRoot, UseRoot, OutsideRoot, AskRevs, UseRevs, AskTree,
         UseTree, NoMoreTrees, EndOfTree, PassesOver, Unparseable, FileCapReached,
         TooLarge, FromCache, TotalCapReached, AskBlob, UseBlob, GivesUp, Ask, Uses,
         Unread, MayConsider, AtEntry, fileVars
    <3>3. CASE SumUp \/ Git \/ (\E f \in Files : Edit(f)) \/ UNCHANGED vars
      BY <3>3 DEF SumUp, Git, Edit, vars, fileVars
    <3> QED BY <1>2, <3>1, <3>2, <3>3 DEF Next
  <2> QED BY <1>2, <2>1, FS_RemoveElement
<1> QED BY <1>1, <1>2

\* A step into a later part of main.
LEMMA PhaseShrinks == ASSUME Phase' < Phase PROVE Less(Rest', Rest)
BY DEF Less, Rest

\* The walk over the files comes to an end.
LEMMA FilesShrink ==
  ASSUME ScanInv, IsFiniteSet(dirs), OverFiles PROVE Less(Rest', Rest)
<1>1. FileTypes /\ IsFiniteSet(todo)
  <2>1. FileTypes
    BY DEF ScanInv, FileInv
  <2>2. IsFiniteSet(Files)
    BY <2>1, ScanAssumption DEF FileTypes, WellMade, Files
  <2> QED BY <2>1, <2>2, FS_Subset DEF FileTypes
<1>2. Cardinality(dirs) \in Nat /\ Cardinality(todo) \in Nat
  BY <1>1, FS_CardinalityType
<1>3. CASE Walk
  <2>1. PICK d \in dirs : dirs' = dirs \ {d}
    BY <1>3 DEF Walk
  <2>2. Cardinality(dirs') = Cardinality(dirs) - 1
    BY <2>1, FS_RemoveElement
  <2>3. pc = "walk" /\ pc' = "walk"
    BY <1>3 DEF Walk
  <2> QED BY <1>2, <2>2, <2>3 DEF Less, Rest, Phase, Outer, Early
<1>4. ASSUME NEW f \in Files, Take(f) PROVE Less(Rest', Rest)
  <2>1. f \in todo /\ todo' = todo \ {f} /\ dirs' = dirs /\ pc = "walk" /\ pc' = "check"
    BY <1>4 DEF Take
  <2>2. Cardinality(todo') = Cardinality(todo) - 1
    BY <1>1, <2>1, FS_RemoveElement
  <2> QED BY <1>2, <2>1, <2>2 DEF Less, Rest, Phase, Outer, Middle, Early
<1>5. CASE Check \/ Read1
  <2>1. /\ UNCHANGED <<dirs, todo>>
        /\ (pc = "check" /\ pc' \in {"walk", "read"}) \/ (pc = "read" /\ pc' = "walk")
    BY <1>5 DEF Check, Read1, Tell
  <2> QED BY <2>1 DEF Less, Rest, Phase, Outer, Middle, Inner, Last, Early
<1>6. CASE Counted
  BY <1>6, PhaseShrinks DEF Counted, Phase, Early
<1> QED BY <1>3, <1>4, <1>5, <1>6 DEF OverFiles

\* A report goes on to the next entry, or ends the scan.
LEMMA ReportGoesOn ==
  ASSUME NEW h, DOMAIN h = HistFields, Report(h)
  PROVE  /\ pc' \in {"entry", "sum"} /\ hist'.revs = h.revs
         /\ hist'.entry = h.entry + 1 /\ hist'.entries = h.entries
BY DEF Report, HistFields

\* So does the scan of the history: a commit or an entry less, or git asked.
LEMMA HistoryShrinks ==
  ASSUME ScanInv, OverHistory PROVE Less(Rest', Rest)
<1>1. /\ HistTypes /\ Places /\ HistInv /\ scene \in Scenes /\ CallInv
      /\ hist.revs \in Seq(Nat) /\ Len(hist.revs) \in Nat
      /\ hist.entry \in Nat /\ hist.entries \in Nat
  BY DEF ScanInv, HistInv, HistTypes, FileInv, FileTypes
<1>2. CASE \/ UseRoot \/ OutsideRoot \/ UseRevs \/ NoMoreTrees
           \/ Unparseable \/ FileCapReached \/ TotalCapReached
           \/ \E what \in {"root", "revs", "tree", "entry"} : GivesUp(what)
  BY <1>2, PhaseShrinks DEF UseRoot, OutsideRoot, UseRevs, NoMoreTrees, Unparseable,
     FileCapReached, TotalCapReached,
     Unread, MayConsider, AtEntry, GivesUp, Uses, Phase, Early
<1>3. ASSUME NEW what, NEW cap, NEW n, NEW c, Ask(what, cap, n, c)
      PROVE  gpc = "idle" /\ gpc' # "idle" /\ pc = what /\ pc' = pc
  BY <1>3 DEF Ask, Begin, CannotBegin
<1>4. CASE AskRoot \/ AskRevs
  <2>1. gpc = "idle" /\ gpc' # "idle" /\ pc \in {"root", "revs"} /\ pc' = pc
    BY <1>3, <1>4 DEF AskRoot, AskRevs
  <2> QED BY <2>1 DEF Less, Rest, Phase, Outer, Middle, Inner, Last, Early
<1>5. CASE AskTree
  <2>1. pc = "tree" /\ pc' = "tree" /\ hist.revs # <<>>
    BY <1>3, <1>5 DEF AskTree
  <2>2. hist'.revs = Tail(hist.revs)
    BY <1>1, <1>5 DEF AskTree, HistTypes, HistFields
  <2>3. Len(hist'.revs) = Len(hist.revs) - 1
    BY <1>1, <2>1, <2>2
  <2> QED BY <1>1, <2>1, <2>3 DEF Less, Rest, Phase, Outer, Early
<1>6. CASE UseTree
  <2>1. pc = "tree" /\ pc' = "entry" /\ gpc # "idle"
    BY <1>6 DEF UseTree, Uses, Answered
  <2>2. hist'.revs = hist.revs
    BY <1>1, <1>6 DEF UseTree, HistTypes, HistFields
  <2> QED BY <2>1, <2>2 DEF Less, Rest, Phase, Outer, Middle, Early
<1>7. CASE EndOfTree
  <2>1. pc = "entry" /\ pc' = "tree" /\ gpc' = "idle" /\ hist' = hist
    BY <1>7 DEF EndOfTree, gitVars
  <2> QED BY <2>1 DEF Less, Rest, Phase, Outer, Middle, Early
<1>8. ASSUME pc = "entry", pc' = "entry", hist'.revs = hist.revs,
             hist'.entry = hist.entry + 1, hist'.entries = hist.entries
      PROVE  Less(Rest', Rest)
  <2>1. Inner' < Inner
    BY <1>1, <1>8 DEF Inner
  <2> QED BY <1>8, <2>1 DEF Less, Rest, Phase, Outer, Middle, Early
<1>9. ASSUME pc = "entry", pc' = "sum" PROVE Less(Rest', Rest)
  BY <1>9, PhaseShrinks DEF Phase, Early
<1>10. CASE PassesOver
  BY <1>1, <1>8, <1>10 DEF PassesOver, AtEntry, HistTypes, HistFields
<1>11. ASSUME hist.considered < MaxFiles
       PROVE  /\ DOMAIN Considered = HistFields /\ Considered.revs = hist.revs
              /\ Considered.entry = hist.entry /\ Considered.entries = hist.entries
  BY <1>1, <1>11, ConsideredIs
<1>12. CASE TooLarge
  <2> DEFINE h == Considered
  <2>1. hist.considered < MaxFiles /\ pc = "entry" /\ pc' = "entry"
    BY <1>12 DEF TooLarge, MayConsider, AtEntry
  <2>2. hist' = [h EXCEPT !.complete = FALSE, !.entry = @ + 1]
    BY <1>12 DEF TooLarge
  <2>3. /\ DOMAIN h = HistFields /\ h.revs = hist.revs /\ h.entry = hist.entry
        /\ h.entries = hist.entries
    BY <1>11, <2>1
  <2> HIDE DEF h
  <2> QED BY <1>8, <2>1, <2>2, <2>3 DEF HistFields
<1>13. CASE FromCache
  <2>1. hist.considered < MaxFiles /\ pc = "entry" /\ Report(Considered)
    BY <1>13 DEF FromCache, MayConsider, AtEntry
  <2> QED BY <1>8, <1>9, <1>11, <2>1, ReportGoesOn
<1>14. CASE AskBlob
  <2>1. /\ hist.considered < MaxFiles /\ hist' = Considered
        /\ gpc = "idle" /\ gpc' # "idle" /\ pc = "entry" /\ pc' = "entry"
    BY <1>3, <1>14 DEF AskBlob
  <2>2. hist'.revs = hist.revs /\ hist'.entry = hist.entry /\ hist'.entries = hist.entries
    BY <1>11, <2>1
  <2> QED BY <2>1, <2>2 DEF Less, Rest, Phase, Outer, Middle, Inner, Last, Early
<1>15. CASE UseBlob
  <2> DEFINE h == [hist EXCEPT !.bytes = @ + Output, !.cache = @ \cup {Entry.blob}]
  <2>1. pc = "entry" /\ (pc' = "sum" \/ Report(h))
    BY <1>15 DEF UseBlob, Uses
  <2>2. /\ DOMAIN h = HistFields /\ h.revs = hist.revs /\ h.entry = hist.entry
        /\ h.entries = hist.entries
    BY <1>1 DEF HistTypes, HistFields
  <2> HIDE DEF h
  <2> QED BY <1>8, <1>9, <2>1, <2>2, ReportGoesOn
<1> QED BY <1>2, <1>4, <1>5, <1>6, <1>7, <1>10, <1>12, <1>13, <1>14, <1>15 DEF OverHistory

\* Nobody else's step counts.
LEMMA OthersLeaveRest ==
  ASSUME ScanInv, Git \/ (\E f \in Files : Edit(f)) PROVE Rest' = Rest
<1>1. UNCHANGED <<pc, dirs, todo, hist>> /\ (gpc' = "idle") = (gpc = "idle")
  <2>1. CASE Git
    <3>1. Pending
      BY <2>1, GitKeeps DEF Git, ScanInv
    <3> QED BY <2>1, <3>1 DEF Git, fileVars, Pending
  <2>2. CASE \E f \in Files : Edit(f)
    BY <2>2 DEF Edit, gitVars
  <2> QED BY <2>1, <2>2
<1> QED BY <1>1 DEF Rest, Phase, Outer, Middle, Inner, Last, Early

\* A step of the scanner makes less of it; git, the threads that read its output
\* and the editor leave it alone.
Counts == \/ Less(Rest', Rest)
          \/ Rest' = Rest /\ (Git \/ \E f \in Files : Edit(f))

\* Five natural numbers, of which every step of the scanner makes less, in their
\* order.
EachStepCounts ==
  /\ [](Rest \in Nat \X Nat \X Nat \X Nat \X Nat)
  /\ [][Counts]_vars

\* The scanner takes a bounded number of steps of its own and asks git a bounded
\* number of times, whatever git answers and somebody edits: the safety half of
\* ScanEnds, for every disk and every history.  That one call of git ends as well
\* needs the clock, and is left to the model check.
THEOREM NoEndlessScan == Spec => EachStepCounts
<1>1. Init => ScanInv /\ Visitable
  BY ScanInvInit, DirsStayFinite DEF Visitable
<1>2. ScanInv /\ Visitable /\ [Next]_vars => ScanInv' /\ Visitable'
  BY ScanInvNext, DirsStayFinite DEF Visitable
<1>3. ScanInv /\ Visitable => Rest \in Nat \X Nat \X Nat \X Nat \X Nat
  BY RestIsNatural DEF Visitable
<1>4. ScanInv /\ Visitable /\ [Next]_vars => [Counts]_vars
  <2>1. ASSUME ScanInv, SumUp PROVE Less(Rest', Rest)
    BY <2>1, PhaseShrinks DEF SumUp, Phase, Early
  <2> QED BY <2>1, FilesShrink, HistoryShrinks, OthersLeaveRest DEF Next, Counts, Visitable
<1> QED BY <1>1, <1>2, <1>3, <1>4, PTL DEF Spec, EachStepCounts
==============================================================================
