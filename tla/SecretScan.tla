------------------------------ MODULE SecretScan ------------------------------
(* scan_secrets.py: the walk over the files while somebody edits them, then   *)
(* the scan of the committed history through one bounded git call after       *)
(* another, and the exit code.  A file or a blob is a record: its size in     *)
(* units, its kind, and where a secret is (0: none) or how many rules match.  *)
EXTENDS BoundedGit, Sequences, FiniteSets

CONSTANTS MaxBytes, MaxCommits, MaxFiles, MaxTotal, MaxFindings,
          TreeCap,     \* entries the cap on a tree listing has room for
          Errs,        \* units a git command writes to stderr
          Scenes       \* what is on the disk: see Scene in the MC module

\* The files can be counted, sizes and counts are numbers, a secret is within its
\* file, an entry of a listing names a blob.
WellMade(s) ==
  /\ IsFiniteSet(DOMAIN s.files)
  /\ \A f \in {s.files[x] : x \in DOMAIN s.files} \cup s.edits :
       f.size \in Nat /\ f.secret \in 0..f.size
  /\ \A b \in DOMAIN s.repo.blobs :
       s.repo.blobs[b].size \in Nat /\ s.repo.blobs[b].hits \in Nat
  /\ s.repo.commits \in Seq(Seq([what : {"file", "link", "bad"}, blob : DOMAIN s.repo.blobs]))

ASSUME ScanAssumption == /\ MaxBytes \in Nat \ {0} /\ MaxCommits \in Nat \ {0}
                         /\ MaxFiles \in Nat \ {0} /\ MaxTotal \in Nat \ {0}
                         /\ MaxFindings \in Nat \ {0} /\ TreeCap \in Nat \ {0}
                         /\ Errs \subseteq Nat /\ \A s \in Scenes : WellMade(s)

VARIABLES scene,       \* [files, edits, hidden, history, repo]: fixed
          files,       \* file -> its record now
          touched,     \* files edited during the scan
          pc,          \* what main does
          dirs, todo, at,          \* directories and names still to visit; path
          outcome, hits,           \* counts, as file -> outcome; hits
          hist,        \* result of scan_git_history with its loop variables
          exitCode     \* 9: main has not returned

fileVars == <<files, touched, dirs, todo, at, outcome, hits>>
vars     == <<scene, fileVars, pc, hist, exitCode, gitVars>>

Files  == DOMAIN scene.files
Repo   == scene.repo
Blob(e) == Repo.blobs[e.blob]

NoHistory == [complete |-> TRUE, revs |-> <<>>, commit |-> 0, entry |-> 0,
              entries |-> 0, commits |-> 0, considered |-> 0, bytes |-> 0,
              cache |-> {}, found |-> {}]

Init ==
  /\ scene \in Scenes /\ files = scene.files /\ touched = {}
  /\ pc = "walk" /\ todo = {} /\ at = "none"
  /\ dirs = {files[f].dir : f \in DOMAIN files}
  /\ outcome = [f \in DOMAIN files |-> "none"] /\ hits = {}
  /\ hist = NoHistory /\ exitCode = 9
  /\ GitInit

------------------------------------------------------------------------------
(* iter_candidates and _scan_file_with_outcome.                              *)

\* os.walk lists a directory when it gets there; one it cannot list is
\* dropped without a word (no onerror).  SKIP_EXT, SKIP_DIRS: "policy".
Walk ==
  /\ pc = "walk" /\ todo = {}
  /\ \E d \in dirs :
       /\ dirs' = dirs \ {d}
       /\ todo' = IF d \in scene.hidden THEN {}
                  ELSE {f \in Files : files[f].dir = d
                                      /\ files[f].kind \notin {"absent", "policy"}}
  /\ UNCHANGED <<scene, files, touched, pc, at, outcome, hits, hist, exitCode, gitVars>>

Take(f) ==
  /\ pc = "walk" /\ f \in todo
  /\ todo' = todo \ {f} /\ at' = f /\ pc' = "check"
  /\ UNCHANGED <<scene, files, touched, dirs, outcome, hits, hist, exitCode, gitVars>>

Tell(o) == outcome' = [outcome EXCEPT ![at] = o] /\ at' = "none" /\ pc' = "walk"

\* islink, realpath, getsize: what may be opened at all.
Check ==
  /\ pc = "check"
  /\ LET f == files[at]
     IN CASE f.kind = "link"     -> Tell("unsafe_symlink")
          [] f.kind = "absent"   -> Tell("unreadable")
          [] f.kind \notin {"link", "absent"} /\ f.size > MaxBytes -> Tell("skipped_too_large")
          [] OTHER -> pc' = "read" /\ UNCHANGED <<outcome, at>>
  /\ UNCHANGED <<scene, files, touched, dirs, todo, hits, hist, exitCode, gitVars>>

\* Mutant: no more than may be there is read, not one unit more.
ReadCapExactly == MaxBytes

\* What _decode_lines reads of the file as it is now: of one that has grown the
\* rest is not looked at, and the cut can break a character.
ReadCap == MaxBytes + 1

Read1 ==
  /\ pc = "read"
  /\ LET f == files[at]
         cut == f.size > ReadCap
         seen == f.secret # 0 /\ f.secret <= ReadCap
     IN \/ f.kind \in {"locked", "absent"} /\ Tell("unreadable") /\ hits' = hits
        \/ f.kind = "binary" /\ Tell("binary") /\ hits' = hits
        \/ /\ f.kind = "encoding" \/ (f.kind = "text" /\ cut)
           /\ Tell("unsupported_encoding") /\ hits' = hits
        \/ /\ f.kind = "text" /\ Tell("inspected")
           /\ hits' = IF seen THEN hits \cup {at} ELSE hits
  /\ UNCHANGED <<scene, files, touched, dirs, todo, hist, exitCode, gitVars>>

\* Somebody saves a file: another record, in the same place.  Bound: once.
Edit(f) ==
  /\ pc \in {"walk", "check", "read"} /\ f \notin touched /\ touched' = touched \cup {f}
  /\ \E e \in scene.edits : e # files[f] /\ e.dir = files[f].dir
                            /\ files' = [files EXCEPT ![f] = e]
  /\ UNCHANGED <<scene, pc, dirs, todo, at, outcome, hits, hist, exitCode, gitVars>>

\* complete: no outcome but "inspected", and at least one of those.
FilesComplete ==
  LET told == {outcome[f] : f \in Files} \ {"none"} IN told = {"inspected"}

Counted ==
  /\ pc = "walk" /\ todo = {} /\ dirs = {}
  /\ pc' = IF scene.history THEN "root" ELSE "sum"
  /\ UNCHANGED <<scene, fileVars, hist, exitCode, gitVars>>

------------------------------------------------------------------------------
(* scan_git_history: git is asked in one step and its answer used in another.*)

GitReset == /\ gpc' = "idle" /\ child' = "none" /\ code' = 0 /\ holder' = FALSE
            /\ pipe' = [s \in Streams |-> Stream(0, 0)]
            /\ limit' = FALSE /\ broken' = FALSE /\ timedOut' = FALSE
            /\ lingering' = FALSE /\ rc' = 0 /\ truncated' = FALSE

Ask(what, cap, n, c) ==
  /\ pc = what
  /\ \/ \E e \in Errs : Begin(cap, n, e, c, FALSE)
     \/ Begin(cap, n, 0, c, TRUE)
     \/ CannotBegin
  /\ UNCHANGED <<scene, fileVars, pc, exitCode>>

\* What is not asked again after a failed call.
GivesUp(what) ==
  /\ pc = what /\ Failed /\ GitReset
  /\ hist' = [hist EXCEPT !.complete = FALSE] /\ pc' = "sum"
  /\ UNCHANGED <<scene, fileVars, exitCode>>

Uses(what) == /\ pc = what /\ Answered /\ GitReset
              /\ UNCHANGED <<scene, fileVars, exitCode>>

AskRoot == /\ Ask("root", 1, IF Repo.hash = "none" THEN 0 ELSE 1,
                  IF Repo.hash = "none" THEN 128 ELSE 0)
           /\ UNCHANGED hist
UseRoot == Uses("root") /\ Repo.within /\ pc' = "revs" /\ UNCHANGED hist

\* git names a root that the target is not under.
OutsideRoot ==
  /\ Uses("root") /\ ~Repo.within
  /\ hist' = [hist EXCEPT !.complete = FALSE] /\ pc' = "sum"

\* One more than the limit is asked for, in 64 bytes each: a commit takes 41 of
\* them, or 65 where the repository's object format is sha256.
Width  == IF Repo.hash = "sha256" THEN 65 ELSE 41
RevCap == ((MaxCommits + 1) * 64) \div Width

\* Mutant: exactly the limit is asked for, so that more is never seen.
AskRevsExactly ==
  /\ Ask("revs", RevCap, Least(Len(Repo.commits), MaxCommits),
         IF Repo.commits = <<>> THEN 128 ELSE 0)
  /\ UNCHANGED hist

AskRevs ==
  /\ Ask("revs", RevCap, Least(Len(Repo.commits), MaxCommits + 1),
         IF Repo.commits = <<>> THEN 128 ELSE 0)
  /\ UNCHANGED hist

\* Lines that are not 40 hexadecimal digits are dropped.
Commits == IF Repo.hash = "sha256" THEN 0 ELSE Output

UseRevs ==
  /\ Uses("revs") /\ pc' = "tree"
  /\ hist' = [hist EXCEPT !.revs = [i \in 1..Least(Commits, MaxCommits) |-> i],
                          !.complete = @ /\ Commits <= MaxCommits]

AskTree ==
  /\ hist.revs # <<>>
  /\ Ask("tree", TreeCap, Len(Repo.commits[Head(hist.revs)]), 0)
  /\ hist' = [hist EXCEPT !.commit = Head(hist.revs), !.revs = Tail(@),
                          !.commits = @ + 1]

UseTree ==
  /\ Uses("tree") /\ pc' = "entry"
  /\ hist' = [hist EXCEPT !.entries = Output, !.entry = 1]

NoMoreTrees ==
  /\ pc = "tree" /\ gpc = "idle" /\ hist.revs = <<>> /\ pc' = "sum"
  /\ UNCHANGED <<scene, fileVars, hist, exitCode, gitVars>>

------------------------------------------------------------------------------
(* The entries of one tree listing.                                          *)

Entry    == Repo.commits[hist.commit][hist.entry]
AtEntry  == /\ pc = "entry" /\ gpc = "idle" /\ hist.entry <= hist.entries
            /\ UNCHANGED <<scene, fileVars, exitCode, gitVars>>
Eligible(e) == e.what = "file"     \* a blob, outside SKIP_EXT and not the scanner

EndOfTree ==
  /\ pc = "entry" /\ gpc = "idle" /\ hist.entry > hist.entries
  /\ pc' = "tree"
  /\ UNCHANGED <<scene, fileVars, hist, exitCode, gitVars>>

PassesOver ==
  /\ AtEntry /\ Entry.what = "link"
  /\ hist' = [hist EXCEPT !.entry = @ + 1] /\ UNCHANGED pc

\* A line that does not parse, such as the BAD size of a blob that is missing.
Unparseable ==
  /\ AtEntry /\ Entry.what = "bad"
  /\ hist' = [hist EXCEPT !.complete = FALSE] /\ pc' = "sum"

FileCapReached ==
  /\ AtEntry /\ Eligible(Entry) /\ hist.considered >= MaxFiles
  /\ hist' = [hist EXCEPT !.complete = FALSE] /\ pc' = "sum"

Considered == [hist EXCEPT !.considered = @ + 1]
\* Mutant: one path too many.
MayConsiderOneMore == AtEntry /\ Eligible(Entry) /\ hist.considered <= MaxFiles

MayConsider == AtEntry /\ Eligible(Entry) /\ hist.considered < MaxFiles

TooLarge ==
  /\ MayConsider /\ Blob(Entry).size > MaxBytes
  /\ hist' = [Considered EXCEPT !.complete = FALSE, !.entry = @ + 1]
  /\ UNCHANGED pc

\* The hits of a blob under the path and commit it is met at, up to the limit.
\* h: hist with the blob in its cache.
Report(h) ==
  LET b    == Blob(Entry)
      room == MaxFindings - Cardinality(h.found)
      new  == {<<h.commit, h.entry, k>> : k \in 1..Least(b.hits, room)}
  IN IF b.kind # "text"
     THEN /\ hist' = [h EXCEPT !.complete = FALSE, !.entry = @ + 1]
          /\ pc' = "entry"
     ELSE /\ hist' = [h EXCEPT !.found = @ \cup new, !.entry = @ + 1,
                               !.complete = @ /\ b.hits <= room]
          /\ pc' = IF b.hits <= room THEN "entry" ELSE "sum"

FromCache ==
  /\ MayConsider /\ Blob(Entry).size <= MaxBytes
  /\ Entry.blob \in hist.cache
  /\ Report(Considered)

Unread == MayConsider /\ Blob(Entry).size <= MaxBytes /\ Entry.blob \notin hist.cache

TotalCapReached ==
  /\ Unread /\ hist.bytes + Blob(Entry).size > MaxTotal
  /\ hist' = [Considered EXCEPT !.complete = FALSE] /\ pc' = "sum"

\* The entry is considered when the blob is asked for.
AskBlob ==
  /\ pc = "entry" /\ gpc = "idle" /\ hist.entry <= hist.entries
  /\ Eligible(Entry) /\ hist.considered < MaxFiles
  /\ Blob(Entry).size <= MaxBytes /\ Entry.blob \notin hist.cache
  /\ hist.bytes + Blob(Entry).size <= MaxTotal
  /\ Ask("entry", MaxBytes, Blob(Entry).size, 0)
  /\ hist' = Considered

UseBlob ==
  /\ Uses("entry")
  /\ IF Output = Blob(Entry).size
     THEN Report([hist EXCEPT !.bytes = @ + Output, !.cache = @ \cup {Entry.blob}])
     ELSE hist' = [hist EXCEPT !.complete = FALSE] /\ pc' = "sum"

------------------------------------------------------------------------------
(* main's last words.                                                        *)

ExitCode ==
  IF ~(FilesComplete /\ hist.complete) THEN 3
  ELSE IF hits # {} \/ hist.found # {} THEN 1 ELSE 0

SumUp ==
  /\ pc = "sum" /\ pc' = "ended" /\ exitCode' = ExitCode
  /\ UNCHANGED <<scene, fileVars, hist, gitVars>>

Git == GitStep /\ UNCHANGED <<scene, fileVars, pc, hist, exitCode>>

OverFiles   == Walk \/ (\E f \in Files : Take(f)) \/ Check \/ Read1 \/ Counted
OverHistory ==
  \/ AskRoot \/ UseRoot \/ OutsideRoot \/ AskRevs \/ UseRevs \/ AskTree \/ UseTree
  \/ NoMoreTrees \/ EndOfTree \/ PassesOver \/ Unparseable \/ FileCapReached
  \/ TooLarge \/ FromCache \/ TotalCapReached \/ AskBlob \/ UseBlob
  \/ \E what \in {"root", "revs", "tree", "entry"} : GivesUp(what)

Next == OverFiles \/ OverHistory \/ SumUp \/ Git \/ \E f \in Files : Edit(f)

\* The scanner's own thread runs; a call's clock gets to its limit.
Fairness == WF_vars(OverFiles \/ OverHistory \/ SumUp)
            /\ WF_vars((LooksAtEvents \/ LooksAtEnds \/ WaitsOn \/ Judges \/ Waits
                        \/ Joins \/ Returns) /\ Git)
            /\ SF_vars(RunsOut /\ Git)

Spec == Init /\ [][Next]_vars /\ Fairness

------------------------------------------------------------------------------
(* Properties.                                                               *)

Outcomes == {"inspected", "binary", "unsupported_encoding", "skipped_too_large",
             "unreadable", "unsafe_symlink"}

\* Types, of main, of the history scan and of a git call.
TypeOK ==
  /\ pc \in {"walk", "check", "read", "root", "revs", "tree", "entry", "sum", "ended"}
  /\ at \in Files \cup {"none"} /\ todo \subseteq Files
  /\ touched \subseteq Files /\ hits \subseteq Files
  /\ outcome \in [Files -> Outcomes \cup {"none"}]
  /\ hist.complete \in BOOLEAN /\ exitCode \in {0, 1, 3, 9}
  /\ gpc \in {"idle", "events", "ends", "clock", "judge", "wait", "join",
              "return", "returned"}
  /\ child \in {"none", "running", "exited", "dead"}
  /\ \A s \in Streams : pipe[s].room \in Nat /\ pipe[s].kept \in Nat
                        /\ pipe[s].full \in 0..PipeSize

\* A call of git that counts as answered has returned all that git wrote, and
\* git ended by itself and well: never a prefix, whatever the reader threads,
\* the caps and the clock did in between.
WholeOrNothing ==
  Answered => Output = pipe["out"].total /\ child = "exited" /\ code = 0

\* The contents a file had during the scan: of one that was edited, two.
Versions(f) == {scene.files[f], files[f]}

\* Where the secret of one of them must be to show: in a file that was edited,
\* in the part that is read of a file however large it has become.
Shows(f, v) == v.secret # 0 /\ (f \in touched => v.secret <= MaxBytes + 1)

\* With an exit code that says the scan was complete (0 or 1), every file of a
\* listable directory that was there all along was inspected, edited or not, and
\* is among the hits if there was a secret in it all along, in the part read.
FilesAreWhole ==
  exitCode \in {0, 1} =>
    \A f \in Files :
      (\A v \in Versions(f) : v.dir \notin scene.hidden /\ v.kind \notin {"absent", "policy"})
        => /\ outcome[f] = "inspected"
           /\ (\A v \in Versions(f) : Shows(f, v)) => f \in hits

HistoryShown ==
  exitCode \in {0, 1} /\ scene.history =>
    \A c \in DOMAIN Repo.commits : \A p \in DOMAIN Repo.commits[c] :
      LET e == Repo.commits[c][p]
      IN /\ e.what # "bad"
         /\ Eligible(e) => /\ Blob(e).kind = "text"
                           /\ \A k \in 1..Blob(e).hits : <<c, p, k>> \in hist.found

\* With such an exit code, every entry of every commit could be parsed, every
\* eligible file is text, and every hit in it is reported at that commit and path:
\* no cap, cache, failed or late git call made the history shorter.  Object names
\* of 40 digits only.
HistoryIsWhole == Repo.hash # "sha256" => HistoryShown

\* The limits of the command line hold at every moment.
LimitsHold ==
  /\ hist.commits <= MaxCommits /\ hist.considered <= MaxFiles
  /\ hist.bytes <= MaxTotal /\ Cardinality(hist.found) <= MaxFindings

\* The scan ends and says so, even when git or a process it started keeps the
\* pipes open for ever.
ScanEnds == <>(pc = "ended")
==============================================================================
