# Solo Suite: a TLA+ verification project

Solo Suite is a marketplace of 18 plugins for a coding assistant.  Most of it is
Markdown: commands, agents and skills that a language model reads.  The part
that is a program is about 12,900 lines of Python, PowerShell and workflow YAML:
the tools the prompts call, and the tools that build and publish the suite.
This project models that program, checks the models with TLC and proves theorems
about them with TLAPS.

Paths below are relative to `src/`.  `SCRIPTS` is
`plugins/gate/skills/production-readiness-reviewer/scripts`.

## 1. Inventory

| component | source | state it keeps | what is hard about it |
|---|---|---|---|
| run-state register | `SCRIPTS/update_run_state.py` | `.solo/run-state/<run>.json`: three SHAs of one room run; an advisory lock file | several seats call it at once; read-modify-write; killed holders; lock timeout; git answers that are stale when used |
| git readings | `plugins/gate/lib/gate_policy.py` (`git_head` ... `repo_state`) | none; every question is its own `git` subprocess | the checkout moves between two questions |
| evidence recorder | `SCRIPTS/record_evidence.py` | `.solo/gate-evidence/*.json` and the captured outputs | preview and confirmation; a command of up to an hour that may change the checkout; two files written without a lock |
| evidence gate | `SCRIPTS/check_evidence.py` | none | reads HEAD, tree, records and artifacts one after another; must fail closed; duplicates; freshness |
| command process tree | `record_evidence.py` `_run_bounded` | processes, two pipes, two threads | timeout against a late exit, surviving descendants, readers that never end |
| command policy | `gate_policy.py` `validate_command` and its rules | none | which argv counts for which category |
| schema evaluators | `gate_policy.py`, `validate_rooms.py` | none | a JSON-schema subset with `$ref` and `oneOf` |
| room validator | `plugins/ai/skills/agent-room-templates/scripts/validate_rooms.py` | none | stage graphs, file ownership, read provenance, profiles: does a room that validates run without two writers or a read of nothing? |
| link crawler | `plugins/site-doctor/skills/website-audit/scripts/check_links.py` | queue, seen, checked, budgets | five budgets that end the crawl at any point; exit codes 0/1/3 |
| URL guard | `plugins/site-doctor/lib/url_guard.py` | none | a redirect chain in which each hop must be validated |
| other audit scripts | `plugins/site-doctor/**/scripts` | none | text analysis; same exit-code rule as the crawler |
| secret scanner | `.../security-review/scripts/scan_secrets.py` | counters of what was skipped | a file not read may not count as clean |
| release builder | `release/build_release.py`, `gen_release_inventory.py` | the output directory | refusals after some files are written; reproducibility |
| release publication | `release/*.ps1`, `.github/workflows/ci.yml` | a remote repository, release assets, a draft release | checks against a remote that others push to; jobs that stop half way |
| suite self checks | `suite-integrity/scripts/self_check.py`, `tools/parity.py` | none | comparisons of a tree with a manifest |

How they interact: the seats of a room run (roles that a room file describes and
`validate_rooms.py` has accepted) share one checkout.  The orchestrator records
`base`, `integration` and `final` with `update_run_state.py`; at the final commit
the seats mint records with `record_evidence.py`; `check_evidence.py` decides
whether the fourteen categories are covered.  They share no memory and send no
messages: they meet in the git repository and in two untracked directories below
`.solo/`.  All of them ask git through `gate_policy.py`.  The crawler and the other
site audit scripts fetch through the URL guard; the secret scanner asks git itself,
through bounded calls.  The release tools meet in the builder's output directory
and in a remote repository that others push to.

What makes each correct:

- run-state register: a set field never changes, fields fill in order, exit 0
  means the SHA is there and stays there, a recorded SHA is that of a clean
  supported HEAD, every invocation ends and the lock with it.
- recorder: a record describes the checkout it was minted in, whatever the
  command did to it; nothing runs but under exactly the plan that was confirmed; a
  record's digest is that of its own capture.
- gate: its exit code is the documented contract; a pass was earned by commands
  that really succeeded, or by the N/A matrix.
- process tree: a result is recorded only if nothing survives and both streams
  were read to their end.
- rooms: in a valid room no two concurrent seats write one file and every read
  has something to read, in every profile.
- crawler and scanner: exit 0 only if everything was looked at, and the tool ends
  whatever the network or git does.
- URL guard: nothing is contacted that was not vetted, at any hop of a chain.
- builder and publication: what is published is what was approved; no refusal
  and no death half-way lets a package through whose parts do not belong together.

`PROJECT.json` lists the hazards behind these at their source lines.

## 2. Plan

Order of work, most important behaviour first.

1. `GitCheckout`, `RunState` refining `RunRegister`, proofs: done.
2. `EvidenceRecorder`, `EvidenceGate`, proofs: done.
3. `ProcessTree`: command, descendants, two readers, timeout, proofs: done.
4. `RoomRules`, `RoomRun`: the rules of the validator and the run of a room that
   has passed them, proofs: done.
5. `UrlGuard`, `LinkCrawl`, and after them `BoundedGit`, `SecretScan`: the tools whose
   exit code 0 is a claim of completeness, proofs: done.
6. `ReleaseBuild`, `ReleaseBranch`, `ReleaseTag`: output files, branch and tag against
   a remote with other pushers, the three release jobs, proofs: done.

Left: a clock for the gate (expiry and age), power loss, the directory that cannot
be listed, and the pure text rules listed in section 7.

The runs stay few: one per question.  A new question goes to an instance that
already exists where one fits.

## 3. Modules

`MC...` modules give constants and bounds and nothing else.  Operators marked
"Mutant" are plausible bugs; each is named in `PROJECT.json` with the property that
must catch it.  They are no part of a specification.

### Run state, recorder, gate

**`GitCheckout`** (shared).  `head`, `dirt` and `made` are the checkout as the
tools can tell it apart: the commit, which of the three kinds of change
`repo_state` scans for are present outside the runtime directories, and the
commits that exist.  `Env` is everybody else: edit, stage, unstage, discard,
commit, checkout.  The operators `GitHead`, `TrackedInHead` and `ScanSees` are the
readings; each is used in a step of its own because each is a subprocess.

**`RunState`**.  One process per invocation.  `pc` names the call that is next:
`resolve` and `resolvelock` (`safe_run_state_path` of the file and of its lock, a git
command each), `lock` (`state_lock`), `recheck`, `rechecklock` and `refusing` (the same
two checks under the lock, where the second runs whatever the first said), `read`
(`read_state`), `head`, `tracked`, `scan` (`check_root`, `repo_state` being three steps),
`decide`, `compare` and `replace` (`write_state`), `unlock` (the `finally`).  `file` is
absent, corrupt or valid with three SHAs; two files have the same revision digest iff
they are equal.  `GitFails`, `GitHangs`, `GiveUp` and `Crash` are the failures.  `moved`,
`raced` and `agreed` are history variables that only properties read: since HEAD was read
somebody did more than make a new change; the write was overtaken by an editor; at one of
the scans the checkout was the commit read, and clean.  `ForeignSpec` adds an editor who
ignores the lock.

**`RunRegister`** is what the file promises: three fields, each written once and
only while no later one is set.  `RunState` implements it under
`sha <- file.sha`.

**`EvidenceRecorder`**.  One process per invocation of `preview`, `run` or `na`.
The readings of `_check_repo_identity`, the committed profile (`ListProfile`,
`CheckProfile`: the listing, then the blob), the path checks (`CheckPath`, one git command
each), the confirmation, the command (one step: `EndCommand` gives an exit code and, for a
bound category, the commit the output names), the re-check, `Judge`, the artifact, its
re-read digest and the record.  A token is the plan it binds, and the caller passes that of
any plan or none: every invocation that gets as far displays its own token, a refused one
too, and as a plain digest of the plan it can be computed without being shown.  `recs` and `logs` are the two kinds of
file.  Everything that ends an invocation without a further write, a kill
included, is `Abort`: a reader of the disk cannot tell the causes apart.

**`EvidenceGate`** EXTENDS the recorder with one checker process: HEAD, profile (listing
and blob), tree, tracking, three scans, the directory listing, then record and artifact of
each file in name order, the artifact a second time where its output must name HEAD
(`RereadArtifact`), then the decision.  `GateCannotTell` is a scan that fails
and fails the gate; `GateAbort` is a run without a verdict.

**`ProcessTree`** is the one step `EndCommand` of the recorder in full: `pc` follows
`_run_bounded` (launch, assign, release, wait, then `settle` and `check` when the
command returned, or `term`, `grace`, `kill`, `reap`, `verify`, which are
`_terminate_tree`, and `drain`, `judge`).  The command tree is everybody else: `Fork`,
`Write`, `CloseOutput`, `Leave` (setsid), exits.  Signals doom processes, which die
some time later; exited processes are zombies until somebody collects them, and a
process group with a zombie in it still exists.  `box` is the container: a job if
the variable `windows` is true, else a process group; the initial states have both.
A pipe is a count of bytes, as only completeness matters.  The Windows bootstrap and
the command it waits for are one process.

### Rooms

**`RoomRules`**.  A room is a record of functions (seat to stages, reads, writes,
proposals, hand-offs, commands, ...), a path a member of a small set.  `Valid(r)` is
`validate_room` returning no problem: each rule is a conjunct named for it, in the
order of the code.

**`RoomRun`**.  A room is a `draft`, is validated, and if `valid` is driven in one of
its profiles stage by stage: the seats of a stage start, read, write and propose in
parallel, the steward merges between stages, the freeze falls between two stages, a
loop repeats whole stages, and the run may stop anywhere.  `made`, `pending`, `late`,
`starved` and `since` record what exists, what waits for the steward, what was written
after the freeze, what was read in vain, and what was written since the finalizer and
the integrator were done.  The driver is a language model that follows
the runner guide; its steps are marked external in `PROJECT.json`, the rules are not.

### Crawler and scanner

**`UrlGuard`**.  `fetch` is the one guarded request under way: `vet` a hop (scheme,
internal name, every address of the DNS answer), `open` it, follow a redirect with
the method and the byte cap carried along, answer.  The web is a fixed function from
url to site, and any connection may fail.

**`LinkCrawl`** EXTENDS it with `main` of `check_links.py`: the queue, the sets
`discovered`, `seen` and `checked`, the page under way with the links left on it, the
four counted budgets and the clock (`Late`, which can strike between any two steps),
HEAD with its fallback to GET, and the exit code.

**`BoundedGit`** is `_git_bounded`: the main thread polls events, process and clock,
then judges, waits, joins the readers and returns; each of the two pipes has a
reader that keeps at most a cap; git ends, fails, or leaves a process behind that
holds the pipes.

**`SecretScan`** EXTENDS it with the scanner: the walk, `Take`, `Check` (size, then
kind) and `Read1` of each file while an editor replaces files (`Edit`), then the
history as a sequence of git calls (`Ask...` begins one, `Use...` takes the answer,
`GivesUp` is any refusal), with the five caps, the blob cache and the exit code.
`OutsideRoot` is a target outside the root that git names, `Unparseable` a listing entry
that cannot be read; either ends the scan as incomplete.

### Release

**`ReleaseBuild`**.  `dist` is the output directory, each file named by the commit it
was made from or torn; `build` is the run under way.  Files are written one after
another, a refusal or a death comes between any two, and the next build finds what
was left.

**`ReleaseBranch`** adds helpers (`prepare-release-branch`) that read the output
directory (the archive three times: `HashZip`, `ListZip`, `Extract`) and the remote's HEAD
step by step and push one candidate commit, while builds go on and others push.

**`ReleaseTag`** adds the tagger (`publish-approved-tag`: the branch, the tag, a fresh
clone, the tag and the branch once more, the push, the peeled tag) and the release jobs of
`ci.yml`: attempts that build, sign, create the draft, compare and promote it, and
are cancelled by the next push of the tag.  A failed attempt is run again as a whole
(`ReRun`) or, if `release-publish` is what failed, from that job on with the bundle that
is there (`ReRunPublish`).  A draft may be created beside one that is there.  `Meddle` is everybody else: the tag moved
or deleted, the release touched, a protection switched off.

### Proof modules

`RunStateProofs`, `EvidenceProofs`, `GateProofs` (which builds on `EvidenceProofs`),
`ProcessTreeProofs`, `RoomProofs`, `CrawlProofs`, `ScanProofs`, `ReleaseProofs`: see
section 6.

## 4. Runs

| run | instance | shows |
|---|---|---|
| `run_state` | 2 processes, 2 commits, clean tree, `advance`/`verify` of every stage | `Exclusive`, `AckedShaStays`, refinement of `RunRegister` |
| `run_state_repo` | 1 process, 2 commits (one tracks runtime files and this very file), all dirt, an editor | `QuietAdvanceIsClean`, `NoLostUpdate` |
| `run_state_live` | 2 processes, 1 commit, every outcome, fair | `EveryRunEnds`, `LockComesFree` |
| `recorder` | 1 process, 3 commits, two trees, two profiles, all dirt, a bound and a waived category | `RecordDescribesCheckout`, `ActsOnConfirmedPlan` with the token of any plan or none, types |
| `recorder_pair` | 2 processes, default paths | finding: a record with the digest of another run's output |
| `gate_verdict` | 1 recorder, two categories, three files, two commits and profiles, dirt | `VerdictIsContract` with duplicates, N/A records, bindings and dirt |
| `gate_race` | 1 recorder, two commits | `PassIsEarned`, `AcceptedArtifactShowsIt` while recorder, gate, file removal and HEAD interleave freely |
| `tree` | group and job, 2 children, 1 stream, limit 1, pipe of 2, 3 bytes, fair | `CaptureIsComplete`, `ContainerIsEmpty`, `SuccessWasUndisturbed`, `CommandIsInJob`, `AlwaysReturns`, `WritersNeverStick`, `ContainerDies` |
| `rooms` | three templates in the shape of the shipped rooms, each with up to two edits; 6 seats, 4 stages, 2 profiles, one loop lap | `DisjointWork`, `GateIsLast`, `FreezeHoldsDownstream`, `EvidenceIsFinal`, `VerifiersSeeIntegration`, `LossIsExplained` |
| `scanner` | disks with files of every kind and an editor, histories that meet every cap or cannot be listed, a target outside the repository; caps of 2 to 4 | `WholeOrNothing`, `FilesAreWhole`, `HistoryIsWhole`, `LimitsHold`, `ScanEnds` |
| `crawl` | nine small webs under every combination of small limits, two redirects at most | `OnlyThroughTheGuard`, `WithinBudgets`, `CleanMeansCovered`, `CrawlEnds` |
| `release` | six commits, two builds, one helper, one push by others; then a tagger that approves any commit, two attempts and re-runs of the publish job, two interventions | `BranchIsPackage`, `PushesOnlyCreate`, `GreenIsGood`, `PublishesItsOwn`, `PublicIsApproved` |

Bounds.  Processes take no notice of how many others there are except through the
lock, so two show every pairwise interference; the theorems are for any number.
Two commits are needed for "another commit", the third adds one with the same tree
or with tracked runtime files.  A category is enough for one file, two for
"missing" and for N/A.  `StaysClean` keeps the working tree clean where dirt is
not the question; `GateMeetsDirt` lets the gate meet one kind of it and no
recorder, which `recorder` has under all kinds.  `OneSuccess` lets the command
succeed at one commit only, `gate_race` has both.  A commit without a project profile
(`ProfileFileIn`) is in `recorder`: at such a commit the gate gives no verdict.  `FirstRecord` stops at the
first record, as a recorder never reads one.  `OneGate` stops after one verdict, as
the gate leaves nothing behind; `Undisturbed` also stops following a gate that
something disturbed, which the property excludes.  `OuterFields` keeps the
fields that the invocation only asks about empty or at one commit.  `made` never shrinks.
Symmetry is over processes only, and is not used with liveness.

In `tree` an output longer than the limit and longer than the pipe, a parent with
two children and a grandchild, and a member that survives SIGTERM and starts another
before SIGKILL all occur; `MaxOutput` is what the tree would write.

In `rooms` an edit changes one seat's stage, hand-off, reads, writes, proposals,
commands, profiles or workspace, or one of the room's own fields; with two, a change
that breaks a rule can be followed by one that satisfies it again in another way.
`MaxLaps` 1 is one return over every stage of the loop.  In `scanner` each cap is met by
some disks and not by others (`MaxFiles` 3: three entries pass and a fourth does not),
and a pipe of two units read two at a time is filled, cut and drained.  In `crawl` each
limit is met by some webs and not by others, and three urls make a chain longer than two
redirects. In `release`, `part` splits the behaviour in two: package to branch, then
branch to public release, the second starting where a helper of the first has ended; the
six commits are one for each point at which a build refuses and two with one package.
Two attempts show a cancelled one followed by another, two interventions one that is
undone or one before and one after a check.

Deadlock is checked in every run of `RunState`, `EvidenceRecorder` and
`EvidenceGate`: an idle process can always be invoked.  The other runs do not check
it: `tree`, `scanner` and `crawl` are one call or one program that ends, `rooms` is one
room that is refused, stopped or done, and in `release` every bound is used up.

Fairness.  In `run_state_live`: weak fairness of each process's own steps.  The code
justifies it: the lock is polled with a deadline, each git command has a limit of
60 s and nothing waits for anybody else.  `Crash`, `Env` and new invocations are not
fair.  In `tree`: of the recorder's thread, whose every wait has a limit, of each
reader thread while it can read, and of the death of whoever was killed.  The command
owes nothing: it may run, write and fork as long as it likes.  In `scanner`: of the
scanner's thread inside and outside a git call, and strongly of `RunsOut`, the clock
of a call, which is looked at again in each round of the polling loop; git and what
it leaves behind owe nothing.  In `crawl`: of the one thread; each request has a
timeout.  `rooms` and `release` assume none and claim no liveness: a seat is a language
model, a helper may die.

Type invariants.  `recorder` checks one.  `RunState`, `ProcessTree`, `EvidenceGate`,
`LinkCrawl`, `SecretScan`, `RoomRun` (`RunTypeOK`), `ReleaseBranch` and `ReleaseTag`
(`BranchTypeOK`, `TagTypeOK`) have theirs proved and not run.

## 5. Findings

`recorder_pair`: the digest in a record is computed from the file on disk, not from
the captured bytes.  Two recorders of one category can leave an exit-0 record bound to
the output of a failed command, and the gate accepts it because it looks at the
record's exit code and at the digest only.

Other places where the code does less than its text says.  Each is stated as a
definition of its module which TLC refutes when it is added to a run; no run
carries it permanently.

- `RecordedTreeWasClean` (`RunState`): `check_root` reads HEAD with one command and the
  dirt with others, and does not compare `repo_state`'s own `head` with it
  (`update_run_state.py:267`, against the docstring at `:35`).  If HEAD moves in
  between, the recorded SHA is of a tree no scan looked at.  The same happens without a
  move of HEAD: staged changes are asked for first and unstaged ones after them
  (`gate_policy.py:1346`), so a `git add` between the two is seen by neither, and a change
  that is dropped at the right moment leaves a tree that was dirty at every scan.  What
  does hold is `QuietAdvanceIsClean`: if all the others do in that time is to make new
  changes, the recorded commit is HEAD and was clean at one of the scans.
- `OnlyVerifyExitsOne` (`RunState`): `subprocess.TimeoutExpired` is neither `OSError` nor
  `TimeoutError`, so a git command over its limit ends any sub-command with exit 1
  (`update_run_state.py:419`), which the docstring reserves for a failed verification
  (`:48`).
- `WholeTreeIsGone` (`ProcessTree`): on POSIX a child that leaves the process group (a
  daemon does) and redirects its output is alive when the result is recordable
  (`record_evidence.py:512`, against the docstring at `:494`).  On Windows the promise
  holds: theorem `TreeGoneOnWindows`.
- `TrackedIsFrozen` (`RoomRun`): the rule looks at seats of strictly later stages
  (`validate_rooms.py:1337`), so a seat in the finalizer's own stage, or a loop across
  the freeze, can still write a tracked file, although the comment says "zero tracked
  writes after the freeze" (`:1340`).  What does hold is `FreezeHoldsDownstream`.
- `HistoryShown` (`SecretScan`): commit names are taken only if they have forty digits
  (`scan_secrets.py:712`), so in a SHA-256 repository the history has no commits and
  counts as complete, against the docstring at `:70`.  What does hold is
  `HistoryIsWhole`.

## 6. Proofs

All theorems hold for every value of the constants that the named assumptions allow.
No safety property is inductive as it stands; each module has a strengthening.

**`RunStateProofs`**: for `Spec`, `TypeCorrect`, `MutualExclusion`, `AcksAreDurable`,
`Refinement` (the abstract specification is implemented) and `FieldsNeverRewind`; for
`ForeignSpec`, with an editor who takes no lock, `ForeignTypes`, `ForeignExclusion`,
`QuietAdvance` and `LostUpdate`; every behaviour of `Spec` is one of `ForeignSpec`.
Mutual exclusion gives that what a process read is still the file (`ReadIsFresh`) and
that a write about to happen is one the register allows (`WriteIsLegal`): the field is
empty and no later one is set.  Then a write by another process can only fill an empty
field, and an acknowledged SHA stays.  `HeadIsRead` and `NoEarlyExit` say when `hd` and
`out` have a meaning.  What of this does not need everybody to take the lock is
`Grounds`.  Beside an editor `ReadIsFresh` and the acknowledgements fall; what is left
is `ReplaceIsFresh`: from the revision comparison to the write the file is what was
read, unless the editor was in between (`raced`).  `LostUpdate` needs no more: the write
then replaces a file that was read and parsed, and fills a field that is empty in it.
`QuietAdvance` uses `QuietKnows` beside it: as long as `moved` is false, HEAD is what the
process read, and once one scan has passed without seeing a change, either the tree was
clean at it (`agreed`) or a change is there that a later scan must see, as none goes
away.  The lock is assumed to be
what `flock` documents: exclusive, and released by the kernel at process end.

**`EvidenceProofs`**: `TypeCorrect`, `ConfirmedAlways`, `DescribesAlways`.  The
invariant says what a process holds at each point (`Holds`), where it can be in which
mode (`ModeFits`), that `repo_state` starts from nothing (`ScanBegins`), that the plan
under way is the confirmed one (`Confirmed`) and what is known of an untouched checkout
(`Knows`).

**`GateProofs`**: `GateTypes`, `EarnedAlways`, `ShownAlways`, `ContractAlways`, for any
number of recorders beside the gate.  `RanInv`: a capture or record that says "exit 0"
is of a command that did.  `EarnInv`: what the gate has accepted so far was earned.
`ShowInv`, with `SumInv`: the artifact whose digest is about to be compared is the
capture of the record.  `ShownAlways` needs one assumption more, that there is at most
one recorder: with two it is false, as `recorder_pair` shows.  `UndisturbedInv`: as long
as nobody disturbs the gate, what it has counted is what the files it has passed say.

**`ProcessTreeProofs`**: `TypeCorrect`, `CompleteCapture`, `EmptyContainer`,
`UndisturbedSuccess`, `NothingOutsideTheJob` and `TreeGoneOnWindows`.  `Books`: what a
reader has taken out of a pipe is in `data`, up to the limit.  `EofIsFinal`: at end of
file nobody holds the pipe, so nobody can pass it on.  `BoxHasRun` and `JobHoldsAll`:
who can be in the container, and that on Windows everybody is.  `OkMeans`: what
`cleanup_ok` stands for at each point; it is stable because an empty container stays
empty (`EmptyStays`) and a drained reader drained (`DrainedStays`).  `ExitMeans`: where
the exit code comes from and that nobody was stopped before it.  That a process id names
one process is built in.

**`RoomProofs`**: `DisjointAlways`, `GateIsLastAlways`, `VerifiersAlways`,
`FreezeAlways`, `EvidenceAlways`, `LossAlways`, `RoomTypes`, for every room, not only
the templates of the run.  `OnlyValid` ties the run to the rules, `InOrder` says that
only seats of the current stage work and the earlier ones have finished; with them each
theorem comes down to the rules of `RoomRules` that are about it.  `FreezeInv` says
where the stage and the loop can be once the tree is frozen.  `SinceInv`: what has been
written since the finalizer or the integrator was done comes from the steward's merge or
from another seat of the same or a later stage (`Overtakes`), as a lap that returns to an
earlier stage takes that seat along; `MergeInv`: no merge comes after the finalizer.  `VerifiersAlways` speaks of verifiers
in a later stage than an integrator of their profile; of the others it says no more than
that the builders are done.  `LossInv`: what a seat
that is done wrote is made, and what it proposed is made or pending (`Delivered`);
without worktrees a proposal is pending only until the end of its own stage, or for good
after the steward's last merge (`Waits`, `PendingInv`); and whoever read in vain did so
for one of the reasons the property names.

**`CrawlProofs`**: `TypeCorrect`, `GuardAlways`, `BudgetsAlways`, `CleanAlways`,
`NoEndlessCrawl`.  `FetchInv`: a hop is opened only when it was vetted, and an "ok"
stands for a vetted site.  `LoopInv`, `QueueInv`, `BudgetInv`: where the crawl is, what
is queued and what is spent.  `CoverInv` (`CheckedAnswer`, `PagesDone`, `LinksDone`,
`EndIsReached`): unless a reason has been noted, everything found so far is checked,
queued or still to do.  `NoEndlessCrawl` is the safety half of `CrawlEnds`: `Left` is
what is left of the requests, the stage of the loop, and the hops of the fetch or the
links of the page; every step makes less of it in that order, but for the one at which
the clock runs out, which leaves it alone.  A page is never taken from the queue twice
(`QueueInv`), so each turn of the page loop costs a request.

**`ScanProofs`**: `ScanTypes`, `WholeAlways`, `FilesAlways`, `HistoryAlways`,
`ScanLimitsAlways`, `NoEndlessScan`.  `CallInv`: nothing is lost between git and what is
kept unless a cap cut it (`NothingLost`), and what each point of a call has established
(`CallStage`).  `FileInv`: every listed file is still to do or has an outcome that fits
its content.  `HistInv`: how far the loops are (`Places`), what the call under way was
asked (`Asked`), and that all before that point is reported as long as the scan is
complete (`Reported`).  `NoEndlessScan` is the safety half of `ScanEnds` outside one git
call: `Rest` counts the parts of `main`, directories or commits, files or the stage of a
listing, entries, and the stage of one of them; each step of the scanner makes less of
it, git and the editor leave it alone.  The polling loop of one call is not counted: it
ends by the clock, and that is liveness.

**`ReleaseProofs`**: `PackageAlways`, `CreatesAlways`, `GreenAlways`,
`PublishesOwnAlways`, `ApprovedAlways`, `ReviewedAlways`, `BranchTypesAlways`,
`TagTypesAlways`, for any number of builds, helpers, attempts and interventions.
`BranchInv`: a whole provenance file that says "clean" names a commit found clean, and a
helper that has compared it with the package is bound to it.  `RunInv`: what an attempt
has established of tag and release as long as nobody touched them, and that a public
release that is fixed stays.  `QuietInv`: without interventions only the tagger and the
runs move the tag and the release.  `ReviewedAlways` joins both halves of the release,
which the run checks one after the other: what is public has the tree of one source
commit of this version, found clean by a build and pushed by a helper, unless somebody
meddled or the approved commit is one that others pushed.  `OriginInv`: a candidate
branch and the commit the tagger approves come from a helper or from others; `BuiltInv`:
a bundle in the release is of a commit the jobs can build.  `SawInv`, for
`CreatesAlways`: at its push the tagger knows where the review branch is, unless others
have pushed since its last look.

Assumptions: `CheckoutAssumption`, `RunStateAssumption`, `RecorderAssumption`,
`ProcessTreeAssumption`, `RoomsAssumption`, `RunAssumption`, `GuardAssumption`,
`CrawlAssumption`, `GitAssumption`, `ScanAssumption`, `OfAssumption`, `BuildsAssumption`,
`HeadsAssumption`, `RunsAssumption`.  They say that special values are not members of the
sets they are told from, that numbers are numbers, that a disk and a page hold finitely
many files and links, and that inputs are what the parsers accept or the file system can
hold.

Only model-checked: liveness (`EveryRunEnds`, `LockComesFree`, `AlwaysReturns`,
`WritersNeverStick`, `ContainerDies`, `ScanEnds`, `CrawlEnds`), which the proof system
does not reach: it has no rules for fairness and `ENABLED` here.  Every invariant and
every action property that a passing run checks is also a theorem.

## 7. Not modelled

- Command policy, schema evaluators, site audit scripts, suite self checks: pure
  functions of one argument vector, document or directory, without a state and
  without an order of events; a model would be a copy of their tables.  Prompts are
  text for a language model.  `PROJECT.json` gives the reason for each.
- Names, JSON text, messages and the rules about argv, file names and identifiers:
  pure functions of strings.  Which line is a secret, which address is private and
  which files a package contains are attributes of a file, a url, a commit.
- The clock of the gate: expiry and age.  Project, environment, reviewer and `run_id`
  are equal on both sides.
- Power loss: `atomic_write_bytes` syncs the file and not its directory; a crash in
  the models is a process crash.
- Symbolic links and junctions: a path that leaves its directory is a refusal
  (`Resolve`, `Recheck`, `Abort`); a swap between the last check and the write or, in the
  scanner, the read is not modelled.
- A FIFO or device in the scanned tree: its open blocks (`scan_secrets.py:241`) and the
  scan does not end.  In `SecretScan` every read ends.
- Overlapping `--out` and `--artifact` paths of different invocations: record files
  and captures are different files here.
- Two different commands of one category: a category stands for its command, so
  `ActsOnConfirmedPlan` tells plans apart by category, commit and tree.  That a person
  looked at the plan before passing its token is outside the program: nothing in it tells
  a token that was displayed from one that was computed (`record_evidence.py:728`).
- A process id that is used again after its process was collected.
- A directory that cannot be listed: `os.walk` passes over it without a note
  (`scan_secrets.py:342`); `FilesAreWhole` is about the listable ones.  Of a file that
  grows after its size was checked only the first `--max-bytes` and one are read
  (`:242`), and the file counts as inspected unless the cut falls inside a character;
  the property promises that part and no more.
- A page the parser cannot read counts as a page without links, in the code and in
  `CleanMeansCovered`; a name that resolves differently from one moment to the next.
- An unstaged steward as integrator: `VerifiersSeeIntegration` is about staged ones.  A
  verifier in the integrator's own stage, or whose integrator is not active in the
  profile, passes the validator (`validate_rooms.py:975`): for it the property demands
  only that the builders are done.  A seat beside the finalizer, and a loop spelled with
  a gap around the finalizer's or integrator's stage (`LoopSkips`), are let through too.
- What `LossIsExplained` accepts are the validator's own simplifications: a provider that
  the profile leaves out (`:1124`), a proposal after the steward's last stage (`:1421`).
- The review branch moving between the tagger's last look and its push: the tag then
  names the approved commit, which is no longer the tip of the branch.
- Re-running single jobs other than `release-publish`; which of several drafts of a tag
  GitHub shows may change from one request to the next, a run here goes on to see one.
- Builds that run at the same time, `SOURCE_DATE_EPOCH` (`build_release.py:453`: the same
  commit, other bytes) and the digest that is taken from the written archive (`:619`).
- Windows: byte-range locks and job objects are taken to do what `flock` and
  process groups do.
- Signing and the artifact store of the release jobs: they hand over what they were
  given.  The other jobs of `ci.yml`, and the inventory generator.
