------------------------------ MODULE RoomRules ------------------------------
(* The static rules of validate_rooms.py over one agent room: a document that *)
(* places seats in stages, says what each reads, writes, proposes and hands   *)
(* on, and names the gate it ends in.  A room is a record; a path is a member *)
(* of a small set, so path_match is equality here.  What the JSON schema      *)
(* demands of shapes and of prose fields is the type Room.  Valid(r) is the   *)
(* empty list of problems.                                                    *)
EXTENDS Integers

CONSTANTS Seats, Stages, Profiles, Categories,
          Memory,          \* tracked files under .solo/
          Code,            \* tracked files elsewhere
          RunStateFile,    \* the untracked carrier of the run's SHAs
          Record,          \* category -> its file under .solo/gate-evidence/
          Commands, Implicit,     \* command -> memory it writes by contract
          ManualCommands, ProductionReady, FinalizeEvidence,
          Worktrees, Folders,     \* values of "workspace"
          None, Unknown           \* an absent value; a name nobody defines

EvidenceFiles == {Record[c] : c \in Categories}
Tracked       == Memory \cup Code
Artifacts     == Tracked \cup {RunStateFile} \cup EvidenceFiles

\* The distinctions the rules make by prefix and by table are real ones.
ASSUME RoomsAssumption ==
  /\ Stages \in Nat \ {0}
  /\ None \notin Seats \cup Profiles \cup Commands
  /\ Unknown \notin Seats \cup Commands \cup {None}
  /\ Record \in [Categories -> EvidenceFiles]
  /\ RunStateFile \notin Tracked \cup EvidenceFiles
  /\ Tracked \cap EvidenceFiles = {}
  /\ Implicit \in [Commands -> SUBSET Memory]
  /\ {ProductionReady, FinalizeEvidence} \subseteq Commands
  /\ Implicit[ProductionReady] = {} /\ Implicit[FinalizeEvidence] = {}

Lifecycle == [finalizer : Seats \cup {Unknown},
              after : 0..Stages, before : 0..Stages]
Contract  == [seat : Seats \cup {Unknown}, complete : BOOLEAN,
              mode : {"merge", "checkout"},
              verify : SUBSET Seats, verifyFinal : SUBSET Seats]

\* A document the schema lets through.
Room ==
  [stage     : [Seats -> SUBSET (1..Stages)],      \* the stages listing a seat
   to        : [Seats -> SUBSET (Seats \cup {Unknown})],
   reads     : [Seats -> SUBSET Artifacts],
   writes    : [Seats -> SUBSET Artifacts],
   proposes  : [Seats -> SUBSET Artifacts],
   commands  : [Seats -> SUBSET (Commands \cup {Unknown})],
   human     : [Seats -> Commands \cup {None}],    \* human_handoff.command
   applies   : [Seats -> SUBSET Profiles],         \* {}: for every profile
   agent     : [Seats -> {"isolated", "shared", "note", "missing"}],
   workspace : [Seats -> Worktrees \cup Folders \cup {None}],
   profiles  : SUBSET Profiles,
   steward   : Seats \cup {None, Unknown},
   owns      : SUBSET Artifacts,
   through   : 0..Stages,                          \* 0: no active_through_stage
   gate      : Commands \cup {None},               \* None: gateless, with a note
   requires  : SUBSET Artifacts,
   assumes   : SUBSET Artifacts,
   covers    : SUBSET Categories,                  \* keys of gate_evidence_map
   locks     : SUBSET (Artifacts \X (Seats \cup {Unknown})),
   evidence  : Lifecycle \cup {None},
   worktrees : Contract \cup {None},
   loop      : SUBSET SUBSET Seats,                \* repeat_stages
   laps      : 0..Stages]                          \* max_iterations

------------------------------------------------------------------------------
(* What the rules speak about.                                               *)

Staged(r, s)   == r.stage[s] # {}
StageOf(r, s)  == CHOOSE i \in r.stage[s] : \A j \in r.stage[s] : i <= j
SeatsOf(r, i)  == {s \in Seats : i \in r.stage[s]}
Unstaged(r)    == r.steward \in Seats /\ ~Staged(r, r.steward)
Earlier(r, s, t) == Staged(r, s) /\ Staged(r, t) /\ StageOf(r, s) < StageOf(r, t)
SameStage(r, s, t) == Staged(r, s) /\ Staged(r, t) /\ StageOf(r, s) = StageOf(r, t)

Executors(r) == {s \in Seats : r.gate \in r.commands[s]}
Exit(r)      == CHOOSE e \in Seats : Executors(r) = {e}

ImplicitOf(r, s) == UNION {Implicit[c] : c \in r.commands[s] \cap Commands}
Effective(r, s)  == r.writes[s] \cup (ImplicitOf(r, s) \ r.proposes[s])

\* The seats a run of one profile executes; None stands for the profile-free
\* evaluation.  The unstaged steward runs out of band.
Active(r, p) ==
  {s \in Seats : /\ p = None \/ r.applies[s] = {} \/ p \in r.applies[s]
                 /\ ~(Unstaged(r) /\ s = r.steward)}

\* Handoffs of s, passed on by inactive seats to their own targets.
Contracted(r, act, s) ==
  LET skipped  == Seats \ act
      after(P) == r.to[s] \cup UNION {r.to[u] : u \in P}
      passing  == {P \in SUBSET skipped : after(P) \cap skipped \subseteq P}
  IN {t \in act : \A P \in passing : t \in after(P)}

Handoffs(r, act) == {e \in act \X act : e[2] \in Contracted(r, act, e[1])}

Entries(r, act) == {s \in act : \A t \in act : StageOf(r, s) <= StageOf(r, t)}

\* Closures, as what lies in every set that is closed under the edges.
Reachable(act, edges, from) ==
  LET closed == {P \in SUBSET act : /\ from \subseteq P
                                    /\ \A e \in edges : e[1] \in P => e[2] \in P}
  IN {t \in act : \A P \in closed : t \in P}

Reaching(act, edges, exit) ==
  LET closed == {P \in SUBSET act : /\ exit \in P
                                    /\ \A e \in edges : e[2] \in P => e[1] \in P}
  IN {s \in act : \A P \in closed : s \in P}

WorktreeSeats(r) == {s \in Seats : Staged(r, s) /\ r.workspace[s] \in Worktrees}

\* What a seat leaves behind for others: its writes, and its proposals of files
\* the steward owns; of an unstaged steward only the files it owns count.
Outputs(r, s) ==
  LET outs == r.writes[s] \cup (r.proposes[s] \cap r.owns)
  IN IF Unstaged(r) /\ s = r.steward THEN outs \cap r.owns ELSE outs

\* Mutant: the stages are not compared.
BeforeAnyStage(r, s) == {t \in Seats \ {s} : Unstaged(r) \/ Staged(r, t)}

\* A seat that counts as working before s.
Before(r, s) ==
  {t \in Seats \ {s} : \/ Unstaged(r) /\ t = r.steward
                       \/ Earlier(r, t, s)
                       \/ Unstaged(r) /\ s = r.steward /\ Staged(r, t)}

------------------------------------------------------------------------------
(* The rules, in the order of validate_room.                                 *)

Placement(r) ==
  /\ \A i \in 1..Stages : SeatsOf(r, i) # {}
  /\ r.steward # Unknown
  /\ r.steward \in Seats => r.owns # {}
  /\ \A s \in Seats : \/ \E i \in 1..Stages : r.stage[s] = {i}
                      \/ r.stage[s] = {} /\ s = r.steward

ProfilesDeclared(r) == \A s \in Seats : r.applies[s] \subseteq r.profiles

WriteOrPropose(r) == \A s \in Seats : r.writes[s] \cap r.proposes[s] = {}

HandoffsForward(r) ==
  \A s \in Seats : \A t \in r.to[s] :
    /\ t \in Seats
    /\ ~(Unstaged(r) /\ t = r.steward)
    /\ Staged(r, s) => StageOf(r, s) < StageOf(r, t)

OneExecutor(r) == r.gate # None => \E e \in Seats : Executors(r) = {e}

\* Mutant: a seat need not flow into the gate.
GraphHoldsNoFlow(r, p) ==
  LET act == Active(r, p)
  IN /\ act # {} /\ Reachable(act, Handoffs(r, act), Entries(r, act)) = act
     /\ r.gate # None => Exit(r) \in act

GraphHolds(r, p) ==
  LET act   == Active(r, p)
      edges == Handoffs(r, act)
  IN /\ act # {}
     /\ Reachable(act, edges, Entries(r, act)) = act
     /\ r.gate # None =>
          /\ Exit(r) \in act
          /\ Reaching(act, edges, Exit(r)) = act
          /\ \A s \in act \ {Exit(r), r.steward} : r.to[s] # {}

\* Mutant: only the profile-free graph is looked at.
GraphProfileFree(r) == GraphHolds(r, None)

Graph(r) == \A p \in r.profiles \cup {None} : GraphHolds(r, p)

\* Mutant: a room without a steward may propose.
WritesDeclaredAnyProposal(r) ==
  \A s \in Seats :
    /\ ImplicitOf(r, s) \subseteq r.writes[s] \cup r.proposes[s] \cup r.owns
    /\ r.steward # None /\ s # r.steward => r.writes[s] \cap r.owns = {}

WritesDeclared(r) ==
  \A s \in Seats :
    LET undeclared == ImplicitOf(r, s) \ (r.writes[s] \cup r.proposes[s])
    IN /\ undeclared \ (IF s = r.steward THEN r.owns ELSE {}) = {}
       /\ r.proposes[s] # {} => r.steward # None /\ r.proposes[s] \subseteq r.owns
       /\ r.steward # None /\ s # r.steward => r.writes[s] \cap r.owns = {}

\* Mutant: seats with a worktree of their own may write the same code.
OneWriterInMemory(r) ==
  \A s, t \in Seats : s # t /\ SameStage(r, s, t) =>
    Effective(r, s) \cap Effective(r, t) \subseteq Code \cup r.owns

OneWriter(r) ==
  \A s, t \in Seats : s # t /\ SameStage(r, s, t) =>
    \A a \in Effective(r, s) \cap Effective(r, t) :
      r.steward # None /\ a \in r.owns

LocksKept(r) ==
  \A l \in r.locks :
    /\ l[2] \in Seats
    /\ \A s \in Seats : l[1] \in Effective(r, s) =>
         s \in {l[2], r.steward} \/ l[1] \in r.proposes[s]

CodeWriter(r, s) == r.writes[s] \cap Code # {} \/ r.workspace[s] # None

WorkspacesOwned(r) ==
  \A s, t \in Seats :
    s # t /\ SameStage(r, s, t) /\ CodeWriter(r, s) /\ CodeWriter(r, t) =>
      r.workspace[s] # None /\ r.workspace[s] # r.workspace[t]

IntegrationAfterBuilders(r) ==
  LET wt == r.worktrees
      builders == WorktreeSeats(r)
  IN /\ wt.seat \in Seats
     /\ Staged(r, wt.seat) =>
          \A b \in builders \ {wt.seat} : Earlier(r, b, wt.seat)
     /\ wt.mode = "checkout" => \E b \in builders : builders = {b}
     /\ wt.mode = "merge" => builders # {wt.seat}
     /\ \A b \in Seats : r.workspace[b] \in Worktrees => RunStateFile \in r.reads[b]

\* Mutant: the verifiers' stages are not compared with the integrator's.
VerifiersAnywhere(r) ==
  LET wt == r.worktrees
  IN /\ wt.verify # {} /\ \A v \in wt.verify : RunStateFile \in r.reads[v]
     /\ r.gate # None => Exit(r) \in wt.verify \cup wt.verifyFinal

VerifiersAfterIntegration(r) ==
  LET wt == r.worktrees
  IN /\ wt.verify # {}
     /\ \A v \in wt.verify :
          /\ ~Earlier(r, v, wt.seat)
          /\ RunStateFile \in r.reads[v]
          /\ r.evidence # None =>
               v # r.evidence.finalizer /\ (r.gate # None => v # Exit(r))
     /\ r.evidence = None =>
          wt.verifyFinal = {} /\ (r.gate # None => Exit(r) \in wt.verify)
     /\ r.evidence # None =>
          /\ wt.verifyFinal # {}
          /\ \A v \in wt.verifyFinal : RunStateFile \in r.reads[v]
          /\ r.gate # None => Exit(r) \in wt.verifyFinal
          /\ r.evidence.finalizer \in wt.verifyFinal

WorktreeContract(r) ==
  IF WorktreeSeats(r) = {} THEN r.worktrees = None
  ELSE /\ r.worktrees # None
       /\ r.worktrees.complete
       /\ IntegrationAfterBuilders(r)
       /\ VerifiersAfterIntegration(r)

AgentsShipped(r) ==
  \A s \in Seats : /\ r.agent[s] # "missing"
                   /\ s \in WorktreeSeats(r) => r.agent[s] \in {"isolated", "note"}

NoReadBesideWrite(r) ==
  \A s, t \in Seats : s # t /\ SameStage(r, s, t) /\ t # r.steward =>
    r.reads[s] \cap r.writes[t] = {}

Provided(r, s, a) ==
  \/ a = RunStateFile /\ (r.worktrees # None \/ r.evidence # None)
  \/ /\ a # RunStateFile
     /\ \/ a \in r.assumes \cup r.writes[s]
        \/ Unstaged(r) /\ a \in r.owns
        \/ \E t \in Before(r, s) : a \in Outputs(r, t)

ReadsProvided(r) == \A s \in Seats : \A a \in r.reads[s] \ Code : Provided(r, s, a)

GateServed(r) ==
  r.gate # None => \A a \in r.requires :
    /\ a \in r.reads[Exit(r)] \cup r.writes[Exit(r)]
    /\ \/ a \in r.assumes
       \/ \E t \in Before(r, Exit(r)) : a \in Outputs(r, t)

Finalizer(r) ==
  LET f == r.evidence.finalizer
  IN /\ f \in Seats
     /\ r.agent[f] # "note"
     /\ r.commands[f] = {} /\ r.human[f] = FinalizeEvidence
     /\ r.applies[f] = {}
     /\ Earlier(r, f, Exit(r))
     /\ RunStateFile \in r.reads[f]
     /\ \A c \in r.covers : Record[c] \in r.writes[f]

Later(r) == {s \in Seats : Earlier(r, r.evidence.finalizer, s)}

\* Mutant: the gate's executor is exempt.
NothingTrackedLaterButGate(r) ==
  \A s \in Later(r) \ {Exit(r)} :
    (r.writes[s] \cup ImplicitOf(r, s)) \cap Tracked = {} /\ r.proposes[s] = {}

NothingTrackedLater(r) ==
  \A s \in Later(r) :
    (r.writes[s] \cup ImplicitOf(r, s)) \cap Tracked = {} /\ r.proposes[s] = {}

\* Mutant: the freeze may fall between any two neighbouring stages.
FreezeAnywhere(r) ==
  r.evidence.after \in 1..Stages /\ r.evidence.before = r.evidence.after + 1

FreezeBeforeFinalizer(r) ==
  LET ev == r.evidence
  IN /\ ev.after \in 1..Stages /\ ev.before = ev.after + 1
     /\ ev.before = StageOf(r, ev.finalizer)

\* Mutant: the steward may be active up to any stage.
StewardEnds(r) == r.steward # None => r.through # 0

StewardCutOff(r) ==
  r.steward # None => r.through # 0 /\ r.through < StageOf(r, r.evidence.finalizer)

OnlyFinalizerMints(r) ==
  \A s \in Seats \ {r.evidence.finalizer} :
    (r.writes[s] \cup r.proposes[s]) \cap EvidenceFiles = {}

EvidenceLifecycle(r) ==
  IF r.gate # ProductionReady THEN r.evidence = None
  ELSE /\ r.evidence # None
       /\ r.covers = Categories
       /\ Finalizer(r)
       /\ NothingTrackedLater(r)
       /\ FreezeBeforeFinalizer(r)
       /\ StewardCutOff(r)
       /\ OnlyFinalizerMints(r)

CommandsAllowed(r) ==
  \A s \in Seats :
    /\ r.commands[s] \subseteq Commands \ ManualCommands
    /\ r.human[s] # None => r.human[s] \in ManualCommands

LoopBounded(r) ==
  r.loop # {} => /\ \A g \in r.loop : \E i \in 1..Stages : g = SeatsOf(r, i)
                 /\ r.laps >= 1

Valid(r) ==
  /\ Placement(r) /\ ProfilesDeclared(r) /\ WriteOrPropose(r)
  /\ HandoffsForward(r) /\ OneExecutor(r)
  /\ WritesDeclared(r) /\ OneWriter(r) /\ LocksKept(r)
  /\ WorkspacesOwned(r) /\ WorktreeContract(r) /\ AgentsShipped(r)
  /\ NoReadBesideWrite(r) /\ ReadsProvided(r)
  /\ CommandsAllowed(r) /\ LoopBounded(r)
  /\ GateServed(r) /\ EvidenceLifecycle(r)
  /\ Graph(r)
==============================================================================
