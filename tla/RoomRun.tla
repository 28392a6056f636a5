------------------------------- MODULE RoomRun -------------------------------
(* A room is validated once and then driven stage by stage, the way the       *)
(* runner guide tells an orchestrator to: the seats of a stage work in        *)
(* parallel, the steward merges proposals between stages, the freeze falls    *)
(* between two stages, a loop repeats whole stages.  The properties are what  *)
(* the validator's rules are for: what can no longer go wrong when it passes. *)
EXTENDS RoomRules

CONSTANT MaxLaps       \* bound on the repetitions explored

ASSUME RunAssumption == MaxLaps \in Nat

VARIABLES room, phase, profile, stage,
          seat,        \* seat -> waiting, running, done
          made,        \* files that exist
          pending,     \* <<seat, file>> proposed and not merged
          late,        \* <<seat, file>> written after the freeze
          since,       \* seat -> <<writer, file>> written since it was done
          frozen,
          starved,     \* <<seat, file>> read when it did not exist
          laps

vars == <<room, phase, profile, stage, seat, made, pending, late, since,
          frozen, starved, laps>>
flow == <<room, phase, profile, stage, laps>>

Working == {s \in Active(room, profile) : stage \in room.stage[s]}

Fresh ==
  /\ phase = "draft" /\ profile = None /\ stage = 1
  /\ seat = [s \in Seats |-> "waiting"]
  /\ made = {} /\ pending = {} /\ late = {} /\ starved = {}
  /\ since = [s \in Seats |-> {}]
  /\ frozen = FALSE /\ laps = 0

Init == room \in Room /\ Fresh

Validate ==
  /\ phase = "draft"
  /\ phase' = IF Valid(room) THEN "valid" ELSE "refused"
  /\ UNCHANGED <<room, profile, stage, seat, made, pending, late, since,
                 frozen, starved, laps>>

\* The orchestrator records BASE_SHA before it spawns worktree builders.
Start(p) ==
  /\ phase = "valid" /\ phase' = "running"
  /\ p \in IF room.profiles = {} THEN {None} ELSE room.profiles
  /\ profile' = p
  /\ made' = room.assumes \cup
             (IF room.worktrees # None THEN {RunStateFile} ELSE {})
  /\ UNCHANGED <<room, stage, seat, pending, late, since, frozen, starved, laps>>

SeatStarts(s) ==
  /\ phase = "running" /\ s \in Working /\ seat[s] = "waiting"
  /\ seat' = [seat EXCEPT ![s] = "running"]
  /\ starved' = starved \cup
       ({s} \X (room.reads[s] \ (Code \cup made \cup room.writes[s])))
  /\ UNCHANGED <<flow, made, pending, late, since, frozen>>

\* The seats whose work is about the tree as they found it.
Anchors ==
  {s \in Seats : \/ room.evidence # None /\ s = room.evidence.finalizer
                 \/ room.worktrees # None /\ s = room.worktrees.seat}

\* What `since` becomes when w, a seat or (None) the steward's merge, writes.
Overtaken(w, files) ==
  [t \in Seats |-> IF t \in Anchors /\ seat[t] = "done"
                   THEN since[t] \cup ({w} \X files) ELSE since[t]]

SeatEnds(s) ==
  /\ phase = "running" /\ seat[s] = "running"
  /\ seat' = [seat EXCEPT ![s] = "done"]
  /\ made' = made \cup Effective(room, s)
  /\ pending' = pending \cup ({s} \X room.proposes[s])
  /\ late' = IF frozen THEN late \cup ({s} \X Effective(room, s)) ELSE late
  /\ since' = [Overtaken(s, Effective(room, s)) EXCEPT ![s] = {}]
  /\ UNCHANGED <<flow, frozen, starved>>

\* The steward merges after a stage, up to its last one, and not while
\* proposals sit in builders' branches that the integrator has yet to merge.
StewardMerges ==
  /\ room.steward # None
  /\ room.through = 0 \/ stage <= room.through
  /\ room.worktrees # None =>
       \/ \A b \in WorktreeSeats(room) : stage < StageOf(room, b)
       \/ Staged(room, room.worktrees.seat) /\
            StageOf(room, room.worktrees.seat) <= stage

StageDone == /\ phase = "running"
             /\ \A s \in Working : seat[s] = "done"

CloseStage ==
  LET merged == IF StewardMerges THEN {e[2] : e \in pending} ELSE {}
  IN /\ made' = made \cup merged \cup
                (IF frozen' THEN {RunStateFile} ELSE {})
     /\ pending' = IF StewardMerges THEN {} ELSE pending
     /\ late' = IF frozen THEN late \cup ({room.steward} \X merged) ELSE late
     /\ since' = Overtaken(None, merged)

NextStage ==
  /\ StageDone
  /\ frozen' = (frozen \/ (room.evidence # None /\ room.evidence.after = stage))
  /\ CloseStage
  /\ IF stage = Stages THEN phase' = "done" /\ stage' = stage
                       ELSE phase' = phase /\ stage' = stage + 1
  /\ UNCHANGED <<room, profile, seat, starved, laps>>

Looped == {i \in 1..Stages : SeatsOf(room, i) \in room.loop}

\* The loop's exit condition does not hold: its stages run once more.
Repeat ==
  /\ StageDone /\ laps < MaxLaps
  /\ stage \in Looped /\ \A i \in Looped : i <= stage
  /\ stage' \in Looped /\ \A i \in Looped : stage' <= i
  /\ seat' = [s \in Seats |->
                IF room.stage[s] \cap Looped # {} THEN "waiting" ELSE seat[s]]
  /\ laps' = laps + 1
  /\ frozen' = frozen
  /\ CloseStage
  /\ UNCHANGED <<room, phase, profile, starved>>

\* A failed handoff check, a NO-GO gate, a dirty tree at the freeze.
Stop ==
  /\ StageDone
  /\ phase' = "stopped"
  /\ UNCHANGED <<room, profile, stage, seat, made, pending, late, since,
                 frozen, starved, laps>>

Next == \/ Validate
        \/ \E p \in Profiles \cup {None} : Start(p)
        \/ \E s \in Seats : SeatStarts(s) \/ SeatEnds(s)
        \/ NextStage \/ Repeat \/ Stop

Spec == Init /\ [][Next]_vars

------------------------------------------------------------------------------
(* Properties.                                                               *)

\* Every variable has its type (the whole state of a run).
RunTypeOK ==
  /\ room \in Room
  /\ phase \in {"draft", "refused", "valid", "running", "stopped", "done"}
  /\ profile \in Profiles \cup {None}
  /\ stage \in 1..Stages /\ laps \in 0..MaxLaps /\ frozen \in BOOLEAN
  /\ seat \in [Seats -> {"waiting", "running", "done"}]
  /\ made \subseteq Artifacts
  /\ pending \subseteq Seats \X Artifacts /\ starved \subseteq Seats \X Artifacts
  /\ late \subseteq (Seats \cup {None}) \X Artifacts
  /\ since \in [Seats -> SUBSET ((Seats \cup {None}) \X Artifacts)]

\* Seats that work at the same time never write the same file, the implicit
\* writes of their commands included, and never share a place to write code in
\* (the steward's exemption in the one-writer rule opens no hole).
DisjointWork ==
  \A s, t \in Seats :
    s # t /\ seat[s] = "running" /\ seat[t] = "running" =>
      /\ Effective(room, s) \cap Effective(room, t) = {}
      /\ CodeWriter(room, s) /\ CodeWriter(room, t) =>
           room.workspace[s] # room.workspace[t]

\* When the gate's executor works, every other seat of this profile is done:
\* the verdict is about finished work, in every profile and in every lap.
NothingAfterGate ==
  room.gate # None /\ phase = "running" /\ seat[Exit(room)] = "running" =>
    \A s \in Active(room, profile) \ {Exit(room)} : seat[s] = "done"

\* A room that ran to its end ran its gate, whatever the profile.
GateRan ==
  phase = "done" /\ room.gate # None => seat[Exit(room)] = "done"

\* The gate judges every room, and judges it last.
GateIsLast == GateRan /\ NothingAfterGate

\* A loop whose stages lie on both sides of the freeze.
LoopCrossesFreeze ==
  /\ room.evidence # None
  /\ \E i \in Looped : i <= room.evidence.after
  /\ \E i \in Looped : i > room.evidence.after

\* After FINAL_SHA only seats of the finalizer's own stage can still write a
\* tracked file (the rule looks at strictly later stages), unless a loop leads
\* back across the freeze; the steward, staged or not, never does.
FreezeHoldsDownstream ==
  \A e \in late : e[2] \in Tracked /\ ~LoopCrossesFreeze =>
    /\ e[1] \in Seats
    /\ SameStage(room, e[1], room.evidence.finalizer)

\* After FINAL_SHA nothing tracked is written at all.
TrackedIsFrozen == \A e \in late : e[2] \notin Tracked

\* The loop is spelled with a gap: it returns to a stage before that of t and
\* goes on behind it, and does not repeat t's own.
LoopSkips(t) ==
  \E i, j \in Looped : /\ i < StageOf(room, t) /\ StageOf(room, t) < j
                       /\ StageOf(room, t) \notin Looped

\* When the production gate works, the tree is frozen, each of its categories
\* has a record that the finalizer wrote after the freeze, and the records are
\* about the tree the gate sees: whatever the laps of the loop and the merges
\* of the steward, no tracked file has been written since the finalizer was
\* done, but by a seat of the finalizer's own stage.
EvidenceIsFinal ==
  phase = "running" /\ room.gate = ProductionReady
    /\ seat[Exit(room)] = "running" =>
      LET f == room.evidence.finalizer
      IN /\ frozen
         /\ \A c \in Categories : <<f, Record[c]>> \in late
         /\ LoopSkips(f) \/ \A e \in since[f] :
              e[2] \in Tracked => e[1] \in Seats /\ SameStage(room, e[1], f)

\* A seat that verifies the integration commit works only when every builder of
\* the profile is done and, unless it shares the integrator's stage or the
\* integrator is not part of the profile, when that commit exists and no builder
\* has written since, in this lap of the loop or an earlier one.  Nothing of
\* this holds when the unstaged steward integrates: it has no stage to compare.
VerifierMayWork(v, i) ==
  /\ \A x \in (WorktreeSeats(room) \cap Active(room, profile)) \ {i, v} :
       seat[x] = "done"
  /\ \/ v = i \/ i \notin Active(room, profile) \/ SameStage(room, v, i)
     \/ /\ seat[i] = "done"
        /\ LoopSkips(i) \/ \A e \in since[i] : e[1] \notin WorktreeSeats(room)

VerifiersSeeIntegration ==
  room.worktrees # None /\ Staged(room, room.worktrees.seat) =>
    \A v \in room.worktrees.verify :
      seat[v] = "running" => VerifierMayWork(v, room.worktrees.seat)

\* A seat finds what it reads, and where it does not, one of the validator's
\* simplifications is the reason: the producer is not part of the profile; the
\* file is the steward's, and nobody need have merged it yet; the run state is
\* read before the freeze that creates it.
StarvationIsExplained ==
  \A e \in starved :
    \/ e[2] = RunStateFile /\ room.worktrees = None
    \/ e[2] \in room.owns /\
         (Unstaged(room) \/ room.through # 0 \/ room.worktrees # None)
    \/ \E t \in Seats \ Active(room, profile) : e[2] \in Outputs(room, t)

\* A proposal still unmerged when the room is done was made after the steward's
\* last stage, or waited for an integrator that came after it or never.
UnmergedIsExplained ==
  phase = "done" => \A e \in pending :
    /\ room.through # 0 \/ room.worktrees # None
    /\ room.worktrees = None => StageOf(room, e[1]) > room.through

\* What a seat asked for and did not get, or proposed and nobody merged, is
\* accounted for by a rule that the validator states.
LossIsExplained == StarvationIsExplained /\ UnmergedIsExplained
==============================================================================
