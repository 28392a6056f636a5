------------------------------ MODULE RoomProofs ------------------------------
(* What a valid room promises whatever its seats, profiles and stages are.    *)
EXTENDS RoomRun, TLAPS

Statuses == {"waiting", "running", "done"}
Phases   == {"draft", "refused", "valid", "running", "stopped", "done"}

\* The part of the types the proofs need.
Shape ==
  /\ room \in Room
  /\ phase \in Phases
  /\ seat \in [Seats -> Statuses]
  /\ stage \in 1..Stages
  /\ frozen \in BOOLEAN
  /\ profile \in room.profiles \cup {None}

\* Nothing moves before the room has passed validation.
OnlyValid ==
  /\ phase \notin {"draft", "refused"} => Valid(room)
  /\ phase \in {"draft", "refused", "valid"} =>
       /\ \A s \in Seats : seat[s] = "waiting"
       /\ stage = 1 /\ ~frozen /\ late = {}

\* Only seats of the current stage work, and the earlier ones have finished.
InOrder ==
  /\ \A s \in Seats : seat[s] = "running" => phase = "running" /\ s \in Working
  /\ phase = "running" => \A s \in Active(room, profile) :
       StageOf(room, s) < stage => seat[s] = "done"
  /\ phase = "done" => \A s \in Active(room, profile) : seat[s] = "done"

IInv == Shape /\ OnlyValid /\ InOrder

------------------------------------------------------------------------------
(* Facts about a valid document.                                             *)

\* A seat a run executes has exactly one stage, and StageOf returns it.
LEMMA ActiveHasStage ==
  ASSUME NEW r \in Room, Placement(r), NEW p, NEW s \in Active(r, p)
  PROVE  /\ Staged(r, s) /\ StageOf(r, s) \in 1..Stages
         /\ r.stage[s] = {StageOf(r, s)}
<1>1. PICK i \in 1..Stages : r.stage[s] = {i}
  BY DEF Placement, Active, Unstaged, Staged
<1>2. \E j \in r.stage[s] : \A k \in r.stage[s] : j <= k
  BY <1>1, RoomsAssumption, SMT
<1>3. StageOf(r, s) \in r.stage[s]
  BY <1>2 DEF StageOf
<1> QED BY <1>1, <1>3 DEF Staged

\* Any staged seat of a well-placed room has exactly one stage.
LEMMA StagedHasStage ==
  ASSUME NEW r \in Room, Placement(r), NEW s \in Seats, Staged(r, s)
  PROVE  StageOf(r, s) \in 1..Stages /\ r.stage[s] = {StageOf(r, s)}
<1>1. PICK i \in 1..Stages : r.stage[s] = {i}
  BY DEF Placement, Staged
<1>2. \E j \in r.stage[s] : \A k \in r.stage[s] : j <= k
  BY <1>1, RoomsAssumption, SMT
<1>3. StageOf(r, s) \in r.stage[s]
  BY <1>2 DEF StageOf
<1> QED BY <1>1, <1>3

\* Handing on through skipped seats still leads to a later stage.
LEMMA ContractedForward ==
  ASSUME NEW r \in Room, Placement(r), HandoffsForward(r),
         NEW act \in SUBSET Seats, NEW s \in Seats, Staged(r, s),
         NEW t \in Contracted(r, act, s)
  PROVE  Staged(r, t) /\ StageOf(r, s) < StageOf(r, t)
<1> DEFINE After(u) == Staged(r, u) /\ StageOf(r, s) < StageOf(r, u)
           P == {u \in Seats \ act : After(u)}
<1>1. \A w \in Seats : \A u \in r.to[w] : w = s \/ After(w) => u \in Seats /\ After(u)
  <2> SUFFICES ASSUME NEW w \in Seats, NEW u \in r.to[w], w = s \/ After(w)
               PROVE  u \in Seats /\ After(u)
    OBVIOUS
  <2>1. u \in Seats /\ Staged(r, w) /\ StageOf(r, w) < StageOf(r, u)
    BY DEF HandoffsForward
  <2>2. Staged(r, u)
    BY <2>1 DEF HandoffsForward, Placement, Unstaged, Staged
  <2>3. StageOf(r, s) \in Int /\ StageOf(r, w) \in Int /\ StageOf(r, u) \in Int
    BY <2>1, <2>2, StagedHasStage
  <2> QED BY <2>1, <2>2, <2>3
<1>2. \A u \in r.to[s] \cup UNION {r.to[w] : w \in P} : u \in Seats /\ After(u)
  BY <1>1
<1>3. (r.to[s] \cup UNION {r.to[w] : w \in P}) \cap (Seats \ act) \subseteq P
  BY <1>2
<1>4. t \in r.to[s] \cup UNION {r.to[w] : w \in P}
  BY <1>3 DEF Contracted
<1> QED BY <1>2, <1>4

\* In a valid room the gate's executor is the last seat of every profile.
THEOREM ExitIsLast ==
  ASSUME NEW r \in Room, Valid(r), r.gate # None,
         NEW p \in r.profiles \cup {None}
  PROVE  /\ Exit(r) \in Active(r, p)
         /\ \A s \in Active(r, p) \ {Exit(r)} : StageOf(r, s) < StageOf(r, Exit(r))
<1> DEFINE act == Active(r, p)
           edges == Handoffs(r, act)
           exit == Exit(r)
           P == {s \in act : s = exit \/ StageOf(r, s) < StageOf(r, exit)}
<1>1. Placement(r) /\ HandoffsForward(r) /\ GraphHolds(r, p)
  BY DEF Valid, Graph
<1>2. exit \in act /\ Reaching(act, edges, exit) = act
  BY <1>1 DEF GraphHolds
<1>3. act \subseteq Seats
  BY DEF Active
<1>4. \A e \in edges : e[2] \in P => e[1] \in P
  <2> SUFFICES ASSUME NEW e \in edges, e[2] \in P PROVE e[1] \in P
    OBVIOUS
  <2>1. e[1] \in act /\ e[2] \in act /\ e[2] \in Contracted(r, act, e[1])
    BY DEF Handoffs
  <2>2. Staged(r, e[1]) /\ StageOf(r, e[1]) \in Int
    BY <1>1, <2>1, ActiveHasStage
  <2>3. StageOf(r, e[2]) \in Int /\ StageOf(r, exit) \in Int
    BY <1>1, <1>2, <2>1, ActiveHasStage
  <2>4. StageOf(r, e[1]) < StageOf(r, e[2])
    BY <1>1, <1>3, <2>1, <2>2, ContractedForward
  <2> QED BY <2>1, <2>2, <2>3, <2>4
<1>5. \A s \in act : s \in P
  <2>1. P \in SUBSET act /\ exit \in P
    BY <1>2
  <2> HIDE DEF P, edges, act
  <2> QED BY <1>2, <1>4, <2>1 DEF Reaching
<1> QED BY <1>2, <1>5

\* Two seats of one stage of a valid room have no file and no workspace in
\* common.
LEMMA StageIsDisjoint ==
  ASSUME NEW r \in Room, Valid(r), NEW s \in Seats, NEW t \in Seats,
         s # t, SameStage(r, s, t)
  PROVE  /\ Effective(r, s) \cap Effective(r, t) = {}
         /\ CodeWriter(r, s) /\ CodeWriter(r, t) => r.workspace[s] # r.workspace[t]
<1>1. WritesDeclared(r) /\ OneWriter(r) /\ WorkspacesOwned(r)
  BY DEF Valid
<1>2. ASSUME NEW u \in Seats, u # r.steward, r.steward # None
      PROVE  Effective(r, u) \cap r.owns = {}
  <2>1. r.writes[u] \cap r.owns = {}
    BY <1>1, <1>2 DEF WritesDeclared
  <2>2. ImplicitOf(r, u) \ (r.writes[u] \cup r.proposes[u]) = {}
    BY <1>1, <1>2 DEF WritesDeclared
  <2> QED BY <2>1, <2>2 DEF Effective
<1>3. ASSUME NEW a \in Effective(r, s) \cap Effective(r, t) PROVE FALSE
  <2>1. r.steward # None /\ a \in r.owns
    BY <1>1, <1>3 DEF OneWriter
  <2>2. s # r.steward \/ t # r.steward
    OBVIOUS
  <2> QED BY <1>2, <1>3, <2>1, <2>2
<1>4. CodeWriter(r, s) /\ CodeWriter(r, t) => r.workspace[s] # r.workspace[t]
  BY <1>1 DEF WorkspacesOwned
<1> QED BY <1>3, <1>4

------------------------------------------------------------------------------
(* The inductive invariant.                                                  *)

\* The room begins with no stage run.
LEMMA InitInv == Init => IInv
<1> SUFFICES ASSUME Init PROVE IInv
  OBVIOUS
<1>1. Shape
  <2>1. 1 \in 1..Stages
    BY RoomsAssumption
  <2> QED BY <2>1 DEF Init, Fresh, Shape, Phases, Statuses
<1>2. OnlyValid
  BY DEF Init, Fresh, OnlyValid
<1>3. InOrder
  BY DEF Init, Fresh, InOrder
<1> QED BY <1>1, <1>2, <1>3 DEF IInv

\* Steps that do not move a running room along.
LEMMA QuietStep ==
  IInv /\ (Validate \/ (\E p \in Profiles \cup {None} : Start(p)) \/ Stop) => IInv'
<1> SUFFICES ASSUME IInv,
                    Validate \/ (\E p \in Profiles \cup {None} : Start(p)) \/ Stop
             PROVE  IInv'
  OBVIOUS
<1>1. CASE Validate
  BY <1>1 DEF Validate, IInv, Shape, OnlyValid, InOrder, Phases, Working, Active
<1>2. CASE \E p \in Profiles \cup {None} : Start(p)
  <2> PICK p \in Profiles \cup {None} : Start(p)
    BY <1>2
  <2>1. Shape'
    BY DEF Start, IInv, Shape, Phases
  <2>2. OnlyValid'
    BY DEF Start, IInv, OnlyValid
  <2>3. \A s \in Active(room, p) : ~(StageOf(room, s) < 1)
    BY ActiveHasStage DEF Start, IInv, OnlyValid, Shape, Valid
  <2>4. InOrder'
    BY <2>3 DEF Start, IInv, Shape, OnlyValid, InOrder, Active
  <2> QED BY <2>1, <2>2, <2>4 DEF IInv
<1>3. CASE Stop
  <2>1. \A s \in Seats : seat[s] # "running"
    BY <1>3 DEF Stop, StageDone, IInv, InOrder
  <2> QED BY <1>3, <2>1
    DEF Stop, StageDone, IInv, Shape, OnlyValid, InOrder, Phases
<1> QED BY <1>1, <1>2, <1>3

\* A seat's turn keeps the invariant.
LEMMA SeatStep ==
  ASSUME NEW s \in Seats, IInv, SeatStarts(s) \/ SeatEnds(s)
  PROVE  IInv'
<1>1. Shape'
  BY DEF SeatStarts, SeatEnds, flow, IInv, Shape, Statuses
<1>2. phase = "running" /\ UNCHANGED <<room, phase, profile, stage, frozen>>
  BY DEF SeatStarts, SeatEnds, flow
<1>3. OnlyValid'
  BY <1>2 DEF IInv, OnlyValid
<1>4. s \in Working
  BY DEF SeatStarts, SeatEnds, IInv, InOrder
<1>5. s \in Active(room, profile) /\ StageOf(room, s) = stage
  BY <1>2, <1>4, ActiveHasStage
  DEF Working, IInv, OnlyValid, Shape, Valid
<1>6. InOrder'
  <2>1. \A t \in Seats : seat'[t] = "running" => t \in Working
    BY <1>4 DEF SeatStarts, SeatEnds, IInv, Shape, InOrder
  <2>2. Working' = Working
    BY <1>2 DEF Working, Active
  <2>3. \A t \in Active(room, profile) : StageOf(room, t) < stage => seat'[t] = "done"
    <3> SUFFICES ASSUME NEW t \in Active(room, profile), StageOf(room, t) < stage
                 PROVE  seat'[t] = "done"
      OBVIOUS
    <3>1. seat[t] = "done" /\ t # s /\ t \in Seats
      BY <1>2, <1>5 DEF IInv, InOrder, Active, Shape
    <3> QED BY <3>1 DEF SeatStarts, SeatEnds, IInv, Shape
  <2> QED BY <1>2, <2>1, <2>2, <2>3 DEF InOrder, Active
<1> QED BY <1>1, <1>3, <1>6 DEF IInv

\* When a stage is done nobody is running, and all seats up to it are done.
LEMMA StageDoneMeans ==
  ASSUME IInv, StageDone
  PROVE  /\ \A s \in Seats : seat[s] # "running"
         /\ \A s \in Active(room, profile) :
              StageOf(room, s) \in 1..Stages
              /\ (StageOf(room, s) <= stage => seat[s] = "done")
<1>1. \A s \in Seats : seat[s] # "running"
  BY DEF StageDone, IInv, InOrder
<1>2. ASSUME NEW s \in Active(room, profile)
      PROVE  StageOf(room, s) \in 1..Stages
             /\ (StageOf(room, s) <= stage => seat[s] = "done")
  <2>1. StageOf(room, s) \in 1..Stages /\ room.stage[s] = {StageOf(room, s)}
    BY ActiveHasStage DEF StageDone, IInv, OnlyValid, Shape, Valid
  <2>2. CASE StageOf(room, s) < stage
    BY <2>1, <2>2 DEF StageDone, IInv, InOrder
  <2>3. CASE StageOf(room, s) = stage
    BY <2>1, <2>3 DEF StageDone, Working
  <2> QED BY <2>1, <2>2, <2>3, RoomsAssumption DEF IInv, Shape
<1> QED BY <1>1, <1>2

\* So does the end of a stage.
LEMMA NextStageStep == IInv /\ NextStage => IInv'
<1> SUFFICES ASSUME IInv, NextStage PROVE IInv'
  OBVIOUS
<1>1. StageDone /\ phase = "running" /\ UNCHANGED <<room, profile, seat>>
  BY DEF NextStage, StageDone
<1>2. Shape'
  BY <1>1, RoomsAssumption DEF NextStage, IInv, Shape, Phases
<1>3. OnlyValid'
  BY <1>1 DEF NextStage, IInv, OnlyValid
<1>4. InOrder'
  <2>1. CASE stage = Stages
    BY <1>1, <2>1, StageDoneMeans, RoomsAssumption
    DEF NextStage, InOrder, Active
  <2>2. CASE stage # Stages
    BY <1>1, <2>2, StageDoneMeans, RoomsAssumption
    DEF NextStage, InOrder, Active, IInv, Shape
  <2> QED BY <2>1, <2>2
<1> QED BY <1>2, <1>3, <1>4 DEF IInv

\* And so does sending a stage back.
LEMMA RepeatStep == IInv /\ Repeat => IInv'
<1> SUFFICES ASSUME IInv, Repeat PROVE IInv'
  OBVIOUS
<1>1. StageDone /\ phase = "running" /\ UNCHANGED <<room, phase, profile>>
  BY DEF Repeat, StageDone
<1>2. stage \in 1..Stages /\ stage' \in 1..Stages /\ stage' <= stage
      /\ \A i \in Looped : stage' <= i
  BY RoomsAssumption DEF Repeat, Looped, IInv, Shape
<1>3. Shape'
  BY <1>1, <1>2 DEF Repeat, IInv, Shape, Statuses
<1>4. OnlyValid'
  BY <1>1 DEF Repeat, IInv, OnlyValid
<1>5. InOrder'
  <2>1. \A s \in Seats : seat'[s] # "running"
    BY <1>1, StageDoneMeans DEF Repeat
  <2>2. ASSUME NEW s \in Active(room, profile), StageOf(room, s) < stage'
        PROVE  seat'[s] = "done"
    <3>1. StageOf(room, s) \in 1..Stages /\ room.stage[s] = {StageOf(room, s)}
      BY <1>1, ActiveHasStage DEF IInv, OnlyValid, Shape, Valid
    <3>2. StageOf(room, s) \notin Looped
      BY <1>2, <2>2, <3>1
    <3>3. room.stage[s] \cap Looped = {} /\ s \in Seats
      BY <3>1, <3>2 DEF Active
    <3>4. seat[s] = "done"
      BY <1>1, <1>2, <2>2, <3>1, StageDoneMeans
    <3> QED BY <3>3, <3>4 DEF Repeat
  <2> QED BY <1>1, <2>1, <2>2 DEF InOrder, Active
<1> QED BY <1>3, <1>4, <1>5 DEF IInv

\* Every step does.
LEMMA NextInv == IInv /\ [Next]_vars => IInv'
<1> SUFFICES ASSUME IInv, [Next]_vars PROVE IInv'
  OBVIOUS
<1>1. CASE UNCHANGED vars
  BY <1>1 DEF vars, IInv, Shape, OnlyValid, InOrder, Working, Active
<1>2. CASE Next
  BY <1>2, QuietStep, SeatStep, NextStageStep, RepeatStep DEF Next
<1> QED BY <1>1, <1>2

\* Seats work in the order of their stages, in a room that was validated.
THEOREM Safety == Spec => []IInv
<1> QED BY InitInv, NextInv, PTL DEF Spec

------------------------------------------------------------------------------
(* What follows from the order of the stages.                                *)

\* A running seat is at the current stage, of a validated room.
LEMMA RunningSeat ==
  ASSUME IInv, NEW s \in Seats, seat[s] = "running"
  PROVE  /\ phase = "running" /\ Valid(room) /\ Placement(room)
         /\ s \in Active(room, profile)
         /\ Staged(room, s) /\ StageOf(room, s) = stage /\ stage \in 1..Stages
<1>1. phase = "running" /\ s \in Active(room, profile) /\ stage \in room.stage[s]
  BY DEF IInv, InOrder, Working
<1>2. Valid(room) /\ Placement(room) /\ room \in Room /\ stage \in 1..Stages
  BY <1>1 DEF IInv, OnlyValid, Shape, Valid
<1> QED BY <1>1, <1>2, ActiveHasStage

\* An active seat of an earlier stage is done while the room runs.
LEMMA EarlierSeat ==
  ASSUME IInv, phase = "running", NEW s \in Active(room, profile),
         StageOf(room, s) < stage
  PROVE  seat[s] = "done"
BY DEF IInv, InOrder

\* The room's parallel seats have disjoint files and workspaces.
THEOREM DisjointAlways == Spec => []DisjointWork
<1>1. IInv => DisjointWork
  <2> SUFFICES ASSUME IInv, NEW s \in Seats, NEW t \in Seats, s # t,
                      seat[s] = "running", seat[t] = "running"
               PROVE  /\ Effective(room, s) \cap Effective(room, t) = {}
                      /\ CodeWriter(room, s) /\ CodeWriter(room, t) =>
                           room.workspace[s] # room.workspace[t]
    BY DEF DisjointWork
  <2>1. Valid(room) /\ room \in Room /\ SameStage(room, s, t)
    BY RunningSeat DEF SameStage, IInv, Shape
  <2> QED BY <2>1, StageIsDisjoint
<1> QED BY <1>1, Safety, PTL

\* The gate works after every other seat of the profile.
THEOREM NothingAfterAlways == Spec => []NothingAfterGate
<1>1. IInv => NothingAfterGate
  <2> SUFFICES ASSUME IInv, room.gate # None, phase = "running",
                      seat[Exit(room)] = "running",
                      NEW s \in Active(room, profile) \ {Exit(room)}
               PROVE  seat[s] = "done"
    BY DEF NothingAfterGate
  <2>1. Valid(room) /\ room \in Room /\ profile \in room.profiles \cup {None}
    BY DEF IInv, OnlyValid, Shape
  <2>2. Exit(room) \in Seats /\ StageOf(room, s) < StageOf(room, Exit(room))
    BY <2>1, ExitIsLast DEF Active
  <2>3. StageOf(room, Exit(room)) = stage
    BY <2>2, RunningSeat
  <2> QED BY <2>2, <2>3, EarlierSeat
<1> QED BY <1>1, Safety, PTL

\* A room that ends has run its gate.
THEOREM GateRanAlways == Spec => []GateRan
<1>1. IInv => GateRan
  <2> SUFFICES ASSUME IInv, phase = "done", room.gate # None
               PROVE  seat[Exit(room)] = "done"
    BY DEF GateRan
  <2>1. Valid(room) /\ room \in Room /\ profile \in room.profiles \cup {None}
    BY DEF IInv, OnlyValid, Shape
  <2>2. Exit(room) \in Active(room, profile)
    BY <2>1, ExitIsLast
  <2> QED BY <2>2 DEF IInv, InOrder
<1> QED BY <1>1, Safety, PTL

\* The gate judges every room that runs to its end, and judges it last.
THEOREM GateIsLastAlways == Spec => []GateIsLast
<1> QED BY NothingAfterAlways, GateRanAlways, PTL DEF GateIsLast

------------------------------------------------------------------------------
(* What overtakes a seat whose work is about the tree as it found it.        *)

\* Seat t has done its work in this lap, and the loop does not leave it out.
Settled(t) ==
  /\ t \in Anchors /\ Staged(room, t) /\ ~LoopSkips(t)
  /\ phase = "running" /\ seat[t] = "done"

\* What has been written since is the steward's merge, or comes from another
\* seat of the same or a later stage: a lap that returns to an earlier stage
\* takes t along.
Overtakes(t, e) ==
  \/ e[1] = None
  \/ /\ e[1] \in Seats \ {t} /\ e[2] \in Effective(room, e[1])
     /\ Staged(room, e[1]) /\ StageOf(room, e[1]) >= StageOf(room, t)

SinceInv ==
  /\ since = [t \in Seats |-> since[t]]
  /\ \A t \in Seats : Settled(t) =>
       /\ stage >= StageOf(room, t)
       /\ \A e \in since[t] : Overtakes(t, e)

\* Nobody has done anything before the room runs.
LEMMA SinceInit == Init => SinceInv
<1> SUFFICES ASSUME Init PROVE SinceInv
  OBVIOUS
<1>1. phase = "draft" /\ since = [t \in Seats |-> {}]
  BY DEF Init, Fresh
<1> QED BY <1>1 DEF SinceInv, Settled

\* The room's own document does not change.
LEMMA RoomStays ==
  ASSUME room' = room
  PROVE  /\ Anchors' = Anchors
         /\ \A t \in Seats : LoopSkips(t)' = LoopSkips(t)
         /\ \A t \in Seats : \A e : Overtakes(t, e)' = Overtakes(t, e)
BY DEF Anchors, LoopSkips, Looped, Overtakes

\* What a step adds to `since` it adds for every seat alike.
LEMMA OvertakenIs ==
  ASSUME NEW w, NEW files, NEW t \in Seats, NEW e \in Overtaken(w, files)[t]
  PROVE  e \in since[t] \/ (e[1] = w /\ e[2] \in files)
BY DEF Overtaken

\* Validating, starting and stopping write nothing.
LEMMA SinceQuiet ==
  ASSUME IInv, SinceInv,
         Validate \/ (\E p \in Profiles \cup {None} : Start(p)) \/ Stop
  PROVE  SinceInv'
<1>1. UNCHANGED <<room, stage, seat, since>>
  BY DEF Validate, Start, Stop
<1>2. \A t \in Seats : ~Settled(t)'
  <2>1. CASE Validate
    BY <2>1 DEF Validate, Settled
  <2>2. CASE \E p \in Profiles \cup {None} : Start(p)
    BY <1>1, <2>2 DEF Start, Settled, IInv, OnlyValid
  <2>3. CASE Stop
    BY <2>3 DEF Stop, Settled
  <2> QED BY <2>1, <2>2, <2>3
<1> QED BY <1>1, <1>2 DEF SinceInv

\* A seat that starts or ends is one of the current stage.
LEMMA SinceSeat ==
  ASSUME NEW s \in Seats, IInv, SinceInv, SeatStarts(s) \/ SeatEnds(s)
  PROVE  SinceInv'
<1>1. phase = "running" /\ UNCHANGED <<room, phase, profile, stage>>
  BY DEF SeatStarts, SeatEnds, flow
<1>2. room \in Room /\ Valid(room) /\ Placement(room)
      /\ seat \in [Seats -> Statuses] /\ stage \in 1..Stages
  BY <1>1 DEF IInv, OnlyValid, Shape, Valid
<1>3. Staged(room, s) /\ StageOf(room, s) = stage
  <2>1. s \in Working
    BY DEF SeatStarts, SeatEnds, IInv, InOrder
  <2> QED BY <1>1, <1>2, <2>1, ActiveHasStage DEF Working
<1>4. CASE SeatStarts(s)
  <2>1. since' = since /\ \A t \in Seats : seat'[t] = "done" => seat[t] = "done"
    BY <1>2, <1>4 DEF SeatStarts, flow
  <2>2. \A t \in Seats : Settled(t)' => Settled(t)
    BY <1>1, <2>1, RoomStays DEF Settled
  <2> QED BY <1>1, <2>1, <2>2, RoomStays DEF SinceInv
<1>5. CASE SeatEnds(s)
  <2>1. since' = [Overtaken(s, Effective(room, s)) EXCEPT ![s] = {}]
        /\ seat' = [seat EXCEPT ![s] = "done"]
    BY <1>5 DEF SeatEnds
  <2>2. since' = [t \in Seats |-> since'[t]]
    BY <2>1 DEF Overtaken
  <2>3. ASSUME NEW t \in Seats, Settled(t)', t = s
        PROVE  stage >= StageOf(room, t) /\ since'[t] = {}
    BY <1>2, <1>3, <2>1, <2>3 DEF Overtaken
  <2>4. ASSUME NEW t \in Seats, Settled(t)', t # s
        PROVE  /\ stage >= StageOf(room, t)
               /\ \A e \in since'[t] : Overtakes(t, e)
    <3>1. Settled(t) /\ stage >= StageOf(room, t)
      BY <1>1, <1>2, <2>1, <2>4, RoomStays DEF Settled, SinceInv
    <3>2. since'[t] = Overtaken(s, Effective(room, s))[t]
      BY <2>1, <2>4 DEF Overtaken
    <3>3. ASSUME NEW e \in since'[t] PROVE Overtakes(t, e)
      <4>1. e \in since[t] \/ (e[1] = s /\ e[2] \in Effective(room, s))
        BY <3>2, <3>3, OvertakenIs
      <4> QED BY <1>3, <2>4, <3>1, <4>1 DEF SinceInv, Overtakes
    <3> QED BY <3>1, <3>3
  <2> QED BY <1>1, <2>2, <2>3, <2>4, RoomStays DEF SinceInv
<1> QED BY <1>4, <1>5

\* Between stages only the steward writes, and no stage before a settled seat
\* comes back without it.
LEMMA SinceMove ==
  ASSUME IInv, SinceInv, NextStage \/ Repeat
  PROVE  SinceInv'
<1>1. StageDone /\ CloseStage /\ phase = "running" /\ room' = room
  BY DEF NextStage, Repeat, StageDone
<1>2. room \in Room /\ Placement(room) /\ stage \in 1..Stages
      /\ seat \in [Seats -> Statuses]
  BY <1>1 DEF IInv, OnlyValid, Shape, Valid
<1>3. PICK files : since' = Overtaken(None, files)
  BY <1>1 DEF CloseStage
<1>4. since' = [t \in Seats |-> since'[t]]
  BY <1>3 DEF Overtaken
<1>5. ASSUME NEW t \in Seats, Settled(t)'
      PROVE  /\ stage' >= StageOf(room, t)
             /\ \A e \in since'[t] : Overtakes(t, e)
  <2>1. seat'[t] = "done" => seat[t] = "done"
    BY <1>2 DEF NextStage, Repeat
  <2>2. Settled(t)
    BY <1>1, <1>5, <2>1, RoomStays DEF Settled
  <2>3. StageOf(room, t) \in 1..Stages /\ room.stage[t] = {StageOf(room, t)}
    BY <1>2, <2>2, StagedHasStage DEF Settled
  <2>4. stage >= StageOf(room, t)
    BY <2>2 DEF SinceInv
  <2>5. stage' >= StageOf(room, t)
    <3>1. CASE NextStage
      BY <1>2, <2>3, <2>4, <3>1, RoomsAssumption DEF NextStage
    <3>2. CASE Repeat
      <4>1. stage \in Looped /\ stage' \in Looped /\ stage' \in 1..Stages
        BY <3>2 DEF Repeat, Looped
      <4>2. StageOf(room, t) \notin Looped
        BY <1>5, <2>3, <3>2 DEF Repeat, Settled
      <4>3. stage > StageOf(room, t)
        BY <1>2, <2>3, <2>4, <4>1, <4>2, RoomsAssumption
      <4>4. ~(stage' < StageOf(room, t))
        BY <2>2, <4>1, <4>2, <4>3 DEF Settled, LoopSkips
      <4> QED BY <2>3, <4>1, <4>4, RoomsAssumption
    <3> QED BY <3>1, <3>2
  <2>6. ASSUME NEW e \in since'[t] PROVE Overtakes(t, e)
    <3>1. e \in since[t] \/ e[1] = None
      BY <1>3, <2>6, OvertakenIs
    <3> QED BY <2>2, <3>1 DEF SinceInv, Overtakes
  <2> QED BY <2>5, <2>6
<1> QED BY <1>1, <1>4, <1>5, RoomStays DEF SinceInv

\* Every step keeps what is known of later work.
LEMMA SinceNext == IInv /\ SinceInv /\ [Next]_vars => SinceInv'
<1> SUFFICES ASSUME IInv, SinceInv, [Next]_vars PROVE SinceInv'
  OBVIOUS
<1>1. CASE UNCHANGED vars
  BY <1>1, RoomStays DEF vars, SinceInv, Settled
<1>2. CASE Next
  BY <1>2, SinceQuiet, SinceSeat, SinceMove DEF Next
<1> QED BY <1>1, <1>2

\* A verifier of a later stage than a staged integrator that the profile has
\* finds all builders of the profile done, the integration done, and nothing of
\* a builder written since, whatever the laps; one beside the integrator, or
\* without it, finds the builders done.
THEOREM VerifiersAlways == Spec => []VerifiersSeeIntegration
<1>1. IInv /\ SinceInv => VerifiersSeeIntegration
  <2> SUFFICES ASSUME IInv, SinceInv, room.worktrees # None,
                      Staged(room, room.worktrees.seat),
                      NEW v \in room.worktrees.verify, seat[v] = "running"
               PROVE  VerifierMayWork(v, room.worktrees.seat)
    BY DEF VerifiersSeeIntegration
  <2> DEFINE i == room.worktrees.seat
  <2>3. room \in Room /\ room.worktrees \in Contract
    BY DEF IInv, Shape, Room
  <2>9. v \in Seats /\ phase = "running" /\ Valid(room) /\ Placement(room)
    BY <2>3, RunningSeat DEF Contract
  <2>1. room \in Room /\ Placement(room) /\ WorktreeContract(room)
    BY <2>3, <2>9 DEF Valid
  <2>2. IntegrationAfterBuilders(room) /\ VerifiersAfterIntegration(room)
    BY <2>1 DEF WorktreeContract
  <2>4. v \in Seats /\ i \in Seats /\ ~Earlier(room, v, i)
    BY <2>2, <2>9 DEF IntegrationAfterBuilders, VerifiersAfterIntegration
  <2>5. Staged(room, v) /\ StageOf(room, v) = stage /\ stage \in 1..Stages
    BY <2>4, RunningSeat
  <2>6. StageOf(room, i) \in 1..Stages /\ StageOf(room, i) <= stage
    BY <2>1, <2>4, <2>5, StagedHasStage, RoomsAssumption DEF Earlier
  <2>7. ASSUME NEW x \in (WorktreeSeats(room) \cap Active(room, profile)) \ {i, v}
        PROVE  seat[x] = "done"
    <3>1. StageOf(room, x) < StageOf(room, i)
      BY <2>2 DEF IntegrationAfterBuilders, Earlier
    <3>2. StageOf(room, x) \in 1..Stages
      BY <2>1, ActiveHasStage
    <3>3. StageOf(room, x) < stage
      BY <2>5, <2>6, <3>1, <3>2, RoomsAssumption
    <3> QED BY <2>9, <3>3, EarlierSeat
  <2>8. i \in Active(room, profile) /\ ~SameStage(room, v, i) => seat[i] = "done"
    <3> SUFFICES ASSUME i \in Active(room, profile), ~SameStage(room, v, i)
                 PROVE  seat[i] = "done"
      OBVIOUS
    <3>1. Staged(room, i)
      BY <2>1, ActiveHasStage
    <3>2. StageOf(room, i) < stage
      BY <2>5, <2>6, <3>1 DEF SameStage
    <3> QED BY <2>9, <3>2, EarlierSeat
  <2>10. ASSUME i \in Active(room, profile), ~SameStage(room, v, i), ~LoopSkips(i),
                NEW e \in since[i]
         PROVE  e[1] \notin WorktreeSeats(room)
    <3>1. Settled(i)
      BY <2>4, <2>8, <2>9, <2>10 DEF Settled, Anchors
    <3>2. Overtakes(i, e)
      BY <2>4, <2>10, <3>1 DEF SinceInv
    <3> SUFFICES ASSUME e[1] \in WorktreeSeats(room) PROVE FALSE
      OBVIOUS
    <3>3. e[1] \in Seats \ {i} /\ StageOf(room, e[1]) >= StageOf(room, i)
      BY <3>2, RoomsAssumption DEF Overtakes, WorktreeSeats
    <3>4. StageOf(room, e[1]) < StageOf(room, i)
      BY <2>2, <3>3 DEF IntegrationAfterBuilders, Earlier
    <3>5. StageOf(room, e[1]) \in 1..Stages
      BY <2>1, <3>3, StagedHasStage DEF WorktreeSeats
    <3> QED BY <2>6, <3>3, <3>4, <3>5, RoomsAssumption
  <2> QED BY <2>7, <2>8, <2>10 DEF VerifierMayWork
<1> QED BY <1>1, InitInv, NextInv, SinceInit, SinceNext, PTL DEF Spec

------------------------------------------------------------------------------
(* The freeze.                                                               *)

Finaliser == room.evidence.finalizer

\* Which side of the freeze the run is on, and what the finalizer leaves.
FreezeInv ==
  /\ room.evidence = None => ~frozen /\ late = {}
  /\ room.evidence # None /\ phase = "running" =>
       /\ stage > room.evidence.after => frozen
       /\ frozen /\ ~LoopCrossesFreeze => stage > room.evidence.after
  /\ room.evidence # None /\ phase \in {"running", "stopped", "done"} =>
       /\ seat[Finaliser] \in {"running", "done"} => frozen
       /\ seat[Finaliser] = "done" =>
            \A c \in Categories : <<Finaliser, Record[c]>> \in late
  /\ FreezeHoldsDownstream

\* What the rules say of a valid room with a lifecycle.
LEMMA LifecycleMeans ==
  ASSUME NEW r \in Room, Valid(r), r.evidence # None
  PROVE  LET f == r.evidence.finalizer IN
         /\ r.gate = ProductionReady /\ r.gate # None
         /\ f \in Seats /\ Staged(r, f)
         /\ r.evidence.after \in 1..Stages
         /\ StageOf(r, f) = r.evidence.after + 1 /\ StageOf(r, f) \in 1..Stages
         /\ StageOf(r, f) < StageOf(r, Exit(r))
         /\ \A c \in Categories : Record[c] \in r.writes[f]
         /\ \A s \in Seats : Earlier(r, f, s) => Effective(r, s) \cap Tracked = {}
         /\ r.steward # None => r.through # 0 /\ r.through < StageOf(r, f)
         /\ r.through \in 0..Stages
<1> DEFINE f == r.evidence.finalizer
<1>1. r.gate = ProductionReady /\ EvidenceLifecycle(r) /\ Placement(r)
  BY DEF Valid, EvidenceLifecycle
<1>2. /\ r.covers = Categories /\ Finalizer(r) /\ NothingTrackedLater(r)
      /\ FreezeBeforeFinalizer(r) /\ StewardCutOff(r)
  BY <1>1 DEF EvidenceLifecycle
<1>3. r.gate # None
  BY <1>1, RoomsAssumption
<1>4. f \in Seats /\ Staged(r, f) /\ StageOf(r, f) < StageOf(r, Exit(r))
      /\ \A c \in Categories : Record[c] \in r.writes[f]
  BY <1>2 DEF Finalizer, Earlier
<1>5. StageOf(r, f) \in 1..Stages
  BY <1>1, <1>4, StagedHasStage
<1>6. r.evidence.after \in 1..Stages /\ StageOf(r, f) = r.evidence.after + 1
  BY <1>2 DEF FreezeBeforeFinalizer
<1>7. ASSUME NEW s \in Seats, Earlier(r, f, s)
      PROVE  Effective(r, s) \cap Tracked = {}
  <2>1. (r.writes[s] \cup ImplicitOf(r, s)) \cap Tracked = {}
    BY <1>2, <1>7 DEF NothingTrackedLater, Later
  <2> QED BY <2>1 DEF Effective
<1>8. r.steward # None => r.through # 0 /\ r.through < StageOf(r, f)
  BY <1>2 DEF StewardCutOff
<1>9. r.through \in 0..Stages
  BY DEF Room
<1> QED BY <1>1, <1>3, <1>4, <1>5, <1>6, <1>7, <1>8, <1>9

\* Nothing is frozen at the start.
LEMMA FreezeInit == Init => FreezeInv
<1> SUFFICES ASSUME Init PROVE FreezeInv
  OBVIOUS
<1>1. phase = "draft" /\ ~frozen /\ late = {}
  BY DEF Init, Fresh
<1> QED BY <1>1 DEF FreezeInv, FreezeHoldsDownstream

\* Validating, starting and stopping thaw nothing.
LEMMA FreezeQuiet ==
  IInv /\ FreezeInv
    /\ (Validate \/ (\E p \in Profiles \cup {None} : Start(p)) \/ Stop)
  => FreezeInv'
<1> SUFFICES ASSUME IInv, FreezeInv,
                    Validate \/ (\E p \in Profiles \cup {None} : Start(p)) \/ Stop
             PROVE  FreezeInv'
  OBVIOUS
<1>1. UNCHANGED <<room, stage, seat, late, frozen>>
  BY DEF Validate, Start, Stop
<1>2. FreezeHoldsDownstream'
  BY <1>1 DEF FreezeInv, FreezeHoldsDownstream, LoopCrossesFreeze, Looped
<1>3. CASE Validate
  BY <1>1, <1>2, <1>3 DEF Validate, FreezeInv
<1>4. CASE \E p \in Profiles \cup {None} : Start(p)
  <2>1. phase = "valid" /\ phase' = "running"
    BY <1>4 DEF Start
  <2>2. Valid(room) /\ room \in Room /\ stage = 1 /\ ~frozen
        /\ \A s \in Seats : seat[s] = "waiting"
    BY <2>1 DEF IInv, OnlyValid, Shape
  <2>3. room.evidence # None =>
          Finaliser \in Seats /\ room.evidence.after \in 1..Stages
    BY <2>2, LifecycleMeans DEF Finaliser
  <2>4. room.evidence # None => ~(1 > room.evidence.after)
    BY <2>3, RoomsAssumption
  <2> QED BY <1>1, <1>2, <2>1, <2>2, <2>3, <2>4 DEF FreezeInv, Finaliser
<1>5. CASE Stop
  BY <1>1, <1>2, <1>5 DEF Stop, StageDone, FreezeInv, Finaliser
<1> QED BY <1>3, <1>4, <1>5

\* A seat's turn leaves what later stages froze.
LEMMA FreezeSeat ==
  ASSUME NEW s \in Seats, IInv, FreezeInv, SeatStarts(s) \/ SeatEnds(s)
  PROVE  FreezeInv'
<1>1. phase = "running" /\ UNCHANGED <<room, phase, profile, stage, frozen>>
  BY DEF SeatStarts, SeatEnds, flow
<1>2. room \in Room /\ Valid(room) /\ seat \in [Seats -> Statuses]
      /\ stage \in 1..Stages
  BY <1>1 DEF IInv, OnlyValid, Shape
<1>3. s \in Working
  BY DEF SeatStarts, SeatEnds, IInv, InOrder
<1>4. Staged(room, s) /\ StageOf(room, s) = stage
  BY <1>1, <1>2, <1>3, ActiveHasStage DEF Working, Valid
<1>5. LoopCrossesFreeze' = LoopCrossesFreeze
  BY <1>1 DEF LoopCrossesFreeze, Looped
<1>6. CASE room.evidence = None
  <2>1. ~frozen /\ late = {}
    BY <1>6 DEF FreezeInv
  <2>2. late' = {}
    BY <2>1 DEF SeatStarts, SeatEnds
  <2> QED BY <1>1, <1>6, <2>1, <2>2 DEF FreezeInv, FreezeHoldsDownstream
<1>7. CASE room.evidence # None
  <2> DEFINE f == room.evidence.finalizer
             after == room.evidence.after
  <2>1. /\ f \in Seats /\ Staged(room, f)
        /\ after \in 1..Stages /\ StageOf(room, f) = after + 1
        /\ \A c \in Categories : Record[c] \in room.writes[f]
        /\ \A t \in Seats : Earlier(room, f, t) => Effective(room, t) \cap Tracked = {}
    BY <1>2, <1>7, LifecycleMeans
  <2>2. s = f => frozen
    <3> SUFFICES ASSUME s = f PROVE frozen
      OBVIOUS
    <3>1. stage > after
      BY <1>2, <1>4, <2>1, RoomsAssumption
    <3> QED BY <1>1, <1>7, <3>1 DEF FreezeInv
  <2>3. late' = late \/ (frozen /\ late' = late \cup ({s} \X Effective(room, s)))
    BY DEF SeatStarts, SeatEnds
  <2>4. late \subseteq late'
    BY <2>3
  <2>5. seat'[f] \in {"running", "done"} => frozen
    BY <1>1, <1>2, <1>7, <2>1, <2>2 DEF SeatStarts, SeatEnds, FreezeInv, Finaliser
  <2>6. ASSUME seat'[f] = "done", NEW c \in Categories
        PROVE  <<f, Record[c]>> \in late'
    <3>1. CASE seat[f] = "done"
      BY <1>1, <1>7, <2>4, <3>1 DEF FreezeInv, Finaliser
    <3>2. CASE seat[f] # "done"
      <4>1. SeatEnds(s) /\ s = f /\ frozen
        BY <1>2, <2>1, <2>2, <2>6, <3>2 DEF SeatStarts, SeatEnds
      <4>2. Record[c] \in Effective(room, f)
        BY <2>1 DEF Effective
      <4>3. late' = late \cup ({f} \X Effective(room, f))
        BY <4>1 DEF SeatEnds
      <4> QED BY <4>2, <4>3
    <3> QED BY <3>1, <3>2
  <2>7. FreezeHoldsDownstream'
    <3> SUFFICES ASSUME NEW e \in late', e[2] \in Tracked, ~LoopCrossesFreeze
                 PROVE  e[1] \in Seats /\ SameStage(room, e[1], f)
      BY <1>1, <1>5 DEF FreezeHoldsDownstream
    <3>1. CASE e \in late
      BY <3>1 DEF FreezeInv, FreezeHoldsDownstream
    <3>2. CASE e \notin late
      <4>1. frozen /\ e[1] = s /\ e[2] \in Effective(room, s)
        BY <2>3, <3>2
      <4>2. stage > after
        BY <1>1, <1>7, <4>1 DEF FreezeInv
      <4>3. ~Earlier(room, f, s)
        BY <2>1, <4>1
      <4>4. StageOf(room, s) = StageOf(room, f)
        BY <1>2, <1>4, <2>1, <4>2, <4>3, RoomsAssumption DEF Earlier
      <4> QED BY <1>4, <2>1, <4>1, <4>4 DEF SameStage
    <3> QED BY <3>1, <3>2
  <2> QED BY <1>1, <1>5, <1>7, <2>5, <2>6, <2>7 DEF FreezeInv, Finaliser
<1> QED BY <1>6, <1>7

\* Closing a stage: the steward writes nothing once the tree is frozen.
LEMMA FreezeClose ==
  ASSUME IInv, FreezeInv, StageDone, CloseStage, room' = room,
         room.evidence # None
  PROVE  late \subseteq late' /\ FreezeHoldsDownstream'
<1> DEFINE f == room.evidence.finalizer
           after == room.evidence.after
<1>1. phase = "running" /\ room \in Room /\ Valid(room) /\ stage \in 1..Stages
  BY DEF StageDone, IInv, OnlyValid, Shape
<1>2. /\ after \in 1..Stages /\ StageOf(room, f) = after + 1
      /\ room.steward # None => room.through # 0 /\ room.through < StageOf(room, f)
      /\ room.through \in 0..Stages
  BY <1>1, LifecycleMeans
<1>3. LoopCrossesFreeze' = LoopCrossesFreeze
  BY DEF LoopCrossesFreeze, Looped
<1>4. late \subseteq late'
  BY DEF CloseStage
<1>5. ASSUME ~LoopCrossesFreeze, frozen PROVE late' = late
  <2>1. stage > after
    BY <1>1, <1>5 DEF FreezeInv
  <2>2. ~StewardMerges
    <3> SUFFICES ASSUME StewardMerges PROVE FALSE
      OBVIOUS
    <3>1. stage <= room.through /\ room.through < after + 1
      BY <1>2 DEF StewardMerges
    <3>2. after \in Int /\ stage \in Int /\ room.through \in Int
      BY <1>1, <1>2
    <3> QED BY <2>1, <3>1, <3>2
  <2> QED BY <2>2 DEF CloseStage
<1>6. ~frozen => late' = late
  BY DEF CloseStage
<1>7. FreezeHoldsDownstream'
  BY <1>3, <1>5, <1>6 DEF FreezeInv, FreezeHoldsDownstream
<1> QED BY <1>4, <1>7

\* Moving between stages freezes before it lets others read.
LEMMA FreezeMove ==
  ASSUME IInv, FreezeInv, NextStage \/ Repeat
  PROVE  FreezeInv'
<1>1. StageDone /\ CloseStage /\ phase = "running" /\ room' = room
  BY DEF NextStage, Repeat, StageDone
<1>2. room \in Room /\ Valid(room) /\ stage \in 1..Stages
      /\ seat \in [Seats -> Statuses]
  BY <1>1 DEF IInv, OnlyValid, Shape
<1>3. CASE room.evidence = None
  <2>1. ~frozen /\ late = {}
    BY <1>3 DEF FreezeInv
  <2>2. late' = {}
    BY <1>1, <2>1 DEF CloseStage
  <2>3. ~frozen'
    BY <1>3, <2>1 DEF NextStage, Repeat
  <2> QED BY <1>1, <1>3, <2>2, <2>3 DEF FreezeInv, FreezeHoldsDownstream
<1>4. CASE room.evidence # None
  <2> DEFINE f == room.evidence.finalizer
             after == room.evidence.after
  <2>1. f \in Seats /\ after \in 1..Stages
    BY <1>2, <1>4, LifecycleMeans
  <2>2. late \subseteq late' /\ FreezeHoldsDownstream'
    BY <1>1, <1>4, FreezeClose
  <2>3. frozen => frozen'
    BY DEF NextStage, Repeat
  <2>4. seat'[f] \in {"running", "done"} => seat'[f] = seat[f]
    BY <1>2, <2>1 DEF NextStage, Repeat
  <2>5. seat'[f] \in {"running", "done"} => frozen'
    BY <1>1, <1>4, <2>3, <2>4 DEF FreezeInv, Finaliser
  <2>6. seat'[f] = "done" => \A c \in Categories : <<f, Record[c]>> \in late'
    BY <1>1, <1>4, <2>2, <2>4 DEF FreezeInv, Finaliser
  <2>7. LoopCrossesFreeze' = LoopCrossesFreeze
    BY <1>1 DEF LoopCrossesFreeze, Looped
  <2>8. /\ stage > after => frozen
        /\ frozen /\ ~LoopCrossesFreeze => stage > after
    BY <1>1, <1>4 DEF FreezeInv
  <2>9. ASSUME phase' = "running"
        PROVE  /\ stage' > after => frozen'
               /\ frozen' /\ ~LoopCrossesFreeze => stage' > after
    <3>1. CASE NextStage
      <4>1. stage' = stage + 1
        BY <1>1, <2>9, <3>1 DEF NextStage
      <4>2. frozen' <=> frozen \/ after = stage
        BY <1>4, <3>1 DEF NextStage
      <4>3. stage \in Int /\ after \in Int
        BY <1>2, <2>1
      <4>4. CASE frozen
        BY <2>8, <4>1, <4>2, <4>3, <4>4
      <4>5. CASE ~frozen
        BY <2>8, <4>1, <4>2, <4>3, <4>5
      <4> QED BY <4>4, <4>5
    <3>2. CASE Repeat
      <4>1. /\ frozen' = frozen /\ stage \in Looped /\ stage' \in Looped
            /\ stage' \in 1..Stages /\ stage' <= stage
        BY <3>2 DEF Repeat, Looped
      <4>2. stage' > after => frozen'
        BY <1>2, <2>1, <2>8, <4>1, RoomsAssumption
      <4>3. frozen' /\ ~LoopCrossesFreeze => stage' > after
        BY <1>2, <1>4, <2>1, <2>8, <4>1, RoomsAssumption
        DEF LoopCrossesFreeze
      <4> QED BY <4>2, <4>3
    <3> QED BY <3>1, <3>2
  <2> QED BY <1>1, <1>4, <2>2, <2>5, <2>6, <2>7, <2>9 DEF FreezeInv, Finaliser
<1> QED BY <1>3, <1>4

\* Every step keeps what is frozen.
LEMMA FreezeNext == IInv /\ FreezeInv /\ [Next]_vars => FreezeInv'
<1> SUFFICES ASSUME IInv, FreezeInv, [Next]_vars PROVE FreezeInv'
  OBVIOUS
<1>1. CASE UNCHANGED vars
  BY <1>1 DEF vars, FreezeInv, FreezeHoldsDownstream, LoopCrossesFreeze, Looped,
              Finaliser
<1>2. CASE Next
  BY <1>2, FreezeQuiet, FreezeSeat, FreezeMove DEF Next
<1> QED BY <1>1, <1>2

\* After the freeze only the finalizer's own stage can write tracked files,
\* unless a loop leads back across the freeze.
THEOREM FreezeAlways == Spec => []FreezeHoldsDownstream
<1>1. FreezeInv => FreezeHoldsDownstream
  BY DEF FreezeInv
<1> QED BY <1>1, InitInv, NextInv, FreezeInit, FreezeNext, PTL DEF Spec

\* No merge of the steward comes after the finalizer: he is cut off before it.
MergeInv ==
  \A f \in Seats : room.evidence # None /\ f = Finaliser /\ Settled(f) =>
    \A e \in since[f] : e[1] # None

\* Every step keeps it that way.
LEMMA MergeNext == IInv /\ SinceInv /\ MergeInv /\ [Next]_vars => MergeInv'
<1> SUFFICES ASSUME IInv, SinceInv, MergeInv, [Next]_vars,
                    NEW f \in Seats, room'.evidence # None,
                    f = Finaliser', Settled(f)'
             PROVE  \A e \in since'[f] : e[1] # None
  BY DEF MergeInv
<1>1. CASE UNCHANGED vars
  BY <1>1, RoomStays DEF vars, MergeInv, Settled, Finaliser
<1>2. CASE Validate \/ (\E p \in Profiles \cup {None} : Start(p)) \/ Stop
  BY <1>2 DEF Validate, Start, Stop, Settled, IInv, OnlyValid
<1>3. ASSUME NEW s \in Seats, SeatStarts(s) \/ SeatEnds(s)
      PROVE  \A e \in since'[f] : e[1] # None
  <2>1. UNCHANGED <<room, phase>> /\ seat \in [Seats -> Statuses]
    BY <1>3 DEF SeatStarts, SeatEnds, flow, IInv, Shape
  <2>2. CASE f = s /\ SeatEnds(s)
    BY <2>2 DEF SeatEnds, Overtaken
  <2>3. CASE ~(f = s /\ SeatEnds(s))
    <3>1. Settled(f)
      BY <1>3, <2>1, <2>3, RoomStays DEF SeatStarts, SeatEnds, Settled
    <3>2. \A e \in since[f] : e[1] # None
      BY <2>1, <3>1 DEF MergeInv, Finaliser
    <3>3. CASE SeatStarts(s)
      BY <3>2, <3>3 DEF SeatStarts
    <3>4. CASE SeatEnds(s)
      <4>1. since'[f] = Overtaken(s, Effective(room, s))[f]
        BY <2>3, <3>4 DEF SeatEnds, Overtaken
      <4> QED BY <3>2, <4>1, OvertakenIs, RoomsAssumption
    <3> QED BY <1>3, <3>3, <3>4
  <2> QED BY <2>2, <2>3
<1>4. CASE NextStage \/ Repeat
  <2>1. StageDone /\ CloseStage /\ phase = "running" /\ room' = room
    BY <1>4 DEF NextStage, Repeat, StageDone
  <2>2. room \in Room /\ Valid(room) /\ stage \in 1..Stages
        /\ seat \in [Seats -> Statuses]
    BY <2>1 DEF IInv, OnlyValid, Shape
  <2>3. seat'[f] = "done" => seat[f] = "done"
    BY <1>4, <2>2 DEF NextStage, Repeat
  <2>4. Settled(f)
    BY <2>1, <2>3, RoomStays DEF Settled
  <2>5. /\ stage >= StageOf(room, f)
        /\ \A e \in since[f] : e[1] # None
    BY <2>1, <2>4 DEF SinceInv, MergeInv, Finaliser
  <2>6. /\ StageOf(room, f) \in 1..Stages
        /\ room.steward # None => room.through # 0 /\ room.through < StageOf(room, f)
        /\ room.through \in 0..Stages
    BY <2>1, <2>2, LifecycleMeans DEF Finaliser
  <2>7. ~StewardMerges
    BY <2>2, <2>5, <2>6, RoomsAssumption DEF StewardMerges
  <2>8. since' = Overtaken(None, {})
    BY <2>1, <2>7 DEF CloseStage
  <2> QED BY <2>5, <2>8, OvertakenIs
<1> QED BY <1>1, <1>2, <1>3, <1>4 DEF Next

\* The production gate judges records the finalizer wrote after the freeze, and
\* unless the loop leaves the finalizer out, nothing tracked was written since
\* by anybody but a seat of its own stage.
THEOREM EvidenceAlways == Spec => []EvidenceIsFinal
<1>1. IInv /\ FreezeInv /\ SinceInv /\ MergeInv => EvidenceIsFinal
  <2> SUFFICES ASSUME IInv, FreezeInv, SinceInv, MergeInv, phase = "running",
                      room.gate = ProductionReady, seat[Exit(room)] = "running"
               PROVE  /\ frozen
                      /\ \A c \in Categories : <<Finaliser, Record[c]>> \in late
                      /\ LoopSkips(Finaliser) \/ \A e \in since[Finaliser] :
                           e[2] \in Tracked =>
                             e[1] \in Seats /\ SameStage(room, e[1], Finaliser)
    BY DEF EvidenceIsFinal, Finaliser
  <2>1. room \in Room /\ Valid(room) /\ profile \in room.profiles \cup {None}
    BY DEF IInv, OnlyValid, Shape
  <2>2. EvidenceLifecycle(room) /\ room.gate # None
    BY <2>1, RoomsAssumption DEF Valid
  <2>3. room.evidence # None /\ Finalizer(room)
    BY <2>2 DEF EvidenceLifecycle
  <2>4. Finaliser \in Active(room, profile)
    BY <2>3 DEF Finaliser, Finalizer, Earlier, Active, Unstaged
  <2>5. Exit(room) \in Seats
    BY <2>1, <2>2, ExitIsLast DEF Active
  <2>6. StageOf(room, Finaliser) < stage
    BY <2>1, <2>3, <2>5, RunningSeat, LifecycleMeans DEF Finaliser
  <2>7. seat[Finaliser] = "done"
    BY <2>4, <2>6, EarlierSeat
  <2>8. ASSUME ~LoopSkips(Finaliser), NEW e \in since[Finaliser], e[2] \in Tracked
        PROVE  e[1] \in Seats /\ SameStage(room, e[1], Finaliser)
    <3>1. /\ Finaliser \in Seats /\ Staged(room, Finaliser)
          /\ \A s \in Seats : Earlier(room, Finaliser, s)
                               => Effective(room, s) \cap Tracked = {}
      BY <2>1, <2>3, LifecycleMeans DEF Finaliser
    <3>2. Settled(Finaliser)
      BY <2>3, <2>7, <2>8, <3>1 DEF Settled, Anchors, Finaliser
    <3>3. Overtakes(Finaliser, e) /\ e[1] # None
      BY <2>3, <2>8, <3>1, <3>2 DEF SinceInv, MergeInv
    <3>4. /\ e[1] \in Seats /\ e[2] \in Effective(room, e[1])
          /\ Staged(room, e[1])
          /\ StageOf(room, e[1]) >= StageOf(room, Finaliser)
      BY <3>3 DEF Overtakes
    <3>5. ~Earlier(room, Finaliser, e[1])
      BY <2>8, <3>1, <3>4
    <3>6. StageOf(room, e[1]) \in 1..Stages /\ StageOf(room, Finaliser) \in 1..Stages
      BY <2>1, <3>1, <3>4, StagedHasStage DEF Valid
    <3> QED BY <3>1, <3>4, <3>5, <3>6, RoomsAssumption DEF Earlier, SameStage
  <2> QED BY <2>3, <2>7, <2>8 DEF FreezeInv, Finaliser
<1>2. Init => MergeInv
  BY DEF Init, Fresh, MergeInv, Settled
<1> QED BY <1>1, <1>2, InitInv, NextInv, FreezeInit, FreezeNext, SinceInit,
           SinceNext, MergeNext, PTL DEF Spec
------------------------------------------------------------------------------
(* What is read in vain and what nobody merges.                              *)

\* What the room has from its start, and what a seat has left behind: its files
\* exist, and its proposals are merged or wait for the steward.
Delivered ==
  /\ phase = "running" =>
       room.assumes \cup (IF room.worktrees # None THEN {RunStateFile} ELSE {})
         \subseteq made
  /\ phase = "running" => \A s \in Seats : seat[s] = "done" =>
       /\ Effective(room, s) \subseteq made
       /\ \A a \in room.proposes[s] : a \in made \/ <<s, a>> \in pending

\* Without worktrees a proposal waits for the end of its own stage, or it was
\* made after the steward's last one.
Waits(e) ==
  \/ phase \in {"running", "stopped"} /\ StageOf(room, e[1]) = stage
  \/ room.through # 0 /\ StageOf(room, e[1]) > room.through

PendingInv ==
  /\ phase \in {"draft", "refused", "valid"} => pending = {} /\ starved = {}
  /\ \A e \in pending :
       /\ e[1] \in Seats /\ e[2] \in room.proposes[e[1]] /\ Staged(room, e[1])
       /\ room.worktrees = None => Waits(e)

LossInv == Delivered /\ PendingInv /\ StarvationIsExplained

\* What a rule says of a seat that proposes.
LEMMA ProposerMeans ==
  ASSUME NEW r \in Room, Valid(r), NEW s \in Seats, r.proposes[s] # {}
  PROVE  /\ r.steward \in Seats /\ r.steward # None
         /\ r.proposes[s] \subseteq r.owns
<1>1. WritesDeclared(r) /\ Placement(r)
  BY DEF Valid
<1>2. r.steward # None /\ r.proposes[s] \subseteq r.owns
  BY <1>1 DEF WritesDeclared
<1>3. r.steward \in Seats \cup {None, Unknown}
  BY DEF Room
<1> QED BY <1>1, <1>2, <1>3 DEF Placement

\* Nothing is missing before a room runs.
LEMMA LossInit == Init => LossInv
BY DEF Init, Fresh, LossInv, Delivered, PendingInv, StarvationIsExplained

\* Validating and stopping lose nothing, and a room starts with what it assumes.
LEMMA LossQuiet ==
  IInv /\ LossInv
    /\ (Validate \/ (\E p \in Profiles \cup {None} : Start(p)) \/ Stop)
  => LossInv'
<1> SUFFICES ASSUME IInv, LossInv,
                    Validate \/ (\E p \in Profiles \cup {None} : Start(p)) \/ Stop
             PROVE  LossInv'
  OBVIOUS
<1>1. UNCHANGED <<room, stage, seat, pending, starved>>
  BY DEF Validate, Start, Stop
<1>2. CASE Validate
  <2>1. phase = "draft" /\ phase' \in {"valid", "refused"} /\ profile' = profile
    BY <1>2 DEF Validate
  <2>2. pending = {} /\ starved = {}
    BY <2>1 DEF LossInv, PendingInv
  <2> QED BY <1>1, <2>1, <2>2
    DEF LossInv, Delivered, PendingInv, StarvationIsExplained
<1>3. CASE \E p \in Profiles \cup {None} : Start(p)
  <2>1. /\ phase = "valid" /\ phase' = "running"
        /\ made' = room.assumes \cup
                     (IF room.worktrees # None THEN {RunStateFile} ELSE {})
    BY <1>3 DEF Start
  <2>2. pending = {} /\ starved = {} /\ \A s \in Seats : seat[s] = "waiting"
    BY <2>1 DEF LossInv, PendingInv, IInv, OnlyValid
  <2> QED BY <1>1, <2>1, <2>2
    DEF LossInv, Delivered, PendingInv, StarvationIsExplained
<1>4. CASE Stop
  <2>1. phase = "running" /\ phase' = "stopped" /\ profile' = profile
    BY <1>4 DEF Stop, StageDone
  <2>2. Delivered'
    BY <2>1 DEF Delivered
  <2>3. PendingInv'
    BY <1>1, <2>1 DEF LossInv, PendingInv, Waits, Staged, StageOf
  <2>4. StarvationIsExplained'
    BY <1>1, <2>1 DEF LossInv, StarvationIsExplained, Active, Outputs, Unstaged, Staged
  <2> QED BY <2>2, <2>3, <2>4 DEF LossInv
<1> QED BY <1>2, <1>3, <1>4

\* The producer of what a seat reads, if it runs, has an earlier stage: it is
\* done, so the file exists or it is a proposal the steward may leave waiting.
LEMMA ReadIsThere ==
  ASSUME IInv, LossInv, phase = "running", NEW s \in Working,
         NEW a \in room.reads[s], a \notin Code, a \notin room.writes[s],
         a \notin made
  PROVE  \/ a = RunStateFile /\ room.worktrees = None
         \/ a \in room.owns /\
              (Unstaged(room) \/ room.through # 0 \/ room.worktrees # None)
         \/ \E t \in Seats \ Active(room, profile) : a \in Outputs(room, t)
<1>1. /\ room \in Room /\ Valid(room) /\ Placement(room)
      /\ seat \in [Seats -> Statuses] /\ stage \in 1..Stages
  BY DEF IInv, OnlyValid, Shape, Valid
<1>2. s \in Seats /\ s \in Active(room, profile) /\ stage \in room.stage[s]
  BY DEF Working, Active
<1>3. Staged(room, s) /\ StageOf(room, s) = stage
  BY <1>1, <1>2, ActiveHasStage
<1>4. Provided(room, s, a)
  BY <1>1, <1>2 DEF Valid, ReadsProvided
<1>5. room.assumes \subseteq made /\ (room.worktrees # None => RunStateFile \in made)
  BY DEF LossInv, Delivered
<1>6. CASE a = RunStateFile
  BY <1>5, <1>6
<1>7. CASE a # RunStateFile /\ Unstaged(room) /\ a \in room.owns
  BY <1>7
<1>8. ASSUME NEW t \in Before(room, s), a \in Outputs(room, t),
             t \in Active(room, profile)
      PROVE  a \in room.owns /\
               (Unstaged(room) \/ room.through # 0 \/ room.worktrees # None)
  <2>1. t \in Seats /\ Staged(room, t) /\ StageOf(room, t) < stage
    <3>1. ~(Unstaged(room) /\ t = room.steward) /\ ~(Unstaged(room) /\ s = room.steward)
      BY <1>2, <1>8 DEF Active
    <3> QED BY <1>3, <3>1 DEF Before, Earlier
  <2>2. seat[t] = "done"
    BY <1>8, <2>1, EarlierSeat
  <2>3. a \notin room.writes[t]
    BY <2>1, <2>2 DEF LossInv, Delivered, Effective
  <2>4. a \in room.proposes[t] /\ a \in room.owns
    BY <1>8, <2>3 DEF Outputs
  <2>5. <<t, a>> \in pending
    BY <2>1, <2>2, <2>4 DEF LossInv, Delivered
  <2>6. room.worktrees = None => Waits(<<t, a>>)
    BY <2>5 DEF LossInv, PendingInv
  <2>7. ~(StageOf(room, t) = stage)
    BY <1>1, <1>8, <2>1, ActiveHasStage, RoomsAssumption
  <2> QED BY <2>4, <2>6, <2>7 DEF Waits
<1>9. ASSUME NEW t \in Before(room, s), a \in Outputs(room, t),
             t \notin Active(room, profile)
      PROVE  t \in Seats \ Active(room, profile)
  BY <1>9 DEF Before
<1> QED BY <1>4, <1>5, <1>6, <1>7, <1>8, <1>9 DEF Provided

\* A seat's turn: what it reads in vain is explained, what it makes is kept.
LEMMA LossSeat ==
  ASSUME NEW s \in Seats, IInv, LossInv, SeatStarts(s) \/ SeatEnds(s)
  PROVE  LossInv'
<1>1. phase = "running" /\ UNCHANGED <<room, phase, profile, stage>>
  BY DEF SeatStarts, SeatEnds, flow
<1>2. /\ room \in Room /\ Valid(room) /\ seat \in [Seats -> Statuses]
      /\ Placement(room) /\ stage \in 1..Stages
  BY <1>1 DEF IInv, OnlyValid, Shape, Valid
<1>3. s \in Working
  BY DEF SeatStarts, SeatEnds, IInv, InOrder
<1>4. Staged(room, s) /\ StageOf(room, s) = stage
  BY <1>1, <1>2, <1>3, ActiveHasStage DEF Working
<1>5. CASE SeatStarts(s)
  <2>1. made' = made /\ pending' = pending
        /\ \A t \in Seats : seat'[t] = "done" => seat[t] = "done"
    BY <1>2, <1>5 DEF SeatStarts
  <2>2. Delivered'
    BY <1>1, <2>1 DEF LossInv, Delivered, Effective, ImplicitOf
  <2>3. PendingInv'
    BY <1>1, <2>1 DEF LossInv, PendingInv, Waits, Staged, StageOf
  <2>4. ASSUME NEW e \in starved'
        PROVE  \/ e[2] = RunStateFile /\ room.worktrees = None
               \/ e[2] \in room.owns /\
                    (Unstaged(room) \/ room.through # 0 \/ room.worktrees # None)
               \/ \E t \in Seats \ Active(room, profile) : e[2] \in Outputs(room, t)
    <3>1. CASE e \in starved
      BY <3>1 DEF LossInv, StarvationIsExplained
    <3>2. CASE e \notin starved
      <4>1. e[2] \in room.reads[s] \ (Code \cup made \cup room.writes[s])
        BY <1>5, <3>2 DEF SeatStarts
      <4> QED BY <1>1, <1>3, <4>1, ReadIsThere
    <3> QED BY <3>1, <3>2
  <2>5. StarvationIsExplained'
    BY <1>1, <2>4 DEF StarvationIsExplained, Active, Outputs, Unstaged, Staged
  <2> QED BY <2>2, <2>3, <2>5 DEF LossInv
<1>6. CASE SeatEnds(s)
  <2>1. /\ made' = made \cup Effective(room, s)
        /\ pending' = pending \cup ({s} \X room.proposes[s])
        /\ starved' = starved
        /\ \A t \in Seats : seat'[t] = "done" => t = s \/ seat[t] = "done"
    BY <1>2, <1>6 DEF SeatEnds
  <2>2. Delivered'
    BY <1>1, <2>1 DEF LossInv, Delivered, Effective, ImplicitOf
  <2>3. PendingInv'
    <3> SUFFICES ASSUME NEW e \in pending'
                 PROVE  /\ e[1] \in Seats /\ e[2] \in room.proposes[e[1]]
                        /\ Staged(room, e[1])
                        /\ room.worktrees = None => Waits(e)
      BY <1>1, <2>1 DEF PendingInv, Waits, Staged, StageOf
    <3>1. CASE e \in pending
      BY <3>1 DEF LossInv, PendingInv
    <3>2. CASE e \in {s} \X room.proposes[s]
      BY <1>1, <1>4, <3>2 DEF Waits
    <3> QED BY <2>1, <3>1, <3>2
  <2>4. StarvationIsExplained'
    BY <1>1, <2>1
    DEF LossInv, StarvationIsExplained, Active, Outputs, Unstaged, Staged
  <2> QED BY <2>2, <2>3, <2>4 DEF LossInv
<1> QED BY <1>5, <1>6
\* Moving between stages: what the steward may merge is merged.
LEMMA LossMove ==
  ASSUME IInv, LossInv, NextStage \/ Repeat
  PROVE  LossInv'
<1>1. /\ StageDone /\ CloseStage /\ phase = "running" /\ room' = room
      /\ profile' = profile /\ starved' = starved
  BY DEF NextStage, Repeat, StageDone
<1>2. room \in Room /\ Valid(room) /\ Placement(room) /\ stage \in 1..Stages
      /\ seat \in [Seats -> Statuses]
  BY <1>1 DEF IInv, OnlyValid, Shape, Valid
<1>3. /\ made \subseteq made'
      /\ StewardMerges => pending' = {} /\ \A e \in pending : e[2] \in made'
      /\ ~StewardMerges => pending' = pending
  BY <1>1 DEF CloseStage
<1>4. \A s \in Seats : seat'[s] = "done" => seat[s] = "done"
  BY <1>2 DEF NextStage, Repeat
<1>5. Delivered'
  <2>1. room.assumes \cup (IF room.worktrees # None THEN {RunStateFile} ELSE {})
          \subseteq made'
    BY <1>1, <1>3 DEF LossInv, Delivered
  <2>2. ASSUME NEW s \in Seats, seat'[s] = "done"
        PROVE  /\ Effective(room, s) \subseteq made'
               /\ \A a \in room.proposes[s] : a \in made' \/ <<s, a>> \in pending'
    <3>1. /\ Effective(room, s) \subseteq made
          /\ \A a \in room.proposes[s] : a \in made \/ <<s, a>> \in pending
      BY <1>1, <1>4, <2>2 DEF LossInv, Delivered
    <3> QED BY <1>3, <3>1
  <2> QED BY <1>1, <2>1, <2>2 DEF Delivered, Effective, ImplicitOf
<1>6. ASSUME NEW e \in pending'
      PROVE  /\ e[1] \in Seats /\ e[2] \in room.proposes[e[1]]
             /\ Staged(room, e[1])
             /\ room.worktrees = None =>
                  room.through # 0 /\ StageOf(room, e[1]) > room.through
  <2>1. ~StewardMerges /\ e \in pending
    BY <1>3, <1>6
  <2>2. /\ e[1] \in Seats /\ e[2] \in room.proposes[e[1]] /\ Staged(room, e[1])
        /\ room.worktrees = None => Waits(e)
    BY <2>1 DEF LossInv, PendingInv
  <2>3. room.steward # None /\ StageOf(room, e[1]) \in Int /\ room.through \in Int
    BY <1>2, <2>2, ProposerMeans, StagedHasStage DEF Room
  <2>4. room.worktrees = None => room.through # 0 /\ stage > room.through
    BY <1>2, <2>1, <2>3 DEF StewardMerges
  <2> QED BY <2>2, <2>4 DEF Waits
<1>7. PendingInv'
  <2>1. phase' \in {"running", "done"}
    BY <1>1 DEF NextStage, Repeat
  <2> QED BY <1>1, <1>6, <2>1 DEF PendingInv, Waits, Staged, StageOf
<1>8. StarvationIsExplained'
  BY <1>1 DEF LossInv, StarvationIsExplained, Active, Outputs, Unstaged, Staged
<1> QED BY <1>5, <1>7, <1>8 DEF LossInv

\* Every step keeps account of what is lost.
LEMMA LossNext == IInv /\ LossInv /\ [Next]_vars => LossInv'
<1> SUFFICES ASSUME IInv, LossInv, [Next]_vars PROVE LossInv'
  OBVIOUS
<1>1. CASE UNCHANGED vars
  BY <1>1 DEF vars, LossInv, Delivered, PendingInv, Waits, StarvationIsExplained,
     Effective, ImplicitOf, Active, Outputs, Unstaged, Staged, StageOf
<1>2. CASE Next
  BY <1>2, LossQuiet, LossSeat, LossMove DEF Next
<1> QED BY <1>1, <1>2

\* What a seat asked for and did not get, or proposed and nobody merged, is
\* accounted for, in every valid room, profile and lap.
THEOREM LossAlways == Spec => []LossIsExplained
<1>1. IInv /\ LossInv => LossIsExplained
  <2> SUFFICES ASSUME IInv, LossInv, phase = "done", NEW e \in pending
               PROVE  /\ room.through # 0 \/ room.worktrees # None
                      /\ room.worktrees = None => StageOf(room, e[1]) > room.through
    BY DEF LossIsExplained, UnmergedIsExplained, LossInv
  <2>1. room.worktrees = None => Waits(e)
    BY DEF LossInv, PendingInv
  <2> QED BY <2>1 DEF Waits
<1> QED BY <1>1, InitInv, NextInv, LossInit, LossNext, PTL DEF Spec

------------------------------------------------------------------------------
(* Types.                                                                    *)

\* The part of the types that IInv does not have.
RestTypes ==
  /\ laps \in 0..MaxLaps
  /\ made \subseteq Artifacts
  /\ pending \subseteq Seats \X Artifacts /\ starved \subseteq Seats \X Artifacts
  /\ late \subseteq (Seats \cup {None}) \X Artifacts
  /\ since \in [Seats -> SUBSET ((Seats \cup {None}) \X Artifacts)]

\* A seat writes artifacts only.
LEMMA EffectiveType ==
  ASSUME NEW r \in Room, NEW s \in Seats
  PROVE  Effective(r, s) \subseteq Artifacts /\ r.proposes[s] \subseteq Artifacts
         /\ r.reads[s] \subseteq Artifacts
<1>1. /\ r.writes[s] \subseteq Artifacts /\ r.proposes[s] \subseteq Artifacts
      /\ r.reads[s] \subseteq Artifacts
  BY DEF Room
<1>2. ImplicitOf(r, s) \subseteq Artifacts
  BY RoomsAssumption DEF ImplicitOf, Artifacts, Tracked
<1> QED BY <1>1, <1>2 DEF Effective

\* Every step keeps these types.
LEMMA RestStep == IInv /\ RestTypes /\ [Next]_vars => RestTypes'
<1> SUFFICES ASSUME IInv, RestTypes, [Next]_vars PROVE RestTypes'
  OBVIOUS
<1>1. room \in Room /\ RunStateFile \in Artifacts /\ room.assumes \subseteq Artifacts
  BY DEF IInv, Shape, Room, Artifacts
<1>2. CASE UNCHANGED vars
  BY <1>2 DEF vars, RestTypes
<1>3. CASE Validate \/ Stop
  BY <1>3 DEF Validate, Stop, RestTypes
<1>4. CASE \E p \in Profiles \cup {None} : Start(p)
  BY <1>1, <1>4 DEF Start, RestTypes
<1>5. ASSUME NEW s \in Seats, SeatStarts(s) \/ SeatEnds(s)
      PROVE  RestTypes'
  <2>1. Overtaken(s, Effective(room, s))
          \in [Seats -> SUBSET ((Seats \cup {None}) \X Artifacts)]
    BY <1>1, EffectiveType DEF Overtaken, RestTypes
  <2>2. since' \in [Seats -> SUBSET ((Seats \cup {None}) \X Artifacts)]
    BY <1>5, <2>1 DEF SeatStarts, SeatEnds, RestTypes
  <2> QED BY <1>1, <1>5, <2>2, EffectiveType
          DEF SeatStarts, SeatEnds, RestTypes, flow
<1>6. CASE NextStage \/ Repeat
  <2>1. StageDone /\ CloseStage /\ starved' = starved
    BY <1>6 DEF NextStage, Repeat
  <2>2. room.steward \in Seats \cup {None}
    BY <1>1, <2>1 DEF StageDone, IInv, OnlyValid, Valid, Placement, Room
  <2>3. laps' \in 0..MaxLaps
    BY <1>6, RunAssumption DEF NextStage, Repeat, RestTypes
  <2>4. {e[2] : e \in pending} \subseteq Artifacts
    BY DEF RestTypes
  <2>5. made' \subseteq Artifacts /\ pending' \subseteq Seats \X Artifacts
    BY <1>1, <2>1, <2>4 DEF CloseStage, RestTypes
  <2>6. late' \subseteq (Seats \cup {None}) \X Artifacts
    BY <2>1, <2>2, <2>4 DEF CloseStage, RestTypes
  <2>7. since' \in [Seats -> SUBSET ((Seats \cup {None}) \X Artifacts)]
    BY <2>1, <2>4 DEF CloseStage, Overtaken, RestTypes
  <2> QED BY <2>1, <2>3, <2>5, <2>6, <2>7 DEF RestTypes
<1> QED BY <1>2, <1>3, <1>4, <1>5, <1>6 DEF Next

\* Every variable keeps its type.
THEOREM RoomTypes == Spec => []RunTypeOK
<1>1. Init => RestTypes
  BY RunAssumption DEF Init, Fresh, RestTypes
<1>2. IInv /\ RestTypes => RunTypeOK
  BY DEF IInv, Shape, Phases, Statuses, RestTypes, RunTypeOK, Room
<1> QED BY <1>1, <1>2, InitInv, NextInv, RestStep, PTL DEF Spec
==============================================================================
