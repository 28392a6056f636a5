------------------------------ MODULE GateProofs ------------------------------
(* Theorems about EvidenceGate for every set of recorders, categories,         *)
(* commits, profiles and files: whatever is written, removed or moved while    *)
(* the gate reads, what it passes was earned; undisturbed, its exit code is    *)
(* the documented contract; and with one recorder at a time an accepted        *)
(* artifact is the capture of the command that succeeded.                      *)
EXTENDS EvidenceGate, EvidenceProofs

------------------------------------------------------------------------------
(* The recorders, as the gate depends on them.                               *)

\* What a process holds after its command is of this request and commit.
GotInv ==
  \A p \in Procs : pc[p] \in AfterCommand /\ req[p].mode = "run" =>
    /\ got[p].cat = req[p].cat /\ got[p].commit = hd[p]
    /\ got[p].passed = TRUE => <<req[p].cat, hd[p]>> \in ran

\* A record that says "exit 0" is of a command that did.
RecsInv ==
  \A s \in Slots : recs[s].kind = "verified" /\ recs[s].passed = TRUE =>
    <<recs[s].cat, recs[s].commit>> \in ran

RanInv == GotInv /\ RecsInv

\* What one step of a process does to what was captured.
LEMMA StepShape ==
  ASSUME TypeOK, NEW p \in Procs, Inv(p), Invoke(p) \/ Step(p) \/ Abort(p)
  PROVE  \/ \E passed \in BOOLEAN, says \in made \cup {NoSha} : EndCommand(p, passed, says)
         \/ WriteRecord(p)
         \/ /\ ran' = ran /\ recs' = recs
            /\ \/ pc'[p] \notin AfterCommand
               \/ pc[p] = "outpath" /\ req'[p].mode = "na"
               \/ /\ pc[p] \in AfterCommand /\ req'[p] = req[p] /\ hd'[p] = hd[p]
                  /\ got'[p] = got[p]
<1> USE DEF TypeOK, Goto, AfterCommand
<1>1. CASE Invoke(p) \/ Abort(p) \/ HashMissing(p) \/ Preview(p)
  BY <1>1 DEF Invoke, Start, Abort, HashMissing, Preview, Exit, diskVars
<1>2. CASE ReadHead(p) \/ Digest(p)
  BY <1>2 DEF ReadHead, Digest, diskVars
<1>3. CASE CheckTracked(p) \/ ListProfile(p) \/ CheckProfile(p)
  BY <1>3 DEF CheckTracked, ListProfile, CheckProfile, GoOrExit, Exit, diskVars
<1>4. CASE Confirm(p)
  BY <1>4 DEF Confirm, GoOrExit, Exit, diskVars
<1>5. CASE Scan(p)
  <2>1. pc[p] \in {"scan", "rescan"} /\ ran' = ran /\ recs' = recs
    BY <1>5 DEF Scan, diskVars
  <2>2. \/ pc'[p] = "idle"
        \/ /\ pc'[p] \in {"scan", "digest"} /\ pc[p] = "scan"
        \/ /\ pc[p] = "rescan" /\ req' = req /\ hd' = hd /\ got' = got
    BY <1>5, <2>1 DEF Scan, Exit
  <2> QED BY <2>1, <2>2
<1>6. CASE CheckPath(p)
  <2>1. pc[p] \in {"paths", "outpath", "repaths", "reoutpath"}
        /\ ran' = ran /\ recs' = recs
    BY <1>6 DEF CheckPath, diskVars
  <2>2. \/ pc'[p] \in {"idle", "outpath", "confirm"}
        \/ pc[p] = "outpath" /\ req[p].mode = "na" /\ req' = req
        \/ pc[p] \in {"repaths", "reoutpath"} /\ req' = req /\ hd' = hd /\ got' = got
    BY <1>6, <2>1 DEF CheckPath, GoOrExit, Exit, localVars
  <2> QED BY <2>1, <2>2
<1>7. CASE ReadHeadAgain(p) \/ DigestAgain(p) \/ HashArtifact(p)
  BY <1>7 DEF ReadHeadAgain, DigestAgain, HashArtifact, diskVars
<1>8. CASE Judge(p)
  BY <1>8 DEF Judge, GoOrExit, Exit, diskVars, localVars
<1>9. CASE WriteArtifact(p)
  BY <1>9 DEF WriteArtifact, localVars
<1> QED BY <1>1, <1>2, <1>3, <1>4, <1>5, <1>6, <1>7, <1>8, <1>9 DEF Step

\* The other processes' captures, and the records, under one process's step.
LEMMA StepEarns ==
  ASSUME IInv, RanInv, NEW p \in Procs, Invoke(p) \/ Step(p) \/ Abort(p)
  PROVE  RanInv' /\ ran \subseteq ran'
<1>1. TypeOK /\ Inv(p)
  BY DEF IInv
<1>2. ASSUME NEW q \in Procs, q # p
      PROVE  pc'[q] = pc[q] /\ req'[q] = req[q] /\ hd'[q] = hd[q] /\ got'[q] = got[q]
  BY <1>1, <1>2, OthersKeep
<1>3. CASE \E passed \in BOOLEAN, says \in made \cup {NoSha} : EndCommand(p, passed, says)
  <2>1. PICK passed \in BOOLEAN, says \in made \cup {NoSha} : EndCommand(p, passed, says)
    BY <1>3
  <2>2. /\ ran' = IF passed THEN ran \cup {<<req[p].cat, hd[p]>>} ELSE ran
        /\ req' = req /\ hd' = hd /\ recs' = recs
        /\ got'[p] = [kind |-> "capture", cat |-> req[p].cat, commit |-> hd[p],
                      tree |-> tr[p], passed |-> passed, says |-> says]
    BY <1>1, <2>1 DEF EndCommand, diskVars, TypeOK
  <2>3. got'[p].cat = req[p].cat /\ got'[p].commit = hd[p] /\ got'[p].passed = passed
    BY <2>2
  <2>4. ran \subseteq ran' /\ (passed => <<req[p].cat, hd[p]>> \in ran')
    BY <2>2
  <2>5. GotInv'
    BY <1>2, <2>2, <2>3, <2>4 DEF RanInv, GotInv
  <2>6. RecsInv'
    BY <2>2, <2>4 DEF RanInv, RecsInv
  <2> QED BY <2>4, <2>5, <2>6 DEF RanInv
<1>4. CASE WriteRecord(p)
  <2>1. /\ pc[p] = "record" /\ recs' = [recs EXCEPT ![req[p].out] = Record(p)]
        /\ pc'[p] = "idle" /\ ran' = ran
    BY <1>1, <1>4 DEF WriteRecord, Exit, Goto, TypeOK
  <2>2. GotInv'
    BY <1>2, <2>1 DEF RanInv, GotInv, AfterCommand
  <2>3. Record(p).kind = "verified" /\ Record(p).passed = TRUE =>
          <<Record(p).cat, Record(p).commit>> \in ran
    <3>1. CASE req[p].mode = "na"
      BY <3>1 DEF Record
    <3>2. CASE req[p].mode # "na"
      <4>1. req[p].mode = "run"
        BY <1>1, <2>1, <3>2, RequestShape DEF Inv, Holds, ModeFits
      <4>2. /\ Record(p).cat = req[p].cat /\ Record(p).commit = hd[p]
            /\ Record(p).passed = got[p].passed
        BY <3>2 DEF Record
      <4> QED BY <2>1, <4>1, <4>2 DEF RanInv, GotInv, AfterCommand
    <3> QED BY <3>1, <3>2
  <2>4. RecsInv'
    BY <1>1, <2>1, <2>3 DEF RanInv, RecsInv, TypeOK
  <2> QED BY <2>1, <2>2, <2>4 DEF RanInv
<1>5. CASE /\ ran' = ran /\ recs' = recs
           /\ \/ pc'[p] \notin AfterCommand
              \/ pc[p] = "outpath" /\ req'[p].mode = "na"
              \/ /\ pc[p] \in AfterCommand /\ req'[p] = req[p] /\ hd'[p] = hd[p]
                 /\ got'[p] = got[p]
  BY <1>2, <1>5 DEF RanInv, GotInv, RecsInv
<1> QED BY <1>1, <1>3, <1>4, <1>5, StepShape

\* The recorders' steps only add commands that really ran.
LEMMA RecordersEarn == IInv /\ RanInv /\ [RecorderNext]_vars => RanInv' /\ ran \subseteq ran'
<1> SUFFICES ASSUME IInv, RanInv, [RecorderNext]_vars PROVE RanInv' /\ ran \subseteq ran'
  OBVIOUS
<1>1. CASE \E p \in Procs : Invoke(p) \/ Step(p) \/ Abort(p)
  BY <1>1, StepEarns
<1>2. CASE EnvStep \/ UNCHANGED vars
  BY <1>2 DEF EnvStep, vars, recorderVars, localVars, diskVars, RanInv, GotInv, RecsInv
<1>3. CASE Remove
  <2>1. UNCHANGED <<pc, req, hd, got, ran>>
    BY <1>3 DEF Remove, localVars
  <2>2. \A s \in Slots : recs'[s] = recs[s] \/ recs'[s] = NoFile
    BY <1>3 DEF Remove, IInv, TypeOK
  <2>3. NoFile.kind # "verified"
    BY DEF NoFile
  <2> QED BY <2>1, <2>2, <2>3 DEF RanInv, GotInv, RecsInv
<1> QED BY <1>1, <1>2, <1>3 DEF RecorderNext

------------------------------------------------------------------------------
(* The gate: what it has accepted, under any interference.                   *)

\* A category the gate may count.
Earns(c) == \/ <<c, ghd>> \in ran
            \/ (c \notin Mandatory /\ gprof \in NAAllowed[c])

EarnInv ==
  /\ gpc # "idle" => verdict = "none"
  /\ gpc \in {"head", "listing", "profile", "tree", "tracked"} => gscan = 0
  /\ gpc = "scan" => gscan \in 0..(LastScan - 1)
  /\ gpc \in {"head", "listing", "profile"} => accepted = NoneAccepted
  /\ gpc \in {"artifact", "binding"} =>
       /\ current \in Records /\ current.kind = "verified" /\ current.passed = TRUE
       /\ current.commit = ghd /\ <<current.cat, ghd>> \in ran
  /\ \A c \in Cats : accepted[c] # 0 => Earns(c)
  /\ verdict = "pass" => \A c \in Cats : accepted[c] = 1

GInv == IInv /\ RanInv /\ GateTypeOK /\ EarnInv

\* A published record has the fields the gate reads.
LEMMA RecordShape ==
  ASSUME NEW r \in Records
  PROVE  /\ r.kind \in {"verified", "na"} /\ r.cat \in Cats /\ r.commit \in Commits
         /\ r.kind = "verified" =>
              r.passed \in BOOLEAN /\ r.art \in Logs /\ r.sum \in Captures /\ r.tree \in Trees
         /\ r.kind = "na" => r.profile \in Profiles
BY DEF Records

\* A record is never the empty file.
LEMMA RecordIsSome ==
  ASSUME TypeOK, NEW s \in Slots, recs[s].kind # "nothing" PROVE recs[s] \in Records
BY DEF TypeOK, NoFile

\* A gate starts with nothing accepted.
LEMMA NoneIsNone == NoneAccepted \in [Cats -> 0..2] /\ \A c \in Cats : NoneAccepted[c] = 0
BY DEF NoneAccepted

\* The gate begins idle.
LEMMA GInvInit == GateInit => GInv
<1> SUFFICES ASSUME GateInit PROVE GInv
  OBVIOUS
<1>1. IInv
  BY InitInv DEF GateInit
<1>2. RanInv
  BY DEF GateInit, Init, RanInv, GotInv, RecsInv, NoFile, AfterCommand
<1>3. GateTypeOK
  <2>1. accepted \in [Cats -> 0..2] /\ gscan \in 0..LastScan /\ todo \subseteq Slots
    BY NoneIsNone DEF GateInit, LastScan
  <2>2. /\ gtracked \in BOOLEAN /\ gsaw \in BOOLEAN /\ rejected \in BOOLEAN
        /\ stirred \in BOOLEAN
    BY DEF GateInit
  <2>3. /\ ghd \in Commits \cup {NoSha} /\ gprof \in Profiles \cup {NoProfile}
        /\ gtr \in Trees \cup {NoTree} /\ current \in Records \cup {NoFile}
    BY DEF GateInit
  <2>4. gpc = "idle" /\ verdict = "none"
    BY DEF GateInit
  <2> QED BY <2>1, <2>2, <2>3, <2>4 DEF GateTypeOK
<1>4. EarnInv
  BY NoneIsNone DEF GateInit, EarnInv
<1> QED BY <1>1, <1>2, <1>3, <1>4 DEF GInv

\* Accepting a category that was earned.
LEMMA AcceptEarns ==
  ASSUME GInv, NEW c \in Cats, Earns(c), Accept(c), UNCHANGED <<ran, ghd, gprof>>
  PROVE  /\ accepted' \in [Cats -> 0..2]
         /\ \A d \in Cats : accepted'[d] # 0 => Earns(d)'
BY DEF GInv, EarnInv, GateTypeOK, Accept, Earns

\* One step of the gate itself.
LEMMA GateStepKeeps == ASSUME GInv, StartGate \/ GateStep PROVE GInv'
<1>1. UNCHANGED vars
  BY DEF StartGate, GateStep, GateHead, GateListing, GateProfile, GateTree, GateTracked,
     GateScan, GateCannotTell, Collect, ReadRecord, ReadArtifact, RereadArtifact, Settle,
     Decide, GateAbort
<1>2. IInv' /\ RanInv'
  BY <1>1, NextInv, RecordersEarn DEF GInv
<1>3. /\ UNCHANGED <<ran, recs, logs, head, dirt>>
  BY <1>1 DEF vars, gitVars, recorderVars, diskVars
<1>4. TypeOK /\ GateTypeOK /\ EarnInv
  BY DEF GInv, IInv
<1>5. head \in Commits
  BY <1>4 DEF TypeOK, GitTypeOK
<1> SUFFICES GateTypeOK' /\ EarnInv'
  BY <1>2 DEF GInv
<1>6. CASE StartGate
  <2>1. GateTypeOK'
    <3>1. accepted' \in [Cats -> 0..2] /\ gscan' \in 0..LastScan
      BY <1>6, NoneIsNone DEF StartGate, LastScan
    <3>2. /\ gsaw' \in BOOLEAN /\ rejected' \in BOOLEAN /\ stirred' \in BOOLEAN
          /\ current' = NoFile /\ gpc' = "head" /\ verdict' = "none"
          /\ UNCHANGED <<ghd, gprof, gtr, gtracked, todo>>
      BY <1>6 DEF StartGate
    <3> QED BY <1>4, <3>1, <3>2 DEF GateTypeOK
  <2>2. EarnInv'
    BY <1>4, <1>6, NoneIsNone DEF StartGate, EarnInv
  <2> QED BY <2>1, <2>2
<1>7. CASE GateHead
  BY <1>3, <1>4, <1>5, <1>7, NoneIsNone DEF GateHead, GateTypeOK, EarnInv, GitHead
<1>7a. CASE GateListing
  BY <1>3, <1>4, <1>7a, NoneIsNone DEF GateListing, GateTypeOK, EarnInv
<1>8. CASE GateProfile
  <2>1. ProfileOf[head] \in Profiles \cup {NoProfile}
    BY <1>5, RecorderAssumption
  <2> QED BY <1>3, <1>4, <1>8, <2>1, NoneIsNone DEF GateProfile, GateTypeOK, EarnInv
<1>9. CASE GateTree
  <2>1. TreeOf[head] \in Trees
    BY <1>5, RecorderAssumption
  <2> QED BY <1>3, <1>4, <1>9, <2>1 DEF GateTree, GateTypeOK, EarnInv, Earns
<1>10. CASE GateTracked
  BY <1>3, <1>4, <1>10 DEF GateTracked, GateTypeOK, EarnInv, Earns, TrackedInHead, LastScan
<1>11. CASE GateScan
  <2>1. /\ gpc = "scan" /\ gscan' = gscan + 1 /\ gsaw' = (gsaw \/ ScanSees(gscan + 1))
        /\ gpc' = IF gscan + 1 < LastScan THEN "scan" ELSE "collect"
        /\ UNCHANGED <<ghd, gprof, gtr, gtracked, todo, current, accepted, rejected,
                       verdict, stirred>>
    BY <1>11 DEF GateScan
  <2>2. gscan' \in 0..LastScan /\ gsaw' \in BOOLEAN
    BY <1>4, <2>1 DEF EarnInv, LastScan
  <2>3. GateTypeOK'
    BY <1>4, <2>1, <2>2 DEF GateTypeOK
  <2>4. EarnInv'
    BY <1>3, <1>4, <2>1, <2>2 DEF EarnInv, Earns, LastScan
  <2> QED BY <2>3, <2>4
<1>12. CASE GateCannotTell
  <2>1. /\ gpc \in {"tracked", "scan"} /\ gpc' \in {"scan", "collect"}
        /\ gpc' = "scan" => gpc = "tracked"
        /\ UNCHANGED <<ghd, gprof, gtr, gscan, todo, current, accepted, rejected, verdict>>
    BY <1>12 DEF GateCannotTell
  <2>2. gtracked' \in BOOLEAN /\ gsaw' \in BOOLEAN /\ stirred' \in BOOLEAN
    BY <1>4, <1>12 DEF GateCannotTell, GateTypeOK
  <2>3. GateTypeOK'
    BY <1>4, <2>1, <2>2 DEF GateTypeOK
  <2>4. EarnInv'
    BY <1>3, <1>4, <2>1 DEF EarnInv, Earns, LastScan
  <2> QED BY <2>3, <2>4
<1>13. CASE Collect
  BY <1>3, <1>4, <1>13 DEF Collect, GateTypeOK, EarnInv, Earns
<1>14. CASE ReadRecord
  <2>1. /\ gpc = "read"
        /\ UNCHANGED <<ghd, gprof, gtr, gtracked, gscan, gsaw, verdict, stirred>>
    BY <1>14 DEF ReadRecord
  <2>2. PICK s \in todo :
          /\ todo' = todo \ {s}
          /\ IF ~WellFormed(recs[s])
             THEN rejected' = TRUE /\ UNCHANGED <<gpc, current, accepted>>
             ELSE IF recs[s].kind = "na"
             THEN Accept(recs[s].cat) /\ UNCHANGED <<gpc, current, rejected>>
             ELSE /\ gpc' = "artifact"
                  /\ current' = recs[s]
                  /\ UNCHANGED <<accepted, rejected>>
    BY <1>14 DEF ReadRecord
  <2>3. CASE ~WellFormed(recs[s])
    BY <1>3, <1>4, <2>1, <2>2, <2>3 DEF GateTypeOK, EarnInv, Earns
  <2>4. ASSUME WellFormed(recs[s])
        PROVE  /\ recs[s] \in Records /\ recs[s].commit = ghd /\ recs[s].cat \in Cats
               /\ recs[s].kind = "na" => Earns(recs[s].cat)
               /\ recs[s].kind # "na" => /\ recs[s].kind = "verified"
                                         /\ recs[s].passed = TRUE
                                         /\ <<recs[s].cat, ghd>> \in ran
    <3>1. s \in Slots
      BY <1>4 DEF GateTypeOK
    <3>2. recs[s] \in Records
      BY <1>4, <2>4, <3>1, RecordIsSome DEF WellFormed
    <3> QED BY <2>4, <3>1, <3>2, RecordShape DEF WellFormed, Earns, GInv, RanInv, RecsInv
  <2>5. CASE WellFormed(recs[s]) /\ recs[s].kind = "na"
    <3>1. Accept(recs[s].cat) /\ UNCHANGED <<gpc, current, rejected>>
      BY <2>2, <2>5
    <3>2. /\ accepted' \in [Cats -> 0..2]
          /\ \A d \in Cats : accepted'[d] # 0 => Earns(d)'
      BY <1>3, <2>1, <2>4, <2>5, <3>1, AcceptEarns
    <3> QED BY <1>3, <1>4, <2>1, <2>2, <3>1, <3>2 DEF GateTypeOK, EarnInv
  <2>6. CASE WellFormed(recs[s]) /\ recs[s].kind # "na"
    BY <1>3, <1>4, <2>1, <2>2, <2>4, <2>6 DEF GateTypeOK, EarnInv, Earns
  <2> QED BY <2>3, <2>5, <2>6
<1>15. ASSUME NEW good \in BOOLEAN, Settle(good), gpc \in {"artifact", "binding"},
              UNCHANGED <<ghd, gprof, gtr, gtracked, gscan, gsaw, todo, verdict, stirred>>
       PROVE  GateTypeOK' /\ EarnInv'
  <2>1. gpc' = "read" /\ current' = NoFile
    BY <1>15 DEF Settle
  <2>2. current.cat \in Cats /\ Earns(current.cat)
    BY <1>4, <1>15, RecordShape DEF EarnInv, Earns
  <2>3. CASE good
    <3>1. Accept(current.cat) /\ UNCHANGED rejected
      BY <1>15, <2>3 DEF Settle
    <3>2. /\ accepted' \in [Cats -> 0..2]
          /\ \A d \in Cats : accepted'[d] # 0 => Earns(d)'
      BY <1>3, <1>15, <2>2, <3>1, AcceptEarns
    <3> QED BY <1>3, <1>4, <1>15, <2>1, <3>1, <3>2 DEF GateTypeOK, EarnInv
  <2>4. CASE ~good
    <3>1. rejected' = TRUE /\ accepted' = accepted
      BY <1>15, <2>4 DEF Settle
    <3> QED BY <1>3, <1>4, <1>15, <2>1, <3>1 DEF GateTypeOK, EarnInv, Earns
  <2> QED BY <2>3, <2>4
<1>15a. CASE ReadArtifact
  <2>1. /\ gpc = "artifact"
        /\ UNCHANGED <<ghd, gprof, gtr, gtracked, gscan, gsaw, todo, verdict, stirred>>
    BY <1>15a DEF ReadArtifact
  <2>2. CASE gpc' = "binding" /\ UNCHANGED <<current, accepted, rejected>>
    BY <1>3, <1>4, <2>1, <2>2 DEF GateTypeOK, EarnInv, Earns
  <2>3. CASE Settle(ArtifactAgrees(current))
    <3>1. ArtifactAgrees(current) \in BOOLEAN
      BY DEF ArtifactAgrees
    <3> QED BY <1>15, <2>1, <2>3, <3>1
  <2> QED BY <1>15a, <2>2, <2>3 DEF ReadArtifact
<1>15b. CASE RereadArtifact
  <2>1. OutputNames(current) \in BOOLEAN
    BY DEF OutputNames
  <2> QED BY <1>15, <1>15b, <2>1 DEF RereadArtifact
<1>16. CASE Decide
  <2>1. verdict' = "pass" => \A c \in Cats : accepted'[c] = 1
    BY <1>16 DEF Decide, Conclude, Complete
  <2> QED BY <1>3, <1>4, <1>16, <2>1 DEF Decide, Conclude, GateTypeOK, EarnInv, Earns
<1>17. CASE GateAbort
  BY <1>3, <1>4, <1>17 DEF GateAbort, Conclude, GateTypeOK, EarnInv, Earns
<1> QED BY <1>6, <1>7, <1>7a, <1>8, <1>9, <1>10, <1>11, <1>12, <1>13, <1>14, <1>15a,
        <1>15b, <1>16, <1>17 DEF GateStep

\* Every step of gate, recorders and environment keeps its types.
LEMMA GInvNext == GInv /\ [GateNext]_allVars => GInv'
<1> SUFFICES ASSUME GInv, [GateNext]_allVars PROVE GInv'
  OBVIOUS
<1>1. CASE StartGate \/ GateStep
  BY <1>1, GateStepKeeps
<1>2. CASE OtherStep \/ UNCHANGED allVars
  <2>1. /\ [RecorderNext]_vars
        /\ UNCHANGED <<gpc, ghd, gprof, gtr, gtracked, gscan, gsaw, todo, current,
                       accepted, rejected, verdict>>
    BY <1>2 DEF OtherStep, allVars, gateVars
  <2>5. stirred' \in BOOLEAN
    BY <1>2 DEF OtherStep, allVars, gateVars, GInv, GateTypeOK
  <2>2. IInv' /\ RanInv' /\ ran \subseteq ran'
    BY <2>1, NextInv, RecordersEarn DEF GInv
  <2>3. GateTypeOK'
    BY <2>1, <2>5 DEF GInv, GateTypeOK
  <2>4. EarnInv'
    BY <2>1, <2>2 DEF GInv, EarnInv, Earns
  <2> QED BY <2>2, <2>3, <2>4 DEF GInv
<1> QED BY <1>1, <1>2 DEF GateNext

\* So they hold throughout.
LEMMA GInvAlways == GateSpec => []GInv
BY GInvInit, GInvNext, PTL DEF GateSpec

\* Types of the gate.
THEOREM GateTypes == GateSpec => []GateTypeOK
<1>1. GInv => GateTypeOK
  BY DEF GInv
<1> QED BY <1>1, GInvAlways, PTL

\* Whoever writes, removes, crashes or moves HEAD while the gate reads: what a
\* passing gate rests on is, for every category, a command of that category
\* that exited 0 and whose recorder read the gate's HEAD, or the N/A matrix.
THEOREM EarnedAlways == GateSpec => []PassIsEarned
<1>1. GInv => PassIsEarned
  BY DEF GInv, EarnInv, Earns, PassIsEarned
<1> QED BY <1>1, GInvAlways, PTL

------------------------------------------------------------------------------
(* One recorder at a time.                                                   *)

\* What is hashed is what was captured, as nobody else writes captures; a
\* record names the capture of its own command.
SumInv ==
  /\ \A p \in Procs :
       /\ pc[p] = "hash" /\ logs[req[p].art] # NoFile => logs[req[p].art] = got[p]
       /\ pc[p] = "record" /\ req[p].mode = "run" => sum[p] = got[p]
  /\ \A s \in Slots : recs[s].kind = "verified" =>
       /\ recs[s].sum.passed = recs[s].passed /\ recs[s].sum.cat = recs[s].cat
       /\ recs[s].sum.commit = recs[s].commit

ShowInv == gpc = "artifact" =>
  current.sum.passed = TRUE /\ current.sum.cat = current.cat /\ current.sum.commit = ghd

\* How the captures and what was read of them change in a step of the process.
LEMMA SumShape ==
  ASSUME TypeOK, NEW p \in Procs, Inv(p), Invoke(p) \/ Step(p) \/ Abort(p)
  PROVE  \/ WriteArtifact(p) \/ HashArtifact(p) \/ WriteRecord(p)
         \/ /\ recs' = recs /\ logs' = logs
            /\ \/ pc'[p] \notin {"hash", "record"}
               \/ pc[p] = "outpath" /\ req'[p].mode = "na" /\ pc'[p] = "record"
<1> USE DEF TypeOK, Goto
<1>1. CASE Invoke(p) \/ Abort(p) \/ HashMissing(p) \/ Preview(p)
  BY <1>1 DEF Invoke, Start, Abort, HashMissing, Preview, Exit, diskVars
<1>2. CASE ReadHead(p) \/ Digest(p) \/ ReadHeadAgain(p) \/ DigestAgain(p)
  BY <1>2 DEF ReadHead, Digest, ReadHeadAgain, DigestAgain, diskVars
<1>3. CASE CheckTracked(p) \/ ListProfile(p) \/ CheckProfile(p) \/ Confirm(p) \/ Judge(p)
  BY <1>3 DEF CheckTracked, ListProfile, CheckProfile, Confirm, Judge, GoOrExit, Exit,
     diskVars
<1>4. CASE Scan(p)
  <2>1. recs' = recs /\ logs' = logs /\ pc[p] \in {"scan", "rescan"}
    BY <1>4 DEF Scan, diskVars
  <2>2. pc'[p] \in {"idle", "scan", "rescan", "digest", "redigest"}
    BY <1>4, <2>1 DEF Scan, Exit
  <2> QED BY <2>1, <2>2
<1>5. CASE CheckPath(p)
  <2>1. pc[p] \in {"paths", "outpath", "repaths", "reoutpath"}
        /\ recs' = recs /\ logs' = logs
    BY <1>5 DEF CheckPath, diskVars
  <2>2. \/ pc'[p] \in {"idle", "outpath", "confirm", "reoutpath", "artifact"}
        \/ pc[p] = "outpath" /\ req[p].mode = "na" /\ req' = req /\ pc'[p] = "record"
    BY <1>5, <2>1 DEF CheckPath, GoOrExit, Exit
  <2> QED BY <2>1, <2>2
<1>6. ASSUME NEW passed, NEW says, EndCommand(p, passed, says)
      PROVE  recs' = recs /\ logs' = logs /\ pc'[p] \notin {"hash", "record"}
  BY <1>6 DEF EndCommand, diskVars
<1> QED BY <1>1, <1>2, <1>3, <1>4, <1>5, <1>6 DEF Step

\* With one recorder, each of its steps keeps the claims summed up.
LEMMA SoleSum ==
  ASSUME \A p, q \in Procs : p = q, IInv, RanInv, SumInv, RecorderNext
  PROVE  SumInv'
<1>0. TypeOK
  BY DEF IInv
<1>1. ASSUME NEW p \in Procs, Invoke(p) \/ Step(p) \/ Abort(p) PROVE SumInv'
  <2>1. Inv(p) /\ \A q \in Procs : q = p
    BY DEF IInv
  <2>2. CASE WriteArtifact(p)
    <3>1. /\ logs' = [logs EXCEPT ![req[p].art] = got[p]] /\ pc'[p] = "hash"
          /\ pc[p] = "artifact" /\ UNCHANGED <<recs, req, got>>
      BY <1>0, <2>2 DEF WriteArtifact, Goto, localVars, TypeOK
    <3>2. req[p].art \in Logs
      BY <1>0, <2>1, <3>1, RequestShape
         DEF Inv, Holds, ModeFits, AfterCommand
    <3>3. logs'[req'[p].art] = got'[p]
      BY <1>0, <3>1, <3>2 DEF TypeOK
    <3> QED BY <2>1, <3>1, <3>3 DEF SumInv
  <2>3. CASE HashArtifact(p)
    <3>1. /\ pc[p] = "hash" /\ pc'[p] = "record" /\ UNCHANGED <<recs, logs, req, got>>
          /\ sum'[p] = logs[req[p].art] /\ logs[req[p].art] # NoFile
      BY <1>0, <2>3 DEF HashArtifact, Goto, diskVars, TypeOK
    <3> QED BY <2>1, <3>1 DEF SumInv
  <2>4. CASE WriteRecord(p)
    <3>1. /\ pc[p] = "record" /\ recs' = [recs EXCEPT ![req[p].out] = Record(p)]
          /\ pc'[p] = "idle"
      BY <1>0, <2>4 DEF WriteRecord, Exit, Goto, TypeOK
    <3>2. Record(p).kind = "verified" =>
            /\ Record(p).sum.passed = Record(p).passed /\ Record(p).sum.cat = Record(p).cat
            /\ Record(p).sum.commit = Record(p).commit
      <4>1. CASE req[p].mode = "na"
        BY <4>1 DEF Record
      <4>2. CASE req[p].mode # "na"
        <5>1. req[p].mode = "run"
          BY <2>1, <3>1, <4>2, RequestShape DEF Inv, Holds, ModeFits
        <5>2. /\ Record(p).cat = req[p].cat /\ Record(p).commit = hd[p]
              /\ Record(p).passed = got[p].passed /\ Record(p).sum = sum[p]
          BY <4>2 DEF Record
        <5> QED BY <3>1, <5>1, <5>2 DEF RanInv, GotInv, AfterCommand, SumInv
      <4> QED BY <4>1, <4>2
    <3> QED BY <1>0, <2>1, <3>1, <3>2 DEF SumInv, TypeOK
  <2>5. CASE /\ recs' = recs /\ logs' = logs
             /\ \/ pc'[p] \notin {"hash", "record"}
                \/ pc[p] = "outpath" /\ req'[p].mode = "na" /\ pc'[p] = "record"
    BY <2>1, <2>5 DEF SumInv
  <2> QED BY <1>0, <1>1, <2>1, <2>2, <2>3, <2>4, <2>5, SumShape
<1>2. CASE EnvStep
  BY <1>2 DEF EnvStep, diskVars, SumInv
<1>3. CASE Remove
  <2>1. UNCHANGED <<pc, req, got, sum>>
    BY <1>3 DEF Remove, localVars
  <2>2. /\ \A s \in Slots : recs'[s] = recs[s] \/ recs'[s] = NoFile
        /\ \A l \in Logs : logs'[l] = logs[l] \/ logs'[l] = NoFile
    BY <1>0, <1>3 DEF Remove, TypeOK
  <2>3. NoFile.kind # "verified"
    BY DEF NoFile
  <2>4. \A p \in Procs : pc[p] = "hash" => req[p].art \in Logs
    BY RequestShape DEF IInv, Inv, Holds, ModeFits, AfterCommand
  <2> QED BY <2>1, <2>2, <2>3, <2>4 DEF SumInv
<1> QED BY <1>1, <1>2, <1>3 DEF RecorderNext

\* With one recorder at a time, the artifact of a record the gate accepts is the
\* capture of a command of that category, at the gate's commit, that exited 0,
\* also when the recorder is killed between its two writes and when files are
\* removed.  (Two recorders of one artifact refute it: HashesItsCapture.)
THEOREM ShownAlways ==
  ASSUME \A p, q \in Procs : p = q
  PROVE  GateSpec => []AcceptedArtifactShowsIt
<1>1. GateInit => SumInv /\ ShowInv
  BY DEF GateInit, Init, SumInv, ShowInv, NoFile
<1>2. GInv /\ SumInv /\ ShowInv /\ [GateNext]_allVars => SumInv' /\ ShowInv'
  <2> SUFFICES ASSUME GInv, SumInv, ShowInv, [GateNext]_allVars PROVE SumInv' /\ ShowInv'
    OBVIOUS
  <2>1. CASE OtherStep
    <3>1. RecorderNext /\ UNCHANGED <<gpc, current, ghd>>
      BY <2>1 DEF OtherStep
    <3> QED BY <3>1, SoleSum DEF GInv, ShowInv
  <2>2. CASE StartGate \/ GateStep \/ UNCHANGED allVars
    <3>1. UNCHANGED vars
      BY <2>2 DEF StartGate, GateStep, GateHead, GateListing, GateProfile,
         GateTree, GateTracked, GateScan, GateCannotTell, Collect, ReadRecord, ReadArtifact,
         RereadArtifact, Decide, GateAbort, allVars
    <3>2. SumInv'
      BY <3>1 DEF vars, recorderVars, diskVars, localVars, SumInv
    <3>3. CASE ReadRecord
      <4>1. gpc = "read" /\ ghd' = ghd
        BY <3>3 DEF ReadRecord
      <4>2. PICK s \in todo : gpc' = "artifact" => WellFormed(recs[s]) /\ current' = recs[s]
                                                   /\ recs[s].kind # "na"
        BY <3>3, <4>1 DEF ReadRecord
      <4>3. s \in Slots
        BY DEF GInv, GateTypeOK
      <4>4. ASSUME gpc' = "artifact"
            PROVE  /\ recs[s].kind = "verified" /\ recs[s].passed = TRUE
                   /\ recs[s].commit = ghd
        <5>1. recs[s] \in Records
          BY <4>2, <4>3, <4>4, RecordIsSome DEF WellFormed, GInv, IInv
        <5> QED BY <4>2, <4>4, <5>1, RecordShape DEF WellFormed
      <4> QED BY <3>2, <4>1, <4>2, <4>3, <4>4 DEF SumInv, ShowInv
    <3>4. CASE ~ReadRecord
      <4>1. \/ gpc' # "artifact"
            \/ gpc' = gpc /\ current' = current /\ ghd' = ghd
        BY <2>2, <3>4 DEF StartGate, GateStep, GateHead, GateListing, GateProfile,
           GateTree, GateTracked, GateScan, GateCannotTell, Collect, ReadArtifact, Settle,
           RereadArtifact, Decide, GateAbort, Conclude, allVars, gateVars
      <4> QED BY <3>2, <4>1 DEF ShowInv
    <3> QED BY <3>3, <3>4
  <2> QED BY <2>1, <2>2 DEF GateNext
<1>3. ShowInv => AcceptedArtifactShowsIt
  BY DEF ShowInv, AcceptedArtifactShowsIt, ArtifactAgrees
<1> QED BY <1>1, <1>2, <1>3, GInvAlways, PTL DEF GateSpec

------------------------------------------------------------------------------
(* An undisturbed gate.                                                      *)

Written == {s \in Slots : recs[s] # NoFile}

\* The record files of D that count for category c.
Claims(D, c) == {s \in D : Acceptable(recs[s]) /\ recs[s].cat = c}

\* The gate's counters, of the record files D.
Tally(D) ==
  /\ rejected = TRUE <=> \E s \in D : ~Acceptable(recs[s])
  /\ \A c \in Cats : /\ accepted[c] = 0 <=> Claims(D, c) = {}
                     /\ accepted[c] = 1 <=> \E s \in D : Claims(D, c) = {s}

HeadKnown    == {"listing", "profile", "tree", "tracked", "scan", "collect", "read",
                 "artifact", "binding"}
FileKnown    == HeadKnown \ {"listing"}
ProfileKnown == FileKnown \ {"profile"}
TreeKnown    == ProfileKnown \ {"tree"}
TrackKnown   == TreeKnown \ {"tracked"}

\* What each reading has established, as long as nobody else has acted.
CalmInv ==
  /\ gpc \in HeadKnown => ghd = head
  /\ gpc \in FileKnown => head \in ProfileFileIn
  /\ gpc \in ProfileKnown => gprof = ProfileOf[head]
  /\ gpc \in TreeKnown => gtr = TreeOf[head]
  /\ gpc \in TrackKnown => (gtracked = TRUE <=> TrackedInHead)
  /\ gpc \in {"head", "listing", "profile", "tree", "tracked"} => gsaw = FALSE
  /\ gpc = "scan" => (gsaw = TRUE <=> \E k \in 1..gscan : ScanSees(k))
  /\ gpc \in {"collect", "read", "artifact", "binding"} => (gsaw = TRUE <=> dirt # {})
  /\ gpc \in {"head", "listing", "profile", "tree", "tracked", "scan", "collect"} =>
       rejected = FALSE /\ accepted = NoneAccepted

CountInv ==
  /\ gpc = "read" => todo \subseteq Written /\ Tally(Written \ todo)
  /\ gpc = "binding" => ArtifactAgrees(current) /\ current.cat \in Bound
  /\ gpc \in {"artifact", "binding"} =>
       /\ todo \subseteq Written
       /\ \E s \in Written \ todo :
            /\ recs[s] = current /\ WellFormed(current)
            /\ Tally((Written \ todo) \ {s})

UndisturbedInv ==
  ~stirred => /\ CalmInv /\ CountInv
              /\ verdict \in {"pass", "fail"} => (verdict = "pass" <=> Contract)

\* The checks of a record, with right readings, decide the documented contract.
LEMMA ChecksAreContract ==
  ASSUME NEW r \in Records, ghd = head, gprof = ProfileOf[head], gtr = TreeOf[head]
  PROVE  /\ ~WellFormed(r) => ~Acceptable(r)
         /\ WellFormed(r) /\ r.kind = "na" => Acceptable(r)
         /\ WellFormed(r) /\ r.kind # "na" =>
              (ArtifactAgrees(r) /\ (r.cat \in Bound => OutputNames(r)) <=> Acceptable(r))
<1>1. r.kind = "verified" => r.sum # NoFile
  BY RecordShape, NoFileIsNone
<1> QED BY <1>1, RecordShape DEF WellFormed, Acceptable, ArtifactAgrees, OutputNames

\* Counting one more record file.
LEMMA TallyAccepts ==
  ASSUME GateTypeOK, NEW D, NEW s, s \notin D, Tally(D), UNCHANGED <<recs, logs, head, rejected>>,
         Acceptable(recs[s]), recs[s].cat \in Cats, Accept(recs[s].cat)
  PROVE  Tally(D \cup {s})'
<1> DEFINE E == D \cup {s}
<1>1. \A x : Acceptable(recs[x])' <=> Acceptable(recs[x])
  BY DEF Acceptable
<1>2. \A c : Claims(E, c)' = IF recs[s].cat = c THEN Claims(D, c) \cup {s} ELSE Claims(D, c)
  BY <1>1 DEF Claims
<1>3. (rejected = TRUE)' <=> \E x \in E : ~Acceptable(recs[x])'
  BY <1>1 DEF Tally
<1>4. ASSUME NEW c \in Cats
      PROVE  /\ (accepted[c] = 0)' <=> Claims(E, c)' = {}
             /\ (accepted[c] = 1)' <=> \E x \in E : Claims(E, c)' = {x}
  <2>1. /\ accepted[c] = 0 <=> Claims(D, c) = {}
        /\ accepted[c] = 1 <=> \E x \in D : Claims(D, c) = {x}
    BY DEF Tally
  <2>2. Claims(D, c) \subseteq D
    BY DEF Claims
  <2>3. CASE recs[s].cat = c
    <3>1. accepted'[c] = IF accepted[c] = 0 THEN 1 ELSE 2
      BY <2>3 DEF Accept, GateTypeOK
    <3>2. Claims(E, c)' = Claims(D, c) \cup {s}
      BY <1>2, <2>3
    <3> QED BY <2>1, <2>2, <3>1, <3>2
  <2>4. CASE recs[s].cat # c
    <3>1. accepted'[c] = accepted[c]
      BY <2>4 DEF Accept, GateTypeOK
    <3>2. Claims(E, c)' = Claims(D, c)
      BY <1>2, <2>4
    <3> QED BY <2>1, <2>2, <3>1, <3>2
  <2> QED BY <2>3, <2>4
<1> QED BY <1>3, <1>4 DEF Tally

\* A rejected record leaves the tally as it was.
LEMMA TallyRejects ==
  ASSUME NEW D, NEW s, Tally(D), UNCHANGED <<recs, logs, head, accepted>>,
         ~Acceptable(recs[s]), rejected' = TRUE
  PROVE  Tally(D \cup {s})'
<1> DEFINE E == D \cup {s}
<1>1. \A x : Acceptable(recs[x])' <=> Acceptable(recs[x])
  BY DEF Acceptable
<1>2. \A c : Claims(E, c)' = Claims(D, c)
  BY <1>1 DEF Claims
<1>3. (rejected = TRUE)' <=> \E x \in E : ~Acceptable(recs[x])'
  BY <1>1
<1>4. ASSUME NEW c \in Cats
      PROVE  /\ (accepted[c] = 0)' <=> Claims(E, c)' = {}
             /\ (accepted[c] = 1)' <=> \E x \in E : Claims(E, c)' = {x}
  <2>1. /\ accepted[c] = 0 <=> Claims(D, c) = {}
        /\ accepted[c] = 1 <=> \E x \in D : Claims(D, c) = {x}
    BY DEF Tally
  <2>2. Claims(D, c) \subseteq D /\ Claims(E, c)' = Claims(D, c) /\ D \subseteq E
    BY <1>2 DEF Claims
  <2>3. accepted'[c] = accepted[c]
    OBVIOUS
  <2>4. \A x \in E : Claims(D, c) = {x} => x \in D
    BY <2>2
  <2> QED BY <2>1, <2>2, <2>3, <2>4
<1> QED BY <1>3, <1>4 DEF Tally

\* Somebody else's records, when nothing is touched.
LEMMA TallyStays ==
  ASSUME NEW D, Tally(D), UNCHANGED <<recs, logs, head, accepted, rejected>>
  PROVE  Tally(D)'
BY DEF Tally, Claims, Acceptable

\* The decision, over the files that were read, is the contract.
LEMMA DecisionIsContract ==
  ASSUME TypeOK, Tally(Written), gtracked = TRUE <=> TrackedInHead,
         head \in ProfileFileIn, gsaw = TRUE <=> dirt # {}
  PROVE  (Complete /\ rejected # TRUE /\ gtracked # TRUE /\ gsaw # TRUE) <=> Contract
<1>1. \A s \in Written : recs[s].cat \in Cats
  BY RecordShape DEF TypeOK, Written
<1>2. rejected # TRUE <=> \A s \in Written : Acceptable(recs[s])
  BY DEF Tally
<1>3. ASSUME \A s \in Written : Acceptable(recs[s])
      PROVE  Complete <=> /\ {recs[s].cat : s \in Written} = Cats
                          /\ \A s, t \in Written : recs[s].cat = recs[t].cat => s = t
  <2>1. \A c \in Cats : accepted[c] = 1 <=> \E s \in Written : Claims(Written, c) = {s}
    BY DEF Tally
  <2>2. \A c : Claims(Written, c) = {s \in Written : recs[s].cat = c}
    BY <1>3 DEF Claims
  <2>3. ASSUME Complete
        PROVE  /\ {recs[s].cat : s \in Written} = Cats
               /\ \A s, t \in Written : recs[s].cat = recs[t].cat => s = t
    <3>1. \A c \in Cats : \E s \in Written : {x \in Written : recs[x].cat = c} = {s}
      BY <2>1, <2>2, <2>3 DEF Complete
    <3> QED BY <1>1, <3>1
  <2>4. ASSUME {recs[s].cat : s \in Written} = Cats,
               \A s, t \in Written : recs[s].cat = recs[t].cat => s = t
        PROVE  Complete
    <3>1. ASSUME NEW c \in Cats
          PROVE  \E s \in Written : {x \in Written : recs[x].cat = c} = {s}
      <4>1. PICK s \in Written : recs[s].cat = c
        BY <2>4
      <4>2. {x \in Written : recs[x].cat = c} = {s}
        BY <2>4, <4>1
      <4> QED BY <4>2
    <3> QED BY <2>1, <2>2, <3>1 DEF Complete
  <2> QED BY <2>3, <2>4
<1>4. Contract <=> /\ dirt = {} /\ ~TrackedInHead /\ head \in ProfileFileIn
                   /\ \A s \in Written : Acceptable(recs[s])
                   /\ {recs[s].cat : s \in Written} = Cats
                   /\ \A s, t \in Written : recs[s].cat = recs[t].cat => s = t
  BY DEF Contract, Written
<1> QED BY <1>2, <1>3, <1>4

\* A gate that starts knows nothing; every reading adds a fact.
LEMMA CalmBegins == StartGate => CalmInv'
BY DEF StartGate, CalmInv, HeadKnown, FileKnown, ProfileKnown, TreeKnown, TrackKnown

\* An undisturbed step of the gate keeps what it has read true.
LEMMA CalmStep ==
  ASSUME GInv, CalmInv, GateStep, ~stirred'
  PROVE  CalmInv'
<1> USE DEF HeadKnown, FileKnown, ProfileKnown, TreeKnown, TrackKnown
<1>0. UNCHANGED vars /\ head' = head /\ dirt' = dirt
  BY DEF GateStep, GateHead, GateListing, GateProfile, GateTree, GateTracked,
     GateScan, GateCannotTell, Collect, ReadRecord, ReadArtifact, RereadArtifact, Settle,
     Decide, GateAbort, vars, gitVars
<1>2. CASE GateHead
  BY <1>0, <1>2 DEF GateHead, GitHead, CalmInv
<1>2a. CASE GateListing
  BY <1>0, <1>2a DEF GateListing, CalmInv
<1>3. CASE GateProfile
  BY <1>0, <1>3 DEF GateProfile, CalmInv
<1>4. CASE GateTree
  BY <1>0, <1>4 DEF GateTree, CalmInv
<1>5. CASE GateTracked
  <2>1. /\ gpc' = "scan" /\ gscan' = 0 /\ gtracked' = TrackedInHead
        /\ UNCHANGED <<ghd, gprof, gtr, gsaw, rejected, accepted>> /\ gpc = "tracked"
    BY <1>5 DEF GateTracked, GInv, EarnInv
  <2>2. ~\E k \in 1..gscan' : ScanSees(k)'
    BY <2>1
  <2>3. (gtracked = TRUE)' <=> TrackedInHead'
    BY <1>0, <2>1 DEF TrackedInHead
  <2>4. gsaw = FALSE /\ rejected = FALSE /\ accepted = NoneAccepted /\ ghd = head
        /\ gprof = ProfileOf[head] /\ gtr = TreeOf[head] /\ head \in ProfileFileIn
    BY <2>1 DEF CalmInv
  <2> QED BY <1>0, <2>1, <2>2, <2>3, <2>4 DEF CalmInv
<1>6. CASE GateScan
  <2>1. /\ gpc = "scan" /\ gscan' = gscan + 1 /\ gsaw' = (gsaw \/ ScanSees(gscan + 1))
        /\ gpc' = IF gscan + 1 < LastScan THEN "scan" ELSE "collect"
        /\ UNCHANGED <<ghd, gprof, gtr, gtracked, rejected, accepted>>
    BY <1>6 DEF GateScan
  <2>2. gscan \in 0..2 /\ gsaw \in BOOLEAN
    BY <2>1 DEF GInv, EarnInv, GateTypeOK, LastScan
  <2>3. \A k \in 1..3 : ScanSees(k)' <=> ScanSees(k)
    BY <1>0 DEF ScanSees
  <2>4. gsaw = TRUE <=> \E k \in 1..gscan : ScanSees(k)
    BY <2>1 DEF CalmInv
  <2>5. gsaw' = TRUE <=> gsaw = TRUE \/ ScanSees(gscan + 1)
    BY <2>1, <2>2
  <2>6. gsaw' = TRUE <=> \E k \in 1..gscan' : ScanSees(k)
    <3>1. \A k : k \in 1..gscan' <=> k \in 1..gscan \/ k = gscan + 1
      BY <2>1, <2>2
    <3> QED BY <2>4, <2>5, <3>1
  <2>7. gpc' = "collect" => (gsaw' = TRUE <=> dirt # {})
    <3>1. gpc' = "collect" => gscan' = 3
      BY <2>1, <2>2 DEF LastScan
    <3>2. (\E k \in 1..3 : ScanSees(k)) <=> dirt # {}
      <4>1. dirt \subseteq {"staged", "unstaged", "untracked"}
        BY DEF GInv, IInv, TypeOK, GitTypeOK, Kinds
      <4>2. /\ ScanSees(1) <=> "staged" \in dirt
            /\ ScanSees(2) <=> "unstaged" \in dirt
            /\ ScanSees(3) <=> "untracked" \in dirt
        BY DEF ScanSees, ScanOrder
      <4>3. \A k : k \in 1..3 <=> k = 1 \/ k = 2 \/ k = 3
        OBVIOUS
      <4> QED BY <4>1, <4>2, <4>3
    <3> QED BY <2>6, <3>1, <3>2
  <2>8. gpc' = "scan" => (gsaw' = TRUE <=> \E k \in 1..gscan' : ScanSees(k)')
    <3>1. \A k \in 1..gscan' : k \in 1..3
      BY <2>1, <2>2
    <3> QED BY <2>3, <2>6, <3>1
  <2>9. TrackedInHead' <=> TrackedInHead
    BY <1>0 DEF TrackedInHead
  <2>10. /\ head \in ProfileFileIn /\ ghd = head /\ gprof = ProfileOf[head] /\ gtr = TreeOf[head]
         /\ gtracked = TRUE <=> TrackedInHead
         /\ rejected = FALSE /\ accepted = NoneAccepted
    BY <2>1 DEF CalmInv
  <2>11. gpc' \in {"scan", "collect"}
    BY <2>1
  <2> QED BY <1>0, <2>1, <2>7, <2>8, <2>9, <2>10, <2>11 DEF CalmInv
<1>7. CASE GateCannotTell
  BY <1>7 DEF GateCannotTell
<1>8. CASE Collect \/ ReadRecord \/ ReadArtifact \/ RereadArtifact
  <2>1. /\ gpc \in {"collect", "read", "artifact", "binding"}
        /\ gpc' \in {"read", "artifact", "binding"}
        /\ UNCHANGED <<ghd, gprof, gtr, gtracked, gsaw>>
    BY <1>8 DEF Collect, ReadRecord, ReadArtifact, RereadArtifact, Settle
  <2>2. TrackedInHead' <=> TrackedInHead
    BY <1>0 DEF TrackedInHead
  <2> QED BY <1>0, <2>1, <2>2 DEF CalmInv
<1>9. CASE Decide \/ GateAbort
  BY <1>9 DEF Decide, GateAbort, Conclude, CalmInv
<1> QED BY <1>2, <1>2a, <1>3, <1>4, <1>5, <1>6, <1>7, <1>8, <1>9 DEF GateStep

\* Reading a record file counts it, or leaves its artifact to be looked at.
LEMMA ReadCounts ==
  ASSUME GInv, CalmInv, CountInv, ReadRecord PROVE CountInv'
<1>1. /\ gpc = "read" /\ UNCHANGED <<vars, ghd, gprof, gtr>>
  BY DEF ReadRecord
<1>2. UNCHANGED <<recs, logs, head>> /\ Written' = Written
  BY <1>1 DEF vars, gitVars, recorderVars, diskVars, Written
<1>3. PICK s \in todo :
        /\ todo' = todo \ {s}
        /\ IF ~WellFormed(recs[s])
           THEN rejected' = TRUE /\ UNCHANGED <<gpc, current, accepted>>
           ELSE IF recs[s].kind = "na"
           THEN Accept(recs[s].cat) /\ UNCHANGED <<gpc, current, rejected>>
           ELSE /\ gpc' = "artifact"
                /\ current' = recs[s]
                /\ UNCHANGED <<accepted, rejected>>
  BY DEF ReadRecord
<1>4. PICK D : D = Written \ todo
  OBVIOUS
<1>5. /\ todo \subseteq Written /\ s \in Written /\ s \notin D /\ Tally(D)
      /\ todo' \subseteq Written' /\ (Written \ todo)' = D \cup {s}
  BY <1>1, <1>2, <1>3, <1>4 DEF CountInv
<1>6. /\ recs[s] \in Records /\ recs[s].cat \in Cats
      /\ ~WellFormed(recs[s]) => ~Acceptable(recs[s])
      /\ WellFormed(recs[s]) /\ recs[s].kind = "na" => Acceptable(recs[s])
  <2>1. recs[s] \in Records
    BY <1>5 DEF Written, GInv, IInv, TypeOK
  <2>2. ghd = head /\ gprof = ProfileOf[head] /\ gtr = TreeOf[head]
    BY <1>1 DEF CalmInv, HeadKnown, FileKnown, ProfileKnown, TreeKnown
  <2> QED BY <2>1, <2>2, ChecksAreContract, RecordShape
<1>7. CASE ~WellFormed(recs[s])
  <2>1. Tally(D \cup {s})'
    BY <1>2, <1>3, <1>5, <1>6, <1>7, TallyRejects
  <2>2. Tally(Written \ todo)'
    BY <1>5, <2>1 DEF Tally, Claims
  <2> QED BY <1>1, <1>3, <1>5, <1>7, <2>2 DEF CountInv
<1>8. CASE WellFormed(recs[s]) /\ recs[s].kind = "na"
  <2>1. Tally(D \cup {s})'
    BY <1>2, <1>3, <1>5, <1>6, <1>8, TallyAccepts DEF GInv
  <2>2. Tally(Written \ todo)'
    BY <1>5, <2>1 DEF Tally, Claims
  <2> QED BY <1>1, <1>3, <1>5, <1>8, <2>2 DEF CountInv
<1>9. CASE WellFormed(recs[s]) /\ recs[s].kind # "na"
  <2>1. gpc' = "artifact" /\ current' = recs[s] /\ UNCHANGED <<accepted, rejected>>
    BY <1>3, <1>9
  <2>2. Tally(D)'
    BY <1>2, <1>5, <2>1, TallyStays
  <2>3. ((Written \ todo)' \ {s}) = D
    BY <1>5
  <2>4. Tally((Written \ todo) \ {s})'
    BY <2>2, <2>3 DEF Tally, Claims
  <2>5. WellFormed(current)'
    BY <1>1, <1>9, <2>1 DEF WellFormed
  <2>6. s \in (Written \ todo)' /\ recs'[s] = current'
    BY <1>2, <1>5, <2>1
  <2> QED BY <1>5, <2>1, <2>4, <2>5, <2>6 DEF CountInv
<1> QED BY <1>7, <1>8, <1>9

\* Reading a capture adds at most its record's claims.
LEMMA ArtifactCounts ==
  ASSUME GInv, CalmInv, CountInv, ReadArtifact \/ RereadArtifact PROVE CountInv'
<1>1. /\ gpc \in {"artifact", "binding"} /\ UNCHANGED <<vars, todo, ghd>>
  BY DEF ReadArtifact, RereadArtifact
<1>2. UNCHANGED <<recs, logs, head>> /\ Written' = Written
  BY <1>1 DEF vars, gitVars, recorderVars, diskVars, Written
<1>3. PICK s \in Written \ todo :
        /\ recs[s] = current /\ WellFormed(current)
        /\ Tally((Written \ todo) \ {s})
  BY <1>1 DEF CountInv
<1>4. PICK D : D = (Written \ todo) \ {s}
  OBVIOUS
<1>5. /\ todo' \subseteq Written' /\ s \notin D /\ Tally(D) /\ (Written \ todo)' = D \cup {s}
  BY <1>1, <1>2, <1>3, <1>4 DEF CountInv
<1>6. /\ current \in Records /\ current.kind = "verified" /\ current.cat \in Cats
      /\ ArtifactAgrees(current) /\ (current.cat \in Bound => OutputNames(current))
           <=> Acceptable(current)
  <2>1. current \in Records /\ current.kind = "verified"
    BY <1>1 DEF GInv, EarnInv
  <2>2. ghd = head /\ gprof = ProfileOf[head] /\ gtr = TreeOf[head]
    BY <1>1 DEF CalmInv, HeadKnown, FileKnown, ProfileKnown, TreeKnown
  <2> QED BY <1>3, <2>1, <2>2, ChecksAreContract, RecordShape
<1>7. ASSUME NEW good \in BOOLEAN, good <=> Acceptable(current), Settle(good)
      PROVE  CountInv'
  <2>1. CASE good
    <3>1. Accept(recs[s].cat) /\ rejected' = rejected
      BY <1>3, <1>7, <2>1 DEF Settle
    <3>2. Tally(D \cup {s})'
      BY <1>2, <1>3, <1>5, <1>6, <1>7, <2>1, <3>1, TallyAccepts DEF GInv
    <3> QED BY <1>5, <1>7, <3>2 DEF Tally, Claims, CountInv, Settle
  <2>2. CASE ~good
    <3>1. rejected' = TRUE /\ accepted' = accepted
      BY <1>7, <2>2 DEF Settle
    <3>2. Tally(D \cup {s})'
      BY <1>2, <1>3, <1>5, <1>6, <1>7, <2>2, <3>1, TallyRejects
    <3> QED BY <1>5, <1>7, <3>2 DEF Tally, Claims, CountInv, Settle
  <2> QED BY <1>7, <2>1, <2>2
<1>8. CASE RereadArtifact
  <2>1. Settle(OutputNames(current)) /\ gpc = "binding"
    BY <1>8 DEF RereadArtifact
  <2>2. ArtifactAgrees(current) /\ current.cat \in Bound
    BY <2>1 DEF CountInv
  <2>3. OutputNames(current) \in BOOLEAN
    BY DEF OutputNames
  <2> QED BY <1>6, <1>7, <2>1, <2>2, <2>3
<1>9. CASE ReadArtifact
  <2>1. CASE ArtifactAgrees(current) /\ current.cat \in Bound
    <3>1. gpc' = "binding" /\ UNCHANGED <<current, accepted, rejected>>
      BY <1>9, <2>1 DEF ReadArtifact
    <3>2. Tally(D)'
      BY <1>2, <1>5, <3>1, TallyStays
    <3>3. Tally((Written \ todo) \ {s})'
      <4>1. ((Written \ todo)' \ {s}) = D
        BY <1>5
      <4> QED BY <3>2, <4>1 DEF Tally, Claims
    <3>4. WellFormed(current)' /\ ArtifactAgrees(current)' /\ (current.cat \in Bound)'
      <4>1. gprof' = gprof /\ gtr' = gtr
        BY <1>9 DEF ReadArtifact
      <4> QED BY <1>1, <1>2, <1>3, <2>1, <3>1, <4>1 DEF WellFormed, ArtifactAgrees
    <3>5. s \in (Written \ todo)' /\ recs'[s] = current'
      BY <1>2, <1>3, <1>5, <3>1
    <3> QED BY <1>5, <3>1, <3>3, <3>4, <3>5 DEF CountInv
  <2>2. CASE ~(ArtifactAgrees(current) /\ current.cat \in Bound)
    <3>1. Settle(ArtifactAgrees(current))
      BY <1>9, <2>2 DEF ReadArtifact
    <3>2. ArtifactAgrees(current) \in BOOLEAN
      BY DEF ArtifactAgrees
    <3> QED BY <1>6, <1>7, <2>2, <3>1, <3>2
  <2> QED BY <2>1, <2>2
<1> QED BY <1>8, <1>9

\* Collecting the records starts the count again.
LEMMA CollectCounts ==
  ASSUME GInv, CalmInv, Collect PROVE CountInv'
<1>1. /\ gpc = "collect" /\ gpc' = "read" /\ UNCHANGED <<vars, accepted, rejected>>
      /\ todo' = Written
  BY DEF Collect, Written
<1>2. Written' = Written
  BY <1>1 DEF vars, recorderVars, diskVars, Written
<1>3. (Written \ todo)' = {}
  BY <1>1, <1>2
<1>4. rejected' = FALSE /\ \A c \in Cats : accepted'[c] = 0
  BY <1>1, NoneIsNone DEF CalmInv
<1>5. Tally(Written \ todo)'
  BY <1>3, <1>4 DEF Tally, Claims
<1> QED BY <1>1, <1>2, <1>5 DEF CountInv

\* The contract is about the disk and the checkout only.
LEMMA ContractStays == UNCHANGED vars => (Contract' <=> Contract)
BY DEF vars, gitVars, recorderVars, diskVars, Contract, Acceptable, TrackedInHead

\* Every step keeps the count equal to what the files claim.
LEMMA UndisturbedNext ==
  ASSUME GInv, UndisturbedInv, [GateNext]_allVars PROVE UndisturbedInv'
<1>1. CASE OtherStep
  BY <1>1 DEF OtherStep, UndisturbedInv
<1>2. CASE UNCHANGED allVars
  <2>1. /\ UNCHANGED vars
        /\ UNCHANGED <<gpc, ghd, gprof, gtr, gtracked, gscan, gsaw, todo, current,
                       accepted, rejected, verdict, stirred>>
    BY <1>2 DEF allVars, gateVars
  <2>2. UNCHANGED <<recs, logs, head, dirt>>
    BY <2>1 DEF vars, gitVars, recorderVars, diskVars
  <2>3. CalmInv => CalmInv'
    BY <2>1, <2>2 DEF CalmInv, TrackedInHead, ScanSees
  <2>4. CountInv => CountInv'
    BY <2>1, <2>2 DEF CountInv, Written, Tally, Claims, Acceptable, WellFormed,
       ArtifactAgrees
  <2> QED BY <2>1, <2>3, <2>4, ContractStays DEF UndisturbedInv
<1>3. CASE StartGate
  <2>1. gpc' = "head" /\ verdict' = "none"
    BY <1>3 DEF StartGate
  <2> QED BY <1>3, <2>1, CalmBegins DEF UndisturbedInv, CountInv
<1>4. CASE GateStep
  <2> SUFFICES ASSUME ~stirred' PROVE UndisturbedInv'
    BY DEF UndisturbedInv
  <2>1. ~stirred /\ UNCHANGED vars
    BY <1>4 DEF GateStep, GateHead, GateListing, GateProfile, GateTree,
       GateTracked, GateScan, GateCannotTell, Collect, ReadRecord, ReadArtifact,
       RereadArtifact, Decide, GateAbort
  <2>2. CalmInv /\ CountInv
    BY <2>1 DEF UndisturbedInv
  <2>3. CalmInv'
    BY <1>4, <2>2, CalmStep
  <2>4. CASE Decide
    <3>1. /\ gpc = "read" /\ todo = {} /\ gpc' = "idle"
          /\ verdict' = IF Complete /\ ~rejected /\ ~gtracked /\ ~gsaw THEN "pass" ELSE "fail"
      BY <2>4 DEF Decide, Conclude
    <3>2. Written \ todo = Written /\ Tally(Written \ todo)
      BY <2>2, <3>1 DEF CountInv
    <3>3. Tally(Written)
      BY <3>2
    <3>4. (Complete /\ rejected # TRUE /\ gtracked # TRUE /\ gsaw # TRUE) <=> Contract
      BY <2>2, <3>1, <3>3, DecisionIsContract DEF CalmInv, TrackKnown, TreeKnown, ProfileKnown,
         FileKnown, HeadKnown, GInv, IInv
    <3>5. rejected \in BOOLEAN /\ gtracked \in BOOLEAN /\ gsaw \in BOOLEAN
      BY DEF GInv, GateTypeOK
    <3>6. verdict' = "pass" <=> Contract'
      BY <2>1, <3>1, <3>4, <3>5, ContractStays
    <3> QED BY <2>3, <3>1, <3>6 DEF UndisturbedInv, CountInv
  <2>5. CASE Collect \/ ReadRecord \/ ReadArtifact \/ RereadArtifact
    <3>1. verdict' = "none"
      BY <2>5 DEF Collect, ReadRecord, ReadArtifact, RereadArtifact, GInv, EarnInv
    <3>2. CountInv'
      BY <2>2, <2>5, CollectCounts, ReadCounts, ArtifactCounts
    <3> QED BY <2>3, <3>1, <3>2 DEF UndisturbedInv
  <2>6. CASE GateHead \/ GateListing \/ GateProfile \/ GateTree \/ GateTracked \/ GateScan
    <3>1. verdict' = "none" /\ gpc' \notin {"read", "artifact", "binding"}
      BY <2>6 DEF GateHead, GateListing, GateProfile, GateTree, GateTracked, GateScan,
                  GInv, EarnInv
    <3> QED BY <2>3, <3>1 DEF UndisturbedInv, CountInv
  <2>7. CASE GateAbort
    BY <2>3, <2>7 DEF GateAbort, Conclude, UndisturbedInv, CountInv
  <2>8. CASE GateCannotTell
    BY <2>8 DEF GateCannotTell
  <2> QED BY <1>4, <2>4, <2>5, <2>6, <2>7, <2>8 DEF GateStep
<1> QED BY <1>1, <1>2, <1>3, <1>4 DEF GateNext

\* A gate that nothing disturbs decides what the docstring of check_evidence.py
\* says: exit 0 when every category has exactly one acceptable record, no record
\* is unacceptable and the checkout is clean, and exit 1 when not, for any number
\* of categories and of record files.
THEOREM ContractAlways == GateSpec => []VerdictIsContract
<1>1. GateInit => UndisturbedInv
  BY DEF GateInit, UndisturbedInv, CalmInv, CountInv, HeadKnown, FileKnown, ProfileKnown,
     TreeKnown, TrackKnown
<1>2. GInv /\ UndisturbedInv /\ [GateNext]_allVars => UndisturbedInv'
  BY UndisturbedNext
<1>3. UndisturbedInv => VerdictIsContract
  BY DEF UndisturbedInv, VerdictIsContract
<1> QED BY <1>1, <1>2, <1>3, GInvAlways, PTL DEF GateSpec
==============================================================================
