---------------------------- MODULE EvidenceProofs ----------------------------
(* Theorems about EvidenceRecorder for every set of processes, categories,    *)
(* commits, files and requests.  The inductive invariant says what a process  *)
(* holds at each point of its run (Holds), where it can be in which mode      *)
(* (ModeFits), that repo_state starts from nothing (ScanBegins), that its  *)
(* token was that of its plan (Confirmed), and, as long as nobody has touched *)
(* the checkout since its last reading of HEAD, what it knows of it (Knows).  *)
EXTENDS EvidenceRecorder, TLAPS

\* HEAD has been read for the first time.
Identified == PCs \ {"idle", "head"}
\* committed_tree_digest has returned.
Digested == {"listing", "profile", "paths", "outpath", "confirm", "exec"}
              \cup AfterCommand

Holds(p) ==
  /\ pc[p] # "idle" => req[p] \in Requested
  /\ pc[p] \in Identified => hd[p] \in Commits
  /\ pc[p] \in Digested => tr[p] \in Trees
  /\ pc[p] \in AfterCommand /\ req[p].mode = "run" => got[p] \in Captures
  /\ pc[p] = "record" /\ req[p].mode = "run" => sum[p] \in Captures

ModeFits(p) ==
  /\ pc[p] \in {"exec"} \cup (AfterCommand \ {"record"}) => req[p].mode = "run"
  /\ pc[p] \in {"listing", "profile"} => req[p].mode = "na"
  /\ pc[p] = "paths" => req[p].mode # "na"
  /\ pc[p] = "confirm" => req[p].mode # "na"
  /\ pc[p] = "record" => req[p].mode # "preview"

ScanBegins(p) ==
  /\ pc[p] \in {"scan", "rescan"} => scan[p] < LastScan
  /\ pc[p] \notin {"scan", "rescan"} => scan[p] = 0
  /\ pc[p] \in {"idle", "head", "tracked", "digest", "listing", "profile",
                "paths", "outpath", "confirm", "exec", "rehead"} => ~saw[p]

\* The command has been released, so the token was that of its plan.
Confirmed(p) ==
  pc[p] \in {"exec"} \cup AfterCommand /\ req[p].mode = "run"
    => req[p].plan = Plan(p)

\* What is true of the checkout as long as ~moved[p].
Knows(p) ==
  /\ pc[p] \in {"confirm"} \cup (BeforeCommand \ {"head"}) => hd[p] = head
  /\ pc[p] \in {"scan", "rescan"} /\ ~saw[p] =>
       \A k \in 1..scan[p] : ~ScanSees(k)
  /\ pc[p] \in {"digest", "listing", "profile", "paths", "outpath", "confirm"}
       => dirt = {}
  /\ pc[p] \in {"listing", "profile", "paths", "outpath", "confirm"}
       => tr[p] = TreeOf[head]
  /\ pc[p] = "outpath" /\ req[p].mode = "na" => req[p].profile = ProfileOf[head]
  /\ pc[p] \in {"rescan", "redigest", "judge"} => hd2[p] = head
  /\ pc[p] \in {"redigest", "judge"} /\ ~saw[p] => dirt = {}
  /\ pc[p] = "judge" => tr2[p] = TreeOf[head]
  /\ pc[p] \in {"repaths", "reoutpath", "artifact", "hash", "record"} =>
       /\ hd[p] = head /\ dirt = {} /\ tr[p] = TreeOf[head]
       /\ req[p].mode = "na" => req[p].profile = ProfileOf[head]

Inv(p) == /\ Holds(p) /\ ModeFits(p) /\ ScanBegins(p) /\ Confirmed(p)
          /\ ~moved[p] => Knows(p)

IInv == TypeOK /\ \A p \in Procs : Inv(p)

----------------------------------------------------------------------------
(* Facts about values.                                                      *)

\* A request has the fields its recorder reads.
LEMMA RequestShape ==
  ASSUME NEW r \in Requested
  PROVE  /\ r.mode \in {"run", "preview", "na"} /\ r.cat \in Cats /\ r.out \in Slots
         /\ r.mode # "na" => r.art \in Logs
         /\ r.mode = "na" => r.profile \in Profiles
BY DEF Requested

\* A missing capture is no capture.
LEMMA NoFileIsNone == NoFile \notin Captures
BY DEF NoFile, Captures

\* A record made from a plan and two readings is one.
LEMMA RecordType ==
  ASSUME NEW p \in Procs, Holds(p), ModeFits(p), pc[p] = "record"
  PROVE  Record(p) \in Records /\ req[p].out \in Slots
<1>1. req[p] \in Requested /\ hd[p] \in Commits /\ tr[p] \in Trees
  BY DEF Holds, Identified, Digested, PCs, BeforeCommand, AfterCommand
<1>2. req[p].mode \in {"run", "na"}
  BY <1>1, RequestShape DEF ModeFits
<1>3. CASE req[p].mode = "na"
  BY <1>1, <1>3, RequestShape DEF Record, Records
<1>4. CASE req[p].mode = "run"
  <2>1. got[p] \in Captures /\ sum[p] \in Captures
    BY <1>4 DEF Holds, AfterCommand
  <2>2. got[p].passed \in BOOLEAN
    BY <2>1 DEF Captures
  <2> QED BY <1>1, <1>4, <2>1, <2>2, RequestShape DEF Record, Records
<1> QED BY <1>2, <1>3, <1>4, <1>1, RequestShape

\* The environment keeps the checkout well formed.
LEMMA EnvType == GitTypeOK /\ Env => GitTypeOK'
BY CheckoutAssumption DEF GitTypeOK, Env, Edit, Stage, Unstage, Discard, Commit,
   Checkout, Kinds

\* An untouched checkout stays well formed.
LEMMA GitFrame == UNCHANGED gitVars /\ GitTypeOK => GitTypeOK'
BY DEF gitVars, GitTypeOK

----------------------------------------------------------------------------
(* Types.                                                                   *)

\* The end of an invocation.
LEMMA ExitType ==
  ASSUME TypeOK, NEW p \in Procs, Exit(p), UNCHANGED <<gitVars, ran>>,
         recs' \in [Slots -> Records \cup {NoFile}],
         logs' \in [Logs -> Captures \cup {NoFile}]
  PROVE  TypeOK'
<1> USE DEF TypeOK, Exit, Goto
<1>1. GitTypeOK' BY GitFrame
<1>2. pc' \in [Procs -> PCs] BY DEF PCs
<1>3. req' \in [Procs -> Requested \cup {NoRequest}] OBVIOUS
<1>5. /\ hd' \in [Procs -> Commits \cup {NoSha}]
      /\ hd2' \in [Procs -> Commits \cup {NoSha}]
  OBVIOUS
<1>6. /\ tr' \in [Procs -> Trees \cup {NoTree}]
      /\ tr2' \in [Procs -> Trees \cup {NoTree}]
  OBVIOUS
<1>7. scan' \in [Procs -> 0..LastScan] BY DEF LastScan
<1>8. saw' \in [Procs -> BOOLEAN] /\ moved' \in [Procs -> BOOLEAN] OBVIOUS
<1>9. /\ got' \in [Procs -> Captures \cup {NoFile}]
      /\ sum' \in [Procs -> Captures \cup {NoFile}]
  OBVIOUS
<1> QED BY <1>1, <1>2, <1>3, <1>5, <1>6, <1>7, <1>8, <1>9

\* A step that either moves on or ends the invocation.
LEMMA GoType ==
  ASSUME TypeOK, NEW p \in Procs, NEW l \in PCs, NEW cond \in BOOLEAN,
         GoOrExit(p, cond, l), UNCHANGED <<gitVars, diskVars, ran>>
  PROVE  TypeOK'
<1>1. CASE Exit(p)
  BY <1>1, ExitType DEF TypeOK, diskVars
<1>2. CASE Goto(p, l) /\ UNCHANGED <<req, localVars>>
  BY <1>2, GitFrame DEF TypeOK, Goto, diskVars, localVars
<1> QED BY <1>1, <1>2 DEF GoOrExit

\* Every action of an invocation keeps the types.
LEMMA StepType ==
  ASSUME TypeOK, NEW p \in Procs, Holds(p), ModeFits(p), ScanBegins(p),
         Invoke(p) \/ Step(p) \/ Abort(p)
  PROVE  TypeOK'
<1> USE DEF Goto, PCs, BeforeCommand, AfterCommand
<1>1. ASSUME NEW r \in Requests, Start(p, r)
      PROVE  TypeOK'
  BY <1>1, GitFrame, RecorderAssumption DEF Start, TypeOK, diskVars, localVars
<1>2. CASE ReadHead(p)
  BY <1>2, GitFrame DEF ReadHead, TypeOK, GitHead, GitTypeOK, diskVars
<1>3. CASE CheckTracked(p)
  BY <1>3, GoType DEF CheckTracked
<1>4. CASE Scan(p)
  <2>1. CASE Exit(p)
    BY <1>4, <2>1, ExitType DEF Scan, TypeOK, diskVars
  <2>2. CASE /\ scan' = [scan EXCEPT ![p] = IF scan[p] + 1 = LastScan THEN 0 ELSE scan[p] + 1]
             /\ saw' = [saw EXCEPT ![p] = saw[p] \/ ScanSees(scan[p] + 1)]
             /\ Goto(p, IF scan[p] + 1 < LastScan THEN pc[p]
                        ELSE IF pc[p] = "scan" THEN "digest" ELSE "redigest")
             /\ UNCHANGED <<req, hd, tr, hd2, tr2, got, sum, moved>>
    <3>1. scan[p] < LastScan /\ scan[p] \in 0..LastScan
      BY <1>4 DEF Scan, ScanBegins, TypeOK
    <3>2. scan' \in [Procs -> 0..LastScan]
      BY <2>2, <3>1 DEF TypeOK, LastScan
    <3>3. saw' \in [Procs -> BOOLEAN]
      BY <2>2 DEF TypeOK, ScanSees
    <3>4. pc' \in [Procs -> PCs]
      BY <2>2, <1>4 DEF TypeOK, Scan
    <3> QED BY <1>4, <2>2, <3>2, <3>3, <3>4, GitFrame DEF Scan, TypeOK, diskVars
  <2> QED BY <1>4, <2>1, <2>2 DEF Scan
<1>5. CASE Digest(p)
  <2>1. TreeOf[head] \in Trees
    BY RecorderAssumption DEF TypeOK, GitTypeOK
  <2> QED BY <1>5, <2>1, GitFrame DEF Digest, TypeOK, diskVars
<1>6. CASE ListProfile(p)
  <2>1. (head \in ProfileFileIn) \in BOOLEAN
    OBVIOUS
  <2> QED BY <1>6, <2>1, GoType DEF ListProfile
<1>6a. CASE CheckProfile(p)
  BY <1>6a, GoType DEF CheckProfile
<1>7. CASE CheckPath(p)
  <2>1. (CASE pc[p] = "paths" -> "outpath"
           [] pc[p] = "repaths" -> "reoutpath"
           [] pc[p] = "reoutpath" -> "artifact"
           [] OTHER -> IF req[p].mode = "na" THEN "record" ELSE "confirm") \in PCs
    OBVIOUS
  <2> QED BY <1>7, <2>1, GoType DEF CheckPath
<1>8. CASE Preview(p)
  BY <1>8, ExitType DEF Preview, TypeOK, diskVars
<1>9. CASE Confirm(p)
  BY <1>9, GoType DEF Confirm
<1>10. ASSUME NEW passed \in BOOLEAN, NEW says \in made \cup {NoSha},
              EndCommand(p, passed, says)
       PROVE  TypeOK'
  <2>1. req[p].cat \in Cats /\ hd[p] \in Commits /\ tr[p] \in Trees
    BY <1>10, RequestShape DEF EndCommand, Holds, Identified, Digested
  <2>2. [kind |-> "capture", cat |-> req[p].cat, commit |-> hd[p], tree |-> tr[p],
         passed |-> passed, says |-> says] \in Captures
    BY <2>1 DEF Captures, TypeOK, GitTypeOK
  <2> QED BY <1>10, <2>1, <2>2, GitFrame DEF EndCommand, TypeOK, diskVars
<1>11. CASE ReadHeadAgain(p)
  BY <1>11, GitFrame DEF ReadHeadAgain, TypeOK, GitHead, GitTypeOK, diskVars
<1>12. CASE DigestAgain(p)
  <2>1. TreeOf[head] \in Trees
    BY RecorderAssumption DEF TypeOK, GitTypeOK
  <2> QED BY <1>12, <2>1, GitFrame DEF DigestAgain, TypeOK, diskVars
<1>13. CASE Judge(p)
  BY <1>13, GoType DEF Judge
<1>14. CASE WriteArtifact(p)
  <2>1. got[p] \in Captures
    BY <1>14 DEF WriteArtifact, Holds, ModeFits
  <2> QED BY <1>14, <2>1, GitFrame DEF WriteArtifact, TypeOK, localVars
<1>15. CASE HashArtifact(p)
  <2>1. req[p].art \in Logs
    BY <1>15, RequestShape DEF HashArtifact, Holds, ModeFits
  <2> QED BY <1>15, <2>1, GitFrame DEF HashArtifact, TypeOK, diskVars
<1>16. CASE HashMissing(p)
  BY <1>16, ExitType DEF HashMissing, TypeOK, diskVars
<1>17. CASE WriteRecord(p)
  <2>1. recs' \in [Slots -> Records \cup {NoFile}]
    BY <1>17, RecordType DEF WriteRecord, TypeOK
  <2> QED BY <1>17, <2>1, ExitType DEF WriteRecord, TypeOK
<1>18. CASE Abort(p)
  BY <1>18, ExitType DEF Abort, TypeOK, diskVars
<1> QED
  BY <1>1, <1>2, <1>3, <1>4, <1>5, <1>6, <1>6a, <1>7, <1>8, <1>9, <1>10, <1>11, <1>12,
     <1>13, <1>14, <1>15, <1>16, <1>17, <1>18 DEF Invoke, Step

\* Everybody else.
LEMMA OtherType == TypeOK /\ (EnvStep \/ Remove) => TypeOK'
<1>1. ASSUME TypeOK, EnvStep PROVE TypeOK'
  BY <1>1, EnvType DEF EnvStep, TypeOK, diskVars
<1>2. ASSUME TypeOK, Remove PROVE TypeOK'
  BY <1>2, GitFrame DEF Remove, TypeOK, localVars
<1> QED BY <1>1, <1>2

----------------------------------------------------------------------------
(* What an invocation knows.                                                *)

\* A step of q concerns p only through the plans that are displayed.
LEMMA OthersKeep ==
  ASSUME TypeOK, NEW p \in Procs, NEW q \in Procs, p # q,
         Invoke(q) \/ Step(q) \/ Abort(q)
  PROVE  /\ UNCHANGED gitVars
         /\ pc'[p] = pc[p] /\ req'[p] = req[p] 
         /\ hd'[p] = hd[p] /\ tr'[p] = tr[p] /\ hd2'[p] = hd2[p] /\ tr2'[p] = tr2[p]
         /\ scan'[p] = scan[p] /\ saw'[p] = saw[p] /\ got'[p] = got[p]
         /\ sum'[p] = sum[p] /\ moved'[p] = moved[p]
<1> USE DEF TypeOK, Goto, Exit, GoOrExit, localVars, diskVars
<1>1. ASSUME NEW r \in Requests, Start(q, r)
      PROVE  UNCHANGED <<gitVars, localVars>> /\ pc'[p] = pc[p]
             /\ req'[p] = req[p] 
  BY <1>1 DEF Start
<1> QED
  BY <1>1 DEF Invoke, Step, Abort, ReadHead, CheckTracked, Scan, Digest, ListProfile,
     CheckProfile, CheckPath, Preview, Confirm, EndCommand, ReadHeadAgain, DigestAgain, Judge,
     WriteArtifact, HashArtifact, HashMissing, WriteRecord

\* What another recorder knows is its own.
LEMMA OthersKnow ==
  ASSUME TypeOK, NEW p \in Procs, NEW q \in Procs, p # q, Inv(p),
         Invoke(q) \/ Step(q) \/ Abort(q)
  PROVE  Inv(p)'
<1>1. Holds(p)' /\ ModeFits(p)' /\ ScanBegins(p)' /\ Confirmed(p)'
  BY OthersKeep DEF Inv, Holds, ModeFits, ScanBegins, Confirmed, Plan
<1>2. ~moved[p] => Knows(p)'
  BY OthersKeep DEF Inv, Knows, gitVars, ScanSees
<1> QED BY <1>1, <1>2, OthersKeep DEF Inv

\* An invocation that has ended holds nothing and claims nothing.
LEMMA EndedInv ==
  ASSUME TypeOK, NEW p \in Procs, Exit(p) PROVE Inv(p)'
BY DEF TypeOK, Exit, Goto, Inv, Holds, ModeFits, ScanBegins, Confirmed, Knows,
       Identified, Digested, PCs, BeforeCommand, AfterCommand, LastScan

\* A step that goes on to l, with every local variable as it was.
LEMMA GoneOn ==
  ASSUME TypeOK, NEW p \in Procs, NEW l \in PCs, NEW cond \in BOOLEAN,
         GoOrExit(p, cond, l), ~Inv(p)'
  PROVE  /\ cond /\ pc'[p] = l /\ req' = req /\ UNCHANGED localVars
BY EndedInv DEF GoOrExit, Goto, TypeOK

\* A recorder's own step keeps what it knows.
LEMMA OwnStep ==
  ASSUME TypeOK, NEW p \in Procs, Inv(p), Invoke(p) \/ Step(p) \/ Abort(p)
  PROVE  Inv(p)'
<1> USE DEF Identified, Digested, PCs, BeforeCommand, AfterCommand
<1> SUFFICES ASSUME ~Inv(p)' PROVE FALSE
  OBVIOUS
<1>0. UNCHANGED gitVars => head' = head /\ dirt' = dirt /\ made' = made
  BY DEF gitVars
<1>1. ASSUME NEW r \in Requests, Start(p, r)
      PROVE  FALSE
  BY <1>1, <1>0, RecorderAssumption
     DEF Start, TypeOK, Goto, localVars, Inv, Holds, ModeFits, ScanBegins, Confirmed, Plan,
         Knows
<1>2. CASE ReadHead(p)
  BY <1>2, <1>0
     DEF ReadHead, TypeOK, GitTypeOK, GitHead, Goto, Inv, Holds, ModeFits, ScanBegins,
         Confirmed, Plan, Knows
<1>3. CASE CheckTracked(p)
  <2>1. pc'[p] = "scan" /\ req' = req /\ UNCHANGED localVars
    BY <1>3, GoneOn DEF CheckTracked
  <2>2. pc[p] = "tracked" /\ scan[p] = 0 /\ saw[p] = FALSE
    BY <1>3 DEF CheckTracked, Inv, ScanBegins, TypeOK
  <2>3. Holds(p)' /\ ModeFits(p)' /\ ScanBegins(p)' /\ Confirmed(p)'
    BY <1>3, <2>1, <2>2
       DEF CheckTracked, localVars, LastScan, Inv, Holds, ModeFits, ScanBegins, Confirmed
  <2>4. ~moved[p] => Knows(p)'
    BY <1>3, <1>0, <2>1, <2>2 DEF CheckTracked, localVars, LastScan, Inv, Knows
  <2> QED BY <2>1, <2>3, <2>4 DEF Inv, localVars
<1>4. CASE Scan(p)
  <2> DEFINE k == scan[p] + 1
  <2>1. /\ scan'[p] = IF k = LastScan THEN 0 ELSE k
        /\ saw'[p] = (saw[p] \/ ScanSees(k))
        /\ pc'[p] = IF k < LastScan THEN pc[p]
                    ELSE IF pc[p] = "scan" THEN "digest" ELSE "redigest"
        /\ UNCHANGED <<req, hd, tr, hd2, tr2, got, sum, moved, gitVars>>
        /\ ~(k = LastScan /\ saw'[p] /\ pc[p] = "scan")
        /\ pc[p] \in {"scan", "rescan"}
    BY <1>4, EndedInv DEF Scan, TypeOK, Goto, diskVars
  <2>2. scan[p] \in {0, 1, 2}
    BY <2>1 DEF TypeOK, Inv, ScanBegins, LastScan
  <2>3. Holds(p)' /\ ModeFits(p)' /\ Confirmed(p)'
    BY <2>1 DEF Inv, Holds, ModeFits, Confirmed, Plan
  <2>4. ScanBegins(p)'
    BY <2>1, <2>2 DEF Inv, ScanBegins, LastScan
  <2>5. ASSUME ~moved[p] PROVE Knows(p)'
    <3>1. ~saw'[p] => \A j \in 1..k : ~ScanSees(j)
      <4> SUFFICES ASSUME ~saw'[p], NEW j \in 1..k PROVE ~ScanSees(j)
        OBVIOUS
      <4>1. ~saw[p] /\ ~ScanSees(k)
        BY <2>1
      <4>2. j \in 1..scan[p] \/ j = k
        BY <2>2
      <4>3. \A i \in 1..scan[p] : ~ScanSees(i)
        BY <2>1, <2>5, <4>1 DEF Inv, Knows
      <4> QED BY <4>1, <4>2, <4>3 DEF ScanSees
    <3>2. k = LastScan /\ ~saw'[p] => dirt = {}
      BY <3>1 DEF LastScan, ScanSees, ScanOrder, TypeOK, GitTypeOK, Kinds
    <3> QED BY <2>1, <2>2, <2>5, <3>1, <3>2, <1>0 DEF Inv, Knows, LastScan, ScanSees
  <2> QED BY <2>1, <2>3, <2>4, <2>5 DEF Inv
<1>5. CASE Digest(p)
  <2>1. TreeOf[head] \in Trees
    BY RecorderAssumption DEF TypeOK, GitTypeOK
  <2> QED BY <1>5, <1>0, <2>1, RequestShape DEF Digest, TypeOK, Goto, Inv, Holds, ModeFits,
             ScanBegins, Confirmed, Plan, Knows
<1>6. CASE ListProfile(p)
  <2>0. (head \in ProfileFileIn) \in BOOLEAN
    OBVIOUS
  <2>1. pc'[p] = "profile" /\ req' = req /\ UNCHANGED localVars
    BY <1>6, <2>0, GoneOn DEF ListProfile
  <2> QED BY <1>6, <1>0, <2>1 DEF ListProfile, localVars, Inv, Holds, ModeFits,
             ScanBegins, Confirmed, Plan, Knows
<1>6a. CASE CheckProfile(p)
  <2>1. ProfileOf[head] = req[p].profile /\ pc'[p] = "outpath" /\ req' = req
        /\ UNCHANGED localVars
    BY <1>6a, GoneOn DEF CheckProfile
  <2> QED BY <1>6a, <1>0, <2>1 DEF CheckProfile, localVars, Inv, Holds, ModeFits,
             ScanBegins, Confirmed, Plan, Knows
<1>7. CASE CheckPath(p)
  <2> DEFINE l == CASE pc[p] = "paths" -> "outpath"
                    [] pc[p] = "repaths" -> "reoutpath"
                    [] pc[p] = "reoutpath" -> "artifact"
                    [] OTHER -> IF req[p].mode = "na" THEN "record" ELSE "confirm"
  <2>1. l \in PCs /\ GoOrExit(p, head \notin OutTrackedIn, l)
    BY <1>7 DEF CheckPath
  <2>2. pc'[p] = l /\ req' = req /\ UNCHANGED localVars
    BY <2>1, GoneOn
  <2>3. Holds(p)' /\ ModeFits(p)' /\ ScanBegins(p)'
    BY <1>7, <2>2 DEF CheckPath, localVars, Inv, Holds, ModeFits, ScanBegins
  <2>4. Confirmed(p)'
    BY <1>7, <2>2 DEF CheckPath, localVars, Inv, ModeFits, Confirmed, Plan
  <2>5. ~moved[p] => Knows(p)'
    BY <1>7, <1>0, <2>2 DEF CheckPath, localVars, Inv, ModeFits, Knows
  <2> QED BY <2>2, <2>3, <2>4, <2>5 DEF Inv, localVars
<1>8. CASE Preview(p)
  BY <1>8, EndedInv DEF Preview
<1>9. CASE Confirm(p)
  <2>1. req[p].plan = Plan(p) /\ pc'[p] = "exec" /\ req' = req
        /\ UNCHANGED localVars
    BY <1>9, GoneOn DEF Confirm
  <2> QED BY <1>9, <1>0, <2>1 DEF Confirm, localVars, Inv, Holds, ModeFits,
             ScanBegins, Confirmed, Plan, Knows
<1>10. ASSUME NEW passed \in BOOLEAN, NEW says \in made \cup {NoSha},
              EndCommand(p, passed, says)
       PROVE  FALSE
  <2>1. req[p].cat \in Cats /\ hd[p] \in Commits /\ tr[p] \in Trees
    BY <1>10, RequestShape DEF EndCommand, Inv, Holds
  <2>2. got'[p] \in Captures
    BY <1>10, <2>1 DEF EndCommand, Captures, TypeOK, GitTypeOK
  <2> QED BY <1>10, <1>0, <2>2 DEF EndCommand, TypeOK, Goto, Inv, Holds, ModeFits,
             ScanBegins, Confirmed, Plan, Knows
<1>11. CASE ReadHeadAgain(p)
  BY <1>11, <1>0 DEF ReadHeadAgain, TypeOK, GitHead, Goto, LastScan, Inv, Holds, ModeFits,
     ScanBegins, Confirmed, Plan, Knows
<1>12. CASE DigestAgain(p)
  BY <1>12, <1>0 DEF DigestAgain, TypeOK, Goto, Inv, Holds, ModeFits, ScanBegins,
     Confirmed, Plan, Knows
<1>13. CASE Judge(p)
  <2>1. hd2[p] = hd[p] /\ tr2[p] = tr[p] /\ ~saw[p] /\ pc'[p] = "repaths" /\ req' = req
        /\ UNCHANGED localVars
    BY <1>13, GoneOn DEF Judge
  <2> QED BY <1>13, <1>0, <2>1 DEF Judge, localVars, Inv, Holds, ModeFits, ScanBegins,
             Confirmed, Plan, Knows
<1>14. CASE WriteArtifact(p)
  BY <1>14, <1>0 DEF WriteArtifact, TypeOK, Goto, localVars, Inv, Holds, ModeFits,
     ScanBegins, Confirmed, Plan, Knows
<1>15. CASE HashArtifact(p)
  <2>1. req[p].art \in Logs
    BY <1>15, RequestShape DEF HashArtifact, Inv, Holds, ModeFits
  <2>2. sum'[p] \in Captures
    BY <1>15, <2>1 DEF HashArtifact, TypeOK
  <2> QED BY <1>15, <1>0, <2>2 DEF HashArtifact, TypeOK, Goto, Inv, Holds, ModeFits,
             ScanBegins, Confirmed, Plan, Knows
<1>16. CASE HashMissing(p)
  BY <1>16, EndedInv DEF HashMissing
<1>17. CASE WriteRecord(p)
  BY <1>17, EndedInv DEF WriteRecord
<1>18. CASE Abort(p)
  BY <1>18, EndedInv DEF Abort
<1> QED
  BY <1>1, <1>2, <1>3, <1>4, <1>5, <1>6, <1>6a, <1>7, <1>8, <1>9, <1>10, <1>11, <1>12,
     <1>13, <1>14, <1>15, <1>16, <1>17, <1>18 DEF Invoke, Step

\* Others act on the checkout, and then nothing is claimed of it, or on files.
LEMMA WorldKnows ==
  ASSUME TypeOK, NEW p \in Procs, Inv(p), EnvStep \/ Remove PROVE Inv(p)'
<1> USE DEF Identified, Digested, PCs, BeforeCommand, AfterCommand
<1>1. CASE EnvStep
  <2>1. moved'[p] = (pc[p] \notin {"idle", "head", "exec", "rehead"})
    BY <1>1 DEF EnvStep
  <2> QED BY <1>1, <2>1 DEF EnvStep, Inv, Holds, ModeFits, ScanBegins, Confirmed, Knows,
             Plan
<1>2. CASE Remove
  BY <1>2 DEF Remove, gitVars, localVars, Inv, Holds, ModeFits, ScanBegins, Confirmed,
     Knows, Plan, ScanSees
<1> QED BY <1>1, <1>2

\* The invariant holds at the start and in every step.
LEMMA InitInv == Init => IInv
BY CheckoutAssumption, RecorderAssumption
   DEF Init, GitInit, IInv, TypeOK, GitTypeOK, Inv, Holds, ModeFits, ScanBegins,
       Confirmed, Plan, Knows, Identified, Digested, PCs, BeforeCommand, AfterCommand, LastScan

\* Every step of recorders and environment keeps the invariant.
LEMMA NextInv == IInv /\ [RecorderNext]_vars => IInv'
<1> SUFFICES ASSUME IInv, [RecorderNext]_vars PROVE IInv'
  OBVIOUS
<1>1. TypeOK /\ \A p \in Procs : Inv(p)
  BY DEF IInv
<1>2. ASSUME NEW q \in Procs, Invoke(q) \/ Step(q) \/ Abort(q) PROVE IInv'
  <2>1. TypeOK'
    BY <1>1, <1>2, StepType DEF Inv
  <2>2. ASSUME NEW p \in Procs PROVE Inv(p)'
    <3>1. CASE p = q BY <1>1, <1>2, <3>1, OwnStep
    <3>2. CASE p # q BY <1>1, <1>2, <3>2, OthersKnow
    <3> QED BY <3>1, <3>2
  <2> QED BY <2>1, <2>2 DEF IInv
<1>3. ASSUME EnvStep \/ Remove PROVE IInv'
  <2>1. TypeOK' BY <1>1, <1>3, OtherType
  <2>2. ASSUME NEW p \in Procs PROVE Inv(p)' BY <1>1, <1>3, WorldKnows
  <2> QED BY <2>1, <2>2 DEF IInv
<1>4. ASSUME UNCHANGED vars PROVE IInv'
  <2>1. TypeOK'
    BY <1>1, <1>4, GitFrame DEF vars, recorderVars, diskVars, localVars, TypeOK
  <2>2. ASSUME NEW p \in Procs PROVE Inv(p)'
    BY <1>1, <1>4
       DEF vars, gitVars, recorderVars, diskVars, localVars, Inv, Holds, ModeFits,
           ScanBegins, Confirmed, Plan, Knows, ScanSees
  <2> QED BY <2>1, <2>2 DEF IInv
<1> QED BY <1>2, <1>3, <1>4 DEF RecorderNext

----------------------------------------------------------------------------
\* Every field keeps its type, the files on disk hold whole records and
\* captures, and repo_state never runs a fourth command.
THEOREM TypeCorrect == Spec => []TypeOK
<1>1. IInv => TypeOK BY DEF IInv
<1> QED BY InitInv, NextInv, <1>1, PTL DEF Spec

\* A record is only ever written by the WriteRecord of the process that leaves
\* its last step, and the record is that process's own.
LEMMA WriterIsOwn ==
  ASSUME IInv, RecorderNext, NEW p \in Procs, pc[p] = "record", pc'[p] = "idle",
         recs' # recs
  PROVE  WriteRecord(p)
<1>1. TypeOK /\ Inv(p)
  BY DEF IInv
<1>2. ASSUME NEW q \in Procs, Invoke(q) \/ Step(q) \/ Abort(q) PROVE WriteRecord(p)
  <2>1. q = p
    BY <1>1, <1>2, OthersKeep
  <2> QED
    BY <1>2, <2>1 DEF Invoke, Start, Step, Abort, ReadHead, CheckTracked, Scan, Digest,
       ListProfile, CheckProfile, CheckPath, Preview, Confirm, EndCommand, ReadHeadAgain,
       DigestAgain, Judge, WriteArtifact, HashArtifact, HashMissing, diskVars
<1>3. ~(EnvStep \/ Remove)
  BY DEF EnvStep, Remove
<1> QED BY <1>2, <1>3 DEF RecorderNext

\* A record describes the checkout it was made from: the commit and the tree of
\* a clean HEAD, or the profile committed there, unless somebody touched the
\* checkout after the last reading of HEAD.
THEOREM DescribesAlways == Spec => RecordDescribesCheckout
<1>1. IInv /\ [RecorderNext]_vars =>
        [\A p \in Procs :
           pc[p] = "record" /\ recs' # recs /\ pc'[p] = "idle" /\ ~moved[p]
             => LET r == recs'[req[p].out]
                IN /\ r.commit = head
                   /\ dirt = {}
                   /\ r.kind = "verified" => r.tree = TreeOf[head]
                   /\ r.kind = "na" => r.profile = ProfileOf[head]]_vars
  <2> SUFFICES ASSUME IInv, RecorderNext, NEW p \in Procs, pc[p] = "record",
                      recs' # recs, pc'[p] = "idle", ~moved[p]
               PROVE  LET r == recs'[req[p].out]
                      IN /\ r.commit = head
                         /\ dirt = {}
                         /\ r.kind = "verified" => r.tree = TreeOf[head]
                         /\ r.kind = "na" => r.profile = ProfileOf[head]
    OBVIOUS
  <2>1. TypeOK /\ Inv(p) BY DEF IInv
  <2>2. WriteRecord(p) BY WriterIsOwn
  <2>3. req[p].out \in Slots BY <2>1, RecordType DEF Inv
  <2>4. recs'[req[p].out] = Record(p)
    BY <2>1, <2>2, <2>3 DEF WriteRecord, TypeOK
  <2>5. /\ hd[p] = head /\ dirt = {} /\ tr[p] = TreeOf[head]
        /\ req[p].mode = "na" => req[p].profile = ProfileOf[head]
    BY <2>1 DEF Inv, Knows
  <2> QED BY <2>4, <2>5 DEF Record
<1> QED BY InitInv, NextInv, <1>1, PTL DEF Spec, RecordDescribesCheckout

\* A command is only ever released by the Confirm of its own process.
LEMMA ReleaserIsOwn ==
  ASSUME IInv, RecorderNext, NEW p \in Procs, pc[p] = "confirm", pc'[p] = "exec"
  PROVE  Confirm(p)
<1>1. TypeOK /\ Inv(p)
  BY DEF IInv
<1>2. ASSUME NEW q \in Procs, Invoke(q) \/ Step(q) \/ Abort(q) PROVE Confirm(p)
  <2>1. q = p
    BY <1>1, <1>2, OthersKeep
  <2> QED
    BY <1>1, <1>2, <2>1 DEF TypeOK, Goto, Exit, Invoke, Start, Step, Abort, ReadHead,
       CheckTracked, Scan, Digest, ListProfile, CheckProfile, CheckPath, Preview,
       EndCommand, ReadHeadAgain, DigestAgain, Judge, WriteArtifact, HashArtifact,
       HashMissing, WriteRecord
<1>3. ~(EnvStep \/ Remove)
  BY DEF EnvStep, Remove
<1> QED BY <1>2, <1>3 DEF RecorderNext

\* Whatever token an invocation comes with, its command starts, and its record
\* is written, only under the token of its category at the commit and tree of
\* a clean HEAD, unless somebody touched the checkout since its last reading.
THEOREM ConfirmedAlways == Spec => ActsOnConfirmedPlan
<1>1. IInv /\ [RecorderNext]_vars =>
        [\A p \in Procs :
           (/\ req[p].mode = "run"
            /\ ~moved[p]
            /\ \/ pc[p] = "confirm" /\ pc'[p] = "exec"
               \/ pc[p] = "record" /\ pc'[p] = "idle" /\ recs' # recs)
             => /\ req[p].plan =
                     [cat |-> req[p].cat, commit |-> head, tree |-> TreeOf[head]]
                /\ dirt = {}]_vars
  <2> SUFFICES ASSUME IInv, RecorderNext, NEW p \in Procs, req[p].mode = "run", ~moved[p],
                      \/ pc[p] = "confirm" /\ pc'[p] = "exec"
                      \/ pc[p] = "record" /\ pc'[p] = "idle" /\ recs' # recs
               PROVE  /\ req[p].plan =
                           [cat |-> req[p].cat, commit |-> head, tree |-> TreeOf[head]]
                      /\ dirt = {}
    OBVIOUS
  <2>1. Inv(p) BY DEF IInv
  <2>2. req[p].plan = Plan(p)
    <3>1. CASE pc[p] = "confirm" /\ pc'[p] = "exec"
      <4>1. Confirm(p) BY <3>1, ReleaserIsOwn
      <4> QED BY <3>1, <4>1 DEF Confirm, GoOrExit, Exit, Goto, IInv, TypeOK
    <3>2. CASE pc[p] = "record"
      BY <3>2, <2>1 DEF Inv, Confirmed, AfterCommand
    <3> QED BY <3>1, <3>2
  <2>3. hd[p] = head /\ dirt = {} /\ tr[p] = TreeOf[head]
    BY <2>1 DEF Inv, Knows
  <2> QED BY <2>2, <2>3 DEF Plan
<1> QED BY InitInv, NextInv, <1>1, PTL DEF Spec, ActsOnConfirmedPlan
=============================================================================
