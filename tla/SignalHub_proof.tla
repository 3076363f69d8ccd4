---------------------------- MODULE SignalHub_proof ----------------------------
(*****************************************************************************)
(* The two modules about nodes that talk over the SignalHub, for every value *)
(* of their constants: PulseScan (a scan reads what a processor derives from *)
(* the frame it published) and LiveView (a board of panels shows many signals *)
(* at one shot, and an editor waits for its edit).  They share no state.     *)
(*                                                                           *)
(* PulseScan: the invariant follows one point from its snapshot to its       *)
(* record.  LiveView: all panels are keyed with one shot, since a drawing    *)
(* leaves out only those that have its key; an edit is in force, or queued   *)
(* behind a pass that has not counted it, or the one a loop left.            *)
(*****************************************************************************)
EXTENDS PulseScan, LiveView, WellFoundedInduction, TLAPS

(* One shot is minted per live frame and one per point.                    *)
HasShot == scan \in {"publish", "await", "read", "fill"}
Counted ==
  /\ scan # "off" => liveCamera = "gone"
  /\ scan = "off" => results = <<>> /\ sourceShot <= LiveFrames
  /\ scan \in {"shot", "mint"} => Len(results) < Points /\ sourceShot <= LiveFrames + Len(results)
  /\ HasShot => Len(results) < Points /\ sourceShot <= LiveFrames + Len(results) + 1 /\ shot # NoShot

(* What is about to be published is newer than all the judge holds.        *)
Ordered ==
  /\ liveCamera = "publish" => liveShot = sourceShot
  /\ scan = "publish" => shot = sourceShot
  /\ frame <= sourceShot /\ held <= sourceShot
  /\ judge = "tag" => frame = NoShot \/ held <= frame
  /\ judge = "publish" => tag = NoShot \/ held <= tag

(* The point's frame is on the hub; the judge either still has to publish  *)
(* its result, and holds nothing else, or has published it.                *)
OwnRate == rate = [of |-> shot, src |-> shot]
Judging ==
  /\ version.rate = before
  /\ judge \in {"value", "tag", "publish"} => seenVersion = version.frame
  /\ judge \in {"tag", "publish"} => held = shot
  /\ judge = "publish" => tag = shot
Judged == version.rate > before /\ Quiet /\ OwnRate

Exact ==
  ~disturbed =>
    /\ scan \in {"shot", "mint", "publish"} => Quiet
    /\ scan \in {"mint", "publish"} => version.rate = before
    /\ scan = "await" => frame = shot /\ (Judging \/ Judged)
    /\ scan = "read" => Quiet /\ OwnRate
    /\ scan = "fill" => (Quiet \/ stop) /\ y \in {NaN, [of |-> shot, src |-> shot]}
    /\ \A i \in 1 .. Len(results) : OwnFrame(results[i])

IInv == TypeOK /\ Counted /\ Ordered /\ Exact /\ TagNotOlder

LEMMA NoSample == NoShot \in Shots /\ NaN \in Samples
BY PulseScanAssumption DEF Shots, Samples, NoShot, NaN

LEMMA InitHolds == ScanInit => IInv
<1> SUFFICES ASSUME ScanInit PROVE  IInv
  OBVIOUS
<1>1. TypeOK
  <2>1. results \in Seq([shot : Shots, y : Samples]) /\ Len(results) = 0
    BY DEF ScanInit
  <2>2. version \in [frame : Nat, rate : Nat] /\ rate \in Samples /\ y \in Samples
    BY NoSample DEF ScanInit
  <2>3. /\ frame \in Shots /\ sourceShot \in Shots /\ liveShot \in Shots /\ held \in Shots /\ tag \in Shots
        /\ shot \in Shots /\ lost \in Shots
    BY NoSample DEF ScanInit, NoShot
  <2>4. seenVersion \in Nat /\ before \in Nat /\ deafUntil \in Nat
    BY DEF ScanInit
  <2>5. failed \in BOOLEAN /\ stop \in BOOLEAN /\ disturbed \in BOOLEAN
    BY DEF ScanInit
  <2>6. /\ judge \in {"idle", "value", "tag", "publish", "off"} /\ liveCamera \in {"acquire", "publish", "gone"}
        /\ scan \in {"off", "shot", "mint", "publish", "await", "read", "fill", "done"}
    BY DEF ScanInit
  <2>7. Len(results) <= Points
    BY <2>1, PulseScanAssumption
  <2>8. QED
    BY <2>1, <2>2, <2>3, <2>4, <2>5, <2>6, <2>7 DEF TypeOK
<1>2. Counted /\ Ordered /\ TagNotOlder
  BY PulseScanAssumption DEF ScanInit, Counted, HasShot, Ordered, TagNotOlder, NoShot, NaN
<1>3. Exact
  BY DEF ScanInit, Exact
<1>4. QED
  BY <1>1, <1>2, <1>3 DEF IInv

-----------------------------------------------------------------------------
(* What the three writers of the hub do to it.                             *)
Versions == [frame : Nat, rate : Nat]

LEMMA FramePublished ==
  ASSUME version \in Versions, NEW id, PublishFrame(id)
  PROVE  /\ version' \in Versions /\ version'.frame = version.frame + 1 /\ version'.rate = version.rate
         /\ frame' = id /\ rate' = rate /\ sourceShot' = sourceShot
BY DEF PublishFrame, Versions

LEMMA RatePublished ==
  ASSUME version \in Versions, NEW sample, PublishRate(sample)
  PROVE  /\ version' \in Versions /\ version'.rate = version.rate + 1 /\ version'.frame = version.frame
         /\ rate' = sample /\ frame' = frame /\ sourceShot' = sourceShot
BY DEF PublishRate, Versions

LEMMA FrameRemoved ==
  ASSUME version \in Versions, RemoveFrame
  PROVE  /\ version' \in Versions /\ version'.frame = 0 /\ version'.rate = version.rate
         /\ frame' = NoShot /\ rate' = rate /\ sourceShot' = sourceShot
BY DEF RemoveFrame, Versions

-----------------------------------------------------------------------------
(* What the judge's own steps leave alone.                                 *)
LEMMA JudgeLeaves ==
  ASSUME JudgePass
  PROVE  UNCHANGED <<frame, sourceShot, cameraNode, scanNode, disturbed, deafUntil>>
BY DEF JudgePass, JudgeSeesNew, JudgeIdles, JudgeReadsValue, JudgeReadsTag, JudgePublishes,
   JudgeFails,
  PublishRate, hub, scanNode, ghosts

(* Every action keeps the types, since shots are counted.                  *)
LEMMA TypeStep == IInv /\ [ScanNext]_scanVars => TypeOK'
<1> SUFFICES ASSUME TypeOK, Counted, [ScanNext]_scanVars PROVE  TypeOK'
  BY DEF IInv
<1> USE NoSample DEF TypeOK, Versions, hub, cameraNode, judgeNode, scanNode, ghosts
<1>1. CASE CameraAcquires
  BY <1>1, PulseScanAssumption DEF CameraAcquires, NextSourceShot, Shots
<1>2. CASE CameraPublishes
  BY <1>2, FramePublished DEF CameraPublishes
<1>3. CASE JudgeSeesNew \/ JudgeIdles \/ JudgeReadsValue \/ JudgeReadsTag \/ JudgeFails
  <2>1. UNCHANGED <<hub, cameraNode, scanNode, disturbed, deafUntil>>
    BY <1>3 DEF JudgeSeesNew, JudgeIdles, JudgeReadsValue, JudgeReadsTag, JudgeFails
  <2>2. judge' \in {"idle", "value", "tag", "publish", "off"} /\ seenVersion' \in Nat /\ failed' \in BOOLEAN
    BY <1>3 DEF JudgeSeesNew, JudgeIdles, JudgeReadsValue, JudgeReadsTag, JudgeFails, After, Reads
  <2>3. held' \in Shots /\ tag' \in Shots /\ lost' \in Shots
    BY <1>3, NoSample DEF JudgeSeesNew, JudgeIdles, JudgeReadsValue, JudgeReadsTag, JudgeFails
  <2>4. QED
    BY <2>1, <2>2, <2>3
<1>4. CASE JudgePublishes
  <2>1. [of |-> held, src |-> tag] \in Samples
    BY DEF Samples
  <2>2. version' \in Versions /\ rate' \in Samples /\ UNCHANGED <<frame, sourceShot>>
    BY <1>4, <2>1, RatePublished DEF JudgePublishes
  <2>3. QED
    BY <1>4, <2>2 DEF JudgePublishes
<1>5. CASE ScanShot \/ AwaitFresh \/ AwaitTimesOut \/ AwaitStopped \/ ScanReads \/ ScanCancelled
  <2>1. UNCHANGED <<hub, cameraNode, judgeNode, stop, shot, results, deafUntil, lost>>
    BY <1>5 DEF ScanShot, AwaitFresh, AwaitTimesOut, AwaitStopped, ScanReads, ScanCancelled
  <2>2. /\ scan' \in {"mint", "read", "fill", "done"} /\ before' \in Nat
        /\ y' \in Samples /\ disturbed' \in BOOLEAN
    BY <1>5 DEF ScanShot, AwaitFresh, AwaitTimesOut, AwaitStopped, ScanReads, ScanCancelled
  <2>3. QED
    BY <2>1, <2>2
<1>6. CASE ScanMints
  BY <1>6, PulseScanAssumption DEF ScanMints, NextSourceShot, Counted, Shots
<1>7. CASE ScanPublishes
  BY <1>7, FramePublished DEF ScanPublishes
<1>8. CASE ScanFills
  <2>1. results' \in Seq([shot : Shots, y : Samples]) /\ Len(results') = Len(results) + 1
    BY <1>8 DEF ScanFills
  <2>2. Len(results') <= Points
    BY <1>8, <2>1, PulseScanAssumption DEF ScanFills, Counted, HasShot
  <2>3. QED
    BY <1>8, <2>1, <2>2 DEF ScanFills, Swept
<1>9. CASE StartScan \/ StopJudge \/ PressStop
  <2>1. UNCHANGED <<hub, liveShot, seenVersion, held, tag, failed, before, shot, y, results,
                   deafUntil, lost>>
    BY <1>9 DEF StartScan, StopJudge, PressStop
  <2>2. /\ liveCamera' \in {liveCamera, "gone"} /\ judge' \in {judge, "off"}
        /\ scan' \in {scan, "shot"} /\ stop' \in BOOLEAN /\ disturbed' \in BOOLEAN
    BY <1>9 DEF StartScan, StopJudge, PressStop
  <2>3. QED
    BY <2>1, <2>2
<1>10. CASE RemoveRow
  BY <1>10, FrameRemoved DEF RemoveRow
<1>11. CASE UNCHANGED scanVars
  BY <1>11 DEF scanVars
<1>12. QED
  BY <1>1, <1>2, <1>3, <1>4, <1>5, <1>6, <1>7, <1>8, <1>9, <1>10, <1>11 DEF ScanNext,
     JudgePass, Scan, ScanConsole

(* Every action keeps the count of shots.                                  *)
LEMMA CountedStep == IInv /\ [ScanNext]_scanVars => Counted'
<1> SUFFICES ASSUME TypeOK, Counted, [ScanNext]_scanVars PROVE  Counted'
  BY DEF IInv
<1> USE PulseScanAssumption DEF Counted, HasShot, NoShot, hub, cameraNode, scanNode
<1>1. CASE CameraAcquires
  BY <1>1 DEF CameraAcquires, NextSourceShot, TypeOK, Shots
<1>2. CASE CameraPublishes
  BY <1>2 DEF CameraPublishes, PublishFrame
<1>3. CASE JudgePass
  BY <1>3, JudgeLeaves
<1>4. CASE ScanShot \/ ScanPublishes \/ AwaitFresh \/ AwaitTimesOut \/ AwaitStopped \/ ScanReads \/ ScanCancelled
  BY <1>4 DEF ScanShot, ScanPublishes, AwaitFresh, AwaitTimesOut, AwaitStopped, ScanReads,
     ScanCancelled, PublishFrame
<1>5. CASE ScanMints
  BY <1>5 DEF ScanMints, NextSourceShot, TypeOK, Shots
<1>6. CASE ScanFills
  <2>1. /\ liveCamera = "gone" /\ liveCamera' = liveCamera /\ sourceShot' = sourceShot
        /\ Len(results) < Points /\ sourceShot <= LiveFrames + Len(results) + 1
    BY <1>6 DEF ScanFills
  <2>2. Len(results') = Len(results) + 1 /\ Len(results) \in Nat
    BY <1>6 DEF ScanFills, TypeOK
  <2>3. scan' \in {"shot", "done"} /\ (scan' = "shot" => Len(results') # Points)
    BY <1>6 DEF ScanFills, Swept
  <2>4. QED
    BY <2>1, <2>2, <2>3 DEF TypeOK, Shots
<1>7. CASE StartScan \/ RemoveRow \/ StopJudge \/ PressStop
  BY <1>7 DEF StartScan, RemoveRow, StopJudge, PressStop, RemoveFrame
<1>8. CASE UNCHANGED scanVars
  BY <1>8 DEF scanVars
<1>9. QED
  BY <1>1, <1>2, <1>3, <1>4, <1>5, <1>6, <1>7, <1>8 DEF ScanNext, Scan, ScanConsole

(* Every action keeps the order of the ids in hand: a frame published is   *)
(* the newest id there is.                                                 *)
LEMMA OrderedStep == IInv /\ [ScanNext]_scanVars => Ordered'
<1> SUFFICES ASSUME TypeOK, Counted, Ordered, [ScanNext]_scanVars PROVE  Ordered'
  BY DEF IInv
<1> USE PulseScanAssumption DEF TypeOK, Shots, Ordered, NoShot, hub, cameraNode, judgeNode, scanNode
<1>1. CASE CameraAcquires
  BY <1>1 DEF CameraAcquires, NextSourceShot, Counted
<1>2. CASE CameraPublishes
  BY <1>2 DEF CameraPublishes, PublishFrame, Counted
<1>3. CASE JudgeSeesNew \/ JudgeIdles
  BY <1>3 DEF JudgeSeesNew, JudgeIdles, Reads
<1>4. CASE JudgeReadsValue
  BY <1>4 DEF JudgeReadsValue, After, Reads
<1>5. CASE JudgeReadsTag
  BY <1>5 DEF JudgeReadsTag, After, Reads
<1>6. CASE JudgePublishes \/ JudgeFails
  BY <1>6, SMTT(30) DEF JudgePublishes, JudgeFails, PublishRate
<1>7. CASE ScanShot \/ AwaitFresh \/ AwaitTimesOut \/ AwaitStopped \/ ScanReads \/ ScanFills \/ ScanCancelled
  BY <1>7 DEF ScanShot, AwaitFresh, AwaitTimesOut, AwaitStopped, ScanReads, ScanFills, ScanCancelled
<1>8. CASE ScanMints
  BY <1>8 DEF ScanMints, NextSourceShot, Counted
<1>9. CASE ScanPublishes
  BY <1>9 DEF ScanPublishes, PublishFrame
<1>10. CASE StartScan \/ RemoveRow \/ StopJudge \/ PressStop
  BY <1>10, SMTT(30) DEF StartScan, RemoveRow, StopJudge, PressStop, RemoveFrame
<1>11. CASE UNCHANGED scanVars
  BY <1>11 DEF scanVars
<1>12. QED
  BY <1>1, <1>2, <1>3, <1>4, <1>5, <1>6, <1>7, <1>8, <1>9, <1>10, <1>11 DEF ScanNext,
     JudgePass, Scan, ScanConsole

(* Only the judge publishes a rate.                                        *)
LEMMA TagStep == IInv /\ [ScanNext]_scanVars => TagNotOlder'
<1> SUFFICES ASSUME IInv, [ScanNext]_scanVars PROVE  TagNotOlder'
  OBVIOUS
<1>1. CASE JudgePublishes
  BY <1>1 DEF JudgePublishes, PublishRate, IInv, Ordered, TagNotOlder
<1>2. CASE ~JudgePublishes
  <2>1. rate' = rate
    BY <1>2 DEF ScanNext, JudgePass, Scan, ScanConsole, scanVars, hub, CameraAcquires,
       CameraPublishes, PublishFrame,
      JudgeSeesNew, JudgeIdles, JudgeReadsValue, JudgeReadsTag, JudgeFails, ScanShot, ScanMints, ScanPublishes,
      AwaitFresh, AwaitTimesOut, AwaitStopped, ScanReads, ScanFills, ScanCancelled,
      StartScan, RemoveRow, RemoveFrame, StopJudge, PressStop
  <2>2. QED
    BY <2>1 DEF IInv, TagNotOlder
<1>3. QED
  BY <1>1, <1>2

(* Every action keeps what an undisturbed scan relies on.                  *)
LEMMA ExactStep == IInv /\ [ScanNext]_scanVars => Exact'
<1> SUFFICES ASSUME TypeOK, Counted, Ordered, Exact, [ScanNext]_scanVars PROVE  Exact'
  BY DEF IInv
<1> USE DEF HasShot, NoShot, hub, cameraNode, judgeNode, scanNode, ghosts
<1> USE DEF Exact, Judging, Judged, OwnRate, Quiet, OwnFrame
<1>1. CASE CameraAcquires \/ CameraPublishes \/ RemoveRow
  <2>1. scan' = "off" /\ results' = <<>>
    BY <1>1 DEF CameraAcquires, CameraPublishes, RemoveRow, Counted, TypeOK
  <2>2. QED
    BY <2>1
<1>2. CASE JudgeSeesNew
  BY <1>2 DEF JudgeSeesNew, Advanced, Reads, TypeOK
<1>3. CASE JudgeIdles
  BY <1>3 DEF JudgeIdles
<1>4. CASE JudgeReadsValue
  BY <1>4 DEF JudgeReadsValue, After, Reads, Counted, TypeOK
<1>5. CASE JudgeReadsTag
  BY <1>5 DEF JudgeReadsTag, After, Reads, TypeOK
<1>6. CASE JudgePublishes
  <2> SUFFICES ASSUME ~disturbed PROVE  Exact'
    BY <1>6 DEF JudgePublishes
  <2>1. /\ version' \in Versions /\ version'.rate = version.rate + 1 /\ version'.frame = version.frame
        /\ rate' = [of |-> held, src |-> tag] /\ frame' = frame
    BY <1>6, RatePublished DEF JudgePublishes, Versions, TypeOK
  <2>2. judge = "publish" /\ judge' = "idle" /\ UNCHANGED <<seenVersion, scanNode>>
    BY <1>6 DEF JudgePublishes
  <2>3. scan \notin {"shot", "mint", "publish", "read"} /\ (scan = "fill" => stop)
    BY <2>2
  <2>4. CASE scan = "await"
    <3>1. frame' = shot' /\ version'.rate > before' /\ rate' = [of |-> shot', src |-> shot'] /\ Quiet'
      BY <2>1, <2>2, <2>4 DEF TypeOK
    <3>2. QED
      BY <2>2, <2>4, <3>1
  <2>5. QED
    BY <2>2, <2>3, <2>4
<1>7. CASE JudgeFails
  BY <1>7 DEF JudgeFails, TypeOK
<1>8. CASE ScanShot
  BY <1>8 DEF ScanShot
<1>9. CASE ScanMints
  BY <1>9 DEF ScanMints
<1>10. CASE ScanPublishes
  BY <1>10 DEF ScanPublishes, PublishFrame, TypeOK
<1>11. CASE AwaitFresh
  BY <1>11 DEF AwaitFresh, Fresh, TypeOK
<1>12. CASE AwaitTimesOut
  BY <1>12 DEF AwaitTimesOut, GivesUp, Fresh
<1>13. CASE AwaitStopped
  BY <1>13 DEF AwaitStopped
<1>14. CASE ScanReads
  BY <1>14 DEF ScanReads
<1>15. CASE ScanFills
  BY <1>15 DEF ScanFills, Swept, TypeOK
<1>16. CASE ScanCancelled
  BY <1>16 DEF ScanCancelled
<1>17. CASE StartScan
  <2>1. scan' = "shot" /\ results' = <<>>
    BY <1>17 DEF StartScan, Counted
  <2>2. ~disturbed' => Quiet'
    BY <1>17 DEF StartScan
  <2>3. QED
    BY <2>1, <2>2
<1>18. CASE StopJudge \/ PressStop
  BY <1>18 DEF StopJudge, PressStop
<1>19. CASE UNCHANGED scanVars
  BY <1>19 DEF scanVars
<1>20. QED
  BY <1>1, <1>2, <1>3, <1>4, <1>5, <1>6, <1>7, <1>8, <1>9, <1>10, <1>11, <1>12, <1>13,
     <1>14, <1>15, <1>16, <1>17, <1>18, <1>19
    DEF ScanNext, JudgePass, Scan, ScanConsole

THEOREM Invariance == ScanSpec => []IInv
<1>1. IInv /\ [ScanNext]_scanVars => IInv'
  BY TypeStep, CountedStep, OrderedStep, TagStep, ExactStep DEF IInv
<1>2. QED
  BY InitHolds, <1>1, PTL DEF ScanSpec

(* Every variable keeps its type, however many frames and points there are.*)
THEOREM TypeCorrect == ScanSpec => []TypeOK
BY Invariance, PTL DEF IInv

(* A derived sample is never tagged with a shot older than its frame.      *)
THEOREM Tagged == ScanSpec => []TagNotOlder
BY Invariance, PTL DEF IInv

(* While the processor was quiet at the start and at every time-out, each  *)
(* recorded reading is NaN or that of the point's own frame and shot.      *)
THEOREM OwnReading == ScanSpec => []ExactUnlessDisturbed
<1>1. IInv => ExactUnlessDisturbed
  BY DEF IInv, Exact, ExactUnlessDisturbed
<1>2. QED
  BY Invariance, <1>1, PTL
-----------------------------------------------------------------------------
(* LiveView: the board.  A drawing keys what it draws with the first of    *)
(* its two readings of the display shot, and leaves out only panels that   *)
(* have that key already.                                                  *)
FrameSamples == [shot : Nat, params : Nat]

LiveTypes ==
  /\ scenario \in Scenarios
  /\ log \in [Signals -> Seq(FrameSamples)]
  /\ judging \in [Judges -> FrameSamples \cup {None}]
  /\ edits \in Nat /\ params \in 0..edits /\ pending \in 0..edits
  /\ epoch \in Nat /\ applied \in BOOLEAN

OneKey == \A c, d \in Cards : key[c][1] = key[d][1]

(* A panel keyed with its signal shows it, drawn at a shot no older than   *)
(* the key's, unless it is one of the missed.                              *)
Keyed(c) == key[c] # None /\ ~key[c][2] /\ c \notin missed
Backed ==
  \A c \in Cards :
    /\ board[c] # None => ~Empty(c)
    /\ Keyed(c) => board[c] # None /\ ~Older(board[c].of, key[c][1])

Redraws ==
  /\ view \in Nat
  /\ gui \in {"view", "snap", "paint"} =>
       dirty \subseteq Cards /\ \A c \in Cards \ dirty : key[c][1] = disp
  /\ gui = "snap" => \A c \in dirty \ absent : ~Empty(c)
  /\ gui = "paint" => \A c \in dirty : 
       IF snap[c] = None THEN c \in absent ELSE snap[c] \in FrameSamples /\ ~Empty(c)

BoardInv == OneKey /\ Backed /\ Redraws

(* The edits: what an answer to the editor that waits means.               *)
InForce(e) == params \in {e, leftover} /\ pending \in {0, leftover}
Unmoved(w, e) == epoch = w.epoch /\ ~applied /\ pending \in {0, e}
Answers(w) == w.overtook \/ InForce(edits) \/ Unmoved(w, edits)

(* An edit older than the one in force can only be the one a loop left.    *)
LateEdit == pending # 0 /\ pending <= params => pending = leftover
EditsInv ==
  /\ LateEdit
  /\ pc = "none" => pending \in {0, leftover}
  /\ gui = "apply" =>
       /\ params < edits /\ pending < edits
       /\ was \in [running : BOOLEAN, epoch : Nat, overtook : BOOLEAN]
  /\ gui = "step" => pc = "none" /\ params = edits
  /\ gui \in {"start", "step"} => Answers(was)
  /\ gui \in {"apply", "step", "start"} => awaiting = None
  /\ awaiting # None => awaiting.edit = edits /\ Answers(awaiting.was)

LiveInv == LiveTypes /\ BoardInv /\ EditsInv

(* A set of positions has a greatest.                                      *)
LEMMA HasGreatest ==
  ASSUME NEW n \in Nat, NEW S \in SUBSET (1..n), S # {}
  PROVE  Max(S) \in S
  <1> DEFINE R == OpToRel(<, Nat)
             D == {n - i : i \in S}
  <1>1. \A a, b \in Nat : a < b => <<a, b>> \in R
    BY DEF OpToRel
  <1>2. IsWellFoundedOn(R, Nat)
    BY NatLessThanWellFounded
  <1>3. D \subseteq Nat /\ D # {}
    <2>1. \A i \in S : n - i \in Nat
      OBVIOUS
    <2> QED BY <2>1
  <1> HIDE DEF R
  <1>4. PICK d \in D : \A a \in D : ~(<<a, d>> \in R)
    BY <1>2, <1>3, WFMin
  <1>5. PICK i \in S : d = n - i
    BY <1>4
  <1>6. \A j \in S : i >= j
    <2> SUFFICES ASSUME NEW j \in S PROVE i >= j
      OBVIOUS
    <2>1. n - j \in D /\ n - j \in Nat /\ n - i \in Nat
      OBVIOUS
    <2>2. ~(n - j < n - i)
      BY <1>1, <1>4, <1>5, <2>1
    <2>3. i \in Int /\ j \in Int
      OBVIOUS
    <2> HIDE DEF D
    <2> QED BY <2>2, <2>3
  <1> QED BY <1>5, <1>6 DEF Max

LEMMA CardSignals == LiveTypes => Cards \subseteq Signals
  BY LiveViewAssumption DEF LiveTypes, Cards, Signals

(* A panel is shown nothing only if its signal never had a sample.         *)
LEMMA AtSample ==
  ASSUME LiveTypes, NEW c \in Signals, NEW k
  PROVE  IF Empty(c) THEN At(c, k) = None ELSE At(c, k) # None /\ At(c, k) \in FrameSamples
  <1> DEFINE n == Len(log[c])
             ring == {i \in DOMAIN log[c] : i > n - Depth}
             hits == {i \in ring : log[c][i].shot = k}
  <1>1. log[c] \in Seq(FrameSamples) /\ n \in Nat /\ DOMAIN log[c] = 1..n
    BY DEF LiveTypes
  <1>2. \A i \in 1..n : log[c][i] # None /\ log[c][i] \in FrameSamples
    <2>1. \A i \in 1..n : log[c][i] \in FrameSamples
      BY <1>1
    <2> QED BY <2>1, LiveViewAssumption DEF FrameSamples, LiveViewAssumption
  <1>3. ~Empty(c) => n \in 1..n
    BY <1>1 DEF Empty
  <1>4. hits \in SUBSET (1..n)
    BY <1>1
  <1>5. hits # {} => Max(hits) \in 1..n
    <2> HIDE DEF hits, n
    <2> QED BY <1>1, <1>4, HasGreatest
  <1>6. At(c, k) = IF Empty(c) THEN None ELSE IF hits = {} THEN log[c][n] ELSE log[c][Max(hits)]
    BY DEF At, Newest
  <1> HIDE DEF hits, n
  <1> QED BY <1>2, <1>3, <1>5, <1>6

(* A set of shots has a least.                                             *)
LEMMA HasLeast ==
  ASSUME NEW S \in SUBSET Nat, S # {}
  PROVE  Min(S) \in S
  <1> DEFINE R == OpToRel(<, Nat)
  <1>1. \A a, b \in Nat : a < b => <<a, b>> \in R
    BY DEF OpToRel
  <1>2. IsWellFoundedOn(R, Nat)
    BY NatLessThanWellFounded
  <1> HIDE DEF R
  <1>3. PICK a \in S : \A b \in S : ~(<<b, a>> \in R)
    BY <1>2, WFMin
  <1>4. \A b \in S : a <= b
    <2> SUFFICES ASSUME NEW b \in S PROVE a <= b
      OBVIOUS
    <2>1. a \in Nat /\ b \in Nat /\ ~(b < a)
      BY <1>1, <1>3
    <2> QED BY <2>1
  <1> QED BY <1>3, <1>4 DEF Min

(* The display shot is a shot, or 0.                                       *)
LEMMA ShotDisplayed ==
  ASSUME LiveTypes, NEW nodes
  PROVE  DisplayShot(nodes) \in Nat
  <1> DEFINE reached == {Newest(s).shot : s \in {c \in nodes \cap Cards : ~Empty(c)}}
  <1>1. ASSUME NEW s \in Cards, ~Empty(s) PROVE Newest(s).shot \in Nat
    <2>1. log[s] \in Seq(FrameSamples) /\ log[s] # <<>>
      BY <1>1, CardSignals DEF LiveTypes, Empty
    <2>2. Newest(s) \in FrameSamples
      BY <2>1 DEF Newest
    <2> QED BY <2>2 DEF FrameSamples
  <1>2. reached \in SUBSET Nat
    BY <1>1
  <1>3. DisplayShot(nodes) = IF reached = {} THEN 0 ELSE Min(reached)
    BY DEF DisplayShot
  <1> HIDE DEF reached
  <1>4. reached # {} => Min(reached) \in reached
    BY <1>2, HasLeast
  <1>5. reached # {} => Min(reached) \in Nat
    BY <1>2, <1>4
  <1> QED BY <1>3, <1>5

LEMMA LiveBegins == Init => LiveInv
  <1> SUFFICES ASSUME Init PROVE LiveInv
    OBVIOUS
  <1>1. LiveTypes
    <2>1. <<>> \in Seq(FrameSamples)
      OBVIOUS
    <2>2. /\ log \in [Signals -> Seq(FrameSamples)]
          /\ judging \in [Judges -> FrameSamples \cup {None}]
      BY <2>1 DEF Init
    <2>3. edits = 0 /\ params = 0 /\ pending = 0 /\ epoch = 0
      BY DEF Init
    <2>4. params \in 0..edits /\ pending \in 0..edits
      BY <2>3
    <2>5. scenario \in Scenarios /\ applied \in BOOLEAN
      BY DEF Init
    <2>6. edits \in Nat /\ epoch \in Nat
      BY <2>3
    <2> QED BY <2>2, <2>4, <2>5, <2>6 DEF LiveTypes
  <1>2. Cards \subseteq Signals
    BY <1>1, CardSignals
  <1>3. BoardInv
    BY <1>2 DEF Init, BoardInv, OneKey, Backed, Keyed, Redraws
  <1>4. EditsInv
    BY DEF Init, EditsInv, LateEdit
  <1> QED BY <1>1, <1>3, <1>4 DEF LiveInv

(* Logs grow.                                                              *)
LEMMA LogAppended ==
  ASSUME LiveTypes, NEW c \in Signals, NEW x \in FrameSamples, log' = [log EXCEPT ![c] = Append(@, x)]
  PROVE  log' \in [Signals -> Seq(FrameSamples)] /\ \A d \in Signals : Empty(d)' => Empty(d)
  <1>1. log[c] \in Seq(FrameSamples) /\ Append(log[c], x) \in Seq(FrameSamples) /\ Append(log[c], x) # <<>>
    BY DEF LiveTypes
  <1> QED BY <1>1 DEF LiveTypes, Empty

LEMMA FrameAppended ==
  ASSUME LiveTypes, FrameComes
  PROVE  log' \in [Signals -> Seq(FrameSamples)] /\ \A d \in Signals : Empty(d)' => Empty(d)
  <1>1. Frame \in Signals
    BY DEF Signals
  <1>2. [shot |-> Len(log[Frame]) + 1, params |-> params] \in FrameSamples
    BY <1>1 DEF LiveTypes, FrameSamples
  <1> QED BY <1>1, <1>2, LogAppended DEF FrameComes
(* Every step keeps the types, and logs are never emptied.                 *)
LEMMA LiveTypesKept ==
  ASSUME LiveInv, [Next]_vars
  PROVE  LiveTypes' /\ \A c \in Signals : Empty(c)' => Empty(c)
  <1> USE DEF LiveInv
  <1>1. CASE Top
    <2>1. UNCHANGED <<scenario, log, judging, edits, epoch>>
      BY <1>1 DEF Top, bounds, judges, editor, edit
    <2>2. params' \in {params, pending} /\ pending' \in {0, pending} /\ applied' \in BOOLEAN
      BY <1>1 DEF Top, edit, Drain, LiveTypes
    <2> QED BY <2>1, <2>2 DEF LiveTypes, Empty
  <1>2. CASE Shoot \/ StepIdle
    <2>1. UNCHANGED <<scenario, judging, edits, params, pending>>
      BY <1>2 DEF Shoot, StepIdle, bounds, judges, editor
    <2>2. epoch' \in {epoch, epoch + 1} /\ applied' \in {FALSE, applied}
      BY <1>2 DEF Shoot, StepIdle, Count
    <2>3. FrameComes \/ log' = log
      BY <1>2 DEF Shoot, StepIdle, NoFrame
    <2>4. log' \in [Signals -> Seq(FrameSamples)] /\ \A c \in Signals : Empty(c)' => Empty(c)
      BY <2>3, FrameAppended DEF LiveTypes, Empty
    <2>5. epoch' \in Nat
      BY <2>2 DEF LiveTypes
    <2>6. applied' \in BOOLEAN
      BY <2>2 DEF LiveTypes
    <2> QED BY <2>1, <2>4, <2>5, <2>6 DEF LiveTypes
  <1>3. CASE Submit \/ Apply
    <2>1. UNCHANGED <<scenario, log, judging, epoch, applied>>
      BY <1>3 DEF Submit, Apply, bounds, judges, camera, edit
    <2>2. edits' \in {edits, edits + 1} /\ params' \in {params, edits} /\ pending' \in {pending, edits}
      BY <1>3 DEF Submit, Apply, edit
    <2> QED BY <2>1, <2>2 DEF LiveTypes, Empty
  <1>4. ASSUME NEW j \in scenario.judges, Take(j) \/ Judge(j)
        PROVE  LiveTypes' /\ \A c \in Signals : Empty(c)' => Empty(c)
    <2>1. j \in Judges /\ j \in Signals /\ Frame \in Signals
      BY LiveViewAssumption DEF LiveTypes, Signals, LiveViewAssumption
    <2>2. UNCHANGED <<scenario, edits, params, pending, epoch, applied>>
      BY <1>4 DEF Take, Judge, bounds, camera, edit, editor
    <2>3. CASE Take(j)
      <3>1. log[Frame] \in Seq(FrameSamples) /\ log[Frame] # <<>>
        BY <2>1, <2>3 DEF Take, Empty, LiveTypes
      <3>2. Newest(Frame) \in FrameSamples
        BY <3>1 DEF Newest
      <3>3. judging' \in [Judges -> FrameSamples \cup {None}] /\ log' = log
        BY <2>3, <3>2 DEF Take, LiveTypes
      <3> QED BY <2>2, <3>3 DEF LiveTypes, Empty
    <2>4. CASE Judge(j)
      <3>1. judging[j] \in FrameSamples /\ log' = [log EXCEPT ![j] = Append(@, judging[j])]
        BY <2>1, <2>4 DEF Judge, LiveTypes
      <3>2. log' \in [Signals -> Seq(FrameSamples)] /\ \A c \in Signals : Empty(c)' => Empty(c)
        BY <2>1, <3>1, LogAppended
      <3>3. judging' \in [Judges -> FrameSamples \cup {None}]
        BY <2>4 DEF Judge, LiveTypes
      <3> QED BY <2>2, <3>2, <3>3 DEF LiveTypes
    <2> QED BY <1>4, <2>3, <2>4
  <1>5. CASE UNCHANGED <<scenario, log, judging, edits, params, pending, epoch, applied>>
    BY <1>5 DEF LiveTypes, Empty
  <1>6. ASSUME NEW j \in scenario.judges, ToggleJudge(j)
        PROVE  UNCHANGED <<scenario, log, judging, edits, params, pending, epoch, applied>>
    BY <1>6 DEF ToggleJudge, bounds, camera, edit, judges, editor
  <1>7. ASSUME \/ Keys \/ Refresh \/ View \/ Snap \/ Paint \/ Joined \/ StartAgain \/ Awaited \/ Tick \/ StopCamera
               \/ UNCHANGED vars
        PROVE  UNCHANGED <<scenario, log, judging, edits, params, pending, epoch, applied>>
    BY <1>7 DEF Keys, Refresh, View, Snap, Paint, Joined, StartAgain, Awaited, Tick, StopCamera, Drawing,
       vars, bounds, camera, edit, judges, editor
  <1> QED BY <1>1, <1>2, <1>3, <1>4, <1>5, <1>6, <1>7 DEF Next, Camera, Console, Processor

(* Only a tick, the snapshot and the drawing touch the board.              *)
LEMMA BoardKept ==
  ASSUME LiveInv, [Next]_vars
  PROVE  BoardInv'
  <1> USE DEF LiveInv
  <1>1. Cards \subseteq Signals /\ \A c \in Signals : Empty(c)' => Empty(c)
    BY CardSignals, LiveTypesKept
  <1>2. Cards' = Cards
    BY DEF Next, Camera, Console, Processor, Top, Shoot, Keys, Refresh, View, Snap, Paint,
       Joined, Submit, StepIdle, StartAgain, Awaited,
       Tick, StopCamera, Apply, Take, Judge, ToggleJudge, Drawing, vars, bounds, Cards
  <1>3. CASE /\ UNCHANGED <<key, board, missed, dirty, disp, view, snap, absent>>
             /\ gui' \in {"view", "snap", "paint"} => gui' = gui
    BY <1>1, <1>2, <1>3 DEF BoardInv, OneKey, Backed, Keyed, Redraws
  <1>4. CASE Tick
    BY <1>2, <1>4 DEF Tick, Drawing, BoardInv, OneKey, Backed, Keyed, Redraws, Empty
  <1>5. CASE Keys \/ Refresh
    <2>1. UNCHANGED <<key, board, missed, log, view>> /\ gui' \notin {"snap", "paint"}
      BY <1>5 DEF Keys, Refresh, Drawing
    <2>2. gui' = "view" => dirty' \subseteq Cards /\ \A c \in Cards \ dirty' : key[c][1] = disp'
      <3>1. CASE Refresh
        BY <3>1 DEF Refresh
      <3>2. CASE Keys
        <4>1. Changed(disp) \subseteq Cards /\ \A c \in Cards \ Changed(disp) : key[c][1] = disp
          BY DEF Changed, KeyOf
        <4>2. gui' = "view" =>
                disp' = disp /\ \E after \in SUBSET (Cards \ Changed(disp)) : dirty' = Changed(disp) \cup after
          BY <3>2 DEF Keys
        <4> QED BY <4>1, <4>2
      <3> QED BY <1>5, <3>1, <3>2
    <2> QED BY <1>2, <2>1, <2>2 DEF BoardInv, OneKey, Backed, Keyed, Redraws, Empty
  <1>6. CASE View
    <2>1. /\ UNCHANGED <<key, board, missed, log, dirty, disp>> /\ gui = "view" /\ gui' = "snap"
          /\ absent' = {c \in dirty : Empty(c)}
      BY <1>6 DEF View, Drawing
    <2>2. view' \in Nat
      BY <1>6, ShotDisplayed DEF View
    <2> QED BY <1>2, <2>1, <2>2 DEF BoardInv, OneKey, Backed, Keyed, Redraws, Empty
  <1>7. CASE Snap
    <2>1. /\ UNCHANGED <<key, board, missed, dirty, disp, view, absent, log>> /\ gui = "snap" /\ gui' = "paint"
          /\ snap' = [c \in dirty |-> At(c, view)]
      BY <1>7 DEF Snap, Drawing
    <2>2. ASSUME NEW c \in dirty
          PROVE  IF snap'[c] = None THEN c \in absent ELSE snap'[c] \in FrameSamples /\ ~Empty(c)
      <3>1. c \in Signals /\ snap'[c] = At(c, view)
        BY <1>1, <2>1 DEF BoardInv, Redraws
      <3> QED BY <2>1, <3>1, AtSample DEF BoardInv, Redraws
    <2> QED BY <1>2, <2>1, <2>2 DEF BoardInv, OneKey, Backed, Keyed, Redraws, Empty
  <1>8. CASE Paint
    <2>1. gui' = "idle" /\ log' = log /\ gui = "paint" /\ view' = 0
      BY <1>8 DEF Paint, Drawing
    <2>2. ASSUME NEW c \in Cards
          PROVE  /\ key'[c] = IF c \in Drawn THEN KeyNow(c) ELSE key[c]
                 /\ board'[c] = IF c \in Drawn /\ snap[c] # None
                                  THEN [shot |-> snap[c].shot, of |-> view] ELSE board[c]
                 /\ KeyNow(c)[1] = disp
      BY <1>1, <1>8 DEF Paint, KeyNow, KeyShot
    <2>3. ASSUME NEW c \in Cards PROVE key'[c][1] = disp
      <3>1. CASE c \in Drawn
        BY <2>2, <3>1
      <3>2. CASE c \in dirty \ Drawn
        <4>1. key[c] = KeyNow(c)
          BY <3>2 DEF Drawn
        <4> QED BY <2>2, <3>2, <4>1
      <3>3. CASE c \in Cards \ dirty
        <4>1. key[c][1] = disp /\ c \notin Drawn
          BY <2>1, <3>3 DEF BoardInv, Redraws, Drawn
        <4> QED BY <2>2, <4>1
      <3> QED BY <3>1, <3>2, <3>3
    <2>4. ASSUME NEW c \in Cards, c \in Drawn
          PROVE  /\ board'[c] # None => ~Empty(c)
                 /\ Keyed(c)' => board'[c] # None /\ ~Older(board'[c].of, key'[c][1])
      <3>1. c \in dirty /\ key'[c] = KeyNow(c)
        BY <2>2, <2>4 DEF Drawn
      <3>2. Keyed(c)' => c \notin absent /\ ~Older(view, disp)
        BY <1>8, <2>4, <3>1 DEF Keyed, Paint
      <3>3. snap[c] # None => board'[c] = [shot |-> snap[c].shot, of |-> view]
        BY <2>2, <2>4
      <3>4. snap[c] = None => c \in absent /\ board'[c] = board[c]
        BY <2>1, <2>2, <3>1 DEF BoardInv, Redraws
      <3>5. snap[c] # None => ~Empty(c)
        BY <2>1, <3>1 DEF BoardInv, Redraws
      <3>6. snap[c] # None => board'[c] # None /\ board'[c].of = view
        <4>1. snap[c] # None => [shot |-> snap[c].shot, of |-> view] \in [shot : Nat, of : Nat]
          BY <2>1, <3>1 DEF BoardInv, Redraws, FrameSamples
        <4>2. None \notin [shot : Nat, of : Nat]
          BY LiveViewAssumption DEF LiveViewAssumption
        <4> QED BY <3>3, <4>1, <4>2
      <3> QED BY <2>3, <3>2, <3>4, <3>5, <3>6 DEF BoardInv, Backed
    <2>5. ASSUME NEW c \in Cards, c \notin Drawn
          PROVE  UNCHANGED <<key[c], board[c]>> /\ (c \in missed' <=> c \in missed)
      BY <1>8, <2>2, <2>5 DEF Paint
    <2>6. OneKey'
      BY <1>2, <2>3 DEF OneKey
    <2>7. Backed'
      BY <1>2, <2>1, <2>4, <2>5 DEF BoardInv, Backed, Keyed, Empty
    <2> QED BY <2>1, <2>6, <2>7 DEF BoardInv, Redraws
  <1>9. ASSUME NEW j \in scenario.judges, Processor(j) \/ ToggleJudge(j)
        PROVE  UNCHANGED <<key, board, missed, dirty, disp, view, snap, absent, gui>>
    BY <1>9 DEF Processor, Take, Judge, ToggleJudge, tick, reading
  <1>10. ASSUME \/ Top \/ Shoot \/ Joined \/ Submit \/ StepIdle \/ StartAgain \/ Awaited
               \/ StopCamera \/ Apply \/ UNCHANGED vars
        PROVE  /\ UNCHANGED <<key, board, missed, dirty, disp, view, snap, absent>>
               /\ gui' \in {"view", "snap", "paint"} => gui' = gui
    BY <1>10 DEF Top, Shoot, Joined, Submit, StepIdle, StartAgain, Awaited, StopCamera,
       Apply, vars, tick, reading
  <1> QED BY <1>3, <1>4, <1>5, <1>6, <1>7, <1>8, <1>9, <1>10 DEF Next, Camera, Console

(* The camera's loop, the editor and the idle shot touch the edits.        *)
LEMMA EditsKept ==
  ASSUME LiveInv, [Next]_vars
  PROVE  EditsInv'
  <1> USE DEF LiveInv
  <1>1. ASSUME Top PROVE EditsInv'
    <2>1. UNCHANGED <<epoch, edits, was, awaiting, gui>> /\ pc = "top"
      BY <1>1 DEF Top, editor, edit
    <2>2. CASE halted
      <3>1. /\ UNCHANGED <<applied, params, pending>> /\ pc' = "none"
            /\ leftover' = IF pending > params THEN pending ELSE leftover
        BY <1>1, <2>2 DEF Top, edit
      <3>2. pending \in {0, leftover'} /\ (pending \in {0, leftover} => leftover' = leftover)
        BY <3>1 DEF EditsInv, LateEdit, LiveTypes
      <3> QED BY <2>1, <3>1, <3>2 DEF EditsInv, LateEdit, Answers, InForce, Unmoved
    <2>3. CASE ~halted /\ pc' = "shot"
      <3>1. /\ leftover' = leftover /\ pending' = 0 /\ applied' = (pending # 0)
            /\ params' = IF pending # 0 THEN pending ELSE params
        BY <1>1, <2>1, <2>3 DEF Top, Drain
      <3>2. ASSUME NEW w, Answers(w) PROVE Answers(w)'
        BY <2>1, <3>1, <3>2 DEF Answers, InForce, Unmoved
      <3>3. gui = "apply" => params' < edits
        BY <3>1 DEF EditsInv
      <3> QED BY <2>1, <2>3, <3>1, <3>2, <3>3 DEF EditsInv, LateEdit, LiveTypes
    <2>4. CASE ~halted /\ pc' # "shot"
      <3>1. UNCHANGED <<leftover, params, applied, pc>> /\ pending' = 0
        BY <1>1, <2>4 DEF Top, Drain
      <3> QED BY <2>1, <3>1 DEF EditsInv, LateEdit, LiveTypes, Answers, InForce, Unmoved
    <2> QED BY <2>2, <2>3, <2>4
  <1>2. CASE Shoot
    <2>1. /\ UNCHANGED <<params, pending, edits, was, awaiting, gui, leftover>> /\ pc' = "top" /\ applied' = FALSE
          /\ ~applied => epoch' = epoch
      BY <1>2 DEF Shoot, Count, editor
    <2>2. ASSUME NEW w, Answers(w) PROVE Answers(w)'
      <3>1. CASE w.overtook \/ InForce(edits)
        BY <2>1, <3>1 DEF Answers, InForce
      <3>2. CASE Unmoved(w, edits)
        BY <2>1, <3>2 DEF Answers, Unmoved
      <3> QED BY <2>2, <3>1, <3>2 DEF Answers
    <2>3. pc = "shot"
      BY <1>2 DEF Shoot
    <2> QED BY <2>1, <2>2, <2>3 DEF EditsInv, LateEdit
  <1>3. CASE Apply
    <2>1. /\ UNCHANGED <<params, pending, leftover, pc>> /\ edits' = edits + 1 /\ awaiting' = None
          /\ gui' = "apply" /\ was' = [running |-> pc # "none", epoch |-> epoch, overtook |-> FALSE]
      BY <1>3 DEF Apply, camera, edit
    <2>2. was' \in [running : BOOLEAN, epoch : Nat, overtook : BOOLEAN]
      BY <2>1 DEF LiveTypes
    <2>3. params < edits' /\ pending < edits'
      BY <2>1 DEF LiveTypes
    <2> QED BY <2>1, <2>2, <2>3 DEF EditsInv, LateEdit
  <1>4. CASE Submit
    <2>1. /\ UNCHANGED <<epoch, applied, edits, awaiting, leftover, pc>> /\ gui = "apply"
          /\ was' = [was EXCEPT !.overtook = applied \/ epoch # was.epoch]
      BY <1>4 DEF Submit, camera
    <2>2. /\ was'.overtook = (applied \/ epoch # was.epoch) /\ was'.epoch = was.epoch
          /\ params < edits /\ pending < edits /\ awaiting = None
      BY <2>1 DEF EditsInv
    <2>3. CASE pc # "none"
      <3>1. pending' = edits /\ params' = params /\ gui' = "start"
        BY <1>4, <2>3 DEF Submit
      <3>2. Answers(was)'
        BY <2>1, <2>2, <3>1 DEF Answers, Unmoved
      <3> QED BY <2>1, <2>2, <2>3, <3>1, <3>2 DEF EditsInv, LateEdit, LiveTypes
    <2>4. CASE pc = "none"
      <3>1. /\ pending' = pending /\ pending \in {0, leftover}
            /\ (params' = edits /\ gui' = "step") \/ (params' = params /\ gui' = "idle")
        BY <1>4, <2>4 DEF Submit, EditsInv
      <3>2. gui' = "step" => Answers(was)'
        BY <2>1, <3>1 DEF Answers, InForce
      <3> QED BY <2>1, <2>2, <2>4, <3>1, <3>2 DEF EditsInv, LateEdit
    <2> QED BY <2>3, <2>4
  <1>5. CASE StepIdle
    <2>1. /\ UNCHANGED <<params, pending, edits, was, awaiting, leftover, pc>> /\ gui = "step"
          /\ gui' \in {"start", "idle"}
      BY <1>5 DEF StepIdle, editor
    <2>2. Answers(was)'
      BY <2>1 DEF EditsInv, Answers, InForce
    <2> QED BY <2>1, <2>2 DEF EditsInv, LateEdit
  <1>6. CASE StartAgain
    <2>1. /\ UNCHANGED <<params, pending, epoch, applied, edits, leftover>> /\ gui = "start"
          /\ gui' \in {"refresh", "idle"} /\ (pc' = "none" => pc = "none")
          /\ awaiting' \in {awaiting, [edit |-> edits, was |-> was]}
      BY <1>6 DEF StartAgain, edit
    <2>2. awaiting' # None => awaiting'.edit = edits /\ Answers(awaiting'.was)
      BY <2>1 DEF EditsInv
    <2>3. \A w : Answers(w) <=> Answers(w)'
      BY <2>1 DEF Answers, InForce, Unmoved
    <2> QED BY <2>1, <2>2, <2>3 DEF EditsInv, LateEdit
  <1>7. CASE /\ UNCHANGED <<params, pending, epoch, applied, edits, was, leftover, pc>>
             /\ awaiting' \in {awaiting, None}
             /\ gui' \in {"apply", "step", "start"} => gui' = gui
    <2>1. \A w : Answers(w) <=> Answers(w)'
      BY <1>7 DEF Answers, InForce, Unmoved
    <2> QED BY <1>7, <2>1 DEF EditsInv, LateEdit
  <1>8. ASSUME \/ Keys \/ Refresh \/ View \/ Snap \/ Paint \/ Joined \/ Awaited \/ Tick \/ StopCamera \/ UNCHANGED vars
        PROVE  /\ UNCHANGED <<params, pending, epoch, applied, edits, was, leftover, pc>>
               /\ awaiting' \in {awaiting, None}
               /\ gui' \in {"apply", "step", "start"} => gui' = gui
    BY <1>8 DEF Keys, Refresh, View, Snap, Paint, Joined, Awaited, Tick, StopCamera, Drawing,
       vars, camera, edit, editor
  <1>9. ASSUME NEW j \in scenario.judges, Processor(j) \/ ToggleJudge(j)
        PROVE  UNCHANGED <<params, pending, epoch, applied, edits, was, leftover, pc,
                           awaiting, gui>>
    BY <1>9 DEF Processor, Take, Judge, ToggleJudge, camera, edit, editor
  <1> QED BY <1>1, <1>2, <1>3, <1>4, <1>5, <1>6, <1>7, <1>8, <1>9 DEF Next, Camera, Console

(* In every state: all panels are keyed with one shot, each panel keyed    *)
(* with its signal shows it at a shot no older than that, but for those    *)
(* the two readings of a tick left behind; and an edit older than the one  *)
(* in force is still queued only if a loop that ended left it.             *)
THEOREM LiveInvariance == Spec => []LiveInv
  <1>1. LiveInv /\ [Next]_vars => LiveInv'
    BY LiveTypesKept, BoardKept, EditsKept DEF LiveInv
  <1> QED BY <1>1, LiveBegins, PTL DEF Spec

(* Panels that show a sample of the board's shot show the same shot,       *)
(* though the tick draws only those whose key changed and nodes publish    *)
(* between its readings of the display shot, its keys and its snapshot;    *)
(* but for those of a tick whose two readings differ.                      *)
THEOREM BoardShowsOneShot == Spec => []OneShotBoard
  <1>1. LiveInv => OneShotBoard
    BY DEF LiveInv, BoardInv, OneKey, Aligned, OneShotBoard
  <1> QED BY <1>1, LiveInvariance, PTL

(* When the epoch has moved past the one the editor noted, its edit is in  *)
(* force, unless an earlier edit was still to be counted when it queued it *)
(* or the loop that ended had left one.                                    *)
THEOREM EpochTellsEdit == Spec => []EpochMeansApplied
  <1>1. LiveInv => EpochMeansApplied
    <2> SUFFICES ASSUME LiveInv, awaiting # None, epoch > awaiting.was.epoch, ~awaiting.was.overtook
                 PROVE  params >= awaiting.edit \/ params = leftover
      BY DEF EpochMeansApplied
    <2>1. epoch \in Nat /\ params \in Nat /\ awaiting.edit = edits /\ Answers(awaiting.was)
      BY DEF LiveInv, LiveTypes, EditsInv
    <2>2. InForce(edits)
      BY <2>1 DEF Answers, Unmoved
    <2> QED BY <2>1, <2>2 DEF InForce
  <1> QED BY <1>1, LiveInvariance, PTL

(* The edit in force is replaced by an older one only when that one was    *)
(* left in the queue by a loop that ended.                                 *)
THEOREM NoEditUndone == Spec => EditsInOrder
  <1>1. LiveInv /\ [Next]_vars => [params' < params => pending = leftover]_vars
    <2> SUFFICES ASSUME LiveInv, Next, params' < params PROVE pending = leftover
      OBVIOUS
    <2>1. params \in Nat /\ params <= edits
      BY DEF LiveInv, LiveTypes
    <2>2. Top \/ Submit
      BY <2>1 DEF Next, Camera, Console, Processor, Shoot, Keys, Refresh, View, Snap, Paint,
         Joined, StepIdle, StartAgain,
         Awaited, Tick, StopCamera, Apply, Take, Judge, ToggleJudge, Drawing, edit
    <2>3. ~Submit
      <3>1. Submit => params' \in {params, edits}
        BY DEF Submit
      <3> QED BY <2>1, <3>1 DEF LiveInv, LiveTypes
    <2>4. pending # 0 /\ params' = pending
      BY <2>1, <2>2, <2>3 DEF Top, edit
    <2>5. pending \in Nat
      BY DEF LiveInv, LiveTypes
    <2> QED BY <2>1, <2>4, <2>5 DEF LiveInv, EditsInv, LateEdit
  <1> QED BY <1>1, LiveInvariance, PTL DEF Spec, EditsInOrder
=============================================================================
