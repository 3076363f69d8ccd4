------------------------------- MODULE PulseScan -------------------------------
(***************************************************************************)
(* A pulse scan whose y comes from another node.  Per point the scan node  *)
(* fires a shot, publishes the camera frame on the SignalHub, waits until  *)
(* the y signal's version has advanced and reads it.  The y signal is what *)
(* the occupancy processor derives from the frame, on its own thread, with *)
(* three separate reads of the hub.  Before the scan the live camera node  *)
(* published the same frame signal.                                        *)
(*                                                                         *)
(* A frame is the source-shot id minted for it; a y sample says which      *)
(* frame it was judged from (of) and which shot it is tagged with (src).   *)
(***************************************************************************)
EXTENDS Integers, Sequences

CONSTANTS LiveFrames,   \* bound: shots of the live camera before the scan
          Points        \* points of the sweep

ASSUME PulseScanAssumption == LiveFrames \in Nat /\ Points \in Nat \ {0}

VARIABLES frame, rate,            \* the hub: latest sample of the two signals
          version,                \* and how often each was published
          sourceShot,             \* the last source-shot id minted
          liveCamera, liveShot,   \* live camera node: place, shot in hand
          judge, seenVersion,     \* processor: place, _seen_version,
          held, tag,              \* its reads
          failed,                 \* its last_error is set
          scan, stop,             \* scan node: place, its stop event
          before, shot, y,        \* its snapshot, source shot and reading
          results,                \* the swept block, with each point's shot
          disturbed, deafUntil,   \* ghosts, see Quiet and Deaf
          lost                    \* ghost: the frame whose transform raised

hub == <<frame, rate, version, sourceShot>>
cameraNode == <<liveCamera, liveShot>>
judgeNode == <<judge, seenVersion, held, tag, failed>>
scanNode == <<scan, stop, before, shot, y, results>>
ghosts == <<disturbed, deafUntil, lost>>
scanVars == <<hub, cameraNode, judgeNode, scanNode, ghosts>>

NoShot == 0                               \* no sample; NO_LINEAGE
NaN == [of |-> NoShot, src |-> NoShot]

(* The judge has judged all it was given and holds nothing: its next       *)
(* result is of the next frame.                                            *)
Quiet == judge \in {"idle", "off"} /\ seenVersion >= version.frame

(* The frame signal was removed from the hub, its version starts again at  *)
(* zero, and the judge still compares with the count it saw before.        *)
Deaf == version.frame <= deafUntil

ScanInit ==
  /\ frame = NoShot /\ rate = NaN
  /\ version = [frame |-> 0, rate |-> 0] /\ sourceShot = 0
  /\ liveCamera = "acquire" /\ liveShot = NoShot
  /\ judge \in {"idle", "off"} /\ seenVersion = 0 /\ held = NoShot /\ tag = NoShot /\ failed = FALSE
  /\ scan = "off" /\ stop = FALSE /\ before = 0 /\ shot = NoShot /\ y = NaN /\ results = <<>>
  /\ disturbed = FALSE /\ deafUntil = 0 /\ lost = NoShot

-----------------------------------------------------------------------------
(* SignalHub, each under its one lock.                                     *)
PublishFrame(id) ==
  frame' = id /\ version' = [version EXCEPT !.frame = @ + 1] /\ UNCHANGED <<rate, sourceShot>>

PublishRate(sample) ==
  rate' = sample /\ version' = [version EXCEPT !.rate = @ + 1] /\ UNCHANGED <<frame, sourceShot>>

NextSourceShot == sourceShot + 1

RemoveFrame == frame' = NoShot /\ version' = [version EXCEPT !.frame = 0] /\ UNCHANGED <<rate, sourceShot>>

-----------------------------------------------------------------------------
(* The live camera: a cycle acquired and its id minted; then published.    *)
CameraAcquires ==
  /\ liveCamera = "acquire" /\ sourceShot < LiveFrames
  /\ liveCamera' = "publish"
  /\ liveShot' = NextSourceShot /\ sourceShot' = NextSourceShot
  /\ UNCHANGED <<frame, rate, version, judgeNode, scanNode, ghosts>>

CameraPublishes ==
  /\ liveCamera = "publish" /\ liveCamera' = "acquire"
  /\ PublishFrame(liveShot) /\ liveShot' = NoShot
  /\ UNCHANGED <<judgeNode, scanNode, ghosts>>

(* The console starts the scan: the camera node drives the same devices,   *)
(* so it is stopped first and joined; its acquire polls the stop event.    *)
StartScan ==
  /\ scan = "off" /\ liveCamera \in {"acquire", "gone"}
  /\ liveCamera' = "gone" /\ scan' = "shot"
  /\ disturbed' = ~Quiet
  /\ UNCHANGED <<hub, liveShot, judgeNode, stop, before, shot, y, results, deafUntil, lost>>

(* The camera's row is removed; nobody running publishes its signals.      *)
RemoveRow ==
  /\ scan = "off" /\ liveCamera = "acquire" /\ liveCamera' = "gone"
  /\ RemoveFrame
  /\ deafUntil' = seenVersion
  /\ UNCHANGED <<liveShot, judgeNode, scanNode, disturbed, lost>>

-----------------------------------------------------------------------------
(* One pass of the processor's loop: new_inputs reads the versions, the    *)
(* value and the provenance of the frame; transform; step publishes.       *)
Reads == <<"value", "tag", "publish">>
After(place) == IF place = Reads[1] THEN Reads[2] ELSE Reads[3]

\* mutant: off by one
AdvancedTwice == version.frame > seenVersion + 1
Advanced == version.frame > seenVersion

JudgeSeesNew ==
  /\ judge = "idle" /\ Advanced
  /\ judge' = Reads[1] /\ seenVersion' = version.frame
  /\ UNCHANGED <<hub, cameraNode, held, tag, failed, scanNode, ghosts>>

(* Nothing new: an empty pass, which also clears an earlier error.         *)
JudgeIdles ==
  /\ judge = "idle" /\ ~Advanced /\ failed
  /\ failed' = FALSE
  /\ UNCHANGED <<hub, cameraNode, judge, seenVersion, held, tag, scanNode, ghosts>>

(* latest raises KeyError for a removed signal: new_inputs gives nothing.  *)
JudgeReadsValue ==
  /\ judge = "value"
  /\ IF frame = NoShot
     THEN judge' = "idle" /\ failed' = FALSE /\ UNCHANGED held
     ELSE judge' = After("value") /\ held' = frame /\ UNCHANGED failed
  /\ UNCHANGED <<hub, cameraNode, seenVersion, tag, scanNode, ghosts>>

JudgeReadsTag ==
  /\ judge = "tag" /\ judge' = After("tag") /\ tag' = frame
  /\ UNCHANGED <<hub, cameraNode, seenVersion, held, failed, scanNode, ghosts>>

JudgePublishes ==
  /\ judge = "publish" /\ judge' = "idle" /\ failed' = FALSE
  /\ PublishRate([of |-> held, src |-> tag]) /\ held' = NoShot /\ tag' = NoShot
  /\ UNCHANGED <<cameraNode, seenVersion, scanNode, ghosts>>

(* transform raises; the frame counts as seen and is not tried again.      *)
JudgeFails ==
  /\ judge = "publish" /\ judge' = "idle" /\ failed' = TRUE /\ lost' = held
  /\ held' = NoShot /\ tag' = NoShot
  /\ UNCHANGED <<hub, cameraNode, seenVersion, scanNode, disturbed, deafUntil>>

StopJudge ==
  /\ judge = "idle" /\ judge' = "off"
  /\ UNCHANGED <<hub, cameraNode, seenVersion, held, tag, failed, scanNode, ghosts>>

-----------------------------------------------------------------------------
(* The scan node.  A shot without frames, or one that raises, is tried     *)
(* again at the same point and changes nothing here.  The stop event is    *)
(* polled before a shot, in it and in the wait; a press just after a poll  *)
(* is seen at the next.                                                    *)
ScanShot ==
  /\ scan = "shot"
  /\ scan' = "mint" /\ before' = version.rate
  /\ UNCHANGED <<hub, cameraNode, judgeNode, stop, shot, y, results, ghosts>>

ScanMints ==
  /\ scan = "mint" /\ scan' = "publish"
  /\ shot' = NextSourceShot /\ sourceShot' = NextSourceShot
  /\ UNCHANGED <<frame, rate, version, cameraNode, judgeNode, stop, before, y, results, ghosts>>

ScanPublishes ==
  /\ scan = "publish" /\ scan' = "await"
  /\ PublishFrame(shot)
  /\ UNCHANGED <<cameraNode, judgeNode, stop, before, shot, y, results, ghosts>>

(* _await_y_inputs                                                         *)
\* mutant: no publish needed
FreshAlways == version.rate >= before
Fresh == version.rate > before
\* mutant: waits for ever
GivesUpNever == FALSE
GivesUp == ~Fresh

AwaitFresh ==
  /\ scan = "await" /\ Fresh
  /\ scan' = "read"
  /\ UNCHANGED <<hub, cameraNode, judgeNode, stop, before, shot, y, results, ghosts>>

AwaitTimesOut ==
  /\ scan = "await" /\ GivesUp
  /\ scan' = "fill" /\ y' = NaN
  /\ disturbed' = (disturbed \/ ~Quiet)
  /\ UNCHANGED <<hub, cameraNode, judgeNode, stop, before, shot, results, deafUntil, lost>>

AwaitStopped ==
  /\ scan = "await" /\ stop
  /\ scan' = "fill" /\ y' = NaN
  /\ UNCHANGED <<hub, cameraNode, judgeNode, stop, before, shot, results, ghosts>>

ScanReads ==
  /\ scan = "read" /\ scan' = "fill" /\ y' = rate
  /\ UNCHANGED <<hub, cameraNode, judgeNode, stop, before, shot, results, ghosts>>

(* _fill_point and the publish of the block; a finished sweep stops itself.*)
Swept(block) == Len(block) = Points

ScanFills ==
  /\ scan = "fill"
  /\ results' = Append(results, [shot |-> shot, y |-> y])
  /\ before' = 0 /\ shot' = NoShot /\ y' = NaN
  /\ stop' = (stop \/ Swept(results'))
  /\ scan' = IF stop' THEN "done" ELSE "shot"
  /\ UNCHANGED <<hub, cameraNode, judgeNode, ghosts>>

ScanCancelled ==
  /\ scan = "shot" /\ stop /\ scan' = "done"
  /\ UNCHANGED <<hub, cameraNode, judgeNode, stop, before, shot, y, results, ghosts>>

PressStop ==
  /\ scan \notin {"off", "done"} /\ ~stop /\ stop' = TRUE
  /\ UNCHANGED <<hub, cameraNode, judgeNode, scan, before, shot, y, results, ghosts>>

-----------------------------------------------------------------------------
JudgePass == JudgeSeesNew \/ JudgeIdles \/ JudgeReadsValue \/ JudgeReadsTag \/ JudgePublishes \/ JudgeFails
Scan == ScanShot \/ ScanMints \/ ScanPublishes \/ AwaitFresh \/ AwaitTimesOut \/ AwaitStopped
          \/ ScanReads \/ ScanFills \/ ScanCancelled
ScanConsole == StartScan \/ RemoveRow \/ StopJudge \/ PressStop

ScanNext == CameraAcquires \/ CameraPublishes \/ JudgePass \/ Scan \/ ScanConsole

(* Each loop runs on a thread of its own and every wait in it has a        *)
(* time-out; the scan's trigger reaches the camera in the end.             *)
ScanSpec ==
  /\ ScanInit /\ [][ScanNext]_scanVars
  /\ WF_scanVars(CameraPublishes) /\ WF_scanVars(JudgePass) /\ WF_scanVars(Scan)

-----------------------------------------------------------------------------
Shots == 0 .. LiveFrames + Points
Samples == [of : Shots, src : Shots]

(* Every variable has its type and the block no more than its points.      *)
TypeOK ==
  /\ frame \in Shots /\ rate \in Samples /\ version \in [frame : Nat, rate : Nat]
  /\ sourceShot \in Shots
  /\ liveCamera \in {"acquire", "publish", "gone"} /\ liveShot \in Shots
  /\ judge \in {"idle", "value", "tag", "publish", "off"} /\ seenVersion \in Nat
  /\ held \in Shots /\ tag \in Shots /\ failed \in BOOLEAN
  /\ scan \in {"off", "shot", "mint", "publish", "await", "read", "fill", "done"}
  /\ stop \in BOOLEAN /\ before \in Nat /\ shot \in Shots /\ y \in Samples
  /\ results \in Seq([shot : Shots, y : Samples]) /\ Len(results) <= Points
  /\ disturbed \in BOOLEAN /\ deafUntil \in Nat /\ lost \in Shots

(* PulseScanNode's docstring: settling y to this point's frame is race-free*)
(* and staleness is excluded by NaN.  It is, if the processor had nothing  *)
(* left to judge when the scan began and whenever a point timed out: then  *)
(* each reading is NaN or was judged from that point's frame, and tagged   *)
(* with that point's shot.                                                 *)
OwnFrame(point) == point.y \in {NaN, [of |-> point.shot, src |-> point.shot]}
ExactUnlessDisturbed == ~disturbed => \A i \in 1 .. Len(results) : OwnFrame(results[i])

(* The same without the condition, as the source says it.                  *)
StaleExcluded == \A i \in 1 .. Len(results) : OwnFrame(results[i])

(* A derived sample is never tagged with a shot older than the frame it    *)
(* was judged from (latest_provenance is read after latest).               *)
TagNotOlder == rate.src = NoShot \/ rate.of <= rate.src

(* The newest frame is judged, unless a newer one came, the transform      *)
(* raised and said so, the processor was stopped, or it is deaf.           *)
NewestJudged ==
  \A id \in 1 .. LiveFrames + Points :
    (frame = id) ~> (rate.of = id \/ frame # id \/ lost = id \/ judge = "off" \/ Deaf)

(* A scan always comes to its end, whether or not its y signal ever comes. *)
ScanEnds == (scan # "off") ~> (scan = "done")
=============================================================================
