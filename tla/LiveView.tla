-------------------------------- MODULE LiveView -------------------------------
(***************************************************************************)
(* A live camera on the console: the node's loop with the edits queued for *)
(* it, the processors that judge its frames, the hub's rings with the      *)
(* source shot of each sample, the board that shows all of it at one shot, *)
(* and the panel editor that edits the source and waits for the result.    *)
(*                                                                         *)
(* A signal's log is all it ever published; its ring is the end of it.  A  *)
(* sample is the shot it comes from and the edit its frame was taken with. *)
(* A processor reads frame and shot in one step (PulseScan takes them      *)
(* apart).  A panel shows one signal.                                      *)
(***************************************************************************)
EXTENDS Integers, Sequences, FiniteSetsExt

CONSTANTS Frame, Judges,   \* the signals: the camera's, the processors'
          Depth,           \* of an image signal's ring
          Scenarios,       \* bounds: processors, shots, edits, toggles of a
                           \* processor, and the node's repeat
          None

ASSUME LiveViewAssumption ==
  /\ Frame \notin Judges /\ Depth \in Nat \ {0}
  /\ None \notin [shot : Nat, params : Nat] \cup [shot : Nat, of : Nat]
  /\ \A s \in Scenarios : s.judges \subseteq Judges /\ {s.shots, s.edits, s.toggles, s.repeat} \subseteq Nat

Signals == Judges \cup {Frame}

VARIABLES
  scenario, toggles,
  pc, applied, halted, filled,     \* the camera node's thread; _stop; _filled
  params, pending, epoch,          \* the edit in force, the one queued, _apply_epoch
  log,                             \* the hub
  on, seen, judging,               \* processors that run; the shot each saw
                                   \* last; the sample it judges
  listed,                          \* running_nodes, by the signal of each
  gui, disp, view, snap,           \* the console's thread; its tick: the shot
  dirty, first, absent,            \* of the keys, that of the snapshot; panels
                                   \* still to come to; the first one keyed, and
                                   \* how; signals not there when view was read
  board, key,                      \* what each panel shows; _render_version
  edits, was, awaiting,            \* the editor: edits made; the node when
                                   \* Apply began, and whether it was about to
                                   \* count an earlier edit; the edit waited for
  restarted, leftover, missed      \* the node restarted unlisted; the edit the
                                   \* loop left; panels keyed as if they had drawn

camera == <<pc, applied, halted, filled>>
edit == <<params, pending, epoch>>
judges == <<on, seen, judging>>
reading == <<disp, view, snap, dirty, first, absent>>
tick == <<reading, board, key, missed>>
editor == <<edits, was, awaiting>>
bounds == <<scenario, toggles>>
vars == <<bounds, camera, edit, log, judges, listed, gui, tick, editor, restarted, leftover>>

Cards == scenario.judges \cup {Frame}

Init ==
  /\ scenario \in Scenarios /\ toggles = 0
  /\ pc = "top" /\ applied = FALSE /\ halted = FALSE /\ filled = 0
  /\ params = 0 /\ pending = 0 /\ epoch = 0
  /\ log = [s \in Signals |-> <<>>]
  /\ on = scenario.judges /\ seen = [j \in Judges |-> 0] /\ judging = [j \in Judges |-> None]
  /\ listed = Cards
  /\ gui = "idle" /\ disp = 0 /\ view = 0 /\ snap = None /\ dirty = {} /\ first = None /\ absent = {}
  /\ board = [s \in Signals |-> None] /\ key = [s \in Signals |-> None]
  /\ edits = 0 /\ was = None /\ awaiting = None
  /\ restarted = FALSE /\ leftover = 0 /\ missed = {}

-----------------------------------------------------------------------------
(* The hub.                                                                *)

Empty(s) == log[s] = <<>>
Newest(s) == log[s][Len(log[s])]

(* snapshot_at, of one signal: the newest sample of the shot in the ring,  *)
(* else the latest.                                                        *)
At(s, shot) ==
  LET ring == {i \in DOMAIN log[s] : i > Len(log[s]) - Depth}
      hits == {i \in ring : log[s][i].shot = shot}
  IN  IF Empty(s) THEN None ELSE IF hits = {} THEN Newest(s) ELSE log[s][Max(hits)]

(* _display_shot: the newest shot every listed signal on the board has     *)
(* reached; 0: nothing on it has a shot.                                   *)
DisplayShot(nodes) ==
  LET reached == {Newest(s).shot : s \in {c \in nodes \cap Cards : ~Empty(c)}}
  IN  IF reached = {} THEN 0 ELSE Min(reached)

-----------------------------------------------------------------------------
(* The camera node: CameraMeasurement.shot in LogicNode's loop.            *)

Finished == scenario.repeat > 0 /\ filled >= scenario.repeat

DrainKeeps == UNCHANGED pending  \* mutant: the queue is read, not emptied
Drain == pending' = 0

(* The top of a pass; set_acquisition_parameters may raise.                *)
Top ==
  /\ pc = "top"
  /\ IF halted
       THEN /\ pc' = "none" /\ leftover' = IF pending > params THEN pending ELSE leftover
            /\ UNCHANGED <<applied, edit>>
       ELSE /\ \/ pc' = "shot" /\ applied' = (pending # 0)
                  /\ params' = IF pending # 0 THEN pending ELSE params
               \/ pending # 0 /\ UNCHANGED <<pc, applied, params>>
            /\ Drain /\ UNCHANGED <<epoch, leftover>>
  /\ UNCHANGED <<bounds, halted, filled, log, judges, listed, gui, tick, editor, restarted>>

(* A frame comes: it gets the next source shot, and a block that is full   *)
(* stops the node.                                                         *)
FrameComes ==
  /\ Len(log[Frame]) < scenario.shots
  /\ log' = [log EXCEPT ![Frame] = Append(@, [shot |-> Len(@) + 1, params |-> params])]
  /\ filled' = IF scenario.repeat = 0 THEN 0 ELSE Min({filled + 1, scenario.repeat})
  /\ halted' = (halted \/ (scenario.repeat > 0 /\ filled + 1 >= scenario.repeat))

(* No trigger: the camera returns without a frame.                         *)
NoFrame == UNCHANGED <<log, filled, halted>>

CountAll == epoch + 1  \* mutant: every pass counts
Count == IF applied THEN epoch + 1 ELSE epoch

Shoot ==
  /\ pc = "shot" /\ pc' = "top"
  /\ \/ (FrameComes \/ NoFrame) /\ epoch' = Count
     \/ NoFrame /\ UNCHANGED epoch      \* it raises: the time-out, or a stop
  /\ applied' = FALSE
  /\ UNCHANGED <<bounds, params, pending, judges, listed, gui, tick, editor, restarted, leftover>>

-----------------------------------------------------------------------------
(* A processor.                                                            *)

Take(j) ==
  /\ j \in on /\ judging[j] = None /\ ~Empty(Frame) /\ Newest(Frame).shot > seen[j]
  /\ judging' = [judging EXCEPT ![j] = Newest(Frame)]
  /\ seen' = [seen EXCEPT ![j] = Newest(Frame).shot]
  /\ UNCHANGED <<bounds, camera, edit, log, on, listed, gui, tick, editor, restarted, leftover>>

Judge(j) ==
  /\ judging[j] # None /\ judging' = [judging EXCEPT ![j] = None]
  /\ log' = [log EXCEPT ![j] = Append(@, judging[j])]
  /\ UNCHANGED <<bounds, camera, edit, on, seen, listed, gui, tick, editor, restarted, leftover>>

-----------------------------------------------------------------------------
(* The console: the tick, in which nodes go on publishing.                 *)

(* A node that ended of itself is dropped from running_nodes.              *)
Polled == IF pc = "none" /\ Finished THEN listed \ {Frame} ELSE listed

(* _panel_frame_key: the board's shot; a signal that is absent counts as   *)
(* one without lineage.                                                    *)
KeyOf(c, shot) == <<shot, Empty(c)>>

\* mutant: a panel is stale when its own signal has moved
ChangedOwn(shot) == {c \in Cards : board[c] = None \/ board[c].shot < Newest(c).shot}
Changed(shot) == {c \in Cards : key[c] # KeyOf(c, shot)}

Drawing == UNCHANGED <<bounds, camera, edit, log, judges, editor, restarted, leftover>>

(* _tick: the display shot first.                                          *)
Tick ==
  /\ gui = "idle" /\ gui' = "keys" /\ listed' = Polled /\ disp' = DisplayShot(Polled)
  /\ Drawing /\ UNCHANGED <<view, snap, dirty, first, absent, board, key, missed>>

(* The first panel whose key has changed is keyed before the snapshot; the *)
(* panels after it are compared and keyed after it.                        *)
Keys ==
  /\ gui = "keys"
  /\ LET changed == Changed(disp)
     IN  IF changed = {}
           THEN gui' = "idle" /\ disp' = 0 /\ UNCHANGED <<dirty, first>>
           ELSE \E c \in changed, after \in SUBSET (Cards \ changed) :
                  /\ gui' = "view" /\ dirty' = changed \cup after
                  /\ first' = [card |-> c, absent |-> Empty(c)] /\ UNCHANGED disp
  /\ Drawing /\ UNCHANGED <<listed, view, snap, absent, board, key, missed>>

(* refresh_once draws all panels and keys them all after the snapshot.     *)
Refresh ==
  /\ gui = "refresh" /\ gui' = "view" /\ listed' = Polled /\ disp' = DisplayShot(Polled)
  /\ dirty' = Cards
  /\ Drawing /\ UNCHANGED <<view, snap, first, absent, board, key, missed>>

(* _expression_namespace reads the display shot again, and takes the       *)
(* snapshot at that one.                                                   *)
View ==
  /\ gui = "view" /\ gui' = "snap" /\ view' = DisplayShot(listed)
  /\ absent' = {c \in dirty : Empty(c)}
  /\ Drawing /\ UNCHANGED <<listed, disp, snap, dirty, first, board, key, missed>>

Snap ==
  /\ gui = "snap" /\ gui' = "paint"
  /\ snap' = [c \in dirty |-> At(c, view)]
  /\ Drawing /\ UNCHANGED <<listed, disp, view, dirty, first, absent, board, key, missed>>

\* mutant: the key is of the shot the board has reached when it has drawn
KeyShotLate == DisplayShot(listed)
KeyShot == disp

\* 0 stands for the latest of each signal.
Older(a, b) == a # 0 /\ (b = 0 \/ a < b)

FirstKeyed(c) == first # None /\ first.card = c
KeyNow(c) == <<KeyShot, IF FirstKeyed(c) THEN first.absent ELSE Empty(c)>>
Drawn == {c \in dirty : first = None \/ FirstKeyed(c) \/ key[c] # KeyNow(c)}

(* A panel without its signal keeps what it showed, and is keyed too.      *)
Paint ==
  /\ gui = "paint" /\ gui' = "idle"
  /\ board' = [c \in Signals |->
       IF c \in Drawn /\ snap[c] # None THEN [shot |-> snap[c].shot, of |-> view] ELSE board[c]]
  /\ key' = [c \in Signals |-> IF c \in Drawn THEN KeyNow(c) ELSE key[c]]
  /\ missed' = (missed \ Drawn) \cup
       {c \in Drawn : ~KeyNow(c)[2] /\ (c \in absent \/ Older(view, disp))}
  /\ disp' = 0 /\ view' = 0 /\ snap' = None /\ dirty' = {} /\ first' = None /\ absent' = {}
  /\ Drawing /\ UNCHANGED listed

(* The user stops a node the console has, and it waits for the thread.     *)
StopCamera ==
  /\ gui = "idle" /\ Frame \in listed /\ pc # "none" /\ gui' = "join" /\ halted' = TRUE
  /\ UNCHANGED <<bounds, pc, applied, filled, edit, log, judges, listed, tick, editor, restarted, leftover>>

Joined ==
  /\ gui = "join" /\ pc = "none" /\ gui' = "idle" /\ listed' = listed \ {Frame}
  /\ UNCHANGED <<bounds, camera, edit, log, judges, tick, editor, restarted, leftover>>

ToggleJudge(j) ==
  /\ gui = "idle" /\ toggles < scenario.toggles /\ toggles' = toggles + 1
  /\ IF j \in on
       THEN judging[j] = None /\ on' = on \ {j} /\ listed' = listed \ {j} /\ UNCHANGED seen
       ELSE on' = on \cup {j} /\ listed' = listed \cup {j} /\ seen' = [seen EXCEPT ![j] = 0]
  /\ UNCHANGED <<scenario, camera, edit, log, judging, gui, tick, editor, restarted, leftover>>

-----------------------------------------------------------------------------
(* The panel editor's Apply, _restart_node of both, and its wait.          *)

Apply ==
  /\ gui = "idle" /\ gui' = "apply"
  /\ edits < scenario.edits /\ edits' = edits + 1
  /\ was' = [running |-> pc # "none", epoch |-> epoch, overtook |-> FALSE] /\ awaiting' = None
  /\ UNCHANGED <<bounds, camera, edit, log, judges, listed, tick, restarted, leftover>>

(* apply_acquisition_parameters: queued for the loop, or at once, which    *)
(* the camera may refuse.                                                  *)
Submit ==
  /\ gui = "apply"
  /\ IF pc # "none" THEN pending' = edits /\ gui' = "start" /\ UNCHANGED params
                    ELSE /\ UNCHANGED pending
                         /\ \/ params' = edits /\ gui' = "step"
                            \/ gui' = "idle" /\ UNCHANGED params
  /\ was' = [was EXCEPT !.overtook = applied \/ epoch # was.epoch]
  /\ UNCHANGED <<bounds, camera, epoch, log, judges, listed, tick, edits, awaiting, restarted, leftover>>

(* One shot of the idle node; where its _stop is still set, some cameras   *)
(* raise, and the edit ends there.                                         *)
StepIdle ==
  /\ gui = "step"
  /\ \/ (FrameComes \/ NoFrame) /\ epoch' = epoch + 1 /\ gui' = "start"
     \/ NoFrame /\ UNCHANGED epoch /\ gui' = "idle"
  /\ UNCHANGED <<bounds, pc, applied, params, pending, judges, listed, tick, editor, restarted, leftover>>

(* start() if the node does not run; the console's lists are left alone.   *)
StartAgain ==
  /\ gui = "start"
  /\ IF pc = "none"
       THEN pc' = "top" /\ halted' = FALSE /\ restarted' = (restarted \/ Frame \notin listed)
       ELSE UNCHANGED <<pc, halted, restarted>>
  /\ IF was.running THEN gui' = "idle" /\ awaiting' = [edit |-> edits, was |-> was]
                    ELSE gui' = "refresh" /\ UNCHANGED awaiting
  /\ was' = None
  /\ UNCHANGED <<bounds, applied, filled, edit, log, judges, listed, tick, edits, leftover>>

(* _await_fresh_frame: the epoch moved, or 600 polls.                      *)
Awaited ==
  /\ gui = "idle" /\ awaiting # None /\ awaiting' = None /\ gui' = "refresh"
  /\ UNCHANGED <<bounds, camera, edit, log, judges, listed, tick, edits, was, restarted, leftover>>

-----------------------------------------------------------------------------
Camera == Top \/ Shoot
Processor(j) == Take(j) \/ Judge(j)
Console == Keys \/ Refresh \/ View \/ Snap \/ Paint \/ Joined \/ Submit \/ StepIdle \/ StartAgain \/ Awaited

Next ==
  \/ Camera \/ Console \/ Tick \/ StopCamera \/ Apply
  \/ \E j \in scenario.judges : Processor(j) \/ ToggleJudge(j)

Spec ==
  /\ Init /\ [][Next]_vars
  /\ WF_vars(Camera) /\ WF_vars(Console) /\ WF_vars(Tick)
  /\ \A j \in Judges : WF_vars(j \in scenario.judges /\ Processor(j))

-----------------------------------------------------------------------------
(* The board shows one shot: panels differ only where a signal has no      *)
(* sample of the board's shot left and shows its latest, or where a frame  *)
(* came between the two readings of the board's shot in one tick.          *)
Aligned(c) == board[c] # None /\ board[c].shot = board[c].of /\ board[c].of = key[c][1]

OneShotBoard == \A c, d \in Cards : Aligned(c) /\ Aligned(d) => board[c].shot = board[d].shot

(* "they can never stagger": the same whatever the two readings gave.      *)
NeverStagger ==
  \A c, d \in Cards :
    /\ board[c] # None /\ board[c].shot = board[c].of
    /\ board[d] # None /\ board[d].shot = board[d].of
    => board[c].shot = board[d].shot

(* No edit is undone by an older one, but by the one the loop had left in  *)
(* the queue when it ended.                                                *)
EditsInOrder == [][params' < params => pending = leftover]_vars

(* When nothing is published any more every panel comes to show what the   *)
(* board's shot asks of it, though nodes published while it was drawn.     *)
(* But a node the editor started is not on the console's list, and a panel *)
(* waits for the next shot if it is keyed with its signal and drawn        *)
(* without, or keyed newer than drawn: a first sample came in its drawing. *)
Shows(c) == Empty(c) \/ (board[c] # None /\ board[c].shot = At(c, DisplayShot(listed)).shot)

BoardSettles == \A c \in Signals : <>[](c \notin Cards \/ restarted \/ c \in missed \/ Shows(c))

(* Once the epoch has moved the edit the editor waits for is in force,     *)
(* unless an earlier one was still to be counted when it was queued, or a  *)
(* loop that ended had left one ("the FIRST computed with the edited       *)
(* params").                                                               *)
EpochMeansApplied ==
  awaiting # None /\ epoch > awaiting.was.epoch /\ ~awaiting.was.overtook =>
    params >= awaiting.edit \/ params = leftover

(* "start it so the Monitor streams under the new params": BoardSettles of *)
(* the camera's panel, with a node that the editor started.                *)
MonitorStreams == <>[](Frame \in missed \/ Shows(Frame))
=============================================================================
