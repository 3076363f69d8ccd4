--------------------------- MODULE ReferencePlayer ---------------------------
(***************************************************************************)
(* What playback promises: engine_model.reference_play, the combinational  *)
(* engine that has every edge and every scan point at hand.  An edge comes *)
(* out at the very tick it is due or never.                                *)
(***************************************************************************)
EXTENDS PulseProgram

CONSTANT Programs

VARIABLES image, running, state_mask, time_count, edge_index, slot, point, loops

vars == <<image, running, state_mask, time_count, edge_index, slot, point, loops>>

Count == Len(image.tick)
Points == Slots(image)

Init ==
  /\ image \in Programs /\ running = FALSE
  /\ state_mask = 0 /\ time_count = 0 /\ edge_index = 0
  /\ slot = 0 /\ point = 0 /\ loops = 0

\* Edge a is on the outputs, the next one is to come.
Output(a, s) ==
  /\ state_mask' = image.mask[a + 1]
  /\ time_count' = Eff(image, a + 1, s) + 1
  /\ edge_index' = a + 1

\* The frame of scan point k, from its first tick.
Frame(k) ==
  /\ point' = k /\ slot' = Points[k + 1] /\ loops' = image.loops
  /\ IF Eff(image, 1, slot') = 0
       THEN Output(0, slot')
       ELSE state_mask' = 0 /\ time_count' = 0 /\ edge_index' = 0

AtLoopEnd == image.loops > 1 /\ loops > 1 /\ time_count >= LoopEnd(image, slot)
AtFrameEnd == ~AtLoopEnd /\ time_count >= Final(image, slot)
MorePoints == image.points # <<>> /\ point + 1 < Len(image.points)

Start == ~running /\ running' = TRUE /\ Frame(0) /\ UNCHANGED image

Rewind ==
  /\ running /\ AtLoopEnd
  /\ Output(image.loop_start - 1, slot) /\ loops' = loops - 1
  /\ UNCHANGED <<image, running, slot, point>>

NextPoint == running /\ AtFrameEnd /\ MorePoints /\ Frame(point + 1) /\ UNCHANGED <<image, running>>

Repeat == running /\ AtFrameEnd /\ ~MorePoints /\ image.forever /\ Frame(0) /\ UNCHANGED <<image, running>>

Finish ==
  /\ running /\ AtFrameEnd /\ ~MorePoints /\ ~image.forever
  /\ running' = FALSE /\ state_mask' = 0
  /\ UNCHANGED <<image, time_count, edge_index, slot, point, loops>>

Due == edge_index < Count /\ time_count = Eff(image, edge_index + 1, slot)

Tick ==
  /\ running /\ ~AtLoopEnd /\ ~AtFrameEnd
  /\ state_mask' = IF Due THEN image.mask[edge_index + 1] ELSE state_mask
  /\ edge_index' = IF Due THEN edge_index + 1 ELSE edge_index
  /\ time_count' = time_count + 1
  /\ UNCHANGED <<image, running, slot, point, loops>>

\* The host stops a run, and loads another program when none is played.
Stop ==
  /\ running' = FALSE /\ state_mask' = 0
  /\ UNCHANGED <<image, time_count, edge_index, slot, point, loops>>

Load ==
  /\ ~running /\ image' \in Programs
  /\ UNCHANGED <<running, state_mask, time_count, edge_index, slot, point, loops>>

Next == Start \/ Rewind \/ NextPoint \/ Repeat \/ Finish \/ Tick \/ Stop \/ Load

Spec == Init /\ [][Next]_vars
=============================================================================
