-------------------------- MODULE StreamerLifecycle --------------------------
(***************************************************************************)
(* What the FPGA's command mailbox promises the host: the pulse streamer   *)
(* is a device with five phases, and only a complete load can be fired.    *)
(* StreamerTop implements it; SequencerService drives a device of this     *)
(* kind.                                                                   *)
(***************************************************************************)
VARIABLE phase

Phases == {"reset", "loading", "loaded", "running", "done"}

Safe == phase' = "reset"
Load == phase' = "loading"
Loaded == phase = "loading" /\ phase' = "loaded"
Fire == phase = "loaded" /\ phase' = "running"
Play == phase = "running" /\ phase' = "done"

Init == phase = "reset"
Next == Safe \/ Load \/ Loaded \/ Fire \/ Play
Spec == Init /\ [][Next]_phase
=============================================================================
