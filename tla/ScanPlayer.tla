----------------------------- MODULE ScanPlayer -----------------------------
(***************************************************************************)
(* What the pulse streamer promises of a scan: the N points of the sweep   *)
(* are played in order, each as itself, one sweep after the other when the *)
(* scan repeats; it may hold a point for any time (a stall), and it may be *)
(* halted at any time.  It says nothing of banks, chunks or refills.       *)
(***************************************************************************)
EXTENDS Naturals

CONSTANTS
  N,       \* number of scan points of the sweep
  Cyclic   \* TRUE: repeat_forever, the sweep restarts after its last point

VARIABLES
  state,   \* "reset", "running" or "done"
  out      \* the scan point whose values are on the outputs

vars == <<state, out>>

Init == state = "reset" /\ out = 0

Start == state = "reset" /\ state' = "running" /\ out' = 0

Play == /\ state = "running"
        /\ out + 1 < N \/ Cyclic
        /\ out' = IF out + 1 < N THEN out + 1 ELSE 0
        /\ UNCHANGED state

Finish == /\ state = "running" /\ ~Cyclic /\ out + 1 >= N
          /\ state' = "done"
          /\ UNCHANGED out

Halt == state' = "reset" /\ UNCHANGED out

Next == Start \/ Play \/ Finish \/ Halt

Spec == Init /\ [][Next]_vars
=============================================================================
