------------------------------ MODULE MCLiveView -------------------------------
EXTENDS LiveView

CONSTANTS p, q

(* Two processors that skip frames; one that lags behind the ring and is   *)
(* stopped or started again; a node that takes two frames, edited twice;   *)
(* edited nodes, finite and live, with a processor.                        *)
MCScenarios == {
  [judges |-> {p, q}, shots |-> 2, edits |-> 0, toggles |-> 0, repeat |-> 0],
  [judges |-> {p}, shots |-> 3, edits |-> 0, toggles |-> 1, repeat |-> 0],
  [judges |-> {}, shots |-> 3, edits |-> 2, toggles |-> 0, repeat |-> 2],
  [judges |-> {p}, shots |-> 2, edits |-> 1, toggles |-> 0, repeat |-> 1],
  [judges |-> {p}, shots |-> 2, edits |-> 1, toggles |-> 0, repeat |-> 0]}

(* A live node, its processors stopped, edited after it was stopped.       *)
MCEdited == {[judges |-> {}, shots |-> 2, edits |-> 1, toggles |-> 0, repeat |-> 0]}
=============================================================================
