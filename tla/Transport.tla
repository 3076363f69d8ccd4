------------------------------- MODULE Transport -------------------------------
(***************************************************************************)
(* What the session expects of a link to the FPGA, whichever it is: one    *)
(* exchange at a time, numbered as they are asked; an exchange takes       *)
(* effect at most once, in turn, and perhaps after its caller has given    *)
(* up; and the answer a caller gets is to its own exchange, which has      *)
(* taken effect.                                                           *)
(***************************************************************************)
EXTENDS Naturals

VARIABLES asked,     \* exchanges asked so far
          open,      \* the last one has neither been answered nor given up
          effects,   \* those that took effect
          answer     \* the exchange the last answer belongs to; 0: none

vars == <<asked, open, effects, answer>>

Init == asked = 0 /\ open = FALSE /\ effects = {} /\ answer = 0

Ask ==
  /\ ~open /\ open' = TRUE
  /\ asked' = asked + 1 /\ answer' = 0
  /\ UNCHANGED effects

TakeEffect ==
  /\ \E e \in 1..asked : (\A f \in effects : f < e) /\ effects' = effects \cup {e}
  /\ UNCHANGED <<asked, open, answer>>

Answer ==
  /\ open /\ asked \in effects
  /\ open' = FALSE /\ answer' = asked
  /\ UNCHANGED <<asked, effects>>

Fail == open /\ open' = FALSE /\ UNCHANGED <<asked, effects, answer>>

Next == Ask \/ TakeEffect \/ Answer \/ Fail

Spec == Init /\ [][Next]_vars
=============================================================================
