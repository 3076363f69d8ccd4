---------------------------- MODULE PulseProgram ----------------------------
(***************************************************************************)
(* A compiled program as the host sees it: what it accepts for upload      *)
(* (validate_pulse_streamer_program) and when each of its edges is due     *)
(* (_sweep_events, the schedule its capacity check counts toggles on).     *)
(*                                                                         *)
(* A program is a record: tick, coef and mask, one row per edge; the       *)
(* bracket loop_start, loop_end, end_coef played loops times; the scan     *)
(* points, one slot value each, or <<>>; forever; the output delay of the  *)
(* one channel that has one, the lowest bit of a mask; and the segments of *)
(* one DAC bus, segs, with its delay.  shown and dac_shown are not         *)
(* uploaded: what its author asked for (PulseCompiler), or <<>>.           *)
(***************************************************************************)
EXTENDS Integers, SequencesExt

CONSTANTS Fraction,   \* 2 ^ scan_coeff_frac_bits
          EvtDepth,   \* EVT_FIFO_DEPTH: toggles a delayed channel may hold back
          SegDepth,   \* BUS_EVT_FIFO_DEPTH: segments a delayed bus may hold back
          BusSafe     \* the code a DAC rests at, half its range: 0 V

ASSUME ProgramAssumption ==
  /\ Fraction \in Nat \ {0} /\ EvtDepth \in Nat \ {0}
  /\ SegDepth \in Nat \ {0} /\ BusSafe \in Nat \ {0}

ScanReadLatency == 2

High(mask) == mask % 2

ApplyScanTick(base, c, s) == base + (c * s) \div Fraction

Eff(p, i, s) == ApplyScanTick(p.tick[i], p.coef[i], s)
Final(p, s)  == Eff(p, Len(p.tick), s)
LoopEnd(p, s) == ApplyScanTick(p.loop_end, p.end_coef, s)

Slots(p) == IF p.points = <<>> THEN <<0>> ELSE p.points

\* A segment of the bus, an edge or a ramp, starts and stops as an edge is due.
SegStart(g, s) == ApplyScanTick(g.start, g.start_coef, s)
SegStop(g, s)  == ApplyScanTick(g.stop, g.stop_coef, s)

\* Ticks the delayed outputs come later.
TailTicks(p) == Max({p.delay, p.bus_delay})

-----------------------------------------------------------------------------
(* When edges are due.                                                     *)

SliceLen(p, s) == LoopEnd(p, s) - Eff(p, p.loop_start, s)

FrameDuration(p, s) == Max({1, Final(p, s) + (p.loops - 1) * SliceLen(p, s)})

\* Edges a to b of the table, played off ticks late.
Rows(p, s, a, b, off) ==
  [k \in 1..(b - a + 1) |-> [at |-> Eff(p, a + k - 1, s) + off, mask |-> p.mask[a + k - 1]]]

Later(events, off) == [k \in DOMAIN events |-> [events[k] EXCEPT !.at = @ + off]]

\* One frame in play order: the bracket loops times, then what follows it.
FrameEvents(p, s) ==
  LET n == Len(p.tick)
      inner == Cardinality({i \in 1..n : Eff(p, i, s) < LoopEnd(p, s)})
  IN  IF p.loops = 1 THEN Rows(p, s, 1, n, 0)
      ELSE
      Rows(p, s, 1, p.loop_start - 1, 0)
      \o FlattenSeq([k \in 1..p.loops |->
           Rows(p, s, p.loop_start, inner, (k - 1) * SliceLen(p, s))])
      \o Rows(p, s, inner + 1, n, (p.loops - 1) * SliceLen(p, s))

\* Ticks before the frame of point j.
Offset(p, j) ==
  LET before[k \in 1..(Len(Slots(p)) + 1)] ==
        IF k = 1 THEN 0 ELSE before[k - 1] + FrameDuration(p, Slots(p)[k - 1])
  IN  before[j]

SweepTicks(p) == Offset(p, Len(Slots(p)) + 1)

SweepEvents(p) ==
  FlattenSeq([j \in DOMAIN Slots(p) |-> Later(FrameEvents(p, Slots(p)[j]), Offset(p, j))])

-----------------------------------------------------------------------------
(* What the host accepts.                                                  *)

\* The wraps the check looks at: two, or as many as a longer delay spans.
Sweeps(p) == IF p.forever THEN 3 + p.delay \div SweepTicks(p) ELSE 1

Stream(p) ==
  FlattenSeq([k \in 1..Sweeps(p) |-> Later(SweepEvents(p), (k - 1) * SweepTicks(p))])

\* The most toggles of the delayed channel in any closed window of its delay.
MaxInFlight(p) ==
  LET E == Stream(p)
      toggles == {i \in DOMAIN E : High(E[i].mask) # (IF i = 1 THEN 0 ELSE High(E[i - 1].mask))}
  IN  Max({0} \cup {Cardinality({j \in toggles : j <= i /\ E[i].at - E[j].at <= p.delay}) : i \in toggles})

DelayFits(p) == p.delay > 1 => MaxInFlight(p) <= EvtDepth

\* The segments a delayed bus holds back, by a count of whole frames.
Windows(p) ==
  LET frame == Max({1, IF p.loop_end # 0 THEN p.loop_end ELSE Last(p.tick)})
  IN  IF p.forever THEN (p.bus_delay + frame - 1) \div frame ELSE 1

SegmentsFit(p) ==
  /\ \A g \in ToSet(p.segs) : g.start <= g.stop
  /\ p.segs # <<>> => p.loops = 1 \/ p.loop_start = 1
  /\ Min({p.bus_delay, Windows(p) * Len(p.segs)}) <= SegDepth

PointFits(p, s) ==
  /\ \A i \in 1..(Len(p.tick) - 1) : Eff(p, i, s) < Eff(p, i + 1, s)
  /\ p.loops > 1 \/ p.forever => LoopEnd(p, s) > Eff(p, p.loop_start, s) /\ LoopEnd(p, s) <= Final(p, s)
  /\ p.points # <<>> /\ Final(p, s) > 0 => Final(p, s) >= ScanReadLatency

Accepted(p) ==
  /\ p.tick # <<>> /\ p.loop_start \in DOMAIN p.tick
  /\ p.tick[1] = 0 /\ p.coef[1] = 0
  /\ p.loops >= 1
  /\ p.mask[Len(p.mask)] = 0
  /\ \A j \in DOMAIN Slots(p) : PointFits(p, Slots(p)[j])
  /\ DelayFits(p)
  /\ SegmentsFit(p)
=============================================================================
