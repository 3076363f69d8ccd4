---------------------------- MODULE PulseCompiler ----------------------------
(***************************************************************************)
(* What the host compiles: a pulse table (periods with the level of every  *)
(* channel and what a DAC does, an inner bracket, output delays, a scan    *)
(* slot in durations or DAC values) or a sequence (pulses of channels, in  *)
(* the order they were added), to a program, which carries in shown the    *)
(* levels its author asked for, one mask per tick of a sweep, and in       *)
(* dac_shown the codes of the DAC; <<>> for a program from elsewhere.      *)
(*                                                                         *)
(* A period lasts base + coef * slot / Fraction ticks; first and last      *)
(* bound the bracket, which is played count times (first = 0: none).  In a *)
(* period the DAC holds, or goes to a value at once (edge) or until the    *)
(* end (ramp); 0 is 0 V, and scanned puts the slot in the value's place.   *)
(***************************************************************************)
EXTENDS PulseProgram

Channels == {0, 1}   \* channel 0 has the output delay of PulseProgram

MaskOf(on) == MapThenSumSet(LAMBDA c : 2 ^ c, on)

Total(op(_), n) == LET sum[k \in 0..n] == IF k = 0 THEN 0 ELSE sum[k - 1] + op(k) IN sum[n]

-----------------------------------------------------------------------------
(* Pulse tables.                                                           *)

\* The nearest tick, ties up, and one at least; a negative value is refused.
DurationSteps(q, s) == Max({1, (2 * (Fraction * q.base + q.coef * s) + Fraction) \div (2 * Fraction)})
Negative(q, s) == Fraction * q.base + q.coef * s < 0

HasBracket(t) == t.first # 0
HasDelay(t)   == t.bus_delay # 0 \/ \E c \in Channels : t.delay[c] # 0
DrivesDac(t)  == \E q \in ToSet(t.periods) : q.dac.mode # "hold"

\* The periods in play order, the bracket written out.
Expanded(t) ==
  IF t.count = 1 THEN t.periods
  ELSE SubSeq(t.periods, 1, t.first - 1)
       \o FlattenSeq([k \in 1..t.count |-> SubSeq(t.periods, t.first, t.last)])
       \o SubSeq(t.periods, t.last + 1, Len(t.periods))

Unrolled(t) ==
  IF t.count = 1 THEN t
  ELSE [t EXCEPT !.periods = Expanded(t), !.first = 0, !.last = 0, !.count = 1]

\* A delay line cannot lead: the most negative delay shifts every channel that
\* is ever on, and a DAC that does not only hold.
Driven(t) == UNION {q.on : q \in ToSet(t.periods)}
Shift(t)  == Max({0} \cup {-t.delay[c] : c \in Driven(t)} \cup (IF DrivesDac(t) THEN {-t.bus_delay} ELSE {}))
OutputDelay(t, c) == IF c \in Driven(t) THEN t.delay[c] + Shift(t) ELSE 0
BusDelay(t) == IF DrivesDac(t) THEN t.bus_delay + Shift(t) ELSE 0

Levels(t, i) == IF i \in DOMAIN t.periods THEN t.periods[i].on ELSE {}
End(t) == Len(t.periods) + 1

\* Without scan points: an edge where each period starts, all off at the end.
StartSteps(t, i) == Total(LAMBDA k : DurationSteps(t.periods[k], t.nominal), i - 1)

\* With scan points a start is affine in the slot ...
AffineStart(t, i) ==
  [base |-> Total(LAMBDA k : t.periods[k].base, i - 1),
   coef |-> Total(LAMBDA k : t.periods[k].coef, i - 1)]

\* 0 V is half the range; out of range is the end of it.
Code(v) == Max({0, Min({2 * BusSafe - 1, v + BusSafe})})

\* A segment for every period in which the DAC does not hold.
Segments(t) ==
  LET at(i) == IF t.points = <<>> THEN [base |-> StartSteps(t, i), coef |-> 0] ELSE AffineStart(t, i)
      segment(i) ==
        LET dac == t.periods[i].dac
            stop == at(IF dac.mode = "ramp" THEN i + 1 ELSE i)
            fromSlot == dac.scanned /\ t.points # <<>>
        IN  [mode |-> dac.mode, start |-> at(i).base, start_coef |-> at(i).coef,
             stop |-> stop.base, stop_coef |-> stop.coef, scanned |-> fromSlot,
             value |-> IF fromSlot THEN 0 ELSE Code(IF dac.scanned THEN t.nominal ELSE dac.value)]
      driving == SelectSeq([i \in DOMAIN t.periods |-> i], LAMBDA i : t.periods[i].dac.mode # "hold")
  IN  [k \in DOMAIN driving |-> segment(driving[k])]

StaticProgram(t) ==
  [tick |-> [i \in 1..End(t) |-> StartSteps(t, i)], coef |-> [i \in 1..End(t) |-> 0],
   mask |-> [i \in 1..End(t) |-> MaskOf(Levels(t, i))],
   loop_start |-> IF HasBracket(t) THEN t.first ELSE 1,
   loop_end |-> StartSteps(t, IF HasBracket(t) THEN t.last + 1 ELSE End(t)), end_coef |-> 0,
   loops |-> t.count, points |-> <<>>, forever |-> t.forever, delay |-> OutputDelay(t, 0),
   segs |-> Segments(t), bus_delay |-> BusDelay(t)]

SlotValues(t) == IF t.points = <<>> THEN <<t.nominal>> ELSE t.points

\* The slot is in durations or in values of the DAC.
ScansDac(t)  == \E q \in ToSet(t.periods) : q.dac.scanned
WireSlots(t) == [j \in DOMAIN t.points |-> IF ScansDac(t) THEN Code(t.points[j]) ELSE t.points[j]]

Changes(t, e) ==
  {c \in Channels : \E i \in 1..End(t) : AffineStart(t, i) = e /\ (c \in Levels(t, i)) # (c \in Levels(t, i - 1))}

\* ... and there is an edge where a channel changes, where the bracket starts
\* and at the end, in the order of the first point (another order, or two at
\* once, at any point: the validation refuses it), and one at tick 0.
Edges(t) ==
  {AffineStart(t, i) : i \in {i \in 1..End(t) : Levels(t, i) # Levels(t, i - 1)}
                             \cup {End(t)} \cup (IF t.count > 1 THEN {t.first} ELSE {})}

Zero == [base |-> 0, coef |-> 0]

EdgeRows(t) ==
  SetToSortSeq(Edges(t), LAMBDA e, f : ApplyScanTick(e.base, e.coef, t.points[1])
                                       < ApplyScanTick(f.base, f.coef, t.points[1]))
AnchoredRows(t) == IF EdgeRows(t)[1] = Zero THEN EdgeRows(t) ELSE <<Zero>> \o EdgeRows(t)

\* The channels that have changed an odd number of times up to row k.
RowLevels(t, rows, k) ==
  {c \in Channels : Cardinality({j \in 1..k : c \in Changes(t, rows[j])}) % 2 = 1}

LoopStartBeforeAnchor(t) == SelectInSeq(EdgeRows(t), LAMBDA e : e = AffineStart(t, t.first))  \* mutant: the row at tick 0 is added later
LoopStartRow(t) == SelectInSeq(AnchoredRows(t), LAMBDA e : e = AffineStart(t, t.first))

ScanProgram(t) ==
  LET rows == AnchoredRows(t)
      loop_end == AffineStart(t, IF t.count > 1 THEN t.last + 1 ELSE End(t))
  IN  [tick |-> [k \in DOMAIN rows |-> rows[k].base], coef |-> [k \in DOMAIN rows |-> rows[k].coef],
       mask |-> [k \in DOMAIN rows |-> MaskOf(RowLevels(t, rows, k))],
       loop_start |-> IF t.count > 1 THEN LoopStartRow(t) ELSE 1,
       loop_end |-> loop_end.base, end_coef |-> loop_end.coef,
       loops |-> t.count, points |-> WireSlots(t), forever |-> t.forever, delay |-> OutputDelay(t, 0),
       segs |-> Segments(t), bus_delay |-> BusDelay(t)]

\* The levels the table shows for one sweep: its reading by to_sequence.
TableLevels(t) ==
  LET frame(s) == FlattenSeq([i \in DOMAIN Expanded(t) |->
                    LET q == Expanded(t)[i] IN [k \in 1..DurationSteps(q, s) |-> MaskOf(q.on)]])
  IN  FlattenSeq([j \in DOMAIN SlotValues(t) |-> frame(SlotValues(t)[j])])

\* A bracket with a delay is written out first.  One that is played once is not
\* written out, and its compilation calls itself until Python gives up.
TableCompiles(t) ==
  /\ ~(HasBracket(t) /\ t.count = 1 /\ HasDelay(t))
  /\ \A q \in ToSet(t.periods), s \in ToSet(SlotValues(t)) : ~Negative(q, s)

Compiled(t) == IF HasDelay(t) THEN Unrolled(t) ELSE t

TableProgram(t) == IF t.points = <<>> THEN StaticProgram(Compiled(t)) ELSE ScanProgram(Compiled(t))

\* Where the two readings of a scanned duration agree: whole ticks, one at least
\* ("a scalar evaluation of these coeffs at any slot point equals
\* period_start_steps there").
WholeTicks(t) ==
  \A q \in ToSet(t.periods), s \in ToSet(t.points) :
    (q.coef * s) % Fraction = 0 /\ q.base + (q.coef * s) \div Fraction >= 1

-----------------------------------------------------------------------------
(* What a table asks of the DAC, tick by tick.                             *)

\* The periods a frame plays without a seam: the bracket, if it is not written
\* out, is one by one.
Runs(t) ==
  LET u == Compiled(t)
  IN  [k \in 1..u.count |-> IF k < u.count THEN SubSeq(u.periods, 1, u.last) ELSE u.periods]

\* One period, from what the DAC has carried so far.
DacPeriod(t, past, q, s) ==
  LET to == IF q.dac.mode = "hold" THEN past.carried
            ELSE Code(IF q.dac.scanned THEN s ELSE q.dac.value)
      from == past.carried
      n == DurationSteps(q, s)
      level(k) == CASE q.dac.mode # "ramp" -> to
                    [] to >= from -> from + (k * (to - from)) \div n
                    [] OTHER      -> from - (k * (from - to)) \div n
  IN  [levels |-> past.levels \o [k \in 1..n |-> level(k - 1)], carried |-> to]

\* A frame begins with the level there was: a ramp that it cuts is not over.
DacRun(t, past, run, s) ==
  FoldLeft(LAMBDA d, q : DacPeriod(t, d, q, s),
           [past EXCEPT !.carried = IF past.levels = <<>> THEN BusSafe ELSE Last(past.levels)], run)

DacLevels(t, sweeps) ==
  LET frame(past, s) == FoldLeft(LAMBDA d, run : DacRun(t, d, run, s), past, Runs(t))
      sweep(past) == FoldLeft(frame, past, SlotValues(t))
  IN  FoldLeft(LAMBDA d, k : sweep(d), [levels |-> <<>>, carried |-> BusSafe], [k \in 1..sweeps |-> k]).levels

\* Programs whose DAC the engine plays as asked.  A ramp that follows a ramp starts
\* one step short of the first one's target: it takes the value the register has
\* while the target is written to it.
RampsApart(t) ==
  \A run \in ToSet(Runs(t)) : \A i \in 1..(Len(run) - 1) :
    ~(run[i].dac.mode = "ramp" /\ run[i + 1].dac.mode = "ramp")

\* A scan that does not repeat never tells the delayed player of its frames: a ramp
\* that one cuts goes on to its target there, unless a segment follows at once.
RampsCutInTime(t, p) ==
  p.forever \/ Len(p.points) < 2 \/ p.bus_delay < 2
    \/ Last(t.periods).dac.mode # "ramp" \/ t.periods[1].dac.mode # "hold"

\* SegmentsFit counts a scan that does not repeat as one frame, takes a scanned frame
\* for as long as at slot 0, and leaves out the return to 0 V at the end.
QueueHolds(p) ==
  LET n == SweepTicks(p)
      sweeps == IF p.forever THEN 3 + p.bus_delay \div n ELSE 1
      applied == {(k - 1) * n + Offset(p, j) + SegStart(g, Slots(p)[j]) :
                    k \in 1..sweeps, j \in DOMAIN Slots(p), g \in ToSet(p.segs)}
                 \cup (IF p.forever THEN {} ELSE {n})
  IN  p.bus_delay > 1 =>
        \A a \in applied : Cardinality({b \in applied : a - p.bus_delay < b /\ b <= a}) <= SegDepth

-----------------------------------------------------------------------------
(* Sequences: pulses of a channel from at, len ticks long, repeated after  *)
(* period ticks (0: when the last pulse is over).                          *)

Stop(u) == u.at + u.len
Period(q) == IF q.period # 0 THEN q.period ELSE Max({Stop(u) : u \in ToSet(q.pulses)})

SequenceValid(q) ==
  /\ \A u \in ToSet(q.pulses) : Stop(u) <= Period(q)
  /\ \A i, j \in DOMAIN q.pulses :
       i # j /\ q.pulses[i].c = q.pulses[j].c =>
         Stop(q.pulses[i]) <= q.pulses[j].at \/ Stop(q.pulses[j]) <= q.pulses[i].at

\* Every pulse writes 1 where it starts, then 0 where it stops; of two writes of a
\* channel at a tick the one made later stays.
Writes(q) ==
  FlattenSeq([i \in DOMAIN q.pulses |->
    LET u == q.pulses[i] IN <<[c |-> u.c, at |-> u.at, level |-> 1], [c |-> u.c, at |-> Stop(u), level |-> 0]>>])

LevelAt(W, c, w) ==
  LET past == {i \in DOMAIN W : W[i].c = c /\ W[i].at <= w}
      last == {i \in past : \A j \in past : W[j].at <= W[i].at}
  IN  IF past = {} THEN 0 ELSE W[Max(last)].level

\* All off at the end and, if nothing starts there, at tick 0.
SequenceProgram(q) ==
  LET W == Writes(q)
      at == SetToSortSeq({w.at : w \in ToSet(W)} \cup {0, Period(q)}, <)
  IN  [tick |-> at, coef |-> [k \in DOMAIN at |-> 0],
       mask |-> [k \in DOMAIN at |-> IF at[k] = Period(q) THEN 0
                                     ELSE MaskOf({c \in Channels : LevelAt(W, c, at[k]) = 1})],
       loop_start |-> 1, loop_end |-> Period(q), end_coef |-> 0,
       loops |-> q.count, points |-> <<>>, forever |-> q.forever, delay |-> 0,
       segs |-> <<>>, bus_delay |-> 0]

PulseLevels(q) ==
  FlattenSeq([k \in 1..q.count |-> [w \in 1..Period(q) |->
    MaskOf({u.c : u \in {u \in ToSet(q.pulses) : u.at < w /\ w <= Stop(u)}})]])

\* Pulses that touch were added in the order they are played in.  "edges" writes
\* the stop of one over the start of the other if they were not.
AddedInOrder(q) ==
  \A i, j \in DOMAIN q.pulses : q.pulses[i].c = q.pulses[j].c /\ Stop(q.pulses[i]) = q.pulses[j].at => i < j

-----------------------------------------------------------------------------
\* A program with what its author asked for.
Wanting(p, levels, codes) == [shown |-> levels, dac_shown |-> codes] @@ p

TablePrograms(T) == {Wanting(TableProgram(t), TableLevels(t), <<>>) : t \in {t \in T : TableCompiles(t)}}

SequencePrograms(Q) == {Wanting(SequenceProgram(q), PulseLevels(q), <<>>) : q \in {q \in Q : SequenceValid(q)}}

\* Tables that drive the DAC, for as long as a repeated sweep is looked at.
DacPrograms(T) ==
  LET sweeps(p) == IF p.forever THEN 3 + (TailTicks(p) + 2) \div SweepTicks(p) ELSE 1
      compiled == {<<t, TableProgram(t)>> : t \in {t \in T : TableCompiles(t) /\ RampsApart(t)}}
      played == {c \in compiled : RampsCutInTime(c[1], c[2]) /\ QueueHolds(c[2])}
  IN  {Wanting(c[2], TableLevels(c[1]), DacLevels(c[1], sweeps(c[2]))) : c \in played}
=============================================================================
