---------------------------- MODULE MCEdgePlayer ----------------------------
(* Tables of up to nine edges, one tick or LongGap apart: with brackets    *)
(* and repeats, so that every seam meets every state of the prefetch; with *)
(* three scan points that move the edges; and with delays of a channel.    *)
(* Then programs compiled from tables of three periods, and of sequences   *)
(* of three pulses, of two channels; and from tables of three periods with *)
(* a DAC, which ramps over fewer ticks than codes and over more.           *)
EXTENDS BusPlayer, PulseCompiler

CONSTANTS Tables, ScanTables, DelayTables,   \* numbers of edges
          LongGap,                           \* ticks between two edges, in one place
          ShortestFrame,                     \* ticks of the shortest scanned frame
          FromPulses,                        \* whether compiled tables and sequences are among them
          BusDelays                          \* delays of the DAC

\* One tick between two edges, more in at most one place; after six the
\* prefetch is full again before the next edge is due.
Gaps(n) == {g \in [1..(n - 1) -> {1, LongGap}] : Quantify(1..(n - 1), LAMBDA i : g[i] > 1) <= 1}

TicksOf(gaps) ==
  [i \in 1..(Len(gaps) + 1) |-> FoldLeft(+, 0, SubSeq(gaps, 1, i - 1))]

\* Every edge is told from every other; the delayed channel is high every
\* other edge, or every other pair.
Alternate(n) == [i \in 1..n |-> IF i < n THEN 2 * i + (i % 2) ELSE 0]
Pairs(n)     == [i \in 1..n |-> IF i < n THEN 2 * i + ((i \div 2) % 2) ELSE 0]

Plain(gaps, forever) ==
  LET n == Len(gaps) + 1
  IN  [tick |-> TicksOf(gaps), mask |-> Alternate(n), coef |-> [i \in 1..n |-> 0],
       loop_start |-> 1, loop_end |-> IF forever THEN TicksOf(gaps)[n] ELSE 0, end_coef |-> 0, loops |-> 1,
       points |-> <<>>, forever |-> forever, delay |-> 0, segs |-> <<>>, bus_delay |-> 0,
       shown |-> <<>>, dac_shown |-> <<>>]

Bracketed(p, loops) ==
  {[p EXCEPT !.loop_start = a, !.loop_end = e, !.loops = loops] :
     a \in DOMAIN p.tick, e \in 1..p.tick[Len(p.tick)]}

\* From edge k on the table moves with the slot.
Scanned(p, points) ==
  {[p EXCEPT !.points = points, !.end_coef = c, !.coef = [i \in DOMAIN @ |-> IF i < k THEN 0 ELSE c]] :
     k \in 2..Len(p.tick), c \in {-1, 1}}

PlainTables(sizes) == UNION {{Plain(g, f) : g \in Gaps(n), f \in BOOLEAN} : n \in sizes}

WithBrackets(P, loops) == P \cup UNION {Bracketed(p, loops) : p \in P}

Scans(P) == UNION {Scanned(p, <<2, 1, 4>>) : p \in P}

LongFrames(p) == \A j \in DOMAIN p.points : Final(p, p.points[j]) >= ShortestFrame

Delayed(P) ==
  UNION {{[p EXCEPT !.delay = d, !.mask = m] :
            d \in {1, 2, 3, 5, 9}, m \in {Alternate(Len(p.tick)), Pairs(Len(p.tick))}} : p \in P}

\* Three periods of two channels: on says who is on, and one may be scanned.
Holds == [mode |-> "hold", scanned |-> FALSE, value |-> 0]

Periods(lengths, on) == [i \in 1..3 |-> [base |-> lengths[i], coef |-> 0, on |-> on[i], dac |-> Holds]]

Scanning(periods) ==
  UNION {{[periods EXCEPT ![k].base = 0, ![k].coef = Fraction],
          [periods EXCEPT ![k].base = 5, ![k].coef = -Fraction]} : k \in 1..3}

Brackets == {<<0, 0, 1>>, <<1, 1, 1>>, <<1, 2, 2>>, <<2, 2, 3>>, <<2, 3, 2>>}

\* The channels' delays: none, one of channel 0, one that shifts it.
Delays == {<<0, 0>>, <<2, 0>>, <<0, -2>>}

Table(periods, b, d, points, forever) ==
  [periods |-> periods, first |-> b[1], last |-> b[2], count |-> b[3],
   delay |-> [c \in Channels |-> d[c + 1]], bus_delay |-> 0, nominal |-> 1, points |-> points, forever |-> forever]

PulseTables ==
  {Table(Periods(<<1, 2, 1>>, on), b, d, <<>>, b[1] = 2) :
     on \in [1..3 -> SUBSET Channels], b \in Brackets, d \in Delays}
  \cup UNION {{Table(q, b, d, <<2, 1, 4>>, b[1] = 0) : q \in Scanning(Periods(<<1, 2, 1>>, on))} :
     on \in {{}, {0}} \X {{0}, {1}, {0, 1}} \X {{}, {0, 1}}, b \in Brackets, d \in Delays}

\* What a DAC of eight codes may do in a period: ramp by two codes, by more than
\* the period has ticks, down, to a value out of range or to the slot.
Doings(scanned) ==
  {Holds, [mode |-> "edge", scanned |-> FALSE, value |-> -3]}
  \cup {[mode |-> "ramp", scanned |-> FALSE, value |-> v] : v \in {-4, 2}}
  \cup (IF scanned THEN {[mode |-> m, scanned |-> TRUE, value |-> 0] : m \in {"edge", "ramp"}} ELSE {})

WithDac(t, doings, delays) ==
  {[t EXCEPT !.periods = [i \in 1..3 |-> [t.periods[i] EXCEPT !.dac = doing[i]]], !.bus_delay = d] :
     doing \in {f \in [1..3 -> doings] : \E i \in 1..3 : f[i].mode # "hold"}, d \in delays}

\* The table is Table(q, b, delays, points, forever) with what its DAC does.
DacTables ==
  LET q == Periods(<<2, 3, 1>>, <<{0}, {}, {1}>>)
      b == <<0, 0, 1>>
  IN  UNION {WithDac(Table(q, bracket, <<0, 0>>, <<>>, f), Doings(FALSE), BusDelays) :
               bracket \in {b, <<1, 2, 2>>}, f \in BOOLEAN}
      \cup UNION {WithDac(Table(q, b, <<0, 0>>, <<3, -2>>, f), Doings(TRUE), {0, Max(BusDelays)}) : f \in BOOLEAN}
      \cup UNION {WithDac(Table(r, b, <<0, -2>>, <<2, 4>>, TRUE), Doings(FALSE), {0}) : r \in Scanning(q)}

Pulses == {[c |-> 0, at |-> 0, len |-> 1], [c |-> 0, at |-> 1, len |-> 2], [c |-> 0, at |-> 4, len |-> 1],
           [c |-> 1, at |-> 1, len |-> 2], [c |-> 1, at |-> 3, len |-> 2]}

PulseSequences ==
  {q \in [pulses : UNION {[1..n -> Pulses] : n \in 1..3}, period : {0, 6}, count : {1, 2}, forever : BOOLEAN] :
     AddedInOrder(q)}

\* Two that may follow any other: three edges, and six with a bracket.
Again ==
  {[Plain(<<2, 2>>, TRUE) EXCEPT !.delay = 3],
   [Plain(<<1, 1, 2, 1, 1>>, FALSE) EXCEPT !.loop_start = 2, !.loop_end = 5, !.loops = 2]}

First ==
  {p \in Again \cup WithBrackets(PlainTables(Tables), 3)
         \cup Scans(WithBrackets(PlainTables(ScanTables), 2))
         \cup Delayed(WithBrackets(PlainTables(DelayTables), 2)
                      \cup Scans(PlainTables(DelayTables))) :
     LongFrames(p)}
  \cup (IF FromPulses THEN {p \in TablePrograms({t \in PulseTables : WholeTicks(t)})
                                   \cup SequencePrograms(PulseSequences) \cup DacPrograms(DacTables) : LongFrames(p)}
                      ELSE {})
=============================================================================
