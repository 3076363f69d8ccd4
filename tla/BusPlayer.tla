------------------------------ MODULE BusPlayer ------------------------------
(***************************************************************************)
(* A DAC bus of zlc_edge_streamer beside its edges: the segments applied   *)
(* in turn at their ticks, the stepper of a ramp, the value carried over   *)
(* every seam, and the player that runs the segments of a delayed bus      *)
(* again, delay ticks later.                                               *)
(*                                                                         *)
(* The compilers select no slot for the start of a ramp: it starts from    *)
(* the register.                                                           *)
(***************************************************************************)
EXTENDS EdgePlayer

VARIABLES
  bus,             \* value and ramp, bus_value_active and the bus_ramp registers
  bus_index,       \* segments of the frame applied so far
  bus_seg_push,    \* what the last clock captured for the delayed player
  sfifo,           \* captured before, not yet due
  player,          \* delayed player: started, its value and ramp, the end of its frame
  dprev,           \* the value one tick ago
  forever_active   \* repeat_forever_active, loaded by FIRE

busvars == <<bus, bus_index, bus_seg_push, sfifo, player, dprev, forever_active>>

NoRamp == [on |-> FALSE]
At(v)  == [value |-> v, ramp |-> NoRamp]
Unstarted == [started |-> FALSE, dac |-> At(BusSafe), fend |-> 0]

BusInit ==
  /\ Init
  /\ bus = At(BusSafe) /\ bus_index = 0 /\ bus_seg_push = <<>>
  /\ sfifo = <<>> /\ player = Unstarted /\ dprev = BusSafe
  /\ forever_active = FALSE

-----------------------------------------------------------------------------
(* Ramps: delta codes in span ticks, a step every tick and one code more   *)
(* when the remainders add up.                                             *)

Ramp(from, to, start, stop) ==
  LET delta == IF to >= from THEN to - from ELSE from - to
      span == stop - start
  IN  [on |-> TRUE, start |-> start, stop |-> stop, target |-> to, up |-> to >= from,
       step |-> 0, rem |-> delta, steep |-> span < delta, denom |-> span, accum |-> 0]

\* The division of a steep ramp waits for its first tick: rem is delta till then.
Divided(r) == [r EXCEPT !.steep = FALSE, !.step = r.rem \div r.denom,
                        !.rem = r.rem % r.denom, !.accum = r.rem % r.denom]

Carries(r) == ~r.steep /\ r.accum + r.rem >= r.denom

Stepped(r) ==
  IF r.steep THEN Divided(r)
  ELSE [r EXCEPT !.accum = @ + r.rem - (IF Carries(r) THEN r.denom ELSE 0)]

Moved(v, r) ==
  LET inc == Stepped(r).step + (IF Carries(r) THEN 1 ELSE 0)
  IN  IF r.up THEN Min({r.target, v + inc}) ELSE Max({r.target, v - inc})

\* Value and ramp after tick t.
Advance(dac, t) ==
  LET r == dac.ramp
  IN  CASE t >= r.stop  -> At(r.target)
        [] t \in (r.start + 1)..(r.stop - 1) -> [value |-> Moved(dac.value, r), ramp |-> Stepped(r)]
        [] OTHER        -> dac

-----------------------------------------------------------------------------
(* The live bus.                                                           *)

Target(g, s) == IF g.scanned THEN s ELSE g.value
Ramps(g, s)  == g.mode = "ramp" /\ SegStop(g, s) > SegStart(g, s)

Never == 2 ^ 30   \* all ones

FreezeNever(emit, g, s) == Never   \* mutant: a ramp cut by a repeat goes on in the delayed player

\* A repeat cuts a ramp that is not over: the delayed player stops there, too.
Freeze(emit, g, s) == IF forever_active THEN emit + Final(image, s) - SegStart(g, s) ELSE Never

Captured(d) == IF image.bus_delay > 1 THEN <<d>> ELSE <<>>

\* Segment g with slot value s at engine time now, from the value the register has.
Apply(g, s, now) ==
  LET ramp == Ramp(bus.value, Target(g, s), SegStart(g, s), SegStop(g, s))
      emit == now + image.bus_delay
  IN  IF Ramps(g, s)
      THEN /\ bus' = [bus EXCEPT !.ramp = ramp]
           /\ bus_seg_push' = Captured([emit |-> emit, fend |-> Freeze(emit, g, s), value |-> bus.value,
                                        ramp |-> [ramp EXCEPT !.start = emit, !.stop = emit + ramp.denom]])
      ELSE /\ bus' = At(Target(g, s))
           /\ bus_seg_push' = Captured([emit |-> emit, fend |-> Never, value |-> Target(g, s), ramp |-> NoRamp])

\* A frame begins: its first segment, if it starts at once; the value is kept.
BusRestart(s, now) ==
  IF image.segs # <<>> /\ SegStart(image.segs[1], s) = 0
  THEN Apply(image.segs[1], s, now) /\ bus_index' = 1
  ELSE bus' = At(bus.value) /\ bus_index' = 0 /\ bus_seg_push' = <<>>

RampOver == bus.ramp.on => time_count >= bus.ramp.stop

Due == bus_index < Len(image.segs) /\ time_count >= SegStart(image.segs[bus_index + 1], slot)

BusApply ==
  /\ RampOver /\ Due
  /\ Apply(image.segs[bus_index + 1], slot, g_time)
  /\ bus_index' = bus_index + 1

BusStep ==
  /\ ~(RampOver /\ Due)
  /\ bus' = IF bus.ramp.on THEN Advance(bus, time_count) ELSE bus
  /\ bus_seg_push' = <<>> /\ UNCHANGED bus_index

\* At the end the bus is safe at once, and a delayed one after its delay.
BusFinish ==
  /\ bus' = At(BusSafe) /\ bus_index' = 0
  /\ bus_seg_push' = Captured([emit |-> g_time + image.bus_delay, fend |-> Never,
                               value |-> BusSafe, ramp |-> NoRamp])

BusIdle == bus_seg_push' = <<>> /\ UNCHANGED <<bus, bus_index>>

-----------------------------------------------------------------------------
(* The delayed bus.                                                        *)

SegPushes == bus_seg_push # <<>> /\ Len(sfifo) # SegDepth
SegPops   == sfifo # <<>> /\ Head(sfifo).emit = g_time

Replay ==
  /\ dprev' = bus.value
  /\ sfifo' = (IF SegPops THEN Tail(sfifo) ELSE sfifo) \o (IF SegPushes THEN bus_seg_push ELSE <<>>)
  /\ player' = LET h == Head(sfifo) IN
       CASE SegPops -> [started |-> TRUE, dac |-> [value |-> h.value, ramp |-> h.ramp], fend |-> h.fend]
         [] ~SegPops /\ player.dac.ramp.on /\ g_time < player.fend ->
              [player EXCEPT !.dac = Advance(@, g_time)]
         [] OTHER -> player

-----------------------------------------------------------------------------
(* The engine with its bus.                                                *)

\* FIRE comes a clock before the first tick.
BusFire ==
  /\ Fire
  /\ BusRestart(PointAt(0), -1)
  /\ forever_active' = image.forever
  /\ UNCHANGED <<sfifo, player, dprev>>

Seam == AtLoopEnd \/ (AtFrameEnd /\ (MorePoints \/ image.forever))

BusClock ==
  /\ Clock
  /\ \/ running /\ Seam /\ BusRestart(slot', g_time)
     \/ running /\ AtFrameEnd /\ ~Seam /\ BusFinish
     \/ running /\ ~Seam /\ ~AtFrameEnd /\ (BusApply \/ BusStep)
     \/ ~running /\ BusIdle
  /\ Replay
  /\ UNCHANGED forever_active

BusHalts ==
  /\ Safe \/ PrepareHalts
  /\ bus' = At(BusSafe) /\ bus_index' = 0 /\ bus_seg_push' = <<>>
  /\ sfifo' = <<>> /\ player' = Unstarted /\ dprev' = BusSafe
  /\ UNCHANGED forever_active

Host == (WaitSeesDone \/ WaitReturns \/ Upload) /\ UNCHANGED busvars

BusNext == BusFire \/ BusClock \/ BusHalts \/ Host

BusSpec == BusInit /\ [][BusNext]_<<vars, busvars>>

-----------------------------------------------------------------------------
(* Properties.                                                             *)

bus_out ==
  CASE image.bus_delay = 0 -> bus.value
    [] image.bus_delay = 1 -> dprev
    [] OTHER -> IF player.started THEN player.dac.value ELSE BusSafe

\* What the table asks of the DAC w ticks after the start.
DacAskedFor(p, w) == IF w \in 0..(Len(p.dac_shown) - 1) THEN p.dac_shown[w + 1] ELSE BusSafe

\* The DAC outputs at every tick what the table asked for, delay ticks ago: every
\* ramp is the straight line from the value before it, in whole codes, and lands
\* on its target; the value is carried over brackets, points and repeats; the
\* delayed player draws the same line and holds where a frame cut it.
DacShowsPlan ==
  ~reset /\ image.segs # <<>> => bus_out = DacAskedFor(image, g_time - image.bus_delay)

\* A delayed bus that a wait_done saw DONE is at rest before a prepare halts it.
BusTailPlayed == [][PrepareHalts /\ told => sfifo = <<>> /\ bus_seg_push = <<>> /\ bus_out = BusSafe]_<<vars, busvars>>

\* Every delayed output is its own past to the end of its tail: the channel's
\* (DelayLine), and the DAC's, which has what its table asked for besides.
OutputLines == DelayLine /\ []DacShowsPlan /\ BusTailPlayed
=============================================================================
