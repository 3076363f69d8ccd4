----------------------------- MODULE EdgePlayer -----------------------------
(***************************************************************************)
(* Edge playback of zlc_edge_streamer, clock by clock: the resident edges  *)
(* seeded at every seam, the prefetch behind them through the registered   *)
(* address and the BRAM's two cycles, the seams themselves (bracket, scan  *)
(* point, repeat, end), the pre-read of the next scan point, and the event *)
(* scheduler of a delayed channel.  An edge is the address it is stored    *)
(* at; the BRAM does not change while the engine is out of reset.          *)
(*                                                                         *)
(* The host uploads an accepted program under reset and fires it; SAFE     *)
(* puts the engine back under reset.  A prepare after DONE first waits for *)
(* the tail of the delayed outputs; one tick of the engine is the unit of  *)
(* the session's clock.  Scan points are resident (refills and stalls are  *)
(* CyclicScan's and FiniteScan's); BusPlayer adds the DAC.                 *)
(***************************************************************************)
EXTENDS PulseProgram

CONSTANTS Programs,   \* programs the host may ask to upload first
          Reloads     \* those it may upload later and interrupt (bound)

ASSUME PlayerAssumption ==
  /\ Reloads \subseteq Programs
  /\ \A p \in Programs :
       /\ p.tick \in Seq(Nat) /\ p.coef \in [DOMAIN p.tick -> Int]
       /\ p.loop_end \in Int /\ p.end_coef \in Int /\ p.loops \in Int
       /\ p.points \in Seq(Int)

VARIABLES image, reset,                    \* program in the BRAMs; reset_sync
          running, done, state_mask, time_count, edge_index, active_count,
          arm, arm_nv,                     \* resident edges, the first arm_nv valid
          pend, fetch_idx, edge_raddr,     \* reads under way, next to issue, address register
          edge_q, scan_q,                  \* addresses inside the BRAM's read pipeline
          slot, point, scan_raddr,
          final_tick, loop_end_active, loops_remaining,
          g_time, prev_undelayed, fifo, obit,  \* event scheduler of the delayed channel
          drain_until, told                \* the session's deadline for the tail (0: none);
                                           \* wait_done has seen DONE in this run

frame == <<running, done, state_mask, time_count, edge_index, active_count>>
reads == <<arm, arm_nv, pend, fetch_idx, edge_raddr>>
scan  == <<slot, point, scan_raddr, final_tick, loop_end_active>>
sched == <<g_time, prev_undelayed, fifo, obit>>
session == <<drain_until, told>>
vars  == <<image, reset, frame, reads, edge_q, scan_q, scan, loops_remaining, sched, session>>

Uploadable == {p \in Programs : Accepted(p)}

RdLat == 2
FifoDepthShort == RdLat + 1  \* mutant: no room for the read that is about to land
FifoDepth == RdLat + 2
Pipe == RdLat + 1            \* the address is registered first
NoReads == [k \in 1..Pipe |-> 0]

Count == Len(image.tick)

\* What the BRAMs hold at an address; above the program, an older one.
TickAt(a, s) == IF a < Count THEN Eff(image, a + 1, s) ELSE 0
MaskAt(a)    == IF a < Count THEN image.mask[a + 1] ELSE -1
PointAt(a)   == IF a < Len(Slots(image)) THEN Slots(image)[a + 1] ELSE 0

Init ==
  /\ image \in Uploadable /\ reset = TRUE
  /\ running = FALSE /\ done = FALSE /\ state_mask = 0 /\ time_count = 0
  /\ edge_index = 0 /\ active_count = 0
  /\ arm = [k \in 1..FifoDepth |-> 0] /\ arm_nv = 0
  /\ pend = NoReads /\ fetch_idx = 0 /\ edge_raddr = 0
  /\ edge_q = <<0, 0>> /\ scan_q = <<0, 0>>
  /\ slot = 0 /\ point = 0 /\ scan_raddr = 0
  /\ final_tick = 0 /\ loop_end_active = 0 /\ loops_remaining = 0
  /\ g_time = 0 /\ prev_undelayed = 0 /\ fifo = <<>> /\ obit = 0
  /\ drain_until = 0 /\ told = FALSE

-----------------------------------------------------------------------------
(* Seams.                                                                  *)

ResidentOf(left) == IF left >= FifoDepth THEN FifoDepth ELSE left

\* The edges from address a on are resident, no read is under way.
Resident(a, cnt) ==
  /\ arm' = [k \in 1..FifoDepth |-> a + k - 1]
  /\ arm_nv' = ResidentOf(cnt - a)
  /\ fetch_idx' = a + FifoDepth /\ edge_raddr' = a + FifoDepth
  /\ pend' = NoReads

\* Output the edge at a, go on behind it.
RestartAt(a, s, cnt) ==
  /\ state_mask' = MaskAt(a)
  /\ time_count' = TickAt(a, s) + 1
  /\ edge_index' = a + 1
  /\ Resident(a + 1, cnt)

SeedFromEdge0(s, cnt) ==
  IF cnt # 0 /\ TickAt(0, s) = 0
    THEN RestartAt(0, s, cnt)
    ELSE /\ state_mask' = 0 /\ time_count' = 0 /\ edge_index' = 0
         /\ Resident(0, cnt)

\* A frame with slot value s: its last tick and bracket end, its first edges.
NewFrame(s, cnt) ==
  /\ slot' = s
  /\ final_tick' = TickAt(Count - 1, s)
  /\ loop_end_active' = LoopEnd(image, s)
  /\ SeedFromEdge0(s, cnt)

\* fire takes the program's duration, in seconds, for nanoseconds: less than a tick.
EstimatedTicks == 0

Fire ==
  /\ reset
  /\ reset' = FALSE /\ running' = (Count # 0) /\ done' = (Count = 0)
  /\ active_count' = Count /\ loops_remaining' = image.loops
  /\ point' = 0 /\ scan_raddr' = 1
  /\ NewFrame(PointAt(0), Count)
  /\ drain_until' = IF image.forever \/ TailTicks(image) = 0 THEN drain_until
                                             ELSE EstimatedTicks + TailTicks(image)
  /\ UNCHANGED <<image, edge_q, scan_q, sched, told>>

AtLoopEnd == image.loops > 1 /\ loops_remaining > 1 /\ time_count >= loop_end_active
AtFrameEnd == ~AtLoopEnd /\ time_count >= final_tick
MorePoints == image.points # <<>> /\ point + 1 < Len(image.points)

Rewind ==
  /\ running /\ AtLoopEnd
  /\ loops_remaining' = loops_remaining - 1
  /\ RestartAt(image.loop_start - 1, slot, active_count)
  /\ UNCHANGED <<running, done, active_count, scan>>

NextPoint ==
  /\ running /\ AtFrameEnd /\ MorePoints
  /\ point' = point + 1 /\ scan_raddr' = point + 2
  /\ loops_remaining' = image.loops
  /\ NewFrame(PointAt(scan_q[RdLat]), active_count)
  /\ UNCHANGED <<running, done, active_count>>

Repeat ==
  /\ running /\ AtFrameEnd /\ ~MorePoints /\ image.forever
  /\ point' = 0 /\ scan_raddr' = 1
  /\ loops_remaining' = image.loops
  /\ NewFrame(PointAt(0), active_count)
  /\ UNCHANGED <<running, done, active_count>>

Finish ==
  /\ running /\ AtFrameEnd /\ ~MorePoints /\ ~image.forever
  /\ running' = FALSE /\ done' = TRUE /\ state_mask' = 0
  /\ UNCHANGED <<time_count, edge_index, active_count, reads, scan, loops_remaining>>

-----------------------------------------------------------------------------
(* Between seams.                                                          *)

Fires == edge_index < active_count /\ arm_nv # 0 /\ time_count >= TickAt(arm[1], slot)
LeftResident == IF Fires THEN arm_nv - 1 ELSE arm_nv
Shifted == IF Fires THEN [k \in 1..FifoDepth |-> arm[IF k < FifoDepth THEN k + 1 ELSE k]] ELSE arm

Landed == pend[Pipe]

UnderWayEnds == pend[1] + pend[Pipe] \* mutant: a stage of the pipeline is forgotten
UnderWay == pend[1] + pend[2] + pend[3]

\* A read is issued only if everything under way has a place to land.
Issues == LeftResident + UnderWay < FifoDepth /\ fetch_idx < active_count

Play ==
  /\ running /\ ~AtLoopEnd /\ ~AtFrameEnd
  /\ state_mask' = IF Fires THEN MaskAt(arm[1]) ELSE state_mask
  /\ edge_index' = IF Fires THEN edge_index + 1 ELSE edge_index
  /\ time_count' = time_count + 1
  /\ arm' = IF Landed = 1 THEN [Shifted EXCEPT ![LeftResident + 1] = edge_q[RdLat]] ELSE Shifted
  /\ arm_nv' = LeftResident + Landed
  /\ pend' = [k \in 1..Pipe |-> IF k > 1 THEN pend[k - 1] ELSE IF Issues THEN 1 ELSE 0]
  /\ IF Issues THEN edge_raddr' = fetch_idx /\ fetch_idx' = fetch_idx + 1
               ELSE UNCHANGED <<edge_raddr, fetch_idx>>
  /\ UNCHANGED <<running, done, active_count, scan, loops_remaining>>

\* Done, but the tail of a delayed channel is still to come.
Drain ==
  /\ ~running /\ done
  /\ UNCHANGED <<frame, reads, scan, loops_remaining>>

\* The toggle of this tick is scheduled, the one that is due comes out.
Pushes == High(state_mask) # prev_undelayed /\ image.delay > 1 /\ Len(fifo) # EvtDepth
Pops   == fifo # <<>> /\ Head(fifo).at = g_time

Schedule ==
  /\ obit' = IF Pops THEN Head(fifo).level ELSE obit
  /\ fifo' = (IF Pops THEN Tail(fifo) ELSE fifo)
             \o (IF Pushes THEN <<[at |-> g_time + image.delay - 1, level |-> High(state_mask)]>> ELSE <<>>)
  /\ prev_undelayed' = High(state_mask)
  /\ g_time' = g_time + 1

\* Ticks of a run that are explored (bound): a repeated sweep twice, and the tail.
Horizon(p) == (IF p.forever THEN 2 ELSE 1) * SweepTicks(p) + TailTicks(p) + 2

Clock ==
  /\ ~reset /\ g_time < Horizon(image)
  /\ Rewind \/ NextPoint \/ Repeat \/ Finish \/ Play \/ Drain
  /\ edge_q' = <<edge_raddr, edge_q[1]>> /\ scan_q' = <<scan_raddr, scan_q[1]>>
  /\ Schedule
  /\ UNCHANGED <<image, reset, session>>

-----------------------------------------------------------------------------
(* The host.  Under reset the engine reads its seeds over and over; they   *)
(* have settled when FIRE comes.                                           *)

SeesDone == ~reset /\ done

\* wait_done: the deadline counts from the DONE it sees ...
WaitSeesDone ==
  /\ SeesDone /\ TailTicks(image) > 0
  /\ drain_until' = g_time + TailTicks(image) /\ told' = TRUE
  /\ UNCHANGED <<image, reset, frame, reads, edge_q, scan_q, scan, loops_remaining, sched>>

ClearedAlways == 0  \* mutant: also when the caller's time ran out before the tail
Cleared == IF g_time >= drain_until THEN 0 ELSE drain_until

\* ... and it returns once the tail is out, or its caller's time is up.
WaitReturns ==
  /\ SeesDone /\ told /\ drain_until' = Cleared
  /\ UNCHANGED <<image, reset, frame, reads, edge_q, scan_q, scan, loops_remaining, sched, told>>

EngineReset ==
  /\ reset' = TRUE /\ running' = FALSE /\ done' = FALSE /\ state_mask' = 0
  /\ arm_nv' = 0 /\ pend' = NoReads
  /\ g_time' = 0 /\ prev_undelayed' = 0 /\ fifo' = <<>> /\ obit' = 0
  /\ drain_until' = 0 /\ told' = FALSE
  /\ UNCHANGED <<image, time_count, edge_index, active_count, arm, fetch_idx, edge_raddr,
                 edge_q, scan_q, scan, loops_remaining>>

\* safe_state, and the SAFE of a prepare that cannot read STATUS: at once.
Safe == ~reset /\ (image \in Reloads \/ g_time = Horizon(image)) /\ EngineReset

\* prepare's SAFE where it reads STATUS: if DONE, it waits for the deadline first.
PrepareHalts ==
  /\ ~reset /\ (image \in Reloads \/ done)
  /\ done => g_time >= drain_until
  /\ EngineReset

Upload ==
  /\ reset
  /\ image' \in Reloads \cap Uploadable
  /\ edge_raddr' = 0 /\ edge_q' = <<0, 0>> /\ scan_raddr' = 0 /\ scan_q' = <<0, 0>>
  /\ UNCHANGED <<reset, frame, arm, arm_nv, pend, fetch_idx, slot, point, final_tick,
                 loop_end_active, loops_remaining, sched, session>>

Next == Fire \/ Clock \/ WaitSeesDone \/ WaitReturns \/ Safe \/ PrepareHalts \/ Upload

Spec == Init /\ [][Next]_vars

-----------------------------------------------------------------------------
(* Properties.                                                             *)

\* The next edge of the table is resident, and at the head, at every tick of a
\* run that has one left: a read never lands without a slot, out of order or
\* after its edge is due, even where every gap is one tick.
PrefetchKeepsUp ==
  running /\ edge_index < active_count => arm_nv > 0 /\ arm[1] = edge_index

\* The engine with its prefetch and its pre-reads outputs at every tick what the
\* combinational reference does, which has everything at hand: the >= that
\* would fire a late edge late is never needed, and a scan point's slot value is
\* in before its frame begins.
Reference == INSTANCE ReferencePlayer WITH Programs <- Uploadable, loops <- loops_remaining

ImplementsReference == Reference!Spec

\* The tick of the sweep, of n ticks, that is played w ticks after the start.
SweepTick(p, w, n) == IF p.forever THEN w % n ELSE w

\* What is on the outputs then, by the host's schedule, and as it was asked for.
Scheduled(p, w) ==
  LET E == SweepEvents(p)
      n == SweepTicks(p)
      u == SweepTick(p, w, n)
  IN  IF u < n THEN E[Max({i \in DOMAIN E : E[i].at <= u})].mask ELSE 0

AskedFor(p, w) ==
  LET u == SweepTick(p, w, Len(p.shown)) IN IF u < Len(p.shown) THEN p.shown[u + 1] ELSE 0

\* At every tick of a run the engine outputs what the host's schedule says is
\* due, and what the periods of the table or the pulses of the sequence show
\* that the program was compiled from: no edge is dropped, late or from another
\* frame, however short the gaps and whichever seams (bracket, scan point,
\* repeat, end) lie between.
OutputsSchedule ==
  ~reset => /\ state_mask = Scheduled(image, g_time)
            /\ image.shown # <<>> => state_mask = AskedFor(image, g_time)

DelayedLevel ==
  CASE image.delay = 0 -> High(state_mask)
    [] image.delay = 1 -> prev_undelayed
    [] OTHER           -> obit

\* The delayed channel has played all it was given.
AtRest == fifo = <<>> /\ DelayedLevel = High(state_mask)

\* A delayed channel outputs its own past, delay ticks ago, and is low before:
\* across seams and past the end, and its event queue never drops a toggle of a
\* program the host let through.
DelayedCopies ==
  ~reset => DelayedLevel = IF g_time < image.delay THEN 0
                           ELSE High(Scheduled(image, g_time - image.delay))

\* ... and it comes out to the end: a prepare after a wait_done that saw DONE
\* leaves it the time, whether that call had the time itself or not, if it can
\* read STATUS ("prepare must not CMD_SAFE before the tail drains").
TailPlayed == [][PrepareHalts /\ told => AtRest]_vars

DelayLine == []DelayedCopies /\ TailPlayed

\* The same without a wait_done: "so a back-to-back prepare() cannot chop the
\* delayed tail".
TailNeverChopped == [][PrepareHalts /\ done => AtRest]_vars
=============================================================================
