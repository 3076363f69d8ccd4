-------------------------- MODULE EdgePlayer_proof --------------------------
(***************************************************************************)
(* The prefetch of EdgePlayer keeps up with every table: the next edge is  *)
(* always resident, whatever the gaps, brackets, points and repeats.  And  *)
(* the engine plays as ReferencePlayer does, if scanned frames outlast the *)
(* pre-read of the next point (FramesOutlastRead); so that at every tick   *)
(* it outputs what the host's schedule says is due.                        *)
(*                                                                         *)
(* The first argument counts the reads the prefetch owns (resident or      *)
(* under way).  It owns four, or all that are left; at most three are      *)
(* under way, and fewer when fewer are owned; so one at least is resident. *)
(* The second adds what a running engine holds (FrameHeld), that no edge   *)
(* left is overdue (OnTime), and how far the pre-read is (PreRead).  The   *)
(* third finds the engine's place in the schedule: which pass of which     *)
(* frame it is in and how far (Placed), that this is the tick of the sweep *)
(* that the clock says (OnSchedule), and that the last event due then is   *)
(* the edge on the outputs, through the lists of lists (Shows, After) that *)
(* the schedule is joined from.                                            *)
(***************************************************************************)
EXTENDS BusPlayer, FiniteSetTheorems, WellFoundedInduction, TLAPS

Owned == arm_nv + UnderWay

Left == active_count - edge_index

PrefetchType ==
  /\ image \in Uploadable
  /\ arm \in [1..4 -> Nat] /\ arm_nv \in 0..4
  /\ pend \in [1..3 -> {0, 1}]
  /\ edge_index \in Nat /\ active_count \in Nat
  /\ fetch_idx \in Nat /\ edge_raddr \in Nat /\ edge_q \in Nat \X Nat

\* Owned reads are the next edges of the table, in order, none left out.
InOrder ==
  /\ \A k \in 1..arm_nv : arm[k] = edge_index + k - 1
  /\ pend[3] = 1 => edge_q[2] = edge_index + arm_nv
  /\ pend[2] = 1 => edge_q[1] = edge_index + arm_nv + pend[3]
  /\ pend[1] = 1 => edge_raddr = edge_index + arm_nv + pend[3] + pend[2]
  /\ fetch_idx = edge_index + Owned \/ (Left < 4 /\ fetch_idx >= active_count)

\* Four are owned or all that are left; the longer a read is under way, the
\* fewer fires may have followed it.
Ahead ==
  /\ edge_index <= active_count
  /\ Owned = IF Left >= 4 THEN 4 ELSE Left
  /\ pend[1] = 1 => Owned = 4
  /\ pend[2] = 1 => Owned >= 3
  /\ pend[3] = 1 => Owned >= 2

Prefetch ==
  /\ PrefetchType
  /\ reset => ~running
  /\ running => active_count = Count /\ InOrder /\ Ahead

-----------------------------------------------------------------------------
(* An uploadable program has edges, and its bracket starts at one of them. *)
LEMMA ImageShape ==
  ASSUME PrefetchType
  PROVE  Count \in Nat \ {0} /\ image.loop_start \in 1..Count
  <1>1. image \in Programs /\ Accepted(image)
    BY DEF PrefetchType, Uploadable
  <1>2. image.tick # <<>> /\ image.loop_start \in DOMAIN image.tick
    BY <1>1 DEF Accepted
  <1>3. image.tick \in Seq(Nat)
    BY <1>1, PlayerAssumption
  <1>4. Len(image.tick) \in Nat \ {0} /\ DOMAIN image.tick = 1..Len(image.tick)
    BY <1>2, <1>3
  <1> QED BY <1>2, <1>4 DEF Count

(* A seam seeds the edges from address a on, as many as are left, up to    *)
(* four.                                                                   *)
LEMMA SeedOwns ==
  ASSUME NEW a \in Nat, a <= Count, Count \in Nat, Resident(a, Count),
         edge_index' = a, active_count' = Count, image' = image,
         edge_q' \in Nat \X Nat, image \in Uploadable
  PROVE  PrefetchType' /\ (active_count = Count)' /\ InOrder' /\ Ahead'
  <1>1. /\ arm' = [k \in 1..4 |-> a + k - 1]
        /\ arm_nv' = IF Count - a >= 4 THEN 4 ELSE Count - a
        /\ fetch_idx' = a + 4 /\ edge_raddr' = a + 4
        /\ pend' = [k \in 1..3 |-> 0]
    BY DEF Resident, ResidentOf, FifoDepth, RdLat, NoReads, Pipe
  <1>2. PrefetchType'
    BY <1>1 DEF PrefetchType
  <1>3. (active_count = Count)'
    BY DEF Count
  <1>4. UnderWay' = 0
    BY <1>1 DEF UnderWay
  <1>5. InOrder'
    BY <1>1, <1>4 DEF InOrder, Owned, Left
  <1>6. Ahead'
    BY <1>1, <1>4 DEF Ahead, Owned, Left
  <1> QED BY <1>2, <1>3, <1>5, <1>6

(* So does a frame, with or without an edge at its first tick.             *)
LEMMA FrameOwns ==
  ASSUME NEW s, Count \in Nat, SeedFromEdge0(s, Count),
         active_count' = Count, image' = image,
         edge_q' \in Nat \X Nat, image \in Uploadable
  PROVE  PrefetchType' /\ (active_count = Count)' /\ InOrder' /\ Ahead'
  <1>1. CASE Count # 0 /\ TickAt(0, s) = 0
    BY <1>1, SeedOwns DEF SeedFromEdge0, RestartAt
  <1>2. CASE ~(Count # 0 /\ TickAt(0, s) = 0)
    BY <1>2, SeedOwns DEF SeedFromEdge0
  <1> QED BY <1>1, <1>2

(* A tick between seams: what is owned is kept in order and made up to     *)
(* four.                                                                   *)
LEMMA PlayOwns ==
  ASSUME Prefetch, Play, running, image' = image, edge_q' = <<edge_raddr, edge_q[1]>>
  PROVE  PrefetchType' /\ (active_count = Count)' /\ InOrder' /\ Ahead'
  <1> DEFINE f == IF Fires THEN 1 ELSE 0
             i == IF Issues THEN 1 ELSE 0
  <1>1. PrefetchType /\ active_count = Count /\ InOrder /\ Ahead
    BY DEF Prefetch
  <1>2. /\ pend[1] \in {0, 1} /\ pend[2] \in {0, 1} /\ pend[3] \in {0, 1}
        /\ edge_q[1] \in Nat /\ edge_q[2] \in Nat
    BY <1>1 DEF PrefetchType
  <1>3. f \in {0, 1} /\ i \in {0, 1}
    OBVIOUS
  <1>4. /\ f = 1 => arm_nv > 0 /\ edge_index < active_count
        /\ LeftResident = arm_nv - f
    BY <1>1 DEF Fires, LeftResident, PrefetchType
  <1>5. /\ edge_index' = edge_index + f /\ active_count' = active_count
        /\ arm_nv' = arm_nv - f + pend[3]
        /\ pend' = [k \in 1..3 |-> IF k > 1 THEN pend[k - 1] ELSE i]
        /\ edge_raddr' = IF i = 1 THEN fetch_idx ELSE edge_raddr
        /\ fetch_idx' = fetch_idx + i
        /\ arm' = IF pend[3] = 1 THEN [Shifted EXCEPT ![arm_nv - f + 1] = edge_q[2]] ELSE Shifted
    BY <1>1, <1>4 DEF Play, Landed, Pipe, RdLat, PrefetchType
  <1>6. pend'[1] = i /\ pend'[2] = pend[1] /\ pend'[3] = pend[2]
    BY <1>5
  <1>7. UnderWay = pend[1] + pend[2] + pend[3] /\ UnderWay' = i + pend[1] + pend[2]
    BY <1>6 DEF UnderWay
  <1>8. i = 1 <=> arm_nv - f + UnderWay < 4 /\ fetch_idx < active_count
    BY <1>4 DEF Issues, FifoDepth, RdLat
  <1> HIDE DEF f, i
  <1>9. Owned' = Owned - f + i
    BY <1>1, <1>2, <1>3, <1>5, <1>7 DEF Owned, PrefetchType
  <1>10. Owned \in 0..4 /\ Owned = IF Left >= 4 THEN 4 ELSE Left
    BY <1>1, <1>2, <1>7 DEF Ahead, Owned, PrefetchType
  <1>11. Left' = Left - f /\ Left \in Int
    BY <1>1, <1>3, <1>5 DEF Left, PrefetchType
  <1>12. i = 1 <=> f = 1 /\ Left >= 5
    <2>1. i = 1 <=> Owned - f < 4 /\ fetch_idx < active_count
      BY <1>1, <1>2, <1>3, <1>7, <1>8 DEF Owned, PrefetchType
    <2>2. fetch_idx = edge_index + Owned \/ (Left < 4 /\ fetch_idx >= active_count)
      BY <1>1 DEF InOrder
    <2>3. edge_index \in Nat /\ active_count \in Nat /\ fetch_idx \in Nat /\ Left = active_count - edge_index
      BY <1>1 DEF PrefetchType, Left
    <2> QED BY <2>1, <2>2, <2>3, <1>3, <1>10
  <1>13. Ahead'
    <2>1. edge_index' <= active_count'
      BY <1>1, <1>3, <1>4, <1>5 DEF Ahead, PrefetchType
    <2>2. Left >= 0 /\ (f = 1 => Left >= 1)
      BY <1>1, <1>4 DEF Ahead, Left, PrefetchType
    <2>3. Owned' = IF Left' >= 4 THEN 4 ELSE Left'
      BY <1>3, <1>9, <1>10, <1>11, <1>12, <2>2
    <2>4. pend'[1] = 1 => Owned' = 4
      BY <1>6, <1>9, <1>10, <1>11, <1>12
    <2>5. (pend'[2] = 1 => Owned' >= 3) /\ (pend'[3] = 1 => Owned' >= 2)
      BY <1>1, <1>3, <1>6, <1>9, <1>10 DEF Ahead
    <2> QED BY <2>1, <2>3, <2>4, <2>5 DEF Ahead
  <1>14. arm_nv' \in 0..4
    <2>1. arm_nv' \in Int /\ arm_nv' >= 0
      BY <1>1, <1>2, <1>3, <1>4, <1>5 DEF PrefetchType
    <2>2. Owned = arm_nv + pend[1] + pend[2] + pend[3] /\ Owned <= 4
      BY <1>1, <1>2, <1>7, <1>10 DEF Owned, PrefetchType
    <2>3. arm_nv' <= 4
      BY <2>2, <1>1, <1>2, <1>3, <1>5 DEF PrefetchType
    <2> QED BY <2>1, <2>3
  <1>15. Shifted \in [1..4 -> Nat] /\ \A k \in 1..(arm_nv - f) : Shifted[k] = edge_index + f + k - 1
    <2>1. CASE Fires
      <3>1. Shifted = [k \in 1..4 |-> arm[IF k < 4 THEN k + 1 ELSE k]]
        BY <2>1 DEF Shifted, FifoDepth, RdLat
      <3>2. f = 1
        BY <2>1 DEF f
      <3> QED BY <3>1, <3>2, <1>1, <1>4 DEF PrefetchType, InOrder
    <2>2. CASE ~Fires
      <3>1. Shifted = arm /\ f = 0
        BY <2>2 DEF Shifted, f
      <3> QED BY <3>1, <1>1 DEF PrefetchType, InOrder
    <2> QED BY <2>1, <2>2
  <1>16. PrefetchType'
    <2>1. arm' \in [1..4 -> Nat]
      BY <1>2, <1>5, <1>15
    <2>2. pend' \in [1..3 -> {0, 1}]
      BY <1>2, <1>3, <1>5
    <2>3. edge_index' \in Nat /\ active_count' \in Nat /\ fetch_idx' \in Nat /\ edge_raddr' \in Nat
      BY <1>1, <1>3, <1>5 DEF PrefetchType
    <2>4. edge_q' \in Nat \X Nat /\ image' \in Uploadable
      BY <1>1, <1>2 DEF PrefetchType
    <2> QED BY <2>1, <2>2, <2>3, <2>4, <1>14 DEF PrefetchType
  <1>17. InOrder'
    <2>1. \A k \in 1..arm_nv' : arm'[k] = edge_index' + k - 1
      <3> SUFFICES ASSUME NEW k \in 1..arm_nv' PROVE arm'[k] = edge_index' + k - 1
        OBVIOUS
      <3>1. CASE k <= arm_nv - f
        BY <3>1, <1>1, <1>2, <1>3, <1>4, <1>5, <1>14, <1>15 DEF PrefetchType
      <3>2. CASE k > arm_nv - f
        <4>1. pend[3] = 1 /\ k = arm_nv - f + 1
          BY <3>2, <1>1, <1>2, <1>3, <1>5, <1>14 DEF PrefetchType
        <4>2. arm'[k] = edge_q[2]
          BY <4>1, <1>5, <1>14, <1>15
        <4> QED BY <4>1, <4>2, <1>1, <1>3, <1>5 DEF InOrder, PrefetchType
      <3> QED BY <3>1, <3>2, <1>1, <1>3, <1>14 DEF PrefetchType
    <2>2. edge_q'[2] = edge_q[1] /\ edge_q'[1] = edge_raddr
      OBVIOUS
    <2>3. pend'[3] = 1 => edge_q'[2] = edge_index' + arm_nv'
      BY <2>2, <1>1, <1>2, <1>3, <1>5, <1>6 DEF InOrder, PrefetchType
    <2>4. pend'[2] = 1 => edge_q'[1] = edge_index' + arm_nv' + pend'[3]
      BY <2>2, <1>1, <1>2, <1>3, <1>5, <1>6 DEF InOrder, PrefetchType
    <2>5. pend'[1] = 1 => edge_raddr' = edge_index' + arm_nv' + pend'[3] + pend'[2]
      <3> SUFFICES ASSUME i = 1 PROVE edge_raddr' = edge_index' + arm_nv' + pend'[3] + pend'[2]
        BY <1>6
      <3>1. edge_raddr' = fetch_idx /\ fetch_idx = edge_index + Owned
        BY <1>1, <1>5, <1>12, <1>11 DEF InOrder
      <3>2. f = 1 /\ Owned = arm_nv + pend[1] + pend[2] + pend[3]
        BY <1>1, <1>2, <1>7, <1>12 DEF Owned, PrefetchType
      <3> QED BY <3>1, <3>2, <1>1, <1>2, <1>5, <1>6 DEF PrefetchType
    <2>6. fetch_idx' = edge_index' + Owned' \/ (Left' < 4 /\ fetch_idx' >= active_count')
      BY <1>1, <1>3, <1>5, <1>9, <1>10, <1>11 DEF InOrder, PrefetchType
    <2> QED BY <2>1, <2>3, <2>4, <2>5, <2>6 DEF InOrder
  <1>18. (active_count = Count)'
    BY <1>1, <1>5 DEF Count
  <1> QED BY <1>13, <1>16, <1>17, <1>18

-----------------------------------------------------------------------------
LEMMA PrefetchInit == Init => Prefetch
  BY DEF Init, Prefetch, PrefetchType, FifoDepth, RdLat, NoReads, Pipe

LEMMA PrefetchStep == Prefetch /\ [Next]_vars => Prefetch'
  <1> SUFFICES ASSUME Prefetch, [Next]_vars PROVE Prefetch'
    OBVIOUS
  <1> USE DEF Prefetch
  <1>0. Count \in Nat \ {0} /\ image.loop_start \in 1..Count
    BY ImageShape
  <1>1. CASE Fire
    <2>1. SeedFromEdge0(PointAt(0), Count) /\ active_count' = Count /\ image' = image
          /\ edge_q' \in Nat \X Nat /\ image \in Uploadable /\ ~reset'
      BY <1>1 DEF Fire, NewFrame, PrefetchType
    <2> QED BY <2>1, <1>0, FrameOwns
  <1>2. CASE Clock
    <2>0. ~reset'
      BY <1>2 DEF Clock
    <2>1. image' = image /\ edge_q' = <<edge_raddr, edge_q[1]>>
          /\ edge_q' \in Nat \X Nat /\ image \in Uploadable
      BY <1>2 DEF Clock, PrefetchType
    <2>2. CASE Rewind
      <3>1. image.loop_start \in Nat /\ image.loop_start <= Count /\ active_count = Count
        BY <1>0, <2>2 DEF Rewind
      <3>2. /\ Resident(image.loop_start - 1 + 1, Count)
            /\ edge_index' = image.loop_start - 1 + 1 /\ active_count' = Count
        BY <2>2, <3>1 DEF Rewind, RestartAt
      <3>3. image.loop_start - 1 + 1 = image.loop_start
        BY <3>1
      <3> QED BY <3>1, <3>2, <3>3, <2>0, <2>1, <1>0, SeedOwns
    <2>3. CASE NextPoint
      BY <2>0, <2>1, <2>3, <1>0, FrameOwns DEF NextPoint, NewFrame
    <2>4. CASE Repeat
      BY <2>0, <2>1, <2>4, <1>0, FrameOwns DEF Repeat, NewFrame
    <2>5. CASE Finish
      BY <2>0, <2>1, <2>5 DEF Finish, reads, PrefetchType
    <2>6. CASE Play
      BY <2>0, <2>1, <2>6, PlayOwns DEF Play
    <2>7. CASE Drain
      BY <2>0, <2>1, <2>7 DEF Drain, frame, reads, PrefetchType, InOrder, Ahead, Owned,
         Left, UnderWay, Count
    <2> QED BY <1>2, <2>0, <2>2, <2>3, <2>4, <2>5, <2>6, <2>7 DEF Clock
  <1>3. CASE Safe \/ PrepareHalts
    BY <1>3, SMTT(30) DEF Safe, PrepareHalts, EngineReset, PrefetchType, NoReads, Pipe, RdLat
  <1>4. CASE Upload
    BY <1>4 DEF Upload, frame, PrefetchType
  <1>5. CASE WaitSeesDone \/ WaitReturns \/ UNCHANGED vars
    <2>1. UNCHANGED <<image, reset, frame, reads, edge_q>>
      BY <1>5 DEF WaitSeesDone, WaitReturns, vars
    <2> QED
      BY <2>1 DEF frame, reads, PrefetchType, InOrder, Ahead, Owned, Left, UnderWay, Count
  <1> QED BY <1>1, <1>2, <1>3, <1>4, <1>5 DEF Next

LEMMA PrefetchSuffices == Prefetch => PrefetchKeepsUp
  <1> SUFFICES ASSUME Prefetch, running, edge_index < active_count
               PROVE  arm_nv > 0 /\ arm[1] = edge_index
    BY DEF PrefetchKeepsUp
  <1>1. PrefetchType /\ InOrder /\ Ahead
    BY DEF Prefetch
  <1>2. pend[1] \in {0, 1} /\ pend[2] \in {0, 1} /\ pend[3] \in {0, 1}
    BY <1>1 DEF PrefetchType
  <1>3. arm_nv > 0
    BY <1>1, <1>2 DEF PrefetchType, Ahead, Owned, Left, UnderWay
  <1> QED BY <1>1, <1>3 DEF InOrder, PrefetchType

(* Whatever the table, its brackets, points and repeats, the next edge is  *)
(* resident at the head of the engine's FIFO whenever one is left: no edge *)
(* waits for a BRAM read, and none is skipped.                             *)
THEOREM EdgesAlwaysResident == Spec => []PrefetchKeepsUp
  <1>1. Init => Prefetch
    BY PrefetchInit
  <1>2. Prefetch /\ [Next]_vars => Prefetch'
    BY PrefetchStep
  <1>3. Prefetch => PrefetchKeepsUp
    BY PrefetchSuffices
  <1> QED BY <1>1, <1>2, <1>3, PTL DEF Spec

-----------------------------------------------------------------------------
(* The DAC changes nothing of the edges: a step of an engine with its bus  *)
(* is a step of an engine.                                                 *)
LEMMA BusStepIsStep ==
  ASSUME [BusNext]_<<vars, busvars>>
  PROVE  [Next]_vars
  <1>1. CASE BusFire
    BY <1>1 DEF BusFire, Next
  <1>2. CASE BusClock
    BY <1>2 DEF BusClock, Next
  <1>3. CASE BusHalts
    BY <1>3 DEF BusHalts, Next
  <1>4. CASE Host
    BY <1>4 DEF Host, Next
  <1>5. CASE UNCHANGED <<vars, busvars>>
    BY <1>5
  <1> QED BY <1>1, <1>2, <1>3, <1>4, <1>5 DEF BusNext

(* Whatever the segments of the bus, its seams and its delay, the edges    *)
(* beside them are played as by the engine without: every run of BusPlayer *)
(* is one of EdgePlayer.                                                   *)
THEOREM BusLeavesEdges == BusSpec => Spec
  <1>1. BusInit => Init
    BY DEF BusInit
  <1>2. [BusNext]_<<vars, busvars>> => [Next]_vars
    BY BusStepIsStep
  <1> QED BY <1>1, <1>2, PTL DEF BusSpec, Spec

(* With a DAC beside it, too, the prefetch never falls behind.             *)
THEOREM EdgesResidentBesideBus == BusSpec => []PrefetchKeepsUp
  BY BusLeavesEdges, EdgesAlwaysResident, PTL
-----------------------------------------------------------------------------
(* The engine implements the combinational reference.                      *)

\* Every scanned frame outlasts the pre-read of the next point's slot value: a
\* tick more than the host asks for, and no less will do.
FramesOutlastRead ==
  \A p \in Uploadable : \A j \in DOMAIN p.points : Final(p, p.points[j]) > ScanReadLatency

\* A running frame has the slot value of its point, and its ends.
FrameHeld ==
  /\ point \in Nat /\ point + 1 \in DOMAIN Slots(image) /\ slot = Slots(image)[point + 1]
  /\ final_tick = Final(image, slot) /\ loop_end_active = LoopEnd(image, slot)

\* No edge that is left was due at an earlier tick.
OnTime ==
  /\ time_count \in Int /\ edge_index \in 1..Count
  /\ edge_index < Count => time_count <= Eff(image, edge_index + 1, slot)

\* The next point's address is in the BRAM's pipeline, and in the second stage
\* from the third tick on.
PreRead ==
  /\ scan_raddr = point + 1
  /\ time_count >= 2 => scan_q[1] = point + 1
  /\ time_count >= 3 => scan_q[2] = point + 1

InStep == running => FrameHeld /\ OnTime /\ PreRead

LEMMA ProgramShape ==
  ASSUME NEW p \in Uploadable
  PROVE  /\ p.tick \in Seq(Nat) /\ p.coef \in [1..Len(p.tick) -> Int]
         /\ Len(p.tick) \in Nat \ {0} /\ p.loop_start \in 1..Len(p.tick)
         /\ p.tick[1] = 0 /\ p.coef[1] = 0
         /\ p.loop_end \in Int /\ p.end_coef \in Int /\ p.loops \in Nat \ {0}
         /\ Slots(p) \in Seq(Int) /\ Len(Slots(p)) \in Nat \ {0}
         /\ p.points # <<>> => Slots(p) = p.points
         /\ \A j \in DOMAIN Slots(p) : PointFits(p, Slots(p)[j])
  <1>1. p \in Programs /\ Accepted(p)
    BY DEF Uploadable
  <1>2. p.tick \in Seq(Nat) /\ p.coef \in [DOMAIN p.tick -> Int]
        /\ p.loop_end \in Int /\ p.end_coef \in Int /\ p.points \in Seq(Int) /\ p.loops \in Int
    BY <1>1, PlayerAssumption
  <1>3. p.tick # <<>> /\ p.loop_start \in DOMAIN p.tick /\ p.tick[1] = 0 /\ p.coef[1] = 0
        /\ p.loops >= 1 /\ \A j \in DOMAIN Slots(p) : PointFits(p, Slots(p)[j])
    BY <1>1 DEF Accepted
  <1>4. Len(p.tick) \in Nat \ {0} /\ DOMAIN p.tick = 1..Len(p.tick)
    BY <1>2, <1>3
  <1>5. Slots(p) \in Seq(Int) /\ Len(Slots(p)) \in Nat \ {0}
    BY <1>2 DEF Slots
  <1>6. p.points # <<>> => Slots(p) = p.points
    BY DEF Slots
  <1>7. p.loops \in Nat \ {0}
    BY <1>2, <1>3
  <1> QED BY <1>2, <1>3, <1>4, <1>5, <1>6, <1>7

LEMMA DueInt ==
  ASSUME NEW p \in Uploadable, NEW s \in Int
  PROVE  /\ \A i \in 1..Len(p.tick) : Eff(p, i, s) \in Int
         /\ Eff(p, 1, s) = 0
         /\ Final(p, s) \in Int /\ LoopEnd(p, s) \in Int
  <1>1. \A b, c \in Int : ApplyScanTick(b, c, s) \in Int
    <2> SUFFICES ASSUME NEW b \in Int, NEW c \in Int PROVE ApplyScanTick(b, c, s) \in Int
      OBVIOUS
    <2>1. c * s \in Int
      OBVIOUS
    <2> DEFINE w == c * s
    <2> HIDE DEF w
    <2>2. w \div Fraction \in Int
      BY <2>1, ProgramAssumption DEF w
    <2> QED BY <2>2 DEF ApplyScanTick, w
  <1>2. \A i \in 1..Len(p.tick) : Eff(p, i, s) \in Int
    <2> SUFFICES ASSUME NEW i \in 1..Len(p.tick) PROVE Eff(p, i, s) \in Int
      OBVIOUS
    <2>1. p.tick[i] \in Int /\ p.coef[i] \in Int
      <3>1. p.tick \in Seq(Nat) /\ p.coef \in [1..Len(p.tick) -> Int]
        BY ProgramShape
      <3> QED BY <3>1
    <2> QED BY <2>1, <1>1 DEF Eff
  <1>3. Eff(p, 1, s) = 0
    <2>1. p.tick[1] = 0 /\ p.coef[1] = 0
      BY ProgramShape
    <2>2. 0 * s = 0
      OBVIOUS
    <2>3. 0 \div Fraction = 0
      BY ProgramAssumption
    <2> QED BY <2>1, <2>2, <2>3 DEF Eff, ApplyScanTick
  <1>4. Final(p, s) \in Int
    BY <1>2, ProgramShape DEF Final
  <1>5. LoopEnd(p, s) \in Int
    BY <1>1, ProgramShape DEF LoopEnd
  <1> QED BY <1>2, <1>3, <1>4, <1>5

(* Within a frame of one of its points a program's edges are due one after *)
(* the other.                                                              *)
LEMMA EdgesRise ==
  ASSUME NEW p \in Uploadable, NEW j \in DOMAIN Slots(p), NEW i \in 1..Len(p.tick), i < Len(p.tick)
  PROVE  Eff(p, i, Slots(p)[j]) + 1 <= Eff(p, i + 1, Slots(p)[j])
  <1>1. Len(p.tick) \in Nat /\ Slots(p)[j] \in Int /\ PointFits(p, Slots(p)[j])
    BY ProgramShape
  <1>2. Eff(p, i, Slots(p)[j]) < Eff(p, i + 1, Slots(p)[j])
    BY <1>1 DEF PointFits
  <1>3. i + 1 \in 1..Len(p.tick)
    BY <1>1
  <1>4. Eff(p, i, Slots(p)[j]) \in Int /\ Eff(p, i + 1, Slots(p)[j]) \in Int
    BY <1>1, <1>3, DueInt
  <1> QED BY <1>2, <1>4

(* What the engine finds in its BRAMs is what the program says.            *)
LEMMA BramHolds ==
  ASSUME image \in Uploadable, NEW s
  PROVE  /\ \A a \in 0..(Count - 1) : TickAt(a, s) = Eff(image, a + 1, s) /\ MaskAt(a) = image.mask[a + 1]
         /\ \A k \in DOMAIN Slots(image) : PointAt(k - 1) = Slots(image)[k]
  <1>1. Count \in Nat \ {0} /\ Slots(image) \in Seq(Int)
    BY ProgramShape DEF Count
  <1>2. \A a \in 0..(Count - 1) : TickAt(a, s) = Eff(image, a + 1, s) /\ MaskAt(a) = image.mask[a + 1]
    BY <1>1 DEF TickAt, MaskAt
  <1>3. \A k \in DOMAIN Slots(image) : PointAt(k - 1) = Slots(image)[k]
    <2> SUFFICES ASSUME NEW k \in DOMAIN Slots(image) PROVE PointAt(k - 1) = Slots(image)[k]
      OBVIOUS
    <2>1. k \in Nat /\ k <= Len(Slots(image)) /\ k - 1 < Len(Slots(image)) /\ k - 1 + 1 = k
      BY <1>1
    <2> QED BY <2>1 DEF PointAt
  <1> QED BY <1>2, <1>3
(* The reference computes ticks as the engine's host does.                 *)
LEMMA ReferenceTerms ==
  /\ \A p, i, s : Reference!Eff(p, i, s) = Eff(p, i, s)
  /\ \A p, s : Reference!Final(p, s) = Final(p, s) /\ Reference!LoopEnd(p, s) = LoopEnd(p, s)
  /\ Reference!Count = Count /\ Reference!Points = Slots(image)
  <1>1. \A b, c, s : Reference!ApplyScanTick(b, c, s) = ApplyScanTick(b, c, s)
    BY DEF Reference!ApplyScanTick, ApplyScanTick
  <1>2. \A p, i, s : Reference!Eff(p, i, s) = Eff(p, i, s)
    BY <1>1 DEF Reference!Eff, Eff
  <1>3. \A p, s : Reference!Final(p, s) = Final(p, s) /\ Reference!LoopEnd(p, s) = LoopEnd(p, s)
    BY <1>1, <1>2 DEF Reference!Final, Final, Reference!LoopEnd, LoopEnd
  <1>4. Reference!Count = Count /\ Reference!Points = Slots(image)
    BY DEF Reference!Count, Count, Reference!Points, Reference!Slots, Slots
  <1> QED BY <1>2, <1>3, <1>4

(* A frame that begins with its point's slot value is the reference's.     *)
LEMMA FrameBegins ==
  ASSUME image \in Uploadable, image' = image,
         NEW k \in DOMAIN Slots(image), NewFrame(Slots(image)[k], Count),
         point' = k - 1, loops_remaining' = image.loops
  PROVE  Reference!Frame(k - 1) /\ FrameHeld' /\ OnTime' /\ time_count' = 1
  <1> DEFINE s == Slots(image)[k]
  <1>1. Count \in Nat \ {0} /\ s \in Int /\ k - 1 + 1 = k /\ k \in Nat
    BY ProgramShape DEF Count
  <1>2. \A i \in 1..Count : Eff(image, i, s) \in Int
    BY <1>1, DueInt DEF Count
  <1>3. Eff(image, 1, s) = 0
    BY <1>1, DueInt
  <1>4. TickAt(0, s) = 0 /\ MaskAt(0) = image.mask[1] /\ TickAt(Count - 1, s) = Final(image, s)
    <2>1. 0 \in 0..(Count - 1) /\ Count - 1 \in 0..(Count - 1) /\ 0 + 1 = 1 /\ Count - 1 + 1 = Count
      BY <1>1
    <2>2. TickAt(0, s) = Eff(image, 0 + 1, s) /\ MaskAt(0) = image.mask[0 + 1]
          /\ TickAt(Count - 1, s) = Eff(image, Count - 1 + 1, s)
      BY <2>1, BramHolds
    <2> QED BY <2>1, <2>2, <1>3 DEF Final, Count
  <1>5. slot' = s /\ final_tick' = Final(image, s) /\ loop_end_active' = LoopEnd(image, s)
        /\ state_mask' = image.mask[1] /\ time_count' = 1 /\ edge_index' = 1
    BY <1>1, <1>4 DEF NewFrame, SeedFromEdge0, RestartAt
  <1>6. Reference!Points = Slots(image)
    BY ReferenceTerms
  <1>7. Reference!Frame(k - 1)
    <2>1. slot' = Reference!Points[k - 1 + 1]
      BY <1>1, <1>5, <1>6
    <2>2. Reference!Output(0, slot')
      BY <1>3, <1>5, ReferenceTerms DEF Reference!Output
    <2>3. Eff(image, 1, slot') = 0
      BY <1>3, <1>5
    <2> QED BY <2>1, <2>2, <2>3, ReferenceTerms DEF Reference!Frame
  <1>8. FrameHeld'
    <2>1. point' + 1 = k /\ point' \in Nat
      <3>1. k \in 1..Len(Slots(image))
        BY ProgramShape
      <3> QED BY <1>1, <3>1
    <2> QED BY <1>5, <2>1 DEF FrameHeld
  <1>9. OnTime'
    <2>1. CASE Count = 1
      BY <1>1, <1>5, <2>1 DEF OnTime, Count
    <2>2. CASE Count # 1
      <3>1. 1 \in 1..Count /\ 1 < Count
        BY <1>1, <2>2
      <3>2. Eff(image, 1, s) + 1 <= Eff(image, 1 + 1, s)
        BY <3>1, EdgesRise DEF Count
      <3>3. 1 <= Eff(image, 2, s)
        BY <3>2, <1>3
      <3> QED BY <1>1, <1>5, <3>3 DEF OnTime, Count
    <2> QED BY <2>1, <2>2
  <1> QED BY <1>5, <1>7, <1>8, <1>9

(* So is the bracket's jump back: the edge it restarts at is its first,    *)
(* and it goes no later than where the engine is.                          *)
LEMMA RewindJumps ==
  ASSUME Prefetch, InStep, Rewind, image' = image
  PROVE  Reference!Rewind /\ FrameHeld' /\ OnTime' /\ time_count' <= time_count /\ time_count' \in Int
  <1>0. image \in Uploadable /\ running /\ FrameHeld /\ OnTime /\ active_count = Count
    BY DEF Prefetch, PrefetchType, InStep, Rewind
  <1> DEFINE a == image.loop_start
             j == point + 1
  <1>1. Count \in Nat \ {0} /\ a \in 1..Count /\ j \in DOMAIN Slots(image)
        /\ slot = Slots(image)[j] /\ PointFits(image, slot)
    BY <1>0, ProgramShape DEF Count, FrameHeld
  <1>2. slot \in Int
    BY <1>0, <1>1, ProgramShape
  <1>3. Eff(image, a, slot) \in Int /\ LoopEnd(image, slot) \in Int
    BY <1>0, <1>1, <1>2, DueInt DEF Count
  <1>4. image.loops > 1 /\ loops_remaining > 1 /\ time_count >= LoopEnd(image, slot)
    BY <1>0 DEF Rewind, AtLoopEnd, FrameHeld
  <1>5. TickAt(a - 1, slot) = Eff(image, a, slot) /\ MaskAt(a - 1) = image.mask[a]
    <2>1. a - 1 \in 0..(Count - 1) /\ a - 1 + 1 = a
      BY <1>1
    <2> QED BY <2>1, <1>0, BramHolds
  <1>6. state_mask' = image.mask[a] /\ time_count' = Eff(image, a, slot) + 1 /\ edge_index' = a
    <2>1. a - 1 + 1 = a
      BY <1>1
    <2>2. state_mask' = MaskAt(a - 1) /\ time_count' = TickAt(a - 1, slot) + 1 /\ edge_index' = a - 1 + 1
      BY DEF Rewind, RestartAt
    <2> QED BY <1>5, <2>1, <2>2
  <1>7. UNCHANGED <<running, slot, point, final_tick, loop_end_active>> /\ loops_remaining' = loops_remaining - 1
    BY DEF Rewind, scan
  <1>8. Reference!Rewind
    <2>1. Reference!AtLoopEnd
      BY <1>4, ReferenceTerms DEF Reference!AtLoopEnd
    <2>2. a - 1 + 1 = a
      BY <1>1
    <2>3. Reference!Output(a - 1, slot)
      BY <1>6, <2>2, ReferenceTerms DEF Reference!Output
    <2> QED BY <1>0, <1>7, <2>1, <2>3 DEF Reference!Rewind
  <1>9. FrameHeld'
    BY <1>0, <1>7 DEF FrameHeld
  <1>10. time_count' <= time_count /\ time_count' \in Int
    <2>1. Eff(image, a, slot) < LoopEnd(image, slot)
      BY <1>1, <1>4 DEF PointFits
    <2> QED BY <2>1, <1>0, <1>3, <1>4, <1>6 DEF OnTime
  <1>11. OnTime'
    <2>1. a < Count => Eff(image, a, slot) + 1 <= Eff(image, a + 1, slot)
      BY <1>0, <1>1, EdgesRise DEF Count
    <2> QED BY <1>1, <1>6, <1>7, <1>10, <2>1 DEF OnTime, Count
  <1> QED BY <1>8, <1>9, <1>10, <1>11

(* Between seams an edge fires when it is due in the reference: the one at *)
(* the head is the next one, and its tick is not past.                     *)
LEMMA PlayTicks ==
  ASSUME Prefetch, InStep, Play, image' = image
  PROVE  Reference!Tick /\ FrameHeld' /\ OnTime' /\ time_count' = time_count + 1
  <1>0. image \in Uploadable /\ running /\ FrameHeld /\ OnTime /\ active_count = Count /\ PrefetchKeepsUp
    BY PrefetchSuffices DEF Prefetch, PrefetchType, InStep, Play
  <1>1. Count \in Nat \ {0} /\ edge_index \in 1..Count /\ time_count \in Int
        /\ point \in Nat /\ point + 1 \in DOMAIN Slots(image) /\ slot = Slots(image)[point + 1]
    BY <1>0, ProgramShape DEF Count, FrameHeld, OnTime
  <1>2. slot \in Int
    BY <1>0, <1>1, ProgramShape
  <1>3. \A i \in 1..Count : Eff(image, i, slot) \in Int
    BY <1>0, <1>2, DueInt DEF Count
  <1>4. ASSUME edge_index < Count
        PROVE  /\ arm_nv > 0 /\ arm[1] = edge_index
               /\ TickAt(arm[1], slot) = Eff(image, edge_index + 1, slot)
               /\ MaskAt(arm[1]) = image.mask[edge_index + 1]
               /\ time_count <= Eff(image, edge_index + 1, slot)
               /\ Eff(image, edge_index + 1, slot) \in Int
    <2>1. arm_nv > 0 /\ arm[1] = edge_index
      BY <1>0, <1>4 DEF PrefetchKeepsUp
    <2>2. edge_index \in 0..(Count - 1) /\ edge_index + 1 \in 1..Count
      BY <1>1, <1>4
    <2>3. TickAt(arm[1], slot) = Eff(image, edge_index + 1, slot)
          /\ MaskAt(arm[1]) = image.mask[edge_index + 1]
      BY <1>0, <2>1, <2>2, BramHolds
    <2>4. time_count <= Eff(image, edge_index + 1, slot)
      BY <1>0, <1>4 DEF OnTime
    <2> QED BY <2>1, <2>2, <2>3, <2>4, <1>3
  <1>5. Fires <=> Reference!Due
    <2>1. CASE edge_index < Count
      <3>1. arm_nv # 0
        BY <1>4, <2>1
      <3>2. Fires <=> time_count >= Eff(image, edge_index + 1, slot)
        BY <1>0, <1>4, <2>1, <3>1 DEF Fires
      <3>3. Reference!Due <=> time_count = Eff(image, edge_index + 1, slot)
        BY <2>1, ReferenceTerms DEF Reference!Due
      <3> QED BY <1>1, <1>4, <2>1, <3>2, <3>3
    <2>2. CASE ~(edge_index < Count)
      BY <1>0, <2>2, ReferenceTerms DEF Fires, Reference!Due
    <2> QED BY <2>1, <2>2
  <1>6. Fires => edge_index < Count /\ MaskAt(arm[1]) = image.mask[edge_index + 1]
    <2>1. Fires => edge_index < Count
      BY <1>0 DEF Fires
    <2> QED BY <2>1, <1>4
  <1>7. /\ state_mask' = IF Reference!Due THEN image.mask[edge_index + 1] ELSE state_mask
        /\ edge_index' = IF Reference!Due THEN edge_index + 1 ELSE edge_index
        /\ time_count' = time_count + 1
        /\ UNCHANGED <<running, slot, point, final_tick, loop_end_active, loops_remaining>>
    <2>1. /\ state_mask' = IF Fires THEN MaskAt(arm[1]) ELSE state_mask
          /\ edge_index' = IF Fires THEN edge_index + 1 ELSE edge_index
          /\ time_count' = time_count + 1
          /\ UNCHANGED <<running, slot, point, final_tick, loop_end_active, loops_remaining>>
      BY DEF Play, scan
    <2> QED BY <2>1, <1>5, <1>6
  <1>8. Reference!Tick
    <2>1. ~Reference!AtLoopEnd /\ ~Reference!AtFrameEnd
      <3>1. Reference!AtLoopEnd <=> AtLoopEnd
        BY <1>0, ReferenceTerms DEF Reference!AtLoopEnd, AtLoopEnd, FrameHeld
      <3>2. Reference!AtFrameEnd <=> AtFrameEnd
        BY <1>0, <3>1, ReferenceTerms DEF Reference!AtFrameEnd, AtFrameEnd, FrameHeld
      <3> QED BY <3>1, <3>2 DEF Play
    <2> QED BY <1>0, <1>7, <2>1 DEF Reference!Tick
  <1>9. FrameHeld'
    BY <1>0, <1>7 DEF FrameHeld
  <1>10. OnTime'
    <2>1. Count' = Count
      BY DEF Count
    <2>2. CASE Fires
      <3>1. edge_index < Count /\ edge_index' = edge_index + 1 /\ time_count = Eff(image, edge_index + 1, slot)
        BY <2>2, <1>5, <1>6, <1>7, ReferenceTerms DEF Reference!Due
      <3>2. edge_index + 1 \in 1..Count
        BY <1>1, <3>1
      <3>3. edge_index + 1 < Count =>
              Eff(image, edge_index + 1, slot) + 1 <= Eff(image, edge_index + 1 + 1, slot)
        BY <1>0, <1>1, <3>2, EdgesRise DEF Count
      <3> QED BY <1>1, <1>7, <2>1, <3>1, <3>2, <3>3 DEF OnTime
    <2>3. CASE ~Fires
      <3>1. edge_index' = edge_index
        BY <2>3, <1>5, <1>7
      <3>2. edge_index < Count => time_count < Eff(image, edge_index + 1, slot)
        BY <2>3, <1>1, <1>4, <1>5, ReferenceTerms DEF Reference!Due
      <3>3. edge_index < Count => time_count + 1 <= Eff(image, edge_index + 1, slot)
        BY <3>2, <1>1, <1>4
      <3> QED BY <1>1, <1>7, <2>1, <3>1, <3>3 DEF OnTime
    <2> QED BY <2>2, <2>3
  <1> QED BY <1>7, <1>8, <1>9, <1>10
(* What a tick does to the pre-read.                                       *)
LEMMA ReadsAhead ==
  ASSUME NEW t \in Int, point' = point, scan_raddr' = scan_raddr, PreRead,
         time_count' = t, time_count \in Int, t <= time_count + 1,
         scan_q' = <<scan_raddr, scan_q[1]>>
  PROVE  PreRead'
  <1>1. scan_q'[1] = point + 1
    BY DEF PreRead
  <1>2. t >= 3 => scan_q'[2] = point + 1
    BY DEF PreRead
  <1> QED BY <1>1, <1>2 DEF PreRead

(* Every tick of a running engine is the reference's, seams included.      *)
LEMMA ClockPlays ==
  ASSUME FramesOutlastRead, Prefetch, InStep, Clock
  PROVE  /\ \/ Reference!Rewind \/ Reference!NextPoint \/ Reference!Repeat \/ Reference!Finish \/ Reference!Tick
            \/ ~running /\ UNCHANGED Reference!vars
         /\ InStep'
  <1>0. image \in Uploadable /\ image' = image /\ scan_q' = <<scan_raddr, scan_q[1]>>
        /\ (running => active_count = Count)
    BY DEF Clock, Prefetch, PrefetchType
  <1>1. CASE Rewind
    <2>1. running /\ OnTime /\ PreRead
      BY <1>1 DEF Rewind, InStep
    <2>2. Reference!Rewind /\ FrameHeld' /\ OnTime' /\ time_count' <= time_count /\ time_count' \in Int
      BY <1>0, <1>1, RewindJumps
    <2>3. point' = point /\ scan_raddr' = scan_raddr
      BY <1>1 DEF Rewind, scan
    <2>4. PreRead'
      BY <1>0, <2>1, <2>2, <2>3, ReadsAhead DEF OnTime
    <2> QED BY <2>2, <2>4 DEF InStep
  <1>2. CASE NextPoint
    <2>1. running /\ FrameHeld /\ OnTime /\ PreRead /\ AtFrameEnd /\ MorePoints
      BY <1>2 DEF NextPoint, InStep
    <2>2. Slots(image) = image.points /\ Slots(image) \in Seq(Int)
      BY <1>0, <2>1, ProgramShape DEF MorePoints
    <2>3. point + 1 \in DOMAIN image.points /\ point + 2 \in DOMAIN Slots(image) /\ point \in Nat
      <3>1. point \in Nat /\ point + 1 < Len(image.points) /\ image.points \in Seq(Int)
        BY <2>1, <2>2 DEF MorePoints, FrameHeld
      <3> QED BY <2>2, <3>1
    <2>4. Final(image, slot) > 2 /\ Final(image, slot) \in Int
      <3>1. slot = image.points[point + 1] /\ slot \in Int
        BY <2>1, <2>2, <2>3 DEF FrameHeld
      <3> QED BY <1>0, <2>3, <3>1, DueInt DEF FramesOutlastRead, ScanReadLatency
    <2>5. time_count >= 3
      BY <2>1, <2>4 DEF AtFrameEnd, FrameHeld, OnTime
    <2>6. scan_q[2] = point + 1
      BY <2>1, <2>5 DEF PreRead
    <2>7. PointAt(point + 1) = Slots(image)[point + 2]
      <3>1. point + 2 - 1 = point + 1
        BY <2>3
      <3> QED BY <1>0, <2>3, <3>1, BramHolds
    <2>8. NewFrame(Slots(image)[point + 2], Count) /\ point' = point + 2 - 1 /\ loops_remaining' = image.loops
      BY <1>0, <1>2, <2>1, <2>3, <2>6, <2>7 DEF NextPoint, RdLat
    <2>9. Reference!Frame(point + 2 - 1) /\ FrameHeld' /\ OnTime' /\ time_count' = 1
      BY <1>0, <2>3, <2>8, FrameBegins
    <2>10. PreRead'
      BY <1>2, <2>3, <2>9 DEF NextPoint, PreRead
    <2>11. Reference!NextPoint
      <3>1. Reference!AtFrameEnd /\ Reference!MorePoints
        BY <2>1, ReferenceTerms
        DEF Reference!AtFrameEnd, Reference!AtLoopEnd, AtFrameEnd, AtLoopEnd, FrameHeld,
            Reference!MorePoints, MorePoints
      <3>2. Reference!Frame(point + 1)
        <4>1. point + 2 - 1 = point + 1
          BY <2>3
        <4> QED BY <2>9, <4>1
      <3> QED BY <1>0, <1>2, <2>1, <3>1, <3>2 DEF NextPoint, Reference!NextPoint
    <2> QED BY <2>9, <2>10, <2>11 DEF InStep
  <1>3. CASE Repeat
    <2>1. running /\ FrameHeld /\ AtFrameEnd /\ ~MorePoints /\ image.forever
      BY <1>3 DEF Repeat, InStep
    <2>2. 1 \in DOMAIN Slots(image) /\ 1 - 1 = 0
      BY <1>0, ProgramShape
    <2>3. PointAt(0) = Slots(image)[1]
      BY <1>0, <2>2, BramHolds
    <2>4. NewFrame(Slots(image)[1], Count) /\ point' = 1 - 1 /\ loops_remaining' = image.loops
      BY <1>0, <1>3, <2>1, <2>2, <2>3 DEF Repeat
    <2>5. Reference!Frame(1 - 1) /\ FrameHeld' /\ OnTime' /\ time_count' = 1
      BY <1>0, <2>2, <2>4, FrameBegins
    <2>6. PreRead'
      BY <1>3, <2>5 DEF Repeat, PreRead
    <2>7. Reference!Repeat
      <3>1. Reference!AtFrameEnd /\ ~Reference!MorePoints
        BY <2>1, ReferenceTerms
        DEF Reference!AtFrameEnd, Reference!AtLoopEnd, AtFrameEnd, AtLoopEnd, FrameHeld,
            Reference!MorePoints, MorePoints
      <3>2. Reference!Frame(0)
        BY <2>2, <2>5
      <3> QED BY <1>0, <1>3, <2>1, <3>1, <3>2 DEF Repeat, Reference!Repeat
    <2> QED BY <2>5, <2>6, <2>7 DEF InStep
  <1>4. CASE Finish
    <2>1. running /\ FrameHeld /\ AtFrameEnd /\ ~MorePoints /\ ~image.forever
      BY <1>4 DEF Finish, InStep
    <2>2. Reference!AtFrameEnd /\ ~Reference!MorePoints
      BY <2>1, ReferenceTerms
      DEF Reference!AtFrameEnd, Reference!AtLoopEnd, AtFrameEnd, AtLoopEnd, FrameHeld,
          Reference!MorePoints, MorePoints
    <2>3. Reference!Finish
      BY <1>0, <1>4, <2>1, <2>2 DEF Finish, scan, Reference!Finish
    <2> QED BY <1>4, <2>3 DEF Finish, InStep
  <1>5. CASE Play
    <2>1. running /\ OnTime /\ PreRead
      BY <1>5 DEF Play, InStep
    <2>2. Reference!Tick /\ FrameHeld' /\ OnTime' /\ time_count' = time_count + 1
      BY <1>0, <1>5, PlayTicks
    <2>3. point' = point /\ scan_raddr' = scan_raddr
      BY <1>5 DEF Play, scan
    <2>4. PreRead'
      BY <1>0, <2>1, <2>2, <2>3, ReadsAhead DEF OnTime
    <2> QED BY <2>2, <2>4 DEF InStep
  <1>6. CASE Drain
    <2>1. ~running /\ ~running' /\ UNCHANGED Reference!vars
      BY <1>0, <1>6 DEF Drain, frame, scan, Reference!vars
    <2> QED BY <2>1 DEF InStep
  <1> QED BY <1>1, <1>2, <1>3, <1>4, <1>5, <1>6 DEF Clock

LEMMA ClockImplements ==
  ASSUME FramesOutlastRead, Prefetch, InStep, Clock
  PROVE  [Reference!Next]_(Reference!vars) /\ InStep'
  BY ClockPlays DEF Reference!Next

LEMMA StepImplements ==
  ASSUME FramesOutlastRead, Prefetch, InStep, [Next]_vars
  PROVE  [Reference!Next]_(Reference!vars) /\ InStep'
  <1>0. image \in Uploadable /\ (reset => ~running)
    BY DEF Prefetch, PrefetchType
  <1>1. CASE Fire
    <2>1. 1 \in DOMAIN Slots(image) /\ 1 - 1 = 0 /\ Count \in Nat \ {0}
      BY <1>0, ProgramShape DEF Count
    <2>2. PointAt(0) = Slots(image)[1]
      BY <1>0, <2>1, BramHolds
    <2>3. /\ NewFrame(Slots(image)[1], Count) /\ point' = 1 - 1 /\ loops_remaining' = image.loops
          /\ image' = image /\ scan_raddr' = 1 /\ ~running /\ running' = TRUE
      BY <1>0, <1>1, <2>1, <2>2 DEF Fire
    <2>4. Reference!Frame(1 - 1) /\ FrameHeld' /\ OnTime' /\ time_count' = 1
      BY <1>0, <2>1, <2>3, FrameBegins
    <2>5. PreRead'
      BY <2>1, <2>3, <2>4 DEF PreRead
    <2>6. Reference!Start
      BY <2>1, <2>3, <2>4 DEF Reference!Start
    <2> QED BY <2>4, <2>5, <2>6 DEF InStep, Reference!Next
  <1>2. CASE Clock
    BY <1>2, ClockImplements
  <1>3. CASE Safe \/ PrepareHalts
    <2>1. Reference!Stop /\ ~running'
      BY <1>3 DEF Safe, PrepareHalts, EngineReset, scan, Reference!Stop
    <2> QED BY <2>1 DEF InStep, Reference!Next
  <1>4. CASE Upload
    <2>1. Reference!Load /\ ~running'
      BY <1>0, <1>4 DEF Upload, frame, Reference!Load
    <2> QED BY <2>1 DEF InStep, Reference!Next
  <1>5. CASE WaitSeesDone \/ WaitReturns \/ UNCHANGED vars
    <2>1. UNCHANGED <<image, frame, scan_q, scan, loops_remaining>>
      BY <1>5 DEF WaitSeesDone, WaitReturns, vars
    <2>2. UNCHANGED Reference!vars
      BY <2>1 DEF frame, scan, Reference!vars
    <2>3. InStep'
      BY <2>1 DEF frame, scan, InStep, FrameHeld, OnTime, PreRead, Count
    <2> QED BY <2>2, <2>3
  <1> QED BY <1>1, <1>2, <1>3, <1>4, <1>5 DEF Next

(* Whatever the program, as long as its scanned frames outlast the         *)
(* pre-read, the engine with its FIFO of resident edges and its registered *)
(* pre-reads plays it tick for tick as the reference does that has every   *)
(* edge and every scan point at hand: no edge fires late, none twice, and  *)
(* every frame has its own point's slot value.                             *)
THEOREM EnginePlaysReference == FramesOutlastRead => (Spec => ImplementsReference)
  <1> SUFFICES ASSUME FramesOutlastRead PROVE Spec => Reference!Spec
    BY DEF ImplementsReference
  <1>1. Init => Reference!Init /\ InStep
    BY DEF Init, Reference!Init, InStep
  <1>2. Prefetch /\ InStep /\ [Next]_vars => [Reference!Next]_(Reference!vars) /\ InStep'
    BY StepImplements
  <1>3. Init => Prefetch
    BY PrefetchInit
  <1>4. Prefetch /\ [Next]_vars => Prefetch'
    BY PrefetchStep
  <1> QED BY <1>1, <1>2, <1>3, <1>4, PTL DEF Spec, Reference!Spec

(* So does the engine with a DAC.                                          *)
THEOREM BusPlaysReference == FramesOutlastRead => (BusSpec => ImplementsReference)
  BY BusLeavesEdges, EnginePlaysReference, PTL

-----------------------------------------------------------------------------
(* The engine plays the host's schedule.                                   *)

(* Induction over the numbers in a set.                                    *)
LEMMA Induct ==
  ASSUME NEW S \in SUBSET Nat, 0 \in S, \A n \in S : n + 1 \in S
  PROVE  S = Nat
  <1> DEFINE R == OpToRel(<, Nat)
             T == Nat \ S
  <1>1. \A a, b \in Nat : a < b => <<a, b>> \in R
    BY DEF OpToRel
  <1>2. IsWellFoundedOn(R, Nat)
    BY NatLessThanWellFounded
  <1> HIDE DEF R
  <1>3. SUFFICES ASSUME T # {} PROVE FALSE
    OBVIOUS
  <1>4. PICK m \in T : \A n \in T : ~(<<n, m>> \in R)
    BY <1>2, <1>3, WFMin
  <1>5. m # 0 /\ m - 1 \in Nat /\ m - 1 < m /\ m - 1 + 1 = m
    OBVIOUS
  <1>6. m - 1 \in S
    BY <1>1, <1>4, <1>5
  <1> QED BY <1>5, <1>6

-----------------------------------------------------------------------------
(* What a list of events shows at a tick.                                  *)

\* The last event of E that is due by tick u has mask m.
Shows(E, m, u) ==
  \E i \in 1..Len(E) :
    /\ E[i].mask = m /\ E[i].at <= u
    /\ \A k \in 1..Len(E) : k > i => E[k].at > u

\* All of E is due after tick u.
After(E, u) == \A k \in 1..Len(E) : E[k].at > u

(* What one list shows the list joined to another does, unless that has an *)
(* event that is due.                                                      *)
LEMMA JoinShows ==
  ASSUME NEW S, NEW a \in Seq(S), NEW b \in Seq(S), NEW m, NEW u
  PROVE  /\ a \o b \in Seq(S)
         /\ Shows(b, m, u) => Shows(a \o b, m, u)
         /\ Shows(a, m, u) /\ After(b, u) => Shows(a \o b, m, u)
         /\ After(a, u) /\ After(b, u) => After(a \o b, u)
  <1> DEFINE E == a \o b
  <1>1. Len(a) \in Nat /\ Len(b) \in Nat /\ Len(E) = Len(a) + Len(b) /\ E \in Seq(S)
    OBVIOUS
  <1>2. \A i \in 1..Len(a) : i \in 1..Len(E) /\ E[i] = a[i]
    BY <1>1
  <1>3. \A i \in 1..Len(b) : Len(a) + i \in 1..Len(E) /\ E[Len(a) + i] = b[i]
    BY <1>1
  <1>4. \A i \in 1..Len(E) : i \in 1..Len(a) \/ (i - Len(a) \in 1..Len(b) /\ Len(a) + (i - Len(a)) = i)
    BY <1>1
  <1> HIDE DEF E
  <1>5. \A i \in 1..Len(E) : i > Len(a) => i - Len(a) \in 1..Len(b) /\ E[i] = b[i - Len(a)]
    BY <1>1, <1>3, <1>4
  <1>6. Shows(b, m, u) => Shows(E, m, u)
    <2> SUFFICES ASSUME Shows(b, m, u) PROVE Shows(E, m, u)
      OBVIOUS
    <2>1. PICK i \in 1..Len(b) : /\ b[i].mask = m /\ b[i].at <= u
                                 /\ \A k \in 1..Len(b) : k > i => b[k].at > u
      BY DEF Shows
    <2>2. ASSUME NEW k \in 1..Len(E), k > Len(a) + i PROVE E[k].at > u
      <3>1. k > Len(a) /\ k - Len(a) > i
        BY <2>2, <1>1
      <3> QED BY <3>1, <2>1, <1>5
    <2>3. Len(a) + i \in 1..Len(E) /\ E[Len(a) + i] = b[i]
      BY <1>3
    <2> QED BY <2>1, <2>2, <2>3 DEF Shows
  <1>7. Shows(a, m, u) /\ After(b, u) => Shows(E, m, u)
    <2> SUFFICES ASSUME Shows(a, m, u), After(b, u) PROVE Shows(E, m, u)
      OBVIOUS
    <2>1. PICK i \in 1..Len(a) : /\ a[i].mask = m /\ a[i].at <= u
                                 /\ \A k \in 1..Len(a) : k > i => a[k].at > u
      BY DEF Shows
    <2>2. ASSUME NEW k \in 1..Len(E), k > i PROVE E[k].at > u
      <3>1. CASE k \in 1..Len(a)
        BY <3>1, <2>1, <2>2, <1>2
      <3>2. CASE k > Len(a)
        BY <3>2, <1>5 DEF After
      <3> QED BY <3>1, <3>2, <1>1
    <2>3. i \in 1..Len(E) /\ E[i] = a[i]
      BY <1>2
    <2> QED BY <2>1, <2>2, <2>3 DEF Shows
  <1>8. After(a, u) /\ After(b, u) => After(E, u)
    <2> SUFFICES ASSUME After(a, u), After(b, u), NEW k \in 1..Len(E) PROVE E[k].at > u
      BY DEF After
    <2>1. CASE k \in 1..Len(a)
      BY <2>1, <1>2 DEF After
    <2>2. CASE k > Len(a)
      BY <2>2, <1>5 DEF After
    <2> QED BY <2>1, <2>2, <1>1
  <1> QED BY <1>1, <1>6, <1>7, <1>8 DEF E

(* A flattened sequence, list by list.                                     *)
LEMMA FlattenUnfolds ==
  ASSUME NEW S, NEW ss \in Seq(Seq(S)), ss # <<>>
  PROVE  \E f : /\ FlattenSeq(ss) = f[Len(ss)] /\ f[1] = ss[1]
                /\ \A i \in 2..Len(ss) : f[i] = f[i - 1] \o ss[i]
  <1> DEFINE n == Len(ss)
             T == {k \in Nat : \E u : u = [i \in 1..(k + 1) |-> IF i = 1 THEN ss[i]
                                                                ELSE u[i - 1] \o ss[i]]}
             F == CHOOSE u : u = [i \in 1..n |-> IF i = 1 THEN ss[i] ELSE u[i - 1] \o ss[i]]
  <1>0. n \in Nat /\ n # 0
    OBVIOUS
  <1>1. 0 \in T
    <2> DEFINE u == [i \in 1..(0 + 1) |-> ss[1]]
    <2>1. u = [i \in 1..(0 + 1) |-> IF i = 1 THEN ss[i] ELSE u[i - 1] \o ss[i]]
      OBVIOUS
    <2> QED BY <2>1
  <1>2. ASSUME NEW k \in T PROVE k + 1 \in T
    <2>1. k \in Nat /\ k + 1 \in Nat
      OBVIOUS
    <2>2. PICK u : u = [i \in 1..(k + 1) |-> IF i = 1 THEN ss[i] ELSE u[i - 1] \o ss[i]]
      OBVIOUS
    <2> DEFINE g == [i \in 1..(k + 1 + 1) |-> IF i <= k + 1 THEN u[i] ELSE u[k + 1] \o ss[k + 2]]
    <2>3. \A i \in 1..(k + 1 + 1) : g[i] = IF i = 1 THEN ss[i] ELSE g[i - 1] \o ss[i]
      <3> SUFFICES ASSUME NEW i \in 1..(k + 1 + 1)
                   PROVE  g[i] = IF i = 1 THEN ss[i] ELSE g[i - 1] \o ss[i]
        OBVIOUS
      <3>1. CASE i = 1
        <4>1. g[i] = u[i] /\ i \in 1..(k + 1)
          BY <3>1, <2>1
        <4>2. u[i] = ss[i]
          BY <4>1, <3>1, <2>2
        <4> QED BY <4>1, <4>2, <3>1
      <3>2. CASE i # 1 /\ i <= k + 1
        <4>1. g[i] = u[i] /\ i \in 1..(k + 1) /\ i - 1 \in 1..(k + 1) /\ i - 1 <= k + 1
              /\ i - 1 \in 1..(k + 1 + 1)
          BY <3>2, <2>1
        <4>2. u[i] = u[i - 1] \o ss[i]
          BY <4>1, <3>2, <2>2
        <4>3. g[i - 1] = u[i - 1]
          BY <4>1
        <4> HIDE DEF g
        <4> QED BY <4>1, <4>2, <4>3, <3>2
      <3>3. CASE i = k + 2
        <4>0. i - 1 = k + 1 /\ i # 1 /\ k + 1 \in 1..(k + 1 + 1) /\ k + 1 <= k + 1 /\ ~(i <= k + 1)
          BY <3>3, <2>1
        <4>1. g[i] = u[k + 1] \o ss[k + 2]
          BY <4>0
        <4>2. g[k + 1] = u[k + 1]
          BY <4>0
        <4> HIDE DEF g
        <4> QED BY <4>0, <4>1, <4>2, <3>3
      <3> QED BY <3>1, <3>2, <3>3, <2>1
    <2>4. g = [i \in 1..(k + 1 + 1) |-> IF i = 1 THEN ss[i] ELSE g[i - 1] \o ss[i]]
      <3> DEFINE h == [i \in 1..(k + 1 + 1) |-> IF i = 1 THEN ss[i] ELSE g[i - 1] \o ss[i]]
      <3>1. \A i \in 1..(k + 1 + 1) : g[i] = h[i]
        BY <2>3
      <3>2. DOMAIN g = 1..(k + 1 + 1) /\ DOMAIN h = 1..(k + 1 + 1)
            /\ g = [i \in DOMAIN g |-> g[i]] /\ h = [i \in DOMAIN h |-> h[i]]
        OBVIOUS
      <3> HIDE DEF g, h
      <3>3. g = h
        BY <3>1, <3>2
      <3> QED BY <3>3 DEF h
    <2> HIDE DEF g
    <2> QED BY <2>1, <2>4
  <1>3. T = Nat
    <2> HIDE DEF T
    <2>1. \A k \in T : k + 1 \in T
      BY <1>2
    <2>2. T \in SUBSET Nat
      BY DEF T
    <2> QED BY <1>1, <2>1, <2>2, Induct
  <1>4. n - 1 \in T /\ n - 1 + 1 = n
    <2> HIDE DEF T, n
    <2> QED BY <1>0, <1>3
  <1>5. F = [i \in 1..n |-> IF i = 1 THEN ss[i] ELSE F[i - 1] \o ss[i]]
    <2>1. \E u : u = [i \in 1..n |-> IF i = 1 THEN ss[i] ELSE u[i - 1] \o ss[i]]
      BY <1>4
    <2> QED BY <2>1
  <1>6. FlattenSeq(ss) = F[n]
    BY <1>0 DEF FlattenSeq
  <1> HIDE DEF F, T
  <1>7. F[1] = ss[1] /\ \A i \in 2..n : F[i] = F[i - 1] \o ss[i]
    <2>1. \A i \in 1..n : F[i] = IF i = 1 THEN ss[i] ELSE F[i - 1] \o ss[i]
      BY <1>5
    <2>2. 1 \in 1..n /\ \A i \in 2..n : i \in 1..n /\ i # 1
      BY <1>0
    <2> QED BY <2>1, <2>2
  <1> QED BY <1>6, <1>7

(* What shows in one of the lists, those after it being due later, shows   *)
(* in the flattened sequence.                                              *)
LEMMA FlatShows ==
  ASSUME NEW S, NEW ss \in Seq(Seq(S)), NEW m, NEW u, NEW j \in 1..Len(ss),
         Shows(ss[j], m, u), \A k \in 1..Len(ss) : k > j => After(ss[k], u)
  PROVE  Shows(FlattenSeq(ss), m, u)
  <1> DEFINE n == Len(ss)
  <1>1. n \in Nat /\ n # 0 /\ ss # <<>> /\ \A i \in 1..n : ss[i] \in Seq(S)
    OBVIOUS
  <1>2. PICK f : /\ FlattenSeq(ss) = f[n] /\ f[1] = ss[1]
                 /\ \A i \in 2..n : f[i] = f[i - 1] \o ss[i]
    BY <1>1, FlattenUnfolds
  <1> DEFINE T == {k \in Nat : k + 1 <= n => /\ f[k + 1] \in Seq(S)
                                             /\ j <= k + 1 => Shows(f[k + 1], m, u)}
  <1>3. 0 \in T
    <2>1. 0 + 1 = 1 /\ 1 \in 1..n
      BY <1>1
    <2>2. j <= 1 => Shows(f[1], m, u)
      BY <1>2
    <2> QED BY <2>1, <2>2, <1>1, <1>2
  <1>4. ASSUME NEW k \in T PROVE k + 1 \in T
    <2> SUFFICES ASSUME k + 2 <= n
                 PROVE  f[k + 2] \in Seq(S) /\ (j <= k + 2 => Shows(f[k + 2], m, u))
      OBVIOUS
    <2>1. k \in Nat /\ k + 1 <= n /\ k + 2 \in 2..n /\ k + 2 \in 1..n /\ k + 2 - 1 = k + 1
      BY <1>1
    <2>2. f[k + 1] \in Seq(S) /\ (j <= k + 1 => Shows(f[k + 1], m, u))
      BY <2>1
    <2>3. f[k + 2] = f[k + 1] \o ss[k + 2] /\ ss[k + 2] \in Seq(S)
      <3>1. PICK i \in 2..n : i = k + 2
        BY <2>1
      <3>2. f[i] = f[i - 1] \o ss[i]
        BY <1>2
      <3>3. i - 1 = k + 1
        BY <2>1, <3>1
      <3> QED BY <1>1, <2>1, <3>1, <3>2, <3>3
    <2>4. CASE j <= k + 1
      <3>1. After(ss[k + 2], u)
        <4>1. PICK i \in 1..Len(ss) : i = k + 2
          BY <2>1
        <4>2. j \in Int /\ i > j
          BY <2>1, <2>4, <4>1
        <4> QED BY <4>1, <4>2
      <3> QED BY <3>1, <2>2, <2>3, <2>4, JoinShows
    <2>5. CASE j = k + 2
      BY <2>2, <2>3, <2>5, JoinShows
    <2>6. CASE j > k + 2
      BY <2>1, <2>2, <2>3, <2>6, JoinShows
    <2> QED BY <2>1, <2>4, <2>5, <2>6
  <1>5. T = Nat
    <2> HIDE DEF T
    <2>1. \A k \in T : k + 1 \in T
      BY <1>4
    <2>2. T \in SUBSET Nat
      BY DEF T
    <2> QED BY <1>3, <2>1, <2>2, Induct
  <1>6. n - 1 \in T /\ n - 1 + 1 = n /\ j <= n
    <2> HIDE DEF T
    <2> QED BY <1>1, <1>5
  <1> QED BY <1>2, <1>6

(* A list of lists is one list, of what is due later if all of them are.   *)
LEMMA FlatAfter ==
  ASSUME NEW S, NEW ss \in Seq(Seq(S)), ss # <<>>, NEW u
  PROVE  /\ FlattenSeq(ss) \in Seq(S)
         /\ (\A k \in 1..Len(ss) : After(ss[k], u)) => After(FlattenSeq(ss), u)
  <1> DEFINE n == Len(ss)
             later == \A k \in 1..Len(ss) : After(ss[k], u)
  <1>1. n \in Nat /\ n # 0 /\ \A i \in 1..n : ss[i] \in Seq(S)
    OBVIOUS
  <1>2. PICK f : /\ FlattenSeq(ss) = f[n] /\ f[1] = ss[1]
                 /\ \A i \in 2..n : f[i] = f[i - 1] \o ss[i]
    BY <1>1, FlattenUnfolds
  <1> DEFINE T == {k \in Nat : k + 1 <= n => f[k + 1] \in Seq(S) /\ (later => After(f[k + 1], u))}
  <1>3. 0 \in T
    <2>1. 0 + 1 = 1 /\ 1 \in 1..n
      BY <1>1
    <2> QED BY <2>1, <1>1, <1>2
  <1>4. ASSUME NEW k \in T PROVE k + 1 \in T
    <2> SUFFICES ASSUME k + 2 <= n
                 PROVE  f[k + 2] \in Seq(S) /\ (later => After(f[k + 2], u))
      OBVIOUS
    <2>1. k \in Nat /\ k + 1 <= n /\ k + 2 \in 2..n /\ k + 2 \in 1..n /\ k + 2 - 1 = k + 1
      BY <1>1
    <2>2. f[k + 1] \in Seq(S) /\ (later => After(f[k + 1], u))
      BY <2>1
    <2>3. f[k + 2] = f[k + 1] \o ss[k + 2] /\ ss[k + 2] \in Seq(S)
      <3>1. PICK i \in 2..n : i = k + 2
        BY <2>1
      <3>2. f[i] = f[i - 1] \o ss[i]
        BY <1>2
      <3>3. i - 1 = k + 1
        BY <2>1, <3>1
      <3> QED BY <1>1, <2>1, <3>1, <3>2, <3>3
    <2>4. later => After(ss[k + 2], u)
      BY <2>1
    <2> HIDE DEF later
    <2> QED BY <2>2, <2>3, <2>4, JoinShows
  <1>5. T = Nat
    <2> HIDE DEF T
    <2>1. \A k \in T : k + 1 \in T
      BY <1>4
    <2>2. T \in SUBSET Nat
      BY DEF T
    <2> QED BY <1>3, <2>1, <2>2, Induct
  <1>6. n - 1 \in T /\ n - 1 + 1 = n
    <2> HIDE DEF T
    <2> QED BY <1>1, <1>5
  <1> QED BY <1>2, <1>6

-----------------------------------------------------------------------------
(* The host's schedule.                                                    *)

(* A frame begins where the one before it ends.                            *)
LEMMA OffsetUnfolds ==
  ASSUME NEW p \in Uploadable
  PROVE  /\ Offset(p, 1) = 0
         /\ \A j \in DOMAIN Slots(p) :
              Offset(p, j + 1) = Offset(p, j) + FrameDuration(p, Slots(p)[j])
  <1> DEFINE D(k) == FrameDuration(p, Slots(p)[k])
             n == Len(Slots(p)) + 1
             T == {k \in Nat : \E u : u = [i \in 1..(k + 1) |-> IF i = 1 THEN 0
                                                                ELSE u[i - 1] + D(i - 1)]}
             F == CHOOSE u : u = [i \in 1..n |-> IF i = 1 THEN 0 ELSE u[i - 1] + D(i - 1)]
  <1>0. n \in Nat /\ n # 0
    BY ProgramShape
  <1>1. 0 \in T
    <2> DEFINE u == [i \in 1..(0 + 1) |-> 0]
    <2>1. u = [i \in 1..(0 + 1) |-> IF i = 1 THEN 0 ELSE u[i - 1] + D(i - 1)]
      OBVIOUS
    <2> QED BY <2>1
  <1>2. ASSUME NEW k \in T PROVE k + 1 \in T
    <2>1. k \in Nat /\ k + 1 \in Nat
      OBVIOUS
    <2>2. PICK u : u = [i \in 1..(k + 1) |-> IF i = 1 THEN 0 ELSE u[i - 1] + D(i - 1)]
      OBVIOUS
    <2> DEFINE g == [i \in 1..(k + 1 + 1) |-> IF i <= k + 1 THEN u[i] ELSE u[k + 1] + D(k + 1)]
    <2>3. \A i \in 1..(k + 1 + 1) : g[i] = IF i = 1 THEN 0 ELSE g[i - 1] + D(i - 1)
      <3> SUFFICES ASSUME NEW i \in 1..(k + 1 + 1)
                   PROVE  g[i] = IF i = 1 THEN 0 ELSE g[i - 1] + D(i - 1)
        OBVIOUS
      <3>1. CASE i = 1
        <4>1. g[i] = u[i] /\ i \in 1..(k + 1)
          BY <3>1, <2>1
        <4>2. u[i] = 0
          BY <4>1, <3>1, <2>2
        <4> QED BY <4>1, <4>2, <3>1
      <3>2. CASE i # 1 /\ i <= k + 1
        <4>1. g[i] = u[i] /\ i \in 1..(k + 1) /\ i - 1 \in 1..(k + 1) /\ i - 1 <= k + 1
              /\ i - 1 \in 1..(k + 1 + 1)
          BY <3>2, <2>1
        <4>2. u[i] = u[i - 1] + D(i - 1)
          BY <4>1, <3>2, <2>2
        <4>3. g[i - 1] = u[i - 1]
          BY <4>1
        <4> HIDE DEF g
        <4> QED BY <4>1, <4>2, <4>3, <3>2
      <3>3. CASE i = k + 2
        <4>0. i - 1 = k + 1 /\ i # 1 /\ k + 1 \in 1..(k + 1 + 1) /\ k + 1 <= k + 1 /\ ~(i <= k + 1)
          BY <3>3, <2>1
        <4>1. g[i] = u[k + 1] + D(k + 1)
          BY <4>0
        <4>2. g[k + 1] = u[k + 1]
          BY <4>0
        <4> HIDE DEF g
        <4> QED BY <4>0, <4>1, <4>2, <3>3
      <3> QED BY <3>1, <3>2, <3>3, <2>1
    <2>4. g = [i \in 1..(k + 1 + 1) |-> IF i = 1 THEN 0 ELSE g[i - 1] + D(i - 1)]
      <3> DEFINE h == [i \in 1..(k + 1 + 1) |-> IF i = 1 THEN 0 ELSE g[i - 1] + D(i - 1)]
      <3>1. \A i \in 1..(k + 1 + 1) : g[i] = h[i]
        BY <2>3
      <3>2. DOMAIN g = 1..(k + 1 + 1) /\ DOMAIN h = 1..(k + 1 + 1)
            /\ g = [i \in DOMAIN g |-> g[i]] /\ h = [i \in DOMAIN h |-> h[i]]
        OBVIOUS
      <3> HIDE DEF g, h
      <3>3. g = h
        BY <3>1, <3>2
      <3> QED BY <3>3 DEF h
    <2> HIDE DEF g
    <2> QED BY <2>1, <2>4
  <1>3. T = Nat
    <2> HIDE DEF T
    <2>1. \A k \in T : k + 1 \in T
      BY <1>2
    <2>2. T \in SUBSET Nat
      BY DEF T
    <2> QED BY <1>1, <2>1, <2>2, Induct
  <1>4. n - 1 \in T /\ n - 1 + 1 = n
    <2> HIDE DEF T, n
    <2> QED BY <1>0, <1>3
  <1>5. F = [i \in 1..n |-> IF i = 1 THEN 0 ELSE F[i - 1] + D(i - 1)]
    <2>1. \E u : u = [i \in 1..n |-> IF i = 1 THEN 0 ELSE u[i - 1] + D(i - 1)]
      BY <1>4
    <2> QED BY <2>1
  <1>6. \A j : Offset(p, j) = F[j]
    BY DEF Offset
  <1> HIDE DEF F, T
  <1>7. \A i \in 1..n : F[i] = IF i = 1 THEN 0 ELSE F[i - 1] + D(i - 1)
    BY <1>5
  <1>8. F[1] = 0
    <2>1. 1 \in 1..n
      BY <1>0
    <2> QED BY <2>1, <1>7
  <1>9. ASSUME NEW j \in DOMAIN Slots(p)
        PROVE  F[j + 1] = F[j] + D(j)
    <2>0. j \in Nat /\ j # 0 /\ j <= Len(Slots(p)) /\ Len(Slots(p)) \in Nat
      BY ProgramShape
    <2>1. PICK i \in 1..n : i = j + 1 /\ i # 1 /\ i - 1 = j
      BY <2>0
    <2>2. F[i] = F[i - 1] + D(i - 1)
      BY <1>7, <2>1
    <2> QED BY <2>1, <2>2
  <1> QED BY <1>6, <1>8, <1>9

\* p is played with the slot value of its point j.
OfPoint(p, j, s) == p \in Uploadable /\ j \in DOMAIN Slots(p) /\ s = Slots(p)[j]

(* A frame's edges are due one after the other, none before its first tick.*)
LEMMA EdgesRiseFar ==
  ASSUME NEW p, NEW j, NEW s, OfPoint(p, j, s)
  PROVE  /\ s \in Int /\ Len(p.tick) \in Nat \ {0}
         /\ \A i \in 1..Len(p.tick) : Eff(p, i, s) \in Int /\ Eff(p, i, s) >= 0
         /\ \A i, k \in 1..Len(p.tick) : i < k => Eff(p, i, s) < Eff(p, k, s)
  <1> DEFINE n == Len(p.tick)
             T == {d \in Nat : \A i, k \in 1..n : k = i + d + 1 => Eff(p, i, s) < Eff(p, k, s)}
  <1>0. p \in Uploadable /\ j \in DOMAIN Slots(p) /\ s = Slots(p)[j]
    BY DEF OfPoint
  <1>1. n \in Nat \ {0} /\ s \in Int
    BY <1>0, ProgramShape
  <1>2. \A i \in 1..n : Eff(p, i, s) \in Int
    BY <1>0, <1>1, DueInt
  <1>3. \A i \in 1..n : i < n => Eff(p, i, s) < Eff(p, i + 1, s)
    <2> SUFFICES ASSUME NEW i \in 1..n, i < n PROVE Eff(p, i, s) < Eff(p, i + 1, s)
      OBVIOUS
    <2>1. Eff(p, i, s) + 1 <= Eff(p, i + 1, s)
      BY <1>0, EdgesRise
    <2>2. i + 1 \in 1..n
      BY <1>1
    <2> QED BY <2>1, <2>2, <1>2
  <1>4. 0 \in T
    <2> SUFFICES ASSUME NEW i \in 1..n, NEW k \in 1..n, k = i + 0 + 1
                 PROVE  Eff(p, i, s) < Eff(p, k, s)
      OBVIOUS
    <2>1. k = i + 1 /\ i < n
      BY <1>1
    <2> QED BY <2>1, <1>3
  <1>5. ASSUME NEW d \in T PROVE d + 1 \in T
    <2> SUFFICES ASSUME NEW i \in 1..n, NEW k \in 1..n, k = i + (d + 1) + 1
                 PROVE  Eff(p, i, s) < Eff(p, k, s)
      OBVIOUS
    <2>1. PICK m \in 1..n : m = i + d + 1 /\ m < n /\ k = m + 1
      BY <1>1
    <2>2. Eff(p, i, s) < Eff(p, m, s) /\ Eff(p, m, s) < Eff(p, k, s)
      BY <2>1, <1>3
    <2> QED BY <2>2, <1>2
  <1>6. T = Nat
    <2> HIDE DEF T
    <2>1. \A d \in T : d + 1 \in T
      BY <1>5
    <2>2. T \in SUBSET Nat
      BY DEF T
    <2> QED BY <1>4, <2>1, <2>2, Induct
  <1>7. ASSUME NEW i \in 1..n, NEW k \in 1..n, i < k PROVE Eff(p, i, s) < Eff(p, k, s)
    <2>1. PICK d \in Nat : d = k - i - 1 /\ k = i + d + 1
      BY <1>1, <1>7
    <2>2. d \in T
      BY <1>6
    <2> QED BY <2>1, <2>2
  <1>8. ASSUME NEW i \in 1..n PROVE Eff(p, i, s) >= 0
    <2>1. Eff(p, 1, s) = 0 /\ 1 \in 1..n
      <3>1. Eff(p, 1, s) = 0
        BY <1>0, <1>1, DueInt
      <3> QED BY <3>1, <1>1
    <2>2. CASE i = 1
      BY <2>1, <2>2
    <2>3. CASE i # 1
      BY <2>1, <2>3, <1>2, <1>7
    <2> QED BY <2>2, <2>3
  <1> HIDE DEF T
  <1> QED BY <1>1, <1>2, <1>7, <1>8

(* The greater of two numbers.                                             *)
LEMMA MaxOfTwo ==
  ASSUME NEW a \in Int, NEW b \in Int
  PROVE  Max({a, b}) \in {a, b} /\ Max({a, b}) >= a /\ Max({a, b}) >= b
  <1>1. \E x \in {a, b} : \A y \in {a, b} : x >= y
    <2>1. CASE a >= b
      BY <2>1
    <2>2. CASE b >= a
      BY <2>2
    <2> QED BY <2>1, <2>2
  <1> QED BY <1>1 DEF Max

(* The bracket and the frame, in ticks.                                    *)
LEMMA FrameTicks ==
  ASSUME NEW p, NEW j, NEW s, OfPoint(p, j, s)
  PROVE  /\ Final(p, s) = Eff(p, Len(p.tick), s) /\ Final(p, s) \in Nat
         /\ LoopEnd(p, s) \in Int /\ SliceLen(p, s) \in Int
         /\ p.loops \in Nat \ {0} /\ p.loop_start \in 1..Len(p.tick)
         /\ p.loops > 1 => /\ Eff(p, p.loop_start, s) < LoopEnd(p, s) /\ LoopEnd(p, s) <= Final(p, s)
                           /\ SliceLen(p, s) = LoopEnd(p, s) - Eff(p, p.loop_start, s)
                           /\ SliceLen(p, s) >= 1
         /\ FrameDuration(p, s) \in Nat \ {0}
         /\ FrameDuration(p, s) >= Final(p, s) + (p.loops - 1) * SliceLen(p, s)
         /\ FrameDuration(p, s) \in {1, Final(p, s) + (p.loops - 1) * SliceLen(p, s)}
  <1>0. p \in Uploadable /\ j \in DOMAIN Slots(p) /\ s = Slots(p)[j] /\ PointFits(p, s)
        /\ p.loops \in Nat \ {0} /\ p.loop_start \in 1..Len(p.tick)
    BY ProgramShape DEF OfPoint
  <1>1. /\ s \in Int /\ Len(p.tick) \in Nat \ {0}
        /\ \A i \in 1..Len(p.tick) : Eff(p, i, s) \in Int /\ Eff(p, i, s) >= 0
    BY EdgesRiseFar
  <1>2. Final(p, s) = Eff(p, Len(p.tick), s) /\ Final(p, s) \in Nat
    BY <1>1 DEF Final
  <1>3. LoopEnd(p, s) \in Int
    BY <1>0, <1>1, DueInt
  <1>4. SliceLen(p, s) \in Int /\ SliceLen(p, s) = LoopEnd(p, s) - Eff(p, p.loop_start, s)
    BY <1>0, <1>1, <1>3 DEF SliceLen
  <1>5. p.loops > 1 => Eff(p, p.loop_start, s) < LoopEnd(p, s) /\ LoopEnd(p, s) <= Final(p, s)
    BY <1>0 DEF PointFits
  <1>6. p.loops > 1 => SliceLen(p, s) >= 1
    BY <1>0, <1>1, <1>3, <1>4, <1>5
  <1>7. (p.loops - 1) * SliceLen(p, s) \in Int
    BY <1>0, <1>4
  <1>8. /\ FrameDuration(p, s) \in Int /\ FrameDuration(p, s) >= 1
        /\ FrameDuration(p, s) >= Final(p, s) + (p.loops - 1) * SliceLen(p, s)
        /\ FrameDuration(p, s) \in {1, Final(p, s) + (p.loops - 1) * SliceLen(p, s)}
    <2> DEFINE w == (p.loops - 1) * SliceLen(p, s)
    <2> HIDE DEF w
    <2>1. Final(p, s) + w \in Int
      BY <1>2, <1>7 DEF w
    <2>2. FrameDuration(p, s) = Max({1, Final(p, s) + w})
      BY DEF FrameDuration, w
    <2>3. /\ Max({1, Final(p, s) + w}) \in {1, Final(p, s) + w}
          /\ Max({1, Final(p, s) + w}) >= 1 /\ Max({1, Final(p, s) + w}) >= Final(p, s) + w
      BY <2>1, MaxOfTwo
    <2> QED BY <2>1, <2>2, <2>3 DEF w
  <1> QED BY <1>0, <1>2, <1>3, <1>4, <1>5, <1>6, <1>8

(* The edges before the end of the bracket are the first so many.          *)
LEMMA InnerEdges ==
  ASSUME NEW p, NEW j, NEW s, OfPoint(p, j, s), p.loops > 1,
         NEW m, m = Cardinality({i \in 1..Len(p.tick) : Eff(p, i, s) < LoopEnd(p, s)})
  PROVE  /\ m \in p.loop_start..Len(p.tick)
         /\ \A i \in 1..Len(p.tick) : Eff(p, i, s) < LoopEnd(p, s) <=> i <= m
  <1> DEFINE n == Len(p.tick)
             I == {i \in 1..n : Eff(p, i, s) < LoopEnd(p, s)}
             T == {k \in Nat : k <= n => \E c \in 0..k : \A i \in 1..k : i \in I <=> i <= c}
  <1>1. n \in Nat /\ LoopEnd(p, s) \in Int /\ \A i \in 1..n : Eff(p, i, s) \in Int
    BY EdgesRiseFar, FrameTicks
  <1>2. \A i, k \in 1..n : i < k => Eff(p, i, s) < Eff(p, k, s)
    BY EdgesRiseFar
  <1>3. \A i, k \in 1..n : i < k /\ k \in I => i \in I
    BY <1>1, <1>2
  <1> HIDE DEF I
  <1>4. 0 \in T
    OBVIOUS
  <1>5. ASSUME NEW k \in T PROVE k + 1 \in T
    <2> DEFINE split(q) == \E c \in 0..q : \A i \in 1..q : i \in I <=> i <= c
    <2>0. k \in Nat /\ k + 1 \in Nat /\ (k <= n => split(k))
      OBVIOUS
    <2> SUFFICES ASSUME k + 1 <= n PROVE split(k + 1)
      <3> HIDE DEF split
      <3>1. T = {q \in Nat : q <= n => split(q)}
        BY DEF split
      <3> HIDE DEF T
      <3> QED BY <2>0, <3>1
    <2>1. k \in Nat /\ k <= n /\ k + 1 \in 1..n
      BY <1>1
    <2>2. PICK c \in 0..k : \A i \in 1..k : i \in I <=> i <= c
      BY <2>1
    <2>3. CASE k + 1 \in I
      <3>1. \A i \in 1..(k + 1) : i \in I
        BY <2>1, <2>3, <1>1, <1>3
      <3> QED BY <2>1, <3>1
    <2>4. CASE k + 1 \notin I
      <3>1. \A i \in 1..(k + 1) : i \in I <=> i <= c
        BY <2>1, <2>2, <2>4
      <3>2. c \in 0..(k + 1)
        BY <2>1
      <3> QED BY <3>1, <3>2
    <2> QED BY <2>3, <2>4
  <1>6. T = Nat
    <2> HIDE DEF T
    <2>1. \A k \in T : k + 1 \in T
      BY <1>5
    <2>2. T \in SUBSET Nat
      BY DEF T
    <2> QED BY <1>4, <2>1, <2>2, Induct
  <1>7. PICK c \in 0..n : \A i \in 1..n : i \in I <=> i <= c
    <2>1. n \in T
      BY <1>1, <1>6
    <2> QED BY <2>1, <1>1
  <1>8. I = 1..c
    <2>1. I \subseteq 1..n
      BY DEF I
    <2>2. \A i \in 1..c : i \in 1..n /\ i <= c
      BY <1>1
    <2>3. \A i \in 1..n : i <= c => i \in 1..c
      BY <1>1
    <2>4. \A i \in I : i \in 1..c
      BY <2>1, <2>3, <1>7
    <2>5. \A i \in 1..c : i \in I
      BY <2>2, <1>7
    <2>6. \A i : i \in I <=> i \in 1..c
      BY <2>4, <2>5
    <2> QED BY <2>6
  <1>9. m = c
    <2>1. Cardinality(1..c) = IF 1 > c THEN 0 ELSE c - 1 + 1
      BY FS_Interval
    <2>2. m = Cardinality(1..c)
      BY <1>8 DEF I
    <2> QED BY <2>1, <2>2
  <1>10. p.loop_start \in 1..n /\ p.loop_start \in I
    BY FrameTicks DEF I
  <1>11. \A i \in 1..n : Eff(p, i, s) < LoopEnd(p, s) <=> i <= m
    BY <1>7, <1>9 DEF I
  <1>12. m \in p.loop_start..n
    BY <1>1, <1>7, <1>9, <1>10
  <1> QED BY <1>11, <1>12

Events(p) == [at : Int, mask : {p.mask[i] : i \in 1..Len(p.tick)}]

(* Some rows of the table, off ticks late.                                 *)
LEMMA RowsShow ==
  ASSUME NEW p, NEW j, NEW s, OfPoint(p, j, s),
         NEW a \in 1..(Len(p.tick) + 1), NEW b \in 0..Len(p.tick), a <= b + 1,
         NEW off \in Int, NEW u \in Int
  PROVE  /\ Rows(p, s, a, b, off) \in Seq(Events(p))
         /\ (\A i \in a..b : Eff(p, i, s) + off > u) => After(Rows(p, s, a, b, off), u)
         /\ \A e \in a..b :
              Eff(p, e, s) + off <= u /\ (\A i \in a..b : i > e => Eff(p, i, s) + off > u)
                => Shows(Rows(p, s, a, b, off), p.mask[e], u)
  <1> DEFINE n == Len(p.tick)
             R == Rows(p, s, a, b, off)
             len == b - a + 1
  <1>1. n \in Nat /\ \A i \in 1..n : Eff(p, i, s) \in Int
    BY EdgesRiseFar
  <1>2. len \in Nat /\ \A k \in 1..len : a + k - 1 \in a..b /\ a + k - 1 \in 1..n
    BY <1>1
  <1>3. R = [k \in 1..len |-> [at |-> Eff(p, a + k - 1, s) + off, mask |-> p.mask[a + k - 1]]]
    BY DEF Rows
  <1> HIDE DEF R, len
  <1>4. \A k \in 1..len : R[k].at = Eff(p, a + k - 1, s) + off /\ R[k].mask = p.mask[a + k - 1]
    BY <1>3
  <1>5. R \in Seq(Events(p)) /\ Len(R) = len
    <2>1. ASSUME NEW k \in 1..len
          PROVE  [at |-> Eff(p, a + k - 1, s) + off, mask |-> p.mask[a + k - 1]] \in Events(p)
      <3>1. a + k - 1 \in 1..n
        BY <1>2
      <3>2. Eff(p, a + k - 1, s) + off \in Int
        BY <1>1, <3>1
      <3>3. p.mask[a + k - 1] \in {p.mask[i] : i \in 1..Len(p.tick)}
        BY <3>1
      <3> QED BY <3>2, <3>3 DEF Events
    <2>2. R \in [1..len -> Events(p)]
      BY <1>3, <2>1
    <2> QED BY <1>2, <2>2
  <1>6. ASSUME \A i \in a..b : Eff(p, i, s) + off > u PROVE After(R, u)
    <2> SUFFICES ASSUME NEW k \in 1..len PROVE R[k].at > u
      BY <1>5 DEF After
    <2>1. a + k - 1 \in a..b
      BY <1>2
    <2> QED BY <2>1, <1>4, <1>6
  <1>7. ASSUME NEW e \in a..b, Eff(p, e, s) + off <= u,
               \A i \in a..b : i > e => Eff(p, i, s) + off > u
        PROVE  Shows(R, p.mask[e], u)
    <2>1. PICK k \in 1..len : a + k - 1 = e
      <3>1. e - a + 1 \in 1..len /\ a + (e - a + 1) - 1 = e
        BY <1>1 DEF len
      <3> QED BY <3>1
    <2>2. R[k].at <= u /\ R[k].mask = p.mask[e]
      BY <2>1, <1>4, <1>7
    <2>3. ASSUME NEW q \in 1..len, q > k PROVE R[q].at > u
      <3>1. a + q - 1 \in a..b /\ a + q - 1 > e
        BY <2>1, <2>3, <1>2
      <3> QED BY <3>1, <1>4, <1>7
    <2> QED BY <2>2, <2>3, <1>5 DEF Shows
  <1> QED BY <1>5, <1>6, <1>7 DEF R

\* The passes of the bracket, one after the other.
Passes(p, s, m) == [k \in 1..p.loops |-> Rows(p, s, p.loop_start, m, (k - 1) * SliceLen(p, s))]

(* A frame's events: what precedes the bracket, its passes, what follows.  *)
LEMMA FrameUnfolds ==
  ASSUME NEW p, NEW j, NEW s, OfPoint(p, j, s)
  PROVE  /\ p.loops = 1 => FrameEvents(p, s) = Rows(p, s, 1, Len(p.tick), 0)
         /\ p.loops > 1 =>
              \E m \in p.loop_start..Len(p.tick) :
                /\ \A i \in 1..Len(p.tick) : Eff(p, i, s) < LoopEnd(p, s) <=> i <= m
                /\ FrameEvents(p, s) = (Rows(p, s, 1, p.loop_start - 1, 0) \o FlattenSeq(Passes(p, s, m)))
                                       \o Rows(p, s, m + 1, Len(p.tick), (p.loops - 1) * SliceLen(p, s))
                /\ Passes(p, s, m) \in Seq(Seq(Events(p))) /\ Passes(p, s, m) # <<>>
                /\ Len(Passes(p, s, m)) = p.loops
  <1>1. p.loops = 1 => FrameEvents(p, s) = Rows(p, s, 1, Len(p.tick), 0)
    BY DEF FrameEvents
  <1>2. ASSUME p.loops > 1
        PROVE  \E m \in p.loop_start..Len(p.tick) :
                /\ \A i \in 1..Len(p.tick) : Eff(p, i, s) < LoopEnd(p, s) <=> i <= m
                /\ FrameEvents(p, s) = (Rows(p, s, 1, p.loop_start - 1, 0) \o FlattenSeq(Passes(p, s, m)))
                                       \o Rows(p, s, m + 1, Len(p.tick), (p.loops - 1) * SliceLen(p, s))
                /\ Passes(p, s, m) \in Seq(Seq(Events(p))) /\ Passes(p, s, m) # <<>>
                /\ Len(Passes(p, s, m)) = p.loops
    <2> DEFINE m == Cardinality({i \in 1..Len(p.tick) : Eff(p, i, s) < LoopEnd(p, s)})
    <2>1. FrameEvents(p, s) = (Rows(p, s, 1, p.loop_start - 1, 0) \o FlattenSeq(Passes(p, s, m)))
                              \o Rows(p, s, m + 1, Len(p.tick), (p.loops - 1) * SliceLen(p, s))
      BY <1>2 DEF FrameEvents, Passes
    <2>2. /\ m \in p.loop_start..Len(p.tick)
          /\ \A i \in 1..Len(p.tick) : Eff(p, i, s) < LoopEnd(p, s) <=> i <= m
      BY <1>2, InnerEdges
    <2> HIDE DEF m
    <2>3. /\ p.loops \in Nat \ {0} /\ SliceLen(p, s) \in Int /\ Len(p.tick) \in Nat \ {0}
          /\ p.loop_start \in 1..Len(p.tick)
      BY FrameTicks, EdgesRiseFar
    <2>4. ASSUME NEW k \in 1..p.loops
          PROVE  Rows(p, s, p.loop_start, m, (k - 1) * SliceLen(p, s)) \in Seq(Events(p))
      <3>1. (k - 1) * SliceLen(p, s) \in Int
        BY <2>3
      <3>2. p.loop_start \in 1..(Len(p.tick) + 1) /\ m \in 0..Len(p.tick) /\ p.loop_start <= m + 1
        BY <2>2, <2>3
      <3> QED BY <3>1, <3>2, RowsShow
    <2>5. Passes(p, s, m) \in [1..p.loops -> Seq(Events(p))]
      BY <2>4 DEF Passes
    <2>6. Passes(p, s, m) \in Seq(Seq(Events(p))) /\ Len(Passes(p, s, m)) = p.loops
      BY <2>3, <2>5
    <2>7. Passes(p, s, m) # <<>>
      BY <2>3, <2>6
    <2> QED BY <2>1, <2>2, <2>6, <2>7
  <1> QED BY <1>1, <1>2

(* Whole passes of the bracket, one after the other.                       *)
LEMMA Multiples ==
  ASSUME NEW d \in Nat
  PROVE  /\ \A k \in Nat \ {0} : (k - 1) * d \in Nat
         /\ \A i, k \in Nat \ {0} : i < k => (i - 1) * d + d <= (k - 1) * d
  <1>1. \A k \in Nat : k * d \in Nat
    OBVIOUS
  <1>2. ASSUME NEW k \in Nat \ {0} PROVE (k - 1) * d \in Nat
    <2>1. k - 1 \in Nat
      OBVIOUS
    <2> QED BY <2>1, <1>1
  <1>3. ASSUME NEW i \in Nat \ {0}, NEW k \in Nat \ {0}, i < k
        PROVE  (i - 1) * d + d <= (k - 1) * d
    <2>1. PICK c \in Nat : k - 1 = (i - 1) + 1 + c
      <3>1. k - i - 1 \in Nat /\ k - 1 = (i - 1) + 1 + (k - i - 1)
        BY <1>3
      <3> QED BY <3>1
    <2>2. ((i - 1) + 1 + c) * d = (i - 1) * d + d + c * d
      OBVIOUS
    <2>3. c * d \in Nat /\ (i - 1) * d \in Nat
      BY <1>1, <1>2
    <2> QED BY <2>1, <2>2, <2>3
  <1> QED BY <1>2, <1>3

(* Tick t of pass l of a frame: the edge that shows is the last one due.   *)
LEMMA FrameShows ==
  ASSUME NEW p, NEW j, NEW s, OfPoint(p, j, s),
         NEW l \in 1..p.loops, NEW e \in 1..Len(p.tick), NEW t \in Int,
         Eff(p, e, s) <= t, e < Len(p.tick) => t < Eff(p, e + 1, s),
         l < p.loops => t < LoopEnd(p, s), l > 1 => e >= p.loop_start
  PROVE  Shows(FrameEvents(p, s), p.mask[e], (l - 1) * SliceLen(p, s) + t)
  <1> DEFINE n == Len(p.tick)
             S == SliceLen(p, s)
             u == (l - 1) * S + t
             ls == p.loop_start
  <1>1. n \in Nat \ {0} /\ p.loops \in Nat \ {0} /\ ls \in 1..n /\ S \in Int /\ LoopEnd(p, s) \in Int
        /\ \A i \in 1..n : Eff(p, i, s) \in Int /\ Eff(p, i, s) >= 0
    BY EdgesRiseFar, FrameTicks
  <1>2. ASSUME NEW i \in 1..n, i > e PROVE t < Eff(p, i, s)
    <2>1. e < n /\ e + 1 \in 1..n /\ (i = e + 1 \/ e + 1 < i)
      BY <1>1, <1>2
    <2>2. t < Eff(p, e + 1, s)
      BY <2>1
    <2>3. e + 1 < i => Eff(p, e + 1, s) < Eff(p, i, s)
      BY <2>1, EdgesRiseFar
    <2>4. Eff(p, e + 1, s) \in Int /\ Eff(p, i, s) \in Int
      BY <2>1, <1>1
    <2>5. CASE i = e + 1
      BY <2>2, <2>5
    <2>6. CASE e + 1 < i
      BY <2>2, <2>3, <2>4, <2>6
    <2> QED BY <2>1, <2>5, <2>6
  <1>3. CASE p.loops = 1
    <2>1. FrameEvents(p, s) = Rows(p, s, 1, n, 0) /\ l = 1
      BY <1>3, FrameUnfolds
    <2>2. (1 - 1) * S + t = t
      BY <1>1
    <2>3. \A i \in 1..n : i > e => Eff(p, i, s) + 0 > t
      BY <1>1, <1>2
    <2>4. Eff(p, e, s) + 0 <= t
      BY <1>1
    <2>5. 1 \in 1..(n + 1) /\ n \in 0..n /\ 1 <= n + 1 /\ 0 \in Int
      BY <1>1
    <2>6. Shows(Rows(p, s, 1, n, 0), p.mask[e], t)
      BY <2>3, <2>4, <2>5, RowsShow
    <2> QED BY <2>1, <2>2, <2>6
  <1>4. CASE p.loops > 1
    <2>1. PICK m \in ls..n :
            /\ \A i \in 1..n : Eff(p, i, s) < LoopEnd(p, s) <=> i <= m
            /\ FrameEvents(p, s) = (Rows(p, s, 1, ls - 1, 0) \o FlattenSeq(Passes(p, s, m)))
                                   \o Rows(p, s, m + 1, n, (p.loops - 1) * S)
            /\ Passes(p, s, m) \in Seq(Seq(Events(p))) /\ Passes(p, s, m) # <<>>
            /\ Len(Passes(p, s, m)) = p.loops
      BY <1>4, FrameUnfolds
    <2>a. m \in Int /\ ls <= m /\ m <= n /\ \A i \in 1..n : Eff(p, i, s) < LoopEnd(p, s) <=> i <= m
      BY <1>1, <2>1
    <2> DEFINE P(k) == (k - 1) * S
               A == Rows(p, s, 1, ls - 1, 0)
               B == Passes(p, s, m)
               C == Rows(p, s, m + 1, n, P(p.loops))
    <2>2. /\ \A k \in 1..p.loops : P(k) \in Nat
          /\ \A i, k \in 1..p.loops : i < k => P(i) + S <= P(k)
          /\ P(1) = 0 /\ S >= 1 /\ S = LoopEnd(p, s) - Eff(p, ls, s)
      <3>1. S >= 1 /\ S = LoopEnd(p, s) - Eff(p, ls, s)
        BY <1>4, FrameTicks
      <3>2. S \in Nat
        BY <3>1, <1>1
      <3> HIDE DEF S
      <3>3. /\ \A k \in Nat \ {0} : P(k) \in Nat
            /\ \A i, k \in Nat \ {0} : i < k => P(i) + S <= P(k)
        BY <3>2, Multiples
      <3>4. P(1) = 0
        BY <3>2
      <3>5. \A k \in 1..p.loops : k \in Nat \ {0}
        BY <1>1
      <3> HIDE DEF P
      <3> QED BY <3>1, <3>3, <3>4, <3>5
    <2>3. u = P(l) + t /\ FrameEvents(p, s) = (A \o FlattenSeq(B)) \o C
      BY <2>1
    <2>4. \A k \in 1..p.loops : B[k] = Rows(p, s, ls, m, P(k))
      BY DEF Passes
    <2> HIDE DEF P, B, S, u
    <2>b. n \in Int /\ ls \in Int /\ m \in Int /\ 1 <= ls /\ ls <= m /\ m <= n
          /\ e \in Int /\ 1 <= e /\ e <= n /\ l \in Int /\ 1 <= l /\ t \in Int
      <3>1. n \in Nat /\ ls \in 1..n /\ e \in 1..n /\ l \in 1..p.loops /\ p.loops \in Nat
        BY <1>1
      <3>2. m \in Int /\ ls <= m /\ m <= n
        BY <2>a
      <3> QED BY <3>1, <3>2
    <2>c. \A i \in 1..n : Eff(p, i, s) \in Int /\ Eff(p, i, s) >= 0
      BY <1>1
    <2>5. ls \in 1..(n + 1) /\ m \in 0..n /\ ls <= m + 1 /\ 1 \in 1..(n + 1) /\ ls - 1 \in 0..n
          /\ 1 <= ls - 1 + 1 /\ m + 1 \in 1..(n + 1) /\ n \in 0..n /\ m + 1 <= n + 1
      <3> HIDE DEF n, ls
      <3> QED BY <2>b
    <2>6. P(l) \in Nat /\ P(p.loops) \in Nat /\ P(l) <= P(p.loops) /\ u \in Int
      <3>1. p.loops \in 1..p.loops /\ (l = p.loops \/ l < p.loops)
        BY <1>1
      <3>2. P(l) \in Nat /\ P(p.loops) \in Nat
        BY <2>2, <3>1
      <3>3. P(l) <= P(p.loops)
        BY <1>1, <2>2, <3>1, <3>2
      <3> QED BY <2>3, <3>2, <3>3
    <2>d. P(l) \in Int /\ P(l) >= 0 /\ P(p.loops) \in Int /\ P(l) <= P(p.loops) /\ u \in Int /\ u = P(l) + t
      BY <2>3, <2>6
    <2>7. /\ A \in Seq(Events(p)) /\ C \in Seq(Events(p)) /\ FlattenSeq(B) \in Seq(Events(p))
      <3>1. A \in Seq(Events(p))
        BY <2>5, RowsShow
      <3>a. C \in Seq(Events(p))
        BY <2>5, <2>d, RowsShow
      <3>2. FlattenSeq(B) \in Seq(Events(p))
        BY <2>1, FlatAfter DEF B
      <3> QED BY <3>1, <3>2, <3>a
    <2>e. /\ \A i \in ls..m : i \in Int /\ i \in 1..n /\ ls <= i
          /\ \A i \in (m + 1)..n : i \in Int /\ i \in 1..n /\ i > m
      <3> HIDE DEF n, ls
      <3> QED BY <2>b
    <2>8. e <= m => After(C, u)
      <3> SUFFICES ASSUME e <= m PROVE After(C, u)
        OBVIOUS
      <3>1. ASSUME NEW i \in (m + 1)..n PROVE Eff(p, i, s) + P(p.loops) > u
        <4>1. i \in 1..n /\ i > e
          BY <2>b, <2>e
        <4>2. t < Eff(p, i, s)
          BY <4>1, <1>2
        <4>3. Eff(p, i, s) \in Int
          BY <4>1, <2>c
        <4> QED BY <4>2, <4>3, <2>b, <2>d
      <3> QED BY <3>1, <2>5, <2>d, RowsShow
    <2>9. CASE e < ls
      <3>1. l = 1 /\ u = t /\ e <= m
        <4>1. l = 1 /\ e <= m
          BY <2>9, <2>b
        <4>2. P(l) = 0
          BY <4>1, <2>2
        <4> QED BY <4>1, <4>2, <2>b, <2>d
      <3>2. Shows(A, p.mask[e], u)
        <4>0. P(1) = 0 /\ P(1) \in Int
          BY <2>2
        <4>1. e \in 1..(ls - 1)
          BY <2>9, <2>b
        <4>2. Eff(p, e, s) + P(1) <= u
          BY <3>1, <4>0, <2>c
        <4>3. ASSUME NEW i \in 1..(ls - 1), i > e PROVE Eff(p, i, s) + P(1) > u
          <5>1. i \in 1..n
            BY <2>b
          <5>2. t < Eff(p, i, s) /\ Eff(p, i, s) \in Int
            BY <5>1, <4>3, <1>2, <2>c
          <5> QED BY <5>2, <3>1, <4>0
        <4>4. Shows(Rows(p, s, 1, ls - 1, P(1)), p.mask[e], u)
          BY <4>0, <4>1, <4>2, <4>3, <2>5, <2>d, RowsShow
        <4> QED BY <4>0, <4>4
      <3>3. After(FlattenSeq(B), u)
        <4>1. ASSUME NEW k \in 1..p.loops PROVE After(B[k], u)
          <5>1. ASSUME NEW i \in ls..m PROVE Eff(p, i, s) + P(k) > u
            <6>1. i \in 1..n /\ i > e
              <7>1. i \in 1..n /\ i \in Int /\ ls <= i
                BY <2>e
              <7> HIDE DEF n, ls
              <7> QED BY <7>1, <2>9, <2>b
            <6>2. t < Eff(p, i, s) /\ P(k) \in Nat
              BY <6>1, <1>2, <2>2
            <6>3. Eff(p, i, s) \in Int
              BY <6>1, <2>c
            <6> QED BY <6>2, <6>3, <3>1, <2>b
          <5>2. P(k) \in Int
            BY <2>2
          <5>3. After(Rows(p, s, ls, m, P(k)), u)
            BY <5>1, <5>2, <2>5, <2>d, RowsShow
          <5> QED BY <5>3, <2>4
        <4> QED BY <4>1, <2>1, FlatAfter DEF B
      <3>4. Shows(A \o FlattenSeq(B), p.mask[e], u) /\ A \o FlattenSeq(B) \in Seq(Events(p))
        BY <3>2, <3>3, <2>7, JoinShows
      <3>5. Shows((A \o FlattenSeq(B)) \o C, p.mask[e], u)
        BY <3>1, <3>4, <2>7, <2>8, JoinShows
      <3> QED BY <3>5, <2>3 DEF S, u
    <2>10. CASE ls <= e /\ e <= m
      <3>1. Shows(B[l], p.mask[e], u)
        <4>1. e \in ls..m
          BY <2>10, <2>b
        <4>a. Eff(p, e, s) + P(l) <= u
          <5>1. Eff(p, e, s) <= t /\ Eff(p, e, s) \in Int
            BY <2>c
          <5> QED BY <5>1, <2>b, <2>d
        <4>2. ASSUME NEW i \in ls..m, i > e PROVE Eff(p, i, s) + P(l) > u
          <5>1. i \in 1..n
            BY <2>e
          <5>2. t < Eff(p, i, s)
            BY <5>1, <4>2, <1>2
          <5>3. Eff(p, i, s) \in Int
            BY <5>1, <2>c
          <5> QED BY <5>2, <5>3, <2>b, <2>d
        <4>3. P(l) \in Int
          BY <2>6
        <4>4. Shows(Rows(p, s, ls, m, P(l)), p.mask[e], u)
          BY <4>1, <4>a, <4>2, <4>3, <2>5, <2>d, RowsShow
        <4> QED BY <4>4, <2>4
      <3>2. ASSUME NEW k \in 1..p.loops, k > l PROVE After(B[k], u)
        <4>1. P(k) \in Nat /\ P(l) + S <= P(k) /\ t < LoopEnd(p, s)
          <5>1. P(k) \in Nat /\ P(l) + S <= P(k)
            BY <3>2, <2>2
          <5>2. l < p.loops
            <6>1. k \in Int /\ k <= p.loops /\ p.loops \in Int /\ l \in Int
              BY <1>1
            <6> QED BY <6>1, <3>2
          <5> QED BY <5>1, <5>2
        <4>a. /\ S = LoopEnd(p, s) - Eff(p, ls, s) /\ LoopEnd(p, s) \in Int /\ Eff(p, ls, s) \in Int
          <5>1. ls \in 1..n
            BY <1>1
          <5> QED BY <5>1, <1>1, <2>2, <2>c
        <4>b. P(k) + Eff(p, ls, s) > u
          <5>1. P(k) \in Int /\ P(k) >= P(l) + S /\ S \in Int /\ P(l) \in Int
            BY <4>1, <4>a, <2>d
          <5>2. S + Eff(p, ls, s) = LoopEnd(p, s) /\ LoopEnd(p, s) \in Int /\ Eff(p, ls, s) \in Int
            BY <4>a
          <5>3. t \in Int /\ t < LoopEnd(p, s) /\ u = P(l) + t
            BY <4>1, <2>b, <2>d
          <5> HIDE DEF ls
          <5> QED BY <5>1, <5>2, <5>3
        <4>2. ASSUME NEW i \in ls..m PROVE Eff(p, i, s) + P(k) > u
          <5>1. i \in 1..n /\ ls \in 1..n /\ (i = ls \/ ls < i)
            <6>1. i \in 1..n /\ i \in Int /\ ls <= i
              BY <2>e
            <6> HIDE DEF n, ls
            <6> QED BY <6>1, <2>b
          <5>2. Eff(p, i, s) \in Int
            BY <5>1, <2>c
          <5>3. CASE i = ls
            BY <5>2, <5>3, <4>1, <4>b
          <5>4. CASE ls < i
            <6>1. Eff(p, ls, s) < Eff(p, i, s)
              BY <5>1, <5>4, EdgesRiseFar
            <6>2. P(k) \in Int /\ Eff(p, ls, s) \in Int /\ u \in Int
              BY <4>1, <4>a, <2>d
            <6> HIDE DEF ls
            <6> QED BY <6>1, <6>2, <5>2, <4>b
          <5> QED BY <5>1, <5>3, <5>4
        <4>3. P(k) \in Int
          BY <4>1
        <4>4. After(Rows(p, s, ls, m, P(k)), u)
          BY <4>2, <4>3, <2>5, <2>d, RowsShow
        <4> QED BY <4>4, <2>4
      <3>3. Shows(FlattenSeq(B), p.mask[e], u)
        BY <3>1, <3>2, <2>1, FlatShows DEF B
      <3>4. Shows(A \o FlattenSeq(B), p.mask[e], u) /\ A \o FlattenSeq(B) \in Seq(Events(p))
        BY <3>3, <2>7, JoinShows
      <3>5. Shows((A \o FlattenSeq(B)) \o C, p.mask[e], u)
        BY <3>4, <2>7, <2>8, <2>10, JoinShows
      <3> QED BY <3>5, <2>3 DEF S, u
    <2>11. CASE e > m
      <3>1. l = p.loops
        <4>1. LoopEnd(p, s) <= Eff(p, e, s)
          BY <2>a, <2>11, <1>1
        <4>2. ~(t < LoopEnd(p, s))
          BY <4>1, <1>1
        <4> QED BY <4>2, <1>1
      <3>2. Shows(C, p.mask[e], u)
        <4>1. e \in (m + 1)..n
          BY <2>11, <2>b
        <4>a. Eff(p, e, s) + P(p.loops) <= u
          <5>1. Eff(p, e, s) <= t /\ Eff(p, e, s) \in Int
            BY <2>c
          <5> QED BY <5>1, <2>b, <2>d, <3>1
        <4>2. ASSUME NEW i \in (m + 1)..n, i > e PROVE Eff(p, i, s) + P(p.loops) > u
          <5>1. i \in 1..n
            BY <2>e
          <5>2. t < Eff(p, i, s)
            BY <5>1, <4>2, <1>2
          <5>3. Eff(p, i, s) \in Int /\ P(p.loops) = P(l)
            BY <5>1, <3>1, <2>c
          <5> QED BY <5>2, <5>3, <2>b, <2>d
        <4> QED BY <4>1, <4>a, <4>2, <2>5, <2>d, RowsShow
      <3>3. A \o FlattenSeq(B) \in Seq(Events(p))
        BY <2>7, JoinShows
      <3>4. Shows((A \o FlattenSeq(B)) \o C, p.mask[e], u)
        BY <3>2, <3>3, <2>7, JoinShows
      <3> QED BY <3>4, <2>3 DEF S, u
    <2> QED BY <2>9, <2>10, <2>11, <2>b
  <1> QED BY <1>1, <1>3, <1>4

(* A frame's events are events of the program, none due before it begins.  *)
LEMMA FrameAfter ==
  ASSUME NEW p, NEW j, NEW s, OfPoint(p, j, s), NEW u \in Int, u < 0
  PROVE  FrameEvents(p, s) \in Seq(Events(p)) /\ After(FrameEvents(p, s), u)
  <1> DEFINE n == Len(p.tick)
             S == SliceLen(p, s)
             ls == p.loop_start
  <1>1. n \in Nat \ {0} /\ p.loops \in Nat \ {0} /\ ls \in 1..n /\ S \in Int
    BY EdgesRiseFar, FrameTicks
  <1>2. \A i \in 1..n : Eff(p, i, s) \in Int /\ Eff(p, i, s) >= 0
    BY EdgesRiseFar
  <1>3. ASSUME NEW a \in 1..(n + 1), NEW b \in 0..n, a <= b + 1, NEW off \in Nat
        PROVE  Rows(p, s, a, b, off) \in Seq(Events(p)) /\ After(Rows(p, s, a, b, off), u)
    <2>1. ASSUME NEW i \in a..b PROVE Eff(p, i, s) + off > u
      <3>1. i \in 1..n
        BY <1>1
      <3>2. Eff(p, i, s) \in Int /\ Eff(p, i, s) >= 0
        BY <3>1, <1>2
      <3> QED BY <3>2
    <2> QED BY <2>1, <1>3, RowsShow
  <1>4. CASE p.loops = 1
    <2>1. 1 \in 1..(n + 1) /\ n \in 0..n /\ 1 <= n + 1 /\ 0 \in Nat
      BY <1>1
    <2>2. FrameEvents(p, s) = Rows(p, s, 1, n, 0)
      BY <1>4, FrameUnfolds
    <2> QED BY <2>1, <2>2, <1>3
  <1>5. CASE p.loops > 1
    <2>1. PICK m \in ls..n :
            /\ \A i \in 1..n : Eff(p, i, s) < LoopEnd(p, s) <=> i <= m
            /\ FrameEvents(p, s) = (Rows(p, s, 1, ls - 1, 0) \o FlattenSeq(Passes(p, s, m)))
                                   \o Rows(p, s, m + 1, n, (p.loops - 1) * S)
            /\ Passes(p, s, m) \in Seq(Seq(Events(p))) /\ Passes(p, s, m) # <<>>
            /\ Len(Passes(p, s, m)) = p.loops
      BY <1>5, FrameUnfolds
    <2>2. \A k \in 1..p.loops : (k - 1) * S \in Nat
      <3>1. S \in Nat
        BY <1>1, <1>5, FrameTicks
      <3> HIDE DEF S
      <3>2. \A k \in Nat \ {0} : (k - 1) * S \in Nat
        BY <3>1, Multiples
      <3> QED BY <3>2, <1>1
    <2> DEFINE A == Rows(p, s, 1, ls - 1, 0)
               B == Passes(p, s, m)
               C == Rows(p, s, m + 1, n, (p.loops - 1) * S)
    <2>3. ls \in 1..(n + 1) /\ m \in 0..n /\ ls <= m + 1 /\ 1 \in 1..(n + 1) /\ ls - 1 \in 0..n
          /\ 1 <= ls - 1 + 1 /\ m + 1 \in 1..(n + 1) /\ n \in 0..n /\ m + 1 <= n + 1 /\ 0 \in Nat
      <3>1. n \in Int /\ ls \in Int /\ m \in Int /\ 1 <= ls /\ ls <= m /\ m <= n
        BY <1>1
      <3> HIDE DEF n, ls
      <3> QED BY <3>1
    <2>4. A \in Seq(Events(p)) /\ After(A, u)
      BY <2>3, <1>3
    <2>5. C \in Seq(Events(p)) /\ After(C, u)
      <3>1. (p.loops - 1) * S \in Nat
        BY <1>1, <2>2
      <3> QED BY <3>1, <2>3, <1>3
    <2>6. FlattenSeq(B) \in Seq(Events(p)) /\ After(FlattenSeq(B), u)
      <3>1. ASSUME NEW k \in 1..p.loops PROVE After(B[k], u)
        <4>1. B[k] = Rows(p, s, ls, m, (k - 1) * S)
          BY DEF Passes
        <4>2. After(Rows(p, s, ls, m, (k - 1) * S), u)
          BY <2>2, <2>3, <1>3
        <4> QED BY <4>1, <4>2
      <3> HIDE DEF B
      <3> QED BY <3>1, <2>1, FlatAfter DEF B
    <2> HIDE DEF A, B, C
    <2>7. A \o FlattenSeq(B) \in Seq(Events(p)) /\ After(A \o FlattenSeq(B), u)
      BY <2>4, <2>6, JoinShows
    <2>8. (A \o FlattenSeq(B)) \o C \in Seq(Events(p)) /\ After((A \o FlattenSeq(B)) \o C, u)
      BY <2>5, <2>7, JoinShows
    <2> QED BY <2>1, <2>8 DEF A, B, C
  <1> QED BY <1>1, <1>4, <1>5

(* A list that is played later shows later what it showed.                 *)
LEMMA LaterShows ==
  ASSUME NEW p, NEW E \in Seq(Events(p)), NEW off \in Int, NEW u \in Int, NEW v, v = off + u, NEW m
  PROVE  /\ Later(E, off) \in Seq(Events(p))
         /\ Shows(E, m, u) => Shows(Later(E, off), m, v)
         /\ After(E, u) => After(Later(E, off), v)
  <1> DEFINE n == Len(E)
             L == Later(E, off)
  <1>1. n \in Nat /\ \A k \in 1..n : E[k] \in Events(p)
    OBVIOUS
  <1>2. \A k \in 1..n : E[k].at \in Int /\ E[k].mask \in {p.mask[i] : i \in 1..Len(p.tick)}
    BY <1>1 DEF Events
  <1>3. L = [k \in 1..n |-> [E[k] EXCEPT !.at = @ + off]]
    BY DEF Later
  <1>4. ASSUME NEW k \in 1..n
        PROVE  /\ [E[k] EXCEPT !.at = @ + off] \in Events(p)
               /\ [E[k] EXCEPT !.at = @ + off].at = E[k].at + off
               /\ [E[k] EXCEPT !.at = @ + off].mask = E[k].mask
    <2>1. PICK x \in Int, l \in {p.mask[i] : i \in 1..Len(p.tick)} : E[k] = [at |-> x, mask |-> l]
      BY <1>1 DEF Events
    <2>2. [E[k] EXCEPT !.at = @ + off] = [at |-> x + off, mask |-> l]
      BY <2>1
    <2>3. [at |-> x + off, mask |-> l] \in Events(p)
      <3>1. x + off \in Int
        OBVIOUS
      <3> QED BY <3>1 DEF Events
    <2> QED BY <2>1, <2>2, <2>3
  <1> HIDE DEF L
  <1>5. L \in [1..n -> Events(p)] /\ \A k \in 1..n : L[k].at = E[k].at + off /\ L[k].mask = E[k].mask
    BY <1>3, <1>4
  <1>6. L \in Seq(Events(p)) /\ Len(L) = n
    BY <1>1, <1>5
  <1>7. \A k \in 1..n : (L[k].at > v <=> E[k].at > u) /\ (L[k].at <= v <=> E[k].at <= u)
    BY <1>2, <1>5
  <1>8. Shows(E, m, u) => Shows(L, m, v)
    <2> SUFFICES ASSUME Shows(E, m, u) PROVE Shows(L, m, v)
      OBVIOUS
    <2>1. PICK i \in 1..n : /\ E[i].mask = m /\ E[i].at <= u
                            /\ \A k \in 1..n : k > i => E[k].at > u
      BY DEF Shows
    <2>2. L[i].mask = m /\ L[i].at <= v /\ \A k \in 1..n : k > i => L[k].at > v
      BY <2>1, <1>5, <1>7
    <2> QED BY <2>2, <1>6 DEF Shows
  <1>9. After(E, u) => After(L, v)
    BY <1>6, <1>7 DEF After
  <1> QED BY <1>6, <1>8, <1>9 DEF L

(* Frames begin one after the other.                                       *)
LEMMA OffsetsGrow ==
  ASSUME NEW p \in Uploadable
  PROVE  /\ \A j \in 1..(Len(Slots(p)) + 1) : Offset(p, j) \in Nat
         /\ \A j, k \in 1..(Len(Slots(p)) + 1) : j <= k => Offset(p, j) <= Offset(p, k)
  <1> DEFINE n == Len(Slots(p))
             T == {k \in Nat : k <= n => Offset(p, k + 1) \in Nat
                                         /\ \A j \in 1..(k + 1) : Offset(p, j) \in Nat /\ Offset(p, j) <= Offset(p, k + 1)}
  <1>1. n \in Nat /\ DOMAIN Slots(p) = 1..n
    BY ProgramShape
  <1>2. \A j \in 1..n : /\ FrameDuration(p, Slots(p)[j]) \in Nat
                        /\ Offset(p, j + 1) = Offset(p, j) + FrameDuration(p, Slots(p)[j])
    <2> SUFFICES ASSUME NEW j \in 1..n
                 PROVE  /\ FrameDuration(p, Slots(p)[j]) \in Nat
                        /\ Offset(p, j + 1) = Offset(p, j) + FrameDuration(p, Slots(p)[j])
      OBVIOUS
    <2>1. OfPoint(p, j, Slots(p)[j])
      BY <1>1 DEF OfPoint
    <2>2. FrameDuration(p, Slots(p)[j]) \in Nat
      BY <2>1, FrameTicks
    <2> QED BY <2>2, <1>1, OffsetUnfolds
  <1>3. 0 \in T
    <2>1. Offset(p, 1) = 0
      BY OffsetUnfolds
    <2>2. \A j \in 1..(0 + 1) : j = 1
      OBVIOUS
    <2> QED BY <2>1, <2>2
  <1>4. ASSUME NEW k \in T PROVE k + 1 \in T
    <2> SUFFICES ASSUME k + 1 <= n
                 PROVE  /\ Offset(p, k + 2) \in Nat
                        /\ \A j \in 1..(k + 2) : Offset(p, j) \in Nat /\ Offset(p, j) <= Offset(p, k + 2)
      OBVIOUS
    <2>1. k \in Nat /\ k <= n /\ k + 1 \in 1..n /\ k + 1 + 1 = k + 2
      BY <1>1
    <2>2. Offset(p, k + 1) \in Nat /\ \A j \in 1..(k + 1) : Offset(p, j) \in Nat /\ Offset(p, j) <= Offset(p, k + 1)
      BY <2>1
    <2>3. PICK d \in Nat : Offset(p, k + 2) = Offset(p, k + 1) + d
      <3>1. PICK i \in 1..n : i = k + 1
        BY <2>1
      <3>2. Offset(p, i + 1) = Offset(p, i) + FrameDuration(p, Slots(p)[i]) /\ FrameDuration(p, Slots(p)[i]) \in Nat
        BY <1>2
      <3> QED BY <2>1, <3>1, <3>2
    <2>4. Offset(p, k + 2) \in Nat
      BY <2>2, <2>3
    <2>5. ASSUME NEW j \in 1..(k + 2) PROVE Offset(p, j) \in Nat /\ Offset(p, j) <= Offset(p, k + 2)
      <3>1. CASE j = k + 2
        BY <3>1, <2>4
      <3>2. CASE j \in 1..(k + 1)
        <4>1. Offset(p, j) \in Nat /\ Offset(p, j) <= Offset(p, k + 1)
          BY <3>2, <2>2
        <4> QED BY <4>1, <2>2, <2>3
      <3> QED BY <3>1, <3>2, <2>1
    <2> QED BY <2>4, <2>5
  <1>5. T = Nat
    <2> HIDE DEF T
    <2>1. \A k \in T : k + 1 \in T
      BY <1>4
    <2>2. T \in SUBSET Nat
      BY DEF T
    <2> QED BY <1>3, <2>1, <2>2, Induct
  <1>6. ASSUME NEW i \in 1..(n + 1)
        PROVE  Offset(p, i) \in Nat /\ \A j \in 1..i : Offset(p, j) <= Offset(p, i)
    <2>1. PICK k \in Nat : k + 1 = i /\ k <= n
      <3>1. i - 1 \in Nat /\ i - 1 + 1 = i /\ i - 1 <= n
        BY <1>1
      <3> QED BY <3>1
    <2>2. k \in T
      BY <1>5
    <2> QED BY <2>1, <2>2
  <1> HIDE DEF T
  <1>7. ASSUME NEW j \in 1..(n + 1), NEW k \in 1..(n + 1), j <= k PROVE Offset(p, j) <= Offset(p, k)
    <2>1. j \in 1..k
      BY <1>1, <1>7
    <2> QED BY <2>1, <1>6
  <1> QED BY <1>6, <1>7

-----------------------------------------------------------------------------
(* Where a run is in its sweep.                                            *)

\* Edge e is the last one output in the frame of point j; t ticks of it have
\* passed since the bracket last began anew, lr passes of it are left.
Placed(p, j, s, lr, e, t) ==
  /\ lr \in 1..p.loops /\ e \in 1..Len(p.tick) /\ t \in Int /\ t >= 1
  /\ Eff(p, e, s) < t /\ (e < Len(p.tick) => t <= Eff(p, e + 1, s))
  /\ lr > 1 => t <= LoopEnd(p, s)
  /\ lr = 1 => t <= Final(p, s) \/ t = 1
  /\ lr < p.loops => e >= p.loop_start

\* The tick of the sweep that is on the outputs.
Position(p, j, s, lr, t) == Offset(p, j) + ((p.loops - lr) * SliceLen(p, s) + (t - 1))

(* The end of a frame is the beginning of the next.                        *)
LEMMA FrameDone ==
  ASSUME NEW p, NEW j, NEW s, OfPoint(p, j, s), NEW e, NEW t, Placed(p, j, s, 1, e, t), t >= Final(p, s)
  PROVE  Position(p, j, s, 1, t) + 1 = Offset(p, j + 1)
  <1> DEFINE w == (p.loops - 1) * SliceLen(p, s)
  <1>1. /\ Final(p, s) \in Nat /\ p.loops \in Nat \ {0} /\ SliceLen(p, s) \in Int
        /\ p.loops > 1 => Final(p, s) >= 1 /\ SliceLen(p, s) >= 1
        /\ FrameDuration(p, s) \in Nat \ {0} /\ FrameDuration(p, s) >= Final(p, s) + w
        /\ FrameDuration(p, s) \in {1, Final(p, s) + w}
    <2>1. p.loops > 1 => Final(p, s) >= 1
      <3> SUFFICES ASSUME p.loops > 1 PROVE Final(p, s) >= 1
        OBVIOUS
      <3>1. Eff(p, p.loop_start, s) < LoopEnd(p, s) /\ LoopEnd(p, s) <= Final(p, s)
            /\ p.loop_start \in 1..Len(p.tick) /\ LoopEnd(p, s) \in Int /\ Final(p, s) \in Nat
        BY FrameTicks
      <3>2. Eff(p, p.loop_start, s) \in Int /\ Eff(p, p.loop_start, s) >= 0
        BY <3>1, EdgesRiseFar
      <3> QED BY <3>1, <3>2
    <2> QED BY <2>1, FrameTicks
  <1>2. w \in Nat /\ (p.loops = 1 => w = 0)
    <2>1. CASE p.loops = 1
      BY <2>1, <1>1
    <2>2. CASE p.loops > 1
      <3>1. p.loops - 1 \in Nat /\ SliceLen(p, s) \in Nat
        BY <2>2, <1>1
      <3> QED BY <2>2, <3>1
    <2> QED BY <2>1, <2>2, <1>1
  <1>3. t \in Int /\ t >= 1 /\ (t <= Final(p, s) \/ t = 1)
    BY DEF Placed
  <1>4. Offset(p, j) \in Nat /\ Offset(p, j + 1) = Offset(p, j) + FrameDuration(p, s)
    <2>1. p \in Uploadable /\ j \in DOMAIN Slots(p) /\ s = Slots(p)[j]
      BY DEF OfPoint
    <2>2. j \in 1..(Len(Slots(p)) + 1)
      BY <2>1, ProgramShape
    <2>3. Offset(p, j) \in Nat
      BY <2>1, <2>2, OffsetsGrow
    <2> QED BY <2>1, <2>3, OffsetUnfolds
  <1> HIDE DEF w
  <1>5. FrameDuration(p, s) = w + (t - 1) + 1
    <2>1. CASE Final(p, s) >= 1
      BY <2>1, <1>1, <1>2, <1>3
    <2>2. CASE Final(p, s) = 0
      BY <2>2, <1>1, <1>2, <1>3
    <2> QED BY <2>1, <2>2, <1>1
  <1>6. Position(p, j, s, 1, t) = Offset(p, j) + (w + (t - 1))
    BY DEF Position, w
  <1> QED BY <1>2, <1>3, <1>4, <1>5, <1>6

(* A run is within its frame, and what it shows is due.                    *)
LEMMA SweepShows ==
  ASSUME NEW p, NEW j, NEW s, OfPoint(p, j, s), NEW lr, NEW e, NEW t, Placed(p, j, s, lr, e, t)
  PROVE  /\ Position(p, j, s, lr, t) \in Nat
         /\ Position(p, j, s, lr, t) < Offset(p, j + 1)
         /\ Offset(p, j + 1) <= SweepTicks(p) /\ SweepTicks(p) \in Nat
         /\ SweepEvents(p) \in Seq(Events(p))
         /\ Shows(SweepEvents(p), p.mask[e], Position(p, j, s, lr, t))
  <1> DEFINE n == Len(p.tick)
             S == SliceLen(p, s)
             N == Len(Slots(p))
             l == p.loops - lr + 1
             v == (l - 1) * S + (t - 1)
             u == Position(p, j, s, lr, t)
             F(k) == FrameEvents(p, Slots(p)[k])
             L == [k \in DOMAIN Slots(p) |-> Later(F(k), Offset(p, k))]
  <1>1. /\ p \in Uploadable /\ N \in Nat \ {0} /\ DOMAIN Slots(p) = 1..N /\ j \in 1..N /\ s = Slots(p)[j]
        /\ p.loops \in Nat \ {0} /\ S \in Int /\ n \in Nat \ {0} /\ LoopEnd(p, s) \in Int
        /\ p.loop_start \in 1..n /\ Final(p, s) \in Nat
    <2>1. p \in Uploadable /\ j \in DOMAIN Slots(p) /\ s = Slots(p)[j]
      BY DEF OfPoint
    <2>2. N \in Nat \ {0} /\ DOMAIN Slots(p) = 1..N
      BY <2>1, ProgramShape
    <2> QED BY <2>1, <2>2, FrameTicks, EdgesRiseFar
  <1>2. /\ lr \in 1..p.loops /\ e \in 1..n /\ t \in Int /\ t >= 1
        /\ Eff(p, e, s) < t /\ (e < n => t <= Eff(p, e + 1, s))
        /\ (lr > 1 => t <= LoopEnd(p, s)) /\ (lr = 1 => t <= Final(p, s) \/ t = 1)
        /\ (lr < p.loops => e >= p.loop_start)
    BY DEF Placed
  <1>3. l \in 1..p.loops /\ l - 1 = p.loops - lr /\ t - 1 \in Int /\ t - 1 >= 0
        /\ (l > 1 => lr < p.loops) /\ (l < p.loops => lr > 1) /\ (l = p.loops => lr = 1)
    <2>1. p.loops \in Nat /\ lr \in 1..p.loops /\ t \in Int /\ t >= 1
      BY <1>1, <1>2
    <2> QED BY <2>1
  <1>4. Shows(F(j), p.mask[e], v)
    <2>1. Eff(p, e, s) <= t - 1 /\ (e < n => t - 1 < Eff(p, e + 1, s)) /\ (l < p.loops => t - 1 < LoopEnd(p, s))
      <3>1. Eff(p, e, s) \in Int /\ (e < n => Eff(p, e + 1, s) \in Int)
        <4>1. \A i \in 1..n : Eff(p, i, s) \in Int
          BY EdgesRiseFar
        <4>2. e < n => e + 1 \in 1..n
          BY <1>1, <1>2
        <4> QED BY <4>1, <4>2, <1>2
      <3>2. t \in Int /\ Eff(p, e, s) <= t - 1
        BY <3>1, <1>2
      <3>3. e < n => t - 1 < Eff(p, e + 1, s)
        BY <3>1, <3>2, <1>2
      <3>4. l < p.loops => t <= LoopEnd(p, s)
        BY <1>2, <1>3
      <3>5. LoopEnd(p, s) \in Int
        BY <1>1
      <3> HIDE DEF l
      <3> QED BY <3>2, <3>3, <3>4, <3>5
    <2>2. l > 1 => e >= p.loop_start
      BY <1>2, <1>3
    <2> HIDE DEF l
    <2>3. Shows(FrameEvents(p, s), p.mask[e], (l - 1) * S + (t - 1))
      BY <2>1, <2>2, <1>2, <1>3, FrameShows
    <2> QED BY <2>3, <1>1
  <1>5. v \in Nat /\ v < FrameDuration(p, s) /\ FrameDuration(p, s) \in Nat
    <2> DEFINE w == (p.loops - 1) * S
               x == (l - 1) * S
    <2>1. FrameDuration(p, s) >= Final(p, s) + w /\ FrameDuration(p, s) \in Nat \ {0}
      BY FrameTicks
    <2>2. CASE p.loops = 1
      <3>1. l = 1 /\ lr = 1 /\ x = 0 /\ w = 0
        BY <2>2, <1>1, <1>3
      <3> HIDE DEF x, w, l
      <3>2. v = t - 1
        BY <3>1, <1>2 DEF x
      <3>3. t \in Int /\ t >= 1 /\ (t <= Final(p, s) \/ t = 1) /\ Final(p, s) \in Nat
        BY <3>1, <1>1, <1>2
      <3> HIDE DEF v
      <3>4. FrameDuration(p, s) \in Nat \ {0} /\ FrameDuration(p, s) >= Final(p, s)
        BY <2>1, <3>1, <3>3
      <3> QED BY <3>2, <3>3, <3>4
    <2>3. CASE p.loops > 1
      <3>1. S >= 1 /\ LoopEnd(p, s) <= Final(p, s) /\ S = LoopEnd(p, s) - Eff(p, p.loop_start, s)
        BY <2>3, FrameTicks
      <3>2. Eff(p, p.loop_start, s) \in Int /\ Eff(p, p.loop_start, s) >= 0
        BY <1>1, EdgesRiseFar
      <3>3. Final(p, s) >= 1
        BY <3>1, <3>2, <1>1
      <3>4. S \in Nat
        BY <3>1, <1>1
      <3>5. p.loops \in Nat \ {0} /\ l \in Nat \ {0} /\ (l = p.loops \/ l < p.loops)
        BY <1>1, <1>3
      <3> HIDE DEF l, S
      <3>6. x \in Nat /\ w \in Nat
        BY <3>4, <3>5, Multiples
      <3>7. l < p.loops => x + S <= w
        BY <3>4, <3>5, Multiples
      <3>8. l = p.loops => x = w
        OBVIOUS
      <3>9. l < p.loops => t - 1 < Final(p, s)
        BY <3>1, <1>1, <1>2, <1>3
      <3>10. l = p.loops => t - 1 < Final(p, s)
        BY <3>3, <1>1, <1>2, <1>3
      <3>11. v = x + (t - 1)
        OBVIOUS
      <3> HIDE DEF x, w, v
      <3>12. x <= w
        BY <3>4, <3>5, <3>6, <3>7, <3>8
      <3>13. t - 1 < Final(p, s)
        BY <3>5, <3>9, <3>10
      <3>14. Final(p, s) \in Nat /\ t - 1 \in Nat
        BY <1>1, <1>3
      <3>15. v \in Nat /\ v < Final(p, s) + w
        BY <3>6, <3>11, <3>12, <3>13, <3>14
      <3> QED BY <2>1, <3>6, <3>14, <3>15
    <2> QED BY <2>2, <2>3, <1>1
  <1>6. u = Offset(p, j) + v
    BY <1>3 DEF Position
  <1>7. /\ \A k \in 1..(N + 1) : Offset(p, k) \in Nat
        /\ \A i, k \in 1..(N + 1) : i <= k => Offset(p, i) <= Offset(p, k)
    BY <1>1, OffsetsGrow
  <1>8. Offset(p, j + 1) = Offset(p, j) + FrameDuration(p, s)
    BY <1>1, OffsetUnfolds
  <1> HIDE DEF v, u, l
  <1>9. j \in 1..(N + 1) /\ j + 1 \in 1..(N + 1) /\ N + 1 \in 1..(N + 1) /\ j + 1 <= N + 1
    BY <1>1
  <1>10. u \in Nat /\ u < Offset(p, j + 1)
    <2>1. Offset(p, j) \in Nat
      BY <1>7, <1>9
    <2> QED BY <2>1, <1>5, <1>6, <1>8
  <1>11. Offset(p, j + 1) <= SweepTicks(p) /\ SweepTicks(p) \in Nat
    BY <1>7, <1>9 DEF SweepTicks
  <1>12. \A k \in 1..N : OfPoint(p, k, Slots(p)[k])
    BY <1>1 DEF OfPoint
  <1> DEFINE c == -1
  <1>c. c \in Int /\ c < 0 /\ \A o \in Nat : o - 1 = o + c
    OBVIOUS
  <1> HIDE DEF c
  <1>13. \A k \in 1..N : F(k) \in Seq(Events(p)) /\ After(F(k), c)
    BY <1>c, <1>12, FrameAfter
  <1> HIDE DEF F
  <1>14. ASSUME NEW k \in 1..N
         PROVE  /\ Later(F(k), Offset(p, k)) \in Seq(Events(p))
                /\ k > j => After(Later(F(k), Offset(p, k)), u)
    <2>1. Offset(p, k) \in Nat /\ k \in 1..(N + 1)
      BY <1>1, <1>7
    <2>2. Offset(p, k) - 1 = Offset(p, k) + c /\ Offset(p, k) \in Int
      BY <2>1, <1>c
    <2>3. Later(F(k), Offset(p, k)) \in Seq(Events(p)) /\ After(Later(F(k), Offset(p, k)), Offset(p, k) - 1)
      BY <2>2, <1>c, <1>13, LaterShows
    <2>4. ASSUME k > j PROVE After(Later(F(k), Offset(p, k)), u)
      <3>1. Offset(p, j + 1) <= Offset(p, k)
        <4>1. k \in Int /\ j \in Int
          BY <1>1
        <4>2. j + 1 <= k
          BY <4>1, <2>4
        <4> QED BY <4>2, <2>1, <1>7, <1>9
      <3>2. Offset(p, k) - 1 >= u
        <4>1. Offset(p, j + 1) \in Int /\ Offset(p, k) \in Int
          BY <2>1, <1>7, <1>9
        <4> QED BY <4>1, <3>1, <1>10
      <3> DEFINE E == Later(F(k), Offset(p, k))
      <3> HIDE DEF E
      <3>3. \A i \in 1..Len(E) : E[i].at \in Int
        <4>1. \A i \in 1..Len(E) : E[i] \in Events(p)
          BY <2>3 DEF E
        <4> QED BY <4>1 DEF Events
      <3>4. \A i \in 1..Len(E) : E[i].at > Offset(p, k) - 1
        BY <2>3 DEF After, E
      <3>5. \A i \in 1..Len(E) : E[i].at > u
        BY <3>2, <3>3, <3>4, <2>1, <1>10
      <3> QED BY <3>5 DEF After, E
    <2> QED BY <2>3, <2>4
  <1>15. Shows(Later(F(j), Offset(p, j)), p.mask[e], u)
    <2>1. Offset(p, j) \in Int /\ v \in Int /\ F(j) \in Seq(Events(p))
      BY <1>1, <1>5, <1>7, <1>9, <1>13
    <2> QED BY <2>1, <1>4, <1>6, LaterShows
  <1>16. /\ L \in Seq(Seq(Events(p))) /\ Len(L) = N /\ L # <<>>
         /\ \A k \in 1..N : L[k] = Later(F(k), Offset(p, k))
    <2>1. L = [k \in 1..N |-> Later(F(k), Offset(p, k))]
      BY <1>1
    <2> HIDE DEF L
    <2>2. L \in [1..N -> Seq(Events(p))]
      BY <2>1, <1>14
    <2>3. L \in Seq(Seq(Events(p))) /\ Len(L) = N
      BY <2>2, <1>1
    <2>4. \A k \in 1..N : L[k] = Later(F(k), Offset(p, k))
      BY <2>1
    <2>5. L # <<>>
      BY <2>3, <1>1
    <2> QED BY <2>3, <2>4, <2>5
  <1>17. SweepEvents(p) = FlattenSeq(L)
    BY DEF SweepEvents, F
  <1> HIDE DEF L
  <1>18. Shows(FlattenSeq(L), p.mask[e], u)
    <2>1. j \in 1..Len(L) /\ Shows(L[j], p.mask[e], u)
      BY <1>1, <1>15, <1>16
    <2>2. \A k \in 1..Len(L) : k > j => After(L[k], u)
      BY <1>14, <1>16
    <2> QED BY <2>1, <2>2, <1>16, FlatShows
  <1>19. FlattenSeq(L) \in Seq(Events(p))
    BY <1>16, FlatAfter
  <1> QED BY <1>10, <1>11, <1>17, <1>18, <1>19 DEF u

(* What shows at a tick is what is scheduled then.                         *)
LEMMA ScheduledShows ==
  ASSUME NEW p, NEW w, NEW m, NEW u \in Int, u = SweepTick(p, w, SweepTicks(p)), u < SweepTicks(p),
         SweepEvents(p) \in Seq(Events(p)), Shows(SweepEvents(p), m, u)
  PROVE  Scheduled(p, w) = m
  <1> DEFINE E == SweepEvents(p)
             D == {i \in DOMAIN E : E[i].at <= u}
  <1>1. DOMAIN E = 1..Len(E) /\ Len(E) \in Nat /\ \A i \in 1..Len(E) : E[i].at \in Int
    <2> HIDE DEF E
    <2>1. E \in Seq(Events(p))
      BY DEF E
    <2>2. DOMAIN E = 1..Len(E) /\ Len(E) \in Nat /\ \A i \in 1..Len(E) : E[i] \in Events(p)
      BY <2>1
    <2> QED BY <2>2 DEF Events
  <1>2. PICK i \in 1..Len(E) : /\ E[i].mask = m /\ E[i].at <= u
                               /\ \A k \in 1..Len(E) : k > i => E[k].at > u
    BY DEF Shows
  <1>3. Scheduled(p, w) = E[Max(D)].mask
    BY DEF Scheduled
  <1> HIDE DEF E
  <1>4. i \in D /\ \A k \in D : k \in 1..Len(E) /\ i >= k
    <2>1. i \in D
      BY <1>1, <1>2
    <2>2. ASSUME NEW k \in D PROVE k \in 1..Len(E) /\ i >= k
      <3>1. k \in 1..Len(E) /\ E[k].at <= u /\ E[k].at \in Int
        BY <1>1
      <3>2. ~(k > i)
        BY <3>1, <1>2
      <3> QED BY <3>1, <3>2, <1>1
    <2> QED BY <2>1, <2>2
  <1> HIDE DEF D
  <1>5. Max(D) = i
    <2>1. Max(D) \in D /\ \A k \in D : Max(D) >= k
      BY <1>4 DEF Max
    <2>2. Max(D) \in 1..Len(E) /\ i >= Max(D) /\ Max(D) >= i
      BY <2>1, <1>4
    <2> QED BY <2>2, <1>1
  <1> QED BY <1>2, <1>3, <1>5

-----------------------------------------------------------------------------
(* The engine is where the schedule is.                                    *)

Playing ==
  /\ Placed(image, point + 1, slot, loops_remaining, edge_index, time_count)
  /\ state_mask = image.mask[edge_index]
  /\ SweepTick(image, g_time, SweepTicks(image))
       = Position(image, point + 1, slot, loops_remaining, time_count)

OnSchedule ==
  /\ g_time \in Nat /\ (reset => g_time = 0)
  /\ running => Playing
  /\ ~reset /\ ~running => state_mask = 0 /\ ~image.forever /\ g_time >= SweepTicks(image)

(* Counting in a circle.                                                   *)
LEMMA TickMod ==
  ASSUME NEW n \in Nat \ {0}, NEW w \in Nat
  PROVE  /\ w % n \in 0..(n - 1)
         /\ (w % n) + 1 < n => (w + 1) % n = (w % n) + 1
         /\ (w % n) + 1 = n => (w + 1) % n = 0
  <1> DEFINE q == w \div n
             r == w % n
  <1>1. q \in Nat /\ r \in 0..(n - 1) /\ w = q * n + r
    OBVIOUS
  <1>2. \A a \in Nat, c \in 0..(n - 1) : (a * n + c) % n = c
    OBVIOUS
  <1> HIDE DEF q, r
  <1>3. ASSUME r + 1 < n PROVE (w + 1) % n = r + 1
    <2>1. r + 1 \in 0..(n - 1) /\ w + 1 = q * n + (r + 1)
      BY <1>1, <1>3
    <2> QED BY <2>1, <1>1, <1>2
  <1>4. ASSUME r + 1 = n PROVE (w + 1) % n = 0
    <2>1. w + 1 = (q + 1) * n + 0 /\ q + 1 \in Nat /\ 0 \in 0..(n - 1)
      BY <1>1, <1>4
    <2> QED BY <2>1, <1>2
  <1> QED BY <1>1, <1>3, <1>4 DEF r

(* The next tick of a run is the next of its sweep, or the first of another.*)
LEMMA Ticks ==
  ASSUME NEW p, NEW w \in Nat, NEW n \in Nat, NEW u \in Nat, u = SweepTick(p, w, n), u < n
  PROVE  /\ u + 1 < n => SweepTick(p, w + 1, n) = u + 1
         /\ p.forever /\ u + 1 = n => SweepTick(p, w + 1, n) = 0
         /\ ~p.forever => u = w
  <1>1. n \in Nat \ {0}
    OBVIOUS
  <1>2. CASE p.forever
    <2>1. u = w % n /\ SweepTick(p, w + 1, n) = (w + 1) % n
      BY <1>2 DEF SweepTick
    <2> QED BY <2>1, <1>1, <1>2, TickMod
  <1>3. CASE ~p.forever
    BY <1>3 DEF SweepTick
  <1> QED BY <1>2, <1>3

(* The first tick of a frame.                                              *)
LEMMA FrameOpens ==
  ASSUME image \in Uploadable, image' = image, NEW k \in DOMAIN Slots(image), Reference!Frame(k - 1)
  PROVE  /\ Placed(image, point' + 1, slot', loops_remaining', edge_index', time_count')
         /\ state_mask' = image.mask[edge_index']
         /\ Position(image, point' + 1, slot', loops_remaining', time_count') = Offset(image, k)
         /\ OfPoint(image, point' + 1, slot')
  <1> DEFINE s == Slots(image)[k]
             n == Len(image.tick)
  <1>1. k \in Nat /\ k - 1 + 1 = k /\ OfPoint(image, k, s)
    <2>1. k \in 1..Len(Slots(image)) /\ Len(Slots(image)) \in Nat
      BY ProgramShape
    <2> QED BY <2>1 DEF OfPoint
  <1>2. point' = k - 1 /\ slot' = s /\ loops_remaining' = image.loops
    BY <1>1, ReferenceTerms DEF Reference!Frame
  <1>3. s \in Int /\ Eff(image, 1, s) = 0
    BY <1>1, EdgesRiseFar, DueInt
  <1>4. state_mask' = image.mask[1] /\ time_count' = 1 /\ edge_index' = 1
    <2>1. Reference!Eff(image, 1, slot') = 0 /\ Reference!Eff(image, 0 + 1, slot') = 0
      BY <1>2, <1>3, ReferenceTerms
    <2>2. Reference!Output(0, slot')
      BY <2>1 DEF Reference!Frame
    <2> QED BY <2>1, <2>2 DEF Reference!Output
  <1>5. /\ n \in Nat \ {0} /\ image.loops \in Nat \ {0} /\ SliceLen(image, s) \in Int
        /\ image.loops > 1 => LoopEnd(image, s) >= 1
    <2>1. ASSUME image.loops > 1 PROVE LoopEnd(image, s) >= 1
      <3>1. Eff(image, image.loop_start, s) < LoopEnd(image, s) /\ LoopEnd(image, s) \in Int
            /\ image.loop_start \in 1..n
        BY <1>1, <2>1, FrameTicks
      <3>2. Eff(image, image.loop_start, s) \in Int /\ Eff(image, image.loop_start, s) >= 0
        BY <1>1, <3>1, EdgesRiseFar
      <3> QED BY <3>1, <3>2
    <2> QED BY <1>1, <2>1, FrameTicks, EdgesRiseFar
  <1>6. 1 < n => 1 <= Eff(image, 1 + 1, s)
    <2> SUFFICES ASSUME 1 < n PROVE 1 <= Eff(image, 1 + 1, s)
      OBVIOUS
    <2>1. 1 \in 1..n /\ 1 + 1 \in 1..n /\ 1 < 1 + 1
      BY <1>5
    <2>2. Eff(image, 1, s) < Eff(image, 1 + 1, s) /\ Eff(image, 1 + 1, s) \in Int
      BY <1>1, <2>1, EdgesRiseFar
    <2> QED BY <2>2, <1>3
  <1>7. Placed(image, k, s, image.loops, 1, 1)
    <2>1. image.loops \in 1..image.loops /\ 1 \in 1..n
      BY <1>5
    <2> QED BY <2>1, <1>3, <1>5, <1>6 DEF Placed
  <1>8. Position(image, k, s, image.loops, 1) = Offset(image, k)
    <2>1. Offset(image, k) \in Nat
      <3>1. k \in 1..(Len(Slots(image)) + 1)
        BY ProgramShape
      <3> QED BY <3>1, OffsetsGrow
    <2>2. (image.loops - image.loops) * SliceLen(image, s) = 0
      BY <1>5
    <2> QED BY <2>1, <2>2 DEF Position
  <1> QED BY <1>1, <1>2, <1>4, <1>7, <1>8

(* A step of the engine is a step in the sweep: the bracket's jump back ... *)
LEMMA RewindPlaces ==
  ASSUME NEW p, NEW j, NEW s, OfPoint(p, j, s), NEW lr, NEW e, NEW t, Placed(p, j, s, lr, e, t),
         lr > 1, p.loops > 1, t >= LoopEnd(p, s),
         NEW a, a = p.loop_start, NEW t2, t2 = Eff(p, a, s) + 1
  PROVE  /\ Placed(p, j, s, lr - 1, a, t2)
         /\ Position(p, j, s, lr - 1, t2) = Position(p, j, s, lr, t) + 1
  <1> DEFINE n == Len(p.tick)
             S == SliceLen(p, s)
             w == (p.loops - lr) * S
  <1>1. /\ n \in Nat \ {0} /\ a \in 1..n /\ p.loops \in Nat /\ LoopEnd(p, s) \in Int
        /\ Final(p, s) \in Nat /\ LoopEnd(p, s) <= Final(p, s)
        /\ S \in Int /\ S = LoopEnd(p, s) - Eff(p, a, s)
    BY FrameTicks, EdgesRiseFar
  <1>2. Eff(p, a, s) \in Int /\ Eff(p, a, s) >= 0 /\ Eff(p, a, s) < LoopEnd(p, s)
    BY <1>1, FrameTicks, EdgesRiseFar
  <1>3. lr \in 1..p.loops /\ t \in Int /\ t = LoopEnd(p, s)
    BY <1>1 DEF Placed
  <1>4. a < n => t2 <= Eff(p, a + 1, s)
    <2> SUFFICES ASSUME a < n PROVE t2 <= Eff(p, a + 1, s)
      OBVIOUS
    <2>1. a + 1 \in 1..n /\ a < a + 1
      BY <1>1
    <2>2. Eff(p, a, s) < Eff(p, a + 1, s) /\ Eff(p, a + 1, s) \in Int
      BY <1>1, <2>1, EdgesRiseFar
    <2> QED BY <2>2, <1>2
  <1>5. Placed(p, j, s, lr - 1, a, t2)
    <2>1. lr - 1 \in 1..p.loops /\ lr - 1 < p.loops
      BY <1>1, <1>3
    <2>2. t2 \in Int /\ t2 >= 1 /\ Eff(p, a, s) < t2 /\ t2 <= LoopEnd(p, s) /\ t2 <= Final(p, s)
      BY <1>1, <1>2
    <2> QED BY <2>1, <2>2, <1>1, <1>4 DEF Placed
  <1>6. (p.loops - (lr - 1)) * S = w + S
    <2>1. p.loops - (lr - 1) = p.loops - lr + 1
      BY <1>1, <1>3
    <2>2. p.loops - lr \in Nat
      BY <1>1, <1>3
    <2> QED BY <2>1, <2>2, <1>1, Multiples
  <1>7. w \in Int
    BY <1>1, <1>3
  <1>8. Offset(p, j) \in Nat
    <2>1. p \in Uploadable /\ j \in 1..(Len(Slots(p)) + 1)
      BY ProgramShape DEF OfPoint
    <2> QED BY <2>1, OffsetsGrow
  <1>9. Position(p, j, s, lr, t) = Offset(p, j) + (w + (t - 1))
        /\ Position(p, j, s, lr - 1, t2) = Offset(p, j) + (w + S + (t2 - 1))
    BY <1>6 DEF Position
  <1> HIDE DEF w, S
  <1>10. Offset(p, j) + (w + S + (t2 - 1)) = Offset(p, j) + (w + (t - 1)) + 1
    <2>1. S + (t2 - 1) = t
      BY <1>1, <1>2, <1>3
    <2>2. t2 \in Int /\ Offset(p, j) \in Int /\ t \in Int
      BY <1>2, <1>3, <1>8
    <2>4. S \in Int /\ w \in Int
      BY <1>1, <1>7
    <2>5. PICK o \in Int : o = Offset(p, j)
      BY <2>2
    <2>6. PICK b \in Int : b = t2 - 1
      BY <2>2
    <2>7. S + b = t
      BY <2>1, <2>6
    <2>8. o + (w + S + b) = o + (w + (t - 1)) + 1
      BY <2>2, <2>4, <2>5, <2>6, <2>7
    <2> QED BY <2>5, <2>6, <2>8
  <1> QED BY <1>5, <1>9, <1>10

(* ... and a tick between seams.                                           *)
LEMMA TickPlaces ==
  ASSUME NEW p, NEW j, NEW s, OfPoint(p, j, s), NEW lr, NEW e, NEW t, Placed(p, j, s, lr, e, t),
         lr > 1 => t < LoopEnd(p, s), t < Final(p, s),
         NEW f, f = IF e < Len(p.tick) /\ t = Eff(p, e + 1, s) THEN e + 1 ELSE e
  PROVE  /\ Placed(p, j, s, lr, f, t + 1)
         /\ Position(p, j, s, lr, t + 1) = Position(p, j, s, lr, t) + 1
  <1> DEFINE n == Len(p.tick)
             w == (p.loops - lr) * SliceLen(p, s)
  <1>1. /\ n \in Nat \ {0} /\ p.loops \in Nat /\ LoopEnd(p, s) \in Int /\ Final(p, s) \in Nat
        /\ SliceLen(p, s) \in Int /\ p.loop_start \in 1..n /\ \A i \in 1..n : Eff(p, i, s) \in Int
    BY FrameTicks, EdgesRiseFar
  <1>2. /\ lr \in 1..p.loops /\ e \in 1..n /\ t \in Int /\ t >= 1
        /\ Eff(p, e, s) < t /\ (e < n => t <= Eff(p, e + 1, s))
        /\ (lr < p.loops => e >= p.loop_start)
    BY DEF Placed
  <1>3. f \in 1..n /\ f >= e /\ Eff(p, f, s) < t + 1
    BY <1>1, <1>2
  <1>4. f < n => t + 1 <= Eff(p, f + 1, s)
    <2>1. CASE f = e
      <3> SUFFICES ASSUME e < n PROVE t + 1 <= Eff(p, e + 1, s)
        BY <2>1
      <3>1. e + 1 \in 1..n
        BY <1>1, <1>2
      <3>2. Eff(p, e + 1, s) \in Int /\ t # Eff(p, e + 1, s)
        BY <3>1, <2>1, <1>1, <1>2
      <3> QED BY <3>2, <1>2
    <2>2. CASE f # e
      <3>1. f = e + 1 /\ t = Eff(p, f, s)
        BY <2>2
      <3> SUFFICES ASSUME f < n PROVE t + 1 <= Eff(p, f + 1, s)
        OBVIOUS
      <3>2. f + 1 \in 1..n /\ f < f + 1
        <4>1. f \in Int /\ f >= 1 /\ n \in Int /\ f < n
          BY <1>1, <1>3
        <4> HIDE DEF n
        <4> QED BY <4>1
      <3>3. Eff(p, f, s) < Eff(p, f + 1, s) /\ Eff(p, f + 1, s) \in Int
        BY <3>2, <1>3, EdgesRiseFar
      <3> QED BY <3>1, <3>3, <1>2
    <2> QED BY <2>1, <2>2
  <1>5. Placed(p, j, s, lr, f, t + 1)
    <2>1. t + 1 \in Int /\ t + 1 >= 1 /\ t + 1 <= Final(p, s) /\ (lr > 1 => t + 1 <= LoopEnd(p, s))
      BY <1>1, <1>2
    <2>2. lr < p.loops => f >= p.loop_start
      BY <1>1, <1>2, <1>3
    <2> QED BY <2>1, <2>2, <1>2, <1>3, <1>4 DEF Placed
  <1>6. w \in Int
    BY <1>1, <1>2
  <1>7. Offset(p, j) \in Nat
    <2>1. p \in Uploadable /\ j \in 1..(Len(Slots(p)) + 1)
      BY ProgramShape DEF OfPoint
    <2> QED BY <2>1, OffsetsGrow
  <1>8. \A x : Position(p, j, s, lr, x) = Offset(p, j) + (w + (x - 1))
    BY DEF Position
  <1> HIDE DEF w
  <1> QED BY <1>2, <1>5, <1>6, <1>7, <1>8

(* A sweep takes ticks.                                                    *)
LEMMA SweepNat ==
  ASSUME NEW p \in Uploadable
  PROVE  SweepTicks(p) \in Nat \ {0}
  <1> DEFINE n == Len(Slots(p))
  <1>1. n \in Nat \ {0} /\ DOMAIN Slots(p) = 1..n
    BY ProgramShape
  <1>2. OfPoint(p, n, Slots(p)[n])
    BY <1>1 DEF OfPoint
  <1>3. FrameDuration(p, Slots(p)[n]) \in Nat \ {0}
    BY <1>2, FrameTicks
  <1>4. Offset(p, n) \in Nat
    <2>1. n \in 1..(n + 1)
      BY <1>1
    <2> QED BY <2>1, OffsetsGrow
  <1>5. Offset(p, n + 1) = Offset(p, n) + FrameDuration(p, Slots(p)[n])
    BY <1>1, <1>4, OffsetUnfolds
  <1> QED BY <1>3, <1>4, <1>5 DEF SweepTicks

(* What a placed engine outputs is scheduled.                              *)
LEMMA PlacedShows ==
  ASSUME NEW p, NEW j, NEW s, OfPoint(p, j, s), NEW lr, NEW e, NEW t, Placed(p, j, s, lr, e, t),
         NEW w, SweepTick(p, w, SweepTicks(p)) = Position(p, j, s, lr, t)
  PROVE  Scheduled(p, w) = p.mask[e]
  <1> DEFINE u == Position(p, j, s, lr, t)
  <1>1. /\ u \in Nat /\ u < Offset(p, j + 1) /\ Offset(p, j + 1) <= SweepTicks(p) /\ SweepTicks(p) \in Nat
        /\ SweepEvents(p) \in Seq(Events(p)) /\ Shows(SweepEvents(p), p.mask[e], u)
    BY SweepShows
  <1>2. Offset(p, j + 1) \in Nat
    <2>1. p \in Uploadable /\ j + 1 \in 1..(Len(Slots(p)) + 1)
      BY ProgramShape DEF OfPoint
    <2> QED BY <2>1, OffsetsGrow
  <1>3. u < SweepTicks(p) /\ u = SweepTick(p, w, SweepTicks(p))
    BY <1>1, <1>2
  <1> HIDE DEF u
  <1> QED BY <1>1, <1>3, ScheduledShows

-----------------------------------------------------------------------------
(* The engine stays on schedule.                                           *)

(* FIRE opens the first frame.                                             *)
LEMMA FireOpens ==
  ASSUME image \in Uploadable, Fire
  PROVE  /\ Reference!Frame(0) /\ FrameHeld' /\ image' = image
         /\ running' = TRUE /\ reset' = FALSE /\ g_time' = g_time
  <1>1. 1 \in DOMAIN Slots(image) /\ 1 - 1 = 0 /\ Count \in Nat \ {0}
    BY ProgramShape DEF Count
  <1>2. PointAt(0) = Slots(image)[1]
    BY <1>1, BramHolds
  <1>3. NewFrame(Slots(image)[1], Count) /\ point' = 1 - 1 /\ loops_remaining' = image.loops
        /\ image' = image /\ running' = TRUE /\ reset' = FALSE /\ g_time' = g_time
    BY <1>1, <1>2 DEF Fire, sched
  <1>4. Reference!Frame(1 - 1) /\ FrameHeld'
    BY <1>1, <1>3, FrameBegins
  <1> QED BY <1>1, <1>3, <1>4

(* A run that is at the tick before k's frame opens it on schedule.        *)
LEMMA FramePlays ==
  ASSUME image \in Uploadable, image' = image, NEW k \in DOMAIN Slots(image), Reference!Frame(k - 1),
         SweepTick(image, g_time', SweepTicks(image)) = Offset(image, k)
  PROVE  Playing'
  <1>1. /\ Placed(image, point' + 1, slot', loops_remaining', edge_index', time_count')
        /\ state_mask' = image.mask[edge_index']
        /\ Position(image, point' + 1, slot', loops_remaining', time_count') = Offset(image, k)
    BY FrameOpens
  <1> QED BY <1>1 DEF Playing

(* Every tick of the engine is the schedule's next, whichever seam it is.  *)
LEMMA ClockOnSchedule ==
  ASSUME FramesOutlastRead, Prefetch, InStep, OnSchedule, Clock
  PROVE  OnSchedule'
  <1> DEFINE n == SweepTicks(image)
             j == point + 1
             u == Position(image, j, slot, loops_remaining, time_count)
  <1>0. image \in Uploadable /\ image' = image /\ g_time \in Nat /\ g_time' = g_time + 1
        /\ ~reset /\ reset' = reset /\ Count = Len(image.tick)
    BY DEF Clock, Prefetch, PrefetchType, OnSchedule, Schedule, Count
  <1>1. ASSUME running
        PROVE  /\ OfPoint(image, j, slot)
               /\ Placed(image, j, slot, loops_remaining, edge_index, time_count)
               /\ state_mask = image.mask[edge_index]
               /\ SweepTick(image, g_time, n) = u
               /\ u \in Nat /\ u < n /\ n \in Nat /\ Offset(image, j + 1) \in Nat
               /\ u < Offset(image, j + 1) /\ Offset(image, j + 1) <= n
               /\ point \in Nat /\ j \in 1..Len(Slots(image))
    <2>1. FrameHeld /\ Playing
      BY <1>1 DEF InStep, OnSchedule
    <2>2. OfPoint(image, j, slot) /\ point \in Nat /\ j \in 1..Len(Slots(image)) /\ Len(Slots(image)) \in Nat
      BY <2>1, <1>0, ProgramShape DEF FrameHeld, OfPoint
    <2>3. /\ Placed(image, j, slot, loops_remaining, edge_index, time_count)
          /\ state_mask = image.mask[edge_index] /\ SweepTick(image, g_time, n) = u
      BY <2>1 DEF Playing
    <2>4. u \in Nat /\ n \in Nat /\ u < Offset(image, j + 1) /\ Offset(image, j + 1) <= n
      BY <2>2, <2>3, SweepShows
    <2>5. Offset(image, j + 1) \in Nat
      <3>1. j + 1 \in 1..(Len(Slots(image)) + 1)
        BY <2>2
      <3> QED BY <3>1, <1>0, OffsetsGrow
    <2> HIDE DEF u, n, j
    <2>6. u < n
      BY <2>4, <2>5
    <2> QED BY <2>2, <2>3, <2>4, <2>5, <2>6
  <1>2. ASSUME running, u + 1 < n PROVE SweepTick(image, g_time', n) = u + 1
    <2> HIDE DEF u, n
    <2> QED BY <1>0, <1>1, <1>2, Ticks
  <1>3. SUFFICES ASSUME TRUE
                 PROVE  /\ running' => Playing'
                        /\ ~running' => state_mask' = 0 /\ ~image.forever /\ g_time' >= n
    BY <1>0 DEF OnSchedule
  <1>4. ASSUME running, AtFrameEnd
        PROVE  loops_remaining = 1 /\ time_count >= Final(image, slot)
               /\ u + 1 = Offset(image, j + 1)
    <2>1. Placed(image, j, slot, loops_remaining, edge_index, time_count) /\ FrameHeld
      BY <1>1, <1>4 DEF InStep
    <2>2. time_count >= Final(image, slot)
      BY <1>4, <2>1 DEF AtFrameEnd, FrameHeld
    <2>3. loops_remaining = 1
      <3>1. /\ Final(image, slot) \in Nat /\ LoopEnd(image, slot) \in Int /\ image.loops \in Nat
            /\ image.loops > 1 => LoopEnd(image, slot) <= Final(image, slot)
        BY <1>1, <1>4, FrameTicks
      <3>2. loops_remaining \in 1..image.loops /\ time_count \in Int
        BY <2>1 DEF Placed
      <3>3. ~(image.loops > 1 /\ loops_remaining > 1 /\ time_count >= LoopEnd(image, slot))
        BY <1>4, <2>1 DEF AtFrameEnd, AtLoopEnd, FrameHeld
      <3> QED BY <3>1, <3>2, <3>3, <2>2
    <2>4. u + 1 = Offset(image, j + 1)
      BY <1>1, <1>4, <2>1, <2>2, <2>3, FrameDone
    <2> QED BY <2>2, <2>3, <2>4
  <1>5. ASSUME running, AtFrameEnd, ~MorePoints PROVE u + 1 = n
    <2>1. j = Len(Slots(image))
      <3>1. Slots(image) = IF image.points = <<>> THEN <<0>> ELSE image.points
        BY DEF Slots
      <3>2. image.points = <<>> \/ ~(j < Len(image.points))
        BY <1>5 DEF MorePoints
      <3>3. j \in 1..Len(Slots(image)) /\ Len(Slots(image)) \in Nat
        BY <1>0, <1>1, <1>5, ProgramShape
      <3>4. CASE image.points = <<>>
        <4>1. Len(Slots(image)) = 1
          BY <3>1, <3>4
        <4> QED BY <3>3, <4>1
      <3>5. CASE image.points # <<>>
        BY <3>1, <3>2, <3>3, <3>5
      <3> QED BY <3>4, <3>5
    <2> QED BY <1>4, <1>5, <2>1 DEF SweepTicks
  <1>6. Reference!Rewind => running /\ running' /\ Playing'
    <2> SUFFICES ASSUME Reference!Rewind PROVE running /\ running' /\ Playing'
      OBVIOUS
    <2> DEFINE a == image.loop_start
               t2 == Eff(image, a, slot) + 1
    <2>1. running /\ running' /\ image.loops > 1 /\ loops_remaining > 1 /\ time_count >= LoopEnd(image, slot)
          /\ slot' = slot /\ point' = point /\ loops_remaining' = loops_remaining - 1
      BY ReferenceTerms DEF Reference!Rewind, Reference!AtLoopEnd
    <2>2. state_mask' = image.mask[a] /\ time_count' = t2 /\ edge_index' = a
      <3>1. a \in 1..Len(image.tick) /\ a - 1 + 1 = a
        BY <1>0, ProgramShape
      <3>2. Reference!Output(a - 1, slot)
        BY DEF Reference!Rewind
      <3> QED BY <3>1, <3>2, ReferenceTerms DEF Reference!Output
    <2> HIDE DEF a, t2
    <2>3. Placed(image, j, slot, loops_remaining - 1, a, t2)
          /\ Position(image, j, slot, loops_remaining - 1, t2) = u + 1
      BY <1>1, <2>1, RewindPlaces DEF a, t2
    <2>4. u + 1 < n
      <3>1. Position(image, j, slot, loops_remaining - 1, t2) < Offset(image, j + 1)
        BY <1>1, <2>1, <2>3, SweepShows
      <3> HIDE DEF u, n, j
      <3> QED BY <3>1, <1>1, <2>1, <2>3
    <2> QED BY <1>0, <1>2, <2>1, <2>2, <2>3, <2>4 DEF Playing
  <1>7. Reference!Tick => running /\ running' /\ Playing'
    <2> SUFFICES ASSUME Reference!Tick PROVE running /\ running' /\ Playing'
      OBVIOUS
    <2> DEFINE f == IF edge_index < Len(image.tick) /\ time_count = Eff(image, edge_index + 1, slot)
                      THEN edge_index + 1 ELSE edge_index
    <2>1. running /\ running' /\ ~Reference!AtLoopEnd /\ ~Reference!AtFrameEnd
          /\ slot' = slot /\ point' = point /\ loops_remaining' = loops_remaining /\ time_count' = time_count + 1
      BY DEF Reference!Tick
    <2>2. edge_index' = f
      BY <1>0, ReferenceTerms DEF Reference!Tick, Reference!Due
    <2>3. state_mask' = image.mask[f]
      BY <1>0, <1>1, <2>1, ReferenceTerms DEF Reference!Tick, Reference!Due
    <2>4. (loops_remaining > 1 => time_count < LoopEnd(image, slot)) /\ time_count < Final(image, slot)
      <3>1. ~(image.loops > 1 /\ loops_remaining > 1 /\ time_count >= LoopEnd(image, slot))
            /\ ~(time_count >= Final(image, slot))
        BY <2>1, ReferenceTerms DEF Reference!AtFrameEnd, Reference!AtLoopEnd
      <3>2. time_count \in Int /\ loops_remaining \in 1..image.loops
        BY <1>1, <2>1 DEF Placed
      <3>3. LoopEnd(image, slot) \in Int /\ Final(image, slot) \in Nat /\ image.loops \in Nat
        BY <1>1, <2>1, FrameTicks
      <3> QED BY <3>1, <3>2, <3>3
    <2>5. Placed(image, j, slot, loops_remaining, f, time_count + 1)
          /\ Position(image, j, slot, loops_remaining, time_count + 1) = u + 1
      BY <1>1, <2>1, <2>4, TickPlaces
    <2> HIDE DEF f
    <2>6. u + 1 < n
      <3>1. Position(image, j, slot, loops_remaining, time_count + 1) < Offset(image, j + 1)
        BY <1>1, <2>1, <2>5, SweepShows
      <3> HIDE DEF u, n, j
      <3> QED BY <3>1, <1>1, <2>1, <2>5
    <2> QED BY <1>0, <1>2, <2>1, <2>2, <2>3, <2>5, <2>6 DEF Playing
  <1>8. Reference!NextPoint => running' /\ Playing'
    <2> SUFFICES ASSUME Reference!NextPoint PROVE running' /\ Playing'
      OBVIOUS
    <2>1. running /\ running' = running /\ Reference!Frame(point + 1) /\ MorePoints /\ AtFrameEnd
      <3>1. running => FrameHeld
        BY DEF InStep
      <3>2. running /\ running' = running /\ Reference!Frame(point + 1) /\ MorePoints
            /\ Reference!AtFrameEnd
        BY DEF Reference!NextPoint, Reference!MorePoints, MorePoints
      <3>3. AtFrameEnd
        BY <3>1, <3>2, ReferenceTerms DEF Reference!AtFrameEnd, Reference!AtLoopEnd,
           AtFrameEnd, AtLoopEnd, FrameHeld
      <3> QED BY <3>2, <3>3
    <2>2. PICK k \in DOMAIN Slots(image) : k = j + 1 /\ k - 1 = point + 1
      <3>1. Slots(image) = image.points /\ Slots(image) \in Seq(Int) /\ point \in Nat /\ j < Len(image.points)
        BY <1>0, <1>1, <2>1, ProgramShape DEF MorePoints
      <3>2. Len(image.points) \in Nat /\ j + 1 \in 1..Len(image.points) /\ j + 1 - 1 = point + 1
        BY <3>1
      <3>3. j + 1 \in DOMAIN Slots(image) /\ j + 1 - 1 = point + 1
        BY <3>1, <3>2
      <3> QED BY <3>1, <3>3
    <2>3. u + 1 = Offset(image, k)
      BY <1>4, <2>1, <2>2
    <2>4. u + 1 < n
      <3>1. k \in 1..Len(Slots(image)) /\ Len(Slots(image)) \in Nat
        BY <1>0, ProgramShape
      <3>2. OfPoint(image, k, Slots(image)[k])
        BY <1>0 DEF OfPoint
      <3>3. FrameDuration(image, Slots(image)[k]) \in Nat \ {0}
        BY <3>2, FrameTicks
      <3>4. Offset(image, k + 1) = Offset(image, k) + FrameDuration(image, Slots(image)[k])
        BY <1>0, <2>1, <3>1, OffsetUnfolds, OffsetsGrow
      <3>5. Offset(image, k + 1) <= n /\ Offset(image, k + 1) \in Nat /\ Offset(image, k) \in Nat
        <4>1. /\ k \in 1..(Len(Slots(image)) + 1) /\ k + 1 \in 1..(Len(Slots(image)) + 1)
              /\ k + 1 <= Len(Slots(image)) + 1
              /\ Len(Slots(image)) + 1 \in 1..(Len(Slots(image)) + 1)
          BY <3>1
        <4> QED BY <4>1, <1>0, OffsetsGrow DEF SweepTicks
      <3> HIDE DEF u, n
      <3> QED BY <3>3, <3>4, <3>5, <2>1, <2>3, <1>1
    <2>5. SweepTick(image, g_time', n) = Offset(image, k)
      BY <1>2, <2>1, <2>3, <2>4
    <2>6. Reference!Frame(k - 1)
      BY <2>1, <2>2
    <2> QED BY <1>0, <2>1, <2>5, <2>6, FramePlays
  <1>9. Reference!Repeat => running' /\ Playing'
    <2> SUFFICES ASSUME Reference!Repeat PROVE running' /\ Playing'
      OBVIOUS
    <2>1. running /\ running' = running /\ Reference!Frame(0) /\ ~MorePoints /\ AtFrameEnd /\ image.forever
      <3>1. running => FrameHeld
        BY DEF InStep
      <3>2. running /\ running' = running /\ Reference!Frame(0) /\ ~MorePoints /\ image.forever
            /\ Reference!AtFrameEnd
        BY DEF Reference!Repeat, Reference!MorePoints, MorePoints
      <3>3. AtFrameEnd
        BY <3>1, <3>2, ReferenceTerms DEF Reference!AtFrameEnd, Reference!AtLoopEnd,
           AtFrameEnd, AtLoopEnd, FrameHeld
      <3> QED BY <3>2, <3>3
    <2>2. SweepTick(image, g_time', n) = 0
      <3>1. u + 1 = n /\ u \in Nat /\ u < n /\ n \in Nat /\ SweepTick(image, g_time, n) = u
        BY <1>1, <1>5, <2>1
      <3> HIDE DEF u, n
      <3> QED BY <1>0, <2>1, <3>1, Ticks
    <2>3. 1 \in DOMAIN Slots(image) /\ 1 - 1 = 0 /\ Offset(image, 1) = 0
      BY <1>0, ProgramShape, OffsetUnfolds
    <2>4. Reference!Frame(1 - 1)
      BY <2>1, <2>3
    <2> QED BY <1>0, <2>1, <2>2, <2>3, <2>4, FramePlays
  <1>10. Reference!Finish => ~running' /\ state_mask' = 0 /\ ~image.forever /\ g_time' >= n
    <2> SUFFICES ASSUME Reference!Finish
                 PROVE  ~running' /\ state_mask' = 0 /\ ~image.forever /\ g_time' >= n
      OBVIOUS
    <2>1. running /\ ~running' /\ state_mask' = 0 /\ ~image.forever /\ ~MorePoints /\ AtFrameEnd
      <3>1. running => FrameHeld
        BY DEF InStep
      <3>2. running /\ ~running' /\ state_mask' = 0 /\ ~image.forever /\ ~MorePoints /\ Reference!AtFrameEnd
        BY DEF Reference!Finish, Reference!MorePoints, MorePoints
      <3>3. AtFrameEnd
        BY <3>1, <3>2, ReferenceTerms DEF Reference!AtFrameEnd, Reference!AtLoopEnd,
           AtFrameEnd, AtLoopEnd, FrameHeld
      <3> QED BY <3>2, <3>3
    <2>2. g_time + 1 = n
      <3>1. u + 1 = n /\ SweepTick(image, g_time, n) = u
        BY <1>1, <1>5, <2>1
      <3> QED BY <3>1, <2>1 DEF SweepTick
    <2>3. n \in Nat
      BY <1>1, <2>1
    <2> HIDE DEF n
    <2> QED BY <2>1, <2>2, <2>3, <1>0
  <1>11. CASE ~running /\ UNCHANGED Reference!vars
    <2>1. ~running' /\ state_mask' = state_mask
      BY <1>11 DEF Reference!vars
    <2>2. state_mask = 0 /\ ~image.forever /\ g_time >= n
      BY <1>0, <1>11 DEF OnSchedule
    <2>3. n \in Int
      BY <1>0, SweepNat
    <2> HIDE DEF n
    <2> QED BY <2>1, <2>2, <2>3, <1>0
  <1>12. \/ Reference!Rewind \/ Reference!NextPoint \/ Reference!Repeat \/ Reference!Finish \/ Reference!Tick
         \/ ~running /\ UNCHANGED Reference!vars
    BY ClockPlays
  <1> QED BY <1>6, <1>7, <1>8, <1>9, <1>10, <1>11, <1>12

(* No step takes the engine off its schedule.                              *)
LEMMA StepOnSchedule ==
  ASSUME FramesOutlastRead, Prefetch, InStep, OnSchedule, [Next]_vars
  PROVE  OnSchedule'
  <1>0. image \in Uploadable /\ (reset => ~running)
    BY DEF Prefetch, PrefetchType
  <1>1. CASE Fire
    <2>1. Reference!Frame(0) /\ image' = image /\ running' = TRUE /\ reset' = FALSE /\ g_time' = g_time
          /\ reset
      BY <1>0, <1>1, FireOpens DEF Fire
    <2>2. g_time' = 0
      BY <2>1 DEF OnSchedule
    <2>3. 1 \in DOMAIN Slots(image) /\ 1 - 1 = 0 /\ Offset(image, 1) = 0
      BY <1>0, ProgramShape, OffsetUnfolds
    <2>4. SweepTicks(image) \in Nat \ {0}
      BY <1>0, SweepNat
    <2>5. SweepTick(image, g_time', SweepTicks(image)) = Offset(image, 1)
      <3>1. \A m \in Nat \ {0} : 0 % m = 0
        OBVIOUS
      <3> QED BY <3>1, <2>2, <2>3, <2>4 DEF SweepTick
    <2>6. Reference!Frame(1 - 1)
      BY <2>1, <2>3
    <2>7. Playing'
      BY <1>0, <2>1, <2>3, <2>5, <2>6, FramePlays
    <2> QED BY <2>1, <2>2, <2>7 DEF OnSchedule
  <1>2. CASE Clock
    BY <1>2, ClockOnSchedule
  <1>3. CASE Safe \/ PrepareHalts
    <2>1. reset' = TRUE /\ running' = FALSE /\ g_time' = 0
      BY <1>3 DEF Safe, PrepareHalts, EngineReset
    <2> QED BY <2>1 DEF OnSchedule
  <1>4. CASE Upload
    <2>1. reset /\ reset' = reset /\ running' = running /\ g_time' = g_time
      BY <1>4 DEF Upload, frame, sched
    <2> QED BY <2>1, <1>0 DEF OnSchedule
  <1>5. CASE WaitSeesDone \/ WaitReturns \/ UNCHANGED vars
    <2>1. UNCHANGED <<image, reset, frame, scan, loops_remaining, sched>>
      BY <1>5 DEF WaitSeesDone, WaitReturns, vars
    <2> QED BY <2>1 DEF frame, scan, sched, OnSchedule, Playing
  <1> QED BY <1>1, <1>2, <1>3, <1>4, <1>5 DEF Next

\* The compiler did what it was asked: the host's schedule of a sweep is what the
\* author asked for, tick by tick.
AsAsked ==
  \A p \in Uploadable : p.shown # <<>> =>
    /\ Len(p.shown) = SweepTicks(p)
    /\ \A u \in 0..(SweepTicks(p) - 1) : p.shown[u + 1] = Scheduled(p, u)

(* Then so it is at every tick of a run, the repeats and the end included. *)
LEMMA AskedScheduled ==
  ASSUME AsAsked, NEW p \in Uploadable, p.shown # <<>>, NEW w \in Nat
  PROVE  AskedFor(p, w) = Scheduled(p, w)
  <1> DEFINE n == SweepTicks(p)
             u == SweepTick(p, w, n)
  <1>1. n \in Nat \ {0} /\ Len(p.shown) = n
    BY SweepNat DEF AsAsked
  <1>2. u \in Nat
    <2>1. \A m \in Nat \ {0} : w % m \in Nat
      BY TickMod
    <2> QED BY <1>1, <2>1 DEF SweepTick
  <1>3. u < n => SweepTick(p, u, n) = u
    <2>1. \A m \in Nat \ {0}, v \in Nat : v < m => v % m = v
      OBVIOUS
    <2> HIDE DEF n, u
    <2> QED BY <1>1, <1>2, <2>1 DEF SweepTick
  <1>4. u < n => Scheduled(p, u) = Scheduled(p, w)
    BY <1>3 DEF Scheduled
  <1>5. ~(u < n) => Scheduled(p, w) = 0
    BY DEF Scheduled
  <1>6. u < n => p.shown[u + 1] = Scheduled(p, u)
    <2>1. u < n => u \in 0..(n - 1)
      <3> HIDE DEF n, u
      <3> QED BY <1>1, <1>2
    <2> QED BY <2>1 DEF AsAsked
  <1>7. AskedFor(p, w) = IF u < n THEN p.shown[u + 1] ELSE 0
    BY <1>1 DEF AskedFor
  <1> HIDE DEF u, n
  <1> QED BY <1>4, <1>5, <1>6, <1>7

(* An engine on schedule outputs what is scheduled, and what was asked for.*)
LEMMA ScheduleSuffices ==
  ASSUME AsAsked, Prefetch, InStep, OnSchedule
  PROVE  OutputsSchedule
  <1> SUFFICES ASSUME ~reset PROVE state_mask = Scheduled(image, g_time)
    <2>1. image.shown # <<>> => AskedFor(image, g_time) = Scheduled(image, g_time)
      BY AskedScheduled DEF OnSchedule, Prefetch, PrefetchType
    <2> QED BY <2>1 DEF OutputsSchedule
  <1>1. image \in Uploadable /\ g_time \in Nat
    BY DEF Prefetch, PrefetchType, OnSchedule
  <1>2. CASE running
    <2>1. OfPoint(image, point + 1, slot)
      BY <1>1, <1>2 DEF InStep, FrameHeld, OfPoint
    <2>2. Playing
      BY <1>2 DEF OnSchedule
    <2> QED BY <2>1, <2>2, PlacedShows DEF Playing
  <1>3. CASE ~running
    <2>1. state_mask = 0 /\ ~image.forever /\ g_time >= SweepTicks(image)
      BY <1>3 DEF OnSchedule
    <2>2. SweepTicks(image) \in Nat
      BY <1>1, SweepNat
    <2>3. ~(g_time < SweepTicks(image))
      BY <2>1, <2>2, <1>1
    <2> QED BY <2>1, <2>3 DEF Scheduled, SweepTick
  <1> QED BY <1>2, <1>3

(* At every tick of a run the engine outputs what the host's schedule says *)
(* is due, across brackets, scan points, repeats and the end, if scanned   *)
(* frames outlast the pre-read; and with it what was asked for, if the     *)
(* compiler's schedule is that.                                            *)
THEOREM EngineOutputsSchedule == FramesOutlastRead /\ AsAsked => (Spec => []OutputsSchedule)
  <1> SUFFICES ASSUME FramesOutlastRead, AsAsked PROVE Spec => []OutputsSchedule
    OBVIOUS
  <1>1. Init => Prefetch /\ InStep /\ OnSchedule
    BY PrefetchInit DEF Init, InStep, OnSchedule
  <1>2. Prefetch /\ InStep /\ OnSchedule /\ [Next]_vars => (Prefetch /\ InStep /\ OnSchedule)'
    BY PrefetchStep, StepImplements, StepOnSchedule
  <1>3. Prefetch /\ InStep /\ OnSchedule => OutputsSchedule
    BY ScheduleSuffices
  <1> QED BY <1>1, <1>2, <1>3, PTL DEF Spec

(* So does the engine with a DAC.                                          *)
THEOREM BusOutputsSchedule == FramesOutlastRead /\ AsAsked => (BusSpec => []OutputsSchedule)
  BY BusLeavesEdges, EngineOutputsSchedule, PTL
=============================================================================
