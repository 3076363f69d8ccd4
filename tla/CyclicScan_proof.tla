-------------------------- MODULE CyclicScan_proof --------------------------
(***************************************************************************)
(* Proofs about CyclicScan, for every number of points, bank size and      *)
(* number of repeats: the type invariant, the inductive invariant Inv, the *)
(* safety properties it implies, and the implementation of ScanPlayer.     *)
(***************************************************************************)
EXTENDS CyclicScan, TLAPS

-----------------------------------------------------------------------------
\* Arithmetic of points, chunks and monotonic positions.

(* NumChunks is the number of banks the sweep fills, the last one partly.   *)
LEMMA NumChunksBounds ==
  /\ NumChunks \in Nat \ {0}
  /\ (NumChunks - 1) * BankSize < N
  /\ N <= NumChunks * BankSize
BY EngineAssumption DEF NumChunks

(* Every point is row Row(p) of chunk Chunk(p), and PointAt finds it there. *)
LEMMA PointFacts ==
  ASSUME NEW p \in Points
  PROVE  /\ Chunk(p) \in 0 .. NumChunks - 1
         /\ Row(p) \in Rows
         /\ PointAt(Chunk(p), Row(p)) = p
         /\ p # NoPoint
<1>1. Chunk(p) \in Nat /\ Row(p) \in Rows /\ p = Chunk(p) * BankSize + Row(p)
  BY EngineAssumption DEF Chunk, Row, Rows, Points
<1>2. Chunk(p) < NumChunks
  BY <1>1, NumChunksBounds, EngineAssumption DEF Points, Rows, Chunk, NumChunks
<1>3. QED
  BY <1>1, <1>2, NumChunksBounds, EngineAssumption DEF PointAt, Points, NoPoint

(* Chunk numbers grow with the point, by at most one per point.             *)
LEMMA ChunkMono ==
  ASSUME NEW p \in Nat, NEW q \in Nat, p <= q
  PROVE  Chunk(p) \in Nat /\ Chunk(q) \in Nat /\ Chunk(p) <= Chunk(q)
BY EngineAssumption DEF Chunk

LEMMA ChunkStep ==
  ASSUME NEW p \in Nat
  PROVE  Chunk(p + 1) \in {Chunk(p), Chunk(p) + 1}
BY EngineAssumption DEF Chunk

(* The chunks of the first and of the last point.                           *)
LEMMA FirstChunk == Chunk(0) = 0
BY EngineAssumption DEF Chunk

LEMMA LastChunk == Chunk(N - 1) = NumChunks - 1
BY NumChunksBounds, EngineAssumption DEF Chunk, NumChunks

(* A position maps back to the data chunk it was counted from.              *)
LEMMA PositionMod ==
  ASSUME NEW s \in Nat, NEW c \in 0 .. NumChunks - 1
  PROVE  (s * NumChunks + c) % NumChunks = c
BY NumChunksBounds

(* Two positions two apart hold different chunks when there are more than two. *)
LEMMA TwoApart ==
  ASSUME NEW m \in Nat, NumChunks > 2
  PROVE  (m + 2) % NumChunks # m % NumChunks
<1> DEFINE q == m \div NumChunks
           r == m % NumChunks
<1>1. q \in Nat /\ r \in 0 .. NumChunks - 1 /\ m = q * NumChunks + r
  BY NumChunksBounds
<1>2. CASE r + 2 < NumChunks
  <2>1. (q * NumChunks + (r + 2)) % NumChunks = r + 2
    BY <1>1, <1>2, PositionMod, NumChunksBounds
  <2>2. QED BY <1>1, <2>1, NumChunksBounds
<1>3. CASE r + 2 >= NumChunks
  <2>1. ((q + 1) * NumChunks + (r + 2 - NumChunks)) % NumChunks = r + 2 - NumChunks
    <3> HIDE DEF q, r
    <3>1. q + 1 \in Nat /\ r + 2 - NumChunks \in 0 .. NumChunks - 1
      BY <1>1, <1>3, NumChunksBounds
    <3>2. QED BY <3>1, PositionMod
  <2>2. m + 2 = (q + 1) * NumChunks + (r + 2 - NumChunks)
    BY <1>1, NumChunksBounds
  <2>3. QED BY <1>1, <2>1, <2>2, NumChunksBounds
<1>4. QED BY <1>1, <1>2, <1>3, NumChunksBounds

(* A row holds a point of the sweep, or none.                              *)
LEMMA PointAtType ==
  ASSUME NEW c \in Nat, NEW o \in Rows
  PROVE  PointAt(c, o) \in 0 .. N
BY EngineAssumption DEF PointAt, Rows, NoPoint

-----------------------------------------------------------------------------
\* What the invariant says of the bank being played and of the next one.

(* The engine's bank arithmetic is the parity of its monotonic position.    *)
LEMMA BankIsParity ==
  ASSUME Inv, Streamed, NEW p \in Points
  PROVE  /\ BankOf(p) = (sweep * NumChunks + Chunk(p)) % 2
         /\ (sweep * NumChunks + Chunk(p)) % NumChunks = Chunk(p)
         /\ sweep * NumChunks \in Nat
<1>1. sweep \in Nat /\ base = (sweep * NumChunks) % 2
  BY DEF Inv, PositionInv, TypeOK, EngineTypeOK
<1>2. Chunk(p) \in 0 .. NumChunks - 1 /\ sweep * NumChunks \in Nat
  BY <1>1, PointFacts, NumChunksBounds
<1>3. QED
  BY <1>1, <1>2, PositionMod, NumChunksBounds DEF BankOf

(* While the engine runs, the position it plays is held by its bank.        *)
LEMMA PlayedHeld ==
  ASSUME Inv, Streamed
  PROVE  /\ EngPos \in Nat
         /\ Holds(EngPos % 2, EngPos)
<1> USE DEF Inv, PositionInv, KnownInv, WindowInv, TypeOK, EngineTypeOK, Bank, Loading
<1>1. point \in Points /\ sweep \in Nat /\ next_mono \in Nat
  OBVIOUS
<1>2. EngPos \in Nat
  BY <1>1, BankIsParity, PointFacts, NumChunksBounds DEF EngPos
<1>3. CASE EngPos = next_mono - 1
  BY <1>3
<1>4. CASE EngPos = next_mono - 2
  <2>1. hpc \notin {"data", "chunk", "rearm"}
    <3>1. SUFFICES ASSUME Loading PROVE FALSE
      OBVIOUS
    <3>2. Known = next_mono - 1 /\ Known <= EngPos
      BY <3>1
    <3>3. QED BY <3>2, <1>4, <1>1
  <2>2. Holds(next_mono % 2, next_mono - 2) /\ EngPos % 2 = next_mono % 2
    BY <2>1, <1>4, <1>1
  <2>3. QED BY <2>2, <1>4, <1>2
<1>5. QED BY <1>2, <1>3, <1>4

(* A bank that is armed and labelled with the next position's chunk does    *)
(* hold the next position: it cannot be the one two positions before.       *)
LEMMA NextHeld ==
  ASSUME Inv, Streamed,
         ready[(EngPos + 1) % 2],
         chunk[(EngPos + 1) % 2] = (EngPos + 1) % NumChunks
  PROVE  EngPos = next_mono - 2
<1> USE DEF Inv, PositionInv, WindowInv, TypeOK, Bank
<1>1. EngPos \in Nat /\ next_mono \in Nat \ {0, 1}
  BY PlayedHeld
<1>2. SUFFICES ASSUME EngPos = next_mono - 1 PROVE FALSE
  OBVIOUS
<1>3. (EngPos + 1) % 2 = next_mono % 2 /\ EngPos + 1 = next_mono
  BY <1>1, <1>2
<1>4. hpc \notin {"data", "chunk", "rearm"}
  BY <1>3
<1>5. chunk[next_mono % 2] = (next_mono - 2) % NumChunks
  BY <1>4 DEF Holds
<1>6. (next_mono - 2 + 2) % NumChunks # (next_mono - 2) % NumChunks
  BY <1>1, TwoApart DEF Streamed
<1>7. next_mono - 2 + 2 = next_mono
  BY <1>1
<1>8. QED BY <1>3, <1>5, <1>6, <1>7
-----------------------------------------------------------------------------
\* The inductive invariant.

LEMMA InitInv == Init => Inv
<1> SUFFICES ASSUME Init PROVE Inv
  OBVIOUS
<1>0. /\ run = "reset" /\ point = 0 /\ cursor = 0 /\ base = 0 /\ slot = 0 /\ first = 0
      /\ underflow = FALSE /\ sweep = 0
      /\ hpc = "off" /\ next_mono = 2 /\ sweeps = 0 /\ prev_cursor = 0 /\ filled = 0
      /\ scan_point = 0 /\ scan_sweep = 0 /\ finished = FALSE
  BY DEF Init, EngineInit
<1>00. /\ rows = [b \in Banks |-> [o \in Rows |-> PointAt(b, o)]]
      /\ ready = [b \in Banks |-> TRUE] /\ chunk = [b \in Banks |-> b]
  BY DEF Init, EngineInit
<1>1. TypeOK
  <2>1. rows \in [Banks -> [Rows -> 0 .. N]]
    <3>1. \A b \in Banks, o \in Rows : PointAt(b, o) \in 0 .. N
      BY PointAtType DEF Banks
    <3>2. QED BY <3>1, <1>00
  <2>2. ready \in [Banks -> BOOLEAN] /\ chunk \in [Banks -> Nat]
    BY <1>00 DEF Banks
  <2>3. 0 \in Points /\ 0 \in 0 .. N /\ 0 \in 0 .. BankSize
    BY EngineAssumption DEF Points
  <2>4. EngineTypeOK
    BY <1>0, <2>1, <2>2, <2>3 DEF EngineTypeOK, Banks
  <2>5. 2 \in Nat \ {0, 1} /\ 0 \in Int /\ 0 \in Nat
    OBVIOUS
  <2>6. QED BY <1>0, <2>3, <2>4, <2>5 DEF TypeOK
<1>2. PointAt(0, 0) = 0 /\ 0 \in Rows
  BY EngineAssumption DEF PointAt, Rows
<1>3. ASSUME Streamed PROVE WindowInv /\ PositionInv /\ KnownInv /\ StopInv
  <2>1. 0 % NumChunks = 0 /\ 1 % NumChunks = 1
    BY <1>3, NumChunksBounds DEF Streamed
  <2>2. WindowInv
    BY <1>0, <1>00, <2>1 DEF WindowInv, Holds, HasRows, Bank, Rows, Banks
  <2>3. EngPos = 0 /\ Known = 0
    BY <1>0, FirstChunk, NumChunksBounds, EngineAssumption DEF EngPos, Known, EngMono, SeenPoint, MinOf
  <2>4. PositionInv
    BY <1>0, <2>3, NumChunksBounds DEF PositionInv
  <2>5. KnownInv
    BY <1>0, <2>3 DEF KnownInv, Loading
  <2>6. StopInv
    BY <1>0, <1>3, NumChunksBounds, CyclicAssumption DEF StopInv, Streamed
  <2>7. QED BY <2>2, <2>4, <2>5, <2>6
<1>4. ~Streamed => ResidentInv
  BY <1>0, <1>00 DEF ResidentInv
<1>5. rows[0][0] = 0
  BY <1>2, <1>00 DEF Banks
<1>6. QED
  BY <1>0, <1>1, <1>3, <1>4, <1>5 DEF Inv

(* FIRE latches point 0 from row 0 of bank 0.                               *)
LEMMA FireInv == Inv /\ Fire => Inv'
<1> SUFFICES ASSUME Inv, Fire PROVE Inv'
  OBVIOUS
<1> USE DEF Fire, Start, hostVars, windowVars
<1>1. /\ point = 0 /\ cursor = 0 /\ sweep = 0 /\ sweeps = 0
      /\ prev_cursor = 0 /\ next_mono = 2 /\ rows[0][0] = 0 /\ hpc = "off"
  BY DEF Inv
<1>2. TypeOK'
  BY <1>1, EngineAssumption DEF Inv, TypeOK, EngineTypeOK, Points, Banks
<1>3. ASSUME Streamed PROVE (WindowInv /\ PositionInv /\ KnownInv /\ StopInv)'
  <2>1. WindowInv'
    BY <1>3 DEF Inv, WindowInv, Holds, HasRows, Bank, DataChunk
  <2>2. EngPos' = EngPos /\ Known' = Known
    BY <1>1 DEF EngPos, Known, EngMono
  <2>3. PositionInv'
    BY <1>1, <1>3, <2>2, NumChunksBounds DEF Inv, PositionInv
  <2>4. KnownInv'
    BY <1>1, <1>3, <2>2 DEF Inv, KnownInv, Loading
  <2>5. StopInv'
    BY <1>3 DEF Inv, StopInv
  <2>6. QED BY <2>1, <2>3, <2>4, <2>5
<1>4. ~Streamed => ResidentInv'
  BY DEF Inv, ResidentInv
<1>5. QED
  BY <1>1, <1>2, <1>3, <1>4 DEF Inv

(* A frame end leaves the window and the thread alone.                      *)
LEMMA EngineKeeps ==
  ASSUME Inv, UNCHANGED <<windowVars, hostVars>>
  PROVE  /\ Streamed => WindowInv' /\ StopInv' /\ Known' = Known
         /\ ResidentInv /\ base' = base => ResidentInv'
BY DEF windowVars, hostVars, Inv, WindowInv, Holds, HasRows, Bank, DataChunk,
       StopInv, Known, EngMono, ResidentInv

(* Moving one position ahead keeps the thread's picture exact: it can tell  *)
(* a wrap from an advance whichever it sees next.                           *)
LEMMA KnownKept ==
  ASSUME Inv, Streamed, UNCHANGED hostVars, run = "running",
         point' \in Points, cursor' \in 0 .. N, sweep' \in Nat,
         EngPos' \in {EngPos, EngPos + 1},
         EngPos' \in {next_mono - 2, next_mono - 1},
         \/ sweep' = sweep /\ cursor' >= cursor
              /\ (cursor' = point' \/ (cursor' = N /\ point' = N - 1))
         \/ sweep' = sweep + 1 /\ cursor' = 0 /\ point' = 0
  PROVE  KnownInv'
<1> DEFINE seen == SeenPoint(prev_cursor)
<1>1. /\ next_mono \in Nat \ {0, 1} /\ sweeps \in Nat /\ prev_cursor \in 0 .. N
      /\ sweep \in Nat /\ cursor \in 0 .. N /\ point \in Points
  BY DEF Inv, TypeOK, EngineTypeOK
<1>2. seen \in Points /\ seen <= prev_cursor
  BY <1>1, EngineAssumption DEF Points, SeenPoint, MinOf
<1>3. Known = sweeps * NumChunks + Chunk(seen) /\ Known' = Known
  BY DEF Known, EngMono, hostVars
<1>4. /\ Chunk(seen) \in 0 .. NumChunks - 1
      /\ Chunk(point') \in 0 .. NumChunks - 1
      /\ Chunk(point) \in 0 .. NumChunks - 1
  BY <1>1, <1>2, PointFacts
<1>5. NumChunks \in Nat /\ NumChunks > 2
  BY NumChunksBounds DEF Streamed
<1>6. EngPos' = sweep' * NumChunks + Chunk(point')
  BY DEF EngPos
<1>7. Known \in {next_mono - 2, next_mono - 1} /\ Known <= EngPos
  BY DEF Inv, KnownInv
<1>8. EngPos \in Nat
  BY PlayedHeld
<1>9. EngPos' = Known \/ EngPos' = Known + 1
  <2>1. EngPos \in {next_mono - 2, next_mono - 1} /\ EngPos' >= EngPos
    BY <1>1, <1>8 DEF Inv, PositionInv
  <2>2. QED BY <2>1, <1>1, <1>7, <1>8
<1>10. sweep' \in {sweeps, sweeps + 1}
  <2>1. sweep' * NumChunks + Chunk(point') <= sweeps * NumChunks + Chunk(seen) + 1
    BY <1>1, <1>3, <1>4, <1>5, <1>6, <1>7, <1>8, <1>9
  <2>2. sweep \in {sweeps, sweeps + 1}
    BY DEF Inv, KnownInv
  <2>3. sweep' # sweeps + 2
    <3>1. SUFFICES ASSUME sweep' = sweeps + 2 PROVE FALSE
      OBVIOUS
    <3>2. (sweeps + 2) * NumChunks = sweeps * NumChunks + 2 * NumChunks
      BY <1>1, <1>5
    <3>3. QED BY <2>1, <3>1, <3>2, <1>1, <1>4, <1>5
  <2>4. QED BY <2>2, <2>3, <1>1
<1>11. sweep' = sweeps + 1 => cursor' < prev_cursor
  <2>1. SUFFICES ASSUME sweep' = sweeps + 1 PROVE cursor' < prev_cursor
    OBVIOUS
  <2>2. (sweeps + 1) * NumChunks = sweeps * NumChunks + NumChunks
    BY <1>1, <1>5
  <2>3. Chunk(point') < Chunk(seen)
    BY <2>1, <2>2, <1>1, <1>3, <1>4, <1>5, <1>6, <1>9
  <2>4. point' < seen
    <3>1. SUFFICES ASSUME seen <= point' PROVE FALSE
      BY <1>2 DEF Points
    <3>2. Chunk(seen) <= Chunk(point')
      BY <3>1, <1>2, ChunkMono DEF Points
    <3>3. QED BY <3>2, <2>3, <1>4
  <2>5. point' # N - 1
    BY <2>4, <1>2 DEF Points
  <2>6. cursor' = point'
    BY <2>5
  <2>7. QED BY <2>4, <2>6, <1>1, <1>2 DEF Points
<1>12. sweep' = sweeps => prev_cursor <= cursor'
  <2>1. SUFFICES ASSUME sweep' = sweeps PROVE prev_cursor <= cursor'
    OBVIOUS
  <2>2. sweep' = sweep /\ cursor' >= cursor
    BY <2>1, <1>1 DEF Inv, KnownInv
  <2>3. prev_cursor <= cursor
    BY <2>1, <2>2 DEF Inv, KnownInv
  <2>4. QED BY <2>2, <2>3, <1>1
<1>13. Known' <= EngPos'
  BY <1>3, <1>9, <1>1, <1>7, <1>8 
<1>14. QED
  BY <1>3, <1>7, <1>10, <1>11, <1>12, <1>13 DEF KnownInv, Inv, hostVars, Loading
-----------------------------------------------------------------------------
\* The engine's steps.

LEMMA AdvanceInv == Inv /\ AdvancePoint /\ UNCHANGED hostVars => Inv'
<1> SUFFICES ASSUME Inv, AdvancePoint, UNCHANGED hostVars PROVE Inv'
  OBVIOUS
<1> DEFINE q == point + 1
<1>0a. /\ run = "running" /\ ~(q >= N) /\ Resident(q) /\ point' = q /\ cursor' = q
      /\ slot' = rows[BankOf(q)][Row(q)]
      /\ UNCHANGED <<run, base, first, sweep, windowVars>>
  BY DEF AdvancePoint, LastPoint
<1>0b. /\ point \in Points /\ sweep \in Nat /\ next_mono \in Nat \ {0, 1}
      /\ cursor \in 0 .. N
  BY DEF Inv, TypeOK, EngineTypeOK
<1>0. /\ run = "running" /\ q < N /\ Resident(q) /\ point' = q /\ cursor' = q
      /\ slot' = rows[BankOf(q)][Row(q)]
      /\ UNCHANGED <<run, base, first, sweep, windowVars>>
  BY <1>0a, <1>0b, EngineAssumption DEF Points
<1>1. /\ point \in Points /\ q \in Points /\ point \in Nat /\ sweep \in Nat
      /\ next_mono \in Nat \ {0, 1} /\ q \in 0 .. N
  BY <1>0, <1>0b, EngineAssumption DEF Points
<1>2. slot' = q
  <2>1. CASE Streamed
    <3>1. /\ BankOf(q) = (sweep * NumChunks + Chunk(q)) % 2
          /\ (sweep * NumChunks + Chunk(q)) % NumChunks = Chunk(q)
          /\ sweep * NumChunks \in Nat
      BY <2>1, <1>1, BankIsParity
    <3>2. Chunk(q) \in 0 .. NumChunks - 1 /\ Row(q) \in Rows /\ PointAt(Chunk(q), Row(q)) = q
          /\ q # NoPoint
      BY <1>1, PointFacts
    <3>3. Holds(BankOf(q), sweep * NumChunks + Chunk(q))
      <4>1. CASE Chunk(q) = Chunk(point)
        BY <4>1, <2>1, <3>1, PlayedHeld DEF EngPos
      <4>2. CASE Chunk(q) = Chunk(point) + 1
        <5>1. sweep * NumChunks + Chunk(q) = EngPos + 1 /\ EngPos \in Nat
          BY <4>2, <3>1, <3>2, <2>1, PlayedHeld, PointFacts, <1>1, NumChunksBounds DEF EngPos
        <5>2. ready[(EngPos + 1) % 2] /\ chunk[(EngPos + 1) % 2] = (EngPos + 1) % NumChunks
          BY <1>0, <3>1, <5>1 DEF Resident
        <5>3. EngPos = next_mono - 2
          BY <2>1, <5>2, NextHeld
        <5>4. Holds((next_mono - 1) % 2, next_mono - 1)
          BY <2>1 DEF Inv, WindowInv
        <5>5. next_mono - 1 = EngPos + 1
          BY <5>3, <1>1
        <5>6. QED BY <5>1, <5>4, <5>5, <3>1
      <4>3. QED BY <4>1, <4>2, <1>1, ChunkStep
    <3>4. Row(q) < BankSize
      BY <3>2, EngineAssumption DEF Rows
    <3>5. rows[BankOf(q)][Row(q)] = PointAt(Chunk(q), Row(q))
      BY <3>1, <3>2, <3>3, <3>4 DEF Holds, HasRows
    <3>6. QED BY <3>2, <3>5, <1>0
  <2>2. CASE ~Streamed
    <3>1. Chunk(q) \in {0, 1} /\ Row(q) \in Rows /\ PointAt(Chunk(q), Row(q)) = q
      BY <2>2, <1>1, PointFacts, NumChunksBounds DEF Streamed
    <3>2. base = 0 /\ rows = [b \in Banks |-> [o \in Rows |-> PointAt(b, o)]]
      BY <2>2 DEF Inv, ResidentInv
    <3>3. BankOf(q) = Chunk(q)
      BY <3>1, <3>2 DEF BankOf
    <3>4. QED BY <1>0, <3>1, <3>2, <3>3 DEF Banks
  <2>3. QED BY <2>1, <2>2
<1>3. TypeOK'
  <2>1. EngineTypeOK'
    BY <1>0, <1>1, <1>2 DEF Inv, TypeOK, EngineTypeOK, windowVars, AdvancePoint
  <2>2. QED BY <2>1 DEF Inv, TypeOK, hostVars
<1>4. ASSUME Streamed PROVE (WindowInv /\ PositionInv /\ KnownInv /\ StopInv)'
  <2>1. WindowInv' /\ StopInv'
    BY <1>0, <1>4, EngineKeeps
  <2>2. /\ sweep * NumChunks \in Nat /\ Chunk(point) \in Nat /\ Chunk(q) \in Nat
        /\ BankOf(q) = (sweep * NumChunks + Chunk(q)) % 2
        /\ (sweep * NumChunks + Chunk(q)) % NumChunks = Chunk(q)
    BY <1>1, <1>4, PointFacts, BankIsParity
  <2>3. EngPos' = sweep * NumChunks + Chunk(q)
    BY <1>0 DEF EngPos
  <2>4. EngPos' \in {EngPos, EngPos + 1}
    BY <2>2, <2>3, <1>1, ChunkStep DEF EngPos
  <2>5. EngPos' \in {next_mono - 2, next_mono - 1}
    <3>1. CASE EngPos' = EngPos
      BY <3>1, <1>4 DEF Inv, PositionInv
    <3>2. CASE EngPos' = EngPos + 1
      <4>1. ready[(EngPos + 1) % 2] /\ chunk[(EngPos + 1) % 2] = (EngPos + 1) % NumChunks
        BY <1>0, <2>2, <2>3, <3>2 DEF Resident
      <4>2. EngPos = next_mono - 2
        BY <1>4, <4>1, NextHeld
      <4>3. QED BY <3>2, <4>2, <1>1
    <3>3. QED BY <2>4, <3>1, <3>2
  <2>6. PositionInv'
    BY <1>0, <1>4, <2>5 DEF Inv, PositionInv, hostVars
  <2>7. cursor' >= cursor
    BY <1>0, <1>1, <1>0b, <1>4, EngineAssumption DEF Inv, PositionInv, Points
  <2>8. KnownInv'
    BY <1>0, <1>1, <1>3, <1>4, <2>4, <2>5, <2>7, KnownKept DEF TypeOK, EngineTypeOK
  <2>9. QED BY <2>1, <2>6, <2>8
<1>5. ~Streamed => ResidentInv'
  BY <1>0, EngineKeeps DEF Inv
<1>6. QED
  BY <1>0, <1>2, <1>3, <1>4, <1>5 DEF Inv, hostVars

LEMMA StallPointInv == Inv /\ StallPoint /\ UNCHANGED hostVars => Inv'
<1> SUFFICES ASSUME Inv, StallPoint, UNCHANGED hostVars PROVE Inv'
  OBVIOUS
<1> USE DEF StallPoint, hostVars, windowVars
<1>1. TypeOK'
  BY DEF Inv, TypeOK, EngineTypeOK
<1>2. Streamed => (WindowInv /\ PositionInv /\ KnownInv /\ StopInv)'
  BY EngineKeeps DEF Inv, PositionInv, KnownInv, EngPos, Loading
<1>3. ~Streamed => ResidentInv'
  BY EngineKeeps DEF Inv
<1>4. QED BY <1>1, <1>2, <1>3 DEF Inv

(* The wrap re-enters chunk 0 in the bank the thread put it.                *)
LEMMA WrapInv == Inv /\ Wrap /\ UNCHANGED hostVars => Inv'
<1> SUFFICES ASSUME Inv, Wrap, UNCHANGED hostVars PROVE Inv'
  OBVIOUS
<1>0. /\ run = "running" /\ point + 1 >= N /\ Point0Ready
      /\ base' = NextBase /\ point' = 0 /\ cursor' = 0 /\ slot' = first
      /\ underflow' = FALSE /\ sweep' = sweep + 1
      /\ UNCHANGED <<run, first, windowVars>>
  BY DEF Wrap, LastPoint
<1>1. /\ point \in Points /\ sweep \in Nat /\ next_mono \in Nat \ {0, 1}
      /\ cursor \in 0 .. N /\ first = 0 /\ base \in Banks
  BY DEF Inv, TypeOK, EngineTypeOK
<1>2. point = N - 1 /\ 0 \in Points /\ 0 \in 0 .. N /\ sweep + 1 \in Nat
  BY <1>0, <1>1, EngineAssumption DEF Points
<1>3. NextBase \in Banks
  BY <1>1, NumChunksBounds DEF NextBase, Banks
<1>4. TypeOK'
  <2>1. EngineTypeOK'
    BY <1>0, <1>1, <1>2, <1>3 DEF Inv, TypeOK, EngineTypeOK, windowVars
  <2>2. QED BY <2>1 DEF Inv, TypeOK, hostVars
<1>5. ASSUME Streamed PROVE (WindowInv /\ PositionInv /\ KnownInv /\ StopInv)'
  <2>1. WindowInv' /\ StopInv'
    BY <1>0, <1>5, EngineKeeps
  <2>2. NumChunks \in Nat \ {0} /\ sweep * NumChunks \in Nat
    BY <1>1, NumChunksBounds
  <2>3. EngPos + 1 = (sweep + 1) * NumChunks /\ EngPos \in Nat
    BY <1>1, <1>2, <2>2, LastChunk, PlayedHeld, <1>5 DEF EngPos
  <2>4. EngPos' = EngPos + 1
    <3>1. EngPos' = (sweep + 1) * NumChunks + Chunk(0)
      BY <1>0 DEF EngPos
    <3>2. QED BY <3>1, <2>2, <2>3, <1>1, FirstChunk
  <2>5. NextBase = (EngPos + 1) % 2
    <3>1. base = (sweep * NumChunks) % 2
      BY <1>5 DEF Inv, PositionInv
    <3>2. (sweep + 1) * NumChunks = sweep * NumChunks + NumChunks
      BY <1>1, <2>2
    <3>3. QED BY <3>1, <3>2, <2>2, <2>3, <1>5 DEF NextBase
  <2>6. (EngPos + 1) % NumChunks = 0
    <3>1. ((sweep + 1) * NumChunks + 0) % NumChunks = 0
      BY <1>2, <2>2, PositionMod
    <3>2. QED BY <3>1, <2>2, <2>3, <1>1
  <2>7. EngPos = next_mono - 2
    BY <1>0, <1>5, <2>5, <2>6, NextHeld DEF Point0Ready
  <2>8. PositionInv'
    <3>1. EngPos' = next_mono - 1
      BY <2>4, <2>7, <1>1
    <3>2. base' = (sweep' * NumChunks) % 2
      BY <1>0, <2>3, <2>5
    <3>3. QED BY <3>1, <3>2, <1>0 DEF PositionInv, hostVars
  <2>9. KnownInv'
    <3>1. EngPos' \in {next_mono - 2, next_mono - 1}
      BY <2>4, <2>7, <1>1
    <3>2. QED BY <1>0, <1>1, <1>2, <1>5, <2>4, <3>1, KnownKept
  <2>10. QED BY <2>1, <2>8, <2>9
<1>6. ~Streamed => ResidentInv'
  BY <1>0, EngineKeeps DEF Inv, NextBase
<1>7. QED
  BY <1>0, <1>1, <1>4, <1>5, <1>6 DEF Inv, hostVars

LEMMA StallWrapInv == Inv /\ StallWrap /\ UNCHANGED hostVars => Inv'
<1> SUFFICES ASSUME Inv, StallWrap, UNCHANGED hostVars PROVE Inv'
  OBVIOUS
<1>0. /\ run = "running" /\ point + 1 >= N /\ underflow' = TRUE /\ cursor' = N
      /\ UNCHANGED <<run, point, base, first, slot, sweep, windowVars>>
  BY DEF StallWrap, LastPoint
<1>1. /\ point \in Points /\ sweep \in Nat /\ next_mono \in Nat \ {0, 1}
      /\ cursor \in 0 .. N
  BY DEF Inv, TypeOK, EngineTypeOK
<1>2. point = N - 1 /\ N \in 0 .. N /\ cursor <= N
  BY <1>0, <1>1, EngineAssumption DEF Points
<1>3. TypeOK'
  <2>1. EngineTypeOK'
    BY <1>0, <1>2 DEF Inv, TypeOK, EngineTypeOK, windowVars
  <2>2. QED BY <2>1 DEF Inv, TypeOK, hostVars
<1>4. ASSUME Streamed PROVE (WindowInv /\ PositionInv /\ KnownInv /\ StopInv)'
  <2>1. WindowInv' /\ StopInv'
    BY <1>0, <1>4, EngineKeeps
  <2>2. EngPos' = EngPos /\ EngPos \in {next_mono - 2, next_mono - 1}
    BY <1>0, <1>4 DEF EngPos, Inv, PositionInv
  <2>3. PositionInv'
    BY <1>0, <1>2, <1>4, <2>2 DEF Inv, PositionInv, hostVars
  <2>4. KnownInv'
    BY <1>0, <1>1, <1>2, <1>4, <2>2, KnownKept
  <2>5. QED BY <2>1, <2>3, <2>4
<1>5. ~Streamed => ResidentInv'
  BY <1>0, EngineKeeps DEF Inv
<1>6. QED
  BY <1>0, <1>3, <1>4, <1>5 DEF Inv, hostVars
-----------------------------------------------------------------------------
\* The thread's steps.

LEMMA StartThreadInv == Inv /\ StartThread => Inv'
<1> SUFFICES ASSUME Inv, StartThread PROVE Inv'
  OBVIOUS
<1> USE DEF StartThread, engineVars, windowVars
<1>1. TypeOK'
  BY DEF Inv, TypeOK, EngineTypeOK
<1>2. Streamed => (WindowInv /\ PositionInv /\ KnownInv /\ StopInv)'
  BY DEF Inv, WindowInv, Holds, HasRows, Bank, DataChunk, PositionInv, EngPos,
         KnownInv, Known, EngMono, Loading, StopInv
<1>3. ~Streamed => ResidentInv'
  BY DEF Inv, ResidentInv
<1>4. QED BY <1>1, <1>2, <1>3 DEF Inv

(* A poll finds the engine's position exactly.                              *)
LEMMA PollExact ==
  ASSUME Inv, Streamed, Poll
  PROVE  /\ sweeps' = sweep
         /\ Known' = EngPos
         /\ EngMono(sweeps', cursor) = EngPos
<1>1. /\ sweep \in {sweeps, sweeps + 1}
      /\ sweep = sweeps => prev_cursor <= cursor
      /\ sweep = sweeps + 1 => cursor < prev_cursor
      /\ sweeps \in Nat /\ sweep \in Nat /\ prev_cursor \in 0 .. N /\ cursor \in 0 .. N
      /\ point \in Points
  BY DEF Inv, KnownInv, TypeOK, EngineTypeOK
<1>2. /\ sweeps' = IF cursor < prev_cursor THEN sweeps + 1 ELSE sweeps
      /\ prev_cursor' = cursor
  BY DEF Poll, Wrapped
<1>3. sweeps' = sweep
  BY <1>1, <1>2
<1>4. SeenPoint(cursor) = point
  BY <1>1, EngineAssumption DEF Inv, PositionInv, SeenPoint, MinOf, Points
<1>5. QED BY <1>2, <1>3, <1>4 DEF Known, EngMono, EngPos

LEMMA PollInv == Inv /\ Poll => Inv'
<1> SUFFICES ASSUME Inv, Poll PROVE Inv'
  OBVIOUS
<1> DEFINE behind == needs_refill /\ EngMono(sweeps', cursor) >= next_mono - 1
<1>0. /\ hpc = "poll" /\ prev_cursor' = cursor /\ scan_sweep' = sweeps'
      /\ scan_point' = SeenPoint(cursor)
      /\ sweeps' = IF Wrapped THEN sweeps + 1 ELSE sweeps
      /\ hpc' = IF Repeats > 0 /\ sweeps' >= Repeats THEN "halt"
                ELSE IF behind THEN "dearm" ELSE "poll"
      /\ UNCHANGED <<engineVars, windowVars, next_mono, filled, finished>>
  BY DEF Poll, SweepsPlayed, BankFree
<1>1. /\ sweeps \in Nat /\ sweep \in Nat /\ prev_cursor \in 0 .. N /\ cursor \in 0 .. N
      /\ next_mono \in Nat \ {0, 1} /\ sweeps' \in Nat /\ hpc' \in {"halt", "dearm", "poll"}
  BY <1>0 DEF Inv, TypeOK, EngineTypeOK
<1>2. TypeOK'
  <2>1. EngineTypeOK'
    BY <1>0 DEF Inv, TypeOK, EngineTypeOK, engineVars, windowVars
  <2>2. scan_point' \in Points
    BY <1>0, <1>1, EngineAssumption DEF SeenPoint, MinOf, Points
  <2>3. scan_sweep' \in Int /\ prev_cursor' \in 0 .. N
    BY <1>0, <1>1
  <2>4. QED BY <1>0, <1>1, <2>1, <2>2, <2>3 DEF Inv, TypeOK
<1>3. ASSUME Streamed PROVE (WindowInv /\ PositionInv /\ KnownInv /\ StopInv)'
  <2>1. sweeps' = sweep /\ Known' = EngPos /\ EngMono(sweeps', cursor) = EngPos
    BY <1>3, PollExact
  <2>2. WindowInv'
    BY <1>0, <1>1, <1>3 DEF Inv, WindowInv, Holds, HasRows, Bank, DataChunk,
                            engineVars, windowVars
  <2>3. EngPos' = EngPos /\ EngPos \in {next_mono - 2, next_mono - 1} /\ EngPos \in Nat
    BY <1>0, <1>3, PlayedHeld DEF EngPos, Inv, PositionInv, engineVars
  <2>4. PositionInv'
    BY <1>0, <1>3, <2>3 DEF Inv, PositionInv, engineVars
  <2>5. KnownInv'
    <3>1. hpc' = "poll" => EngPos = next_mono - 2
      BY <1>0, <1>1, <1>3, <2>1, <2>3 DEF needs_refill, Streamed
    <3>2. hpc' = "dearm" => EngPos = next_mono - 1
      BY <1>0, <1>1, <2>1, <2>3
    <3>3. QED BY <1>0, <1>1, <2>1, <2>3, <3>1, <3>2 DEF KnownInv, Loading, engineVars
  <2>6. StopInv'
    <3>1. hpc' \notin {"halt", "exit"} => (Repeats > 0 => sweeps' < Repeats)
      BY <1>0, <1>1, CyclicAssumption
    <3>2. QED BY <1>0, <1>3, <3>1 DEF Inv, StopInv
  <2>7. QED BY <2>2, <2>4, <2>5, <2>6
<1>4. ~Streamed => ResidentInv'
  BY <1>0 DEF Inv, ResidentInv, needs_refill, Streamed, engineVars, windowVars
<1>5. hpc' = "halt" \/ hpc' = "exit" => Repeats > 0 /\ sweeps' >= Repeats
  BY <1>0
<1>6. QED
  BY <1>0, <1>1, <1>2, <1>3, <1>4, <1>5 DEF Inv, engineVars, windowVars

(* What the four steps of a refill need of the state they start from.       *)
LEMMA RefillFacts ==
  ASSUME Inv, Loading
  PROVE  /\ Streamed
         /\ next_mono \in Nat \ {0, 1}
         /\ next_mono % 2 \in Banks /\ (next_mono - 1) % 2 \in Banks
         /\ next_mono % 2 # (next_mono - 1) % 2
         /\ DataChunk \in 0 .. NumChunks - 1
         /\ ChunkRows \in 0 .. BankSize
         /\ \A o \in Rows : o >= ChunkRows => PointAt(DataChunk, o) = NoPoint
         /\ run = "running" /\ hpc \in {"dearm", "data", "chunk", "rearm"}
<1>1. next_mono \in Nat \ {0, 1}
  BY DEF Inv, TypeOK
<1>2. Streamed
  BY DEF Inv, ResidentInv, Loading
<1>3. DataChunk \in 0 .. NumChunks - 1
  BY <1>1, NumChunksBounds DEF DataChunk
<1>4. DataChunk * BankSize \in Nat /\ DataChunk * BankSize < N
  <2>1. DataChunk * BankSize <= (NumChunks - 1) * BankSize
    BY <1>3, NumChunksBounds, EngineAssumption
  <2>2. QED BY <1>3, <2>1, NumChunksBounds, EngineAssumption
<1>5. ChunkRows \in 0 .. BankSize
  BY <1>4, EngineAssumption DEF ChunkRows, SeenPoint, MinOf
<1>6. \A o \in Rows : o >= ChunkRows => PointAt(DataChunk, o) = NoPoint
  BY <1>4, EngineAssumption DEF ChunkRows, SeenPoint, MinOf, PointAt, Rows
<1>7. run = "running" /\ hpc \in {"dearm", "data", "chunk", "rearm"}
  BY DEF Inv, Loading
<1>8. QED BY <1>1, <1>2, <1>3, <1>5, <1>6, <1>7 DEF Banks

(* A refill step that leaves the engine, the counters and the refill's      *)
(* position alone has only the window to answer for.                        *)
LEMMA RefillKeeps ==
  ASSUME Inv, Loading, Loading', TypeOK', WindowInv',
         UNCHANGED <<engineVars, next_mono, sweeps, prev_cursor>>
  PROVE  Inv'
<1>1. Streamed /\ run = "running"
  BY RefillFacts
<1>2. PositionInv'
  BY <1>1 DEF Inv, PositionInv, EngPos, engineVars
<1>3. KnownInv'
  BY <1>1 DEF Inv, KnownInv, Known, EngMono, EngPos, Loading, engineVars
<1>4. StopInv'
  BY <1>1 DEF Inv, StopInv, Loading
<1>5. QED
  BY <1>1, <1>2, <1>3, <1>4 DEF Inv, Loading, engineVars
-----------------------------------------------------------------------------
LEMMA DearmInv == Inv /\ Dearm => Inv'
<1> SUFFICES ASSUME Inv, Dearm PROVE Inv'
  OBVIOUS
<1>0. /\ hpc = "dearm" /\ hpc' = "data" /\ filled' = 0
      /\ ready' = [ready EXCEPT ![Bank] = FALSE]
      /\ UNCHANGED <<engineVars, rows, chunk, next_mono, sweeps, prev_cursor,
                     scan_point, scan_sweep, finished>>
  BY DEF Dearm
<1>1. Loading /\ Loading'
  BY <1>0 DEF Loading
<1>2. ready \in [Banks -> BOOLEAN] /\ ready' \in [Banks -> BOOLEAN]
  BY <1>0 DEF Inv, TypeOK, EngineTypeOK
<1>3. TypeOK'
  <2>1. EngineTypeOK'
    BY <1>0, <1>2 DEF Inv, TypeOK, EngineTypeOK, engineVars
  <2>2. 0 \in 0 .. BankSize
    BY EngineAssumption
  <2>3. filled' \in 0 .. BankSize
    BY <1>0, <2>2
  <2>4. QED BY <1>0, <2>1, <2>3 DEF Inv, TypeOK
<1>4. WindowInv'
  <2>1. WindowInv /\ Bank \in Banks /\ (next_mono - 1) % 2 # Bank
    BY <1>1, RefillFacts DEF Inv, Bank
  <2>2. /\ Bank' = Bank /\ ready'[Bank] = FALSE
        /\ ready'[(next_mono - 1) % 2] = ready[(next_mono - 1) % 2]
    BY <1>0, <1>1, <1>2, <2>1, RefillFacts DEF Bank
  <2>3. HasRows(Bank, next_mono, 0)
    BY EngineAssumption DEF HasRows, Rows
  <2>4. QED
    BY <1>0, <2>1, <2>2, <2>3 DEF WindowInv, Holds, HasRows, DataChunk
<1>5. QED BY <1>0, <1>1, <1>3, <1>4, RefillKeeps

LEMMA WriteRowsInv == Inv /\ WriteRows => Inv'
<1> SUFFICES ASSUME Inv, WriteRows PROVE Inv'
  OBVIOUS
<1>0. PICK upto \in filled + 1 .. ChunkRows :
        /\ rows' = [rows EXCEPT ![Bank] =
                      [o \in Rows |-> IF filled <= o /\ o < upto
                                      THEN PointAt(DataChunk, o) ELSE @[o]]]
        /\ filled' = upto
        /\ hpc' = IF upto = ChunkRows THEN "chunk" ELSE "data"
  BY DEF WriteRows
<1>1. /\ hpc = "data"
      /\ UNCHANGED <<engineVars, ready, chunk, next_mono, sweeps, prev_cursor,
                     scan_point, scan_sweep, finished>>
  BY DEF WriteRows
<1>2. Loading /\ Loading'
  BY <1>0, <1>1 DEF Loading
<1>3. /\ rows \in [Banks -> [Rows -> 0 .. N]] /\ filled \in 0 .. BankSize
      /\ DataChunk \in Nat /\ ChunkRows \in 0 .. BankSize /\ Bank \in Banks
      /\ \A o \in Rows : o >= ChunkRows => PointAt(DataChunk, o) = NoPoint
      /\ (next_mono - 1) % 2 \in Banks /\ (next_mono - 1) % 2 # Bank
      /\ next_mono \in Nat
  BY <1>2, RefillFacts, NumChunksBounds DEF Inv, TypeOK, EngineTypeOK, Bank
<1>4. upto \in 0 .. BankSize
  BY <1>3, EngineAssumption
<1>5. /\ \A o \in Rows : rows'[Bank][o] = IF filled <= o /\ o < upto
                                         THEN PointAt(DataChunk, o) ELSE rows[Bank][o]
      /\ rows'[(next_mono - 1) % 2] = rows[(next_mono - 1) % 2]
      /\ rows' \in [Banks -> [Rows -> 0 .. N]]
  BY <1>0, <1>3, PointAtType
<1>6. TypeOK'
  <2>1. EngineTypeOK'
    BY <1>1, <1>5 DEF Inv, TypeOK, EngineTypeOK, engineVars
  <2>2. QED BY <1>0, <1>1, <1>4, <2>1 DEF Inv, TypeOK
<1>7. WindowInv'
  <2>1. HasRows(Bank, next_mono, filled)
    BY <1>1, <1>2, RefillFacts DEF Inv, WindowInv
  <2>2. HasRows(Bank, next_mono, upto)'
    BY <1>0, <1>1, <1>3, <1>4, <1>5, <2>1, EngineAssumption
       DEF HasRows, Rows, Bank, DataChunk
  <2>3. hpc' = "chunk" => HasRows(Bank, next_mono, BankSize)'
    BY <1>0, <1>1, <1>3, <1>4, <2>2, EngineAssumption DEF HasRows, Rows, DataChunk, Bank, NoPoint
  <2>4. Holds((next_mono - 1) % 2, next_mono - 1)'
    BY <1>1, <1>2, <1>5, RefillFacts DEF Inv, WindowInv, Holds, HasRows
  <2>5. ~ready'[Bank'] /\ (hpc' = "data" => filled' = upto) /\ hpc' \in {"data", "chunk"}
    BY <1>0, <1>1, <1>2, RefillFacts DEF Inv, WindowInv, Bank
  <2>6. (hpc = "data" => HasRows(Bank, next_mono, filled))'
    BY <1>0, <2>2
  <2>7. QED BY <2>3, <2>4, <2>5, <2>6 DEF WindowInv
<1>8. QED BY <1>1, <1>2, <1>6, <1>7, RefillKeeps

LEMMA WriteChunkInv == Inv /\ WriteChunk => Inv'
<1> SUFFICES ASSUME Inv, WriteChunk PROVE Inv'
  OBVIOUS
<1>0. /\ hpc = "chunk" /\ hpc' = "rearm"
      /\ chunk' = [chunk EXCEPT ![Bank] = DataChunk]
      /\ UNCHANGED <<engineVars, rows, ready, next_mono, sweeps, prev_cursor, filled,
                     scan_point, scan_sweep, finished>>
  BY DEF WriteChunk
<1>1. Loading /\ Loading'
  BY <1>0 DEF Loading
<1>2. /\ chunk \in [Banks -> Nat] /\ DataChunk \in Nat /\ Bank \in Banks
      /\ (next_mono - 1) % 2 \in Banks /\ (next_mono - 1) % 2 # Bank
  BY <1>1, RefillFacts, NumChunksBounds DEF Inv, TypeOK, EngineTypeOK, Bank
<1>3. /\ chunk' \in [Banks -> Nat] /\ chunk'[Bank] = DataChunk
      /\ chunk'[(next_mono - 1) % 2] = chunk[(next_mono - 1) % 2]
  BY <1>0, <1>2
<1>4. TypeOK'
  <2>1. EngineTypeOK'
    BY <1>0, <1>3 DEF Inv, TypeOK, EngineTypeOK, engineVars
  <2>2. QED BY <1>0, <2>1 DEF Inv, TypeOK
<1>5. WindowInv'
  <2>1. WindowInv
    BY <1>1, RefillFacts DEF Inv
  <2>2. QED
    BY <1>0, <1>3, <2>1 DEF WindowInv, Holds, HasRows, DataChunk, Bank
<1>6. QED BY <1>0, <1>1, <1>4, <1>5, RefillKeeps

(* Re-arming moves the window one position: the bank just loaded is the new *)
(* front, and the stop rule bounds how far it can get.                      *)
LEMMA RearmInv == Inv /\ Rearm => Inv'
<1> SUFFICES ASSUME Inv, Rearm PROVE Inv'
  OBVIOUS
<1>0. /\ hpc = "rearm" /\ hpc' = "poll" /\ next_mono' = next_mono + 1
      /\ ready' = [ready EXCEPT ![Bank] = TRUE]
      /\ UNCHANGED <<engineVars, rows, chunk, sweeps, prev_cursor, filled,
                     scan_point, scan_sweep, finished>>
  BY DEF Rearm
<1>1. Loading
  BY <1>0 DEF Loading
<1>2. /\ ready \in [Banks -> BOOLEAN] /\ Bank \in Banks /\ next_mono \in Nat \ {0, 1}
      /\ (next_mono - 1) % 2 \in Banks /\ (next_mono - 1) % 2 # Bank
      /\ Streamed /\ run = "running"
      /\ sweeps \in Nat /\ prev_cursor \in 0 .. N
  BY <1>1, RefillFacts DEF Inv, TypeOK, EngineTypeOK, Bank
<1>3. /\ ready' \in [Banks -> BOOLEAN] /\ ready'[Bank] = TRUE
      /\ ready'[(next_mono - 1) % 2] = ready[(next_mono - 1) % 2]
  BY <1>0, <1>2
<1>4. TypeOK'
  <2>1. EngineTypeOK'
    BY <1>0, <1>3 DEF Inv, TypeOK, EngineTypeOK, engineVars
  <2>2. next_mono + 1 \in Nat \ {0, 1}
    BY <1>2
  <2>3. QED BY <1>0, <2>1, <2>2 DEF Inv, TypeOK
<1>5. Known = next_mono - 1 /\ Known <= EngPos /\ EngPos = next_mono - 1
  BY <1>1, <1>2, PlayedHeld DEF Inv, KnownInv, PositionInv
<1>6. WindowInv'
  <2>1. WindowInv
    BY <1>2 DEF Inv
  <2>2. PICK m \in Nat : m = next_mono
    BY <1>2
  <2>3. next_mono' - 1 = m /\ next_mono' - 2 = m - 1 /\ next_mono' % 2 = (m - 1) % 2
    BY <1>0, <1>2, <2>2
  <2>4. Holds(m % 2, m)'
    BY <1>0, <1>3, <2>1, <2>2 DEF WindowInv, Holds, HasRows, Bank, DataChunk
  <2>5. Holds((m - 1) % 2, m - 1)'
    BY <1>0, <1>3, <2>1, <2>2 DEF WindowInv, Holds, HasRows
  <2>6. Holds((next_mono - 1) % 2, next_mono - 1)'
    BY <2>3, <2>4 DEF Holds, HasRows
  <2>7. Holds(Bank, next_mono - 2)'
    BY <2>3, <2>5 DEF Holds, HasRows, Bank
  <2>8. QED BY <1>0, <2>6, <2>7 DEF WindowInv
<1>7. PositionInv'
  BY <1>0, <1>2, <1>5 DEF Inv, PositionInv, EngPos, engineVars
<1>8. KnownInv'
  BY <1>0, <1>2, <1>5 DEF Inv, KnownInv, Known, EngMono, EngPos, Loading, engineVars
<1>9. StopInv'
  <2>1. SUFFICES ASSUME Repeats > 0
        PROVE next_mono <= Repeats * NumChunks /\ sweeps < Repeats
    BY <1>0, <1>2 DEF StopInv
  <2>2. sweeps < Repeats
    BY <1>0, <1>2, <2>1 DEF Inv, StopInv
  <2>3. Chunk(SeenPoint(prev_cursor)) \in 0 .. NumChunks - 1
    BY <1>2, PointFacts, EngineAssumption DEF SeenPoint, MinOf, Points
  <2>4. next_mono - 1 < (sweeps + 1) * NumChunks
    BY <1>2, <1>5, <2>3, NumChunksBounds DEF Known, EngMono
  <2>5. (sweeps + 1) * NumChunks <= Repeats * NumChunks
    BY <1>2, <2>1, <2>2, NumChunksBounds, CyclicAssumption
  <2>6. (sweeps + 1) * NumChunks \in Nat /\ Repeats * NumChunks \in Nat
    BY <1>2, NumChunksBounds, CyclicAssumption
  <2>7. QED BY <2>2, <2>4, <2>5, <2>6, <1>2
<1>10. QED
  BY <1>0, <1>2, <1>4, <1>6, <1>7, <1>8, <1>9 DEF Inv, engineVars

LEMMA HaltEngineInv == Inv /\ HaltEngine => Inv'
<1> SUFFICES ASSUME Inv, HaltEngine PROVE Inv'
  OBVIOUS
<1>0. /\ hpc = "halt" /\ hpc' = "exit" /\ run' = "reset" /\ underflow' = FALSE
      /\ scan_point' = N - 1 /\ scan_sweep' = Repeats - 1 /\ finished' = TRUE
      /\ UNCHANGED <<point, cursor, base, first, slot, sweep, windowVars,
                     next_mono, sweeps, prev_cursor, filled>>
  BY DEF HaltEngine, EngineReset
<1>1. TypeOK'
  <2>1. EngineTypeOK'
    BY <1>0 DEF Inv, TypeOK, EngineTypeOK, windowVars
  <2>2. N - 1 \in Points /\ Repeats - 1 \in Int
    BY EngineAssumption, CyclicAssumption DEF Points
  <2>3. QED BY <1>0, <2>1, <2>2 DEF Inv, TypeOK
<1>2. Streamed => (WindowInv /\ PositionInv /\ KnownInv /\ StopInv)'
  BY <1>0 DEF Inv, WindowInv, Holds, HasRows, Bank, DataChunk, PositionInv, EngPos,
              KnownInv, Known, EngMono, Loading, StopInv, windowVars
<1>3. ~Streamed => ResidentInv'
  BY <1>0 DEF Inv, ResidentInv, windowVars
<1>4. QED BY <1>0, <1>1, <1>2, <1>3 DEF Inv

LEMMA StepInv == Inv /\ [Next]_vars => Inv'
<1> SUFFICES ASSUME Inv, [Next]_vars PROVE Inv'
  OBVIOUS
<1>1. CASE Fire
  BY <1>1, FireInv
<1>2. CASE Engine
  <2>1. UNCHANGED hostVars /\ FrameEnd
    BY <1>2 DEF Engine
  <2>2. ~Finish
    BY CyclicAssumption DEF Finish
  <2>3. QED
    BY <2>1, <2>2, AdvanceInv, StallPointInv, WrapInv, StallWrapInv DEF FrameEnd
<1>3. CASE Host
  BY <1>3, StartThreadInv, PollInv, DearmInv, WriteRowsInv, WriteChunkInv, RearmInv,
     HaltEngineInv DEF Host
<1>4. CASE UNCHANGED vars
  <2>1. UNCHANGED <<engineVars, windowVars, hostVars>>
    BY <1>4 DEF vars
  <2>2. TypeOK'
    BY <2>1 DEF Inv, TypeOK, EngineTypeOK, engineVars, windowVars, hostVars
  <2>3. Streamed => (WindowInv /\ PositionInv /\ KnownInv /\ StopInv)'
    BY <2>1 DEF Inv, WindowInv, Holds, HasRows, Bank, DataChunk, PositionInv, EngPos,
                KnownInv, Known, EngMono, Loading, StopInv, engineVars, windowVars, hostVars
  <2>4. ~Streamed => ResidentInv'
    BY <2>1 DEF Inv, ResidentInv, engineVars, windowVars, hostVars
  <2>5. QED BY <2>1, <2>2, <2>3, <2>4 DEF Inv, engineVars, windowVars, hostVars
<1>5. CASE Halted
  BY <1>4, <1>5 DEF Halted
<1>6. QED BY <1>1, <1>2, <1>3, <1>4, <1>5 DEF Next

(* The inductive invariant holds of every behaviour of the engine and the   *)
(* refill thread, for every sweep length, bank size and number of repeats.  *)
THEOREM Invariance == Spec => []Inv
<1>1. Init => Inv
  BY InitInv
<1>2. Inv /\ [Next]_vars => Inv'
  BY StepInv
<1>3. QED BY <1>1, <1>2, PTL DEF Spec

(* Every variable of the engine, the window and the thread keeps its type.  *)
THEOREM TypeCorrect == Spec => []TypeOK
<1>1. Inv => TypeOK
  BY DEF Inv
<1>2. QED BY <1>1, Invariance, PTL

(* What the outputs carry is the point the engine says it plays: no refill  *)
(* order, poll timing or stall puts a wrong point out.                      *)
THEOREM RightPoint == Spec => []NeverWrongPoint
<1>1. Inv => NeverWrongPoint
  BY DEF Inv, NeverWrongPoint
<1>2. QED BY <1>1, Invariance, PTL

(* The bank the engine plays from stays armed, labelled and intact while    *)
(* the thread rewrites the other one.                                       *)
THEOREM BankIntact == Spec => []PlayedBankIntact
<1>1. Inv => PlayedBankIntact
  <2>1. SUFFICES ASSUME Inv, Streamed PROVE
          LET b == BankOf(point)
          IN  /\ Resident(point)
              /\ \A o \in Rows : PointAt(Chunk(point), o) # NoPoint =>
                                   rows[b][o] = PointAt(Chunk(point), o)
    BY DEF PlayedBankIntact
  <2>2. point \in Points
    BY <2>1 DEF Inv, TypeOK, EngineTypeOK
  <2>3. BankOf(point) = EngPos % 2 /\ EngPos % NumChunks = Chunk(point)
    BY <2>1, <2>2, BankIsParity DEF EngPos
  <2>4. Holds(EngPos % 2, EngPos)
    BY <2>1, PlayedHeld
  <2>5. \A o \in Rows : o < BankSize
    BY EngineAssumption DEF Rows
  <2>6. QED BY <2>3, <2>4, <2>5 DEF Holds, HasRows, Resident
<1>2. QED BY <1>1, Invariance, PTL

(* The wraps the thread infers from CURSOR are the engine's wraps, up to    *)
(* the one it has not yet seen, however far apart its polls are.            *)
THEOREM WrapsCounted == Spec => []WrapCountExact
<1>1. Inv => WrapCountExact
  BY DEF Inv, KnownInv, WrapCountExact, TypeOK, EngineTypeOK
<1>2. QED BY <1>1, Invariance, PTL

(* A finite repeat emits less than one bank of sweep Repeats + 1, because   *)
(* the engine cannot leave chunk 0 before the thread has counted the wrap.  *)
THEOREM Overshoot == Spec => []OvershootBound
<1>1. ASSUME Inv, Streamed, Repeats > 0
      PROVE  sweep * N + point < Repeats * N + BankSize
  <2>1. /\ sweep \in Nat /\ point \in Points /\ next_mono \in Nat /\ Repeats \in Nat
        /\ N \in Nat \ {0} /\ BankSize \in Nat \ {0} /\ NumChunks \in Nat \ {0}
    BY <1>1, EngineAssumption, CyclicAssumption, NumChunksBounds DEF Inv, TypeOK, EngineTypeOK
  <2>2. Chunk(point) \in 0 .. NumChunks - 1
    BY <2>1, PointFacts
  <2>3. sweep * NumChunks + Chunk(point) <= Repeats * NumChunks
    <3>1. EngPos <= next_mono - 1 /\ next_mono - 1 <= Repeats * NumChunks
      BY <1>1, <2>1 DEF Inv, PositionInv, StopInv
    <3>2. QED BY <3>1, <2>1, <2>2 DEF EngPos
  <2>4. CASE sweep < Repeats
    <3>1. (sweep + 1) * N <= Repeats * N /\ (sweep + 1) * N = sweep * N + N
      BY <2>1, <2>4
    <3>2. QED BY <3>1, <2>1 DEF Points
  <2>5. CASE sweep >= Repeats
    <3>1. sweep * NumChunks >= Repeats * NumChunks
      BY <2>1, <2>5
    <3>2. Chunk(point) = 0 /\ sweep * NumChunks = Repeats * NumChunks
      BY <3>1, <2>1, <2>2, <2>3
    <3>3. sweep = Repeats
      BY <3>2, <2>1
    <3>4. point < BankSize
      BY <3>2, <2>1 DEF Chunk, Points
    <3>5. QED BY <3>3, <3>4, <2>1 DEF Points
  <2>6. QED BY <2>1, <2>4, <2>5
<1>2. Inv => OvershootBound
  BY <1>1 DEF OvershootBound
<1>3. QED BY <1>2, Invariance, PTL

-----------------------------------------------------------------------------
\* What holds of the thread's counts, also when no refill is needed.

LEMMA CountStep == Inv /\ Inv' /\ CountInv /\ [Next]_vars => CountInv'
<1> SUFFICES ASSUME Inv, Inv', CountInv, [Next]_vars PROVE CountInv'
  OBVIOUS
<1>1. /\ sweeps \in Nat /\ sweep \in Nat /\ prev_cursor \in 0 .. N /\ cursor \in 0 .. N
      /\ point \in Points
  BY DEF Inv, TypeOK, EngineTypeOK
<1>2. CASE Fire
  BY <1>1, <1>2 DEF Fire, Start, hostVars, CountInv, Inv
<1>3. CASE Engine
  <2>1. UNCHANGED hostVars
    BY <1>3 DEF Engine
  <2>2. CASE AdvancePoint
    BY <1>1, <2>1, <2>2, EngineAssumption DEF AdvancePoint, LastPoint, hostVars, CountInv, Points
  <2>3. CASE StallPoint
    BY <2>1, <2>3 DEF StallPoint, hostVars, CountInv
  <2>4. CASE Wrap
    BY <1>1, <2>1, <2>4 DEF Wrap, hostVars, CountInv
  <2>5. CASE StallWrap
    BY <1>1, <2>1, <2>5, EngineAssumption DEF StallWrap, LastPoint, hostVars, CountInv, Points
  <2>6. CASE Finish
    BY <2>6, CyclicAssumption DEF Finish
  <2>7. QED BY <1>3, <2>2, <2>3, <2>4, <2>5, <2>6 DEF Engine, FrameEnd
<1>4. CASE Poll
  BY <1>1, <1>4 DEF Poll, Wrapped, engineVars, CountInv
<1>5. CASE HaltEngine
  BY <1>5 DEF HaltEngine, EngineReset, CountInv
<1>6. CASE StartThread \/ Dearm \/ WriteRows \/ WriteChunk \/ Rearm \/ UNCHANGED vars
  BY <1>6 DEF StartThread, Dearm, WriteRows, WriteChunk, Rearm, vars, hostVars,
              engineVars, CountInv
<1>7. QED
  BY <1>2, <1>3, <1>4, <1>5, <1>6 DEF Next, Host, Halted

THEOREM CountInvariance == Spec => []CountInv
<1>1. Init => CountInv
  BY EngineAssumption DEF Init, EngineInit, CountInv, SeenPoint, MinOf
<1>2. QED BY <1>1, CountStep, Invariance, PTL DEF Spec

(* The progress the session shows is never ahead of the engine.             *)
THEOREM MirrorBehind == Spec => []ProgressNotAhead
<1>1. ASSUME Inv, CountInv, ~finished
      PROVE  scan_sweep * N + scan_point <= sweep * N + point
  <2>1. /\ sweeps \in Nat /\ sweep \in Nat /\ prev_cursor \in 0 .. N /\ cursor \in 0 .. N
        /\ point \in Points /\ N \in Nat \ {0}
    BY <1>1, EngineAssumption DEF Inv, TypeOK, EngineTypeOK
  <2>2. scan_sweep = sweeps /\ scan_point = SeenPoint(prev_cursor)
    BY <1>1 DEF CountInv
  <2>3. scan_point \in 0 .. N - 1
    BY <2>1, <2>2 DEF SeenPoint, MinOf
  <2>4. CASE sweeps = sweep
    <3>1. scan_point <= point
      BY <1>1, <2>1, <2>2, <2>4 DEF CountInv, SeenPoint, MinOf, Points
    <3>2. QED BY <2>1, <2>2, <2>3, <2>4, <3>1 DEF Points
  <2>5. CASE sweeps < sweep
    <3>1. (sweeps + 1) * N <= sweep * N /\ (sweeps + 1) * N = sweeps * N + N
      BY <2>1, <2>5
    <3>2. QED BY <2>1, <2>2, <2>3, <3>1 DEF Points
  <2>6. QED BY <1>1, <2>1, <2>4, <2>5 DEF CountInv
<1>2. Inv /\ CountInv => ProgressNotAhead
  BY <1>1 DEF ProgressNotAhead
<1>3. QED BY <1>2, Invariance, CountInvariance, PTL

(* A scan is latched finished only once the engine has made its Repeats     *)
(* wraps: the wraps the thread counts are never phantom.                    *)
THEOREM FinishedLate == Spec => FinishedAfterAllSweeps
<1>1. ASSUME Inv, CountInv, [Next]_vars, finished', ~finished
      PROVE  sweep >= Repeats
  <2>1. CASE HaltEngine
    BY <1>1, <2>1, CyclicAssumption DEF HaltEngine, Inv, CountInv, TypeOK, EngineTypeOK
  <2>2. CASE ~HaltEngine
    BY <1>1, <2>2 DEF Next, Fire, Engine, Host, Halted, StartThread, Poll, Dearm, WriteRows,
                      WriteChunk, Rearm, hostVars, vars
  <2>3. QED BY <2>1, <2>2
<1>2. Inv /\ CountInv /\ [Next]_vars => [finished' /\ ~finished => sweep >= Repeats]_vars
  BY <1>1
<1>3. QED BY <1>2, Invariance, CountInvariance, PTL DEF Spec, FinishedAfterAllSweeps

(* The two ends of a finite repeat: not before its last sweep is played,   *)
(* and less than one bank of points beyond it.                             *)
THEOREM StopsInTime == Spec => StopsAfterSweeps
BY Overshoot, FinishedLate, PTL DEF StopsAfterSweeps
-----------------------------------------------------------------------------
\* The abstract player.

(* The two banks, the refills, the polls and the halt implement the player  *)
(* that has none of them: every step is a step of the player or a stutter.  *)
THEOREM Refinement == Spec => PlaysInOrder
<1>1. Init => Player!Init
  BY DEF Init, EngineInit, Player!Init
<1>2. ASSUME Inv, Inv', [Next]_vars PROVE [Player!Next]_(Player!vars)
  <2>0. slot = point /\ slot' = point' /\ first = 0 /\ point \in Points
    BY <1>2 DEF Inv, TypeOK, EngineTypeOK
  <2>1. CASE Fire
    <3>1. rows[0][0] = 0
      BY <1>2, <2>1 DEF Fire, Start, Inv
    <3>2. Player!Start
      BY <2>1, <3>1 DEF Fire, Start, Player!Start
    <3>3. QED BY <3>2 DEF Player!Next
  <2>2. CASE Engine
    <3>1. CASE AdvancePoint
      <4>1. slot + 1 < N /\ slot' = slot + 1 /\ run = "running" /\ run' = run
        BY <2>0, <3>1, EngineAssumption DEF AdvancePoint, LastPoint, Points
      <4>2. QED BY <4>1 DEF Player!Next, Player!Play
    <3>2. CASE StallPoint \/ StallWrap
      BY <3>2 DEF StallPoint, StallWrap, Player!vars
    <3>3. CASE Wrap
      <4>1. ~(slot + 1 < N) /\ slot' = 0 /\ run = "running" /\ run' = run
        BY <2>0, <3>3, EngineAssumption DEF Wrap, LastPoint, Points
      <4>2. QED BY <4>1, CyclicAssumption DEF Player!Next, Player!Play
    <3>4. CASE Finish
      BY <3>4, CyclicAssumption DEF Finish
    <3>5. QED BY <2>2, <3>1, <3>2, <3>3, <3>4 DEF Engine, FrameEnd
  <2>3. CASE HaltEngine
    BY <2>3 DEF HaltEngine, EngineReset, Player!Next, Player!Halt
  <2>4. CASE \/ StartThread \/ Poll \/ Dearm \/ WriteRows \/ WriteChunk \/ Rearm
             \/ UNCHANGED vars
    BY <2>4 DEF StartThread, Poll, Dearm, WriteRows, WriteChunk, Rearm, vars, engineVars,
                Player!vars
  <2>5. QED
    BY <1>2, <2>1, <2>2, <2>3, <2>4 DEF Next, Host, Halted
<1>3. QED
  BY <1>1, <1>2, Invariance, PTL DEF Spec, PlaysInOrder, Player!Spec

=============================================================================
