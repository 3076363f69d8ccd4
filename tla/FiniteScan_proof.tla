-------------------------- MODULE FiniteScan_proof --------------------------
(***************************************************************************)
(* Proofs about FiniteScan, for every number of points and bank size: the  *)
(* type invariant, and, until a word of a refill has gone astray, that the *)
(* banks implement ScanPlayer, that nobody is told "done" too early, and   *)
(* that the engine never waits for a chunk the refill has passed.          *)
(***************************************************************************)
EXTENDS FiniteScan, TLAPS

-----------------------------------------------------------------------------
\* Arithmetic of points and chunks.

(* NumChunks is the number of banks the sweep fills, the last one partly.   *)
LEMMA NumChunksBounds ==
  /\ NumChunks \in Nat \ {0}
  /\ (NumChunks - 1) * BankSize < N
  /\ N <= NumChunks * BankSize
BY EngineAssumption DEF NumChunks

(* Every point is row Row(p) of chunk Chunk(p), and PointAt finds it there. *)
LEMMA PointFacts ==
  ASSUME NEW p \in Points
  PROVE  /\ Chunk(p) \in 0 .. NumChunks - 1
         /\ Row(p) \in Rows
         /\ PointAt(Chunk(p), Row(p)) = p
         /\ p # NoPoint
<1>1. Chunk(p) \in Nat /\ Row(p) \in Rows /\ p = Chunk(p) * BankSize + Row(p)
  BY EngineAssumption DEF Chunk, Row, Rows, Points
<1>2. Chunk(p) < NumChunks
  BY <1>1, NumChunksBounds, EngineAssumption DEF Points, Rows, Chunk, NumChunks
<1>3. QED
  BY <1>1, <1>2, NumChunksBounds, EngineAssumption DEF PointAt, Points, NoPoint

(* Chunk numbers grow with the point, by at most one per point.             *)
LEMMA ChunkMono ==
  ASSUME NEW p \in Nat, NEW q \in Nat, p <= q
  PROVE  Chunk(p) \in Nat /\ Chunk(q) \in Nat /\ Chunk(p) <= Chunk(q)
BY EngineAssumption DEF Chunk

LEMMA ChunkStep ==
  ASSUME NEW p \in Nat
  PROVE  Chunk(p + 1) \in {Chunk(p), Chunk(p) + 1}
BY EngineAssumption DEF Chunk

(* The chunks of the first and of the last point.                           *)
LEMMA FirstChunk == Chunk(0) = 0
BY EngineAssumption DEF Chunk

LEMMA LastChunk == Chunk(N - 1) = NumChunks - 1
BY NumChunksBounds, EngineAssumption DEF Chunk, NumChunks

(* A row holds a point of the sweep, or none.                              *)
LEMMA PointAtType ==
  ASSUME NEW c \in Nat, NEW o \in Rows
  PROVE  PointAt(c, o) \in 0 .. N
BY EngineAssumption DEF PointAt, Rows, NoPoint

-----------------------------------------------------------------------------
(* The inductive invariant.                                                 *)

Loading == place["wait_done"] \in {"queue", "look", "reset", "send"}

\* Before FIRE the banks hold chunks 0 and 1, and nothing is queued.
Prepared ==
  run = "reset" =>
    /\ point = 0 /\ rows[0][0] = 0 /\ place["wait_done"] = "away" /\ result = "none"
    /\ pending = <<>> /\ \A t \in Threads : held[t] = <<>>

Position == base = 0 /\ cursor = point /\ (astray \/ slot = point)

\* An armed bank holds the points its label says.
Labelled ==
  \A b \in Banks : ready[b] =>
    /\ chunk[b] < due.of
    /\ \A o \in Rows : PointAt(chunk[b], o) # NoPoint => rows[b][o] = PointAt(chunk[b], o)

Held(c) == ready[c % 2] /\ chunk[c % 2] = c

\* The engine plays the chunk before the one that is due, and that one exists.
Refilling == Chunk(point) = due.of - 1 /\ due.of < NumChunks

\* The engine plays one of the two chunks before the one that is due, and both are
\* held; the older one is given up only when the engine has left it.
Window ==
  /\ Held(due.of - 1) /\ (due.word = 0 => Held(due.of - 2))
  /\ Chunk(point) \in due.of - 2 .. due.of - 1
  /\ due.word # 0 => Refilling

\* The bank being loaded is disarmed, and its first rows are written.
Filling ==
  due.word # 0 =>
    /\ ~ready[due.of % 2]
    /\ \A o \in Rows : o + 1 < due.word /\ PointAt(due.of, o) # NoPoint
                         => rows[due.of % 2][o] = PointAt(due.of, o)
    /\ due.word <= ArmWord(due.of)
    /\ due.word = ArmWord(due.of) => chunk[due.of % 2] = due.of

\* The chunks whose words wait_done may have queued so far.
Latest == IF Loading THEN next_chunk ELSE next_chunk - 1
Known  == {c \in Nat : c <= Latest /\ c <= due.of /\ (c = due.of => Refilling)}
Of(s, cs) == \A i \in 1 .. Len(s) : s[i].of \in cs

\* Whatever is queued may be written when its turn comes, and wait_done has not
\* gone on without it.
Queued ==
  /\ Of(pending, Known) /\ \A t \in Threads : Of(held[t], Known)
  /\ Loading => next_chunk \in Known
  /\ due.of <= Latest + 1
  /\ place["wait_done"] = "cursor" => next_chunk < NumChunks

Ended ==
  /\ run = "done" => point = N - 1
  /\ result = "done" => run = "done" /\ place["wait_done"] = "away"

InOrder == Labelled /\ Window /\ Filling /\ Queued

Inv == TypeOK /\ Prepared /\ Position /\ Ended /\ (~astray => InOrder)

-----------------------------------------------------------------------------
(* Arithmetic of the two banks, and sequences of words.                     *)

LEMMA Parity ==
  ASSUME NEW c \in Nat
  PROVE  c % 2 \in Banks /\ (c + 1) % 2 # c % 2 /\ (c + 2) % 2 = c % 2
BY DEF Banks

\* The rows of the last chunk that a refill leaves hold no point.
LEMMA RowsOfChunk ==
  ASSUME NEW c \in Nat, NEW o \in Rows, PointAt(c, o) # NoPoint
  PROVE  o < ChunkRows(c)
BY EngineAssumption DEF PointAt, NoPoint, Rows, MinOf, ChunkRows

\* A chunk of the sweep has a row, and no more than the bank.
LEMMA RowsInChunk ==
  ASSUME NEW c \in Nat, c < NumChunks
  PROVE  ChunkRows(c) \in 1 .. BankSize
<1>1. c * BankSize <= (NumChunks - 1) * BankSize /\ c * BankSize \in Nat
  BY NumChunksBounds, EngineAssumption
<1>2. (NumChunks - 1) * BankSize \in Nat
  BY NumChunksBounds, EngineAssumption
<1>3. QED BY <1>1, <1>2, NumChunksBounds, EngineAssumption DEF ChunkRows, MinOf

LEMMA RowCount ==
  ASSUME NEW c \in Nat
  PROVE  ChunkRows(c) \in Int /\ ChunkRows(c) <= BankSize
BY EngineAssumption DEF ChunkRows, MinOf

LEMMA OfMore ==
  ASSUME NEW s, NEW A, NEW B, A \subseteq B, Of(s, A)
  PROVE  Of(s, B)
BY DEF Of

LEMMA OfAppend ==
  ASSUME NEW s \in Seq(Words), NEW w \in Words, NEW A, Of(s, A), w.of \in A
  PROVE  Of(Append(s, w), A)
BY DEF Of

LEMMA OfTail ==
  ASSUME NEW s \in Seq(Words), NEW A, Of(s, A), s # <<>>
  PROVE  Of(Tail(s), A) /\ Head(s).of \in A /\ Head(s) \in Words /\ Tail(s) \in Seq(Words)
BY DEF Of

LEMMA OfNone == ASSUME NEW A PROVE Of(<<>>, A)
BY DEF Of

(* A resident chunk has its point in its row.                               *)
LEMMA ResidentPoint ==
  ASSUME Inv, ~astray, NEW p \in Points, Resident(p)
  PROVE  /\ rows[BankOf(p)][Row(p)] = p
         /\ Chunk(p) < due.of
<1>1. BankOf(p) \in Banks
  BY PointFacts DEF Inv, Position, BankOf, Banks
<1>2. ready[BankOf(p)] /\ chunk[BankOf(p)] = Chunk(p)
  BY DEF Resident
<1>3. Row(p) \in Rows /\ PointAt(Chunk(p), Row(p)) = p /\ p # NoPoint
  BY PointFacts
<1>4. QED
  BY <1>1, <1>2, <1>3 DEF Inv, InOrder, Labelled

(* The window holds the chunk being played and the next one, unless that is *)
(* the chunk to be loaded.                                                  *)
LEMMA WindowHolds ==
  ASSUME Inv, ~astray, NEW p \in Points, Chunk(p) \in due.of - 2 .. due.of - 1,
         Chunk(p) >= Chunk(point)
  PROVE  Resident(p)
<1>1. Chunk(p) \in Nat /\ due.of \in Nat /\ BankOf(p) = Chunk(p) % 2
  BY PointFacts DEF Inv, TypeOK, Words, Position, BankOf
<1>2. Held(Chunk(p))
  <2>1. CASE Chunk(p) = due.of - 1
    BY <2>1 DEF Inv, InOrder, Window
  <2>2. CASE Chunk(p) = due.of - 2
    <3>1. Chunk(point) \in Nat
      BY PointFacts DEF Inv, TypeOK, EngineTypeOK
    <3>2. due.word = 0
      BY <1>1, <2>2, <3>1 DEF Inv, InOrder, Window, Refilling
    <3>3. QED BY <2>2, <3>2 DEF Inv, InOrder, Window
  <2>3. QED BY <1>1, <2>1, <2>2
<1>3. QED BY <1>1, <1>2 DEF Held, Resident

-----------------------------------------------------------------------------
(* Each action preserves the invariant.                                     *)

LEMMA InitInv == Init => Inv
<1>1. SUFFICES ASSUME Init PROVE Inv
  OBVIOUS
<1>2. Chunk(0) = 0 /\ 0 \in Points
  BY FirstChunk, EngineAssumption DEF Points
<1>3. due \in Words /\ due.of = 2 /\ due.word = 0 /\ ~Loading
  BY <1>1 DEF Init, Words, Loading, Threads
<1>4. TypeOK
  <2>1. rows \in [Banks -> [Rows -> 0 .. N]]
    <3>1. \A b \in Banks, o \in Rows : PointAt(b, o) \in 0 .. N
      BY PointAtType DEF Banks
    <3>2. QED BY <1>1, <3>1 DEF Init, EngineInit
  <2>2. ready \in [Banks -> BOOLEAN] /\ chunk \in [Banks -> Nat]
    BY <1>1 DEF Init, EngineInit, Banks
  <2>3. 0 \in Points /\ 0 \in 0 .. N /\ 2 \in Nat \ {0, 1}
    BY <1>2, EngineAssumption
  <2>4. EngineTypeOK
    BY <1>1, <2>1, <2>2, <2>3 DEF Init, EngineInit, EngineTypeOK, Banks
  <2>5. pending \in Seq(Words) /\ held \in [Threads -> Seq(Words)]
    BY <1>1 DEF Init
  <2>6. QED BY <1>1, <1>3, <2>3, <2>4, <2>5 DEF Init, TypeOK, Threads
<1>5. Prepared /\ Position /\ Ended
  BY <1>1, EngineAssumption
     DEF Init, EngineInit, Prepared, Position, Banks, Rows, PointAt, Threads, Ended
<1>6. Labelled
  BY <1>1, <1>3 DEF Init, EngineInit, Labelled, Banks
<1>7. Window
  BY <1>1, <1>2, <1>3 DEF Init, EngineInit, Window, Held, Banks
<1>8. Filling
  BY <1>3 DEF Filling
<1>9. Queued
  BY <1>1, <1>3, OfNone DEF Init, Queued, Latest, Loading, Threads
<1>10. QED BY <1>4, <1>5, <1>6, <1>7, <1>8, <1>9 DEF Inv, InOrder

LEMMA FireInv == Inv /\ Fire => Inv'
<1>1. SUFFICES ASSUME Inv, Fire PROVE Inv'
  OBVIOUS
<1>2. /\ run = "reset" /\ run' = "running" /\ point' = 0 /\ cursor' = 0 /\ base' = 0
      /\ sweep' = 0 /\ first' = rows[0][0] /\ slot' = rows[0][0] /\ underflow' = FALSE
      /\ UNCHANGED <<rows, ready, chunk, place, next_chunk, queued, timed_out, result, pending,
                     held, aliased, due, astray>>
  BY <1>1 DEF Fire, Start, windowVars, hostVars, callVars, queueVars
<1>3. point = 0 /\ rows[0][0] = 0 /\ result = "none"
  BY <1>1, <1>2 DEF Inv, Prepared
<1>4. TypeOK'
  <2>1. 0 \in Points /\ 0 \in 0 .. N /\ 0 \in Banks /\ 0 \in Nat
    BY EngineAssumption DEF Points, Banks
  <2>2. EngineTypeOK'
    BY <1>1, <1>2, <1>3, <2>1 DEF Inv, TypeOK, EngineTypeOK
  <2>3. QED BY <1>1, <1>2, <2>2 DEF Inv, TypeOK
<1>5. Prepared' /\ Position' /\ Ended'
  BY <1>1, <1>2, <1>3 DEF Inv, Prepared, Position, Ended
<1>6. ~astray => Labelled' /\ Window' /\ Filling'
  BY <1>1, <1>2, <1>3 DEF Inv, InOrder, Labelled, Window, Held, Refilling, Filling
<1>7. ~astray => Queued'
  BY <1>1, <1>2, <1>3 DEF Inv, InOrder, Queued, Known, Latest, Loading, Refilling
<1>8. QED BY <1>2, <1>4, <1>5, <1>6, <1>7 DEF Inv, InOrder

LEMMA AdvanceInv == Inv /\ AdvancePoint /\ UNCHANGED hostVars => Inv'
<1>1. SUFFICES ASSUME Inv, AdvancePoint, UNCHANGED hostVars PROVE Inv'
  OBVIOUS
<1>2. /\ run = "running" /\ point + 1 < N /\ Resident(point + 1)
      /\ point' = point + 1 /\ cursor' = point + 1 /\ underflow' = FALSE
      /\ slot' = rows[BankOf(point + 1)][Row(point + 1)]
      /\ UNCHANGED <<run, base, first, sweep, rows, ready, chunk>>
      /\ UNCHANGED <<place, next_chunk, queued, timed_out, result, pending, held, aliased, due,
                     astray>>
  BY <1>1, EngineAssumption DEF AdvancePoint, LastPoint, windowVars, hostVars, callVars,
     queueVars, Inv, TypeOK, EngineTypeOK, Points
<1>3. point \in Points /\ point + 1 \in Points /\ due.of \in Nat
  BY <1>1, <1>2, EngineAssumption DEF Inv, TypeOK, EngineTypeOK, Points, Words
<1>4. ~astray => slot' = point + 1 /\ Chunk(point + 1) < due.of
  BY <1>1, <1>2, <1>3, ResidentPoint
<1>5. TypeOK'
  <2>1. point + 1 \in 0 .. N
    BY <1>3, EngineAssumption DEF Points
  <2>2. BankOf(point + 1) \in Banks /\ Row(point + 1) \in Rows
    BY <1>1, <1>3, PointFacts DEF Inv, Position, BankOf, Banks
  <2>3. slot' \in 0 .. N
    BY <1>1, <1>2, <2>2 DEF Inv, TypeOK, EngineTypeOK
  <2>4. EngineTypeOK'
    BY <1>1, <1>2, <1>3, <2>1, <2>3 DEF Inv, TypeOK, EngineTypeOK
  <2>5. QED BY <1>1, <1>2, <2>4 DEF Inv, TypeOK
<1>6. Prepared' /\ Position' /\ Ended'
  BY <1>1, <1>2, <1>4 DEF Inv, Prepared, Position, Ended
<1>7. ~astray => InOrder'
  <2>1. SUFFICES ASSUME ~astray PROVE InOrder'
    OBVIOUS
  <2>2. Labelled' /\ Filling'
    BY <1>1, <1>2, <2>1 DEF Inv, InOrder, Labelled, Filling
  <2>3. /\ Chunk(point) \in Nat /\ Chunk(point + 1) \in Nat
        /\ Chunk(point + 1) \in {Chunk(point), Chunk(point) + 1}
    BY <1>3, PointFacts, ChunkStep DEF Points
  <2>4. Chunk(point + 1) \in due.of - 2 .. due.of - 1 /\ (Refilling => Refilling')
    BY <1>1, <1>2, <1>3, <1>4, <2>1, <2>3 DEF Inv, InOrder, Window, Refilling
  <2>5. Window'
    BY <1>1, <1>2, <2>1, <2>4 DEF Inv, InOrder, Window, Held
  <2>6. Known \subseteq Known' /\ Latest' = Latest /\ Loading' = Loading
    BY <1>2, <2>4 DEF Known, Latest, Loading
  <2>7. Queued'
    BY <1>1, <1>2, <2>1, <2>6, OfMore DEF Inv, InOrder, Queued
  <2>8. QED BY <2>2, <2>5, <2>7 DEF InOrder
<1>8. QED BY <1>2, <1>5, <1>6, <1>7 DEF Inv

(* The engine holds, or ends the sweep; Wrap and StallWrap are for cyclic   *)
(* scans.                                                                   *)
LEMMA RestOfEngineInv ==
  ASSUME Inv, StallPoint \/ Wrap \/ StallWrap \/ Finish, UNCHANGED hostVars
  PROVE  Inv'
<1>1. /\ run = "running" /\ run' \in {"running", "done"}
      /\ run' = "done" => point + 1 >= N
  BY FiniteAssumption DEF StallPoint, Wrap, StallWrap, Finish, LastPoint
<1>2. /\ UNCHANGED <<point, cursor, base, first, slot, sweep, rows, ready, chunk>>
      /\ UNCHANGED <<place, next_chunk, queued, timed_out, result, pending, held, aliased, due,
                     astray>>
      /\ underflow' \in {underflow, TRUE}
  BY FiniteAssumption
     DEF StallPoint, Wrap, StallWrap, Finish, windowVars, hostVars, callVars, queueVars
<1>3. TypeOK'
  <2>1. EngineTypeOK'
    BY <1>1, <1>2 DEF Inv, TypeOK, EngineTypeOK
  <2>2. QED BY <1>1, <1>2, <2>1 DEF Inv, TypeOK
<1>4. Prepared' /\ Position'
  BY <1>1, <1>2 DEF Inv, Prepared, Position
<1>5. InOrder => InOrder'
  BY <1>2 DEF InOrder, Labelled, Filling, Window, Held, Refilling, Queued, Known, Latest, Loading
<1>6. Ended'
  BY <1>1, <1>2, EngineAssumption DEF Inv, Ended, TypeOK, EngineTypeOK, Points
<1>7. QED BY <1>1, <1>2, <1>3, <1>4, <1>5, <1>6 DEF Inv

(* What a step of a caller or of a flush that writes nothing leaves alone.  *)
LEMMA NothingWritten ==
  ASSUME Inv, UNCHANGED <<engineVars, windowVars, due, astray>>,
         TypeOK', Ended', run # "reset", ~astray => Queued'
  PROVE  Inv'
<1>1. UNCHANGED <<run, point, cursor, base, first, slot, underflow, sweep, rows, ready, chunk,
                  due, astray>>
  BY DEF engineVars, windowVars
<1>2. Prepared' /\ Position'
  BY <1>1 DEF Inv, Prepared, Position
<1>3. Labelled /\ Window /\ Filling => Labelled' /\ Window' /\ Filling'
  BY <1>1 DEF Labelled, Window, Held, Refilling, Filling
<1>4. QED BY <1>1, <1>2, <1>3 DEF Inv, InOrder

(* A call of wait_done starts, looks and returns.                           *)
LEMMA CallInv ==
  ASSUME Inv, DeadlinePasses \/ WaitDone \/ ReadStatus
  PROVE  Inv'
<1>1. /\ UNCHANGED <<engineVars, windowVars, next_chunk, queued, queueVars, due, astray>>
      /\ run # "reset"
  BY DEF Inv, Prepared, DeadlinePasses, WaitDone, ReadStatus
<1>2. /\ UNCHANGED <<run, point, cursor, base, first, slot, underflow, sweep, rows, ready, chunk>>
      /\ UNCHANGED <<next_chunk, queued, pending, held, aliased, due, astray>>
  BY <1>1 DEF engineVars, windowVars, queueVars
<1>3. place \in [Threads -> {"away", "status", "cursor", "queue", "look", "reset", "send"}]
  BY DEF Inv, TypeOK
<1>4. /\ place' \in [Threads -> {"away", "status", "cursor", "queue", "look", "reset", "send"}]
      /\ timed_out' \in BOOLEAN /\ result' \in {"none", "done", "timeout"}
      /\ Loading' = Loading
      /\ place'["wait_done"] = "cursor" => next_chunk < NumChunks \/ place' = place
  <2>1. timed_out \in BOOLEAN /\ result \in {"none", "done", "timeout"}
    BY DEF Inv, TypeOK
  <2>2. CASE DeadlinePasses
    BY <1>3, <2>1, <2>2 DEF DeadlinePasses, Loading
  <2>3. CASE WaitDone
    <3>1. place' = [place EXCEPT !["wait_done"] = "status"] /\ place["wait_done"] = "away"
      BY <2>3 DEF WaitDone
    <3>2. timed_out' \in BOOLEAN /\ result' = result
      BY <2>3 DEF WaitDone
    <3>3. QED BY <1>3, <2>1, <3>1, <3>2 DEF Loading, Threads
  <2>4. CASE ReadStatus
    <3>1. PICK p \in {"away", "status", "cursor"} :
            /\ place' = [place EXCEPT !["wait_done"] = p]
            /\ p = "cursor" => next_chunk < NumChunks
      BY <2>4 DEF ReadStatus, GoOn, Answer
    <3>2. result' \in {"none", "done", "timeout"} /\ timed_out' = timed_out
      BY <2>1, <2>4 DEF ReadStatus, GoOn, Answer
    <3>3. QED BY <1>3, <2>1, <2>4, <3>1, <3>2 DEF ReadStatus, Loading, Threads
  <2>5. QED BY <2>2, <2>3, <2>4
<1>5. TypeOK'
  <2>1. EngineTypeOK'
    BY <1>2 DEF Inv, TypeOK, EngineTypeOK
  <2>2. QED BY <1>2, <1>4, <2>1 DEF Inv, TypeOK
<1>6. Ended'
  BY <1>2, <1>3 DEF Inv, Ended, DeadlinePasses, WaitDone, ReadStatus, GoOn, Answer, Threads
<1>7. ~astray => Queued'
  <2>1. Known' = Known /\ Latest' = Latest
    BY <1>2, <1>4 DEF Known, Latest, Refilling
  <2>2. QED BY <1>2, <1>4, <2>1 DEF Inv, InOrder, Queued
<1>8. QED BY <1>1, <1>5, <1>6, <1>7, NothingWritten

(* The refill begins only when the engine plays the chunk before.           *)
LEMMA ReadCursorInv == Inv /\ ReadCursor => Inv'
<1>1. SUFFICES ASSUME Inv, ReadCursor PROVE Inv'
  OBVIOUS
<1>2. /\ UNCHANGED <<run, point, cursor, base, first, slot, underflow, sweep, rows, ready, chunk>>
      /\ UNCHANGED <<next_chunk, timed_out, pending, held, aliased, due, astray>>
      /\ place["wait_done"] = "cursor" /\ queued' = 0
  BY <1>1 DEF ReadCursor, engineVars, windowVars, queueVars
<1>3. point \in Points /\ next_chunk \in Nat \ {0, 1} /\ cursor = point /\ due.of \in Nat
      /\ place \in [Threads -> {"away", "status", "cursor", "queue", "look", "reset", "send"}]
      /\ result \in {"none", "done", "timeout"}
  BY <1>1 DEF Inv, TypeOK, EngineTypeOK, Position, Words
<1>4. /\ place' \in [Threads -> {"away", "status", "cursor", "queue", "look", "reset", "send"}]
      /\ place'["wait_done"] \in {"queue", "away", "status"}
      /\ result' \in {result, "timeout"}
      /\ place'["wait_done"] = "queue" => BankFree
  BY <1>1, <1>3 DEF ReadCursor, GoOn, Answer, Threads
<1>5. ~Loading /\ (Loading' => BankFree)
  BY <1>2, <1>4 DEF Loading
<1>6. TypeOK'
  <2>1. EngineTypeOK'
    BY <1>1, <1>2 DEF Inv, TypeOK, EngineTypeOK
  <2>2. QED BY <1>1, <1>2, <1>3, <1>4, <2>1 DEF Inv, TypeOK
<1>7. Ended'
  BY <1>1, <1>2, <1>3, <1>4 DEF Inv, Ended
<1>8. run # "reset"
  BY <1>1, <1>2 DEF Inv, Prepared
<1>9. ~astray => Queued'
  <2>1. SUFFICES ASSUME ~astray PROVE Queued'
    OBVIOUS
  <2>2. /\ Chunk(point) \in Nat /\ Chunk(point) <= due.of - 1 /\ due.of <= next_chunk
        /\ next_chunk < NumChunks
    BY <1>1, <1>2, <1>3, <1>5, <2>1, PointFacts DEF Inv, InOrder, Window, Queued, Latest
  <2>3. ASSUME BankFree PROVE next_chunk = due.of /\ Refilling
    <3>1. point >= (next_chunk - 1) * BankSize
      BY <1>3, <2>3 DEF BankFree
    <3>2. PICK k \in Nat : k = next_chunk - 1
      BY <1>3
    <3>3. (k * BankSize) \in Nat /\ Chunk(k * BankSize) = k
      BY <3>2, EngineAssumption DEF Chunk
    <3>4. Chunk(point) >= k
      BY <1>3, <3>1, <3>2, <3>3, ChunkMono DEF Points
    <3>5. QED BY <1>3, <2>2, <3>2, <3>4 DEF Refilling
  <2>4. Refilling' = Refilling
    BY <1>2 DEF Refilling
  <2>5. Known \subseteq Known'
    BY <1>2, <1>3, <1>5, <2>4 DEF Known, Latest
  <2>6. Loading' => next_chunk' \in Known'
    BY <1>2, <1>3, <1>5, <2>3, <2>4 DEF Known, Latest
  <2>7. due.of <= Latest' + 1
    BY <1>2, <1>3, <2>2 DEF Latest
  <2>8. QED
    BY <1>1, <1>2, <1>4, <2>1, <2>5, <2>6, <2>7, OfMore DEF Inv, InOrder, Queued
<1>10. UNCHANGED <<engineVars, windowVars, due, astray>>
  BY <1>2 DEF engineVars, windowVars
<1>11. QED BY <1>1, <1>6, <1>7, <1>8, <1>9, <1>10, NothingWritten

-----------------------------------------------------------------------------
(* The queue.                                                               *)

LEMMA QueueWordInv == Inv /\ QueueWord => Inv'
<1>1. SUFFICES ASSUME Inv, QueueWord PROVE Inv'
  OBVIOUS
<1>2. /\ UNCHANGED <<engineVars, windowVars, due, astray>>
      /\ UNCHANGED <<next_chunk, aliased, timed_out, result>>
      /\ place["wait_done"] = "queue" /\ queued' = queued + 1
  BY <1>1 DEF QueueWord
<1>3. /\ pending \in Seq(Words) /\ held \in [Threads -> Seq(Words)] /\ queued \in Nat
      /\ place \in [Threads -> {"away", "status", "cursor", "queue", "look", "reset", "send"}]
      /\ next_chunk \in Nat \ {0, 1}
  BY <1>1 DEF Inv, TypeOK
<1>4. PICK w \in Words : w.of = next_chunk /\ pending' = Append(pending, w)
  <2>1. [of |-> next_chunk, word |-> queued] \in Words
    BY <1>3 DEF Words
  <2>2. QED BY <1>1, <2>1 DEF QueueWord
<1>5. /\ pending' \in Seq(Words)
      /\ held' = [t \in Threads |-> IF t \in aliased THEN pending' ELSE held[t]]
      /\ held' \in [Threads -> Seq(Words)]
  BY <1>1, <1>3, <1>4 DEF QueueWord
<1>6. /\ place' \in [Threads -> {"away", "status", "cursor", "queue", "look", "reset", "send"}]
      /\ place'["wait_done"] \in {"queue", "look"}
  BY <1>1, <1>3 DEF QueueWord, Threads
<1>7. TypeOK'
  <2>1. EngineTypeOK'
    BY <1>1, <1>2 DEF Inv, TypeOK, EngineTypeOK, engineVars, windowVars
  <2>2. QED BY <1>1, <1>2, <1>3, <1>5, <1>6, <2>1 DEF Inv, TypeOK
<1>8. Ended' /\ run # "reset"
  BY <1>1, <1>2 DEF Inv, Ended, Prepared, engineVars
<1>9. ~astray => Queued'
  <2>1. SUFFICES ASSUME ~astray PROVE Queued'
    OBVIOUS
  <2>2. Loading /\ Loading' /\ Latest' = Latest /\ Known' = Known
    BY <1>2, <1>6 DEF Loading, Latest, Known, Refilling, engineVars
  <2>3. next_chunk \in Known
    BY <1>1, <2>1, <2>2 DEF Inv, InOrder, Queued
  <2>4. Of(pending', Known)
    BY <1>1, <1>3, <1>4, <2>1, <2>3, OfAppend DEF Inv, InOrder, Queued
  <2>5. \A t \in Threads : Of(held'[t], Known)
    BY <1>1, <1>5, <2>1, <2>4 DEF Inv, InOrder, Queued
  <2>6. QED
    BY <1>1, <1>2, <1>6, <2>1, <2>2, <2>3, <2>4, <2>5 DEF Inv, InOrder, Queued
<1>10. QED BY <1>1, <1>2, <1>7, <1>8, <1>9, NothingWritten

(* A flush looks, takes the list and ends.                                  *)
LEMMA FlushInv ==
  ASSUME Inv, run # "reset", NEW t \in Threads, LookAtQueue(t) \/ ResetQueue(t) \/ Sent(t)
  PROVE  Inv'
<1>1. UNCHANGED <<engineVars, windowVars, due, astray, queued, timed_out, result>>
  BY DEF LookAtQueue, ResetQueue, Sent, callVars
<1>2. /\ pending \in Seq(Words) /\ held \in [Threads -> Seq(Words)] /\ aliased \subseteq Threads
      /\ place \in [Threads -> {"away", "status", "cursor", "queue", "look", "reset", "send"}]
      /\ next_chunk \in Nat \ {0, 1}
  BY DEF Inv, TypeOK
<1>3. place[t] \in {"look", "reset", "send"}
  BY DEF LookAtQueue, ResetQueue, Sent
<1>4. /\ place' \in [Threads -> {"away", "status", "cursor", "queue", "look", "reset", "send"}]
      /\ pending' \in {pending, <<>>} /\ aliased' \subseteq Threads
      /\ held' \in {held, [held EXCEPT ![t] = pending]}
      /\ next_chunk' \in {next_chunk, next_chunk + 1}
  BY <1>2 DEF LookAtQueue, ResetQueue, Sent, Flushed, queueVars, callVars
<1>5. held' \in [Threads -> Seq(Words)] /\ pending' \in Seq(Words)
  <2>1. <<>> \in Seq(Words)
    OBVIOUS
  <2>2. QED BY <1>2, <1>4, <2>1
<1>6. /\ Loading' => Loading /\ next_chunk' = next_chunk
      /\ Latest' = Latest
      /\ place'["wait_done"] \in {"status", "reset", "send"} \/ place'["wait_done"] = place["wait_done"]
  <2>1. CASE t = "wait_done"
    <3>1. Loading
      BY <1>3, <2>1 DEF Loading
    <3>2. \/ /\ place'["wait_done"] \in {"reset", "send"} /\ next_chunk' = next_chunk
          \/ /\ place'["wait_done"] = "status" /\ next_chunk' = next_chunk + 1
      BY <1>2, <2>1 DEF LookAtQueue, ResetQueue, Sent, Flushed, callVars, Threads
    <3>3. QED BY <1>2, <3>1, <3>2 DEF Loading, Latest
  <2>2. CASE t = "monitor"
    <3>1. place'["wait_done"] = place["wait_done"] /\ next_chunk' = next_chunk
      BY <1>2, <2>2 DEF LookAtQueue, ResetQueue, Sent, Flushed, callVars, Threads
    <3>2. QED BY <3>1 DEF Loading, Latest
  <2>3. QED BY <2>1, <2>2 DEF Threads
<1>7. TypeOK'
  <2>1. EngineTypeOK'
    BY <1>1 DEF Inv, TypeOK, EngineTypeOK, engineVars, windowVars
  <2>2. next_chunk' \in Nat \ {0, 1}
    BY <1>2, <1>4
  <2>3. QED BY <1>1, <1>4, <1>5, <2>1, <2>2 DEF Inv, TypeOK
<1>8. Ended'
  <2>1. place["wait_done"] = "away" => place'["wait_done"] = "away"
    BY <1>2, <1>3 DEF LookAtQueue, ResetQueue, Sent, Flushed, Threads
  <2>2. QED BY <1>1, <2>1 DEF Inv, Ended, engineVars
<1>9. ~astray => Queued'
  <2>1. SUFFICES ASSUME ~astray PROVE Queued'
    OBVIOUS
  <2>2. Known' = Known
    BY <1>1, <1>6 DEF Known, Refilling, engineVars
  <2>3. Of(pending', Known)
    BY <1>4, <2>1, OfNone DEF Inv, InOrder, Queued
  <2>4. \A u \in Threads : Of(held'[u], Known)
    BY <1>2, <1>4, <2>1 DEF Inv, InOrder, Queued
  <2>5. /\ Loading' => next_chunk' \in Known
        /\ place'["wait_done"] = "cursor" => next_chunk' < NumChunks
    <3>1. place'["wait_done"] = "cursor" => next_chunk' = next_chunk
      BY <1>2, <1>3 DEF LookAtQueue, ResetQueue, Sent, Flushed, callVars, Threads
    <3>2. QED BY <1>6, <2>1, <3>1 DEF Inv, InOrder, Queued
  <2>6. QED
    BY <1>1, <1>6, <2>1, <2>2, <2>3, <2>4, <2>5 DEF Inv, InOrder, Queued
<1>10. QED BY <1>1, <1>7, <1>8, <1>9, NothingWritten

-----------------------------------------------------------------------------
(* The words.                                                               *)

\* A word that is due belongs to a chunk that may be written now.
LEMMA DueFacts ==
  ASSUME Inv, ~astray, NEW t \in Threads, held[t] # <<>>, Head(held[t]) = due
  PROVE  /\ Refilling /\ due.of \in Nat \ {0, 1} /\ due.word \in Nat
         /\ due.of < NumChunks /\ due.of <= Latest
         /\ ChunkRows(due.of) \in 1 .. BankSize
         /\ due.of % 2 \in Banks /\ (due.of - 1) % 2 \in Banks
         /\ (due.of - 1) % 2 # due.of % 2 /\ (due.of - 2) % 2 = due.of % 2
         /\ Held(due.of - 1)
<1>1. due.of \in Nat \ {0, 1} /\ due.word \in Nat /\ held[t] \in Seq(Words)
  BY DEF Inv, TypeOK, Words
<1>2. due.of \in Known /\ Refilling
  <2>1. Of(held[t], Known)
    BY DEF Inv, InOrder, Queued
  <2>2. due.of \in Known
    BY <1>1, <2>1, OfTail
  <2>3. QED BY <2>2 DEF Known
<1>3. PICK k \in Nat : due.of = k + 2
  <2>1. due.of - 2 \in Nat /\ due.of = (due.of - 2) + 2
    BY <1>1
  <2>2. QED BY <2>1
<1>4. /\ due.of % 2 \in Banks /\ (due.of - 1) % 2 \in Banks
      /\ (due.of - 1) % 2 # due.of % 2 /\ (due.of - 2) % 2 = due.of % 2
  BY <1>3, Parity DEF Banks
<1>5. QED
  BY <1>1, <1>2, <1>4, RowsInChunk DEF Known, Refilling, Inv, InOrder, Window

\* What writing any word does to the types.
LEMMA WriteType ==
  ASSUME TypeOK, NEW w \in Words, Write(w)
  PROVE  /\ rows' \in [Banks -> [Rows -> 0 .. N]] /\ ready' \in [Banks -> BOOLEAN]
         /\ chunk' \in [Banks -> Nat]
<1>1. w.of \in Nat /\ w.of % 2 \in Banks /\ w.word \in Nat
  BY Parity DEF Words
<1>2. /\ rows \in [Banks -> [Rows -> 0 .. N]] /\ ready \in [Banks -> BOOLEAN]
      /\ chunk \in [Banks -> Nat]
  BY DEF TypeOK, EngineTypeOK
<1>3. rows' \in [Banks -> [Rows -> 0 .. N]]
  <2>1. CASE w.word \in 1 .. ChunkRows(w.of)
    <3>1. w.word - 1 \in Rows
      BY <1>1, <2>1, RowCount, EngineAssumption DEF Rows
    <3>2. PointAt(w.of, w.word - 1) \in 0 .. N
      BY <1>1, <3>1, PointAtType
    <3>3. QED BY <1>1, <1>2, <2>1, <3>1, <3>2 DEF Write
  <2>2. CASE ~(w.word \in 1 .. ChunkRows(w.of))
    BY <1>2, <2>2 DEF Write
  <2>3. QED BY <2>1, <2>2
<1>4. ready' \in [Banks -> BOOLEAN]
  BY <1>2 DEF Write
<1>5. chunk' \in [Banks -> Nat]
  BY <1>1, <1>2 DEF Write
<1>6. QED BY <1>3, <1>4, <1>5

\* The word that is due leaves the window, the bank and its label in order.
LEMMA DueWritten ==
  ASSUME Inv, ~astray, NEW t \in Threads, held[t] # <<>>, Head(held[t]) = due,
         Write(due), due' = Following(due), UNCHANGED engineVars
  PROVE  /\ Labelled' /\ Window' /\ Filling'
         /\ (due'.of = due.of /\ Refilling') \/ due'.of = due.of + 1
<1> DEFINE d == due.of  k == due.word  b == due.of % 2  R == ChunkRows(due.of)
<1>1. /\ Refilling /\ d \in Nat \ {0, 1} /\ k \in Nat /\ d < NumChunks
      /\ R \in 1 .. BankSize /\ b \in Banks
      /\ (d - 1) % 2 \in Banks /\ (d - 1) % 2 # b /\ (d - 2) % 2 = b /\ Held(d - 1)
  BY DueFacts
<1>2. /\ rows \in [Banks -> [Rows -> 0 .. N]] /\ ready \in [Banks -> BOOLEAN]
      /\ chunk \in [Banks -> Nat] /\ point' = point /\ due \in Words
  BY DEF Inv, TypeOK, EngineTypeOK, engineVars
<1>3. Labelled /\ Window /\ Filling /\ k <= R + 2
  BY <1>1 DEF Inv, InOrder, Filling, ArmWord
<1>4. /\ ready' = IF k = 0 THEN [x \in Banks |-> x # b]
                  ELSE IF k = R + 2 THEN [x \in Banks |-> TRUE] ELSE ready
      /\ rows' = IF k \in 1 .. R
                   THEN [rows EXCEPT ![b] = [@ EXCEPT ![k - 1] = PointAt(d, k - 1)]] ELSE rows
      /\ chunk' = IF k = R + 1 THEN [chunk EXCEPT ![b] = d] ELSE chunk
  BY DEF Write, LabelWord, ArmWord
<1>5. due' = IF k = R + 2 THEN [of |-> d + 1, word |-> 0] ELSE [of |-> d, word |-> k + 1]
  BY DEF Following, ArmWord
<1>6. \A o \in Rows : PointAt(d, o) # NoPoint => o < R
  BY <1>1, RowsOfChunk
<1>7. ArmWord(d) = R + 2
  BY DEF ArmWord
<1>8. CASE k = 0
  <2>1. /\ ready' = [x \in Banks |-> x # b] /\ rows' = rows /\ chunk' = chunk
        /\ due'.of = d /\ due'.word = 1
    BY <1>1, <1>4, <1>5, <1>8
  <2>2. Refilling'
    BY <1>1, <1>2, <2>1 DEF Refilling
  <2>3. Labelled'
    <3>1. \A x \in Banks : ready'[x] => ready[x]
      BY <1>1, <2>1 DEF Held, Banks
    <3>2. QED BY <1>3, <2>1, <3>1 DEF Labelled
  <2>4. Window'
    BY <1>1, <1>2, <1>3, <2>1, <2>2 DEF Window, Held
  <2>5. Filling'
    <3>1. ~ready'[b] /\ 1 <= R + 2 /\ 1 # R + 2 /\ \A o \in Rows : ~(o + 1 < 1)
      <4>1. ~ready'[b]
        BY <1>1, <2>1
      <4>2. R \in Int /\ 1 <= R
        BY <1>1
      <4>3. \A o \in Rows : ~(o + 1 < 1)
        BY EngineAssumption DEF Rows
      <4>4. QED BY <4>1, <4>2, <4>3
    <3>2. ArmWord(due'.of) = R + 2
      BY <1>7, <2>1
    <3>3. QED BY <2>1, <3>1, <3>2 DEF Filling, ArmWord, ChunkRows
  <2>6. QED BY <2>1, <2>2, <2>3, <2>4, <2>5
<1>9. CASE k \in 1 .. R
  <2>1. k - 1 \in Rows /\ PointAt(d, k - 1) \in 0 .. N
    <3>1. k - 1 \in Rows /\ d \in Nat
      BY <1>1, <1>9, EngineAssumption DEF Rows
    <3>2. QED BY <3>1, PointAtType
  <2>2. /\ ready' = ready /\ chunk' = chunk /\ due'.of = d /\ due'.word = k + 1
        /\ rows' = [rows EXCEPT ![b] = [@ EXCEPT ![k - 1] = PointAt(d, k - 1)]]
    BY <1>1, <1>4, <1>5, <1>9
  <2>3. /\ \A x \in Banks : x # b => rows'[x] = rows[x]
        /\ rows'[b][k - 1] = PointAt(d, k - 1)
        /\ \A o \in Rows : o # k - 1 => rows'[b][o] = rows[b][o]
    BY <1>1, <1>2, <2>1, <2>2
  <2>4. Refilling' /\ ~ready[b]
    BY <1>1, <1>2, <1>3, <1>9, <2>2 DEF Refilling, Filling
  <2>5. Labelled'
    <3>1. SUFFICES ASSUME NEW x \in Banks, ready[x]
                   PROVE  /\ chunk[x] < d
                          /\ \A o \in Rows : PointAt(chunk[x], o) # NoPoint
                                               => rows'[x][o] = PointAt(chunk[x], o)
      BY <2>2 DEF Labelled
    <3>2. x # b
      BY <2>4, <3>1
    <3>3. QED BY <1>3, <2>3, <3>1, <3>2 DEF Labelled
  <2>6. Window'
    BY <1>1, <1>2, <1>3, <1>9, <2>2, <2>4 DEF Window, Held
  <2>7. Filling'
    <3>1. \A o \in Rows : o + 1 < k + 1 /\ PointAt(d, o) # NoPoint => rows'[b][o] = PointAt(d, o)
      <4>1. SUFFICES ASSUME NEW o \in Rows, o + 1 < k + 1, PointAt(d, o) # NoPoint
                     PROVE  rows'[b][o] = PointAt(d, o)
        OBVIOUS
      <4>2. CASE o = k - 1
        BY <2>3, <4>2
      <4>3. CASE o # k - 1
        <5>1. o + 1 < k
          BY <1>1, <4>1, <4>3 DEF Rows
        <5>2. QED BY <1>3, <1>9, <2>3, <4>1, <4>3, <5>1 DEF Filling
      <4>4. QED BY <4>2, <4>3
    <3>2. k + 1 <= R + 2 /\ k + 1 # R + 2
      BY <1>1, <1>9
    <3>3. QED BY <1>7, <2>2, <2>4, <3>1, <3>2 DEF Filling
  <2>8. QED BY <2>2, <2>4, <2>5, <2>6, <2>7
<1>10. CASE k = R + 1
  <2>1. /\ ready' = ready /\ rows' = rows /\ chunk' = [chunk EXCEPT ![b] = d]
        /\ due'.of = d /\ due'.word = k + 1
    BY <1>1, <1>4, <1>5, <1>10
  <2>2. chunk'[b] = d /\ \A x \in Banks : x # b => chunk'[x] = chunk[x]
    BY <1>1, <1>2, <2>1
  <2>3. Refilling' /\ ~ready[b]
    BY <1>1, <1>2, <1>3, <1>10, <2>1 DEF Refilling, Filling
  <2>4. Labelled'
    BY <1>3, <2>1, <2>2, <2>3 DEF Labelled
  <2>5. Window'
    BY <1>1, <1>2, <1>3, <1>10, <2>1, <2>2, <2>3 DEF Window, Held
  <2>6. Filling'
    <3>1. \A o \in Rows : PointAt(d, o) # NoPoint => rows[b][o] = PointAt(d, o)
      BY <1>1, <1>3, <1>6, <1>10 DEF Filling, Rows
    <3>2. QED BY <1>1, <1>7, <1>10, <2>1, <2>2, <2>3, <3>1 DEF Filling
  <2>7. QED BY <2>1, <2>3, <2>4, <2>5, <2>6
<1>11. CASE k = R + 2
  <2>1. /\ ready' = [x \in Banks |-> TRUE] /\ rows' = rows /\ chunk' = chunk
        /\ due'.of = d + 1 /\ due'.word = 0
    BY <1>1, <1>4, <1>5, <1>11
  <2>2. chunk[b] = d /\ \A o \in Rows : PointAt(d, o) # NoPoint => rows[b][o] = PointAt(d, o)
    BY <1>1, <1>3, <1>6, <1>7, <1>11 DEF Filling, Rows
  <2>3. ready[(d - 1) % 2] /\ chunk[(d - 1) % 2] = d - 1
    BY <1>1 DEF Held
  <2>4. Labelled'
    <3>1. SUFFICES ASSUME NEW x \in Banks
                   PROVE  /\ chunk[x] < d + 1
                          /\ \A o \in Rows : PointAt(chunk[x], o) # NoPoint
                                               => rows[x][o] = PointAt(chunk[x], o)
      BY <2>1 DEF Labelled
    <3>2. CASE x = b
      BY <1>1, <2>2, <3>2
    <3>3. CASE x # b
      <4>1. x = (d - 1) % 2
        BY <1>1, <3>3 DEF Banks
      <4>2. QED BY <1>1, <1>3, <2>3, <4>1 DEF Labelled
    <3>4. QED BY <3>2, <3>3
  <2>5. Window'
    <3>1. PICK c \in Nat : d = c
      BY <1>1
    <3>2. due'.of - 1 = c /\ due'.of - 2 = c - 1 /\ Chunk(point') = c - 1
      BY <1>1, <1>2, <2>1, <3>1 DEF Refilling
    <3>3. Held(c)' /\ Held(c - 1)'
      BY <1>1, <2>1, <2>2, <2>3, <3>1 DEF Held
    <3>4. Held(due.of - 1)' /\ Held(due.of - 2)'
      BY <3>2, <3>3 DEF Held
    <3>5. Chunk(point') \in due'.of - 2 .. due'.of - 1
      BY <3>1, <3>2
    <3>6. QED BY <2>1, <3>4, <3>5 DEF Window
  <2>6. Filling'
    BY <2>1 DEF Filling
  <2>7. QED BY <2>1, <2>4, <2>5, <2>6
<1>12. QED
  BY <1>1, <1>3, <1>8, <1>9, <1>10, <1>11

LEMMA SendWordInv ==
  ASSUME Inv, NEW t \in Threads, SendWord(t)
  PROVE  Inv'
<1>1. /\ UNCHANGED <<engineVars, place, next_chunk, queued, timed_out, result, pending, aliased>>
      /\ held[t] # <<>> /\ held' = [held EXCEPT ![t] = Tail(held[t])]
      /\ Write(Head(held[t]))
      /\ due' = IF Head(held[t]) = due THEN Following(due) ELSE due
      /\ astray' = (astray \/ Head(held[t]) # due)
  BY DEF SendWord, callVars
<1>2. held \in [Threads -> Seq(Words)] /\ astray \in BOOLEAN /\ due \in Words
  BY DEF Inv, TypeOK
<1>3. Head(held[t]) \in Words /\ Tail(held[t]) \in Seq(Words)
  BY <1>1, <1>2
<1>4. TypeOK'
  <2>1. EngineTypeOK'
    BY <1>1, <1>3, WriteType DEF Inv, TypeOK, EngineTypeOK, engineVars
  <2>2. held' \in [Threads -> Seq(Words)]
    BY <1>1, <1>2, <1>3
  <2>3. due' \in Words
    BY <1>1, <1>2 DEF Following, Words
  <2>4. QED BY <1>1, <1>2, <2>1, <2>2, <2>3 DEF Inv, TypeOK
<1>5. run # "reset" /\ UNCHANGED <<run, point, cursor, base, slot>>
  BY <1>1 DEF Inv, Prepared, engineVars
<1>6. Prepared' /\ Position' /\ Ended'
  BY <1>1, <1>2, <1>5 DEF Inv, Prepared, Position, Ended
<1>7. ~astray' => InOrder'
  <2>1. SUFFICES ASSUME ~astray' PROVE InOrder'
    OBVIOUS
  <2>2. ~astray /\ Head(held[t]) = due /\ due' = Following(due)
    BY <1>1, <2>1
  <2>3. /\ Labelled' /\ Window' /\ Filling'
        /\ (due'.of = due.of /\ Refilling') \/ due'.of = due.of + 1
    BY <1>1, <2>2, DueWritten
  <2>4. due.of \in Nat /\ due.of <= Latest /\ Refilling /\ Latest' = Latest /\ Loading' = Loading
    BY <1>1, <2>2, DueFacts DEF Latest, Loading
  <2>5. Known \subseteq Known'
    BY <2>3, <2>4 DEF Known
  <2>6. Latest \in Int
    BY DEF Latest, Inv, TypeOK
  <2>7. due'.of <= Latest' + 1
    BY <2>3, <2>4, <2>6
  <2>8. \A u \in Threads : Of(held'[u], Known')
    <3>1. Of(Tail(held[t]), Known)
      BY <1>1, <1>2, <2>2, OfTail DEF Inv, InOrder, Queued
    <3>2. \A u \in Threads : Of(held'[u], Known)
      BY <1>1, <1>2, <2>2, <3>1 DEF Inv, InOrder, Queued
    <3>3. QED BY <2>5, <3>2, OfMore
  <2>9. Queued'
    BY <1>1, <2>2, <2>4, <2>5, <2>7, <2>8, OfMore DEF Inv, InOrder, Queued
  <2>10. QED BY <2>3, <2>9 DEF InOrder
<1>8. QED BY <1>4, <1>6, <1>7 DEF Inv

LEMMA StepInv == Inv /\ [Next]_vars => Inv'
<1>1. SUFFICES ASSUME Inv, [Next]_vars PROVE Inv'
  OBVIOUS
<1>2. CASE Fire
  BY <1>1, <1>2, FireInv
<1>3. CASE Engine
  BY <1>1, <1>3, AdvanceInv, RestOfEngineInv DEF Engine, FrameEnd
<1>4. CASE DeadlinePasses \/ WaitDone \/ ReadStatus
  BY <1>1, <1>4, CallInv
<1>5. CASE ReadCursor
  BY <1>1, <1>5, ReadCursorInv
<1>6. CASE QueueWord
  BY <1>1, <1>6, QueueWordInv
<1>7. CASE Flush("wait_done")
  <2>1. run # "reset"
    BY <1>1, <1>7 DEF Inv, Prepared, Flush, LookAtQueue, ResetQueue, SendWord, Sent
  <2>2. QED BY <1>1, <1>7, <2>1, FlushInv, SendWordInv DEF Flush, Threads
<1>8. CASE Monitor
  BY <1>1, <1>8, FlushInv, SendWordInv DEF Monitor, Flush, Threads
<1>9. CASE UNCHANGED vars
  <2>1. /\ UNCHANGED <<run, point, cursor, base, first, slot, underflow, sweep, rows, ready, chunk>>
        /\ UNCHANGED <<place, next_chunk, queued, timed_out, result, pending, held, aliased, due,
                       astray>>
    BY <1>9 DEF vars, engineVars, windowVars, hostVars, callVars, queueVars
  <2>2. TypeOK'
    BY <1>1, <2>1 DEF Inv, TypeOK, EngineTypeOK
  <2>3. Prepared' /\ Position' /\ Ended'
    BY <1>1, <2>1 DEF Inv, Prepared, Position, Ended
  <2>4. InOrder => InOrder'
    BY <2>1 DEF InOrder, Labelled, Window, Held, Refilling, Filling, Queued, Known, Latest, Loading
  <2>5. QED BY <1>1, <2>1, <2>2, <2>3, <2>4 DEF Inv
<1>10. QED
  BY <1>1, <1>2, <1>3, <1>4, <1>5, <1>6, <1>7, <1>8, <1>9 DEF Next, Host, Returned

-----------------------------------------------------------------------------
(* The theorems.                                                            *)

(* Every reachable state satisfies the invariant.                           *)
THEOREM Invariance == Spec => []Inv
BY InitInv, StepInv, PTL DEF Spec

(* The types of the engine's registers, the banks, wait_done's state and    *)
(* the queue.                                                               *)
THEOREM TypeCorrect == Spec => []TypeOK
<1>1. Inv => TypeOK
  BY DEF Inv
<1>2. QED BY <1>1, Invariance, PTL

(* Nobody is told "done" before the sweep is played; nor, unless a word has *)
(* gone astray, before it is loaded to its end.                             *)
THEOREM ToldInTime == Spec => []DoneMeansPlayed
<1>1. ASSUME Inv, result = "done"
      PROVE  point = N - 1 /\ (astray \/ next_chunk >= NumChunks)
  <2>1. point = N - 1 /\ ~Loading
    BY <1>1 DEF Inv, Ended, Loading
  <2>2. Chunk(point) = NumChunks - 1
    BY <2>1, LastChunk
  <2>3. ASSUME ~astray PROVE next_chunk >= NumChunks
    <3>1. Chunk(point) <= due.of - 1 /\ due.of <= next_chunk - 1 + 1
      BY <1>1, <2>1, <2>2, <2>3, NumChunksBounds DEF Inv, InOrder, Window, Queued, Latest, TypeOK, Words
    <3>2. QED
      BY <1>1, <2>2, <3>1, NumChunksBounds DEF Inv, TypeOK, Words
  <2>4. QED BY <2>1, <2>3
<1>2. Inv => DoneMeansPlayed
  BY <1>1 DEF DoneMeansPlayed
<1>3. QED BY <1>2, Invariance, PTL

(* The engine waits only for the chunk whose words come next, and when it   *)
(* waits, none of its words has been passed over.                           *)
THEOREM NeverPassedBy == Spec => []NotStranded
<1>1. ASSUME Inv, ~LastPoint, ~astray PROVE Resident(point + 1) \/ Chunk(point + 1) = due.of
  <2>1. point \in Points /\ point + 1 \in Points /\ due.of \in Nat
    BY <1>1, EngineAssumption DEF Inv, TypeOK, EngineTypeOK, Points, LastPoint, Words
  <2>2. /\ Chunk(point) \in Nat /\ Chunk(point + 1) \in {Chunk(point), Chunk(point) + 1}
        /\ Chunk(point) \in due.of - 2 .. due.of - 1
    BY <1>1, <2>1, PointFacts, ChunkStep DEF Inv, InOrder, Window, Points
  <2>3. CASE Chunk(point + 1) \in due.of - 2 .. due.of - 1
    BY <1>1, <2>1, <2>2, <2>3, WindowHolds
  <2>4. CASE Chunk(point + 1) = due.of
    BY <2>4
  <2>5. QED BY <2>1, <2>2, <2>3, <2>4
<1>2. Inv => NotStranded
  BY <1>1 DEF NotStranded
<1>3. QED BY <1>2, Invariance, PTL

(* Banks and refills implement the player that has none: until a word has   *)
(* gone astray, every step is a step of the player or a stutter.            *)
THEOREM Refinement == Spec => PlaysInOrder
<1>1. Init => Player!Init
  BY DEF Init, EngineInit, Player!Init
<1>2. ASSUME Inv, [Next]_vars PROVE [astray \/ Player!Next]_(Player!vars)
  <2>1. SUFFICES ASSUME ~astray PROVE [Player!Next]_(Player!vars)
    OBVIOUS
  <2>2. slot = point /\ point \in Points
    BY <1>2, <2>1 DEF Inv, TypeOK, EngineTypeOK, Position
  <2>3. CASE Fire
    <3>1. rows[0][0] = 0
      BY <1>2, <2>3 DEF Fire, Start, Inv, Prepared
    <3>2. QED BY <2>3, <3>1 DEF Fire, Start, Player!Start, Player!Next
  <2>4. CASE AdvancePoint
    <3>1. point + 1 \in Points /\ Resident(point + 1) /\ point + 1 < N
      BY <2>2, <2>4, EngineAssumption DEF AdvancePoint, LastPoint, Points
    <3>2. slot + 1 < N /\ slot' = slot + 1 /\ run = "running" /\ run' = run
      BY <1>2, <2>1, <2>2, <2>4, <3>1, ResidentPoint DEF AdvancePoint
    <3>3. QED BY <3>2 DEF Player!Next, Player!Play
  <2>5. CASE StallPoint \/ Wrap \/ StallWrap
    BY <2>5, FiniteAssumption DEF StallPoint, Wrap, StallWrap, Player!vars
  <2>6. CASE Finish
    BY <2>2, <2>6 DEF Finish, LastPoint, Player!Next, Player!Finish
  <2>7. CASE DeadlinePasses \/ Host \/ Monitor \/ Returned \/ UNCHANGED vars
    <3>1. UNCHANGED <<run, slot>>
      BY <2>7 DEF DeadlinePasses, Host, Monitor, WaitDone, ReadStatus, ReadCursor, QueueWord, Flush,
                  LookAtQueue, ResetQueue, SendWord, Sent, Returned, vars, engineVars
    <3>2. QED BY <3>1 DEF Player!vars
  <2>8. QED
    BY <1>2, <2>3, <2>4, <2>5, <2>6, <2>7 DEF Next, Engine, FrameEnd
<1>3. QED
  BY <1>1, <1>2, Invariance, PTL DEF Spec, PlaysInOrder

=============================================================================
