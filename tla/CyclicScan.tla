----------------------------- MODULE CyclicScan -----------------------------
(***************************************************************************)
(* A repeat_forever streamed scan: the engine plays the sweep over and     *)
(* over while the session's background thread (_stream_refill_loop) polls  *)
(* CURSOR, works out where the engine is, keeps the two banks one chunk    *)
(* ahead of it, and halts it after Repeats whole sweeps.                   *)
(*                                                                         *)
(* Every AXI transaction is a step of its own, so the engine moves between *)
(* the words of a refill.  The words of a refill reach the FPGA in the     *)
(* order _load_chunk queues them: the thread's own flush sends them.       *)
(***************************************************************************)
EXTENDS ScanEngine

CONSTANT Repeats     \* scan_repeats: sweeps to play, 0 = forever

\* A finite repeat needs two points (RuntimeSequenceProgram.__post_init__): with
\* one, CURSOR never decreases.
ASSUME CyclicAssumption == Cyclic = TRUE /\ Repeats \in Nat /\ (Repeats > 0 => N >= 2)

VARIABLES
  hpc,         \* the thread: "off", "poll", "dearm", "data", "chunk", "rearm", "halt", "exit"
  next_mono,   \* next monotonic chunk position to load
  sweeps,      \* wraps the thread has counted
  prev_cursor, \* CURSOR at the previous poll
  filled,      \* rows of the chunk being loaded that are written
  scan_point,  \* _scan_point, mirror read by scan_progress()
  scan_sweep,  \* _scan_sweep, the same
  finished     \* _scan_finished

hostVars == <<hpc, next_mono, sweeps, prev_cursor, filled, scan_point, scan_sweep, finished>>
vars == <<engineVars, windowVars, hostVars>>

MinOf(a, b) == IF a < b THEN a ELSE b

needs_refill == NumChunks > 2
Bank         == next_mono % 2
DataChunk    == next_mono % NumChunks

ChunkRowsShort == MinOf(BankSize - 1, N - DataChunk * BankSize)   \* mutant: last row left out
ChunkRows == MinOf(BankSize, N - DataChunk * BankSize)

\* CURSOR reads N while the engine waits to wrap.
SeenPoint(c) == MinOf(c, N - 1)

\* The engine's monotonic chunk position as the thread reconstructs it.
EngMono(s, c) == s * NumChunks + Chunk(SeenPoint(c))

\* A wrap shows as a CURSOR below the last one.
WrappedOrHeld == cursor <= prev_cursor                     \* mutant
Wrapped == cursor < prev_cursor

SweepsPlayedEarly(s) == Repeats > 0 /\ s + 1 >= Repeats    \* mutant: one early
SweepsPlayed(s) == Repeats > 0 /\ s >= Repeats

\* The bank of position next_mono is free once its chunk has been left.
BankFree(s) == needs_refill /\ EngMono(s, cursor) >= next_mono - 1

Init ==
  /\ EngineInit
  /\ hpc = "off"
  /\ next_mono = 2 /\ sweeps = 0 /\ prev_cursor = 0 /\ filled = 0
  /\ scan_point = 0 /\ scan_sweep = 0 /\ finished = FALSE

\* fire(): CMD_FIRE, then the refill thread is started.
Fire == Start /\ hpc = "off" /\ UNCHANGED hostVars

StartThread ==
  /\ hpc = "off" /\ run # "reset"
  /\ hpc' = "poll"
  /\ UNCHANGED <<engineVars, windowVars, next_mono, sweeps, prev_cursor, filled,
                 scan_point, scan_sweep, finished>>

\* One pass of the loop: read CURSOR, count a wrap, publish the mirror, and
\* halt, refill or sleep.
Poll ==
  /\ hpc = "poll"
  /\ LET s == IF Wrapped THEN sweeps + 1 ELSE sweeps
     IN  /\ sweeps' = s
         /\ prev_cursor' = cursor
         /\ scan_point' = SeenPoint(cursor)
         /\ scan_sweep' = s
         /\ hpc' = IF SweepsPlayed(s) THEN "halt"
                   ELSE IF BankFree(s) THEN "dearm"
                   ELSE "poll"
  /\ UNCHANGED <<engineVars, windowVars, next_mono, filled, finished>>

\* _load_chunk, word by word: BANK_READY without the bank ...
Dearm ==
  /\ hpc = "dearm"
  /\ ready' = [ready EXCEPT ![Bank] = FALSE]
  /\ filled' = 0
  /\ hpc' = "data"
  /\ UNCHANGED <<engineVars, rows, chunk, next_mono, sweeps, prev_cursor,
                 scan_point, scan_sweep, finished>>

\* ... the chunk's rows in ascending order, a burst of any length at a time ...
WriteRows ==
  /\ hpc = "data" /\ filled < ChunkRows
  /\ \E upto \in filled + 1 .. ChunkRows :
       /\ rows' = [rows EXCEPT ![Bank] =
                     [o \in Rows |-> IF filled <= o /\ o < upto
                                     THEN PointAt(DataChunk, o) ELSE @[o]]]
       /\ filled' = upto
       /\ hpc' = IF upto = ChunkRows THEN "chunk" ELSE "data"
  /\ UNCHANGED <<engineVars, ready, chunk, next_mono, sweeps, prev_cursor,
                 scan_point, scan_sweep, finished>>

\* ... BANKb_CHUNK ...
WriteChunk ==
  /\ hpc = "chunk"
  /\ chunk' = [chunk EXCEPT ![Bank] = DataChunk]
  /\ hpc' = "rearm"
  /\ UNCHANGED <<engineVars, rows, ready, next_mono, sweeps, prev_cursor, filled,
                 scan_point, scan_sweep, finished>>

\* ... and BANK_READY with it.
Rearm ==
  /\ hpc = "rearm"
  /\ ready' = [ready EXCEPT ![Bank] = TRUE]
  /\ next_mono' = next_mono + 1
  /\ hpc' = "poll"
  /\ UNCHANGED <<engineVars, rows, chunk, sweeps, prev_cursor, filled,
                 scan_point, scan_sweep, finished>>

\* The K-sweep stop: CMD_SAFE, then the mirror and the latch.
HaltEngine ==
  /\ hpc = "halt"
  /\ EngineReset
  /\ scan_point' = N - 1 /\ scan_sweep' = Repeats - 1
  /\ finished' = TRUE
  /\ hpc' = "exit"
  /\ UNCHANGED <<next_mono, sweeps, prev_cursor, filled>>

Engine == FrameEnd /\ UNCHANGED hostVars
Host   == StartThread \/ Poll \/ Dearm \/ WriteRows \/ WriteChunk \/ Rearm \/ HaltEngine

\* Nothing is left to do once the scan is halted.
Halted == finished /\ run = "reset" /\ UNCHANGED vars

Next == Fire \/ Engine \/ Host \/ Halted

\* The engine's clock and the polling thread never stop.
Fairness == WF_vars(Fire) /\ WF_vars(Engine) /\ WF_vars(Host)

Spec     == Init /\ [][Next]_vars
FairSpec == Spec /\ Fairness
-----------------------------------------------------------------------------
TypeOK ==
  /\ EngineTypeOK
  /\ hpc \in {"off", "poll", "dearm", "data", "chunk", "rearm", "halt", "exit"}
  /\ next_mono \in Nat \ {0, 1}
  /\ sweeps \in Nat
  /\ prev_cursor \in 0 .. N
  /\ filled \in 0 .. BankSize
  /\ scan_point \in Points
  /\ scan_sweep \in Int
  /\ finished \in BOOLEAN

(* The outputs carry the values of the point the engine says it is at, in   *)
(* spite of refills that run while it plays: "it never emits a wrong point" *)
(* (axi_session.py).                                                        *)
NeverWrongPoint == run = "running" => slot = point

(* The bank the engine is playing from is never the one being rewritten: it *)
(* stays armed, labelled and intact for the whole of its chunk.             *)
PlayedBankIntact ==
  (run = "running" /\ Streamed) =>
    LET b == BankOf(point)
    IN  /\ Resident(point)
        /\ \A o \in Rows : PointAt(Chunk(point), o) # NoPoint =>
                             rows[b][o] = PointAt(Chunk(point), o)

(* The wrap count the thread reconstructs from CURSOR alone is the engine's *)
(* own: never ahead, and behind by no more than the wrap since its last     *)
(* poll, although the engine may move any distance between two polls.       *)
WrapCountExact ==
  Streamed => /\ sweeps <= sweep
              /\ sweep <= sweeps + 1

(* The progress mirror never shows a point the engine has not reached.      *)
ProgressNotAhead ==
  ~finished => scan_sweep * N + scan_point <= sweep * N + point

(* A finite repeat overshoots by no more than the first chunk of the next   *)
(* sweep before CMD_SAFE lands.                                             *)
OvershootBound ==
  (Streamed /\ Repeats > 0) => sweep * N + point < Repeats * N + BankSize

(* What prepare() says of scan_repeats: the refill thread counts CURSOR     *)
(* wraps and stops the engine after K whole sweeps.                         *)
StopsAfterRepeats == Repeats > 0 => sweep <= Repeats

(* A K-sweep scan is halted and latched finished.                           *)
FiniteScanHalts == (run = "running") ~> (finished /\ run = "reset")

(* A halted scan has played its Repeats sweeps in full.                     *)
FinishedAfterAllSweeps == [][finished' /\ ~finished => sweep >= Repeats]_vars

(* Both: the finite scan stops after its sweeps, and in time.              *)
StopsAfterSweeps == []OvershootBound /\ FinishedAfterAllSweeps

Player == INSTANCE ScanPlayer WITH state <- run, out <- slot

(* The banks, the refills and the polling implement the abstract player.    *)
PlaysInOrder == Player!Spec
-----------------------------------------------------------------------------
(***************************************************************************)
(* Why it works: an inductive invariant.  Number the chunks monotonically  *)
(* across sweeps.  The window always holds position next_mono - 1, and     *)
(* position next_mono - 2 until it is overwritten, which starts only once  *)
(* the engine was seen at next_mono - 1.  So the engine is at one of these *)
(* two, at most one chunk past where the thread last saw it, and a chunk   *)
(* it waits for cannot be mistaken for the one two positions before it,    *)
(* because the sweep has more than two chunks.                             *)
(***************************************************************************)
EngPos == sweep * NumChunks + Chunk(point)     \* the position being played
Known  == EngMono(sweeps, prev_cursor)         \* the position last observed

HasRows(b, m, k) ==      \* the first k rows of bank b are those of position m
  \A o \in Rows :
    LET p == PointAt(m % NumChunks, o)
    IN  (o < k /\ p # NoPoint) => rows[b][o] = p

Holds(b, m) ==
  /\ ready[b]
  /\ chunk[b] = m % NumChunks
  /\ HasRows(b, m, BankSize)

Loading == hpc \in {"dearm", "data", "chunk", "rearm"}

WindowInv ==
  /\ Holds((next_mono - 1) % 2, next_mono - 1)
  /\ hpc \notin {"data", "chunk", "rearm"} => Holds(Bank, next_mono - 2)
  /\ hpc \in {"data", "chunk", "rearm"} => ~ready[Bank]
  /\ hpc = "data" => HasRows(Bank, next_mono, filled)
  /\ hpc \in {"chunk", "rearm"} => HasRows(Bank, next_mono, BankSize)
  /\ hpc = "rearm" => chunk[Bank] = DataChunk

PositionInv ==
  /\ EngPos \in {next_mono - 2, next_mono - 1}
  /\ base = (sweep * NumChunks) % 2
  /\ cursor = point \/ (cursor = N /\ point = N - 1)

KnownInv ==
  /\ Known \in {next_mono - 2, next_mono - 1}
  /\ hpc \in {"off", "poll"} => Known = next_mono - 2
  /\ Loading => Known = next_mono - 1
  /\ Known <= EngPos
  /\ sweep \in {sweeps, sweeps + 1}
  /\ sweep = sweeps => prev_cursor <= cursor
  /\ sweep = sweeps + 1 => cursor < prev_cursor

StopInv ==
  Repeats > 0 =>
    /\ next_mono - 1 <= Repeats * NumChunks
    /\ hpc \notin {"halt", "exit"} => sweeps < Repeats

ResidentInv ==           \* at most two chunks: the window prepare() left
  /\ hpc \in {"off", "poll", "halt", "exit"}
  /\ base = 0
  /\ ready = [b \in Banks |-> TRUE]
  /\ chunk = [b \in Banks |-> b]
  /\ rows = [b \in Banks |-> [o \in Rows |-> PointAt(b, o)]]

Inv ==
  /\ TypeOK
  /\ slot = point /\ first = 0
  /\ hpc = "off" => run \in {"reset", "running"}
  /\ run = "reset" /\ hpc = "off" =>
       point = 0 /\ cursor = 0 /\ sweep = 0 /\ sweeps = 0
       /\ prev_cursor = 0 /\ next_mono = 2 /\ rows[0][0] = 0
  /\ hpc # "off" => (run = "running" <=> hpc # "exit")
  /\ hpc = "halt" \/ hpc = "exit" => Repeats > 0 /\ sweeps >= Repeats
  /\ Streamed  => WindowInv /\ PositionInv /\ KnownInv /\ StopInv
  /\ ~Streamed => ResidentInv

CountInv ==              \* what the thread counts, in a resident scan too
  /\ cursor = point \/ (cursor = N /\ point = N - 1)
  /\ sweeps <= sweep
  /\ sweeps = sweep => prev_cursor <= cursor
  /\ ~finished => scan_sweep = sweeps /\ scan_point = SeenPoint(prev_cursor)
=============================================================================
