----------------------------- MODULE ScanEngine -----------------------------
(***************************************************************************)
(* The scan half of the FPGA engine (zlc_edge_streamer.v): the registers   *)
(* and the two-bank ping-pong window that hold the scan points, and what   *)
(* the engine does at each frame boundary.  The time between boundaries    *)
(* (edges, loops, delays) is one step.  A scan point is its index; a bank  *)
(* row holds the index of the point written there, so playing a stale row  *)
(* shows as slot # point.                                                  *)
(***************************************************************************)
EXTENDS Integers

CONSTANTS
  N,          \* scan points of the sweep (scan_count)
  BankSize,   \* rows of one ping-pong bank (BANK_SIZE)
  Cyclic,     \* the program's repeat_forever flag
  MaxSweeps   \* bound on the wraps the model lets the engine make

ASSUME EngineAssumption ==
  /\ N \in Nat \ {0}
  /\ BankSize \in Nat \ {0}
  /\ Cyclic \in BOOLEAN
  /\ MaxSweeps \in Nat

VARIABLES
  run,        \* "reset" (reset_sync held), "running", "done"
  point,      \* scan_point_index
  cursor,     \* scan_cursor, the CURSOR word the host reads
  base,       \* scan_bank_base, the parity of the bank of chunk 0
  first,      \* scan_first_values: point 0 as latched while reset was held
  slot,       \* slot_active: the point whose values are being played
  underflow,  \* STATUS underflow: stalled on a chunk that is not resident
  rows,       \* rows[b][o]: the scan BRAM, the point stored in row o of bank b
  ready,      \* ready[b]: bit b of BANK_READY
  chunk,      \* chunk[b]: BANK0_CHUNK and BANK1_CHUNK
  sweep       \* history: wraps made since FIRE

engineVars == <<run, point, cursor, base, first, slot, underflow, sweep>>
windowVars == <<rows, ready, chunk>>

Banks   == {0, 1}
Rows    == 0 .. BankSize - 1
Points  == 0 .. N - 1
NoPoint == N            \* what a row holds that no point of the sweep was written to

Chunk(p)   == p \div BankSize
Row(p)     == p % BankSize
NumChunks  == (N + BankSize - 1) \div BankSize
Streamed   == NumChunks > 2

PointAt(c, o) == IF c * BankSize + o < N THEN c * BankSize + o ELSE NoPoint

BankOf(p) == (Chunk(p) + base) % 2

ResidentUnlabelled(p) == ready[BankOf(p)]     \* mutant: the chunk label is not compared
Resident(p) == ready[BankOf(p)] /\ chunk[BankOf(p)] = Chunk(p)

LastPoint == point + 1 >= N

NextBaseKept == base                          \* mutant: the parity is not carried over
NextBase    == IF Streamed THEN (base + NumChunks) % 2 ELSE base
Point0Ready == ready[NextBase] /\ chunk[NextBase] = 0

(***************************************************************************)
(* The state prepare() leaves: reset held, chunks 0 and 1 in banks 0 and 1 *)
(* and both banks armed.                                                   *)
(***************************************************************************)
EngineInit ==
  /\ run = "reset"
  /\ point = 0 /\ cursor = 0 /\ base = 0 /\ slot = 0 /\ first = 0
  /\ underflow = FALSE
  /\ rows = [b \in Banks |-> [o \in Rows |-> PointAt(b, o)]]
  /\ ready = [b \in Banks |-> TRUE]
  /\ chunk = [b \in Banks |-> b]
  /\ sweep = 0

\* FIRE: reset is released; the first point was latched from row 0 of bank 0
\* by the arm sequence, which runs as long as reset is held.
Start ==
  /\ run = "reset"
  /\ run' = "running"
  /\ point' = 0 /\ cursor' = 0 /\ base' = 0 /\ sweep' = 0
  /\ first' = rows[0][0] /\ slot' = rows[0][0]
  /\ underflow' = FALSE
  /\ UNCHANGED windowVars

\* Frame end with a following point whose chunk is resident.
AdvancePoint ==
  /\ run = "running" /\ ~LastPoint
  /\ Resident(point + 1)
  /\ point' = point + 1 /\ cursor' = point + 1
  /\ slot' = rows[BankOf(point + 1)][Row(point + 1)]
  /\ underflow' = FALSE
  /\ UNCHANGED <<run, base, first, sweep, windowVars>>

\* Frame end with a following point whose chunk is not there: hold.
StallPoint ==
  /\ run = "running" /\ ~LastPoint
  /\ ~Resident(point + 1)
  /\ underflow' = TRUE
  /\ UNCHANGED <<run, point, cursor, base, first, slot, sweep, windowVars>>

\* Last frame of a sweep that repeats, chunk 0 resident in its next bank.  The
\* values of point 0 are those latched at FIRE (scan_first_values).
Wrap ==
  /\ run = "running" /\ LastPoint /\ Cyclic
  /\ Point0Ready
  /\ sweep < MaxSweeps
  /\ base' = NextBase
  /\ point' = 0 /\ cursor' = 0 /\ slot' = first
  /\ underflow' = FALSE
  /\ sweep' = sweep + 1
  /\ UNCHANGED <<run, first, windowVars>>

\* Last frame of a sweep that repeats, chunk 0 not there: hold, cursor shows N.
StallWrap ==
  /\ run = "running" /\ LastPoint /\ Cyclic
  /\ ~Point0Ready
  /\ underflow' = TRUE
  /\ cursor' = N
  /\ UNCHANGED <<run, point, base, first, slot, sweep, windowVars>>

\* Last frame of a sweep that does not repeat.
Finish ==
  /\ run = "running" /\ LastPoint /\ ~Cyclic
  /\ run' = "done"
  /\ UNCHANGED <<point, cursor, base, first, slot, underflow, sweep, windowVars>>

FrameEnd == AdvancePoint \/ StallPoint \/ Wrap \/ StallWrap \/ Finish

\* CMD_SAFE reaches the engine: reset is held again, the window is untouched.
EngineReset ==
  /\ run' = "reset"
  /\ underflow' = FALSE
  /\ UNCHANGED <<point, cursor, base, first, slot, sweep, windowVars>>

EngineTypeOK ==
  /\ run \in {"reset", "running", "done"}
  /\ point \in Points
  /\ cursor \in 0 .. N
  /\ base \in Banks
  /\ first \in 0 .. N
  /\ slot \in 0 .. N
  /\ underflow \in BOOLEAN
  /\ rows \in [Banks -> [Rows -> 0 .. N]]
  /\ ready \in [Banks -> BOOLEAN]
  /\ chunk \in [Banks -> Nat]
  /\ sweep \in Nat
=============================================================================
