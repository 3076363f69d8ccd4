----------------------------- MODULE FiniteScan -----------------------------
(***************************************************************************)
(* A single-pass streamed scan: wait_done() polls STATUS and CURSOR and    *)
(* refills the bank behind the engine, until the engine reports DONE.  The *)
(* refill position lives on the session, so a wait_done that ran out of    *)
(* time leaves the engine to stall and a later call resumes the refill.    *)
(*                                                                         *)
(* fire() also starts a thread that only mirrors the cursor.  But a read   *)
(* flushes the session's queue of words, self._pending, whoever fills it:  *)
(* the thread can take a part of a refill and send it late.  As in module  *)
(* WordQueue, one call to list.append is one step; of a row, one word      *)
(* stands for all.  A round trip may be as short as one word (write_batch, *)
(* burst_max), so the words of two senders may alternate.                  *)
(***************************************************************************)
EXTENDS ScanEngine, Sequences

ASSUME FiniteAssumption == Cyclic = FALSE

VARIABLES
  place,       \* where wait_done and the monitor thread are
  next_chunk,  \* _next_chunk
  queued,      \* words of the refill that wait_done has queued
  pending,     \* self._pending
  held,        \* the words each thread took from the queue and has not sent
  aliased,     \* the threads that hold the very list self._pending
  timed_out,   \* the deadline of the current call has passed
  result,      \* what the last wait_done returned: "none", "done" or "timeout"
  due,         \* history: the word to be written next, in the order of _load_chunk
  astray       \* history: another word was written in its stead

callVars  == <<next_chunk, queued, timed_out, result>>
queueVars == <<pending, held, aliased>>
hostVars  == <<place, callVars, queueVars, due, astray>>
vars == <<engineVars, windowVars, hostVars>>

Threads == {"wait_done", "monitor"}

MinOf(a, b) == IF a < b THEN a ELSE b
ChunkRows(c) == MinOf(BankSize, N - c * BankSize)

(* The words of a refill: 0 disarms the bank, then come the rows and the   *)
(* chunk label, and the last arms both banks.                              *)
LabelWord(c) == ChunkRows(c) + 1
ArmWord(c)   == ChunkRows(c) + 2

\* The engine has left the chunk that shares the bank of next_chunk.
BankFreeLate == cursor >= next_chunk * BankSize                   \* mutant: never
BankFree == cursor >= (next_chunk - 1) * BankSize

Init ==
  /\ EngineInit
  /\ place = [t \in Threads |-> IF t = "wait_done" THEN "away" ELSE "look"]
  /\ next_chunk = 2 /\ queued = 0 /\ timed_out = FALSE /\ result = "none"
  /\ pending = <<>> /\ held = [t \in Threads |-> <<>>] /\ aliased = {}
  /\ due = [of |-> 2, word |-> 0] /\ astray = FALSE

\* fire(): the cursor state is reset, both banks are armed, the engine starts.
Fire == Start /\ UNCHANGED hostVars

\* The caller's clock passes the deadline of the running call.
DeadlinePasses ==
  /\ place["wait_done"] # "away" /\ ~timed_out
  /\ timed_out' = TRUE
  /\ UNCHANGED <<engineVars, windowVars, place, next_chunk, queued, queueVars, result,
                 due, astray>>

WaitDone ==
  /\ place["wait_done"] = "away" /\ run # "reset" /\ result # "done"
  /\ place' = [place EXCEPT !["wait_done"] = "status"]
  /\ timed_out' = FALSE
  /\ UNCHANGED <<engineVars, windowVars, next_chunk, queued, queueVars, result, due, astray>>

GoOn(where) == place' = [place EXCEPT !["wait_done"] = where] /\ UNCHANGED result
Answer(r) == place' = [place EXCEPT !["wait_done"] = "away"] /\ result' = r

\* Read STATUS: DONE ends the call; otherwise refill if chunks are left, else
\* the deadline decides.
ReadStatus ==
  /\ place["wait_done"] = "status"
  /\ \/ run = "done" /\ Answer("done")
     \/ run # "done" /\ next_chunk < NumChunks /\ GoOn("cursor")
     \/ /\ run # "done" /\ next_chunk >= NumChunks
        /\ IF timed_out THEN Answer("timeout") ELSE GoOn("status")
  /\ UNCHANGED <<engineVars, windowVars, next_chunk, queued, queueVars, timed_out, due, astray>>

\* Read CURSOR: refill when the bank is free, else the deadline decides.
ReadCursor ==
  /\ place["wait_done"] = "cursor"
  /\ IF BankFree THEN GoOn("queue")
     ELSE IF timed_out THEN Answer("timeout") ELSE GoOn("status")
  /\ queued' = 0
  /\ UNCHANGED <<engineVars, windowVars, next_chunk, queueVars, timed_out, due, astray>>

(* _queue_word, for each word of _load_chunk.                              *)
QueueWord ==
  /\ place["wait_done"] = "queue"
  /\ pending' = Append(pending, [of |-> next_chunk, word |-> queued])
  /\ held' = [t \in Threads |-> IF t \in aliased THEN pending' ELSE held[t]]
  /\ queued' = queued + 1
  /\ place' = [place EXCEPT !["wait_done"] =
                 IF queued = ArmWord(next_chunk) THEN "look" ELSE "queue"]
  /\ UNCHANGED <<engineVars, windowVars, next_chunk, aliased, timed_out, result, due, astray>>

\* A flush is over: the monitor reads CURSOR and polls again, the refill is done.
Flushed(t) ==
  IF t = "monitor"
    THEN place' = [place EXCEPT ![t] = "look"] /\ UNCHANGED next_chunk
    ELSE place' = [place EXCEPT ![t] = "status"] /\ next_chunk' = next_chunk + 1

(* _flush: nothing queued, return; else take the list, then put an empty   *)
(* one in its place.  Until then both names are the same list.             *)
LookAtQueue(t) ==
  /\ place[t] = "look"
  /\ IF pending = <<>>
       THEN Flushed(t) /\ UNCHANGED <<held, aliased>>
       ELSE /\ place' = [place EXCEPT ![t] = "reset"]
            /\ held' = [held EXCEPT ![t] = pending] /\ aliased' = aliased \cup {t}
            /\ UNCHANGED next_chunk
  /\ UNCHANGED <<engineVars, windowVars, queued, pending, timed_out, result, due, astray>>

ResetQueue(t) ==
  /\ place[t] = "reset"
  /\ pending' = <<>> /\ aliased' = {}
  /\ place' = [place EXCEPT ![t] = "send"]
  /\ UNCHANGED <<engineVars, windowVars, callVars, held, due, astray>>

\* A word reaches the FPGA: a mask of armed banks, a row, or a bank's label.
Write(w) ==
  LET b == w.of % 2
  IN  /\ ready' = IF w.word = 0 THEN [x \in Banks |-> x # b]
                  ELSE IF w.word = ArmWord(w.of) THEN [x \in Banks |-> TRUE]
                  ELSE ready
      /\ rows' = IF w.word \in 1 .. ChunkRows(w.of)
                   THEN [rows EXCEPT ![b] = [@ EXCEPT ![w.word - 1] = PointAt(w.of, w.word - 1)]]
                   ELSE rows
      /\ chunk' = IF w.word = LabelWord(w.of) THEN [chunk EXCEPT ![b] = w.of] ELSE chunk

Following(w) == IF w.word = ArmWord(w.of) THEN [of |-> w.of + 1, word |-> 0]
                                          ELSE [of |-> w.of, word |-> w.word + 1]

SendWord(t) ==
  /\ place[t] = "send" /\ held[t] # <<>>
  /\ Write(Head(held[t]))
  /\ held' = [held EXCEPT ![t] = Tail(@)]
  /\ due' = IF Head(held[t]) = due THEN Following(due) ELSE due
  /\ astray' = (astray \/ Head(held[t]) # due)
  /\ UNCHANGED <<engineVars, place, callVars, pending, aliased>>

Sent(t) ==
  /\ place[t] = "send" /\ held[t] = <<>>
  /\ Flushed(t)
  /\ UNCHANGED <<engineVars, windowVars, queued, queueVars, timed_out, result, due, astray>>

Flush(t) == LookAtQueue(t) \/ ResetQueue(t) \/ SendWord(t) \/ Sent(t)

Engine  == FrameEnd /\ UNCHANGED hostVars
Host    == WaitDone \/ ReadStatus \/ ReadCursor \/ QueueWord \/ Flush("wait_done")
Monitor == run # "reset" /\ Flush("monitor")
Returned == result = "done" /\ UNCHANGED vars

Next == Fire \/ Engine \/ Host \/ Monitor \/ DeadlinePasses \/ Returned

\* The engine's clock and the thread run; a caller that was told "timeout" calls again.
Fairness == WF_vars(Fire) /\ WF_vars(Engine) /\ WF_vars(Host) /\ WF_vars(Monitor)

Spec     == Init /\ [][Next]_vars
FairSpec == Spec /\ Fairness
-----------------------------------------------------------------------------
Words == [of : Nat \ {0, 1}, word : Nat]

TypeOK ==
  /\ EngineTypeOK
  /\ place \in [Threads -> {"away", "status", "cursor", "queue", "look", "reset", "send"}]
  /\ next_chunk \in Nat \ {0, 1} /\ queued \in Nat
  /\ timed_out \in BOOLEAN /\ result \in {"none", "done", "timeout"}
  /\ pending \in Seq(Words) /\ held \in [Threads -> Seq(Words)]
  /\ aliased \subseteq Threads
  /\ due \in Words /\ astray \in BOOLEAN

Player == INSTANCE ScanPlayer WITH state <- run, out <- slot

\* Banks and refills implement the abstract player while the words come in order.
PlaysInOrder == Player!Init /\ [][astray \/ Player!Next]_(Player!vars)

\* Nobody is told "done" before the last point is played and every chunk was loaded.
DoneMeansPlayed ==
  result = "done" => point = N - 1 /\ (astray \/ next_chunk >= NumChunks)

\* The engine waits only for the chunk that is written next, never for one it passed.
NotStranded ==
  run = "running" /\ ~LastPoint => astray \/ Resident(point + 1) \/ Chunk(point + 1) = due.of

(* The scan is played in order, and every caller that keeps waiting is told *)
(* "done", however often a call times out, however far the refill falls     *)
(* behind, and however the monitor thread splits it; and never before the   *)
(* sweep is played and loaded to its end.  Once a word of a refill is       *)
(* overtaken or sent again (astray), none of this is promised.              *)
ScanCompletes ==
  PlaysInOrder /\ []DoneMeansPlayed /\ []NotStranded
  /\ (run = "running" ~> result = "done" \/ astray)

(* The thread "can never collide with wait_done's refills"                  *)
(* (_stream_refill_loop).  Not so, and in no run: README, section 3.        *)
NeverCollides == ~astray
=============================================================================
