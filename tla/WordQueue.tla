------------------------------ MODULE WordQueue ------------------------------
(***************************************************************************)
(* The session's queue of register words, self._pending, and the threads   *)
(* that share it while a scan is streamed: the refill thread, the caller   *)
(* of safe_state() or prepare(), and a caller that reads STATUS.  Every    *)
(* read and every command first flushes the queue, whoever filled it; only *)
(* the transaction itself is under _io_lock.                               *)
(*                                                                         *)
(* Both transports are here: the JTAG one looks at the stop event before   *)
(* it writes a transaction to the Tcl process, the UART one writes first.  *)
(* One call to list.append, and one look at self._pending, is one step.    *)
(***************************************************************************)
EXTENDS Integers, Sequences

CONSTANTS Rows,          \* words of a bank's rows
          LastChunk,     \* bound: the refills are chunks 2..LastChunk
          Sessions,      \* the transports a server may have picked
          Reader         \* TRUE: another thread reads STATUS meanwhile

ASSUME QueueAssumption ==
  /\ Rows \in Nat \ {0}
  /\ LastChunk \in Nat /\ LastChunk > 1
  /\ Sessions \subseteq {"jtag", "uart"} /\ Reader \in BOOLEAN

VARIABLES session,               \* the transport; it never changes
          place, ret, todo, held,   \* the threads: place, return place, words to
                                 \* queue, words taken from the queue
          pending, aliased,      \* self._pending, and who holds that very list
          io_lock, link,         \* _io_lock; words on their way, in order
          stop, mode,            \* _stream_stop; which call asked for it
          next_mono,             \* the chunk the refill thread loads next
          ready, label, rows, run   \* BANK_READY, BANK*_CHUNK, the banks, engine

threads == <<place, ret, todo, held>>
fpga == <<ready, label, rows, run>>
queueVars ==
  <<session, threads, pending, aliased, io_lock, link, stop, mode, next_mono, fpga>>

Threads == {"stream", "caller"} \cup (IF Reader THEN {"reader"} ELSE {})
Banks == {0, 1}

-----------------------------------------------------------------------------
(* The words of a refill and of a command.                                 *)

RowWords(n) == [r \in 1..Rows |-> <<"row", n % 2, r, n>>]

ChunkWords(n) ==
  <<<<"ready", Banks \ {n % 2}>>>> \o RowWords(n)
    \o <<<<"chunk", n % 2, n>>, <<"ready", Banks>>>>

SafeWords == <<<<"command", "none">>, <<"command", "safe">>>>

\* mutant: the refill thread does not see the event
StoppedNever(t) == FALSE
(* Only its reads and refills are given the event, not the halt after which *)
(* it ends.                                                                 *)
Stopped(t) == t = "stream" /\ stop /\ ret[t] # "ended"

\* mutant: the transaction is written although its owner is being stopped
MayIssueAlways(t) == TRUE
MayIssue(t) == session = "jtag" => ~Stopped(t)

\* mutant: prepare() does not wait for the refill thread
JoinsLast(m) == FALSE
JoinsFirst(m) == m = "prepare"

\* mutant: the join gives up at once
JoinedAtOnce == TRUE
Joined == place["stream"] = "ended"

-----------------------------------------------------------------------------
Begins(t) ==
  IF t = "stream" THEN "top" ELSE IF t = "caller" THEN "call" ELSE "look"

QueueInit ==
  /\ session \in Sessions
  /\ place = [t \in Threads |-> Begins(t)] /\ ret = place
  /\ todo = [t \in Threads |-> <<>>]
  /\ held = [t \in Threads |-> <<>>]
  /\ pending = <<>> /\ aliased = {}
  /\ io_lock = "free" /\ link = <<>>
  /\ stop = FALSE /\ mode = "none"
  /\ next_mono = 2
  /\ ready = Banks /\ run = TRUE
  /\ label = [b \in Banks |-> b]
  /\ rows = [b \in Banks |-> [r \in 1..Rows |-> b]]

Enter(t, where) == place' = [place EXCEPT ![t] = where]
Call(t, where, back) == Enter(t, where) /\ ret' = [ret EXCEPT ![t] = back]

(* Start queueing words; the flush that follows returns to back.           *)
QueueAll(t, words, back) ==
  /\ Call(t, "queue", back)
  /\ todo' = [todo EXCEPT ![t] = words]

(* _queue_word                                                             *)
QueueWord(t) ==
  /\ place[t] = "queue"
  /\ pending' = Append(pending, Head(todo[t]))
  /\ todo' = [todo EXCEPT ![t] = Tail(@)]
  /\ Enter(t, IF Len(todo[t]) = 1 THEN "look" ELSE "queue")
  /\ UNCHANGED <<ret, held, aliased, io_lock, link, stop, mode, next_mono, session, fpga>>

(* _flush: nothing queued, return; or take the list, then put an empty one *)
(* in its place.  Until then both names are the same list.                 *)
LookAtQueue(t) ==
  /\ place[t] = "look"
  /\ Enter(t, IF pending = <<>> THEN ret[t] ELSE "take")
  /\ UNCHANGED <<ret, todo, held, pending, aliased, io_lock, link, stop, mode,
                 next_mono, session, fpga>>

TakeQueue(t) ==
  /\ place[t] = "take"
  /\ aliased' = aliased \cup {t}
  /\ Enter(t, "reset")
  /\ UNCHANGED <<ret, todo, held, pending, io_lock, link, stop, mode, next_mono,
                 session, fpga>>

ResetQueue(t) ==
  /\ place[t] = "reset"
  /\ held' = [u \in Threads |-> IF u \in aliased THEN pending ELSE held[u]]
  /\ pending' = <<>> /\ aliased' = {}
  /\ Enter(t, "issue")
  /\ UNCHANGED <<ret, todo, io_lock, link, stop, mode, next_mono, session, fpga>>

(* _run_tcl and _execute: under the lock, the whole batch goes out behind  *)
(* what is already on its way, closed by the thread's marker.              *)
Issue(t) ==
  /\ place[t] = "issue" /\ held[t] # <<>>
  /\ io_lock = "free" /\ MayIssue(t)
  /\ io_lock' = t
  /\ link' = link \o Append(held[t], <<"mark", t>>)
  /\ held' = [held EXCEPT ![t] = <<>>]
  /\ Enter(t, "wait")
  /\ UNCHANGED <<ret, todo, pending, aliased, stop, mode, next_mono, session, fpga>>

NothingToIssue(t) ==
  /\ place[t] = "issue" /\ held[t] = <<>>
  /\ Enter(t, ret[t])
  /\ UNCHANGED <<ret, todo, held, pending, aliased, io_lock, link, stop, mode,
                 next_mono, session, fpga>>

AbortBeforeIssue(t) ==
  /\ place[t] = "issue" /\ held[t] # <<>>
  /\ io_lock = "free" /\ ~MayIssue(t)
  /\ held' = [held EXCEPT ![t] = <<>>]
  /\ Enter(t, "ended")
  /\ UNCHANGED <<ret, todo, pending, aliased, io_lock, link, stop, mode, next_mono,
                 session, fpga>>

MarkerSeen(t) == \A i \in 1..Len(link) : link[i][1] = "mark" => link[i][2] # t

Replied(t) ==
  /\ place[t] = "wait" /\ MarkerSeen(t)
  /\ io_lock' = "free"
  /\ Enter(t, ret[t])
  /\ UNCHANGED <<ret, todo, held, pending, aliased, link, stop, mode, next_mono,
                 session, fpga>>

AbortWaiting(t) ==
  /\ place[t] = "wait" /\ Stopped(t)
  /\ io_lock' = "free"
  /\ Enter(t, "ended")
  /\ UNCHANGED <<ret, todo, held, pending, aliased, link, stop, mode, next_mono,
                 session, fpga>>

Exchange(t) ==
  \/ QueueWord(t) \/ LookAtQueue(t) \/ TakeQueue(t) \/ ResetQueue(t)
  \/ Issue(t) \/ NothingToIssue(t) \/ AbortBeforeIssue(t)
  \/ Replied(t) \/ AbortWaiting(t)

-----------------------------------------------------------------------------
(* The refill thread: poll the cursor, then sleep, load the next chunk or, *)
(* after the last sweep, halt the engine and end.                          *)

PollCursor ==
  /\ place["stream"] = "top"
  /\ IF Stopped("stream") THEN Call("stream", "ended", "ended")
                          ELSE Call("stream", "look", "read")
  /\ UNCHANGED <<todo, held, pending, aliased, io_lock, link, stop, mode, next_mono,
                 session, fpga>>

CursorAnswered ==
  /\ place["stream"] = "read" /\ io_lock = "free"
  /\ UNCHANGED <<held, pending, aliased, io_lock, link, stop, mode, session, fpga>>
  /\ \/ Stopped("stream") /\ Enter("stream", "ended")
        /\ UNCHANGED <<ret, todo, next_mono>>
     \/ ~Stopped("stream")
        /\ \/ Enter("stream", "top") /\ UNCHANGED <<ret, todo, next_mono>>
           \/ /\ next_mono <= LastChunk
              /\ QueueAll("stream", ChunkWords(next_mono), "top")
              /\ next_mono' = next_mono + 1
           \/ QueueAll("stream", SafeWords, "ended") /\ UNCHANGED next_mono

(* safe_state() tells the engine first and joins the thread after; so does *)
(* prepare(), but in the other order.                                      *)
CallSafeState ==
  /\ place["caller"] = "call"
  /\ stop' = TRUE /\ mode' \in {"safe_state", "prepare"}
  /\ IF JoinsFirst(mode')
       THEN Enter("caller", "join") /\ UNCHANGED <<ret, todo>>
       ELSE QueueAll("caller", SafeWords, "join")
  /\ UNCHANGED <<held, pending, aliased, io_lock, link, next_mono, session, fpga>>

Join ==
  /\ place["caller"] = "join" /\ Joined
  /\ IF JoinsFirst(mode) /\ ret["caller"] = "call"
       THEN QueueAll("caller", SafeWords, "returned")
       ELSE Enter("caller", "returned") /\ UNCHANGED <<ret, todo>>
  /\ UNCHANGED <<held, pending, aliased, io_lock, link, stop, mode, next_mono, session, fpga>>

-----------------------------------------------------------------------------
(* The words are applied one at a time, whatever became of their sender.   *)
Apply ==
  /\ link # <<>> /\ link' = Tail(link)
  /\ LET w == Head(link)
     IN  /\ ready' = IF w[1] = "ready" THEN w[2] ELSE ready
         /\ label' = IF w[1] = "chunk" THEN [label EXCEPT ![w[2]] = w[3]] ELSE label
         /\ rows' = IF w[1] = "row" THEN [rows EXCEPT ![w[2]][w[3]] = w[4]] ELSE rows
         /\ run' = IF w[1] = "command" THEN run /\ w[2] # "safe" ELSE run
  /\ UNCHANGED <<threads, pending, aliased, io_lock, stop, mode, next_mono, session>>

Done == place["caller"] = "returned" /\ place["stream"] = "ended" /\ link = <<>>
AllDone == Done /\ UNCHANGED queueVars

QueueNext ==
  \/ \E t \in Threads : Exchange(t)
  \/ PollCursor \/ CursorAnswered \/ CallSafeState \/ Join \/ Apply \/ AllDone

(* Every thread runs, and the link delivers; nobody has to call.           *)
QueueSpec ==
  /\ QueueInit /\ [][QueueNext]_queueVars
  /\ \A t \in Threads : WF_queueVars(Exchange(t))
  /\ WF_queueVars(PollCursor) /\ WF_queueVars(CursorAnswered)
  /\ WF_queueVars(Join) /\ WF_queueVars(Apply)

-----------------------------------------------------------------------------
Words ==
  {<<"ready", bs>> : bs \in SUBSET Banks} \cup {<<"command", c>> : c \in {"none", "safe"}}
    \cup {<<"chunk", n % 2, n>> : n \in 2..LastChunk}
    \cup {<<"row", n % 2, r, n>> : n \in 2..LastChunk, r \in 1..Rows}

Marks == {<<"mark", t>> : t \in Threads}

Places == {"top", "read", "call", "join", "returned", "ended", "queue", "look",
           "take", "reset", "issue", "wait"}

(* Types, and the queue's shape: a thread between the two assignments of   *)
(* _flush holds the list it took.                                          *)
TypeOK ==
  /\ session \in Sessions
  /\ place \in [Threads -> Places] /\ ret \in [Threads -> Places]
  /\ todo \in [Threads -> Seq(Words)] /\ held \in [Threads -> Seq(Words)]
  /\ pending \in Seq(Words) /\ aliased \subseteq {t \in Threads : place[t] = "reset"}
  /\ io_lock \in Threads \cup {"free"}
  /\ link \in Seq(Words \cup Marks)
  /\ stop \in BOOLEAN /\ mode \in {"none", "safe_state", "prepare"}
  /\ next_mono \in 2..LastChunk + 1
  /\ ready \subseteq Banks /\ run \in BOOLEAN
  /\ label \in [Banks -> 0..LastChunk]
  /\ rows \in [Banks -> [1..Rows -> 0..LastChunk]]

(* On JTAG a bank that is armed holds, in every row, the chunk it is       *)
(* labelled with: the engine accepts a bank by its bit and its label and   *)
(* never sees a half-written one (_load_chunk; "it never emits a wrong     *)
(* point").                                                                *)
ArmedBankComplete ==
  session = "jtag" => \A b \in ready : \A r \in 1..Rows : run => rows[b][r] = label[b]

Returned == place["caller"] = "returned"

(* When safe_state() returns, the engine halts: "Stop the ENGINE first so  *)
(* the outputs go safe immediately".                                       *)
SafeLands == Returned /\ link = <<>> => ~run

(* That is so on UART, where words once taken are always sent; and on both *)
(* transports of prepare(), which waits for the refill thread first: no    *)
(* flush of the dying thread takes its SAFE along.                         *)
CallHalts == session = "uart" \/ mode = "prepare" => SafeLands

(* When the call returns, no word of the old scan is left in the queue for *)
(* the next program's first flush to write.                                *)
NothingLeftBehind ==
  Returned => pending = <<>> /\ \A t \in {"stream", "caller"} : held[t] = <<>>

(* safe_state() and prepare() come back: the refill thread, wherever the   *)
(* event finds it, ends and releases the lock.                             *)
CallReturns == stop ~> Returned
=============================================================================
