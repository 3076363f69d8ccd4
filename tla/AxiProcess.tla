------------------------------ MODULE AxiProcess -------------------------------
(***************************************************************************)
(* The Vivado process behind the JTAG transport: transactions written to   *)
(* its stdin, each closed by a marker of its own, lines read back through  *)
(* a queue, and its replacement when it hung, died or was closed.          *)
(*                                                                         *)
(* A generation of the process is a number; each has its stdin and the     *)
(* queue its reader thread fills, ended by None when the process is gone.  *)
(* A transaction is written, run and answered under _io_lock, so one is    *)
(* under way at a time, with the start of a new process inside it; close() *)
(* is also called from outside.                                            *)
(***************************************************************************)
EXTENDS Integers, Sequences, FiniteSets

CONSTANTS MaxTransactions,   \* bound
          MaxFaults,         \* bound: hangs, deaths, closes, failed scripts
          Attempts,          \* restart_attempts
          CloseAnyTime       \* TRUE: the session is closed in a transaction too

ASSUME AxiAssumption ==
  /\ MaxTransactions \in Nat /\ MaxFaults \in Nat /\ Attempts \in Nat \ {0}
  /\ CloseAnyTime \in BOOLEAN

VARIABLES
  process, alive, stdin, lines,  \* _process (0: None); the generations that
                                 \* run, their inputs and their queues
  pc, abortable, attempt,        \* the transaction: its place, whether it is
                                 \* the refill thread's, the start in progress
  asked, answer, effects,        \* transactions asked; the one whose end the
                                 \* last answer is; those that ran
  closed, closer, doomed,        \* _closed; a close() from outside, its process
  faults, failures               \* faults; transactions failed since the last

processes == <<process, alive, stdin, lines>>
transaction == <<pc, abortable, attempt, asked, answer>>
closing == <<closed, closer, doomed>>
vars == <<processes, effects, transaction, closing, faults, failures>>

Latest == Len(stdin)
InitScript(g) == 0 - g      \* the marker of what start() runs
Ended == <<"None", 0>>

Init ==
  /\ process = 0 /\ alive = {} /\ stdin = <<>> /\ lines = <<>>
  /\ pc = "idle" /\ abortable = FALSE /\ attempt = 0
  /\ asked = 0 /\ answer = 0 /\ effects = {}
  /\ closed = FALSE /\ closer = "out" /\ doomed = 0
  /\ faults = 0 /\ failures = 0

Fault == faults < MaxFaults /\ faults' = faults + 1 /\ failures' = 0
NoFault == UNCHANGED <<faults, failures>>

-----------------------------------------------------------------------------
(* Vivado runs what it is given in order, and prints a transaction's       *)
(* marker after it, with what the script printed or that it failed.        *)

\* mutant: one queue for every generation
SharedQueue(g) == 1
QueueOf(g) == g

Ran(g) == effects \cup ({Head(stdin[g])} \cap 1..asked)

Run(g, result) ==
  /\ g \in alive /\ stdin[g] # <<>>
  /\ stdin' = [stdin EXCEPT ![g] = Tail(@)]
  /\ lines' = [lines EXCEPT ![QueueOf(g)] = Append(@, <<result, Head(stdin[g])>>)]
  /\ effects' = IF result = "ok" THEN Ran(g) ELSE effects
  /\ UNCHANGED <<process, alive, transaction, closing>>

RunScript == NoFault /\ \E g \in alive : Run(g, "ok")
FailScript == Fault /\ \E g \in alive : Run(g, "error")

(* A process is gone; its reader puts None behind its lines.               *)
Gone(g) ==
  /\ alive' = alive \ {g}
  /\ lines' = IF g \in alive THEN [lines EXCEPT ![QueueOf(g)] = Append(@, Ended)] ELSE lines

(* It dies, perhaps with the work done and nothing said.                   *)
Die ==
  /\ Fault
  /\ \E g \in alive :
       Gone(g) /\ effects' \in {effects} \cup {Ran(h) : h \in {g} \cap {h \in alive : stdin[h] # <<>>}}
  /\ UNCHANGED <<process, stdin, transaction, closing>>

-----------------------------------------------------------------------------
(* A transaction.                                                          *)

Goto(place) == pc' = place /\ UNCHANGED <<abortable, asked>>

Begin ==
  /\ pc = "idle" /\ (closer = "out" \/ CloseAnyTime)
  /\ asked < MaxTransactions /\ asked' = asked + 1 /\ answer' = 0
  /\ abortable' \in BOOLEAN
  /\ pc' = IF process = 0 THEN "start" ELSE "write"
  /\ attempt' = 1
  /\ UNCHANGED <<processes, effects, closing, faults, failures>>

(* _ensure_process, start: a new process with a queue of its own, and the  *)
(* script that opens the hardware.                                         *)
Start ==
  /\ pc = "start" /\ Goto("init")
  /\ process' = Latest + 1 /\ alive' = alive \cup {Latest + 1}
  /\ stdin' = Append(stdin, <<InitScript(Latest + 1)>>) /\ lines' = Append(lines, <<>>)
  /\ closed' = FALSE
  /\ UNCHANGED <<effects, attempt, answer, closer, doomed, faults, failures>>

Raise == Goto("idle") /\ failures' = failures + 1 /\ UNCHANGED <<attempt, answer, faults>>

(* close() inside a transaction.                                           *)
ForgetProcess ==  \* mutant: the process is dropped and left running
  IF closed THEN UNCHANGED <<process, alive, lines, closed>>
            ELSE closed' = TRUE /\ process' = 0 /\ UNCHANGED <<alive, lines>>
CloseProcess ==
  IF closed THEN UNCHANGED <<process, alive, lines, closed>>
            ELSE closed' = TRUE /\ process' = 0 /\ Gone(process)

Write ==
  /\ pc = "write"
  /\ \/ /\ process \in alive /\ Goto("read")
        /\ stdin' = [stdin EXCEPT ![process] = Append(@, asked)]
        /\ UNCHANGED <<process, alive, lines, closed, attempt, answer, faults, failures>>
     \/ process = 0 /\ Raise /\ UNCHANGED <<processes, closed>>
     \/ process \notin alive \cup {0} /\ Raise /\ CloseProcess /\ UNCHANGED stdin
  /\ UNCHANGED <<effects, closer, doomed>>

Marker == IF pc = "init" THEN InitScript(Latest) ELSE asked

\* mutant: the end of any transaction will do
IsOwnAny(m) == TRUE
IsOwn(m) == m = Marker

(* _read_until_marker: the next line, or None.                             *)
NextLine(item) ==
  /\ pc \in {"init", "read"}
  /\ lines[QueueOf(Latest)] # <<>> /\ item = Head(lines[QueueOf(Latest)])
  /\ lines' = [lines EXCEPT ![QueueOf(Latest)] = Tail(@)]
  /\ UNCHANGED <<process, alive, stdin, effects, closing>>

Fails == IF pc = "init" THEN Goto("failed") /\ UNCHANGED <<attempt, answer, faults, failures>>
                        ELSE Raise

(* Lines of a transaction that was given up are passed over.               *)
SkipLine ==
  /\ \E r \in {"ok", "error"}, m \in -Latest..asked : NextLine(<<r, m>>) /\ ~IsOwn(m)
  /\ UNCHANGED <<transaction, faults, failures>>

Answered ==
  \E m \in -Latest..asked :
    /\ NextLine(<<"ok", m>>) /\ IsOwn(m)
    /\ Goto(IF pc = "init" THEN "write" ELSE "idle")
    /\ answer' = IF pc = "init" THEN answer ELSE m
    /\ UNCHANGED <<attempt, faults, failures>>

(* The script failed, or the process is gone; it is not closed here.       *)
ScriptFailed == Fails /\ \E m \in -Latest..asked : NextLine(<<"error", m>>) /\ IsOwn(m)
ProcessGone == Fails /\ NextLine(Ended)

Abort ==
  /\ pc = "read" /\ abortable /\ Goto("idle")
  /\ UNCHANGED <<processes, effects, attempt, answer, closing, faults, failures>>

TimeOut ==
  /\ pc \in {"init", "read"} /\ CloseProcess
  /\ faults < MaxFaults /\ faults' = faults + 1
  /\ IF pc = "init" THEN Goto("failed") /\ failures' = 0 ELSE Goto("idle") /\ failures' = 1
  /\ UNCHANGED <<stdin, effects, attempt, answer, closer, doomed>>

(* A start that failed: _kill_process, and once more.                      *)
Retry ==
  /\ pc = "failed" /\ process' = 0 /\ Gone(process)
  /\ IF attempt < Attempts
       THEN Goto("start") /\ attempt' = attempt + 1 /\ UNCHANGED <<answer, faults, failures>>
       ELSE Raise
  /\ UNCHANGED <<stdin, effects, closing>>

Transact ==
  \/ Start \/ Write \/ SkipLine \/ Answered \/ ScriptFailed \/ ProcessGone \/ Retry

-----------------------------------------------------------------------------
(* close() from outside: it marks the session closed, waits a little for   *)
(* the refill thread, then ends the process it finds and forgets it.       *)

Closer(place) == closer' = place /\ UNCHANGED <<stdin, effects, transaction>>

CloseBegins ==
  /\ Fault /\ closer = "out" /\ ~closed /\ (CloseAnyTime \/ pc = "idle")
  /\ closed' = TRUE /\ Closer("joining")
  /\ UNCHANGED <<process, alive, lines, doomed>>

CloseLooks ==
  /\ closer = "joining" /\ doomed' = process
  /\ Closer(IF process = 0 THEN "out" ELSE "exiting")
  /\ UNCHANGED <<process, alive, lines, closed, faults, failures>>

CloseEnds ==
  /\ closer = "exiting" /\ Gone(doomed) /\ Closer("forgetting")
  /\ UNCHANGED <<process, closed, doomed, faults, failures>>

CloseForgets ==
  /\ closer = "forgetting" /\ process' = 0 /\ Closer("out")
  /\ UNCHANGED <<alive, lines, closed, doomed, faults, failures>>

Close == CloseLooks \/ CloseEnds \/ CloseForgets

Finished == pc = "idle" /\ asked = MaxTransactions /\ closer = "out" /\ UNCHANGED vars

Next ==
  \/ Begin \/ Transact \/ RunScript \/ FailScript \/ Die \/ Abort \/ TimeOut
  \/ CloseBegins \/ Close \/ Finished

(* Vivado runs what it is given, the threads go on; nobody has to call.    *)
Spec == Init /\ [][Next]_vars /\ WF_vars(Transact) /\ WF_vars(RunScript) /\ WF_vars(Close)

-----------------------------------------------------------------------------
(* A transaction that returns has run, and its answer is its own: neither  *)
(* lines of a transaction given up nor those of an older process are taken *)
(* for it, and none runs twice or out of turn ("any stale response is      *)
(* harmlessly accumulated-and-skipped").                                   *)
Link == INSTANCE Transport WITH open <- pc # "idle"

ImplementsTransport == Link!Spec

(* The session heals itself: after the last fault at most two transactions *)
(* fail, the one that finds the process gone and the one that finds its    *)
(* stdin broken; the next one starts a new process, which no end-of-file   *)
(* of an old one can fail ("POISONED every restart").                      *)
HealsWithinTwo == failures <= 2

(* No two processes compete for the hardware, and a closed session has     *)
(* none ("spawn a competing Vivado that fights the main thread over the    *)
(* JTAG target").                                                          *)
OneVivado ==
  /\ Cardinality(alive) <= 1
  /\ closed /\ pc = "idle" /\ closer = "out" => alive = {}

=============================================================================
