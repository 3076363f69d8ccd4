------------------------- MODULE AxiSession_proof -----------------------------
(*****************************************************************************)
(* The two halves of the JTAG session: the Vivado process its transactions   *)
(* go through (AxiProcess) and the queue of words they carry (WordQueue).    *)
(* The modules share no state; they are proved side by side because both     *)
(* argue about what is in a sequence.                                        *)
(*                                                                           *)
(* AxiProcess, as long as close() comes between transactions                 *)
(* (~CloseAnyTime): one Vivado, a session that heals, answers to their own   *)
(* transactions, whatever the numbers of transactions, faults and attempts.  *)
(* Only the latest generation can run, so its input and its queue are all    *)
(* that matters.  Its input is sorted and ahead of what took effect; each    *)
(* line that says ok is of a transaction that did; the end of file is last   *)
(* in the queue of a process that is gone.  The failures still to come are   *)
(* counted from the state of the process and of the transaction.             *)
(*                                                                           *)
(* WordQueue: whatever the numbers of rows and of chunks, words are never    *)
(* left behind; and, as long as no other thread reads STATUS (~Reader), a    *)
(* call to safe_state() returns with the engine halted and an armed bank     *)
(* holds whole chunks.                                                       *)
(*****************************************************************************)
EXTENDS AxiProcess, WordQueue, FiniteSetTheorems, TLAPS

Items(s) == {s[i] : i \in 1..Len(s)}
Sorted(s) == \A i, j \in 1..Len(s) : i < j => s[i] < s[j]

Input == stdin[Latest]
Queue == lines[Latest]

Item == {"ok", "error", "None"} \X Int

\* Places of a transaction that is not written yet.
Unwritten == {"start", "init", "write", "failed"}
Written == IF pc \in Unwritten THEN asked - 1 ELSE asked

Channels == stdin \in Seq(Seq(Int)) /\ lines \in Seq(Seq(Item)) /\ Len(lines) = Len(stdin)

Types ==
  /\ Channels
  /\ pc \in Unwritten \cup {"idle", "read"} /\ (pc # "idle" => asked # 0)
  /\ attempt \in Nat /\ asked \in Nat /\ failures \in Nat
  /\ effects \subseteq Int /\ closed \in BOOLEAN
  /\ closer \in {"out", "joining", "exiting", "forgetting"}

\* Only the process of the session can run, and close() and transactions
\* keep out of each other's way.
Processes ==
  /\ alive \subseteq {process} \ {0} /\ process \in {0, Latest}
  /\ pc = "start" => process = 0
  /\ pc \in {"init", "write", "read"} => process # 0 /\ ~closed
  /\ pc # "idle" => closer = "out"
  /\ closer = "out" => (closed => process = 0)
  /\ closer # "out" => closed
  /\ closer \in {"exiting", "forgetting"} => doomed = process
  /\ closer = "forgetting" => alive = {}

\* Transactions are written, run and answered in turn.
Turns ==
  /\ \A e \in effects : 1 <= e /\ e <= Written
  /\ Latest # 0 =>
       /\ Sorted(Input) /\ \A m \in Items(Input) : m <= Written
       /\ \A m \in Items(Input), e \in effects : alive # {} => m < 1 \/ e < m
       /\ \A x \in Items(Queue) : x[2] <= Written
       /\ \A m \in 1..asked : <<"ok", m>> \in Items(Queue) => m \in effects
       /\ Ended \in Items(Queue) => alive = {}

OwnError == <<"error", Marker>> \in Items(Queue)

\* The transactions that may still fail without another fault.
ToFail ==
  CASE closer # "out" -> 0
    [] closer = "out" /\ pc = "failed" -> 1
    [] closer = "out" /\ pc # "failed" /\ process = 0 -> 0
    [] closer = "out" /\ pc # "failed" /\ process # 0 /\ alive = {} -> IF pc = "read" THEN 2 ELSE 1
    [] closer = "out" /\ pc # "failed" /\ process # 0 /\ alive # {} ->
         IF pc \in {"init", "read"} /\ OwnError THEN 1 ELSE 0

Budget == failures + ToFail <= 2

Inv == Types /\ Processes /\ Turns /\ Budget

-----------------------------------------------------------------------------
(* Sequences, by what is in them.                                          *)
LEMMA AppendItems ==
  ASSUME NEW T, NEW s \in Seq(T), NEW x \in T
  PROVE  Append(s, x) \in Seq(T) /\ Items(Append(s, x)) = Items(s) \cup {x}
  <1>1. /\ Append(s, x) \in Seq(T) /\ Len(Append(s, x)) = Len(s) + 1 /\ Len(s) \in Nat
        /\ Append(s, x)[Len(s) + 1] = x /\ \A i \in 1..Len(s) : Append(s, x)[i] = s[i]
    OBVIOUS
  <1>2. ASSUME NEW y \in Items(Append(s, x)) PROVE y \in Items(s) \cup {x}
    <2>1. PICK i \in 1..Len(s) + 1 : y = Append(s, x)[i]
      BY <1>1 DEF Items
    <2>2. CASE i = Len(s) + 1
      BY <1>1, <2>1, <2>2
    <2>3. CASE i # Len(s) + 1
      BY <1>1, <2>1, <2>3 DEF Items
    <2> QED BY <2>2, <2>3
  <1>3. ASSUME NEW y \in Items(s) PROVE y \in Items(Append(s, x))
    BY <1>1 DEF Items
  <1>4. x \in Items(Append(s, x))
    BY <1>1 DEF Items
  <1> QED BY <1>1, <1>2, <1>3, <1>4

LEMMA TailItems ==
  ASSUME NEW T, NEW s \in Seq(T), s # <<>>
  PROVE  Tail(s) \in Seq(T) /\ Head(s) \in T /\ Items(s) = Items(Tail(s)) \cup {Head(s)}
  <1>1. /\ Tail(s) \in Seq(T) /\ Len(Tail(s)) = Len(s) - 1 /\ Len(s) \in Nat \ {0}
        /\ Head(s) = s[1] /\ Head(s) \in T /\ \A i \in 1..Len(s) - 1 : Tail(s)[i] = s[i + 1]
    OBVIOUS
  <1>2. ASSUME NEW y \in Items(s) PROVE y \in Items(Tail(s)) \cup {Head(s)}
    <2>1. PICK i \in 1..Len(s) : y = s[i]
      BY DEF Items
    <2>2. CASE i = 1
      BY <1>1, <2>1, <2>2
    <2>3. CASE i # 1
      <3>1. i - 1 \in 1..Len(s) - 1 /\ y = Tail(s)[i - 1]
        BY <1>1, <2>1, <2>3
      <3> QED BY <1>1, <3>1 DEF Items
    <2> QED BY <2>2, <2>3
  <1>3. ASSUME NEW y \in Items(Tail(s)) PROVE y \in Items(s)
    <2>1. PICK i \in 1..Len(s) - 1 : y = s[i + 1]
      BY <1>1 DEF Items
    <2> QED BY <1>1, <2>1 DEF Items
  <1>4. Head(s) \in Items(s)
    BY <1>1 DEF Items
  <1> QED BY <1>1, <1>2, <1>3, <1>4

LEMMA SortedAppend ==
  ASSUME NEW s \in Seq(Int), Sorted(s), NEW x \in Int, \A y \in Items(s) : y < x
  PROVE  Sorted(Append(s, x))
  <1>1. /\ Len(Append(s, x)) = Len(s) + 1 /\ Len(s) \in Nat
        /\ Append(s, x)[Len(s) + 1] = x /\ \A i \in 1..Len(s) : Append(s, x)[i] = s[i]
    OBVIOUS
  <1>2. \A i \in 1..Len(s) : s[i] < x
    BY DEF Items
  <1> SUFFICES ASSUME NEW i \in 1..Len(s) + 1, NEW j \in 1..Len(s) + 1, i < j
               PROVE  Append(s, x)[i] < Append(s, x)[j]
    BY <1>1 DEF Sorted
  <1>3. i \in 1..Len(s) /\ Append(s, x)[i] = s[i]
    BY <1>1
  <1>4. CASE j = Len(s) + 1
    BY <1>1, <1>2, <1>3, <1>4
  <1>5. CASE j \in 1..Len(s)
    BY <1>1, <1>3, <1>5 DEF Sorted
  <1> QED BY <1>1, <1>4, <1>5

LEMMA SortedTail ==
  ASSUME NEW s \in Seq(Int), Sorted(s), s # <<>>
  PROVE  Sorted(Tail(s)) /\ \A y \in Items(Tail(s)) : Head(s) < y
  <1>1. /\ Len(Tail(s)) = Len(s) - 1 /\ Len(s) \in Nat \ {0} /\ Tail(s) \in Seq(Int)
        /\ Head(s) = s[1] /\ \A i \in 1..Len(s) - 1 : Tail(s)[i] = s[i + 1]
    OBVIOUS
  <1>2. Sorted(Tail(s))
    BY <1>1 DEF Sorted
  <1>3. \A i \in 1..Len(s) - 1 : Head(s) < Tail(s)[i]
    BY <1>1 DEF Sorted
  <1> QED BY <1>1, <1>2, <1>3 DEF Items

LEMMA Updated ==
  ASSUME NEW T, NEW s \in Seq(T), NEW g \in 1..Len(s), NEW v \in T
  PROVE  LET r == [s EXCEPT ![g] = v] IN r \in Seq(T) /\ Len(r) = Len(s) /\ r[g] = v
  OBVIOUS

LEMMA Numbers ==
  ASSUME Types
  PROVE  Latest \in Nat /\ Written \in Nat /\ Written <= asked
  <1>1. Latest \in Nat
    BY DEF Types, Channels, Latest
  <1>2. CASE pc \in Unwritten
    <2>1. asked \in Nat \ {0}
      BY <1>2 DEF Types, Unwritten
    <2> QED BY <1>1, <1>2, <2>1 DEF Written
  <1>3. CASE pc \notin Unwritten
    BY <1>1, <1>3 DEF Types, Written
  <1> QED BY <1>2, <1>3

(* The input and the queue of the latest generation.                       *)
LEMMA LatestTypes ==
  ASSUME Types, Latest # 0
  PROVE  /\ Latest \in 1..Len(lines) /\ Latest \in 1..Len(stdin) /\ Input \in Seq(Int)
         /\ Queue \in Seq(Item)
  BY DEF Types, Channels, Latest, Input, Queue

LEMMA WrittenKept ==
  ASSUME Types, Types', asked' = asked, pc \in Unwritten \/ pc' \notin Unwritten
  PROVE  Written <= Written' /\ asked <= asked'
  <1>1. asked \in Nat
    BY DEF Types
  <1>2. CASE pc' \in Unwritten
    BY <1>1, <1>2 DEF Written
  <1>3. CASE pc' \notin Unwritten
    BY <1>1, <1>3 DEF Written
  <1> QED BY <1>2, <1>3

-----------------------------------------------------------------------------
(* What is kept when nothing more runs.                                    *)
LEMMA TurnsKept ==
  ASSUME Types, Types', Turns, stdin' = stdin, effects' = effects, alive' \subseteq alive,
         Written <= Written', asked <= asked',
         Latest # 0 => Items(Queue)' \subseteq Items(Queue) \cup {Ended},
         Latest # 0 /\ Ended \in Items(Queue)' => alive' = {}
  PROVE  Turns'
  <1>1. Latest' = Latest /\ Input' = Input /\ Written \in Nat /\ Written' \in Nat /\ Written <= asked
    <2>1. Types' => (Written \in Nat)'
      BY Numbers, PTL
    <2> QED BY Numbers, <2>1 DEF Latest, Input
  <1>2. \A e \in effects' : 1 <= e /\ e <= Written'
    BY <1>1 DEF Turns, Types
  <1> SUFFICES ASSUME Latest # 0
               PROVE  /\ Sorted(Input') /\ \A m \in Items(Input') : m <= Written'
                      /\ \A m \in Items(Input'), e \in effects : alive' # {} => m < 1 \/ e < m
                      /\ \A x \in Items(Queue') : x[2] <= Written'
                      /\ \A m \in 1..asked' : <<"ok", m>> \in Items(Queue') => m \in effects
                      /\ Ended \in Items(Queue') => alive' = {}
    BY <1>1, <1>2 DEF Turns
  <1>3. /\ Sorted(Input) /\ \A m \in Items(Input) : m <= Written
        /\ \A m \in Items(Input), e \in effects : alive # {} => m < 1 \/ e < m
        /\ \A x \in Items(Queue) : x[2] <= Written
        /\ \A m \in 1..asked : <<"ok", m>> \in Items(Queue) => m \in effects
    BY DEF Turns
  <1>4. Input \in Seq(Int) /\ Queue \in Seq(Item)
    BY LatestTypes
  <1>5. \A m \in Items(Input) : m \in Int
    BY <1>4 DEF Items
  <1>6. \A x \in Items(Queue) : x \in Item
    BY <1>4 DEF Items
  <1>7. \A m \in Items(Input) : m <= Written'
    BY <1>1, <1>3, <1>5
  <1>8. \A x \in Items(Queue') : x[2] <= Written'
    BY <1>1, <1>3, <1>6 DEF Item, Ended
  <1>9. ASSUME NEW m \in 1..asked', <<"ok", m>> \in Items(Queue')
        PROVE  m \in effects
    <2>1. <<"ok", m>> \in Items(Queue)
      BY <1>9 DEF Ended
    <2>2. m <= Written
      BY <1>3, <2>1
    <2>3. m \in 1..asked
      BY <1>1, <2>2 DEF Types
    <2> QED BY <1>3, <2>1, <2>3
  <1> QED BY <1>1, <1>3, <1>7, <1>8, <1>9

(* The end of the session's process: its end of file is the last line.     *)
LEMMA GoneFacts ==
  ASSUME Types, Processes, Gone(process)
  PROVE  /\ alive' = {} /\ lines' \in Seq(Seq(Item)) /\ Len(lines') = Len(lines)
         /\ Latest # 0 => Items(lines'[Latest]) \subseteq Items(Queue) \cup {Ended}
  <1>1. alive' = {}
    BY DEF Gone, Processes
  <1>2. CASE process \notin alive
    BY <1>1, <1>2 DEF Gone, Types, Channels, Queue
  <1>3. CASE process \in alive
    <2>1. Latest = process /\ Latest # 0
      BY <1>3 DEF Processes
    <2>2. lines' = [lines EXCEPT ![Latest] = Append(Queue, Ended)]
      BY <1>3, <2>1 DEF Gone, QueueOf, Queue
    <2>3. Ended \in Item
      BY DEF Ended, Item
    <2>4. Append(Queue, Ended) \in Seq(Item) /\ Items(Append(Queue, Ended)) = Items(Queue) \cup {Ended}
      BY <2>1, <2>3, LatestTypes, AppendItems
    <2>5. lines' \in Seq(Seq(Item)) /\ Len(lines') = Len(lines) /\ lines'[Latest] = Append(Queue, Ended)
      BY <2>1, <2>2, <2>4, LatestTypes, Updated DEF Types, Channels
    <2> QED BY <1>1, <2>4, <2>5
  <1> QED BY <1>2, <1>3

(* A line is read from the queue of the process that runs the transaction. *)
LEMMA LineFacts ==
  ASSUME Types, Processes, NEW item, NextLine(item)
  PROVE  /\ Latest # 0 /\ process = Latest /\ item \in Item
         /\ lines' \in Seq(Seq(Item)) /\ Len(lines') = Len(lines)
         /\ Items(Queue) = Items(lines'[Latest]) \cup {item}
         /\ pc \in {"init", "read"} /\ UNCHANGED <<process, alive, stdin, effects, closed,
                                                   closer, doomed>>
  <1>1. pc \in {"init", "read"} /\ UNCHANGED <<process, alive, stdin, effects, closed,
                                               closer, doomed>>
    BY DEF NextLine, closing
  <1>2. Latest # 0 /\ process = Latest
    BY <1>1 DEF Processes
  <1>3. Queue # <<>> /\ item = Head(Queue) /\ lines' = [lines EXCEPT ![Latest] = Tail(Queue)]
    BY DEF NextLine, QueueOf, Queue
  <1>4. Queue \in Seq(Item) /\ Latest \in 1..Len(lines)
    BY <1>2, LatestTypes
  <1>5. Tail(Queue) \in Seq(Item) /\ item \in Item /\ Items(Queue) = Items(Tail(Queue)) \cup {item}
    BY <1>3, <1>4, TailItems
  <1>6. lines' \in Seq(Seq(Item)) /\ Len(lines') = Len(lines) /\ lines'[Latest] = Tail(Queue)
    BY <1>3, <1>4, <1>5, Updated DEF Types, Channels
  <1> QED BY <1>1, <1>2, <1>5, <1>6

(* Vivado takes the head of its input.                                     *)
LEMMA RunFacts ==
  ASSUME Types, Processes, NEW g \in alive, NEW result \in {"ok", "error"}, Run(g, result)
  PROVE  /\ Latest # 0 /\ process = Latest /\ g = Latest /\ Input # <<>>
         /\ stdin' \in Seq(Seq(Int)) /\ Len(stdin') = Len(stdin) /\ stdin'[Latest] = Tail(Input)
         /\ lines' \in Seq(Seq(Item)) /\ Len(lines') = Len(lines)
         /\ Items(lines'[Latest]) = Items(Queue) \cup {<<result, Head(Input)>>}
         /\ UNCHANGED <<process, alive, pc, abortable, attempt, asked, answer, closed,
                        closer, doomed>>
  <1>0. PICK x : x = <<result, Head(Input)>>
    OBVIOUS
  <1>1. UNCHANGED <<process, alive, pc, abortable, attempt, asked, answer, closed, closer, doomed>>
    BY DEF Run, transaction, closing
  <1>2. Latest # 0 /\ process = Latest /\ g = Latest
    BY DEF Processes
  <1>3. /\ Input # <<>> /\ stdin' = [stdin EXCEPT ![Latest] = Tail(Input)]
        /\ lines' = [lines EXCEPT ![Latest] = Append(Queue, x)]
    BY <1>0, <1>2 DEF Run, QueueOf, Queue, Input
  <1>4. /\ Queue \in Seq(Item) /\ Input \in Seq(Int)
        /\ Latest \in 1..Len(lines) /\ Latest \in 1..Len(stdin)
    BY <1>2, LatestTypes
  <1>5. Tail(Input) \in Seq(Int) /\ Head(Input) \in Int
    BY <1>3, <1>4, TailItems
  <1>6. x \in Item
    BY <1>0, <1>5 DEF Item
  <1>7. /\ Append(Queue, x) \in Seq(Item)
        /\ Items(Append(Queue, x)) = Items(Queue) \cup {x}
    BY <1>4, <1>6, AppendItems
  <1>8. stdin' \in Seq(Seq(Int)) /\ Len(stdin') = Len(stdin) /\ stdin'[Latest] = Tail(Input)
    BY <1>3, <1>4, <1>5, Updated DEF Types, Channels
  <1>9. /\ lines' \in Seq(Seq(Item)) /\ Len(lines') = Len(lines)
        /\ lines'[Latest] = Append(Queue, x)
    BY <1>3, <1>4, <1>7, Updated DEF Types, Channels
  <1> QED BY <1>0, <1>1, <1>2, <1>3, <1>7, <1>8, <1>9

-----------------------------------------------------------------------------
(* The steps in which nothing runs.                                        *)
LEMMA BeginStep ==
  ASSUME Inv, Begin, ~CloseAnyTime
  PROVE  Inv'
  <1>1. Types /\ Processes /\ Turns /\ Budget
    BY DEF Inv
  <1>2. /\ pc = "idle" /\ closer = "out" /\ asked' = asked + 1
        /\ attempt' = 1
        /\ pc' = IF process = 0 THEN "start" ELSE "write"
        /\ UNCHANGED <<process, alive, stdin, lines, effects, closed, closer, doomed, faults,
                       failures>>
    BY DEF Begin, processes, closing
  <1>3. Types'
    BY <1>1, <1>2 DEF Types, Unwritten, Channels
  <1>4. Processes'
    BY <1>1, <1>2 DEF Processes, Latest
  <1>5. Written' = Written /\ asked <= asked'
    BY <1>1, <1>2 DEF Written, Unwritten, Types
  <1>6. Turns'
    <2>1. Latest # 0 => Items(Queue)' = Items(Queue)
      BY <1>2 DEF Queue, Latest
    <2>2. Latest # 0 /\ Ended \in Items(Queue)' => alive' = {}
      BY <1>1, <1>2, <2>1 DEF Turns
    <2>3. Written <= Written'
      BY <1>1, <1>5, Numbers
    <2> QED BY <1>1, <1>2, <1>3, <1>5, <2>1, <2>2, <2>3, TurnsKept
  <1>7. Budget'
    BY <1>1, <1>2 DEF Budget, ToFail, Types
  <1> QED BY <1>3, <1>4, <1>6, <1>7 DEF Inv

LEMMA SkipLineStep ==
  ASSUME Inv, SkipLine
  PROVE  Inv'
  <1>1. Types /\ Processes /\ Turns /\ Budget
    BY DEF Inv
  <1>2. PICK r \in {"ok", "error"}, m \in -Latest..asked : NextLine(<<r, m>>) /\ ~IsOwn(m)
    BY DEF SkipLine
  <1>3. UNCHANGED <<pc, abortable, attempt, asked, answer, faults, failures>>
    BY DEF SkipLine, transaction
  <1>4. /\ Latest # 0 /\ process = Latest
        /\ lines' \in Seq(Seq(Item)) /\ Len(lines') = Len(lines)
        /\ Items(Queue) = Items(lines'[Latest]) \cup {<<r, m>>}
        /\ pc \in {"init", "read"} /\ UNCHANGED <<process, alive, stdin, effects, closed,
                                                  closer, doomed>>
    BY <1>1, <1>2, LineFacts
  <1>5. Types'
    BY <1>1, <1>3, <1>4 DEF Types, Channels
  <1>6. Processes'
    BY <1>1, <1>3, <1>4 DEF Processes, Latest
  <1>7. Written' = Written /\ Written <= Written' /\ asked <= asked'
    BY <1>1, <1>3, Numbers DEF Written, Types
  <1>8. Latest' = Latest /\ Items(Queue)' = Items(lines'[Latest])
    BY <1>4 DEF Latest, Queue
  <1>9. Turns'
    <2>1. Ended \in Items(Queue)' => alive' = {}
      BY <1>1, <1>4, <1>8 DEF Turns
    <2> QED BY <1>1, <1>4, <1>5, <1>7, <1>8, <2>1, TurnsKept
  <1>10. Budget'
    <2>1. Marker' = Marker
      BY <1>3, <1>4, <1>8 DEF Marker
    <2>2. <<"error", Marker>> \in Items(lines'[Latest]) <=> <<"error", Marker>> \in Items(Queue)
      BY <1>2, <1>4 DEF IsOwn
    <2>3. OwnError' = OwnError
      BY <1>8, <2>1, <2>2 DEF OwnError
    <2>4. ToFail' = ToFail
      BY <1>3, <1>4, <2>3 DEF ToFail
    <2> QED BY <1>1, <1>3, <2>4 DEF Budget
  <1> QED BY <1>5, <1>6, <1>9, <1>10 DEF Inv

LEMMA AbortStep ==
  ASSUME Inv, Abort
  PROVE  Inv'
  <1>1. Types /\ Processes /\ Turns /\ Budget
    BY DEF Inv
  <1>2. /\ pc = "read" /\ pc' = "idle" /\ UNCHANGED <<process, alive, stdin, lines, effects,
                                                      attempt>>
        /\ UNCHANGED <<asked, answer, closed, closer, doomed, faults, failures>>
    BY DEF Abort, Goto, processes, closing
  <1>3. Types'
    BY <1>1, <1>2 DEF Types, Unwritten, Channels
  <1>4. Processes'
    BY <1>1, <1>2 DEF Processes, Latest
  <1>5. Turns'
    <2>1. Written <= Written' /\ asked <= asked'
      BY <1>1, <1>3, <1>2, WrittenKept DEF Unwritten
    <2>2. Latest # 0 => Items(Queue)' = Items(Queue)
      BY <1>2 DEF Queue, Latest
    <2>3. Latest # 0 /\ Ended \in Items(Queue)' => alive' = {}
      BY <1>1, <1>2, <2>2 DEF Turns
    <2> QED BY <1>1, <1>2, <1>3, <2>1, <2>2, <2>3, TurnsKept
  <1>6. Budget'
    BY <1>1, <1>2 DEF Budget, ToFail, Types
  <1> QED BY <1>3, <1>4, <1>5, <1>6 DEF Inv

LEMMA CloseBeginsStep ==
  ASSUME Inv, CloseBegins, ~CloseAnyTime
  PROVE  Inv'
  <1>1. Types /\ Processes /\ Turns /\ Budget
    BY DEF Inv
  <1>2. /\ closer = "out" /\ closer' = "joining" /\ ~closed /\ closed' = TRUE /\ pc = "idle"
        /\ failures' = 0 /\ UNCHANGED <<process, alive, stdin, lines, effects, pc, attempt,
                                        asked, answer, doomed>>
    BY DEF CloseBegins, Closer, Fault, transaction
  <1>3. Types'
    BY <1>1, <1>2 DEF Types, Unwritten, Channels
  <1>4. Processes'
    BY <1>1, <1>2 DEF Processes, Latest
  <1>5. Turns'
    <2>1. Written <= Written' /\ asked <= asked'
      BY <1>1, <1>3, <1>2, WrittenKept DEF Unwritten
    <2>2. Latest # 0 => Items(Queue)' = Items(Queue)
      BY <1>2 DEF Queue, Latest
    <2>3. Latest # 0 /\ Ended \in Items(Queue)' => alive' = {}
      BY <1>1, <1>2, <2>2 DEF Turns
    <2> QED BY <1>1, <1>2, <1>3, <2>1, <2>2, <2>3, TurnsKept
  <1>6. Budget'
    BY <1>2 DEF Budget, ToFail
  <1> QED BY <1>3, <1>4, <1>5, <1>6 DEF Inv

LEMMA CloseLooksStep ==
  ASSUME Inv, CloseLooks
  PROVE  Inv'
  <1>1. Types /\ Processes /\ Turns /\ Budget
    BY DEF Inv
  <1>2. /\ closer = "joining" /\ doomed' = process /\ closer' = IF process = 0 THEN "out" ELSE "exiting"
        /\ UNCHANGED <<process, alive, stdin, lines, effects, pc, attempt, asked, answer,
                       closed, faults, failures>>
    BY DEF CloseLooks, Closer, transaction
  <1>3. Types'
    BY <1>1, <1>2 DEF Types, Unwritten, Channels
  <1>4. Processes'
    BY <1>1, <1>2 DEF Processes, Latest
  <1>5. Turns'
    <2>1. Written <= Written' /\ asked <= asked'
      BY <1>1, <1>3, <1>2, WrittenKept DEF Unwritten
    <2>2. Latest # 0 => Items(Queue)' = Items(Queue)
      BY <1>2 DEF Queue, Latest
    <2>3. Latest # 0 /\ Ended \in Items(Queue)' => alive' = {}
      BY <1>1, <1>2, <2>2 DEF Turns
    <2> QED BY <1>1, <1>2, <1>3, <2>1, <2>2, <2>3, TurnsKept
  <1>6. Budget'
    BY <1>1, <1>2 DEF Budget, ToFail, Types, Processes
  <1> QED BY <1>3, <1>4, <1>5, <1>6 DEF Inv

LEMMA CloseForgetsStep ==
  ASSUME Inv, CloseForgets
  PROVE  Inv'
  <1>1. Types /\ Processes /\ Turns /\ Budget
    BY DEF Inv
  <1>2. /\ closer = "forgetting" /\ process' = 0 /\ closer' = "out"
        /\ UNCHANGED <<alive, stdin, lines, effects, pc, attempt, asked, answer, closed,
                       doomed, faults, failures>>
    BY DEF CloseForgets, Closer, transaction
  <1>3. Types'
    BY <1>1, <1>2 DEF Types, Unwritten, Channels
  <1>4. Processes'
    BY <1>1, <1>2 DEF Processes, Latest
  <1>5. Turns'
    <2>1. Written <= Written' /\ asked <= asked'
      BY <1>1, <1>3, <1>2, WrittenKept DEF Unwritten
    <2>2. Latest # 0 => Items(Queue)' = Items(Queue)
      BY <1>2 DEF Queue, Latest
    <2>3. Latest # 0 /\ Ended \in Items(Queue)' => alive' = {}
      BY <1>1, <1>2, <2>2 DEF Turns
    <2> QED BY <1>1, <1>2, <1>3, <2>1, <2>2, <2>3, TurnsKept
  <1>6. Budget'
    BY <1>1, <1>2 DEF Budget, ToFail, Types, Processes
  <1> QED BY <1>3, <1>4, <1>5, <1>6 DEF Inv

LEMMA CloseEndsStep ==
  ASSUME Inv, CloseEnds
  PROVE  Inv'
  <1>1. Types /\ Processes /\ Turns /\ Budget
    BY DEF Inv
  <1>2. /\ closer = "exiting" /\ closer' = "forgetting" /\ Gone(process)
        /\ UNCHANGED <<process, stdin, effects, pc, attempt, asked, answer, closed, doomed,
                       faults, failures>>
    BY <1>1 DEF CloseEnds, Closer, transaction, Processes
  <1>7. /\ alive' = {} /\ lines' \in Seq(Seq(Item)) /\ Len(lines') = Len(lines)
        /\ Latest # 0 => Items(lines'[Latest]) \subseteq Items(Queue) \cup {Ended}
    BY <1>1, <1>2, GoneFacts
  <1>3. Types'
    BY <1>1, <1>2, <1>7 DEF Types, Channels
  <1>4. Processes'
    BY <1>1, <1>2, <1>7 DEF Processes, Latest
  <1>5. Turns'
    <2>1. Written <= Written' /\ asked <= asked'
      BY <1>1, <1>3, <1>2, WrittenKept DEF Unwritten
    <2>2. Latest # 0 => Items(Queue)' \subseteq Items(Queue) \cup {Ended}
      BY <1>2, <1>7 DEF Queue, Latest
    <2> QED BY <1>1, <1>2, <1>3, <1>7, <2>1, <2>2, TurnsKept
  <1>6. Budget'
    BY <1>1, <1>2 DEF Budget, ToFail, Types
  <1> QED BY <1>3, <1>4, <1>5, <1>6 DEF Inv

LEMMA TimeOutStep ==
  ASSUME Inv, TimeOut
  PROVE  Inv'
  <1>1. Types /\ Processes /\ Turns /\ Budget
    BY DEF Inv
  <1>2. /\ pc \in {"init", "read"} /\ Gone(process) /\ process' = 0 /\ closed' = TRUE
        /\ \/ pc = "init" /\ pc' = "failed" /\ failures' = 0
           \/ pc = "read" /\ pc' = "idle" /\ failures' = 1
        /\ UNCHANGED <<stdin, effects, attempt, asked, answer, closer, doomed>>
    BY <1>1 DEF TimeOut, CloseProcess, Goto, Processes
  <1>7. /\ alive' = {} /\ lines' \in Seq(Seq(Item)) /\ Len(lines') = Len(lines)
        /\ Latest # 0 => Items(lines'[Latest]) \subseteq Items(Queue) \cup {Ended}
    BY <1>1, <1>2, GoneFacts
  <1>3. Types'
    <2>1. pc' \in Unwritten \cup {"idle"} /\ asked' # 0 /\ asked' = asked /\ asked \in Nat
      BY <1>1, <1>2 DEF Types, Unwritten
    <2>2. failures' \in Nat /\ attempt' \in Nat
      BY <1>1, <1>2 DEF Types
    <2>3. /\ effects' \subseteq Int /\ closed' \in BOOLEAN
          /\ closer' \in {"out", "joining", "exiting", "forgetting"} /\ stdin' = stdin
      BY <1>1, <1>2 DEF Types
    <2>4. Channels'
      BY <1>1, <1>7, <2>3 DEF Types, Channels
    <2> QED BY <2>1, <2>2, <2>3, <2>4 DEF Types
  <1>4. Processes'
    BY <1>1, <1>2, <1>7 DEF Processes, Latest
  <1>5. Turns'
    <2>1. Written <= Written' /\ asked <= asked'
      BY <1>1, <1>3, <1>2, WrittenKept DEF Unwritten
    <2>2. Latest # 0 => Items(Queue)' \subseteq Items(Queue) \cup {Ended}
      BY <1>2, <1>7 DEF Queue, Latest
    <2> QED BY <1>1, <1>2, <1>3, <1>7, <2>1, <2>2, TurnsKept
  <1>6. Budget'
    BY <1>1, <1>2, <1>4 DEF Budget, ToFail, Processes
  <1> QED BY <1>3, <1>4, <1>5, <1>6 DEF Inv

LEMMA RetryStep ==
  ASSUME Inv, Retry
  PROVE  Inv'
  <1>1. Types /\ Processes /\ Turns /\ Budget
    BY DEF Inv
  <1>2. /\ pc = "failed" /\ Gone(process) /\ process' = 0
        /\ \/ pc' = "start" /\ attempt' = attempt + 1 /\ failures' = failures
           \/ pc' = "idle" /\ attempt' = attempt /\ failures' = failures + 1
        /\ UNCHANGED <<stdin, effects, asked, answer, closed, closer, doomed>>
    BY <1>1 DEF Retry, Raise, Goto, closing
  <1>7. /\ alive' = {} /\ lines' \in Seq(Seq(Item)) /\ Len(lines') = Len(lines)
        /\ Latest # 0 => Items(lines'[Latest]) \subseteq Items(Queue) \cup {Ended}
    BY <1>1, <1>2, GoneFacts
  <1>3. Types'
    <2>1. pc' \in Unwritten \cup {"idle"} /\ asked' # 0 /\ asked' = asked /\ asked \in Nat
      BY <1>1, <1>2 DEF Types, Unwritten
    <2>2. failures' \in Nat /\ attempt' \in Nat
      BY <1>1, <1>2 DEF Types
    <2>3. /\ effects' \subseteq Int /\ closed' \in BOOLEAN
          /\ closer' \in {"out", "joining", "exiting", "forgetting"} /\ stdin' = stdin
      BY <1>1, <1>2 DEF Types
    <2>4. Channels'
      BY <1>1, <1>7, <2>3 DEF Types, Channels
    <2> QED BY <2>1, <2>2, <2>3, <2>4 DEF Types
  <1>4. Processes'
    BY <1>1, <1>2, <1>7 DEF Processes, Latest
  <1>5. Turns'
    <2>1. Written <= Written' /\ asked <= asked'
      BY <1>1, <1>3, <1>2, WrittenKept DEF Unwritten
    <2>2. Latest # 0 => Items(Queue)' \subseteq Items(Queue) \cup {Ended}
      BY <1>2, <1>7 DEF Queue, Latest
    <2> QED BY <1>1, <1>2, <1>3, <1>7, <2>1, <2>2, TurnsKept
  <1>6. Budget'
    BY <1>1, <1>2, <1>4 DEF Budget, ToFail, Processes, Types
  <1> QED BY <1>3, <1>4, <1>5, <1>6 DEF Inv

LEMMA ProcessGoneStep ==
  ASSUME Inv, ProcessGone
  PROVE  Inv'
  <1>1. Types /\ Processes /\ Turns /\ Budget
    BY DEF Inv
  <1>2. NextLine(Ended)
    BY DEF ProcessGone
  <1>7. /\ Latest # 0 /\ process = Latest
        /\ lines' \in Seq(Seq(Item)) /\ Len(lines') = Len(lines)
        /\ Items(Queue) = Items(lines'[Latest]) \cup {Ended}
        /\ pc \in {"init", "read"} /\ UNCHANGED <<process, alive, stdin, effects, closed,
                                                  closer, doomed>>
    BY <1>1, <1>2, LineFacts
  <1>8. /\ UNCHANGED <<attempt, asked, answer>>
        /\ \/ pc = "init" /\ pc' = "failed" /\ failures' = failures
           \/ pc = "read" /\ pc' = "idle" /\ failures' = failures + 1
    BY <1>7 DEF ProcessGone, Fails, Raise, Goto
  <1>3. Types'
    <2>1. pc' \in Unwritten \cup {"idle"} /\ asked' # 0 /\ asked' = asked /\ asked \in Nat
      BY <1>1, <1>8, <1>7 DEF Types, Unwritten
    <2>2. failures' \in Nat /\ attempt' \in Nat
      BY <1>1, <1>8 DEF Types
    <2>3. /\ effects' \subseteq Int /\ closed' \in BOOLEAN
          /\ closer' \in {"out", "joining", "exiting", "forgetting"} /\ stdin' = stdin
      BY <1>1, <1>8, <1>7 DEF Types
    <2>4. Channels'
      BY <1>1, <1>7, <2>3 DEF Types, Channels
    <2> QED BY <2>1, <2>2, <2>3, <2>4 DEF Types
  <1>4. Processes'
    BY <1>1, <1>7, <1>8 DEF Processes, Latest
  <1>5. Turns'
    <2>1. Written <= Written' /\ asked <= asked'
      BY <1>1, <1>3, <1>8, <1>7, WrittenKept DEF Unwritten
    <2>2. Latest # 0 => Items(Queue)' \subseteq Items(Queue) \cup {Ended}
      BY <1>7 DEF Queue, Latest
    <2>3. Latest # 0 /\ Ended \in Items(Queue)' => alive' = {}
      BY <1>1, <1>7 DEF Turns, Queue, Latest
    <2> QED BY <1>1, <1>8, <1>3, <1>7, <2>1, <2>2, <2>3, TurnsKept
  <1>6. Budget'
    <2>1. alive = {}
      BY <1>1, <1>7 DEF Turns
    <2> QED BY <1>1, <1>7, <1>8, <2>1 DEF Budget, ToFail, Processes, Types
  <1> QED BY <1>3, <1>4, <1>5, <1>6 DEF Inv

LEMMA ScriptFailedStep ==
  ASSUME Inv, ScriptFailed
  PROVE  Inv'
  <1>1. Types /\ Processes /\ Turns /\ Budget
    BY DEF Inv
  <1>2. NextLine(<<"error", Marker>>)
    BY DEF ScriptFailed, IsOwn
  <1>7. /\ Latest # 0 /\ process = Latest
        /\ lines' \in Seq(Seq(Item)) /\ Len(lines') = Len(lines)
        /\ Items(Queue) = Items(lines'[Latest]) \cup {<<"error", Marker>>}
        /\ pc \in {"init", "read"} /\ UNCHANGED <<process, alive, stdin, effects, closed,
                                                  closer, doomed>>
    BY <1>1, <1>2, LineFacts
  <1>8. /\ UNCHANGED <<attempt, asked, answer>>
        /\ \/ pc = "init" /\ pc' = "failed" /\ failures' = failures
           \/ pc = "read" /\ pc' = "idle" /\ failures' = failures + 1
    BY <1>7 DEF ScriptFailed, Fails, Raise, Goto
  <1>3. Types'
    <2>1. pc' \in Unwritten \cup {"idle"} /\ asked' # 0 /\ asked' = asked /\ asked \in Nat
      BY <1>1, <1>8, <1>7 DEF Types, Unwritten
    <2>2. failures' \in Nat /\ attempt' \in Nat
      BY <1>1, <1>8 DEF Types
    <2>3. /\ effects' \subseteq Int /\ closed' \in BOOLEAN
          /\ closer' \in {"out", "joining", "exiting", "forgetting"} /\ stdin' = stdin
      BY <1>1, <1>8, <1>7 DEF Types
    <2>4. Channels'
      BY <1>1, <1>7, <2>3 DEF Types, Channels
    <2> QED BY <2>1, <2>2, <2>3, <2>4 DEF Types
  <1>4. Processes'
    BY <1>1, <1>7, <1>8 DEF Processes, Latest
  <1>5. Turns'
    <2>1. Written <= Written' /\ asked <= asked'
      BY <1>1, <1>3, <1>8, <1>7, WrittenKept DEF Unwritten
    <2>2. Latest # 0 => Items(Queue)' \subseteq Items(Queue) \cup {Ended}
      BY <1>7 DEF Queue, Latest
    <2>3. Latest # 0 /\ Ended \in Items(Queue)' => alive' = {}
      BY <1>1, <1>7 DEF Turns, Queue, Latest
    <2> QED BY <1>1, <1>8, <1>3, <1>7, <2>1, <2>2, <2>3, TurnsKept
  <1>6. Budget'
    <2>1. OwnError
      BY <1>7 DEF OwnError
    <2> QED BY <1>1, <1>7, <1>8, <2>1 DEF Budget, ToFail, Processes, Types
  <1> QED BY <1>3, <1>4, <1>5, <1>6 DEF Inv

LEMMA AnsweredStep ==
  ASSUME Inv, Answered
  PROVE  Inv'
  <1>1. Types /\ Processes /\ Turns /\ Budget
    BY DEF Inv
  <1>2. NextLine(<<"ok", Marker>>)
    BY DEF Answered, IsOwn
  <1>7. /\ Latest # 0 /\ process = Latest
        /\ lines' \in Seq(Seq(Item)) /\ Len(lines') = Len(lines)
        /\ Items(Queue) = Items(lines'[Latest]) \cup {<<"ok", Marker>>}
        /\ pc \in {"init", "read"} /\ UNCHANGED <<process, alive, stdin, effects, closed,
                                                  closer, doomed>>
    BY <1>1, <1>2, LineFacts
  <1>8. /\ UNCHANGED <<attempt, asked, failures>>
        /\ \/ pc = "init" /\ pc' = "write"
           \/ pc = "read" /\ pc' = "idle"
    BY <1>7 DEF Answered, Goto
  <1>3. Types'
    BY <1>1, <1>7, <1>8 DEF Types, Unwritten, Channels
  <1>4. Processes'
    BY <1>1, <1>7, <1>8 DEF Processes, Latest
  <1>5. Turns'
    <2>1. Written <= Written' /\ asked <= asked'
      BY <1>1, <1>3, <1>8, <1>7, WrittenKept DEF Unwritten
    <2>2. Latest # 0 => Items(Queue)' \subseteq Items(Queue) \cup {Ended}
      BY <1>7 DEF Queue, Latest
    <2>3. Latest # 0 /\ Ended \in Items(Queue)' => alive' = {}
      BY <1>1, <1>7 DEF Turns, Queue, Latest
    <2> QED BY <1>1, <1>8, <1>3, <1>7, <2>1, <2>2, <2>3, TurnsKept
  <1>6. Budget'
    BY <1>1, <1>7, <1>8 DEF Budget, ToFail, Processes, Types
  <1> QED BY <1>3, <1>4, <1>5, <1>6 DEF Inv

-----------------------------------------------------------------------------
(* A process starts, is written to, and runs.                              *)

LEMMA StartStep ==
  ASSUME Inv, Start
  PROVE  Inv'
  <1>1. Types /\ Processes /\ Turns /\ Budget
    BY DEF Inv
  <1>2. /\ pc = "start" /\ pc' = "init" /\ process' = Latest + 1 /\ alive' = alive \cup {Latest + 1}
        /\ stdin' = Append(stdin, <<InitScript(Latest + 1)>>) /\ lines' = Append(lines, <<>>)
        /\ closed' = FALSE
        /\ UNCHANGED <<effects, attempt, asked, answer, closer, doomed, faults, failures>>
    BY DEF Start, Goto
  <1>7. process = 0 /\ alive = {} /\ closer = "out" /\ Latest \in Nat
    BY <1>1, <1>2, Numbers DEF Processes
  <1>8. InitScript(Latest + 1) \in Int /\ InitScript(Latest + 1) < 0
    BY <1>7 DEF InitScript
  <1>9. PICK m \in Int : m = InitScript(Latest + 1)
    BY <1>8
  <1>10. <<m>> \in Seq(Int) /\ Len(<<m>>) = 1 /\ <<m>>[1] = m /\ <<>> \in Seq(Item) /\ Len(<<>>) = 0
    OBVIOUS
  <1>11. /\ stdin' \in Seq(Seq(Int)) /\ Latest' = Latest + 1 /\ Input' = <<m>>
    <2>1. stdin \in Seq(Seq(Int)) /\ stdin' = Append(stdin, <<m>>) /\ Latest = Len(stdin)
      BY <1>1, <1>2, <1>9 DEF Types, Channels, Latest
    <2> QED BY <1>10, <2>1 DEF Latest, Input
  <1>12. /\ lines' \in Seq(Seq(Item)) /\ Len(lines') = Len(stdin') /\ Queue' = <<>>
    <2>1. lines \in Seq(Seq(Item)) /\ Len(lines) = Latest /\ Len(stdin') = Latest + 1
      BY <1>1, <1>11 DEF Types, Channels, Latest
    <2>2. lines' \in Seq(Seq(Item)) /\ Len(lines') = Latest + 1 /\ lines'[Latest + 1] = <<>>
      BY <1>2, <1>10, <2>1
    <2> QED BY <1>11, <2>1, <2>2 DEF Queue
  <1>13. Items(Input)' = {m} /\ Items(Queue)' = {}
    BY <1>10, <1>11, <1>12 DEF Items
  <1>3. Types'
    BY <1>1, <1>2, <1>11, <1>12 DEF Types, Channels, Unwritten
  <1>4. Processes'
    BY <1>1, <1>2, <1>7, <1>11 DEF Processes
  <1>5. Turns'
    <2>1. Written' = Written /\ Written \in Nat
      BY <1>1, <1>2, Numbers DEF Written, Unwritten
    <2>2. Sorted(Input)'
      BY <1>10, <1>11 DEF Sorted
    <2> QED BY <1>1, <1>2, <1>8, <1>9, <1>13, <2>1, <2>2 DEF Turns
  <1>6. Budget'
    BY <1>1, <1>2, <1>7, <1>13 DEF Budget, ToFail, OwnError, Types
  <1> QED BY <1>3, <1>4, <1>5, <1>6 DEF Inv

LEMMA WriteStep ==
  ASSUME Inv, Write
  PROVE  Inv'
  <1>1. Types /\ Processes /\ Turns /\ Budget
    BY DEF Inv
  <1>2. /\ pc = "write" /\ process # 0 /\ process = Latest /\ ~closed /\ closer = "out"
        /\ asked \in Nat \ {0}
    BY <1>1 DEF Write, Processes, Types
  <1>7. /\ UNCHANGED <<effects, asked, attempt, closer, doomed>>
        /\ \/ /\ process \in alive /\ pc' = "read"
              /\ stdin' = [stdin EXCEPT ![process] = Append(@, asked)]
              /\ UNCHANGED <<process, alive, lines, closed, failures>>
           \/ /\ process \notin alive /\ pc' = "idle" /\ failures' = failures + 1
              /\ closed' = TRUE /\ process' = 0 /\ Gone(process) /\ stdin' = stdin
    BY <1>2 DEF Write, Raise, CloseProcess, Goto
  <1>8. CASE process \notin alive
    <2>1. /\ pc' = "idle" /\ failures' = failures + 1 /\ alive = {}
          /\ closed' = TRUE /\ process' = 0 /\ Gone(process) /\ stdin' = stdin
      BY <1>1, <1>7, <1>8 DEF Processes
    <2>2. /\ alive' = {} /\ lines' \in Seq(Seq(Item)) /\ Len(lines') = Len(lines)
          /\ Latest # 0 => Items(lines'[Latest]) \subseteq Items(Queue) \cup {Ended}
      BY <1>1, <2>1, GoneFacts
    <2>3. Types'
      BY <1>1, <1>7, <2>1, <2>2 DEF Types, Channels
    <2>4. Processes'
      BY <1>1, <1>2, <1>7, <2>1, <2>2 DEF Processes, Latest
    <2>5. Turns'
      <3>1. Written <= Written' /\ asked <= asked'
        BY <1>1, <1>2, <1>7, <2>3, WrittenKept DEF Unwritten
      <3>2. Latest # 0 => Items(Queue)' \subseteq Items(Queue) \cup {Ended}
        BY <2>1, <2>2 DEF Queue, Latest
      <3> QED BY <1>1, <1>7, <2>1, <2>2, <2>3, <3>1, <3>2, TurnsKept
    <2>6. Budget'
      BY <1>1, <1>2, <1>7, <2>1 DEF Budget, ToFail, Types
    <2> QED BY <2>3, <2>4, <2>5, <2>6 DEF Inv
  <1>9. CASE process \in alive
    <2>1. /\ pc' = "read" /\ stdin' = [stdin EXCEPT ![Latest] = Append(Input, asked)] /\ Latest # 0
          /\ UNCHANGED <<process, alive, lines, closed, failures>>
      BY <1>2, <1>7, <1>9 DEF Input
    <2>2. /\ Input \in Seq(Int) /\ Latest \in 1..Len(stdin) /\ Queue \in Seq(Item)
      BY <1>1, <2>1, LatestTypes
    <2>3. Append(Input, asked) \in Seq(Int) /\ Items(Append(Input, asked)) = Items(Input) \cup {asked}
      BY <1>2, <2>2, AppendItems
    <2>4. stdin' \in Seq(Seq(Int)) /\ Len(stdin') = Len(stdin) /\ stdin'[Latest] = Append(Input, asked)
      BY <1>1, <2>1, <2>2, <2>3, Updated DEF Types, Channels
    <2>5. Latest' = Latest /\ Input' = Append(Input, asked) /\ Queue' = Queue
      BY <2>1, <2>4 DEF Latest, Input, Queue
    <2>6. Types'
      BY <1>1, <1>2, <1>7, <2>1, <2>4 DEF Types, Channels
    <2>7. Processes'
      BY <1>1, <1>2, <1>7, <2>1, <2>5 DEF Processes
    <2>8. Written = asked - 1 /\ Written' = asked
      BY <1>2, <1>7, <2>1 DEF Written, Unwritten
    <2>9. /\ Sorted(Input) /\ \A m \in Items(Input) : m <= asked - 1
          /\ \A m \in Items(Input), e \in effects : m < 1 \/ e < m
          /\ \A x \in Items(Queue) : x[2] <= asked - 1
          /\ \A m \in 1..asked : <<"ok", m>> \in Items(Queue) => m \in effects
          /\ Ended \in Items(Queue) => alive = {}
          /\ \A e \in effects : 1 <= e /\ e <= asked - 1 /\ e \in Int
      BY <1>1, <1>9, <2>1, <2>8 DEF Turns, Types
    <2>10. \A m \in Items(Input) : m \in Int /\ m < asked
      <3>1. \A m \in Items(Input) : m \in Int
        BY <2>2 DEF Items
      <3> QED BY <1>2, <2>9, <3>1
    <2>11. \A x \in Items(Queue) : x[2] \in Int /\ x[2] < asked
      <3>1. \A x \in Items(Queue) : x \in Item
        BY <2>2 DEF Items
      <3> QED BY <1>2, <2>9, <3>1 DEF Item
    <2>12. Turns'
      <3>1. Sorted(Input')
        BY <1>2, <2>2, <2>5, <2>9, <2>10, SortedAppend
      <3>2. \A m \in Items(Input') : m <= asked
        BY <1>2, <2>3, <2>5, <2>10
      <3>3. \A m \in Items(Input'), e \in effects : m < 1 \/ e < m
        BY <1>2, <2>3, <2>5, <2>9
      <3>4. \A x \in Items(Queue') : x[2] <= asked
        BY <1>2, <2>5, <2>11
      <3>5. \A e \in effects : 1 <= e /\ e <= asked
        BY <1>2, <2>9
      <3>6. UNCHANGED <<effects, asked, alive>>
        BY <1>7, <2>1
      <3> QED BY <2>5, <2>8, <2>9, <3>1, <3>2, <3>3, <3>4, <3>5, <3>6 DEF Turns
    <2>13. Budget'
      <3>1. ~OwnError'
        <4>1. Marker' = asked
          BY <1>7, <2>1 DEF Marker
        <4> QED BY <1>2, <2>5, <2>11, <4>1 DEF OwnError
      <3> QED BY <1>1, <1>2, <1>7, <1>9, <2>1, <3>1 DEF Budget, ToFail, Types
    <2> QED BY <2>6, <2>7, <2>12, <2>13 DEF Inv
  <1> QED BY <1>8, <1>9

LEMMA RunScriptStep ==
  ASSUME Inv, RunScript
  PROVE  Inv'
  <1>1. Types /\ Processes /\ Turns /\ Budget
    BY DEF Inv
  <1>2. PICK g \in alive : Run(g, "ok")
    BY DEF RunScript
  <1>7. /\ Latest # 0 /\ process = Latest /\ g = Latest /\ Input # <<>>
        /\ stdin' \in Seq(Seq(Int)) /\ Len(stdin') = Len(stdin) /\ stdin'[Latest] = Tail(Input)
        /\ lines' \in Seq(Seq(Item)) /\ Len(lines') = Len(lines)
        /\ Items(lines'[Latest]) = Items(Queue) \cup {<<"ok", Head(Input)>>}
        /\ UNCHANGED <<process, alive, pc, abortable, attempt, asked, answer, closed, closer,
                       doomed>>
    BY <1>1, <1>2, RunFacts
  <1>8. /\ Latest' = Latest /\ Input' = Tail(Input)
        /\ Items(Queue)' = Items(Queue) \cup {<<"ok", Head(Input)>>}
    BY <1>7 DEF Latest, Input, Queue
  <1>9. Input \in Seq(Int) /\ Queue \in Seq(Item)
    BY <1>1, <1>7, LatestTypes
  <1>10. /\ Tail(Input) \in Seq(Int) /\ Head(Input) \in Int
         /\ Items(Input) = Items(Tail(Input)) \cup {Head(Input)}
    BY <1>7, <1>9, TailItems
  <1>11. PICK h \in Int : h = Head(Input)
    BY <1>10
  <1>12. effects' = effects \cup ({h} \cap 1..asked) /\ UNCHANGED <<faults, failures>>
    BY <1>2, <1>7, <1>11 DEF RunScript, NoFault, Run, Ran, Input
  <1>3. Types'
    BY <1>1, <1>7, <1>12 DEF Types, Channels
  <1>4. Processes'
    BY <1>1, <1>7, <1>8 DEF Processes
  <1>5. Turns'
    <2>1. Written' = Written /\ Written \in Nat
      BY <1>1, <1>7, Numbers DEF Written
    <2>2. Sorted(Input) /\ \A m \in Items(Input) : m <= Written
      BY <1>1, <1>7 DEF Turns
    <2>3. Sorted(Input') /\ \A m \in Items(Input') : h < m /\ m \in Items(Input)
      BY <1>7, <1>8, <1>9, <1>10, <1>11, <2>2, SortedTail
    <2>4. h <= Written
      BY <1>10, <1>11, <2>2
    <2>5. \A e \in effects' : 1 <= e /\ e <= Written
      BY <1>1, <1>12, <2>4 DEF Turns
    <2>6. \A m \in Items(Input'), e \in effects' : m < 1 \/ e < m
      BY <1>1, <1>2, <1>7, <1>12, <2>3 DEF Turns
    <2>7. \A x \in Items(Queue)' : x[2] <= Written
      BY <1>1, <1>7, <1>8, <1>11, <2>4 DEF Turns
    <2>8. \A m \in 1..asked : <<"ok", m>> \in Items(Queue)' => m \in effects'
      BY <1>1, <1>7, <1>8, <1>11, <1>12 DEF Turns
    <2>9. Ended \in Items(Queue)' => alive = {}
      BY <1>1, <1>7, <1>8 DEF Turns, Ended
    <2> QED BY <1>7, <1>8, <2>1, <2>2, <2>3, <2>5, <2>6, <2>7, <2>8, <2>9 DEF Turns
  <1>6. Budget'
    <2>1. OwnError' = OwnError
      BY <1>7, <1>8 DEF OwnError, Marker
    <2> QED BY <1>1, <1>7, <1>12, <2>1 DEF Budget, ToFail
  <1> QED BY <1>3, <1>4, <1>5, <1>6 DEF Inv

LEMMA FailScriptStep ==
  ASSUME Inv, FailScript
  PROVE  Inv'
  <1>1. Types /\ Processes /\ Turns /\ Budget
    BY DEF Inv
  <1>2. PICK g \in alive : Run(g, "error")
    BY DEF FailScript
  <1>7. /\ Latest # 0 /\ process = Latest /\ g = Latest /\ Input # <<>>
        /\ stdin' \in Seq(Seq(Int)) /\ Len(stdin') = Len(stdin) /\ stdin'[Latest] = Tail(Input)
        /\ lines' \in Seq(Seq(Item)) /\ Len(lines') = Len(lines)
        /\ Items(lines'[Latest]) = Items(Queue) \cup {<<"error", Head(Input)>>}
        /\ UNCHANGED <<process, alive, pc, abortable, attempt, asked, answer, closed, closer,
                       doomed>>
    BY <1>1, <1>2, RunFacts
  <1>8. /\ Latest' = Latest /\ Input' = Tail(Input)
        /\ Items(Queue)' = Items(Queue) \cup {<<"error", Head(Input)>>}
    BY <1>7 DEF Latest, Input, Queue
  <1>9. Input \in Seq(Int) /\ Queue \in Seq(Item)
    BY <1>1, <1>7, LatestTypes
  <1>10. /\ Tail(Input) \in Seq(Int) /\ Head(Input) \in Int
         /\ Items(Input) = Items(Tail(Input)) \cup {Head(Input)}
    BY <1>7, <1>9, TailItems
  <1>11. PICK h \in Int : h = Head(Input)
    BY <1>10
  <1>12. effects' = effects /\ failures' = 0
    BY <1>2 DEF FailScript, Fault, Run
  <1>3. Types'
    BY <1>1, <1>7, <1>12 DEF Types, Channels
  <1>4. Processes'
    BY <1>1, <1>7, <1>8 DEF Processes
  <1>5. Turns'
    <2>1. Written' = Written /\ Written \in Nat
      BY <1>1, <1>7, Numbers DEF Written
    <2>2. Sorted(Input) /\ \A m \in Items(Input) : m <= Written
      BY <1>1, <1>7 DEF Turns
    <2>3. Sorted(Input') /\ \A m \in Items(Input') : h < m /\ m \in Items(Input)
      BY <1>7, <1>8, <1>9, <1>10, <1>11, <2>2, SortedTail
    <2>4. h <= Written
      BY <1>10, <1>11, <2>2
    <2>5. \A e \in effects' : 1 <= e /\ e <= Written
      BY <1>1, <1>12, <2>4 DEF Turns
    <2>6. \A m \in Items(Input'), e \in effects' : m < 1 \/ e < m
      BY <1>1, <1>2, <1>7, <1>12, <2>3 DEF Turns
    <2>7. \A x \in Items(Queue)' : x[2] <= Written
      BY <1>1, <1>7, <1>8, <1>11, <2>4 DEF Turns
    <2>8. \A m \in 1..asked : <<"ok", m>> \in Items(Queue)' => m \in effects'
      BY <1>1, <1>7, <1>8, <1>11, <1>12 DEF Turns
    <2>9. Ended \in Items(Queue)' => alive = {}
      BY <1>1, <1>7, <1>8 DEF Turns, Ended
    <2> QED BY <1>7, <1>8, <2>1, <2>2, <2>3, <2>5, <2>6, <2>7, <2>8, <2>9 DEF Turns
  <1>6. Budget'
    BY <1>12 DEF Budget, ToFail
  <1> QED BY <1>3, <1>4, <1>5, <1>6 DEF Inv

LEMMA DieStep ==
  ASSUME Inv, Die
  PROVE  Inv'
  <1>1. Types /\ Processes /\ Turns /\ Budget
    BY DEF Inv
  <1>2. PICK g \in alive :
          Gone(g) /\ effects' \in {effects} \cup {Ran(h) : h \in {g} \cap {h \in alive : stdin[h] # <<>>}}
    BY DEF Die
  <1>7. /\ UNCHANGED <<process, stdin, pc, abortable, attempt, asked, answer, closed, closer,
                       doomed>>
        /\ failures' = 0 /\ g = process /\ process = Latest /\ Latest # 0
    BY <1>1 DEF Die, Fault, transaction, closing, Processes
  <1>8. /\ alive' = {} /\ lines' \in Seq(Seq(Item)) /\ Len(lines') = Len(lines)
        /\ Items(lines'[Latest]) \subseteq Items(Queue) \cup {Ended}
    BY <1>1, <1>2, <1>7, GoneFacts
  <1>9. Input \in Seq(Int) /\ Queue \in Seq(Item)
    BY <1>1, <1>7, LatestTypes
  <1>10. effects' = effects \/ (Input # <<>> /\ effects' = effects \cup ({Head(Input)} \cap 1..asked))
    BY <1>2, <1>7 DEF Ran, Input
  <1>11. Latest' = Latest /\ Input' = Input /\ Items(Queue)' \subseteq Items(Queue) \cup {Ended}
    BY <1>7, <1>8 DEF Latest, Input, Queue
  <1>12. Written' = Written /\ Written \in Nat
    BY <1>1, <1>7, Numbers DEF Written
  <1>13. /\ effects \subseteq effects' /\ effects' \subseteq Int
         /\ \A e \in effects' : 1 <= e /\ e <= Written
    <2>1. CASE effects' = effects
      BY <1>1, <2>1 DEF Turns, Types
    <2>2. CASE Input # <<>> /\ effects' = effects \cup ({Head(Input)} \cap 1..asked)
      <3>1. Head(Input) \in Int /\ Head(Input) \in Items(Input)
        BY <1>9, <2>2, TailItems
      <3>2. PICK h \in Int : h = Head(Input)
        BY <3>1
      <3>3. h <= Written
        BY <1>1, <1>7, <3>1, <3>2 DEF Turns
      <3>4. effects' = effects \cup ({h} \cap 1..asked) /\ asked \in Nat
        BY <1>1, <2>2, <3>2 DEF Types
      <3>5. effects \subseteq Int /\ \A e \in effects : 1 <= e /\ e <= Written
        BY <1>1 DEF Turns, Types
      <3> QED BY <3>3, <3>4, <3>5
    <2> QED BY <1>10, <2>1, <2>2
  <1>3. Types'
    BY <1>1, <1>7, <1>8, <1>13 DEF Types, Channels
  <1>4. Processes'
    BY <1>1, <1>7, <1>8, <1>11 DEF Processes
  <1>5. Turns'
    <2>1. /\ Sorted(Input) /\ \A m \in Items(Input) : m <= Written
          /\ \A x \in Items(Queue) : x[2] <= Written
          /\ \A m \in 1..asked : <<"ok", m>> \in Items(Queue) => m \in effects
      BY <1>1, <1>7 DEF Turns
    <2>2. \A x \in Items(Queue)' : x[2] <= Written
      BY <1>11, <1>12, <2>1 DEF Ended
    <2>3. \A m \in 1..asked : <<"ok", m>> \in Items(Queue)' => m \in effects'
      BY <1>11, <1>13, <2>1 DEF Ended
    <2> QED BY <1>7, <1>8, <1>11, <1>12, <1>13, <2>1, <2>2, <2>3 DEF Turns
  <1>6. Budget'
    BY <1>7 DEF Budget, ToFail
  <1> QED BY <1>3, <1>4, <1>5, <1>6 DEF Inv

-----------------------------------------------------------------------------
LEMMA InvInit == Init => Inv
  <1> SUFFICES ASSUME Init PROVE Inv
    OBVIOUS
  <1>1. stdin = <<>> /\ lines = <<>> /\ Latest = 0
    BY DEF Init, Latest
  <1>2. Types
    <2>1. Channels
      BY <1>1 DEF Channels
    <2> QED BY <2>1 DEF Init, Types
  <1>3. Processes /\ Turns
    BY <1>1 DEF Init, Processes, Turns
  <1>4. Budget
    BY DEF Init, Budget, ToFail
  <1> QED BY <1>2, <1>3, <1>4 DEF Inv

LEMMA InvStep ==
  ASSUME Inv, [Next]_vars, ~CloseAnyTime
  PROVE  Inv'
  <1>1. CASE Begin \/ Abort \/ TimeOut
    BY <1>1, BeginStep, AbortStep, TimeOutStep
  <1>2. CASE Transact
    BY <1>2, StartStep, WriteStep, SkipLineStep, AnsweredStep, ScriptFailedStep,
       ProcessGoneStep, RetryStep
       DEF Transact
  <1>3. CASE RunScript \/ FailScript \/ Die
    BY <1>3, RunScriptStep, FailScriptStep, DieStep
  <1>4. CASE CloseBegins \/ Close
    BY <1>4, CloseBeginsStep, CloseLooksStep, CloseEndsStep, CloseForgetsStep DEF Close
  <1>5. CASE UNCHANGED vars
    <2>1. UNCHANGED <<process, alive, stdin, lines, pc, attempt, asked, effects, closed,
                      closer, doomed, failures>>
      BY <1>5 DEF vars, processes, transaction, closing
    <2> QED
      BY <2>1 DEF Inv, Types, Channels, Processes, Turns, Written, Input, Queue, Latest,
         Budget, ToFail, OwnError, Marker
  <1>6. CASE Finished
    BY <1>5, <1>6 DEF Finished
  <1> QED BY <1>1, <1>2, <1>3, <1>4, <1>5, <1>6 DEF Next

(* What every state of every run satisfies, when close() keeps out of      *)
(* transactions.                                                           *)
THEOREM Invariance == ~CloseAnyTime => (Spec => []Inv)
  <1> SUFFICES ASSUME ~CloseAnyTime PROVE Spec => []Inv
    OBVIOUS
  <1>1. Inv /\ [Next]_vars => Inv'
    BY InvStep
  <1> QED BY <1>1, InvInit, PTL DEF Spec

(* Two processes never compete for the hardware, and a closed session has  *)
(* none, however processes hang, die or fail to start.                     *)
THEOREM NoSecondVivado == ~CloseAnyTime => (Spec => []OneVivado)
  <1>1. ASSUME Inv PROVE OneVivado
    <2>1. alive \subseteq {process} \ {0} /\ (closer = "out" => (closed => process = 0))
      BY <1>1 DEF Inv, Processes
    <2>2. alive = {} \/ alive = {process}
      BY <2>1
    <2>3. Cardinality({}) = 0 /\ Cardinality({process}) = 1
      BY FS_EmptySet, FS_Singleton
    <2>4. Cardinality(alive) <= 1
      BY <2>2, <2>3
    <2> QED BY <2>1, <2>4 DEF OneVivado
  <1> QED BY <1>1, Invariance, PTL

(* After the last fault at most two transactions fail, however many came   *)
(* before and however often a start is tried again.                        *)
THEOREM SessionHeals == ~CloseAnyTime => (Spec => []HealsWithinTwo)
  <1>1. ASSUME Inv PROVE HealsWithinTwo
    <2>1. ToFail \in 0..2 /\ failures \in Nat
      BY <1>1 DEF Inv, ToFail, Types
    <2> QED BY <1>1, <2>1 DEF Inv, Budget, HealsWithinTwo
  <1> QED BY <1>1, Invariance, PTL

-----------------------------------------------------------------------------
(* The refinement, step by step.                                           *)
LEMMA RunsInTurn ==
  ASSUME Inv, NEW g \in alive, stdin[g] # <<>>, effects' = Ran(g),
         UNCHANGED <<asked, pc, answer>>
  PROVE  Link!TakeEffect \/ UNCHANGED Link!vars
  <1>1. Types /\ Processes /\ Turns
    BY DEF Inv
  <1>2. g = Latest /\ Latest # 0 /\ Input # <<>> /\ Ran(g) = effects \cup ({Head(Input)} \cap 1..asked)
    BY <1>1 DEF Processes, Input, Ran
  <1>3. PICK h \in Items(Input) : h = Head(Input)
    BY <1>1, <1>2, LatestTypes, TailItems
  <1>4. CASE h \in 1..asked
    <2>1. \A f \in effects : f < h
      BY <1>1, <1>2, <1>4 DEF Turns
    <2>2. effects' = effects \cup {h}
      BY <1>2, <1>3, <1>4
    <2> QED BY <1>4, <2>1, <2>2 DEF Link!TakeEffect
  <1>5. CASE h \notin 1..asked
    BY <1>2, <1>3, <1>5 DEF Link!vars
  <1> QED BY <1>4, <1>5

LEMMA LinkStep ==
  ASSUME Inv, [Next]_vars
  PROVE  [Link!Next]_(Link!vars)
  <1>1. CASE Begin
    BY <1>1 DEF Begin, Link!Next, Link!Ask
  <1>2. CASE Start \/ SkipLine \/ CloseBegins \/ Close
    BY <1>2 DEF Start, SkipLine, NextLine, CloseBegins, Close, CloseLooks, CloseEnds,
       CloseForgets, Closer, Goto,
       transaction, Link!vars
  <1>3. CASE Write
    BY <1>3 DEF Write, Raise, Goto, Link!vars, Link!Next, Link!Fail
  <1>4. CASE Answered
    <2>1. NextLine(<<"ok", Marker>>) /\ UNCHANGED <<asked, effects>>
      BY <1>4 DEF Answered, IsOwn, Goto, NextLine
    <2>2. CASE pc = "init"
      BY <1>4, <2>1, <2>2 DEF Answered, Goto, Link!vars
    <2>3. CASE pc # "init"
      <3>1. Marker = asked /\ pc = "read" /\ pc' = "idle" /\ answer' = asked
        BY <1>4, <2>1, <2>3 DEF Marker, NextLine, Answered, IsOwn, Goto
      <3>2. Latest # 0 /\ <<"ok", asked>> \in Items(Queue)
        BY <2>1, <3>1, LineFacts DEF Inv
      <3>3. asked \in 1..asked
        BY <3>1 DEF Inv, Types
      <3>4. asked \in effects
        BY <3>2, <3>3 DEF Inv, Turns
      <3> QED BY <2>1, <3>1, <3>4 DEF Link!Next, Link!Answer
    <2> QED BY <2>2, <2>3
  <1>5. CASE ScriptFailed \/ ProcessGone
    BY <1>5 DEF ScriptFailed, ProcessGone, Fails, NextLine, Raise, Goto, Link!vars,
       Link!Next, Link!Fail
  <1>6. CASE Retry
    BY <1>6 DEF Retry, Raise, Goto, Link!vars, Link!Next, Link!Fail
  <1>7. CASE RunScript
    <2>1. PICK g \in alive : Run(g, "ok")
      BY <1>7 DEF RunScript
    <2>2. stdin[g] # <<>> /\ effects' = Ran(g) /\ UNCHANGED <<asked, pc, answer>>
      BY <2>1 DEF Run, transaction
    <2> QED BY <2>2, RunsInTurn DEF Link!Next
  <1>8. CASE FailScript
    BY <1>8 DEF FailScript, Run, transaction, Link!vars
  <1>9. CASE Die
    <2>1. UNCHANGED <<asked, pc, answer>>
      BY <1>9 DEF Die, transaction
    <2>2. effects' = effects \/ \E g \in alive : stdin[g] # <<>> /\ effects' = Ran(g)
      BY <1>9 DEF Die
    <2> QED BY <2>1, <2>2, RunsInTurn DEF Link!Next, Link!vars
  <1>10. CASE Abort \/ TimeOut
    BY <1>10 DEF Abort, TimeOut, Goto, Link!vars, Link!Next, Link!Fail
  <1>11. CASE Finished \/ UNCHANGED vars
    BY <1>11 DEF Finished, vars, transaction, Link!vars
  <1> QED BY <1>1, <1>2, <1>3, <1>4, <1>5, <1>6, <1>7, <1>8, <1>9, <1>10, <1>11 DEF Next, Transact

(* The JTAG transport is the link the session takes it for: a transaction  *)
(* takes effect at most once and in turn, and an answer is to the one      *)
(* that waits and of work that was done, over any number of processes.     *)
THEOREM Refinement == ~CloseAnyTime => (Spec => ImplementsTransport)
  <1> SUFFICES ASSUME ~CloseAnyTime PROVE Spec => Link!Spec
    BY DEF ImplementsTransport
  <1>1. Init => Link!Init
    BY DEF Init, Link!Init
  <1>2. Inv /\ [Next]_vars => [Link!Next]_(Link!vars)
    BY LinkStep
  <1> QED BY <1>1, <1>2, Invariance, PTL DEF Spec, Link!Spec
-----------------------------------------------------------------------------
(* The queue of register words.                                            *)

Flushing == {"queue", "look", "take", "reset"}
Waiting == Flushing \cup {"issue", "wait"}

\* Where safe_state() and prepare() are in their steps.
CallerPlaces ==
  /\ stop <=> mode # "none"
  /\ stop <=> place["caller"] # "call"
  /\ place["caller"] \in {"call", "join", "returned"} \cup Waiting
  /\ place["caller"] \in Waiting => ret["caller"] \in {"join", "returned"}
  /\ place["caller"] = "returned" => place["stream"] = "ended"
  /\ ~stop => ret["caller"] = "call"
  /\ mode = "safe_state" => ret["caller"] = "join"
  /\ mode = "prepare" =>
       \/ place["caller"] = "join" /\ ret["caller"] = "call"
       \/ ret["caller"] = "returned" /\ place["stream"] = "ended" /\ place["caller"] # "join"

StreamPlaces ==
  /\ place["stream"] \in {"top", "read", "ended"} \cup Waiting
  /\ place["stream"] \in Waiting => ret["stream"] \in {"read", "top", "ended"}
  /\ place["stream"] = "read" => ret["stream"] = "read"

\* Words are with a thread only while it queues or flushes them.
OwnWords ==
  \A t \in Threads :
    /\ ret[t] \notin {"queue", "take", "reset", "issue", "wait"}
    /\ (todo[t] # <<>>) <=> place[t] = "queue"
    /\ place[t] = "queue" => t \in {"stream", "caller"}
    /\ held[t] # <<>> => place[t] \in {"reset", "issue"}
    /\ t \in aliased => held[t] = <<>>

\* Queued words have somebody who will take or drop them.
Flushed == pending = <<>> \/ \E t \in {"stream", "caller"} : place[t] \in Flushing

QueueInv == TypeOK /\ CallerPlaces /\ StreamPlaces /\ OwnWords /\ Flushed


LEMMA ThreadsAre ==
  /\ "stream" \in Threads /\ "caller" \in Threads
  /\ ~Reader => Threads = {"stream", "caller"}
  BY DEF Threads

LEMMA EndsOf ==
  ASSUME NEW S, NEW s \in Seq(S), s # <<>>
  PROVE  /\ Head(s) \in S /\ Head(s) = s[1] /\ Tail(s) \in Seq(S)
         /\ Len(s) \in Nat \ {0} /\ Len(Tail(s)) = Len(s) - 1
         /\ \A i \in 1..Len(s) - 1 : Tail(s)[i] = s[i + 1]
         /\ Tail(s) = <<>> <=> Len(s) = 1
  <1>1. /\ Head(s) \in S /\ Head(s) = s[1] /\ Tail(s) \in Seq(S)
        /\ Len(s) \in Nat \ {0} /\ Len(Tail(s)) = Len(s) - 1
        /\ \A i \in 1..Len(s) - 1 : Tail(s)[i] = s[i + 1]
    OBVIOUS
  <1>2. Tail(s) = <<>> <=> Len(Tail(s)) = 0
    <2>1. \A u \in Seq(S) : u # <<>> => Len(u) # 0
      OBVIOUS
    <2>2. Len(<<>>) = 0
      OBVIOUS
    <2> QED BY <1>1, <2>1, <2>2
  <1> QED BY <1>1, <1>2

LEMMA GlueOf ==
  ASSUME NEW S, NEW s \in Seq(S), NEW u \in Seq(S)
  PROVE  /\ s \o u \in Seq(S) /\ Len(s \o u) = Len(s) + Len(u)
         /\ Len(s) \in Nat /\ Len(u) \in Nat
         /\ \A i \in 1..Len(s) : (s \o u)[i] = s[i]
         /\ \A i \in 1..Len(u) : (s \o u)[Len(s) + i] = u[i]
  OBVIOUS

\* What a word is made of.
LEMMA WordKinds ==
  ASSUME NEW w \in Words
  PROVE  /\ w[1] \in {"ready", "command", "chunk", "row"}
         /\ w[1] = "ready" => w[2] \subseteq Banks
         /\ w[1] = "chunk" => w[2] \in Banks /\ w[3] \in 0..LastChunk
         /\ w[1] = "row" => w[2] \in Banks /\ w[3] \in 1..Rows /\ w[4] \in 0..LastChunk
  <1>1. CASE w \in {<<"ready", bs>> : bs \in SUBSET Banks}
    BY <1>1
  <1>2. CASE w \in {<<"command", c>> : c \in {"none", "safe"}}
    BY <1>2
  <1>3. CASE w \in {<<"chunk", n % 2, n>> : n \in 2..LastChunk}
    <2>1. PICK n \in 2..LastChunk : w = <<"chunk", n % 2, n>>
      BY <1>3
    <2>2. n \in 0..LastChunk /\ n % 2 \in Banks
      BY QueueAssumption DEF QueueAssumption, Banks
    <2> QED BY <2>1, <2>2
  <1>4. CASE w \in {<<"row", n % 2, r, n>> : n \in 2..LastChunk, r \in 1..Rows}
    <2>1. PICK n \in 2..LastChunk, r \in 1..Rows : w = <<"row", n % 2, r, n>>
      BY <1>4
    <2>2. n \in 0..LastChunk /\ n % 2 \in Banks
      BY QueueAssumption DEF QueueAssumption, Banks
    <2> QED BY <2>1, <2>2
  <1> QED BY <1>1, <1>2, <1>3, <1>4 DEF Words

LEMMA FramedBy ==
  ASSUME NEW S, NEW s \in Seq(S), NEW a \in S, NEW b \in S, NEW c \in S
  PROVE  LET u == <<a>> \o s \o <<b, c>>
         IN  /\ Len(u) = Len(s) + 3 /\ u[1] = a
             /\ \A i \in 1..Len(s) : u[i + 1] = s[i]
             /\ u[Len(s) + 2] = b /\ u[Len(s) + 3] = c
  <1> DEFINE v == <<a>> \o s
             u == v \o <<b, c>>
  <1>1. /\ v \in Seq(S) /\ Len(v) = Len(s) + 1 /\ v[1] = a
        /\ \A i \in 1..Len(s) : v[i + 1] = s[i]
    OBVIOUS
  <1> HIDE DEF v
  <1>2. /\ Len(u) = Len(v) + 2 /\ u[Len(v) + 1] = b /\ u[Len(v) + 2] = c
        /\ \A i \in 1..Len(v) : u[i] = v[i]
    BY <1>1
  <1> HIDE DEF u
  <1>3. /\ Len(u) = Len(s) + 3 /\ u[1] = a /\ u[Len(s) + 2] = b /\ u[Len(s) + 3] = c
        /\ \A i \in 1..Len(s) : u[i + 1] = s[i]
    BY <1>1, <1>2
  <1> QED BY <1>3 DEF u, v

\* The words of a chunk, one by one: bank closed, rows, label, bank open.
LEMMA ChunkIs ==
  ASSUME NEW n \in Nat
  PROVE  /\ Len(ChunkWords(n)) = Rows + 3
         /\ ChunkWords(n)[1] = <<"ready", Banks \ {n % 2}>>
         /\ \A r \in 1..Rows : ChunkWords(n)[r + 1] = <<"row", n % 2, r, n>>
         /\ ChunkWords(n)[Rows + 2] = <<"chunk", n % 2, n>>
         /\ ChunkWords(n)[Rows + 3] = <<"ready", Banks>>
         /\ n \in 2..LastChunk => ChunkWords(n) \in Seq(Words)
  <1>1. Rows \in Nat \ {0} /\ n % 2 \in Banks
    BY QueueAssumption DEF QueueAssumption, Banks
  <1> DEFINE T == {<<"row", n % 2, r, n>> : r \in 1..Rows}
             first == <<<<"ready", Banks \ {n % 2}>>>>
             last == <<<<"chunk", n % 2, n>>, <<"ready", Banks>>>>
  <1>2. /\ RowWords(n) \in Seq(T) /\ Len(RowWords(n)) = Rows
        /\ \A r \in 1..Rows : RowWords(n)[r] = <<"row", n % 2, r, n>>
    <2>1. RowWords(n) \in [1..Rows -> T]
      BY DEF RowWords
    <2> QED BY <2>1, <1>1 DEF RowWords
  <1>3. ChunkWords(n) = first \o RowWords(n) \o last
    BY DEF ChunkWords
  <1>4. n \in 2..LastChunk =>
          /\ T \subseteq Words /\ first \in Seq(Words) /\ last \in Seq(Words)
    <2>1. <<"ready", Banks \ {n % 2}>> \in Words /\ <<"ready", Banks>> \in Words
      <3>1. Banks \ {n % 2} \in SUBSET Banks /\ Banks \in SUBSET Banks
        OBVIOUS
      <3> DEFINE R == {<<"ready", bs>> : bs \in SUBSET Banks}
      <3>2. <<"ready", Banks \ {n % 2}>> \in R /\ <<"ready", Banks>> \in R
        BY <3>1
      <3>3. \A w \in R : w \in Words
        BY DEF Words
      <3> HIDE DEF R
      <3> QED BY <3>2, <3>3
    <2>2. n \in 2..LastChunk => <<"chunk", n % 2, n>> \in Words /\ T \subseteq Words
      BY DEF Words
    <2> QED BY <2>1, <2>2
  <1>5. n \in 2..LastChunk => ChunkWords(n) \in Seq(Words)
    BY <1>2, <1>3, <1>4
  <1>6. \A r \in 1..Rows : RowWords(n)[r] = <<"row", n % 2, r, n>>
    BY <1>2
  <1> DEFINE R == T \cup {<<"ready", Banks \ {n % 2}>>, <<"chunk", n % 2, n>>, <<"ready", Banks>>}
  <1>7. RowWords(n) \in Seq(R)
    BY <1>2
  <1> HIDE DEF R
  <1>8. <<"ready", Banks \ {n % 2}>> \in R /\ <<"chunk", n % 2, n>> \in R /\ <<"ready", Banks>> \in R
    BY DEF R
  <1> QED BY <1>1, <1>2, <1>3, <1>5, <1>6, <1>7, <1>8, FramedBy

LEMMA SafeAre ==
  /\ SafeWords \in Seq(Words) /\ SafeWords # <<>> /\ Len(SafeWords) = 2
  /\ SafeWords[1] = <<"command", "none">> /\ SafeWords[2] = <<"command", "safe">>
  BY DEF SafeWords, Words

LEMMA QueueBegins == QueueInit => QueueInv
  <1> SUFFICES ASSUME QueueInit PROVE QueueInv
    OBVIOUS
  <1>1. TypeOK
    <2>1. <<>> \in Seq(Words) /\ <<>> \in Seq(Words \cup Marks)
      OBVIOUS
    <2>2. Banks \subseteq 0..LastChunk
      BY QueueAssumption DEF QueueAssumption, Banks
    <2>3. \A t \in Threads : Begins(t) \in Places
      BY DEF Begins, Places
    <2>4. /\ place \in [Threads -> Places] /\ ret \in [Threads -> Places]
          /\ todo \in [Threads -> Seq(Words)] /\ held \in [Threads -> Seq(Words)]
      BY <2>1, <2>3 DEF QueueInit
    <2>5. label \in [Banks -> 0..LastChunk] /\ rows \in [Banks -> [1..Rows -> 0..LastChunk]]
      BY <2>2 DEF QueueInit
    <2>6. next_mono \in 2..LastChunk + 1
      BY QueueAssumption DEF QueueAssumption, QueueInit
    <2> QED BY <2>1, <2>4, <2>5, <2>6 DEF QueueInit, TypeOK
  <1>2. CallerPlaces /\ StreamPlaces /\ OwnWords /\ Flushed
    BY ThreadsAre DEF QueueInit, Begins, CallerPlaces, StreamPlaces, OwnWords, Flushed,
       Waiting, Flushing
  <1> QED BY <1>1, <1>2 DEF QueueInv

LEMMA QueueWordKeeps ==
  ASSUME NEW t \in Threads, QueueInv, QueueWord(t)
  PROVE  QueueInv'
  <1> USE DEF QueueInv
  <1>1. /\ todo[t] \in Seq(Words) /\ todo[t] # <<>> /\ pending \in Seq(Words)
        /\ place[t] = "queue"
    BY DEF TypeOK, OwnWords, QueueWord
  <1>2. /\ Head(todo[t]) \in Words /\ Tail(todo[t]) \in Seq(Words)
        /\ (Tail(todo[t]) # <<>> <=> Len(todo[t]) # 1)
    BY <1>1, EndsOf
  <1>3. pending' \in Seq(Words)
    BY <1>1, <1>2 DEF QueueWord
  <1>4. TypeOK'
    BY <1>1, <1>2, <1>3 DEF TypeOK, QueueWord, Enter, Places, fpga
  <1>5. CallerPlaces' /\ StreamPlaces'
    BY <1>1, ThreadsAre DEF CallerPlaces, StreamPlaces, QueueWord, Enter, Waiting, Flushing, TypeOK
  <1>6. OwnWords'
    <2>1. /\ ret' = ret /\ held' = held /\ aliased' = aliased /\ t \notin aliased
          /\ \A r \in Threads : r # t => place'[r] = place[r] /\ todo'[r] = todo[r]
      BY <1>1 DEF QueueWord, Enter, TypeOK
    <2>2. /\ todo'[t] = Tail(todo[t])
          /\ place'[t] = IF Len(todo[t]) = 1 THEN "look" ELSE "queue"
      BY DEF QueueWord, Enter, TypeOK
    <2>3. t \in {"stream", "caller"} /\ held[t] = <<>>
      BY <1>1 DEF OwnWords
    <2>4. ASSUME NEW r \in Threads, r # t
          PROVE  /\ ret'[r] \notin {"queue", "take", "reset", "issue", "wait"}
                 /\ (todo'[r] # <<>>) <=> place'[r] = "queue"
                 /\ place'[r] = "queue" => r \in {"stream", "caller"}
                 /\ held'[r] # <<>> => place'[r] \in {"reset", "issue"}
                 /\ r \in aliased' => held'[r] = <<>>
      BY <2>1, <2>4 DEF OwnWords
    <2>5. ret[t] \notin {"queue", "take", "reset", "issue", "wait"}
      BY DEF OwnWords
    <2>6. (todo'[t] # <<>>) <=> place'[t] = "queue"
      BY <1>2, <2>2
    <2> QED BY <2>1, <2>3, <2>4, <2>5, <2>6 DEF OwnWords
  <1>7. Flushed'
    <2>1. t \in {"stream", "caller"} /\ place'[t] \in Flushing
      BY <1>1 DEF QueueWord, Enter, TypeOK, OwnWords, Flushing
    <2> QED BY <2>1 DEF Flushed
  <1> QED BY <1>4, <1>5, <1>6, <1>7

LEMMA LookAtQueueKeeps ==
  ASSUME NEW t \in Threads, QueueInv, LookAtQueue(t)
  PROVE  QueueInv'
  <1> USE DEF QueueInv
  <1>4. TypeOK'
    BY ThreadsAre DEF TypeOK, Places, LookAtQueue, Enter, fpga
  <1>5. CallerPlaces' /\ StreamPlaces'
    BY ThreadsAre DEF TypeOK, CallerPlaces, StreamPlaces, OwnWords, Flushed, Waiting,
       Flushing, LookAtQueue, Enter, fpga
  <1>6. OwnWords'
    BY ThreadsAre DEF TypeOK, OwnWords, CallerPlaces, StreamPlaces, Waiting, Flushing,
       LookAtQueue, Enter, fpga
  <1>7. Flushed'
    BY ThreadsAre DEF TypeOK, Flushed, Flushing, LookAtQueue, Enter, fpga
  <1> QED BY <1>4, <1>5, <1>6, <1>7

LEMMA TakeQueueKeeps ==
  ASSUME NEW t \in Threads, QueueInv, TakeQueue(t)
  PROVE  QueueInv'
  <1> USE DEF QueueInv
  <1>4. TypeOK'
    BY ThreadsAre DEF TypeOK, Places, TakeQueue, Enter, fpga
  <1>5. CallerPlaces' /\ StreamPlaces'
    BY ThreadsAre DEF TypeOK, CallerPlaces, StreamPlaces, OwnWords, Flushed, Waiting,
       Flushing, TakeQueue, Enter, fpga
  <1>6. OwnWords'
    BY ThreadsAre DEF TypeOK, OwnWords, CallerPlaces, StreamPlaces, Waiting, Flushing,
       TakeQueue, Enter, fpga
  <1>7. Flushed'
    BY ThreadsAre DEF TypeOK, Flushed, Flushing, TakeQueue, Enter, fpga
  <1> QED BY <1>4, <1>5, <1>6, <1>7

LEMMA ResetQueueKeeps ==
  ASSUME NEW t \in Threads, QueueInv, ResetQueue(t)
  PROVE  QueueInv'
  <1> USE DEF QueueInv
  <1>1. <<>> \in Seq(Words)
    OBVIOUS
  <1>4. TypeOK'
    BY <1>1, ThreadsAre DEF TypeOK, Places, ResetQueue, Enter, fpga
  <1>5. CallerPlaces' /\ StreamPlaces'
    BY ThreadsAre DEF TypeOK, CallerPlaces, StreamPlaces, OwnWords, Flushed, Waiting,
       Flushing, ResetQueue, Enter, fpga
  <1>6. OwnWords'
    BY ThreadsAre DEF TypeOK, OwnWords, CallerPlaces, StreamPlaces, Waiting, Flushing,
       ResetQueue, Enter, fpga
  <1>7. Flushed'
    BY DEF ResetQueue, Flushed
  <1> QED BY <1>4, <1>5, <1>6, <1>7

LEMMA IssueKeeps ==
  ASSUME NEW t \in Threads, QueueInv, Issue(t)
  PROVE  QueueInv'
  <1> USE DEF QueueInv
  <1>1. <<>> \in Seq(Words)
    OBVIOUS
  <1>2. link' \in Seq(Words \cup Marks)
    <2>1. held[t] \in Seq(Words \cup Marks) /\ <<"mark", t>> \in Words \cup Marks
      BY DEF TypeOK, Marks
    <2>2. Append(held[t], <<"mark", t>>) \in Seq(Words \cup Marks)
      BY <2>1
    <2> QED BY <2>2 DEF TypeOK, Issue
  <1>4. TypeOK'
    BY <1>1, <1>2, ThreadsAre DEF TypeOK, Places, Issue, Enter, fpga
  <1>5. CallerPlaces' /\ StreamPlaces'
    BY ThreadsAre DEF TypeOK, CallerPlaces, StreamPlaces, OwnWords, Flushed, Waiting,
       Flushing, Issue, Enter, fpga
  <1>6. OwnWords'
    BY ThreadsAre DEF TypeOK, OwnWords, CallerPlaces, StreamPlaces, Waiting, Flushing,
       Issue, Enter, fpga
  <1>7. Flushed'
    BY ThreadsAre DEF TypeOK, Flushed, Flushing, Issue, Enter, fpga
  <1> QED BY <1>4, <1>5, <1>6, <1>7

LEMMA NothingToIssueKeeps ==
  ASSUME NEW t \in Threads, QueueInv, NothingToIssue(t)
  PROVE  QueueInv'
  <1> USE DEF QueueInv
  <1>1. <<>> \in Seq(Words)
    OBVIOUS
  <1>4. TypeOK'
    BY <1>1, ThreadsAre DEF TypeOK, Places, NothingToIssue, Enter, fpga
  <1>5. CallerPlaces' /\ StreamPlaces'
    BY ThreadsAre DEF TypeOK, CallerPlaces, StreamPlaces, OwnWords, Flushed, Waiting,
       Flushing, NothingToIssue, Enter, fpga, MayIssue, Stopped
  <1>6. OwnWords'
    BY ThreadsAre DEF TypeOK, OwnWords, CallerPlaces, StreamPlaces, Waiting, Flushing,
       NothingToIssue, Enter, fpga, MayIssue, Stopped
  <1>7. Flushed'
    BY ThreadsAre DEF TypeOK, Flushed, Flushing, NothingToIssue, Enter, fpga
  <1> QED BY <1>4, <1>5, <1>6, <1>7

LEMMA AbortBeforeIssueKeeps ==
  ASSUME NEW t \in Threads, QueueInv, AbortBeforeIssue(t)
  PROVE  QueueInv'
  <1> USE DEF QueueInv
  <1>1. <<>> \in Seq(Words)
    OBVIOUS
  <1>4. TypeOK'
    BY <1>1, ThreadsAre DEF TypeOK, Places, AbortBeforeIssue, Enter, fpga
  <1>5. CallerPlaces' /\ StreamPlaces'
    BY ThreadsAre DEF TypeOK, CallerPlaces, StreamPlaces, OwnWords, Flushed, Waiting,
       Flushing, AbortBeforeIssue, Enter, fpga, MayIssue, Stopped
  <1>6. OwnWords'
    BY ThreadsAre DEF TypeOK, OwnWords, CallerPlaces, StreamPlaces, Waiting, Flushing,
       AbortBeforeIssue, Enter, fpga, MayIssue, Stopped
  <1>7. Flushed'
    BY ThreadsAre DEF TypeOK, Flushed, Flushing, AbortBeforeIssue, Enter, fpga
  <1> QED BY <1>4, <1>5, <1>6, <1>7

LEMMA RepliedKeeps ==
  ASSUME NEW t \in Threads, QueueInv, Replied(t)
  PROVE  QueueInv'
  <1> USE DEF QueueInv
  <1>1. <<>> \in Seq(Words)
    OBVIOUS
  <1>4. TypeOK'
    BY <1>1, ThreadsAre DEF TypeOK, Places, Replied, Enter, fpga
  <1>5. CallerPlaces' /\ StreamPlaces'
    BY ThreadsAre DEF TypeOK, CallerPlaces, StreamPlaces, OwnWords, Flushed, Waiting,
       Flushing, Replied, Enter, fpga, MayIssue, Stopped
  <1>6. OwnWords'
    BY ThreadsAre DEF TypeOK, OwnWords, CallerPlaces, StreamPlaces, Waiting, Flushing,
       Replied, Enter, fpga, MayIssue, Stopped
  <1>7. Flushed'
    BY ThreadsAre DEF TypeOK, Flushed, Flushing, Replied, Enter, fpga
  <1> QED BY <1>4, <1>5, <1>6, <1>7

LEMMA AbortWaitingKeeps ==
  ASSUME NEW t \in Threads, QueueInv, AbortWaiting(t)
  PROVE  QueueInv'
  <1> USE DEF QueueInv
  <1>1. <<>> \in Seq(Words)
    OBVIOUS
  <1>4. TypeOK'
    BY <1>1, ThreadsAre DEF TypeOK, Places, AbortWaiting, Enter, fpga
  <1>5. CallerPlaces' /\ StreamPlaces'
    BY ThreadsAre DEF TypeOK, CallerPlaces, StreamPlaces, OwnWords, Flushed, Waiting,
       Flushing, AbortWaiting, Enter, fpga, MayIssue, Stopped
  <1>6. OwnWords'
    BY ThreadsAre DEF TypeOK, OwnWords, CallerPlaces, StreamPlaces, Waiting, Flushing,
       AbortWaiting, Enter, fpga, MayIssue, Stopped
  <1>7. Flushed'
    BY ThreadsAre DEF TypeOK, Flushed, Flushing, AbortWaiting, Enter, fpga
  <1> QED BY <1>4, <1>5, <1>6, <1>7

LEMMA PollCursorKeeps ==
  ASSUME QueueInv, PollCursor
  PROVE  QueueInv'
  <1> USE DEF QueueInv
  <1>4. TypeOK'
    <2>1. /\ place' \in [Threads -> Places] /\ ret' \in [Threads -> Places]
          /\ \A t \in Threads : t # "stream" => place'[t] = place[t]
      <3>1. PICK where \in Places, back \in Places : Call("stream", where, back)
        BY DEF Places, PollCursor, Call, Enter
      <3>2. /\ place' = [place EXCEPT !["stream"] = where] /\ ret' = [ret EXCEPT !["stream"] = back]
            /\ place \in [Threads -> Places] /\ ret \in [Threads -> Places]
        BY <3>1 DEF Call, Enter, TypeOK
      <3> QED BY <3>2, ThreadsAre
    <2>2. "stream" \notin aliased
      BY DEF TypeOK, PollCursor
    <2>3. aliased' \subseteq {t \in Threads : place'[t] = "reset"}
      BY <2>1, <2>2 DEF TypeOK, PollCursor
    <2> QED BY <2>1, <2>3 DEF TypeOK, PollCursor, fpga
  <1>5. CallerPlaces' /\ StreamPlaces'
    BY ThreadsAre DEF TypeOK, CallerPlaces, StreamPlaces, OwnWords, Flushed, Waiting,
       Flushing, PollCursor, Enter, fpga, Call, Stopped
  <1>6. OwnWords'
    BY ThreadsAre DEF TypeOK, OwnWords, CallerPlaces, StreamPlaces, Waiting, Flushing,
       PollCursor, Enter, fpga, Call, Stopped
  <1>7. Flushed'
    BY ThreadsAre DEF TypeOK, Flushed, Flushing, PollCursor, Enter, fpga, Call
  <1> QED BY <1>4, <1>5, <1>6, <1>7

LEMMA CursorAnsweredKeeps ==
  ASSUME QueueInv, CursorAnswered
  PROVE  QueueInv'
  <1> USE DEF QueueInv
  <1>1. next_mono <= LastChunk => /\ ChunkWords(next_mono) \in Seq(Words) /\ ChunkWords(next_mono) # <<>>
    <2>1. next_mono \in Nat /\ (next_mono <= LastChunk => next_mono \in 2..LastChunk)
      BY QueueAssumption DEF TypeOK, QueueAssumption
    <2>2. Len(ChunkWords(next_mono)) # 0
      BY <2>1, ChunkIs, QueueAssumption DEF QueueAssumption
    <2> QED BY <2>1, <2>2, ChunkIs
  <1>2. \/ /\ place' = [place EXCEPT !["stream"] = "ended"] \/ place' = [place EXCEPT !["stream"] = "top"]
           /\ ret' = ret /\ todo' = todo /\ next_mono' = next_mono
        \/ /\ place' = [place EXCEPT !["stream"] = "queue"]
           /\ \/ /\ ret' = [ret EXCEPT !["stream"] = "top"]
                 /\ todo' = [todo EXCEPT !["stream"] = ChunkWords(next_mono)]
                 /\ next_mono <= LastChunk /\ next_mono' = next_mono + 1
              \/ /\ ret' = [ret EXCEPT !["stream"] = "ended"]
                 /\ todo' = [todo EXCEPT !["stream"] = SafeWords] /\ next_mono' = next_mono
    BY DEF CursorAnswered, QueueAll, Call, Enter
  <1>3. UNCHANGED <<held, pending, aliased, io_lock, link, stop, mode, session, ready, label,
                    rows, run>>
    BY DEF CursorAnswered, fpga
  <1>9. \/ place'["stream"] # "queue" /\ todo' = todo
        \/ /\ place'["stream"] = "queue"
           /\ \E ws \in Seq(Words) : ws # <<>> /\ todo' = [todo EXCEPT !["stream"] = ws]
    BY <1>1, <1>2, SafeAre, ThreadsAre DEF TypeOK
  <1>4. TypeOK'
    <2>1. todo' \in [Threads -> Seq(Words)]
      BY <1>9 DEF TypeOK
    <2>2. place' \in [Threads -> Places] /\ ret' \in [Threads -> Places]
      BY <1>2 DEF TypeOK, Places
    <2>3. next_mono' \in 2..LastChunk + 1
      BY <1>2, QueueAssumption DEF QueueAssumption, TypeOK
    <2>4. aliased' \subseteq {t \in Threads : place'[t] = "reset"}
      BY <1>2, <1>3 DEF TypeOK, CursorAnswered
    <2> QED BY <1>3, <2>1, <2>2, <2>3, <2>4 DEF TypeOK
  <1>5. CallerPlaces' /\ StreamPlaces'
    BY ThreadsAre DEF TypeOK, CallerPlaces, StreamPlaces, OwnWords, Flushed, Waiting,
       Flushing, CursorAnswered, Enter, fpga, Call, QueueAll
  <1>6. OwnWords'
    <2>1. /\ \A t \in Threads \ {"stream"} : place'[t] = place[t] /\ ret'[t] = ret[t] /\ todo'[t] = todo[t]
          /\ place'["stream"] \in {"ended", "top", "queue"}
          /\ ret'["stream"] \in {"read", "top", "ended"}
          /\ (todo'["stream"] # <<>>) <=> place'["stream"] = "queue"
          /\ place["stream"] = "read"
      BY <1>2, <1>9, ThreadsAre DEF TypeOK, OwnWords, StreamPlaces, CursorAnswered
    <2>2. held["stream"] = <<>> /\ "stream" \notin aliased
      BY <2>1, ThreadsAre DEF TypeOK, OwnWords
    <2>3. ASSUME NEW r \in Threads, r # "stream"
          PROVE  /\ ret'[r] \notin {"queue", "take", "reset", "issue", "wait"}
                 /\ (todo'[r] # <<>>) <=> place'[r] = "queue"
                 /\ place'[r] = "queue" => r \in {"stream", "caller"}
                 /\ held'[r] # <<>> => place'[r] \in {"reset", "issue"}
                 /\ r \in aliased' => held'[r] = <<>>
      BY <1>3, <2>1, <2>3 DEF OwnWords
    <2> QED BY <1>3, <2>1, <2>2, <2>3 DEF OwnWords
  <1>7. Flushed'
    BY ThreadsAre DEF TypeOK, Flushed, Flushing, CursorAnswered, Enter, fpga, Call, QueueAll
  <1> QED BY <1>4, <1>5, <1>6, <1>7

LEMMA CallSafeStateKeeps ==
  ASSUME QueueInv, CallSafeState
  PROVE  QueueInv'
  <1> USE DEF QueueInv
  <1>1. todo' \in [Threads -> Seq(Words)]
    BY SafeAre DEF TypeOK, CallSafeState, QueueAll
  <1>2. place' \in [Threads -> Places] /\ ret' \in [Threads -> Places]
    BY DEF TypeOK, Places, CallSafeState, QueueAll, Call, Enter
  <1>3. aliased' \subseteq {t \in Threads : place'[t] = "reset"}
    BY DEF TypeOK, CallSafeState, QueueAll, Call, Enter
  <1>4. TypeOK'
    BY <1>1, <1>2, <1>3 DEF TypeOK, CallSafeState, fpga
  <1>5. CallerPlaces' /\ StreamPlaces'
    BY ThreadsAre DEF TypeOK, CallerPlaces, StreamPlaces, OwnWords, Flushed, Waiting,
       Flushing, CallSafeState, Enter, fpga, Call, QueueAll, JoinsFirst, Joined
  <1>6. OwnWords'
    BY SafeAre, ThreadsAre DEF TypeOK, OwnWords, CallerPlaces, StreamPlaces, Waiting,
       Flushing, QueueAll, Call, JoinsFirst, Joined, CallSafeState, Enter, fpga
  <1>7. Flushed'
    BY ThreadsAre DEF TypeOK, Flushed, Flushing, CallSafeState, Enter, fpga, Call, QueueAll
  <1> QED BY <1>4, <1>5, <1>6, <1>7

LEMMA JoinKeeps ==
  ASSUME QueueInv, Join
  PROVE  QueueInv'
  <1> USE DEF QueueInv
  <1>1. todo' \in [Threads -> Seq(Words)]
    BY SafeAre DEF TypeOK, Join, QueueAll
  <1>2. place' \in [Threads -> Places] /\ ret' \in [Threads -> Places]
    BY DEF TypeOK, Places, Join, QueueAll, Call, Enter
  <1>3. aliased' \subseteq {t \in Threads : place'[t] = "reset"}
    BY DEF TypeOK, Join, QueueAll, Call, Enter
  <1>4. TypeOK'
    BY <1>1, <1>2, <1>3 DEF TypeOK, Join, fpga
  <1>5. CallerPlaces' /\ StreamPlaces'
    BY ThreadsAre DEF TypeOK, CallerPlaces, StreamPlaces, OwnWords, Flushed, Waiting,
       Flushing, Join, Enter, fpga, Call, QueueAll, JoinsFirst, Joined
  <1>6. OwnWords'
    <2>1. CASE mode = "prepare" /\ ret["caller"] = "call"
      BY <2>1, SafeAre, ThreadsAre, SMTT(30) DEF TypeOK, OwnWords, Join, JoinsFirst, QueueAll, Call, Enter
    <2>2. CASE ~(mode = "prepare" /\ ret["caller"] = "call")
      <3>1. place' = [place EXCEPT !["caller"] = "returned"] /\ todo' = todo /\ ret' = ret
        BY <2>2 DEF Join, JoinsFirst, Enter
      <3> QED BY <3>1, ThreadsAre DEF TypeOK, OwnWords, Join
    <2> QED BY <2>1, <2>2
  <1>7. Flushed'
    BY ThreadsAre DEF TypeOK, Flushed, Flushing, Join, Enter, fpga, Call, QueueAll
  <1> QED BY <1>4, <1>5, <1>6, <1>7

\* What one applied word changes is of the right kind.
LEMMA ApplyKeeps ==
  ASSUME QueueInv, Apply
  PROVE  QueueInv'
  <1> USE DEF QueueInv
  <1> DEFINE w == Head(link)
  <1>1. w \in Words \cup Marks /\ link' \in Seq(Words \cup Marks)
    BY EndsOf DEF TypeOK, Apply
  <1>2. w \in Marks => w[1] = "mark"
    BY DEF Marks
  <1>3. /\ w[1] = "ready" => w[2] \subseteq Banks
        /\ w[1] = "chunk" => w[2] \in Banks /\ w[3] \in 0..LastChunk
        /\ w[1] = "row" => w[2] \in Banks /\ w[3] \in 1..Rows /\ w[4] \in 0..LastChunk
    BY <1>1, <1>2, WordKinds
  <1>4. /\ ready' = IF w[1] = "ready" THEN w[2] ELSE ready
        /\ label' = IF w[1] = "chunk" THEN [label EXCEPT ![w[2]] = w[3]] ELSE label
        /\ rows' = IF w[1] = "row" THEN [rows EXCEPT ![w[2]][w[3]] = w[4]] ELSE rows
        /\ run' = IF w[1] = "command" THEN run /\ w[2] # "safe" ELSE run
    BY DEF Apply
  <1> HIDE DEF w
  <1>5. ready' \subseteq Banks /\ run' \in BOOLEAN /\ label' \in [Banks -> 0..LastChunk]
    BY <1>3, <1>4 DEF TypeOK
  <1>6. rows' \in [Banks -> [1..Rows -> 0..LastChunk]]
    BY <1>3, <1>4 DEF TypeOK
  <1>7. TypeOK'
    BY <1>1, <1>5, <1>6 DEF TypeOK, Apply, threads
  <1>8. CallerPlaces' /\ StreamPlaces' /\ OwnWords' /\ Flushed'
    BY DEF Apply, threads, CallerPlaces, StreamPlaces, OwnWords, Flushed
  <1> QED BY <1>7, <1>8

LEMMA QueueStep == QueueInv /\ [QueueNext]_queueVars => QueueInv'
  <1> SUFFICES ASSUME QueueInv, [QueueNext]_queueVars PROVE QueueInv'
    OBVIOUS
  <1>1. ASSUME NEW t \in Threads, Exchange(t) PROVE QueueInv'
    BY <1>1, QueueWordKeeps, LookAtQueueKeeps, TakeQueueKeeps, ResetQueueKeeps, IssueKeeps,
       NothingToIssueKeeps, AbortBeforeIssueKeeps, RepliedKeeps, AbortWaitingKeeps DEF Exchange
  <1>2. CASE UNCHANGED queueVars
    BY <1>2 DEF queueVars, threads, fpga, QueueInv, TypeOK, CallerPlaces, StreamPlaces,
       OwnWords, Flushed
  <1> QED BY <1>1, <1>2, PollCursorKeeps, CursorAnsweredKeeps, CallSafeStateKeeps,
             JoinKeeps, ApplyKeeps
          DEF QueueNext, AllDone

(* In every state: the threads are where safe_state(), prepare() and the   *)
(* refill loop put them; a thread has words of its own only while it       *)
(* queues or flushes them; and words in self._pending have a thread that   *)
(* has still to flush them.                                                *)
THEOREM QueueInvariance == QueueSpec => []QueueInv
  BY QueueBegins, QueueStep, PTL DEF QueueSpec

(* The threads, the queue, the words on their way and the registers of the *)
(* engine keep their types, with and without the reader of STATUS.         *)
THEOREM QueueTypeCorrect == QueueSpec => []TypeOK
  <1>1. QueueInv => TypeOK
    BY DEF QueueInv
  <1> QED BY <1>1, QueueInvariance, PTL

(* When safe_state() or prepare() returns, no word of it or of the refill  *)
(* thread is left in self._pending, in a list already taken or still to be *)
(* queued, whoever else was flushing: later commands start from nothing.   *)
THEOREM QueueLeftEmpty == QueueSpec => []NothingLeftBehind
  <1>1. QueueInv => NothingLeftBehind
    BY ThreadsAre DEF QueueInv, NothingLeftBehind, Returned, CallerPlaces, OwnWords,
       Flushed, Flushing
  <1> QED BY <1>1, QueueInvariance, PTL

-----------------------------------------------------------------------------
LEMMA GlueItems ==
  ASSUME NEW T, NEW s \in Seq(T), NEW u \in Seq(T)
  PROVE  Items(s \o u) = Items(s) \cup Items(u)
  <1>1. /\ Len(s \o u) = Len(s) + Len(u) /\ Len(s) \in Nat /\ Len(u) \in Nat
        /\ \A i \in 1..Len(s) : (s \o u)[i] = s[i]
        /\ \A i \in 1..Len(u) : (s \o u)[Len(s) + i] = u[i]
    BY GlueOf
  <1>2. ASSUME NEW y \in Items(s \o u) PROVE y \in Items(s) \cup Items(u)
    <2>1. PICK i \in 1..Len(s) + Len(u) : y = (s \o u)[i]
      BY <1>1 DEF Items
    <2>2. CASE i <= Len(s)
      BY <1>1, <2>1, <2>2 DEF Items
    <2>3. CASE i > Len(s)
      <3>1. i - Len(s) \in 1..Len(u) /\ i = Len(s) + (i - Len(s))
        BY <1>1, <2>1, <2>3
      <3>2. y = u[i - Len(s)]
        BY <1>1, <2>1, <3>1
      <3> QED BY <3>1, <3>2 DEF Items
    <2> QED BY <1>1, <2>1, <2>2, <2>3
  <1>3. ASSUME NEW y \in Items(s) PROVE y \in Items(s \o u)
    <2>1. PICK i \in 1..Len(s) : y = s[i]
      BY DEF Items
    <2>2. i \in 1..Len(s \o u) /\ y = (s \o u)[i]
      BY <1>1, <2>1
    <2> QED BY <2>2 DEF Items
  <1>4. ASSUME NEW y \in Items(u) PROVE y \in Items(s \o u)
    <2>1. PICK i \in 1..Len(u) : y = u[i]
      BY DEF Items
    <2>2. Len(s) + i \in 1..Len(s \o u) /\ y = (s \o u)[Len(s) + i]
      BY <1>1, <2>1
    <2> QED BY <2>2 DEF Items
  <1> QED BY <1>2, <1>3, <1>4

\* Whose list another has just taken and replaced finds an empty one.
Emptied ==
  \A t \in Threads :
    place[t] = "reset" /\ t \notin aliased =>
      pending = <<>> /\ stop /\ \A u \in Threads : place[u] # "queue"

\* A call that took the engine's owner away, or waits for it, has queued SAFE.
Safe == <<"command", "safe">>
Owed ==
  /\ session = "uart" \/ mode = "prepare"
  /\ mode = "safe_state" \/ ret["caller"] = "returned"
Carried ==
  \/ Safe \in Items(todo["caller"]) \cup Items(pending) \cup Items(link)
  \/ \E t \in Threads : Safe \in Items(held[t])
Landing == Owed => ~run \/ Carried

LEMMA EmptiedKept ==
  ASSUME ~Reader, QueueInv, Emptied, [QueueNext]_queueVars
  PROVE  Emptied'
  <1> USE DEF QueueInv
  <1>1. ASSUME NEW t \in Threads, Exchange(t) PROVE Emptied'
    <2>1. CASE QueueWord(t)
      BY <2>1, ThreadsAre DEF Emptied, TypeOK, OwnWords, CallerPlaces, QueueWord, Enter
    <2>2. CASE LookAtQueue(t)
      BY <2>2, ThreadsAre DEF Emptied, TypeOK, OwnWords, CallerPlaces, LookAtQueue, Enter
    <2>3. CASE TakeQueue(t)
      BY <2>3, ThreadsAre DEF Emptied, TypeOK, OwnWords, CallerPlaces, TakeQueue, Enter
    <2>4. CASE ResetQueue(t)
      <3> SUFFICES ASSUME NEW u \in Threads, place'[u] = "reset" PROVE Emptied'
        BY DEF Emptied
      <3>1. /\ place' = [place EXCEPT ![t] = "issue"] /\ pending' = <<>> /\ stop' = stop
            /\ place[t] = "reset"
        BY <2>4 DEF ResetQueue, Enter
      <3>2. u # t /\ place[u] = "reset"
        BY <3>1 DEF TypeOK
      <3>3. place["caller"] = "reset" /\ place["stream"] = "reset"
        BY <3>1, <3>2, ThreadsAre
      <3>4. stop /\ \A v \in Threads : place'[v] # "queue"
        BY <3>1, <3>3, ThreadsAre DEF TypeOK, CallerPlaces
      <3> QED BY <3>1, <3>4 DEF Emptied
    <2>5. CASE Issue(t)
      BY <2>5, ThreadsAre DEF Emptied, TypeOK, OwnWords, CallerPlaces, Issue, Enter
    <2>6. CASE NothingToIssue(t)
      BY <2>6, ThreadsAre DEF Emptied, TypeOK, OwnWords, CallerPlaces, NothingToIssue, Enter
    <2>7. CASE AbortBeforeIssue(t)
      BY <2>7, ThreadsAre DEF Emptied, TypeOK, OwnWords, CallerPlaces, AbortBeforeIssue, Enter
    <2>8. CASE Replied(t)
      BY <2>8, ThreadsAre DEF Emptied, TypeOK, OwnWords, CallerPlaces, Replied, Enter
    <2>9. CASE AbortWaiting(t)
      BY <2>9, ThreadsAre DEF Emptied, TypeOK, OwnWords, CallerPlaces, AbortWaiting, Enter
    <2> QED BY <1>1, <2>1, <2>2, <2>3, <2>4, <2>5, <2>6, <2>7, <2>8, <2>9 DEF Exchange
  <1>2. CASE PollCursor
    BY <1>2, ThreadsAre DEF Emptied, TypeOK, OwnWords, CallerPlaces, StreamPlaces,
       PollCursor, Enter, Call, QueueAll, Stopped, Joined, threads
  <1>3. CASE CursorAnswered
    BY <1>3, ThreadsAre DEF Emptied, TypeOK, OwnWords, CallerPlaces, StreamPlaces,
       CursorAnswered, Enter, Call, QueueAll, Stopped, Joined, threads
  <1>4. CASE CallSafeState
    BY <1>4, ThreadsAre DEF Emptied, TypeOK, OwnWords, CallerPlaces, StreamPlaces,
       CallSafeState, Enter, Call, QueueAll, Stopped, Joined, threads
  <1>5. CASE Join
    BY <1>5, ThreadsAre DEF Emptied, TypeOK, OwnWords, CallerPlaces, StreamPlaces, Join,
       Enter, Call, QueueAll, Stopped, Joined, threads
  <1>6. CASE Apply
    BY <1>6, ThreadsAre DEF Emptied, TypeOK, OwnWords, CallerPlaces, StreamPlaces, Apply,
       Enter, Call, QueueAll, Stopped, Joined, threads
  <1>7. CASE UNCHANGED queueVars
    BY <1>7 DEF queueVars, threads, Emptied
  <1> QED BY <1>1, <1>2, <1>3, <1>4, <1>5, <1>6, <1>7 DEF QueueNext, AllDone

LEMMA SafeItems == Safe \in Items(SafeWords)
  BY SafeAre DEF Items, Safe

LEMMA LandingKept ==
  ASSUME ~Reader, QueueInv, Emptied, Landing, [QueueNext]_queueVars
  PROVE  Landing'
  <1> USE DEF QueueInv
  <1>1. ASSUME NEW t \in Threads, Exchange(t) PROVE Landing'
    <2>1. Owed' => Owed
      BY <1>1 DEF Exchange, QueueWord, LookAtQueue, TakeQueue, ResetQueue, Issue, NothingToIssue,
         AbortBeforeIssue, Replied, AbortWaiting, Owed
    <2>2. run' = run
      BY <1>1 DEF Exchange, QueueWord, LookAtQueue, TakeQueue, ResetQueue, Issue, NothingToIssue,
         AbortBeforeIssue, Replied, AbortWaiting, fpga
    <2> SUFFICES ASSUME Owed, Carried PROVE Carried'
      BY <2>1, <2>2 DEF Landing
    <2>3. CASE QueueWord(t)
      <3>1. todo[t] \in Seq(Words) /\ todo[t] # <<>> /\ pending \in Seq(Words)
        BY <2>3 DEF TypeOK, OwnWords, QueueWord
      <3>2. /\ Items(pending') = Items(pending) \cup {Head(todo[t])}
            /\ Items(todo[t]) = Items(todo'[t]) \cup {Head(todo[t])}
        BY <2>3, <3>1, AppendItems, TailItems DEF QueueWord, TypeOK
      <3>3. Items(todo["caller"]) \cup Items(pending) \subseteq Items(todo'["caller"]) \cup Items(pending')
        BY <2>3, <3>2 DEF QueueWord, TypeOK
      <3> QED BY <2>3, <3>3 DEF QueueWord, Carried
    <2>4. CASE ResetQueue(t)
      <3>1. CASE aliased = {}
        <4>1. pending = <<>> /\ held' = held
          BY <2>4, <3>1 DEF ResetQueue, Emptied, TypeOK
        <4> QED BY <2>4, <4>1 DEF ResetQueue, Carried
      <3>2. CASE aliased # {}
        <4>1. PICK u \in aliased : TRUE
          BY <3>2
        <4>2. u \in Threads /\ held'[u] = pending
          BY <2>4, <4>1 DEF ResetQueue, TypeOK
        <4>3. \A v \in Threads : held'[v] = held[v] \/ held[v] = <<>>
          BY <2>4 DEF ResetQueue, OwnWords
        <4>4. Items(<<>>) = {}
          BY DEF Items
        <4>5. link' = link /\ todo' = todo
          BY <2>4 DEF ResetQueue
        <4> QED BY <4>2, <4>3, <4>4, <4>5 DEF Carried
      <3> QED BY <3>1, <3>2
    <2>5. CASE Issue(t)
      <3>1. /\ held[t] \in Seq(Words \cup Marks) /\ link \in Seq(Words \cup Marks)
            /\ <<"mark", t>> \in Words \cup Marks
        BY DEF TypeOK, Marks
      <3>2. Append(held[t], <<"mark", t>>) \in Seq(Words \cup Marks)
        BY <3>1
      <3> DEFINE batch == Append(held[t], <<"mark", t>>)
      <3>3. Items(link) \cup Items(held[t]) \subseteq Items(link')
        <4>1. Items(batch) = Items(held[t]) \cup {<<"mark", t>>}
          BY <3>1, AppendItems
        <4>2. Items(link \o batch) = Items(link) \cup Items(batch)
          <5>1. batch \in Seq(Words \cup Marks)
            BY <3>2
          <5> HIDE DEF batch
          <5> DEFINE T == Words \cup Marks
          <5>2. link \in Seq(T) /\ batch \in Seq(T)
            BY <3>1, <5>1
          <5> HIDE DEF T
          <5> QED BY <5>2, GlueItems
        <4>3. link' = link \o batch
          BY <2>5 DEF Issue
        <4> QED BY <4>1, <4>2, <4>3
      <3>4. \A v \in Threads : v # t => held'[v] = held[v]
        BY <2>5 DEF Issue, TypeOK
      <3>5. pending' = pending /\ todo' = todo
        BY <2>5 DEF Issue
      <3> QED BY <3>3, <3>4, <3>5 DEF Carried
    <2>6. CASE AbortBeforeIssue(t)
      BY <2>6 DEF AbortBeforeIssue, MayIssue, Stopped, Owed, CallerPlaces
    <2>7. CASE LookAtQueue(t) \/ TakeQueue(t) \/ NothingToIssue(t) \/ Replied(t) \/ AbortWaiting(t)
      BY <2>7 DEF LookAtQueue, TakeQueue, NothingToIssue, Replied, AbortWaiting, Carried
    <2> QED BY <1>1, <2>3, <2>4, <2>5, <2>6, <2>7 DEF Exchange
  <1>2. CASE PollCursor
    <2>1. UNCHANGED <<session, mode, run, todo, pending, link, held>> /\ ret'["caller"] = ret["caller"]
      BY <1>2, ThreadsAre DEF PollCursor, Call, TypeOK, fpga
    <2> QED BY <2>1 DEF Landing, Owed, Carried
  <1>3. CASE CursorAnswered
    <2>1. /\ UNCHANGED <<session, mode, run, pending, link, held>>
          /\ ret'["caller"] = ret["caller"] /\ todo'["caller"] = todo["caller"]
      BY <1>3, ThreadsAre DEF CursorAnswered, QueueAll, Call, TypeOK, fpga
    <2> QED BY <2>1 DEF Landing, Owed, Carried
  <1>4. CASE CallSafeState
    <2>1. Owed' => todo'["caller"] = SafeWords
      BY <1>4, ThreadsAre DEF CallSafeState, JoinsFirst, QueueAll, Call, TypeOK, Owed, CallerPlaces
    <2> QED BY <2>1, SafeItems DEF Landing, Carried
  <1>5. CASE Join
    <2>1. CASE JoinsFirst(mode) /\ ret["caller"] = "call"
      <3>1. todo'["caller"] = SafeWords
        BY <1>5, <2>1, ThreadsAre DEF Join, QueueAll, TypeOK
      <3> QED BY <3>1, SafeItems DEF Landing, Carried
    <2>2. CASE ~(JoinsFirst(mode) /\ ret["caller"] = "call")
      <3>1. UNCHANGED <<session, mode, run, todo, ret, pending, link, held>>
        BY <1>5, <2>2 DEF Join, fpga
      <3> QED BY <3>1 DEF Landing, Owed, Carried
    <2> QED BY <2>1, <2>2
  <1>6. CASE Apply
    <2>1. Items(link) = Items(link') \cup {Head(link)}
      BY <1>6, TailItems DEF Apply, TypeOK
    <2>2. run' => run /\ Head(link) # Safe
      <3>1. Safe[1] = "command" /\ Safe[2] = "safe"
        BY DEF Safe
      <3> HIDE DEF Safe
      <3>2. run' = IF Head(link)[1] = "command" THEN run /\ Head(link)[2] # "safe" ELSE run
        BY <1>6 DEF Apply
      <3>3. CASE Head(link)[1] = "command"
        BY <3>1, <3>2, <3>3
      <3>4. CASE Head(link)[1] # "command"
        BY <3>1, <3>2, <3>4
      <3> QED BY <3>3, <3>4
    <2>3. UNCHANGED <<session, mode, todo, ret, pending, held>>
      BY <1>6 DEF Apply, threads
    <2> QED BY <2>1, <2>2, <2>3 DEF Landing, Owed, Carried
  <1>7. CASE UNCHANGED queueVars
    BY <1>7 DEF queueVars, threads, fpga, Landing, Owed, Carried
  <1> QED BY <1>1, <1>2, <1>3, <1>4, <1>5, <1>6, <1>7 DEF QueueNext, AllDone

(* safe_state() on the UART and prepare() on both transports return with   *)
(* the engine halted once their words have arrived: the SAFE they queued   *)
(* is not lost between the lists two threads take and replace.             *)
THEOREM CallsHalt == ~Reader => (QueueSpec => []CallHalts)
  <1> SUFFICES ASSUME ~Reader PROVE QueueSpec => []CallHalts
    OBVIOUS
  <1>1. QueueInit => Emptied /\ Landing
    BY ThreadsAre DEF QueueInit, Begins, Emptied, Landing, Owed
  <1>2. QueueInv /\ Emptied /\ Landing /\ [QueueNext]_queueVars => (Emptied /\ Landing)'
    BY EmptiedKept, LandingKept
  <1>3. QueueInv /\ Landing => CallHalts
    <2> SUFFICES ASSUME QueueInv, Landing, session = "uart" \/ mode = "prepare", Returned, link = <<>>
                 PROVE  ~run
      BY DEF CallHalts, SafeLands
    <2>1. Owed
      BY DEF QueueInv, CallerPlaces, Owed, Returned, TypeOK
    <2>2. /\ todo["caller"] = <<>> /\ \A t \in {"stream", "caller"} : held[t] = <<>>
          /\ pending = <<>>
      BY ThreadsAre DEF QueueInv, CallerPlaces, OwnWords, Flushed, Flushing, Returned
    <2>3. Items(<<>>) = {}
      BY DEF Items
    <2>4. ~Carried
      BY <2>2, <2>3, ThreadsAre DEF Carried
    <2> QED BY <2>1, <2>4 DEF Landing
  <1> QED BY <1>1, <1>2, <1>3, QueueBegins, QueueStep, PTL DEF QueueSpec

-----------------------------------------------------------------------------
Plain(w) == w[1] \in {"command", "mark"}

\* Apart from plain words, f[1], ..., f[n] are c[lo], ..., c[hi - 1].
Spells(c, f, n, lo, hi) ==
  /\ \A i \in 1..n : Plain(f[i]) \/ \E p \in lo..hi - 1 : f[i] = c[p]
  /\ \A p \in lo..hi - 1 : \E i \in 1..n : f[i] = c[p]
  /\ \A i, j \in 1..n, p, q \in lo..hi - 1 :
       i < j /\ f[i] = c[p] /\ f[j] = c[q] => p < q

Holds(c, s, lo, hi) == Spells(c, s, Len(s), lo, hi)

Proper(c, e) ==
  \A p \in 1..e - 1 : ~Plain(c[p]) /\ \A q \in 1..e - 1 : c[p] = c[q] => p = q

LEMMA HoldsNothing ==
  ASSUME NEW c, NEW k \in Nat
  PROVE  /\ Holds(c, <<>>, k, k)
         /\ \A l \in Nat : k <= l /\ Holds(c, <<>>, k, l) => k = l
  BY DEF Holds, Spells

LEMMA HoldsPlain ==
  ASSUME NEW c, NEW T, NEW s \in Seq(T), NEW k \in Nat, \A w \in Items(s) : Plain(w)
  PROVE  Holds(c, s, k, k)
  BY DEF Holds, Spells, Items

LEMMA SpellsJoin ==
  ASSUME NEW c, NEW a \in Nat, NEW b \in Nat, NEW s, NEW u, NEW v, NEW e \in Nat, Proper(c, e),
         NEW lo \in 1..e, NEW m \in 1..e, NEW hi \in 1..e, lo <= m, m <= hi,
         \A i \in 1..a : v[i] = s[i], \A i \in 1..b : v[a + i] = u[i],
         Spells(c, s, a, lo, m), Spells(c, u, b, m, hi)
  PROVE  Spells(c, v, a + b, lo, hi)
  <1>2. ASSUME NEW i \in 1..a + b
        PROVE  \/ i \in 1..a /\ v[i] = s[i]
               \/ i - a \in 1..b /\ v[i] = u[i - a] /\ i > a
    <2>1. CASE i <= a
      BY <2>1
    <2>2. CASE i > a
      <3>1. i - a \in 1..b /\ i = a + (i - a)
        BY <2>2
      <3> QED BY <2>2, <3>1
    <2> QED BY <2>1, <2>2
  <1>3. ASSUME NEW i \in 1..a + b, ~Plain(v[i])
        PROVE  \/ i \in 1..a /\ \E p \in lo..m - 1 : v[i] = c[p]
               \/ i > a /\ \E p \in m..hi - 1 : v[i] = c[p]
    BY <1>2, <1>3 DEF Spells
  <1>4. \A i \in 1..a + b : Plain(v[i]) \/ \E p \in lo..hi - 1 : v[i] = c[p]
    BY <1>3
  <1>5. ASSUME NEW p \in lo..hi - 1 PROVE \E i \in 1..a + b : v[i] = c[p]
    <2>1. CASE p < m
      <3>1. PICK i \in 1..a : s[i] = c[p]
        BY <2>1 DEF Spells
      <3> QED BY <3>1
    <2>2. CASE p >= m
      <3>1. PICK i \in 1..b : u[i] = c[p]
        BY <2>2 DEF Spells
      <3>2. a + i \in 1..a + b /\ v[a + i] = c[p]
        BY <3>1
      <3> QED BY <3>2
    <2> QED BY <2>1, <2>2
  <1>6. ASSUME NEW i \in 1..a + b, NEW j \in 1..a + b, NEW p \in lo..hi - 1, NEW q \in lo..hi - 1,
               i < j, v[i] = c[p], v[j] = c[q]
        PROVE  p < q
    <2>1. /\ ~Plain(v[i]) /\ ~Plain(v[j])
          /\ \A r \in lo..hi - 1 : (v[i] = c[r] => r = p) /\ (v[j] = c[r] => r = q)
      BY <1>6 DEF Proper
    <2>2. CASE j \in 1..a
      <3>1. i \in 1..a /\ v[i] = s[i] /\ v[j] = s[j]
        BY <1>6, <2>2
      <3>2. p \in lo..m - 1 /\ q \in lo..m - 1
        BY <1>3, <2>1, <2>2, <3>1
      <3>3. \A x, y \in 1..a, f, g \in lo..m - 1 : x < y /\ s[x] = c[f] /\ s[y] = c[g] => f < g
        BY DEF Spells
      <3> QED BY <1>6, <2>2, <3>1, <3>2, <3>3
    <2>3. CASE i > a
      <3>1. /\ i - a \in 1..b /\ v[i] = u[i - a]
            /\ j - a \in 1..b /\ v[j] = u[j - a] /\ i - a < j - a
        BY <1>2, <1>6, <2>3
      <3>2. p \in m..hi - 1 /\ q \in m..hi - 1
        BY <1>3, <1>6, <2>1, <2>3
      <3>3. \A x, y \in 1..b, f, g \in m..hi - 1 : x < y /\ u[x] = c[f] /\ u[y] = c[g] => f < g
        BY DEF Spells
      <3>4. PICK x \in 1..b, y \in 1..b : x = i - a /\ y = j - a
        BY <3>1
      <3>5. x < y /\ u[x] = c[p] /\ u[y] = c[q]
        BY <1>6, <3>1, <3>4
      <3> QED BY <3>2, <3>3, <3>5
    <2>4. CASE i <= a /\ j > a
      <3>1. p \in lo..m - 1 /\ q \in m..hi - 1
        BY <1>3, <2>1, <2>4
      <3> QED BY <3>1
    <2> QED BY <2>2, <2>3, <2>4
  <1>7. Spells(c, v, a + b, lo, hi)
    BY <1>4, <1>5, <1>6 DEF Spells
  <1> QED BY <1>7

LEMMA HoldsJoin ==
  ASSUME NEW c, NEW T, NEW s \in Seq(T), NEW u \in Seq(T), NEW e \in Nat, Proper(c, e),
         NEW lo \in 1..e, NEW m \in 1..e, NEW hi \in 1..e, lo <= m, m <= hi,
         Holds(c, s, lo, m), Holds(c, u, m, hi)
  PROVE  Holds(c, s \o u, lo, hi)
  <1> DEFINE v == s \o u
  <1>1. /\ Len(v) = Len(s) + Len(u) /\ Len(s) \in Nat /\ Len(u) \in Nat
        /\ \A i \in 1..Len(s) : v[i] = s[i]
        /\ \A i \in 1..Len(u) : v[Len(s) + i] = u[i]
    BY GlueOf
  <1> HIDE DEF v
  <1>2. Spells(c, s, Len(s), lo, m) /\ Spells(c, u, Len(u), m, hi)
    BY DEF Holds
  <1>3. Spells(c, v, Len(s) + Len(u), lo, hi)
    BY <1>1, <1>2, SpellsJoin
  <1>4. Holds(c, v, lo, hi)
    BY <1>1, <1>3 DEF Holds
  <1> QED BY <1>4 DEF v

LEMMA HoldsAppend ==
  ASSUME NEW c, NEW T, NEW s \in Seq(T), NEW w \in T, NEW e \in Nat, Proper(c, e),
         NEW lo \in 1..e, NEW hi \in 1..e, lo <= hi, Holds(c, s, lo, hi)
  PROVE  /\ Plain(w) => Holds(c, Append(s, w), lo, hi)
         /\ hi < e /\ w = c[hi] => Holds(c, Append(s, w), lo, hi + 1)
  <1>1. <<w>> \in Seq(T) /\ Append(s, w) = s \o <<w>> /\ Len(<<w>>) = 1 /\ <<w>>[1] = w
    OBVIOUS
  <1> DEFINE u == <<w>>
  <1>2. Plain(w) => Holds(c, u, hi, hi)
    BY <1>1 DEF Holds, Spells
  <1>3. hi < e /\ w = c[hi] => Holds(c, u, hi, hi + 1) /\ hi + 1 \in 1..e
    BY <1>1 DEF Holds, Spells
  <1>4. hi <= hi /\ hi <= hi + 1 /\ u \in Seq(T) /\ Append(s, w) = s \o u
    BY <1>1
  <1> HIDE DEF u
  <1>5. ASSUME Plain(w) PROVE Holds(c, s \o u, lo, hi)
    BY <1>2, <1>4, <1>5, HoldsJoin
  <1>6. ASSUME hi < e, w = c[hi] PROVE Holds(c, s \o u, lo, hi + 1)
    BY <1>3, <1>4, <1>6, HoldsJoin
  <1> QED BY <1>4, <1>5, <1>6

LEMMA SpellsTail ==
  ASSUME NEW c, NEW n \in Nat \ {0}, NEW s, NEW v, NEW e \in Nat, Proper(c, e),
         NEW lo \in 1..e, NEW hi \in 1..e, lo <= hi,
         \A i \in 1..n - 1 : v[i] = s[i + 1], Spells(c, s, n, lo, hi)
  PROVE  /\ Plain(s[1]) => Spells(c, v, n - 1, lo, hi)
         /\ ~Plain(s[1]) => lo < hi /\ s[1] = c[lo] /\ Spells(c, v, n - 1, lo + 1, hi)
  <1>2. \A i \in 2..n : i - 1 \in 1..n - 1 /\ v[i - 1] = s[i]
    OBVIOUS
  <1>3. \A i \in 1..n - 1 : i + 1 \in 1..n
    OBVIOUS
  <1>4. ASSUME Plain(s[1]) PROVE Spells(c, v, n - 1, lo, hi)
    <2>1. \A i \in 1..n - 1 : Plain(v[i]) \/ \E p \in lo..hi - 1 : v[i] = c[p]
      BY <1>3 DEF Spells
    <2>2. ASSUME NEW p \in lo..hi - 1 PROVE \E i \in 1..n - 1 : v[i] = c[p]
      <3>1. PICK i \in 1..n : s[i] = c[p]
        BY DEF Spells
      <3>2. i # 1
        BY <1>4, <3>1 DEF Proper
      <3> QED BY <1>2, <3>1, <3>2
    <2>3. \A i, j \in 1..n - 1, p, q \in lo..hi - 1 : i < j /\ v[i] = c[p] /\ v[j] = c[q] => p < q
      <3> SUFFICES ASSUME NEW i \in 1..n - 1, NEW j \in 1..n - 1, NEW p \in lo..hi - 1, NEW q \in lo..hi - 1,
                          i < j, v[i] = c[p], v[j] = c[q]
                   PROVE  p < q
        OBVIOUS
      <3>1. i + 1 \in 1..n /\ j + 1 \in 1..n /\ i + 1 < j + 1 /\ s[i + 1] = c[p] /\ s[j + 1] = c[q]
        BY <1>3
      <3> QED BY <3>1 DEF Spells
    <2> QED BY <2>1, <2>2, <2>3 DEF Spells
  <1>5. ASSUME ~Plain(s[1]) PROVE lo < hi /\ s[1] = c[lo] /\ Spells(c, v, n - 1, lo + 1, hi)
    <2>1. PICK h \in lo..hi - 1 : s[1] = c[h]
      BY <1>5 DEF Spells
    <2>2. lo < hi /\ h = lo
      <3>1. lo \in lo..hi - 1
        BY <2>1
      <3>2. PICK i \in 1..n : s[i] = c[lo]
        BY <3>1 DEF Spells
      <3>3. CASE i = 1
        BY <2>1, <3>1, <3>2, <3>3 DEF Proper
      <3>4. CASE 1 < i
        BY <2>1, <3>1, <3>2, <3>4 DEF Spells
      <3> QED BY <3>1, <3>3, <3>4
    <2>3. ASSUME NEW i \in 2..n, NEW p \in lo..hi - 1, s[i] = c[p] PROVE p \in lo + 1..hi - 1
      <3>1. lo < p
        BY <2>1, <2>2, <2>3 DEF Spells
      <3> QED BY <3>1
    <2>4. \A i \in 1..n - 1 : Plain(v[i]) \/ \E p \in lo + 1..hi - 1 : v[i] = c[p]
      <3> SUFFICES ASSUME NEW i \in 1..n - 1, ~Plain(v[i]) PROVE \E p \in lo + 1..hi - 1 : v[i] = c[p]
        OBVIOUS
      <3>1. i + 1 \in 2..n /\ v[i] = s[i + 1]
        OBVIOUS
      <3>2. PICK p \in lo..hi - 1 : s[i + 1] = c[p]
        BY <3>1 DEF Spells
      <3> QED BY <2>3, <3>1, <3>2
    <2>5. ASSUME NEW p \in lo + 1..hi - 1 PROVE \E i \in 1..n - 1 : v[i] = c[p]
      <3>1. PICK i \in 1..n : s[i] = c[p]
        BY DEF Spells
      <3>2. i # 1
        BY <2>1, <2>2, <3>1 DEF Proper
      <3> QED BY <1>2, <3>1, <3>2
    <2>6. \A i, j \in 1..n - 1, p, q \in lo + 1..hi - 1 : i < j /\ v[i] = c[p] /\ v[j] = c[q] => p < q
      <3> SUFFICES ASSUME NEW i \in 1..n - 1, NEW j \in 1..n - 1, NEW p \in lo + 1..hi - 1,
                          NEW q \in lo + 1..hi - 1, i < j, v[i] = c[p], v[j] = c[q]
                   PROVE  p < q
        OBVIOUS
      <3>1. i + 1 \in 1..n /\ j + 1 \in 1..n /\ i + 1 < j + 1 /\ s[i + 1] = c[p] /\ s[j + 1] = c[q]
        BY <1>3
      <3>2. p \in lo..hi - 1 /\ q \in lo..hi - 1
        OBVIOUS
      <3> QED BY <3>1, <3>2 DEF Spells
    <2> QED BY <2>1, <2>2, <2>4, <2>5, <2>6 DEF Spells
  <1> QED BY <1>4, <1>5

LEMMA HoldsTail ==
  ASSUME NEW c, NEW T, NEW s \in Seq(T), s # <<>>, NEW e \in Nat, Proper(c, e),
         NEW lo \in 1..e, NEW hi \in 1..e, lo <= hi, Holds(c, s, lo, hi)
  PROVE  /\ Plain(Head(s)) => Holds(c, Tail(s), lo, hi)
         /\ ~Plain(Head(s)) => lo < hi /\ Head(s) = c[lo] /\ Holds(c, Tail(s), lo + 1, hi)
  <1> DEFINE v == Tail(s)
  <1>1. /\ Head(s) = s[1] /\ Len(v) = Len(s) - 1 /\ Len(s) \in Nat \ {0}
        /\ \A i \in 1..Len(v) : v[i] = s[i + 1]
    BY EndsOf
  <1>2. PICK n \in Nat \ {0} : n = Len(s)
    BY <1>1
  <1>3. Spells(c, s, n, lo, hi) /\ \A i \in 1..n - 1 : v[i] = s[i + 1]
    BY <1>1, <1>2 DEF Holds
  <1> HIDE DEF v
  <1>4. /\ Plain(s[1]) => Spells(c, v, n - 1, lo, hi)
        /\ ~Plain(s[1]) => lo < hi /\ s[1] = c[lo] /\ Spells(c, v, n - 1, lo + 1, hi)
    BY <1>3, SpellsTail, ZenonT(30)
  <1>5. Len(v) = n - 1 /\ Head(s) = s[1]
    BY <1>1, <1>2
  <1>6. /\ Plain(Head(s)) => Holds(c, v, lo, hi)
        /\ ~Plain(Head(s)) => lo < hi /\ Head(s) = c[lo] /\ Holds(c, v, lo + 1, hi)
    BY <1>4, <1>5, Zenon DEF Holds
  <1> QED BY <1>6 DEF v

-----------------------------------------------------------------------------
\* The chunk loaded last, and how much of it the engine has applied when its
\* k-th word comes next: its bank is closed from the first word to the last,
\* and the other one stays whole.
Refill == ChunkWords(next_mono - 1)
End == Rows + 4
BankWhole(b) == \A r \in 1..Rows : rows[b][r] = label[b]
Loaded(k) ==
  LET n == next_mono - 1
      b == n % 2
  IN  /\ BankWhole(1 - b)
      /\ k \in {1, End} => BankWhole(b)
      /\ 1 < k /\ k < End =>
           /\ b \notin ready /\ \A r \in 1..Rows : r <= k - 2 => rows[b][r] = n
           /\ k = End - 1 => label[b] = n

\* Whose words may still be issued on JTAG: once stopped, not the refill thread's.
Issuable == IF stop THEN held["caller"] ELSE held["stream"]

\* The words of the chunk follow one another from the link to the thread.
ChainAt(k, l, m, p) ==
  /\ k <= l /\ l <= m /\ m <= p /\ Loaded(k)
  /\ Holds(Refill, link, k, l) /\ Holds(Refill, Issuable, l, m) /\ Holds(Refill, pending, m, p)
  /\ place["stream"] = "queue" \/ ~stop => Holds(Refill, todo["stream"], p, End)
Chain == \E k, l, m, p \in 1..End : ChainAt(k, l, m, p)

\* Before the stop the link holds one transaction of the refill thread's; its
\* farewell is plain, as is all the caller has.
AllPlain(s) == \A w \in Items(s) : Plain(w)
Quiet ==
  /\ ~stop /\ link # <<>> =>
       place["stream"] = "wait" /\ link[Len(link)] = <<"mark", "stream">>
  /\ place["stream"] \in Waiting /\ ret["stream"] = "ended" =>
       AllPlain(todo["stream"]) /\ AllPlain(held["stream"]) /\ AllPlain(pending)
  /\ AllPlain(todo["caller"])

LEMMA RefillIs ==
  ASSUME TypeOK
  PROVE  LET n == next_mono - 1
             b == n % 2
         IN  /\ n \in Nat /\ b \in Banks /\ End \in Nat /\ End >= 5
             /\ Refill[1] = <<"ready", Banks \ {b}>>
             /\ \A r \in 1..Rows : Refill[r + 1] = <<"row", b, r, n>>
             /\ Refill[End - 2] = <<"chunk", b, n>> /\ Refill[End - 1] = <<"ready", Banks>>
             /\ Proper(Refill, End)
  <1> DEFINE n == next_mono - 1
             b == n % 2
  <1>1. n \in Nat /\ b \in Banks /\ End \in Nat /\ End >= 5 /\ Rows \in Nat \ {0}
    BY QueueAssumption DEF QueueAssumption, TypeOK, Banks, End
  <1>2. /\ Refill[1] = <<"ready", Banks \ {b}>>
        /\ \A r \in 1..Rows : Refill[r + 1] = <<"row", b, r, n>>
        /\ Refill[Rows + 2] = <<"chunk", b, n>> /\ Refill[Rows + 3] = <<"ready", Banks>>
    <2> HIDE DEF b
    <2>1. /\ Refill[1] = <<"ready", Banks \ {n % 2}>>
          /\ \A r \in 1..Rows : Refill[r + 1] = <<"row", n % 2, r, n>>
          /\ Refill[Rows + 2] = <<"chunk", n % 2, n>> /\ Refill[Rows + 3] = <<"ready", Banks>>
      BY <1>1, ChunkIs DEF Refill
    <2> QED BY <2>1 DEF b
  <1>3. End - 2 = Rows + 2 /\ End - 1 = Rows + 3
    BY <1>1 DEF End
  <1> HIDE DEF n, b
  <1>4. ASSUME NEW p \in 1..End - 1
        PROVE  \/ p = 1 /\ Refill[p] = <<"ready", Banks \ {b}>>
               \/ \E r \in 1..Rows : p = r + 1 /\ Refill[p] = <<"row", b, r, n>>
               \/ p = Rows + 2 /\ Refill[p] = <<"chunk", b, n>>
               \/ p = Rows + 3 /\ Refill[p] = <<"ready", Banks>>
    <2>1. p = 1 \/ p - 1 \in 1..Rows \/ p = Rows + 2 \/ p = Rows + 3
      BY <1>1, <1>3
    <2>2. p - 1 \in 1..Rows => p = (p - 1) + 1
      OBVIOUS
    <2> QED BY <1>2, <2>1, <2>2
  <1>5. ASSUME NEW p \in 1..End - 1
        PROVE  ~Plain(Refill[p]) /\ \A q \in 1..End - 1 : Refill[p] = Refill[q] => p = q
    <2>1. Banks \ {b} # Banks
      BY <1>1
    <2>2. Refill[p][1] \in {"ready", "row", "chunk"}
      BY <1>4
    <2>3. ASSUME NEW q \in 1..End - 1, Refill[p] = Refill[q] PROVE p = q
      <3>1. CASE p = 1 /\ Refill[p] = <<"ready", Banks \ {b}>>
        BY <1>4, <2>1, <2>3, <3>1
      <3>2. CASE \E r \in 1..Rows : p = r + 1 /\ Refill[p] = <<"row", b, r, n>>
        BY <1>4, <2>3, <3>2
      <3>3. CASE p = Rows + 2 /\ Refill[p] = <<"chunk", b, n>>
        BY <1>4, <2>3, <3>3
      <3>4. CASE p = Rows + 3 /\ Refill[p] = <<"ready", Banks>>
        BY <1>4, <2>1, <2>3, <3>4
      <3> QED BY <1>4, <3>1, <3>2, <3>3, <3>4
    <2> QED BY <2>2, <2>3 DEF Plain
  <1>6. Proper(Refill, End)
    BY <1>5 DEF Proper
  <1> QED BY <1>1, <1>2, <1>3, <1>6 DEF n, b

LEMMA ChainTypes ==
  ASSUME QueueInv
  PROVE  /\ Issuable \in Seq(Words) /\ pending \in Seq(Words) /\ todo["stream"] \in Seq(Words)
         /\ Proper(Refill, End) /\ End \in Nat /\ End >= 5
  BY RefillIs, ThreadsAre DEF QueueInv, TypeOK, Issuable

LEMMA RefillEmpty ==
  ASSUME QueueInv
  PROVE  /\ 1 \in 1..End /\ End \in 1..End
         /\ \A k \in 1..End : k <= k /\ k <= End /\ 1 <= k /\ Holds(Refill, <<>>, k, k)
         /\ \A k, l \in 1..End : k <= l /\ Holds(Refill, <<>>, k, l) => k = l
  <1>1. 1 \in 1..End /\ End \in 1..End /\ \A k \in 1..End : k \in Nat /\ k <= k /\ k <= End /\ 1 <= k
    BY ChainTypes
  <1> QED BY <1>1, HoldsNothing

LEMMA SameLoaded ==
  ASSUME UNCHANGED <<next_mono, ready, label, rows>>
  PROVE  Refill' = Refill /\ \A k \in 1..End : Loaded(k) => Loaded(k)'
  BY DEF Refill, Loaded, BankWhole, End

\* No words move.
LEMMA SameChain ==
  ASSUME Chain, UNCHANGED <<next_mono, ready, label, rows, link, held, pending, stop>>,
         place'["stream"] = "queue" => place["stream"] = "queue", todo'["stream"] = todo["stream"]
  PROVE  Chain'
  <1>1. PICK k \in 1..End, l \in 1..End, m \in 1..End, p \in 1..End : ChainAt(k, l, m, p)
    BY DEF Chain
  <1>2. Issuable' = Issuable
    BY DEF Issuable
  <1>3. ChainAt(k, l, m, p)'
    BY <1>1, <1>2, SameLoaded DEF ChainAt, End
  <1> QED BY <1>3 DEF Chain, End

LEMMA QueueWordChain ==
  ASSUME ~Reader, QueueInv, Chain, Quiet, NEW t \in Threads, QueueWord(t)
  PROVE  Chain'
  <1>1. PICK k \in 1..End, l \in 1..End, m \in 1..End, p \in 1..End : ChainAt(k, l, m, p)
    BY DEF Chain
  <1>2. /\ place[t] = "queue" /\ todo[t] # <<>> /\ todo[t] \in Seq(Words) /\ Head(todo[t]) \in Words
        /\ pending' = Append(pending, Head(todo[t])) /\ todo'[t] = Tail(todo[t])
    BY EndsOf DEF QueueWord, QueueInv, OwnWords, TypeOK
  <1>3. Refill' = Refill /\ Loaded(k)' /\ Issuable' = Issuable /\ link' = link
    BY <1>1, SameLoaded DEF QueueWord, fpga, ChainAt, Issuable
  <1>4. CASE Plain(Head(todo[t]))
    <2>1. Holds(Refill, Append(pending, Head(todo[t])), m, p)
      BY <1>1, <1>2, <1>4, ChainTypes, HoldsAppend DEF ChainAt
    <2>2. CASE t = "stream"
      <3>1. Holds(Refill, Tail(todo[t]), p, End)
        <4>1. Holds(Refill, todo[t], p, End) /\ p <= End /\ End \in 1..End
          BY <1>1, <1>2, <2>2, RefillEmpty DEF ChainAt
        <4> QED BY <1>2, <1>4, <4>1, ChainTypes, HoldsTail
      <3> QED BY <1>1, <1>2, <1>3, <2>1, <2>2, <3>1 DEF ChainAt, Chain, End
    <2>3. CASE t # "stream"
      <3>1. place'["stream"] = place["stream"] /\ todo'["stream"] = todo["stream"] /\ stop' = stop
        BY <2>3, ThreadsAre DEF QueueWord, Enter, QueueInv, TypeOK
      <3> QED BY <1>1, <1>2, <1>3, <2>1, <3>1 DEF ChainAt, Chain, End
    <2> QED BY <2>2, <2>3
  <1>5. CASE ~Plain(Head(todo[t]))
    <2>1. t = "stream"
      <3>1. Head(todo[t]) \in Items(todo[t])
        BY <1>2, TailItems
      <3> QED BY <1>5, <3>1, ThreadsAre DEF Quiet, AllPlain
    <2>2. p < End /\ Head(todo[t]) = Refill[p] /\ Holds(Refill, Tail(todo[t]), p + 1, End)
      <3>1. Holds(Refill, todo[t], p, End) /\ p <= End /\ End \in 1..End
        BY <1>1, <1>2, <2>1, RefillEmpty DEF ChainAt
      <3> QED BY <1>2, <1>5, <3>1, ChainTypes, HoldsTail
    <2>3. Holds(Refill, Append(pending, Head(todo[t])), m, p + 1)
      BY <1>1, <1>2, <2>2, ChainTypes, HoldsAppend DEF ChainAt
    <2>4. p + 1 \in 1..End /\ m <= p + 1
      BY <1>1, <2>2, ChainTypes DEF ChainAt
    <2>5. ChainAt(k, l, m, p + 1)'
      BY <1>1, <1>2, <1>3, <2>1, <2>2, <2>3, <2>4 DEF ChainAt, End
    <2> QED BY <2>4, <2>5 DEF Chain, End
  <1> QED BY <1>4, <1>5

LEMMA ResetQueueChain ==
  ASSUME ~Reader, QueueInv, Emptied, Chain, NEW t \in Threads, ResetQueue(t)
  PROVE  Chain'
  <1>1. PICK k \in 1..End, l \in 1..End, m \in 1..End, p \in 1..End : ChainAt(k, l, m, p)
    BY DEF Chain
  <1>2. /\ Refill' = Refill /\ Loaded(k)' /\ link' = link /\ stop' = stop /\ todo' = todo
        /\ pending' = <<>>
        /\ place[t] = "reset" /\ place' = [place EXCEPT ![t] = "issue"]
        /\ held' = [u \in Threads |-> IF u \in aliased THEN pending ELSE held[u]]
    BY <1>1, SameLoaded DEF ResetQueue, Enter, fpga, ChainAt
  <1>3. place'["stream"] = "queue" => place["stream"] = "queue"
    BY <1>2, ThreadsAre DEF QueueInv, TypeOK
  <1> DEFINE u == IF stop THEN "caller" ELSE "stream"
  <1>4. u \in Threads /\ Issuable = held[u] /\ Issuable' = held'[u]
    BY <1>2, ThreadsAre DEF Issuable
  <1>5. /\ Holds(Refill, <<>>, m, m) /\ Holds(Refill, <<>>, p, p)
        /\ \A x, y \in 1..End : x <= y /\ Holds(Refill, <<>>, x, y) => x = y
    BY RefillEmpty
  <1>6. CASE u \in aliased
    <2>1. l = m /\ Issuable' = pending
      BY <1>1, <1>2, <1>4, <1>5, <1>6 DEF QueueInv, OwnWords, ChainAt
    <2>2. ChainAt(k, l, p, p)'
      BY <1>1, <1>2, <1>3, <1>5, <2>1, ChainTypes DEF ChainAt, End
    <2> QED BY <2>2 DEF Chain, End
  <1>7. CASE u \notin aliased
    <2>1. Issuable' = Issuable
      BY <1>2, <1>4, <1>7
    <2>2. CASE t = u
      <3>1. pending = <<>> /\ m = p
        BY <1>1, <1>2, <1>4, <1>5, <1>7, <2>2 DEF Emptied, ChainAt
      <3>2. ChainAt(k, l, m, p)'
        BY <1>1, <1>2, <1>3, <2>1, <3>1 DEF ChainAt, End
      <3> QED BY <3>2 DEF Chain, End
    <2>3. CASE t # u
      <3>1. stop /\ t = "stream"
        BY <1>2, <1>4, <2>3, ThreadsAre DEF QueueInv, CallerPlaces
      <3>2. place'["stream"] # "queue" /\ stop'
        BY <1>2, <3>1 DEF QueueInv, TypeOK
      <3>3. ChainAt(k, l, m, m)'
        BY <1>1, <1>2, <1>5, <2>1, <3>2, ChainTypes DEF ChainAt, End
      <3> QED BY <3>3 DEF Chain, End
    <2> QED BY <2>2, <2>3
  <1> QED BY <1>6, <1>7

LEMMA IssueChain ==
  ASSUME ~Reader, session = "jtag", QueueInv, Chain, Quiet, NEW t \in Threads, Issue(t)
  PROVE  Chain'
  <1> DEFINE T == Words \cup Marks
  <1>1. PICK k \in 1..End, l \in 1..End, m \in 1..End, p \in 1..End : ChainAt(k, l, m, p)
    BY DEF Chain
  <1>2. /\ Refill' = Refill /\ Loaded(k)' /\ stop' = stop /\ todo' = todo /\ pending' = pending
        /\ place[t] = "issue" /\ held[t] # <<>> /\ place' = [place EXCEPT ![t] = "wait"]
        /\ held' = [held EXCEPT ![t] = <<>>] /\ link' = link \o Append(held[t], <<"mark", t>>)
    BY <1>1, SameLoaded DEF Issue, Enter, fpga, ChainAt
  <1>3. place'["stream"] = "queue" => place["stream"] = "queue"
    BY <1>2, ThreadsAre DEF QueueInv, TypeOK
  <1>4. held[t] \in Seq(T) /\ link \in Seq(T) /\ <<"mark", t>> \in T /\ Plain(<<"mark", t>>)
    BY DEF QueueInv, TypeOK, Marks, Plain
  <1>5. Append(held[t], <<"mark", t>>) \in Seq(T)
    BY <1>4
  <1> HIDE DEF T
  <1>8. k <= l /\ l <= m /\ m <= p /\ k <= m /\ l <= l /\ m <= m
    BY <1>1, ChainTypes DEF ChainAt
  <1>6. CASE t = IF stop THEN "caller" ELSE "stream"
    <2>1. Issuable = held[t] /\ Issuable' = <<>>
      BY <1>2, <1>6 DEF Issuable, QueueInv, TypeOK
    <2>2. Holds(Refill, Append(held[t], <<"mark", t>>), l, m)
      BY <1>1, <1>4, <2>1, ChainTypes, HoldsAppend DEF ChainAt
    <2>3. Holds(Refill, link', k, m)
      BY <1>1, <1>2, <1>4, <1>5, <2>2, ChainTypes, HoldsJoin DEF ChainAt
    <2>4. Holds(Refill, <<>>, m, m)
      BY RefillEmpty
    <2>5. ChainAt(k, m, m, p)'
      BY <1>1, <1>2, <1>3, <1>8, <2>1, <2>3, <2>4 DEF ChainAt, End
    <2> QED BY <2>5 DEF Chain, End
  <1>7. CASE t # IF stop THEN "caller" ELSE "stream"
    <2>1. stop /\ t = "stream"
      BY <1>2, <1>7, ThreadsAre DEF QueueInv, CallerPlaces
    <2>2. AllPlain(held[t])
      <3>1. ret["stream"] = "ended" /\ place["stream"] \in Waiting
        BY <1>2, <2>1 DEF Issue, MayIssue, Stopped, Waiting
      <3> QED BY <2>1, <3>1 DEF Quiet
    <2>3. Holds(Refill, held[t], l, l)
      BY <1>4, <2>2, ChainTypes, HoldsPlain DEF AllPlain
    <2>4. Holds(Refill, Append(held[t], <<"mark", t>>), l, l)
      BY <1>4, <1>8, <2>3, ChainTypes, HoldsAppend
    <2>5. Holds(Refill, link', k, l)
      <3>1. Holds(Refill, link, k, l)
        BY <1>1 DEF ChainAt
      <3> QED BY <1>2, <1>4, <1>5, <1>8, <2>4, <3>1, ChainTypes, HoldsJoin
    <2>6. Issuable' = Issuable
      BY <1>2, <2>1, ThreadsAre DEF Issuable, QueueInv, TypeOK
    <2>7. ChainAt(k, l, m, p)'
      BY <1>1, <1>2, <1>3, <2>5, <2>6 DEF ChainAt, End
    <2> QED BY <2>7 DEF Chain, End
  <1> QED BY <1>6, <1>7

LEMMA CursorAnsweredChain ==
  ASSUME ~Reader, QueueInv, Chain, Quiet, CursorAnswered
  PROVE  Chain'
  <1>1. PICK k \in 1..End, l \in 1..End, m \in 1..End, p \in 1..End : ChainAt(k, l, m, p)
    BY DEF Chain
  <1>2. /\ UNCHANGED <<ready, label, rows, link, held, pending, stop>>
        /\ place["stream"] = "read" /\ Issuable' = Issuable
    BY DEF CursorAnswered, fpga, Issuable
  <1>3. CASE todo' = todo /\ place'["stream"] # "queue" /\ next_mono' = next_mono
    BY <1>2, <1>3, SameChain
  <1>4. CASE ~Stopped("stream") /\ QueueAll("stream", ChunkWords(next_mono), "top") /\ next_mono' = next_mono + 1
    <2>1. /\ ~stop /\ link = <<>> /\ pending = <<>> /\ Issuable = <<>> /\ todo["stream"] = <<>>
      BY <1>2, <1>4, ThreadsAre DEF Stopped, QueueInv, StreamPlaces, CallerPlaces, OwnWords,
         Quiet, Flushed, Flushing, Issuable
    <2>2. k = End
      BY <1>1, <2>1, RefillEmpty DEF ChainAt
    <2>3. next_mono \in Nat /\ next_mono \in 2..LastChunk + 1
      BY QueueAssumption DEF QueueInv, TypeOK, QueueAssumption
    <2>4. /\ next_mono' - 1 = next_mono /\ next_mono % 2 = 1 - ((next_mono - 1) % 2)
          /\ 1 - (next_mono % 2) = (next_mono - 1) % 2
      BY <1>4, <2>3
    <2>5. Loaded(1)'
      BY <1>1, <1>2, <2>2, <2>4 DEF Loaded, BankWhole, ChainAt, End
    <2>6. Refill' = ChunkWords(next_mono) /\ todo'["stream"] = Refill' /\ Len(Refill') = End - 1
      <3>1. Refill' = ChunkWords(next_mono) /\ todo'["stream"] = Refill'
        BY <1>4, <2>4, ThreadsAre DEF Refill, QueueAll, QueueInv, TypeOK
      <3>2. Len(ChunkWords(next_mono)) = Rows + 3 /\ Rows \in Nat
        BY <2>3, ChunkIs, QueueAssumption DEF QueueAssumption
      <3> QED BY <3>1, <3>2 DEF End
    <2>7. Proper(Refill', End)
      <3>1. QueueInv'
        BY CursorAnsweredKeeps
      <3>2. QueueInv' => Proper(Refill, End)'
        BY ChainTypes, PTL
      <3> QED BY <3>1, <3>2 DEF Proper, End
    <2>8. Holds(Refill', Refill', 1, End)
      BY <2>6, <2>7, ChainTypes DEF Holds, Spells, Proper
    <2>9. Holds(Refill', <<>>, 1, 1)
      BY HoldsNothing
    <2>10. ChainAt(1, 1, 1, 1)'
      BY <1>2, <2>1, <2>5, <2>6, <2>8, <2>9 DEF ChainAt, End
    <2>11. 1 \in 1..End
      BY RefillEmpty
    <2> QED BY <2>10, <2>11 DEF Chain, End
  <1>5. CASE ~Stopped("stream") /\ QueueAll("stream", SafeWords, "ended") /\ next_mono' = next_mono
    <2>1. ~stop /\ todo["stream"] = <<>> /\ todo'["stream"] = SafeWords
      BY <1>2, <1>5, ThreadsAre DEF Stopped, QueueAll, QueueInv, TypeOK, OwnWords, StreamPlaces
    <2>2. p = End
      BY <1>1, <2>1, RefillEmpty DEF ChainAt
    <2>3. Holds(Refill, SafeWords, End, End)
      <3>1. \A w \in Items(SafeWords) : Plain(w)
        BY SafeAre DEF Items, Plain
      <3> QED BY <3>1, SafeAre, ChainTypes, HoldsPlain
    <2>4. Refill' = Refill /\ Loaded(k)'
      BY <1>1, <1>2, <1>5, SameLoaded DEF ChainAt
    <2>5. ChainAt(k, l, m, p)'
      BY <1>1, <1>2, <2>1, <2>2, <2>3, <2>4 DEF ChainAt, End
    <2> QED BY <2>5 DEF Chain, End
  <1> QED BY <1>3, <1>4, <1>5, ThreadsAre DEF CursorAnswered, Enter, QueueInv, TypeOK

LEMMA CallSafeStateChain ==
  ASSUME ~Reader, QueueInv, Emptied, Chain, CallSafeState
  PROVE  Chain'
  <1>1. PICK k \in 1..End, l \in 1..End, m \in 1..End, p \in 1..End : ChainAt(k, l, m, p)
    BY DEF Chain
  <1>2. /\ UNCHANGED <<ready, label, rows, link, held, pending, next_mono>> /\ stop' /\ ~stop
        /\ place'["stream"] = place["stream"] /\ todo'["stream"] = todo["stream"]
    BY ThreadsAre DEF CallSafeState, QueueAll, Call, Enter, QueueInv, TypeOK, CallerPlaces, fpga
  <1>3. Refill' = Refill /\ Loaded(k)'
    BY <1>1, <1>2, SameLoaded DEF ChainAt
  <1>4. Issuable' = <<>> /\ Issuable = held["stream"]
    BY <1>2, ThreadsAre DEF Issuable, QueueInv, OwnWords, CallerPlaces
  <1>5. Holds(Refill, <<>>, l, l) /\ \A x, y \in 1..End : x <= y /\ Holds(Refill, <<>>, x, y) => x = y
    BY RefillEmpty
  <1>6. CASE held["stream"] = <<>>
    <2>1. l = m
      BY <1>1, <1>4, <1>5, <1>6 DEF ChainAt
    <2>2. ChainAt(k, l, l, p)'
      BY <1>1, <1>2, <1>3, <1>4, <1>5, <2>1, ChainTypes DEF ChainAt, End
    <2> QED BY <2>2 DEF Chain, End
  <1>7. CASE held["stream"] # <<>>
    <2>1. place["stream"] = "issue" /\ pending = <<>>
      BY <1>2, <1>7, ThreadsAre DEF QueueInv, OwnWords, Emptied, Flushed, Flushing, CallerPlaces
    <2>2. ChainAt(k, l, l, l)'
      BY <1>1, <1>2, <1>3, <1>4, <1>5, <2>1, ChainTypes DEF ChainAt, End
    <2> QED BY <2>2 DEF Chain, End
  <1> QED BY <1>6, <1>7

LEMMA ApplyChain ==
  ASSUME ~Reader, QueueInv, Chain, Apply
  PROVE  Chain'
  <1> DEFINE w == Head(link)
             T == Words \cup Marks
  <1>1. PICK k \in 1..End, l \in 1..End, m \in 1..End, p \in 1..End : ChainAt(k, l, m, p)
    BY DEF Chain
  <1>2. /\ UNCHANGED <<next_mono, stop, place, todo, held, pending>> /\ link # <<>> /\ link' = Tail(link)
        /\ Issuable' = Issuable /\ Refill' = Refill
    BY DEF Apply, threads, Issuable, Refill
  <1>3. /\ ready' = IF w[1] = "ready" THEN w[2] ELSE ready
        /\ label' = IF w[1] = "chunk" THEN [label EXCEPT ![w[2]] = w[3]] ELSE label
        /\ rows' = IF w[1] = "row" THEN [rows EXCEPT ![w[2]][w[3]] = w[4]] ELSE rows
    BY DEF Apply
  <1>4. link \in Seq(T)
    BY DEF QueueInv, TypeOK
  <1> HIDE DEF T, w
  <1>5. /\ Plain(w) => Holds(Refill, Tail(link), k, l)
        /\ ~Plain(w) => k < l /\ w = Refill[k] /\ Holds(Refill, Tail(link), k + 1, l)
    BY <1>1, <1>2, <1>4, ChainTypes, HoldsTail DEF ChainAt, w
  <1>6. CASE Plain(w)
    <2>1. Loaded(k)'
      BY <1>1, <1>2, <1>3, <1>6, SameLoaded DEF Plain, ChainAt
    <2>2. ChainAt(k, l, m, p)'
      BY <1>1, <1>2, <1>5, <1>6, <2>1 DEF ChainAt, End
    <2> QED BY <2>2 DEF Chain, End
  <1>7. CASE ~Plain(w)
    <2>1. k + 1 \in 1..End /\ k < End /\ k + 1 <= l
      BY <1>1, <1>5, <1>7, ChainTypes DEF ChainAt
    <2>10. PICK n : n = next_mono - 1
      OBVIOUS
    <2>11. PICK b : b = n % 2
      OBVIOUS
    <2>2. /\ n \in Nat /\ b \in Banks /\ End \in Nat /\ End >= 5
          /\ Refill[1] = <<"ready", Banks \ {b}>>
          /\ \A r \in 1..Rows : Refill[r + 1] = <<"row", b, r, n>>
          /\ Refill[End - 2] = <<"chunk", b, n>> /\ Refill[End - 1] = <<"ready", Banks>>
      BY <2>10, <2>11, RefillIs DEF QueueInv
    <2>3. 1 - b \in Banks /\ 1 - b # b /\ b \in Banks /\ Rows \in Nat \ {0} /\ End = Rows + 4
      BY <2>2, QueueAssumption DEF Banks, QueueAssumption, End
    <2>4. label \in [Banks -> 0..LastChunk] /\ rows \in [Banks -> [1..Rows -> 0..LastChunk]]
      BY DEF QueueInv, TypeOK
    <2>5. /\ BankWhole(1 - b)
          /\ k \in {1, End} => BankWhole(b)
          /\ 1 < k /\ k < End =>
               /\ b \notin ready /\ \A r \in 1..Rows : r <= k - 2 => rows[b][r] = n
               /\ k = End - 1 => label[b] = n
      BY <1>1, <2>10, <2>11 DEF ChainAt, Loaded
    <2>6. /\ BankWhole(1 - b)'
          /\ k + 1 \in {1, End} => BankWhole(b)'
          /\ 1 < k + 1 /\ k + 1 < End =>
               /\ b \notin ready' /\ \A r \in 1..Rows : r <= k - 1 => rows'[b][r] = n
               /\ k + 1 = End - 1 => label'[b] = n
      <3>1. CASE k = 1
        <4>1. w = <<"ready", Banks \ {b}>>
          BY <1>5, <1>7, <2>2, <3>1
        <4>2. ready' = Banks \ {b} /\ label' = label /\ rows' = rows
          BY <1>3, <4>1
        <4> QED BY <2>2, <2>3, <2>5, <3>1, <4>2 DEF BankWhole
      <3>2. CASE k \in 2..Rows + 1
        <4>1. k - 1 \in 1..Rows /\ k = (k - 1) + 1
          BY <2>3, <3>2
        <4>2. w = <<"row", b, k - 1, n>>
          BY <1>5, <1>7, <2>2, <4>1
        <4>3. ready' = ready /\ label' = label /\ rows' = [rows EXCEPT ![b][k - 1] = n]
          BY <1>3, <4>2
        <4>4. /\ rows'[1 - b] = rows[1 - b] /\ rows'[b][k - 1] = n
              /\ \A r \in 1..Rows : r # k - 1 => rows'[b][r] = rows[b][r]
          BY <2>3, <2>4, <4>1, <4>3
        <4> QED BY <2>3, <2>5, <3>2, <4>1, <4>3, <4>4 DEF BankWhole
      <3>3. CASE k = Rows + 2
        <4>1. w = <<"chunk", b, n>>
          <5>1. k = End - 2
            BY <2>3, <3>3
          <5> QED BY <1>5, <1>7, <2>2, <5>1
        <4>2. ready' = ready /\ label' = [label EXCEPT ![b] = n] /\ rows' = rows
          BY <1>3, <4>1
        <4> QED BY <2>3, <2>4, <2>5, <3>3, <4>2 DEF BankWhole
      <3>4. CASE k = Rows + 3
        <4>1. w = <<"ready", Banks>>
          <5>1. k = End - 1
            BY <2>3, <3>4
          <5> QED BY <1>5, <1>7, <2>2, <5>1
        <4>2. label' = label /\ rows' = rows
          BY <1>3, <4>1
        <4> QED BY <2>3, <2>5, <3>4, <4>2 DEF BankWhole
      <3> QED BY <2>1, <2>3, <3>1, <3>2, <3>3, <3>4
    <2>7. (k + 1) - 2 = k - 1
      BY <2>1
    <2>8. Loaded(k + 1)'
      BY <1>2, <2>6, <2>7, <2>10, <2>11 DEF Loaded, End
    <2>9. ChainAt(k + 1, l, m, p)'
      BY <1>1, <1>2, <1>5, <1>7, <2>1, <2>8 DEF ChainAt, End
    <2> QED BY <2>1, <2>9 DEF Chain, End
  <1> QED BY <1>6, <1>7

LEMMA ChainKept ==
  ASSUME ~Reader, session = "jtag", QueueInv, Emptied, Chain, Quiet, [QueueNext]_queueVars
  PROVE  Chain'
  <1>1. ASSUME NEW t \in Threads, Exchange(t) PROVE Chain'
    <2>1. CASE AbortBeforeIssue(t)
      <3>1. t = "stream" /\ stop
        BY <2>1 DEF AbortBeforeIssue, MayIssue, Stopped
      <3>2. /\ UNCHANGED <<next_mono, ready, label, rows, link, pending, stop>> /\ todo' = todo
            /\ place'["stream"] # "queue" /\ held'["caller"] = held["caller"]
        BY <2>1, <3>1, ThreadsAre DEF AbortBeforeIssue, Enter, fpga, QueueInv, TypeOK
      <3>3. Issuable' = Issuable
        BY <3>1, <3>2 DEF Issuable
      <3>4. PICK k \in 1..End, l \in 1..End, m \in 1..End, p \in 1..End : ChainAt(k, l, m, p)
        BY DEF Chain
      <3>5. ChainAt(k, l, m, p)'
        BY <3>1, <3>2, <3>3, <3>4, SameLoaded DEF ChainAt, End
      <3> QED BY <3>5 DEF Chain, End
    <2>2. CASE LookAtQueue(t) \/ TakeQueue(t) \/ NothingToIssue(t) \/ Replied(t) \/ AbortWaiting(t)
      <3>1. /\ UNCHANGED <<next_mono, ready, label, rows, link, held, pending, stop, todo>>
            /\ place'["stream"] = "queue" => place["stream"] = "queue"
        BY <2>2, ThreadsAre DEF LookAtQueue, TakeQueue, NothingToIssue, Replied,
           AbortWaiting, Enter, fpga,
           QueueInv, TypeOK, OwnWords
      <3> QED BY <3>1, SameChain
    <2> QED BY <1>1, <2>1, <2>2, QueueWordChain, ResetQueueChain, IssueChain DEF Exchange
  <1>2. CASE PollCursor
    <2>1. /\ UNCHANGED <<next_mono, ready, label, rows, link, held, pending, stop, todo>>
          /\ place'["stream"] # "queue"
      BY <1>2, ThreadsAre DEF PollCursor, Call, Enter, fpga, QueueInv, TypeOK
    <2> QED BY <2>1, SameChain
  <1>3. CASE Join
    <2>1. /\ UNCHANGED <<next_mono, ready, label, rows, link, held, pending, stop>>
          /\ place'["stream"] = place["stream"] /\ todo'["stream"] = todo["stream"]
      BY <1>3, ThreadsAre DEF Join, QueueAll, Call, Enter, fpga, QueueInv, TypeOK
    <2> QED BY <2>1, SameChain
  <1>4. CASE UNCHANGED queueVars
    <2>1. UNCHANGED <<next_mono, ready, label, rows, link, held, pending, stop, todo, place>>
      BY <1>4 DEF queueVars, threads, fpga
    <2> QED BY <2>1, SameChain
  <1> QED BY <1>1, <1>2, <1>3, <1>4, CursorAnsweredChain, CallSafeStateChain, ApplyChain
             DEF QueueNext, AllDone

LEMMA SafePlain == AllPlain(SafeWords) /\ AllPlain(<<>>)
  BY SafeAre DEF AllPlain, Items, Plain

LEMMA QuietKept ==
  ASSUME ~Reader, QueueInv, Emptied, Quiet, [QueueNext]_queueVars
  PROVE  Quiet'
  <1> DEFINE T == Words \cup Marks
             Mark == <<"mark", "stream">>
             OnLine == ~stop /\ link # <<>> => place["stream"] = "wait" /\ link[Len(link)] = Mark
             Leaves == place["stream"] \in Waiting /\ ret["stream"] = "ended" =>
                         AllPlain(todo["stream"]) /\ AllPlain(held["stream"]) /\ AllPlain(pending)
  <1>1. ASSUME NEW t \in Threads, Exchange(t) PROVE Quiet'
    <2>1. /\ UNCHANGED <<stop, ret>> /\ place[t] \in Waiting
          /\ \A u \in Threads : u # t => place'[u] = place[u]
      BY <1>1 DEF Exchange, QueueWord, LookAtQueue, TakeQueue, ResetQueue, Issue, NothingToIssue,
         AbortBeforeIssue, Replied, AbortWaiting, Enter, QueueInv, TypeOK, Waiting, Flushing
    <2>2. ~stop => t = "stream"
      BY <2>1, ThreadsAre DEF QueueInv, CallerPlaces, Waiting, Flushing
    <2>3. OnLine'
      <3> SUFFICES ASSUME ~stop, link' # <<>> PROVE place'["stream"] = "wait" /\ link'[Len(link')] = Mark
        BY <2>1
      <3>1. t = "stream"
        BY <2>2
      <3>2. CASE Issue(t)
        <4>1. link = <<>>
          BY <3>1, <3>2 DEF Issue, Quiet
        <4>2. held[t] \in Seq(T) /\ Mark \in T
          BY ThreadsAre DEF QueueInv, TypeOK, Marks
        <4>3. link' = <<>> \o Append(held[t], Mark) /\ place'["stream"] = "wait"
          BY <3>1, <3>2, <4>1 DEF Issue, Enter, QueueInv, TypeOK
        <4> HIDE DEF T, Mark
        <4>4. link' = Append(held[t], Mark)
          BY <4>2, <4>3
        <4> QED BY <4>2, <4>3, <4>4
      <3>3. CASE Replied(t)
        <4>1. link' = link /\ MarkerSeen(t)
          BY <3>3 DEF Replied
        <4>2. link # <<>> /\ Len(link) \in 1..Len(link)
          BY <4>1, EndsOf DEF QueueInv, TypeOK
        <4> QED BY <3>1, <4>1, <4>2 DEF Quiet, MarkerSeen
      <3>4. CASE AbortWaiting(t)
        BY <3>4 DEF AbortWaiting, Stopped
      <3>5. CASE ~(Issue(t) \/ Replied(t) \/ AbortWaiting(t))
        <4>1. link' = link /\ place["stream"] # "wait"
          BY <1>1, <3>1, <3>5 DEF Exchange, QueueWord, LookAtQueue, TakeQueue, ResetQueue,
             NothingToIssue,
             AbortBeforeIssue
        <4> QED BY <4>1 DEF Quiet
      <3> QED BY <3>2, <3>3, <3>4, <3>5
    <2>4. CASE QueueWord(t)
      <3>1. /\ todo[t] \in Seq(Words) /\ todo[t] # <<>> /\ pending \in Seq(Words)
            /\ pending' = Append(pending, Head(todo[t])) /\ todo' = [todo EXCEPT ![t] = Tail(todo[t])]
            /\ held' = held /\ Head(todo[t]) \in Words
        BY <2>4, EndsOf DEF QueueWord, QueueInv, TypeOK, OwnWords
      <3>2. /\ Items(pending') = Items(pending) \cup {Head(todo[t])}
            /\ Items(todo[t]) = Items(Tail(todo[t])) \cup {Head(todo[t])}
        BY <3>1, AppendItems, TailItems
      <3>3. AllPlain(todo[t]) => Plain(Head(todo[t])) /\ AllPlain(Tail(todo[t]))
        BY <3>2 DEF AllPlain
      <3>4. AllPlain(pending) /\ Plain(Head(todo[t])) => AllPlain(pending')
        BY <3>2 DEF AllPlain
      <3>5. AllPlain(todo'["caller"])
        BY <3>1, <3>3, ThreadsAre DEF Quiet, QueueInv, TypeOK
      <3>6. Leaves'
        <4> SUFFICES ASSUME place'["stream"] \in Waiting, ret["stream"] = "ended" PROVE Leaves'
          BY <2>1
        <4>1. place["stream"] \in Waiting
          BY <2>1, ThreadsAre
        <4>2. /\ AllPlain(todo["stream"]) /\ AllPlain(held["stream"]) /\ AllPlain(pending)
              /\ AllPlain(todo["caller"])
          BY <4>1 DEF Quiet
        <4>3. AllPlain(todo[t])
          BY <4>2, ThreadsAre
        <4> QED BY <3>1, <3>3, <3>4, <4>2, <4>3, ThreadsAre DEF QueueInv, TypeOK
      <3> QED BY <2>3, <3>5, <3>6 DEF Quiet
    <2>5. CASE ~QueueWord(t)
      <3>1. todo' = todo
        BY <1>1, <2>5 DEF Exchange, LookAtQueue, TakeQueue, ResetQueue, Issue, NothingToIssue,
           AbortBeforeIssue, Replied, AbortWaiting
      <3>2. /\ pending' \in {pending, <<>>}
            /\ held'["stream"] \in {held["stream"], pending, <<>>}
        BY <1>1, <2>5, ThreadsAre DEF Exchange, LookAtQueue, TakeQueue, ResetQueue, Issue,
           NothingToIssue,
           AbortBeforeIssue, Replied, AbortWaiting, QueueInv, TypeOK
      <3>3. Leaves'
        <4> SUFFICES ASSUME place'["stream"] \in Waiting, ret["stream"] = "ended" PROVE Leaves'
          BY <2>1
        <4>1. place["stream"] \in Waiting
          BY <2>1, ThreadsAre
        <4>2. AllPlain(todo["stream"]) /\ AllPlain(held["stream"]) /\ AllPlain(pending)
          BY <4>1 DEF Quiet
        <4> QED BY <3>1, <3>2, <4>2, SafePlain
      <3>4. AllPlain(todo'["caller"])
        BY <3>1 DEF Quiet
      <3> QED BY <2>3, <3>3, <3>4 DEF Quiet
    <2> QED BY <2>4, <2>5
  <1>2. CASE PollCursor
    <2>1. /\ UNCHANGED <<stop, link, todo, held, pending>> /\ place["stream"] = "top"
          /\ \/ place'["stream"] = "ended"
             \/ place'["stream"] = "look" /\ ret'["stream"] = "read"
      BY <1>2, ThreadsAre DEF PollCursor, Call, Enter, QueueInv, TypeOK
    <2> QED BY <2>1 DEF Quiet, Waiting, Flushing
  <1>3. CASE CursorAnswered
    <2>1. /\ UNCHANGED <<stop, link, held, pending>> /\ place["stream"] = "read"
          /\ todo'["caller"] = todo["caller"]
      BY <1>3, ThreadsAre DEF CursorAnswered, QueueAll, QueueInv, TypeOK
    <2>2. CASE place'["stream"] \in Waiting /\ ret'["stream"] = "ended"
      <3>1. todo'["stream"] = SafeWords /\ ~stop
        BY <1>3, <2>2, ThreadsAre DEF CursorAnswered, Stopped, QueueAll, Call, Enter,
           Waiting, Flushing, QueueInv, TypeOK, StreamPlaces
      <3>2. pending = <<>> /\ held["stream"] = <<>>
        BY <2>1, <3>1, ThreadsAre DEF QueueInv, OwnWords, Flushed, Flushing, CallerPlaces
      <3> QED BY <2>1, <3>1, <3>2, SafePlain DEF Quiet
    <2>3. CASE ~(place'["stream"] \in Waiting /\ ret'["stream"] = "ended")
      BY <2>1, <2>3 DEF Quiet
    <2> QED BY <2>2, <2>3
  <1>4. CASE CallSafeState \/ Join
    <2>1. /\ UNCHANGED <<link, held, pending>> /\ stop' /\ todo'["stream"] = todo["stream"]
          /\ place'["stream"] = place["stream"] /\ ret'["stream"] = ret["stream"]
          /\ todo'["caller"] \in {todo["caller"], SafeWords}
      BY <1>4, ThreadsAre DEF CallSafeState, Join, QueueAll, Call, Enter, QueueInv, TypeOK,
         CallerPlaces
    <2> QED BY <2>1, SafePlain DEF Quiet
  <1>5. CASE Apply
    <2>1. UNCHANGED <<stop, todo, held, pending, place, ret>> /\ link # <<>> /\ link' = Tail(link)
      BY <1>5 DEF Apply, threads
    <2>2. link' # <<>> => link'[Len(link')] = link[Len(link)]
      <3>1. /\ Len(link) \in Nat \ {0} /\ Len(link') = Len(link) - 1
            /\ \A i \in 1..Len(link) - 1 : link'[i] = link[i + 1]
            /\ link' = <<>> <=> Len(link) = 1
        BY <2>1, EndsOf DEF QueueInv, TypeOK
      <3> QED BY <3>1
    <2> QED BY <2>1, <2>2 DEF Quiet
  <1>6. CASE UNCHANGED queueVars
    BY <1>6 DEF queueVars, threads, Quiet
  <1> QED BY <1>1, <1>2, <1>3, <1>4, <1>5, <1>6 DEF QueueNext, AllDone

(* A bank whose BANK_READY bit is set has every row of the chunk its label *)
(* names, at every word of a refill and wherever the stop event cuts it    *)
(* (JTAG, which looks at the event before it writes a transaction).        *)
THEOREM ArmedIsWhole == ~Reader => (QueueSpec => []ArmedBankComplete)
  <1> SUFFICES ASSUME ~Reader PROVE QueueSpec => []ArmedBankComplete
    OBVIOUS
  <1> DEFINE Streamed == session = "jtag" => Chain /\ Quiet
  <1>1. QueueInit => Emptied /\ Streamed
    <2> SUFFICES ASSUME QueueInit PROVE Emptied /\ Streamed
      OBVIOUS
    <2>1. Emptied
      BY DEF QueueInit, Begins, Emptied
    <2>2. Quiet
      BY ThreadsAre, SafePlain DEF QueueInit, Begins, Quiet, Waiting, Flushing
    <2>3. link = <<>> /\ Issuable = <<>> /\ pending = <<>> /\ todo["stream"] = <<>>
      BY ThreadsAre DEF QueueInit, Issuable
    <2>4. Loaded(End)
      <3>1. (next_mono - 1) % 2 \in Banks /\ 1 - ((next_mono - 1) % 2) \in Banks
        BY DEF QueueInit, Banks
      <3>2. \A b \in Banks : BankWhole(b)
        BY DEF QueueInit, BankWhole
      <3> QED BY <3>1, <3>2, QueueAssumption DEF Loaded, End, QueueAssumption
    <2>5. QueueInv
      BY QueueBegins
    <2>6. ChainAt(End, End, End, End)
      BY <2>3, <2>4, <2>5, RefillEmpty DEF ChainAt
    <2> QED BY <2>1, <2>2, <2>5, <2>6, RefillEmpty DEF Chain
  <1>2. QueueInv /\ Emptied /\ Streamed /\ [QueueNext]_queueVars => (Emptied /\ Streamed)'
    <2> SUFFICES ASSUME QueueInv, Emptied, Streamed, [QueueNext]_queueVars PROVE Emptied' /\ Streamed'
      OBVIOUS
    <2>1. session' = session
      BY DEF QueueNext, queueVars, Exchange, QueueWord, LookAtQueue, TakeQueue, ResetQueue,
         Issue, NothingToIssue,
         AbortBeforeIssue, Replied, AbortWaiting, PollCursor, CursorAnswered, CallSafeState,
         Join, Apply, AllDone
    <2>2. session = "jtag" => Chain' /\ Quiet'
      BY ChainKept, QuietKept
    <2> QED BY <2>1, <2>2, EmptiedKept
  <1>3. QueueInv /\ Streamed => ArmedBankComplete
    <2> SUFFICES ASSUME QueueInv, session = "jtag", Chain, NEW b \in ready PROVE BankWhole(b)
      BY DEF ArmedBankComplete, BankWhole
    <2>1. PICK k \in 1..End : Loaded(k)
      BY DEF Chain, ChainAt
    <2>2. b \in Banks /\ (next_mono - 1) % 2 \in Banks
      BY RefillIs DEF QueueInv, TypeOK
    <2>3. b = (next_mono - 1) % 2 \/ b = 1 - ((next_mono - 1) % 2)
      BY <2>2 DEF Banks
    <2>4. k \in {1, End} \/ (1 < k /\ k < End)
      BY ChainTypes
    <2> QED BY <2>1, <2>3, <2>4 DEF Loaded
  <1> HIDE DEF Streamed
  <1> QED BY <1>1, <1>2, <1>3, QueueBegins, QueueStep, PTL DEF QueueSpec
=============================================================================
