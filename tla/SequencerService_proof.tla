------------------------ MODULE SequencerService_proof ------------------------
(***************************************************************************)
(* Proofs about SequencerService, for every number of clients and          *)
(* programs: what starts is what is prepared, a shot plays its own, a stop *)
(* that was the last word leaves the device halted, and what a wait that   *)
(* is answered done may be answered for.                                   *)
(***************************************************************************)
EXTENDS SequencerService, Integers, TLAPS

-----------------------------------------------------------------------------
(* The inductive invariant.                                                *)

Fires1 == {"fire", "fireThis"}

\* What clients have still to call.
Plans ==
  {<<>>, <<"safe">>, <<"safe", "prepare", "fire">>, <<"prepare", "fire">>, <<"fire">>,
   <<"safe", "prepare", "fire", "wait">>, <<"prepare", "fire", "wait">>, <<"fire", "wait">>,
   <<"wait">>, <<"prepare", "fireThis", "wait">>, <<"fireThis", "wait">>}

\* The list of a client, which waits only after its fire, and its place in the first call.
Lists(c) ==
  /\ calls[c] \in Plans
  /\ calls[c] # <<>> /\ Head(calls[c]) = "fireThis" => program[c] \in Programs
  /\ calls[c] # <<>> /\ Head(calls[c]) = "wait" => fate[c] # "none"

Inside(c) ==
  /\ pc[c] # "idle" => calls[c] # <<>>
  /\ pc[c] \in {"reject", "record"} => Head(calls[c]) = "prepare"
  /\ pc[c] \in {"start", "fired"} => Head(calls[c]) \in Fires1
  /\ pc[c] \in {"waiting", "running", "done", "timeout"} => Head(calls[c]) = "wait"
  /\ pc[c] = "safing" => Head(calls[c]) = "safe"
  /\ pc[c] \in Critical => Head(calls[c]) \in {"prepare"} \cup Fires1 /\ program[c] \in Programs
  /\ pc[c] = "fired" => fate[c] # "none"

\* Whoever holds the lock: fire works on the prepared program, an upload on its own.
Holder(c) ==
  /\ pc[c] \in Critical /\ Head(calls[c]) \in Fires1 => program[c] = prepared
  /\ pc[c] \in {"halt", "write", "load", "poll"} => resident = program[c] /\ ~finished /\ ~streaming
  /\ pc[c] \in {"load", "poll"} => image = program[c]
  /\ pc[c] \in {"write", "load"} => phase = "reset"
  /\ pc[c] = "poll" => phase \in {"reset", "loading", "loaded"}
  /\ pc[c] = "start" => resident = prepared

\* A device that is not halted holds what the session takes it to hold.
Resident ==
  phase # "reset" /\ ~unclear /\ (\A c \in Clients : pc[c] # "halt") => image = resident

\* After a stop the device is halted, or a SAFE is under way, or a prepare that is.
Stopping ==
  state = "safe" =>
    /\ prepared = NoProgram
    /\ \/ unclear
       \/ phase = "reset"
       \/ \E c \in Clients : pc[c] = "safing"
       \/ phase \in {"loading", "loaded"} /\ \E c \in Clients : pc[c] \in {"poll", "record"}

\* The session's latch is up only over a halted device, and its thread counts sweeps
\* only of a program that is to be halted after K.
Latched == (finished => phase = "reset") /\ (streaming => resident \in Repeated)

\* What the device and the session say of the run a client's fire began.
Run(c) ==
  /\ fate[c] \in {"plays", "sweeps", "repeats"} => phase = "running" /\ image = resident
  /\ fate[c] = "plays" => resident \notin Streams
  /\ fate[c] = "sweeps" => resident \in Repeated
  /\ fate[c] = "repeats" => resident \in Forever
  /\ fate[c] = "stopped" => phase \in {"reset", "loading", "loaded"} /\ ~finished

Over(c) == fate[c] \in {"ended", "other"}

\* A client whose wait saw RUNNING, and one whose wait is to answer done.
Told(c) ==
  /\ pc[c] = "running" =>
       /\ saw[c] \in {"plays", "sweeps", "repeats", "ended", "other"}
       /\ saw[c] = "plays" => Over(c) \/ (fate[c] \in {"plays", "stopped"} /\ resident \notin Streams)
  /\ pc[c] = "done" => saw[c] \in {"ended", "sweeps", "repeats", "other"} \/ Over(c)

Inv ==
  /\ TypeOK
  /\ \A c \in Clients : Lists(c) /\ Inside(c) /\ Holder(c) /\ Run(c) /\ Told(c)
  /\ Resident /\ Stopping /\ Latched

-----------------------------------------------------------------------------
(* Lists of calls.                                                         *)

\* Each list leads to another: a wait comes last and after a fire, a fire of a
\* program after its prepare.
Leads(s) ==
  /\ s \in Seq(Calls) /\ Head(s) \in Calls /\ Tail(s) \in Plans
  /\ Head(s) = "wait" => Tail(s) = <<>>
  /\ Tail(s) # <<>> /\ Head(Tail(s)) = "wait" => Head(s) \in Fires1
  /\ Tail(s) # <<>> /\ Head(Tail(s)) = "fireThis" => Head(s) = "prepare"

LEMMA PlanFacts == \A s \in Plans : s # <<>> => Leads(s)
  <1>1. Leads(<<"safe">>)
    <2>1. Tail(<<"safe">>) = <<>>
      OBVIOUS
    <2>2. <<"safe">> \in Seq(Calls)
      BY DEF Calls
    <2>3. Head(<<"safe">>) = "safe"
      OBVIOUS
    <2> QED BY <2>1, <2>2, <2>3 DEF Leads, Plans, Calls, Fires1
  <1>2. Leads(<<"safe", "prepare", "fire">>)
    <2>1. Tail(<<"safe", "prepare", "fire">>) = <<"prepare", "fire">>
      OBVIOUS
    <2>2. <<"safe", "prepare", "fire">> \in Seq(Calls)
      BY DEF Calls
    <2>3. Head(<<"safe", "prepare", "fire">>) = "safe"
      OBVIOUS
    <2> QED BY <2>1, <2>2, <2>3 DEF Leads, Plans, Calls, Fires1
  <1>3. Leads(<<"prepare", "fire">>)
    <2>1. Tail(<<"prepare", "fire">>) = <<"fire">>
      OBVIOUS
    <2>2. <<"prepare", "fire">> \in Seq(Calls)
      BY DEF Calls
    <2>3. Head(<<"prepare", "fire">>) = "prepare"
      OBVIOUS
    <2> QED BY <2>1, <2>2, <2>3 DEF Leads, Plans, Calls, Fires1
  <1>4. Leads(<<"fire">>)
    <2>1. Tail(<<"fire">>) = <<>>
      OBVIOUS
    <2>2. <<"fire">> \in Seq(Calls)
      BY DEF Calls
    <2>3. Head(<<"fire">>) = "fire"
      OBVIOUS
    <2> QED BY <2>1, <2>2, <2>3 DEF Leads, Plans, Calls, Fires1
  <1>5. Leads(<<"safe", "prepare", "fire", "wait">>)
    <2>1. Tail(<<"safe", "prepare", "fire", "wait">>) = <<"prepare", "fire", "wait">>
      OBVIOUS
    <2>2. <<"safe", "prepare", "fire", "wait">> \in Seq(Calls)
      BY DEF Calls
    <2>3. Head(<<"safe", "prepare", "fire", "wait">>) = "safe"
      OBVIOUS
    <2> QED BY <2>1, <2>2, <2>3 DEF Leads, Plans, Calls, Fires1
  <1>6. Leads(<<"prepare", "fire", "wait">>)
    <2>1. Tail(<<"prepare", "fire", "wait">>) = <<"fire", "wait">>
      OBVIOUS
    <2>2. <<"prepare", "fire", "wait">> \in Seq(Calls)
      BY DEF Calls
    <2>3. Head(<<"prepare", "fire", "wait">>) = "prepare"
      OBVIOUS
    <2> QED BY <2>1, <2>2, <2>3 DEF Leads, Plans, Calls, Fires1
  <1>7. Leads(<<"fire", "wait">>)
    <2>1. Tail(<<"fire", "wait">>) = <<"wait">>
      OBVIOUS
    <2>2. <<"fire", "wait">> \in Seq(Calls)
      BY DEF Calls
    <2>3. Head(<<"fire", "wait">>) = "fire"
      OBVIOUS
    <2> QED BY <2>1, <2>2, <2>3 DEF Leads, Plans, Calls, Fires1
  <1>8. Leads(<<"wait">>)
    <2>1. Tail(<<"wait">>) = <<>>
      OBVIOUS
    <2>2. <<"wait">> \in Seq(Calls)
      BY DEF Calls
    <2>3. Head(<<"wait">>) = "wait"
      OBVIOUS
    <2> QED BY <2>1, <2>2, <2>3 DEF Leads, Plans, Calls, Fires1
  <1>9. Leads(<<"prepare", "fireThis", "wait">>)
    <2>1. Tail(<<"prepare", "fireThis", "wait">>) = <<"fireThis", "wait">>
      OBVIOUS
    <2>2. <<"prepare", "fireThis", "wait">> \in Seq(Calls)
      BY DEF Calls
    <2>3. Head(<<"prepare", "fireThis", "wait">>) = "prepare"
      OBVIOUS
    <2> QED BY <2>1, <2>2, <2>3 DEF Leads, Plans, Calls, Fires1
  <1>10. Leads(<<"fireThis", "wait">>)
    <2>1. Tail(<<"fireThis", "wait">>) = <<"wait">>
      OBVIOUS
    <2>2. <<"fireThis", "wait">> \in Seq(Calls)
      BY DEF Calls
    <2>3. Head(<<"fireThis", "wait">>) = "fireThis"
      OBVIOUS
    <2> QED BY <2>1, <2>2, <2>3 DEF Leads, Plans, Calls, Fires1
  <1> QED BY <1>1, <1>2, <1>3, <1>4, <1>5, <1>6, <1>7, <1>8, <1>9, <1>10 DEF Plans

\* Only the holder of the lock is inside prepare or fire.
LEMMA LockIsOne ==
  ASSUME TypeOK, NEW c \in Clients, NEW d \in Clients, pc[c] \in Critical
  PROVE  lock = c /\ (pc[d] \in Critical => d = c)
  BY DEF TypeOK

\* What Return does, to the caller and to nobody else.
Returned(c, fates) ==
  /\ pc' = [pc EXCEPT ![c] = "idle"]
  /\ calls' \in [Clients -> Seq(Calls)]
  /\ program' \in [Clients -> Programs \cup {NoProgram}]
  /\ saw' \in [Clients -> Fates] /\ fate' \in [Clients -> Fates]
  /\ Lists(c)'
  /\ \A d \in Clients \ {c} :
       calls'[d] = calls[d] /\ program'[d] = program[d] /\ saw'[d] = saw[d] /\ fate'[d] = fates[d]
  /\ fate'[c] \in {"none", fates[c]}

LEMMA ReturnFacts ==
  ASSUME TypeOK, NEW c \in Clients, Lists(c), calls[c] # <<>>, NEW r, NEW fates, Return(c, r, fates),
         fates \in [Clients -> Fates],
         r # "raised" /\ Head(calls[c]) = "prepare" => program[c] \in Programs,
         r # "raised" /\ Head(calls[c]) \in Fires1 => fates[c] # "none"
  PROVE  Returned(c, fates)
  <1>1. pc' = [pc EXCEPT ![c] = "idle"]
    BY DEF Return, Goto
  <1>p. Leads(calls[c])
    BY PlanFacts DEF Lists
  <1>2. /\ calls' \in [Clients -> Seq(Calls)] /\ calls'[c] \in {<<>>, Tail(calls[c])}
        /\ calls'[c] # <<>> => r # "raised" /\ calls'[c] = Tail(calls[c])
        /\ \A d \in Clients \ {c} : calls'[d] = calls[d]
    <2>1. Tail(calls[c]) \in Seq(Calls) /\ <<>> \in Seq(Calls)
      <3>1. calls[c] \in Seq(Calls)
        BY DEF TypeOK
      <3> QED BY <3>1
    <2> QED BY <2>1 DEF Return, TypeOK
  <1>3. /\ program' \in [Clients -> Programs \cup {NoProgram}]
        /\ calls'[c] # <<>> /\ Head(calls'[c]) = "fireThis" => program'[c] = program[c]
        /\ \A d \in Clients \ {c} : program'[d] = program[d]
    BY DEF Return, TypeOK
  <1>4. saw' \in [Clients -> Fates] /\ \A d \in Clients \ {c} : saw'[d] = saw[d]
    BY DEF Return, TypeOK, Fates
  <1>5. /\ fate' \in [Clients -> Fates] /\ fate'[c] \in {"none", fates[c]}
        /\ calls'[c] # <<>> => fate'[c] = fates[c]
        /\ \A d \in Clients \ {c} : fate'[d] = fates[d]
    BY DEF Return, Fates
  <1>6. Lists(c)'
    <2>1. calls'[c] \in Plans
      BY <1>2, <1>p DEF Leads, Plans
    <2>2. calls'[c] # <<>> /\ Head(calls'[c]) = "fireThis" => program'[c] \in Programs
      BY <1>2, <1>3, <1>p DEF Leads
    <2>3. calls'[c] # <<>> /\ Head(calls'[c]) = "wait" => fate'[c] # "none"
      BY <1>2, <1>5, <1>p DEF Leads
    <2> QED BY <2>1, <2>2, <2>3 DEF Lists
  <1> QED BY <1>1, <1>2, <1>3, <1>4, <1>5, <1>6 DEF Returned

\* The steps in which a call returns, at once (NotPrepared, PrepareRejects) or not:
\* those that halt the device on the way, and the others.
Halts(c) == SafeOnReject(c) \/ SafeReturns(c)

Returns(c) ==
  \/ PrepareRejects(c) /\ prepared \notin Streams
  \/ NotLoaded(c) \/ LinkFailure(c) \/ PrepareReturns(c)
  \/ NotPrepared(c) \/ FireReturns(c) \/ WaitReturns(c) \/ SafeFails(c)

LEMMA TurnedType ==
  ASSUME fate \in [Clients -> Fates], NEW from, NEW to \in Fates
  PROVE  Turned(from, to) \in [Clients -> Fates]
  BY DEF Turned

LEMMA StoppedType ==
  ASSUME TypeOK
  PROVE  /\ Stopped \in [Clients -> Fates]
         /\ \A d \in Clients : Stopped[d] = IF fate[d] \in {"plays", "sweeps", "repeats"}
                                              THEN "stopped" ELSE fate[d]
  BY TurnedType DEF TypeOK, Stopped, Turned, Fates

LEMMA HaltStep ==
  ASSUME Inv, NEW c \in Clients, Halts(c)
  PROVE  Returned(c, Stopped)
  <1>1. TypeOK /\ Lists(c) /\ Inside(c) /\ Stopped \in [Clients -> Fates]
    BY StoppedType DEF Inv
  <1>2. pc[c] \in {"reject", "safing"} /\ (pc[c] = "reject" => Return(c, "raised", Stopped))
        /\ (pc[c] = "safing" => Return(c, "ok", Stopped))
    BY DEF Halts, SafeOnReject, SafeReturns
  <1>3. calls[c] # <<>> /\ (pc[c] = "safing" => Head(calls[c]) = "safe")
    BY <1>1, <1>2 DEF Inside
  <1> QED BY <1>1, <1>2, <1>3, ReturnFacts DEF Fires1

LEMMA ReturnStep ==
  ASSUME Inv, NEW c \in Clients, Returns(c)
  PROVE  Returned(c, fate)
  <1>1. TypeOK /\ Lists(c) /\ Inside(c) /\ fate \in [Clients -> Fates]
    BY DEF Inv, TypeOK
  <1>2. calls[c] # <<>>
    BY <1>1 DEF Inside, Returns, PrepareRejects, NotLoaded, LinkFailure, PrepareReturns,
      NotPrepared, FireReturns, WaitReturns, SafeFails, Begin
  <1>3. CASE WaitReturns(c)
    <2>1. Return(c, pc[c], fate) /\ Head(calls[c]) = "wait"
      BY <1>1, <1>3 DEF WaitReturns, Inside
    <2> QED BY <1>1, <1>2, <2>1, ReturnFacts DEF Fires1
  <1>4. CASE PrepareReturns(c)
    <2>1. Return(c, "ok", fate) /\ Head(calls[c]) = "prepare" /\ program[c] \in Programs
      BY <1>1, <1>4 DEF PrepareReturns, Inside, Critical
    <2> QED BY <1>1, <1>2, <2>1, ReturnFacts DEF Fires1
  <1>5. CASE FireReturns(c)
    <2>1. Return(c, "ok", fate) /\ Head(calls[c]) \in Fires1 /\ fate[c] # "none"
      BY <1>1, <1>5 DEF FireReturns, Inside
    <2> QED BY <1>1, <1>2, <2>1, ReturnFacts DEF Fires1
  <1>6. CASE ~WaitReturns(c) /\ ~PrepareReturns(c) /\ ~FireReturns(c)
    <2>1. Return(c, "raised", fate)
      BY <1>6 DEF Returns, PrepareRejects, NotLoaded, LinkFailure, NotPrepared, SafeFails, Goto
    <2> QED BY <1>1, <1>2, <2>1, ReturnFacts
  <1> QED BY <1>3, <1>4, <1>5, <1>6

-----------------------------------------------------------------------------
(* Types and the lock.                                                     *)

Locked ==
  /\ pc \in [Clients -> Places] /\ lock \in Clients \cup {Free}
  /\ \A c \in Clients : lock = c <=> pc[c] \in Critical

Values ==
  /\ prepared \in Programs \cup {NoProgram} /\ resident \in Programs \cup {NoProgram}
  /\ state \in {"idle", "running", "safe"}
  /\ image \in Programs \cup {Torn} /\ phase \in Device!Phases
  /\ unclear \in BOOLEAN /\ finished \in BOOLEAN /\ streaming \in BOOLEAN

Lists4 ==
  /\ program \in [Clients -> Programs \cup {NoProgram}]
  /\ fate \in [Clients -> Fates] /\ saw \in [Clients -> Fates]
  /\ calls \in [Clients -> Seq(Calls)]

LEMMA TypeParts == TypeOK <=> Locked /\ Values /\ Lists4
  BY DEF TypeOK, Locked, Values, Lists4

\* The lock and the place of one client move together.
LEMMA LockMove ==
  ASSUME Locked, NEW c \in Clients, NEW place \in Places, pc' = [pc EXCEPT ![c] = place],
         \/ lock' = lock /\ (pc[c] \in Critical <=> place \in Critical)
         \/ lock = Free /\ lock' = c /\ place \in Critical
         \/ lock' = Free /\ pc[c] \in Critical /\ place \notin Critical
  PROVE  Locked'
  <1>1. pc' \in [Clients -> Places] /\ pc'[c] = place /\ \A d \in Clients \ {c} : pc'[d] = pc[d]
    BY DEF Locked
  <1>2. Free \notin Clients
    BY ServiceAssumption DEF Free
  <1> QED BY <1>1, <1>2 DEF Locked

LEMMA LockStep ==
  ASSUME Inv, NEW c \in Clients, Work(c) \/ Fail(c)
  PROVE  Locked'
  <1> USE DEF Goto, Critical, Places
  <1>0. Locked
    BY TypeParts DEF Inv
  <1>r. CASE Returns(c)
    <2>1. pc' = [pc EXCEPT ![c] = "idle"]
      BY <1>r, ReturnStep DEF Returned
    <2>2. \/ lock' = lock /\ pc[c] \notin Critical
          \/ lock' = Free /\ pc[c] \in Critical
      BY <1>r DEF Returns, PrepareRejects, NotLoaded, LinkFailure, PrepareReturns,
        NotPrepared, FireReturns, WaitReturns, SafeFails, Begin, Release, service
    <2> QED BY <1>0, <2>1, <2>2, LockMove
  <1>h. CASE Halts(c)
    <2>1. pc' = [pc EXCEPT ![c] = "idle"]
      BY <1>h, HaltStep DEF Returned
    <2>2. lock' = lock /\ pc[c] \notin Critical
      BY <1>h DEF Halts, SafeOnReject, SafeReturns, service
    <2> QED BY <1>0, <2>1, <2>2, LockMove
  <1>j. CASE PrepareRejects(c) /\ prepared \in Streams
    BY <1>0, <1>j, LockMove DEF PrepareRejects, Begin, service
  <1>1. CASE PrepareBegins(c)
    BY <1>0, <1>1, LockMove DEF PrepareBegins, Begin, Acquire, service
  <1>2. CASE Note(c)
    BY <1>0, <1>2, LockMove DEF Note, service
  <1>3. CASE Halt(c)
    BY <1>0, <1>3, LockMove DEF Halt, service
  <1>4. CASE Write(c)
    <2>1. CASE UNCHANGED pc
      BY <1>0, <1>4, <2>1 DEF Write, service, Locked
    <2>2. CASE Goto(c, "load")
      BY <1>0, <1>4, <2>2, LockMove DEF Write, service
    <2> QED BY <1>4, <2>1, <2>2 DEF Write
  <1>5. CASE Load(c)
    BY <1>0, <1>5, LockMove DEF Load, service
  <1>6. CASE SeesLoaded(c)
    BY <1>0, <1>6, LockMove DEF SeesLoaded, service
  <1>7. CASE FireBegins(c)
    BY <1>0, <1>7, LockMove DEF FireBegins, Begin, Acquire
  <1>8. CASE FireCommand(c)
    BY <1>0, <1>8, LockMove DEF FireCommand, service
  <1>9. CASE WaitBegins(c)
    BY <1>0, <1>9, LockMove DEF WaitBegins, Begin, service
  <1>10. CASE WaitPolls(c)
    BY <1>0, <1>10, LockMove DEF WaitPolls, service
  <1>11. CASE WaitAnswers(c)
    BY <1>0, <1>11, LockMove DEF WaitAnswers, service
  <1>12. CASE SafeBegins(c)
    BY <1>0, <1>12, LockMove DEF SafeBegins, Begin
  <1> QED BY <1>r, <1>h, <1>j, <1>1, <1>2, <1>3, <1>4, <1>5, <1>6, <1>7, <1>8, <1>9, <1>10, <1>11, <1>12
    DEF Work, Fail, Prepares, Fires, Waits, Safes, Returns, Halts

LEMMA ValueStep ==
  ASSUME Inv, NEW c \in Clients, Work(c) \/ Fail(c)
  PROVE  Values'
  <1>0. Values /\ Lists4 /\ Locked
    BY TypeParts DEF Inv
  <1> USE <1>0 DEF Values, service, session, device
  <1>r. CASE Returns(c)
    <2>1. program[c] \in Programs \cup {NoProgram}
      BY DEF Lists4
    <2> QED BY <1>r, <2>1 DEF Returns, PrepareRejects, NotLoaded, LinkFailure, PrepareReturns,
        NotPrepared, FireReturns, WaitReturns, SafeFails
  <1>h. CASE Halts(c)
    BY <1>h DEF Halts, SafeOnReject, SafeReturns, SafeHalts, SafeState, HaltEngine, Device!Safe, Device!Phases
  <1>j. CASE PrepareRejects(c) /\ prepared \in Streams
    BY <1>j DEF PrepareRejects
  <1>1. CASE PrepareBegins(c)
    BY <1>1 DEF PrepareBegins
  <1>2. CASE Note(c)
    BY <1>2 DEF Note, Lists4
  <1>3. CASE Halt(c)
    BY <1>3 DEF Halt, HaltEngine, Device!Safe, Device!Phases
  <1>4. CASE Write(c)
    <2>1. program[c] \in Programs
      BY <1>4 DEF Write, Inv, Inside, Critical
    <2> QED BY <1>4, <2>1 DEF Write
  <1>5. CASE Load(c)
    BY <1>5 DEF Load, Device!Load, Device!Phases
  <1>6. CASE SeesLoaded(c)
    BY <1>6 DEF SeesLoaded
  <1>7. CASE FireBegins(c)
    BY <1>7 DEF FireBegins
  <1>8. CASE FireCommand(c)
    BY <1>8 DEF FireCommand, FireStarted, FireIgnored, Device!Fire, Device!Phases
  <1>9. CASE WaitBegins(c) \/ WaitPolls(c) \/ WaitAnswers(c)
    BY <1>9 DEF WaitBegins, WaitPolls, WaitAnswers
  <1>10. CASE SafeBegins(c)
    BY <1>10 DEF SafeBegins
  <1> QED BY <1>r, <1>h, <1>j, <1>1, <1>2, <1>3, <1>4, <1>5, <1>6, <1>7, <1>8, <1>9, <1>10
    DEF Work, Fail, Prepares, Fires, Waits, Safes, Returns, Halts

-----------------------------------------------------------------------------
(* The history: what a step of one client does to the run of another.      *)

\* How the fate of a run may go on, but for what its own client does.
Moves(d) ==
  \/ fate'[d] = fate[d]
  \/ fate[d] \in {"plays", "sweeps", "repeats"} /\ fate'[d] \in {"ended", "stopped"}
  \/ fate[d] \notin {"none", "ended"} /\ fate'[d] = "other"

LEMMA TurnedMoves ==
  ASSUME TypeOK, NEW d \in Clients, NEW from, NEW to, fate' = Turned(from, to),
         \/ from \subseteq {"plays", "sweeps", "repeats"} /\ to \in {"ended", "stopped"}
         \/ from \subseteq {"plays", "sweeps", "repeats", "stopped"} /\ to = "other"
  PROVE  fate' \in [Clients -> Fates] /\ Moves(d)
  BY DEF Turned, Moves, TypeOK, Fates

LEMMA StoppedMoves ==
  ASSUME TypeOK, NEW d \in Clients, fate'[d] = Stopped[d]
  PROVE  Moves(d)
  BY StoppedType DEF Moves

\* The fire of a client: its own run begins, or does not; the others' are over.
LEMMA FireFates ==
  ASSUME TypeOK, NEW c \in Clients, FireCommand(c)
  PROVE  /\ fate' \in [Clients -> Fates] /\ fate'[c] # "none"
         /\ \A d \in Clients \ {c} : Moves(d)
  <1>1. CASE FireStarted(c)
    BY <1>1 DEF FireStarted, Moves, TypeOK, Fates
  <1>2. CASE FireIgnored(c)
    BY <1>2 DEF FireIgnored, Moves, TypeOK, Fates
  <1> QED BY <1>1, <1>2 DEF FireCommand

\* A client's step changes nothing of another's but the fate of its run, which
\* changes as a fate may.
LEMMA Elsewhere ==
  ASSUME Inv, NEW c \in Clients, Work(c) \/ Fail(c)
  PROVE  /\ Lists4'
         /\ \A d \in Clients \ {c} : /\ pc'[d] = pc[d] /\ calls'[d] = calls[d] /\ Moves(d)
                                     /\ program'[d] = program[d] /\ saw'[d] = saw[d]
  <1>0. Values /\ Lists4 /\ Locked /\ TypeOK
    BY TypeParts DEF Inv
  <1>r. CASE Returns(c)
    BY <1>0, <1>r, ReturnStep DEF Returned, Lists4, Locked, Moves
  <1>h. CASE Halts(c)
    BY <1>0, <1>h, HaltStep, StoppedMoves DEF Returned, Lists4, Locked
  <1>1. CASE PrepareBegins(c)
    BY <1>0, <1>1 DEF PrepareBegins, Lists4, Locked, Goto, Moves
  <1>2. CASE FireBegins(c)
    BY <1>0, <1>2 DEF FireBegins, Lists4, Locked, Values, Goto, Moves
  <1>3. CASE FireCommand(c)
    BY <1>0, <1>3, FireFates DEF FireCommand, Lists4, Locked, Goto, client
  <1>4. CASE Note(c)
    BY <1>0, <1>4, TurnedMoves DEF Note, Lists4, Locked, Goto, client
  <1>5. CASE Halt(c)
    <2>1. fate' = Stopped
      BY <1>5 DEF Halt
    <2> QED BY <1>0, <1>5, <2>1, StoppedMoves, StoppedType DEF Halt, Lists4, Locked, Goto, client
  <1>6. CASE WaitPolls(c)
    BY <1>0, <1>6 DEF WaitPolls, Lists4, Locked, Goto, Moves
  <1>7. CASE ~(\/ Returns(c) \/ Halts(c) \/ PrepareBegins(c) \/ FireBegins(c) \/ FireCommand(c)
               \/ Note(c) \/ Halt(c) \/ WaitPolls(c))
    <2>1. UNCHANGED <<client, fate>> /\ (UNCHANGED pc \/ \E place : pc' = [pc EXCEPT ![c] = place])
      BY <1>7 DEF Work, Fail, Prepares, Fires, Waits, Safes, Returns, Halts, Goto, PrepareRejects,
        Write, Load, SeesLoaded, WaitBegins, WaitAnswers, SafeBegins
    <2> QED BY <1>0, <2>1 DEF client, Lists4, Locked, Moves
  <1> QED BY <1>r, <1>h, <1>1, <1>2, <1>3, <1>4, <1>5, <1>6, <1>7

\* A client whose calls and program stay, and whose run is not forgotten, keeps its
\* list in order.
LEMMA KeepsList ==
  ASSUME NEW d, Lists(d), calls'[d] = calls[d], program'[d] = program[d], Moves(d)
  PROVE  Lists(d)'
  BY DEF Lists, Moves

\* A step of a client that is not a return.
Goes(c) == ~Returns(c) /\ ~Halts(c)

\* Such a step leaves the calls alone, and moves the fate of the client's own run as a
\* fate may move, unless it is the fire.
LEMMA GoesOn ==
  ASSUME Inv, NEW c \in Clients, Work(c) \/ Fail(c), Goes(c)
  PROVE  /\ calls' = calls /\ calls[c] # <<>>
         /\ ~FireCommand(c) => Moves(c)
         /\ ~PrepareBegins(c) /\ ~FireBegins(c) => program' = program
         /\ ~WaitPolls(c) => saw' = saw
  <1>0. TypeOK /\ Inside(c)
    BY DEF Inv
  <1>1. CASE Note(c)
    BY <1>0, <1>1, TurnedMoves DEF Note, client, Inside
  <1>2. CASE Halt(c)
    BY <1>0, <1>2, StoppedMoves DEF Halt, client, Inside
  <1>3. CASE ~Note(c) /\ ~Halt(c)
    BY <1>0, <1>3 DEF Work, Fail, Prepares, Fires, Waits, Safes, Goes, Returns, Halts, PrepareRejects,
      PrepareBegins, Write, Load, SeesLoaded, FireBegins, FireCommand, WaitBegins, WaitPolls, WaitAnswers,
      SafeBegins, Begin, client, Inside, Moves
  <1> QED BY <1>1, <1>2, <1>3

LEMMA ListsStep ==
  ASSUME Inv, NEW c \in Clients, Work(c) \/ Fail(c)
  PROVE  \A d \in Clients : Lists(d)'
  <1>0. TypeOK /\ Lists(c)
    BY DEF Inv
  <1>1. Lists(c)'
    <2>1. CASE Returns(c)
      BY <2>1, ReturnStep DEF Returned
    <2>h. CASE Halts(c)
      BY <2>h, HaltStep DEF Returned
    <2>2. CASE FireBegins(c)
      <3>1. prepared \in Programs /\ Goes(c)
        BY <1>0, <2>2 DEF FireBegins, TypeOK, Goes, Returns, Halts, Begin, PrepareRejects, NotLoaded,
          LinkFailure, PrepareReturns, NotPrepared, FireReturns, WaitReturns, SafeFails, SafeOnReject, SafeReturns
      <3>2. calls' = calls /\ fate' = fate /\ program'[c] \in {program[c], prepared}
        BY <1>0, <2>2 DEF FireBegins, TypeOK
      <3> QED BY <1>0, <3>1, <3>2 DEF Lists
    <2>3. CASE PrepareBegins(c)
      <3>1. calls' = calls /\ fate' = fate /\ Head(calls[c]) = "prepare"
        BY <2>3 DEF PrepareBegins, Begin
      <3> QED BY <1>0, <3>1 DEF Lists
    <2>4. CASE FireCommand(c)
      BY <1>0, <2>4, FireFates DEF FireCommand, client, Lists
    <2>5. CASE Goes(c) /\ ~FireBegins(c) /\ ~PrepareBegins(c) /\ ~FireCommand(c)
      BY <1>0, <2>5, GoesOn, KeepsList
    <2> QED BY <2>1, <2>h, <2>2, <2>3, <2>4, <2>5 DEF Goes
  <1>2. \A d \in Clients \ {c} : Lists(d)'
    BY Elsewhere, KeepsList DEF Inv
  <1> QED BY <1>1, <1>2

-----------------------------------------------------------------------------
(* A client's place stays inside the first of its calls.                   *)

LEMMA StaysInside ==
  ASSUME Inv, NEW c \in Clients, NEW place \in Places, calls' = calls, program'[c] = program[c],
         pc' = [pc EXCEPT ![c] = place], calls[c] # <<>>,
         place \in {"reject", "record"} => Head(calls[c]) = "prepare",
         place \in {"start", "fired"} => Head(calls[c]) \in Fires1,
         place \in {"waiting", "running", "done", "timeout"} => Head(calls[c]) = "wait",
         place = "safing" => Head(calls[c]) = "safe",
         place \in Critical => Head(calls[c]) \in {"prepare"} \cup Fires1 /\ program[c] \in Programs,
         place = "fired" => fate'[c] # "none"
  PROVE  Inside(c)'
  <1>1. pc'[c] = place
    BY DEF Inv, TypeOK
  <1> QED BY <1>1 DEF Inside

LEMMA InsideStep ==
  ASSUME Inv, NEW c \in Clients, Work(c) \/ Fail(c)
  PROVE  \A d \in Clients : Inside(d)'
  <1> USE DEF Goto, Critical, Places
  <1>0. Inside(c) /\ Lists(c) /\ TypeOK /\ pc \in [Clients -> Places]
    BY DEF Inv, TypeOK
  <1>a. \A d \in Clients \ {c} : Inside(d)'
    BY Elsewhere DEF Inside, Inv, Moves
  <1>b. Inside(c)'
    <2>r. CASE Returns(c)
      BY <1>0, <2>r, ReturnStep DEF Returned, Inside
    <2>h. CASE Halts(c)
      BY <1>0, <2>h, HaltStep DEF Returned, Inside
    <2>j. CASE PrepareRejects(c) /\ prepared \in Streams
      BY <1>0, <2>j, StaysInside DEF PrepareRejects, Begin, client
    <2>1. CASE PrepareBegins(c)
      <3>1. PICK p \in Programs : program' = [program EXCEPT ![c] = p]
        BY <2>1 DEF PrepareBegins
      <3>2. program'[c] \in Programs /\ calls' = calls /\ calls[c] # <<>> /\ Head(calls[c]) = "prepare"
            /\ pc'[c] \in {"record", "note"}
        BY <1>0, <2>1, <3>1 DEF PrepareBegins, Begin, TypeOK
      <3> QED BY <3>2 DEF Inside
    <2>2. CASE Note(c)
      BY <1>0, <2>2, StaysInside DEF Note, client, Inside
    <2>3. CASE Halt(c)
      BY <1>0, <2>3, StaysInside DEF Halt, client, Inside
    <2>4. CASE Write(c)
      <3>1. CASE UNCHANGED pc
        BY <1>0, <2>4, <3>1 DEF Write, client, Inside
      <3>2. CASE Goto(c, "load")
        BY <1>0, <2>4, <3>2, StaysInside DEF Write, client, Inside
      <3> QED BY <2>4, <3>1, <3>2 DEF Write
    <2>5. CASE Load(c)
      BY <1>0, <2>5, StaysInside DEF Load, client, Inside
    <2>6. CASE SeesLoaded(c)
      BY <1>0, <2>6, StaysInside DEF SeesLoaded, client, Inside
    <2>7. CASE FireBegins(c)
      <3>1. calls' = calls /\ calls[c] # <<>> /\ Head(calls[c]) \in Fires1 /\ pc'[c] \in {"start", "note"}
        BY <1>0, <2>7 DEF FireBegins, Begin, Fires1
      <3>2. program'[c] \in Programs
        <4>1. CASE Head(calls[c]) = "fire"
          BY <1>0, <2>7, <4>1 DEF FireBegins, TypeOK
        <4>2. CASE Head(calls[c]) = "fireThis"
          BY <1>0, <2>7, <4>2, <3>1 DEF FireBegins, Lists
        <4> QED BY <3>1, <4>1, <4>2 DEF Fires1
      <3> QED BY <3>1, <3>2 DEF Inside
    <2>8. CASE FireCommand(c)
      BY <1>0, <2>8, FireFates, StaysInside DEF FireCommand, client, Inside
    <2>9. CASE WaitBegins(c)
      BY <1>0, <2>9, StaysInside DEF WaitBegins, Begin, client
    <2>10. CASE WaitPolls(c)
      BY <1>0, <2>10, StaysInside DEF WaitPolls, Inside
    <2>11. CASE WaitAnswers(c)
      BY <1>0, <2>11, StaysInside DEF WaitAnswers, client, Inside
    <2>12. CASE SafeBegins(c)
      BY <1>0, <2>12, StaysInside DEF SafeBegins, Begin, client
    <2> QED BY <2>r, <2>h, <2>j, <2>1, <2>2, <2>3, <2>4, <2>5, <2>6, <2>7, <2>8, <2>9, <2>10, <2>11, <2>12
      DEF Work, Fail, Prepares, Fires, Waits, Safes, Returns, Halts
  <1> QED BY <1>a, <1>b

-----------------------------------------------------------------------------
(* The holder of the lock.                                                 *)

\* A client is not the word for a lock that is free.
LEMMA NamesApart == Free \notin Clients
  BY ServiceAssumption DEF Free

\* Around a step of the holder, or of a step that needs the lock free, nobody else is inside.
LEMMA OthersOut ==
  ASSUME Inv, NEW c \in Clients, Work(c) \/ Fail(c), pc[c] \in Critical \/ lock = Free
  PROVE  \A d \in Clients \ {c} : pc[d] \notin Critical /\ pc'[d] \notin Critical
  BY Elsewhere, NamesApart DEF Inv, TypeOK

\* What a step that needs no lock may do to whoever holds it.
LEMMA HolderKept ==
  ASSUME NEW d, Holder(d), pc'[d] = pc[d], calls'[d] = calls[d], program'[d] = program[d],
         UNCHANGED <<prepared, resident, image, finished>>, phase' \in {phase, "reset"},
         (streaming' => streaming)
  PROVE  Holder(d)'
  BY DEF Holder

\* The conjunct about whoever holds the lock.
LEMMA HolderStep ==
  ASSUME Inv, NEW c \in Clients, Work(c) \/ Fail(c)
  PROVE  \A d \in Clients : Holder(d)'
  <1> USE DEF Goto
  <1>0. Inside(c) /\ Holder(c) /\ pc \in [Clients -> Places] /\ program \in [Clients -> Programs \cup {NoProgram}]
    BY DEF Inv, TypeOK
  <1>1. CASE pc[c] \in Critical \/ lock = Free
    <2>1. \A d \in Clients \ {c} : Holder(d)'
      BY <1>1, OthersOut DEF Holder, Critical
    <2>2. Holder(c)'
      <3>r. CASE Returns(c)
        BY <1>0, <3>r, ReturnStep DEF Returned, Holder, Critical
      <3>h. CASE Halts(c)
        BY <1>0, <3>h, HaltStep DEF Returned, Holder, Critical
      <3>j. CASE PrepareRejects(c) /\ prepared \in Streams
        BY <1>0, <3>j DEF PrepareRejects, Holder, Critical
      <3>w. CASE WaitBegins(c) \/ WaitPolls(c) \/ WaitAnswers(c) \/ SafeBegins(c)
        BY <1>0, <3>w DEF WaitBegins, WaitPolls, WaitAnswers, SafeBegins, Holder, Critical
      <3>1. CASE PrepareBegins(c)
        BY <1>0, <3>1 DEF PrepareBegins, Begin, Holder, Fires1
      <3>2. CASE Note(c)
        BY <1>0, <3>2 DEF Note, service, client, Holder, Critical
      <3>3. CASE Halt(c)
        BY <1>0, <3>3 DEF Halt, HaltEngine, Device!Safe, service, session, client, Holder, Critical
      <3>4. CASE Write(c)
        BY <1>0, <3>4 DEF Write, service, session, client, Holder, Critical
      <3>5. CASE Load(c)
        BY <1>0, <3>5 DEF Load, Device!Load, service, session, client, Holder, Critical
      <3>6. CASE SeesLoaded(c)
        BY <1>0, <3>6 DEF SeesLoaded, service, session, device, client, Holder, Critical, Inside, Fires1
      <3>7. CASE FireBegins(c)
        <4>1. program'[c] = prepared /\ prepared' = prepared /\ resident' = resident
          BY <1>0, <3>7 DEF FireBegins, Begin, Matches, session
        <4>2. pc'[c] = "note" \/ (pc'[c] = "start" /\ resident = prepared)
          BY <1>0, <3>7 DEF FireBegins, SameResident
        <4> QED BY <4>1, <4>2 DEF Holder
      <3>8. CASE FireCommand(c)
        BY <1>0, <3>8 DEF FireCommand, service, client, Holder, Critical
      <3> QED BY <3>r, <3>h, <3>j, <3>w, <3>1, <3>2, <3>3, <3>4, <3>5, <3>6, <3>7, <3>8
        DEF Work, Fail, Prepares, Fires, Waits, Safes, Returns, Halts
    <2> QED BY <2>1, <2>2
  <1>2. CASE ~(pc[c] \in Critical \/ lock = Free)
    <2>1. \/ PrepareRejects(c) \/ SafeOnReject(c) \/ SafeReturns(c) \/ SafeFails(c)
          \/ WaitPolls(c) \/ WaitAnswers(c)
      BY <1>2 DEF Work, Fail, Prepares, Fires, Waits, Safes, Acquire, Critical, PrepareBegins, Note, Halt,
        Write, Load, SeesLoaded, NotLoaded, PrepareReturns, FireBegins, NotPrepared, FireCommand,
        FireReturns, WaitBegins, WaitReturns, SafeBegins, LinkFailure
    <2>2. /\ UNCHANGED <<prepared, resident, image, finished>> /\ phase' \in {phase, "reset"}
          /\ (streaming' => streaming)
      BY <2>1 DEF PrepareRejects, SafeOnReject, SafeReturns, SafeFails, WaitPolls, WaitAnswers, SafeHalts,
        SafeState, HaltEngine, Device!Safe, service, session, device
    <2>3. pc'[c] \notin Critical
      <3>1. CASE Returns(c)
        BY <1>0, <3>1, ReturnStep DEF Returned, Critical
      <3>2. CASE Halts(c)
        BY <1>0, <3>2, HaltStep DEF Returned, Critical
      <3>3. CASE ~Returns(c) /\ ~Halts(c)
        BY <1>0, <2>1, <3>3 DEF Returns, Halts, PrepareRejects, WaitPolls, WaitAnswers, Critical
      <3> QED BY <3>1, <3>2, <3>3
    <2>4. \A d \in Clients \ {c} : Holder(d)'
      BY <2>2, Elsewhere, HolderKept DEF Inv
    <2> QED BY <2>3, <2>4 DEF Holder, Critical
  <1> QED BY <1>1, <1>2

-----------------------------------------------------------------------------
(* The device, and what is said of it.                                     *)

\* The steps that change the device, what is in it or what the session takes it to
\* hold; every other step leaves all of that alone, and is not at "halt".
Touches(c) ==
  \/ Note(c) \/ Halt(c) \/ Write(c) \/ Load(c) \/ FireCommand(c) \/ LinkFailure(c)
  \/ Halts(c) \/ SafeFails(c)

Untouched == UNCHANGED <<resident, finished, streaming, image, phase, unclear>>

LEMMA OnlyTouches ==
  ASSUME Inv, NEW c \in Clients, Work(c) \/ Fail(c), ~Touches(c)
  PROVE  Untouched /\ pc[c] # "halt" /\ pc'[c] # "halt"
  <1> USE DEF Goto, Untouched, device, session
  <1>0. pc \in [Clients -> Places]
    BY DEF Inv, TypeOK
  <1>1. CASE Returns(c)
    <2>1. pc'[c] = "idle"
      BY <1>0, <1>1, ReturnStep DEF Returned
    <2>2. pc[c] # "halt" /\ Untouched
      BY <1>1 DEF Returns, Touches, PrepareRejects, NotLoaded, PrepareReturns, NotPrepared, FireReturns,
        WaitReturns, Begin
    <2> QED BY <2>1, <2>2
  <1>2. CASE ~Returns(c)
    <2>1. PrepareBegins(c) => pc'[c] \in {"record", "note"}
      BY <1>0 DEF PrepareBegins
    <2> QED BY <1>0, <1>2, <2>1 DEF Returns, Touches, Halts, Work, Fail, Prepares, Fires, Waits, Safes,
      PrepareRejects, PrepareBegins, SeesLoaded, FireBegins, WaitBegins, WaitPolls, WaitAnswers, SafeBegins, Begin
  <1> QED BY <1>1, <1>2

\* A step that halts the device halts it.
LEMMA HaltsDevice ==
  ASSUME NEW c, Halts(c)
  PROVE  /\ phase' = "reset" /\ unclear' = FALSE /\ streaming' = FALSE
         /\ UNCHANGED <<resident, finished, image, lock, prepared, state>>
  BY DEF Halts, SafeOnReject, SafeReturns, SafeHalts, SafeState, HaltEngine, Device!Safe, service

LEMMA ResidentStep ==
  ASSUME Inv, NEW c \in Clients, Work(c) \/ Fail(c)
  PROVE  Resident'
  <1> USE DEF Goto
  <1>0. pc \in [Clients -> Places] /\ Holder(c) /\ Resident
    BY DEF Inv, TypeOK
  <1>n. (\A d \in Clients : pc'[d] # "halt") /\ pc[c] # "halt" => \A d \in Clients : pc[d] # "halt"
    BY Elsewhere
  <1>1. CASE ~Touches(c)
    BY <1>0, <1>1, <1>n, OnlyTouches DEF Untouched, Resident
  <1>2. CASE Note(c)
    BY <1>0, <1>2 DEF Note, Resident
  <1>3. CASE Halt(c)
    BY <1>3 DEF Halt, HaltEngine, Device!Safe, Resident
  <1>4. CASE Write(c)
    BY <1>0, <1>4 DEF Write, Holder, Resident
  <1>5. CASE Load(c)
    BY <1>0, <1>5 DEF Load, Holder, Resident, session
  <1>6. CASE FireCommand(c)
    <2>1. Resident /\ pc[c] # "halt" /\ UNCHANGED <<image, resident, unclear>>
      BY <1>0, <1>6 DEF FireCommand
    <2>2. phase = "loaded" \/ UNCHANGED phase
      BY <1>6 DEF FireCommand, FireStarted, FireIgnored, Device!Fire
    <2> QED BY <1>n, <2>1, <2>2 DEF Resident
  <1>7. CASE LinkFailure(c) \/ SafeFails(c)
    BY <1>7 DEF LinkFailure, SafeFails, Resident
  <1>8. CASE Halts(c)
    BY <1>8, HaltsDevice DEF Resident
  <1> QED BY <1>1, <1>2, <1>3, <1>4, <1>5, <1>6, <1>7, <1>8 DEF Touches

\* A SAFE stays the last word.
LEMMA StoppingStep ==
  ASSUME Inv, NEW c \in Clients, Work(c) \/ Fail(c)
  PROVE  Stopping'
  <1> USE DEF Goto, service
  <1>0. pc \in [Clients -> Places] /\ Inside(c) /\ Holder(c) /\ Stopping /\ NoProgram \notin Programs
    BY ServiceAssumption DEF Inv, TypeOK
  <1> SUFFICES ASSUME state' = "safe" PROVE Stopping'
    BY DEF Stopping
  <1>1. CASE SafeBegins(c)
    BY <1>0, <1>1 DEF SafeBegins, Stopping
  <1>2. CASE ~SafeBegins(c)
    <2>1. state = "safe" /\ prepared' = prepared
      BY <1>2, HaltsDevice DEF Work, Fail, Prepares, Fires, Waits, Safes, PrepareRejects, PrepareBegins, Halts,
        Note, Halt, Write, Load, SeesLoaded, NotLoaded, PrepareReturns, FireBegins, NotPrepared,
        FireCommand, FireReturns, WaitBegins, WaitPolls, WaitAnswers, WaitReturns, LinkFailure, SafeFails
    <2>2. prepared = NoProgram
      BY <1>0, <2>1 DEF Stopping
    <2>3. ~PrepareReturns(c)
      BY DEF PrepareReturns
    \* Nothing is prepared, so nobody is inside fire.
    <2>4. pc[c] \in Critical => Head(calls[c]) = "prepare"
      BY <1>0, <2>2 DEF Inside, Holder
    <2>5. ~FireCommand(c)
      BY <1>0, <2>4 DEF FireCommand, Inside, Fires1, Critical
    <2>6. \/ UNCHANGED phase /\ (unclear => unclear')
          \/ phase' = "reset"
          \/ Load(c)
      <3>1. CASE Touches(c)
        BY <3>1, <2>5, HaltsDevice DEF Touches, Note, Halt, HaltEngine, Write, LinkFailure, SafeFails,
          Device!Safe, device
      <3>2. CASE ~Touches(c)
        BY <3>2, OnlyTouches DEF Untouched
      <3> QED BY <3>1, <3>2
    <2>7. Load(c) => unclear' = unclear /\ phase' \in {"loading", "loaded"} /\ pc'[c] \in {"poll", "record"}
      BY <1>0 DEF Load, Device!Load
    <2>8. CASE unclear
      BY <2>2, <2>1, <2>6, <2>7, <2>8 DEF Stopping
    <2>9. CASE phase = "reset"
      BY <2>2, <2>1, <2>6, <2>7, <2>9 DEF Stopping
    <2>10. ASSUME NEW d \in Clients, pc[d] = "safing" PROVE Stopping'
      <3>1. CASE d # c
        BY <2>10, <3>1, <2>2, <2>1, Elsewhere DEF Stopping
      <3>2. CASE d = c
        <4>1. Halts(c) \/ SafeFails(c)
          BY <2>10, <3>2 DEF Work, Fail, Prepares, Fires, Waits, Safes, PrepareRejects, PrepareBegins,
            Halts, Note, Halt, Write, Load, SeesLoaded, NotLoaded, PrepareReturns, FireBegins,
            NotPrepared, FireCommand, FireReturns, WaitBegins, WaitPolls, WaitAnswers, WaitReturns, SafeBegins,
            LinkFailure, Begin
        <4> QED BY <4>1, <2>2, <2>1, HaltsDevice DEF SafeFails, Stopping
      <3> QED BY <3>1, <3>2
    <2>11. ASSUME phase \in {"loading", "loaded"}, NEW d \in Clients, pc[d] \in {"poll", "record"}
           PROVE  Stopping'
      <3>0. pc[d] \in Critical
        BY <2>11 DEF Critical
      <3>1. CASE d # c
        <4>1. pc'[d] \in {"poll", "record"} /\ pc[c] \notin Critical
          BY <2>11, <3>0, <3>1, Elsewhere, LockIsOne DEF Inv
        <4>2. ~Load(c)
          BY <4>1 DEF Load, Critical
        <4> QED BY <2>11, <2>6, <4>1, <4>2, <2>2, <2>1 DEF Stopping
      <3>2. CASE d = c
        <4>1. SeesLoaded(c) \/ LinkFailure(c)
          BY <2>11, <3>2, <2>3 DEF Work, Fail, Prepares, Fires, Waits, Safes, PrepareRejects, PrepareBegins,
            SafeOnReject, Note, Halt, Write, Load, SeesLoaded, NotLoaded, FireBegins, SafeReturns, SafeFails,
            NotPrepared, FireCommand, FireReturns, WaitBegins, WaitPolls, WaitAnswers, WaitReturns, SafeBegins, Begin
        <4>2. CASE SeesLoaded(c)
          <5>1. pc'[c] = "record" /\ phase' = phase
            BY <1>0, <4>2, <2>4 DEF SeesLoaded, device, Critical
          <5> QED BY <2>11, <5>1, <2>2, <2>1 DEF Stopping
        <4>3. CASE LinkFailure(c)
          BY <4>3, <2>2, <2>1 DEF LinkFailure, Stopping
        <4> QED BY <4>1, <4>2, <4>3
      <3> QED BY <3>1, <3>2
    <2> QED BY <1>0, <2>1, <2>8, <2>9, <2>10, <2>11 DEF Stopping
  <1> QED BY <1>1, <1>2

LEMMA LatchedStep ==
  ASSUME Inv, NEW c \in Clients, Work(c) \/ Fail(c)
  PROVE  Latched'
  <1>0. Latched /\ Holder(c)
    BY DEF Inv
  <1>1. CASE ~Touches(c)
    BY <1>0, <1>1, OnlyTouches DEF Untouched, Latched
  <1>2. CASE Note(c) \/ Halt(c) \/ Write(c) \/ Load(c)
    BY <1>0, <1>2 DEF Note, Halt, HaltEngine, Device!Safe, Write, Load, Latched, Holder, session, device
  <1>3. CASE FireCommand(c)
    BY <1>0, <1>3 DEF FireCommand, FireStarted, FireIgnored, Device!Fire, Latched
  <1>4. CASE LinkFailure(c) \/ SafeFails(c)
    BY <1>0, <1>4 DEF LinkFailure, SafeFails, Latched, session
  <1>5. CASE Halts(c)
    BY <1>5, HaltsDevice, <1>0 DEF Latched
  <1> QED BY <1>1, <1>2, <1>3, <1>4, <1>5 DEF Touches

-----------------------------------------------------------------------------
(* The runs, and what a wait is told of them.                              *)

\* A run whose fate moves over an unchanged device, or is over, is told as before.
LEMMA RunKept ==
  ASSUME NEW d, Run(d), UNCHANGED <<resident, finished, image, phase>>, fate'[d] \in {fate[d], "none", "ended", "other"}
  PROVE  Run(d)'
  BY DEF Run

\* What a SAFE does to the run of any client.
LEMMA RunHalted ==
  ASSUME Inv, NEW d \in Clients, UNCHANGED <<resident, finished, image>>, phase' = "reset",
         fate'[d] \in {"none", Stopped[d]}
  PROVE  Run(d)'
  <1>1. Run(d) /\ Latched /\ fate[d] \in Fates
    BY DEF Inv, TypeOK
  <1>2. Stopped[d] = IF fate[d] \in {"plays", "sweeps", "repeats"} THEN "stopped" ELSE fate[d]
    BY StoppedType DEF Inv
  <1>3. fate'[d] = "stopped" => ~finished
    BY <1>1, <1>2 DEF Run, Latched
  <1>4. fate'[d] \notin {"plays", "sweeps", "repeats"}
    BY <1>2
  <1> QED BY <1>3, <1>4 DEF Run

LEMMA RunStep ==
  ASSUME Inv, NEW c \in Clients, Work(c) \/ Fail(c), NEW d \in Clients
  PROVE  Run(d)'
  <1>0. TypeOK /\ Run(d) /\ Holder(c) /\ Latched /\ Resident
    BY DEF Inv
  <1>r. CASE Returns(c)
    <2>1. fate'[d] \in {fate[d], "none"}
      BY <1>r, ReturnStep DEF Returned
    <2>2. UNCHANGED <<resident, finished, image, phase>>
      BY <1>r DEF Returns, PrepareRejects, NotLoaded, LinkFailure, PrepareReturns,
        NotPrepared, FireReturns, WaitReturns, SafeFails, session, device
    <2> QED BY <1>0, <2>1, <2>2, RunKept
  <1>h. CASE Halts(c)
    <2>1. fate'[d] \in {Stopped[d], "none"}
      BY <1>h, HaltStep DEF Returned
    <2> QED BY <1>h, <2>1, HaltsDevice, RunHalted
  <1>1. CASE Note(c)
    <2>1. fate'[d] = IF fate[d] \in {"plays", "sweeps", "repeats", "stopped"} THEN "other" ELSE fate[d]
      BY <1>1 DEF Note, Turned
    <2>2. fate'[d] \in {"none", "ended", "other"}
      BY <1>0, <2>1 DEF TypeOK, Fates
    <2> QED BY <2>2 DEF Run
  <1>2. CASE Halt(c)
    BY <1>2, RunHalted DEF Halt, HaltEngine, Device!Safe, session
  <1>3. CASE Write(c)
    <2>1. fate' = fate /\ phase = "reset" /\ UNCHANGED <<phase, resident, finished>>
      BY <1>0, <1>3 DEF Write, Holder, session
    <2> QED BY <1>0, <2>1 DEF Run
  <1>4. CASE Load(c)
    <2>1. fate' = fate /\ phase = "reset" /\ phase' = "loading" /\ UNCHANGED <<image, resident, finished>>
      BY <1>0, <1>4 DEF Load, Device!Load, Holder, session
    <2> QED BY <1>0, <2>1 DEF Run
  <1>5. CASE FireCommand(c) /\ FireStarted(c)
    <2>1. phase = "loaded" /\ phase' = "running" /\ UNCHANGED <<image, resident, finished>>
      BY <1>5 DEF FireCommand, FireStarted, Device!Fire
    <2>2. CASE d # c
      <3>1. fate'[d] \in {"none", "ended", "other"}
        BY <1>0, <1>5, <2>2 DEF FireStarted, TypeOK
      <3> QED BY <3>1 DEF Run
    <2>3. CASE d = c
      <3>1. \/ image # resident /\ fate'[c] = "other"
            \/ image = resident /\ image \in Forever /\ fate'[c] = "repeats"
            \/ image = resident /\ image \in Repeated /\ fate'[c] = "sweeps"
            \/ image = resident /\ image \notin Streams /\ fate'[c] = "plays"
        BY <1>0, <1>5 DEF FireStarted, TypeOK, Streams
      <3> QED BY <2>1, <2>3, <3>1 DEF Run
    <2> QED BY <2>2, <2>3
  <1>6. CASE FireCommand(c) /\ FireIgnored(c)
    <2>1. phase # "loaded" /\ UNCHANGED <<phase, image, resident, finished>>
      BY <1>6 DEF FireCommand, FireIgnored
    <2>2. CASE d # c
      BY <1>0, <1>6, <2>1, <2>2, RunKept DEF FireIgnored, TypeOK
    <2>3. CASE d = c
      <3>1. \/ fate'[c] = "other"
            \/ fate'[c] = "stopped" /\ ~finished /\ phase \notin {"running", "done"}
        BY <1>0, <1>6 DEF FireIgnored, TypeOK
      <3> QED BY <1>0, <2>1, <2>3, <3>1 DEF Run, TypeOK, Device!Phases
    <2> QED BY <2>2, <2>3
  <1>7. CASE Goes(c) /\ ~Touches(c)
    <2>1. fate' = fate
      BY <1>7 DEF Goes, Touches, Returns, Halts, Work, Fail, Prepares, Fires, Waits, Safes, PrepareRejects,
        PrepareBegins, SeesLoaded, FireBegins, WaitBegins, WaitPolls, WaitAnswers, SafeBegins
    <2> QED BY <1>0, <1>7, <2>1, OnlyTouches, RunKept DEF Untouched
  <1> QED BY <1>r, <1>h, <1>1, <1>2, <1>3, <1>4, <1>5, <1>6, <1>7 DEF Goes, Touches, Returns, FireCommand

\* What a client has seen of its run, or is to be told, stands while its place does.
LEMMA ToldKept ==
  ASSUME Inv, NEW d \in Clients, Told(d), pc'[d] = pc[d], saw'[d] = saw[d], Moves(d),
         resident' = resident \/ fate'[d] \in {"none", "ended", "other"},
         pc[d] \in {"running", "done"} => fate[d] # "none"
  PROVE  Told(d)'
  BY DEF Told, Over, Moves

\* A client that waits has fired.
LEMMA WaitsForRun ==
  ASSUME Inv, NEW d \in Clients, pc[d] \in {"waiting", "running", "done", "timeout"}
  PROVE  fate[d] # "none"
  BY DEF Inv, Lists, Inside

LEMMA ToldStep ==
  ASSUME Inv, NEW c \in Clients, Work(c) \/ Fail(c), NEW d \in Clients
  PROVE  Told(d)'
  <1> USE DEF Goto
  <1>0. TypeOK /\ Told(d) /\ Run(d) /\ Latched /\ pc \in [Clients -> Places]
    BY DEF Inv, TypeOK
  <1>1. CASE d # c
    <2>1. resident' = resident \/ fate'[d] \in {"none", "ended", "other"}
      <3>1. CASE Note(c)
        BY <1>0, <3>1 DEF Note, Turned, TypeOK, Fates
      <3>2. CASE ~Note(c)
        <4>1. CASE Touches(c)
          BY <3>2, <4>1, HaltsDevice DEF Touches, Halt, Write, Load, FireCommand, LinkFailure, SafeFails, session
        <4>2. CASE ~Touches(c)
          BY <4>2, OnlyTouches DEF Untouched
        <4> QED BY <4>1, <4>2
      <3> QED BY <3>1, <3>2
    <2> QED BY <1>0, <1>1, <2>1, Elsewhere, ToldKept, WaitsForRun
  <1>2. CASE d = c /\ WaitPolls(c)
    <2>1. fate[c] # "none" /\ fate[c] \in Fates /\ phase \in Device!Phases
      BY <1>0, <1>2, WaitsForRun DEF WaitPolls, TypeOK
    <2>2. fate' = fate /\ resident' = resident /\ (pc'[c] \in {"running", "done"} => saw'[c] = fate[c])
      BY <1>0, <1>2 DEF WaitPolls, TypeOK, session
    <2>3. CASE SeesDone /\ pc'[c] = "done"
      <3>1. fate[c] \in {"ended", "other"}
        BY <1>0, <1>2, <2>1, <2>3 DEF SeesDone, Run, Latched, Fates
      <3> QED BY <1>2, <2>2, <2>3, <3>1 DEF Told, Over
    <2>4. CASE phase = "running" /\ pc'[c] = "running"
      <3>1. fate[c] \in {"plays", "sweeps", "repeats", "ended", "other"}
            /\ (fate[c] = "plays" => resident \notin Streams)
        BY <1>0, <1>2, <2>1, <2>4 DEF Run, Fates
      <3> QED BY <1>2, <2>2, <2>4, <3>1 DEF Told, Over
    <2>5. CASE pc'[c] = "timeout"
      BY <1>2, <2>5 DEF Told
    <2> QED BY <1>0, <1>2, <2>3, <2>4, <2>5 DEF WaitPolls
  <1>3. CASE d = c /\ WaitAnswers(c)
    <2>1. UNCHANGED <<saw, fate, resident>> /\ pc[c] = "running"
      BY <1>3 DEF WaitAnswers, client, session
    <2>2. CASE resident \in Streams /\ pc'[c] = "done"
      BY <1>0, <1>3, <2>1, <2>2 DEF Told, Over
    <2>3. CASE pc'[c] = "timeout"
      BY <1>3, <2>3 DEF Told
    <2> QED BY <1>0, <1>3, <2>2, <2>3 DEF WaitAnswers
  <1>4. CASE d = c /\ ~WaitPolls(c) /\ ~WaitAnswers(c)
    <2>1. pc'[c] \notin {"running", "done"}
      <3>1. CASE Returns(c)
        BY <1>0, <3>1, ReturnStep DEF Returned
      <3>2. CASE Halts(c)
        BY <1>0, <3>2, HaltStep DEF Returned
      <3>3. CASE Goes(c)
        <4>1. PrepareBegins(c) => pc'[c] \in {"record", "note"}
          BY <1>0 DEF PrepareBegins
        <4> QED BY <1>0, <1>4, <3>3, <4>1 DEF Goes, Returns, Halts, Work, Fail, Prepares, Fires, Waits, Safes,
          PrepareRejects, Note, Halt, Write, Load, SeesLoaded, FireBegins, FireCommand, WaitBegins, SafeBegins
      <3> QED BY <3>1, <3>2, <3>3 DEF Goes
    <2> QED BY <1>4, <2>1 DEF Told
  <1> QED BY <1>1, <1>2, <1>3, <1>4

-----------------------------------------------------------------------------
(* What a client decides to do next, and the device and thread on their    *)
(* own.                                                                    *)

\* A client with nothing to call makes a plan.
LEMMA PlanStep ==
  ASSUME Inv, NEW c \in Clients, NEW s \in Plans, Plan(c, s),
         s # <<>> => Head(s) \notin {"wait", "fireThis"}
  PROVE  Inv'
  <1>0. TypeOK /\ Locked /\ Values /\ Lists4
    BY TypeParts DEF Inv
  <1>1. /\ calls[c] = <<>> /\ calls' = [calls EXCEPT ![c] = s]
        /\ UNCHANGED <<lock, prepared, state, resident, finished, streaming, image, phase, unclear>>
        /\ UNCHANGED <<program, saw, pc, fate>>
    BY DEF Plan, service, session, device
  <1>2. s \in Seq(Calls)
    <2>1. CASE s = <<>>
      BY <2>1
    <2>2. CASE s # <<>>
      BY <2>2, PlanFacts DEF Leads
    <2> QED BY <2>1, <2>2
  <1>3. calls'[c] = s /\ calls' \in [Clients -> Seq(Calls)] /\ \A d \in Clients \ {c} : calls'[d] = calls[d]
    BY <1>0, <1>1, <1>2 DEF Lists4
  <1>4. TypeOK'
    BY <1>0, <1>1, <1>3 DEF TypeOK
  <1>5. ASSUME NEW d \in Clients PROVE Lists(d)' /\ Inside(d)' /\ Holder(d)' /\ Run(d)' /\ Told(d)'
    <2>0. Lists(d) /\ Inside(d) /\ Holder(d) /\ Run(d) /\ Told(d)
      BY DEF Inv
    <2>1. Run(d)' /\ Told(d)'
      BY <1>1, <2>0 DEF Run, Told, Over
    <2>2. CASE d = c
      <3>1. pc[c] = "idle"
        BY <1>1, <2>0, <2>2 DEF Inside
      <3>2. Lists(c)'
        BY <1>3 DEF Lists
      <3> QED BY <1>1, <2>1, <2>2, <3>1, <3>2 DEF Inside, Holder, Critical
    <2>3. CASE d # c
      BY <1>1, <1>3, <2>0, <2>1, <2>3 DEF Lists, Inside, Holder
    <2> QED BY <2>2, <2>3
  <1>6. Resident' /\ Stopping' /\ Latched'
    BY <1>1 DEF Inv, Resident, Stopping, Latched
  <1> QED BY <1>4, <1>5, <1>6 DEF Inv

LEMMA ChooseStep ==
  ASSUME Inv, NEW c \in Clients, Choose(c)
  PROVE  Inv'
  <1>1. PICK s \in {<<"safe", "prepare", "fire">>, <<"safe", "prepare", "fire", "wait">>, <<"safe">>,
                    <<"prepare", "fireThis", "wait">>, <<"fire", "wait">>} : Plan(c, s)
    BY Zenon DEF Choose, OnPulse, OffPulse, Shot, FireAgain
  <1>2. s \in Plans /\ Head(s) \notin {"wait", "fireThis"}
    BY DEF Plans
  <1> QED BY <1>1, <1>2, PlanStep

\* The device loads and plays on its own, and the session's thread ends a scan of K
\* sweeps or dies.
Alone == DeviceLoaded \/ DevicePlays \/ SweepsEnd \/ StreamDies

LEMMA AloneFacts ==
  ASSUME Inv, Alone
  PROVE  /\ UNCHANGED <<lock, prepared, state, resident, image, unclear, calls, program, saw, pc>>
         /\ streaming' \in BOOLEAN /\ (streaming' => streaming) /\ finished' \in BOOLEAN
         /\ phase' \in Device!Phases /\ fate' \in [Clients -> Fates]
         /\ \A d \in Clients : Moves(d)
         /\ \/ phase = "loading" /\ phase' = "loaded" /\ finished' = finished /\ fate' = fate
            \/ /\ phase = "running" /\ phase' = "done" /\ finished' = finished /\ image \notin Streams
               /\ fate' = Turned({"plays"}, "ended")
            \/ /\ phase = "running" /\ phase' = "reset" /\ streaming /\ image \in Streams
               /\ fate' = Turned({"sweeps"}, "ended")
            \/ phase' = phase /\ finished' = finished /\ fate' = fate
  <1> USE DEF service, session, device, client
  <1>0. TypeOK /\ streaming \in BOOLEAN /\ finished \in BOOLEAN /\ phase \in Device!Phases
        /\ fate \in [Clients -> Fates]
    BY DEF Inv, TypeOK
  <1>1. CASE DeviceLoaded
    BY <1>0, <1>1 DEF DeviceLoaded, Device!Loaded, Device!Phases, Moves
  <1>2. CASE DevicePlays
    <2>0. fate' = Turned({"plays"}, "ended")
      BY <1>2 DEF DevicePlays
    <2>1. fate' \in [Clients -> Fates] /\ \A d \in Clients : Moves(d)
      <3>1. "ended" \in Fates /\ {"plays"} \subseteq {"plays", "sweeps", "repeats"}
        BY DEF Fates
      <3> QED BY <1>0, <2>0, <3>1, TurnedType, TurnedMoves
    <2> QED BY <1>0, <1>2, <2>1 DEF DevicePlays, Device!Play, Device!Phases
  <1>3. CASE SweepsEnd
    <2>0. fate' = Turned({"sweeps"}, "ended")
      BY <1>3 DEF SweepsEnd
    <2>1. fate' \in [Clients -> Fates] /\ \A d \in Clients : Moves(d)
      <3>1. "ended" \in Fates /\ {"sweeps"} \subseteq {"plays", "sweeps", "repeats"}
        BY DEF Fates
      <3> QED BY <1>0, <2>0, <3>1, TurnedType, TurnedMoves
    <2> QED BY <1>0, <1>3, <2>1 DEF SweepsEnd, Device!Safe, Device!Phases
  <1>4. CASE StreamDies
    BY <1>0, <1>4 DEF StreamDies, Moves
  <1> QED BY <1>1, <1>2, <1>3, <1>4 DEF Alone

LEMMA AloneStep ==
  ASSUME Inv, Alone
  PROVE  Inv'
  <1>0. TypeOK /\ Resident /\ Stopping /\ Latched
        /\ \A d \in Clients : Lists(d) /\ Inside(d) /\ Holder(d) /\ Run(d) /\ Told(d)
    BY DEF Inv
  <1>1. TypeOK'
    BY <1>0, AloneFacts DEF TypeOK
  <1>2. ASSUME NEW d \in Clients PROVE Lists(d)' /\ Inside(d)'
    BY <1>0, AloneFacts, KeepsList DEF Inside, Moves
  <1>3. ASSUME NEW d \in Clients PROVE Holder(d)'
    BY <1>0, AloneFacts DEF Holder
  <1>4. ASSUME NEW d \in Clients PROVE Run(d)'
    <2>0. Run(d) /\ fate[d] \in Fates
      BY <1>0 DEF TypeOK
    <2>1. CASE phase = "loading" /\ phase' = "loaded" /\ finished' = finished /\ fate' = fate
      BY <2>0, <2>1, AloneFacts DEF Run
    <2>2. CASE phase = "running" /\ image \notin Streams /\ fate' = Turned({"plays"}, "ended")
      <3>1. fate[d] \in {"none", "plays", "ended", "other"}
        BY <2>0, <2>2 DEF Run, Streams, Fates
      <3>2. fate'[d] = IF fate[d] \in {"plays"} THEN "ended" ELSE fate[d]
        BY <2>2 DEF Turned
      <3> QED BY <3>1, <3>2 DEF Run
    <2>3. CASE phase = "running" /\ streaming /\ image \in Streams /\ fate' = Turned({"sweeps"}, "ended")
      <3>1. resident \in Repeated /\ resident \notin Forever
        BY <1>0, <2>3, ServiceAssumption DEF Latched
      <3>2. fate[d] \in {"none", "sweeps", "ended", "other"}
        BY <2>0, <2>3, <3>1 DEF Run, Fates
      <3>3. fate'[d] = IF fate[d] \in {"sweeps"} THEN "ended" ELSE fate[d]
        BY <2>3 DEF Turned
      <3> QED BY <3>2, <3>3 DEF Run
    <2>4. CASE phase' = phase /\ finished' = finished /\ fate' = fate
      BY <2>0, <2>4, AloneFacts DEF Run
    <2> QED BY <2>1, <2>2, <2>3, <2>4, AloneFacts
  <1>5. ASSUME NEW d \in Clients PROVE Told(d)'
    <2>1. pc[d] \in {"running", "done"} => fate[d] # "none"
      BY WaitsForRun
    <2> QED BY <1>0, <2>1, AloneFacts, ToldKept
  <1>6. Latched'
    BY <1>0, AloneFacts DEF Latched
  <1>7. Resident' /\ Stopping'
    BY <1>0, AloneFacts DEF Resident, Stopping
  <1> QED BY <1>1, <1>2, <1>3, <1>4, <1>5, <1>6, <1>7 DEF Inv

-----------------------------------------------------------------------------
(* The theorems.                                                           *)

LEMMA InvInit == Init => Inv
  <1> SUFFICES ASSUME Init PROVE Inv
    OBVIOUS
  <1>1. TypeOK
    <2>1. Locked
      BY NamesApart DEF Init, Locked, Places, Critical
    <2>2. Values
      BY DEF Init, Values, Device!Init, Device!Phases
    <2>3. Lists4
      BY DEF Init, Lists4, Fates
    <2> QED BY <2>1, <2>2, <2>3, TypeParts
  <1>2. ASSUME NEW c \in Clients PROVE Lists(c) /\ Inside(c) /\ Holder(c) /\ Run(c) /\ Told(c)
    <2>1. calls[c] = <<>> /\ pc[c] = "idle" /\ fate[c] = "none"
      BY DEF Init
    <2>2. <<>> \in Plans
      BY DEF Plans
    <2> QED BY <2>1, <2>2 DEF Lists, Inside, Holder, Run, Told, Critical
  <1>3. Resident /\ Stopping /\ Latched
    BY DEF Init, Device!Init, Resident, Stopping, Latched
  <1> QED BY <1>1, <1>2, <1>3 DEF Inv

LEMMA InvStutter == Inv /\ UNCHANGED vars => Inv'
  <1> SUFFICES ASSUME Inv, UNCHANGED vars PROVE Inv'
    OBVIOUS
  <1>1. UNCHANGED <<lock, prepared, state, resident, finished, streaming, image, phase, unclear,
                    calls, program, saw, pc, fate>>
    BY DEF vars, service, session, device, client
  <1>2. TypeOK'
    BY <1>1 DEF Inv, TypeOK
  <1>3. ASSUME NEW c \in Clients PROVE Lists(c)' /\ Inside(c)' /\ Holder(c)' /\ Run(c)' /\ Told(c)'
    <2>1. Lists(c) /\ Inside(c) /\ Holder(c) /\ Run(c) /\ Told(c)
      BY DEF Inv
    <2> QED BY <1>1, <2>1 DEF Lists, Inside, Holder, Run, Told, Over
  <1>4. Resident' /\ Stopping' /\ Latched'
    BY <1>1 DEF Inv, Resident, Stopping, Latched
  <1> QED BY <1>2, <1>3, <1>4 DEF Inv

LEMMA InvNext == Inv /\ [Next]_vars => Inv'
  <1> SUFFICES ASSUME Inv, [Next]_vars PROVE Inv'
    OBVIOUS
  <1>1. ASSUME NEW c \in Clients, Work(c) \/ Fail(c) PROVE Inv'
    <2>1. TypeOK'
      <3>1. Locked' /\ Values' /\ Lists4'
        BY <1>1, LockStep, ValueStep, Elsewhere
      <3> QED BY <3>1 DEF TypeOK, Locked, Values, Lists4
    <2>2. \A d \in Clients : Lists(d)' /\ Inside(d)' /\ Holder(d)' /\ Run(d)' /\ Told(d)'
      BY <1>1, ListsStep, InsideStep, HolderStep, RunStep, ToldStep
    <2>3. Resident' /\ Stopping' /\ Latched'
      BY <1>1, ResidentStep, StoppingStep, LatchedStep
    <2> QED BY <2>1, <2>2, <2>3 DEF Inv
  <1>2. ASSUME NEW c \in Clients, Choose(c) PROVE Inv'
    BY <1>2, ChooseStep
  <1>3. CASE Alone
    BY <1>3, AloneStep
  <1>4. CASE UNCHANGED vars
    BY <1>4, InvStutter
  <1> QED BY <1>1, <1>2, <1>3, <1>4 DEF Next, Alone

\* Every reachable state satisfies the invariant.
THEOREM Invariance == Spec => []Inv
  BY InvInit, InvNext, PTL DEF Spec

\* The types, and that the lock is held exactly inside prepare and fire.
THEOREM TypeCorrect == Spec => []TypeOK
  <1>1. Inv => TypeOK
    BY DEF Inv
  <1> QED BY <1>1, Invariance, PTL

\* With no call under way, a service that says "safe" and has had no failure since
\* the SAFE has a device that is halted.
THEOREM StopHalts == Spec => []SafeMeansReset
  <1>1. Inv => SafeMeansReset
    BY DEF Inv, Stopping, SafeMeansReset, Quiet
  <1> QED BY <1>1, Invariance, PTL

\* wait_done answers done only of a run that has ended, of one that repeats, or to a
\* client whose run another has taken the place of: never while a client's own finite
\* run plays, nor because somebody stopped it.
THEOREM WaitTellsTruth == Spec => []WaitTruthful
  <1>1. Inv => WaitTruthful
    BY DEF Inv, Told, Over, WaitTruthful
  <1> QED BY <1>1, Invariance, PTL

\* Only the fire of the client inside the lock starts the device.
LEMMA WhoStarts ==
  ASSUME Inv, [Next]_vars, Starts
  PROVE  \E c \in Clients : FireCommand(c) /\ phase = "loaded"
  <1>1. CASE UNCHANGED vars
    BY <1>1 DEF vars, device, Starts
  <1>2. CASE Alone
    BY <1>2, AloneFacts DEF Starts
  <1>3. ASSUME NEW c \in Clients, Choose(c) PROVE FALSE
    BY <1>3 DEF Choose, OnPulse, OffPulse, Shot, FireAgain, Plan, device, Starts
  <1>4. ASSUME NEW c \in Clients, Work(c) \/ Fail(c) PROVE FireCommand(c) /\ phase = "loaded"
    <2>1. CASE Touches(c)
      BY <2>1, HaltsDevice DEF Touches, Note, Halt, HaltEngine, Write, Load, LinkFailure, SafeFails,
        Device!Safe, Device!Load, FireCommand, FireStarted, FireIgnored, Device!Fire, device, Starts
    <2>2. CASE ~Touches(c)
      BY <1>4, <2>2, OnlyTouches DEF Untouched, Starts
    <2> QED BY <2>1, <2>2
  <1> QED BY <1>1, <1>2, <1>3, <1>4 DEF Next, Alone

\* The client inside the lock starts what is prepared, which is its program.
LEMMA StartFacts ==
  ASSUME Inv, NEW c \in Clients, FireCommand(c), phase = "loaded", ~unclear
  PROVE  image = prepared /\ program[c] = prepared /\ lock = c
  <1>1. pc[c] = "start" /\ pc[c] \in Critical /\ Holder(c) /\ Inside(c) /\ Resident /\ TypeOK
    BY DEF FireCommand, Critical, Inv
  <1>2. \A d \in Clients : pc[d] # "halt"
    BY <1>1, LockIsOne DEF Critical
  <1>3. image = resident
    BY <1>1, <1>2 DEF Resident
  <1> QED BY <1>1, <1>3, LockIsOne DEF Holder, Inside

\* A run begins with what the service holds as prepared, complete in the device.
THEOREM StartsPrepared == Spec => FiresPrepared
  <1>1. Inv /\ [Next]_vars => [Starts /\ ~unclear => image = prepared]_vars
    BY WhoStarts, StartFacts
  <1> QED BY <1>1, Invariance, PTL DEF Spec, FiresPrepared

\* A shot plays its own program or none.
THEOREM ShotIsItsOwn == Spec => ShotPlaysItsOwn
  <1>1. ASSUME Inv, [Next]_vars, NEW c \in Clients, Starts, ~unclear, lock = c
        PROVE  image = program[c]
    <2>1. PICK d \in Clients : FireCommand(d) /\ phase = "loaded"
      BY <1>1, WhoStarts
    <2> QED BY <1>1, <2>1, StartFacts
  <1>2. Inv /\ [Next]_vars =>
          [\A c \in Clients : Starts /\ ~unclear /\ lock = c /\ Head(calls[c]) = "fireThis"
             => image = program[c]]_vars
    BY <1>1
  <1> QED BY <1>2, Invariance, PTL DEF Spec, ShotPlaysItsOwn
=============================================================================
