--------------------------- MODULE SequencerService ---------------------------
(***************************************************************************)
(* The sequencer service on the FPGA computer, used by several clients at  *)
(* once (one RPyC thread per connection), above the session that drives    *)
(* the pulse streamer.  prepare and fire call the session under the        *)
(* service's lock; wait_done and the SAFE of set_safe_state, abort and a   *)
(* lost connection do not.  The device is that of StreamerLifecycle.       *)
(*                                                                         *)
(* A client plays pulses the way PulseController does (stop, prepare, fire *)
(* and perhaps wait), or takes shots the way capture_frames does (prepare, *)
(* fire this program, wait), or fires once more what is prepared.          *)
(*                                                                         *)
(* A program is finite, streams for ever, or is a scan that is to sweep K  *)
(* times: to the FPGA one without an end, which the session's refill       *)
(* thread halts after its last sweep.                                      *)
(***************************************************************************)
EXTENDS Sequences

CONSTANTS Clients,
          Programs, Forever,   \* the programs; those that stream for ever
          Repeated,            \* those that are halted after K sweeps
          NoProgram, Torn,     \* no prepared program; a half-written image
          CachePrepared,       \* ZLC_SEQUENCER_CACHE_PREPARED
          LinkFails            \* a transaction may fail

ASSUME ServiceAssumption ==
  /\ Programs # {} /\ Forever \subseteq Programs
  /\ Repeated \subseteq Programs \ Forever
  /\ NoProgram \notin Programs /\ Torn \notin Programs
  /\ {CachePrepared, LinkFails} \subseteq BOOLEAN
  /\ "free" \notin Clients

VARIABLES lock, prepared,
          state,                   \* the service's: "safe", "running" or another
          resident, finished,      \* the session's _program, _scan_finished,
          streaming,               \* and whether its thread counts the K sweeps
          image, phase,            \* BRAM; the device
          calls, pc, program,      \* a client: its calls to make, the place in
                                   \* the first, its program
          fate, saw,               \* history: what became of the run its fire began,
                                   \* now and when its wait read STATUS
          unclear                  \* a transaction failed after the last SAFE

service == <<lock, prepared, state>>
session == <<resident, finished, streaming>>
device == <<image, phase, unclear>>
client == <<calls, program, saw>>
vars == <<service, session, device, client, pc, fate>>

Device == INSTANCE StreamerLifecycle

Streams == Forever \cup Repeated   \* repeat_forever: DONE never comes

Free == "free"

Init ==
  /\ lock = Free /\ prepared = NoProgram /\ state = "idle"
  /\ resident = NoProgram /\ finished = FALSE /\ streaming = FALSE
  /\ image = Torn /\ unclear = FALSE /\ Device!Init
  /\ calls = [c \in Clients |-> <<>>] /\ pc = [c \in Clients |-> "idle"]
  /\ program = [c \in Clients |-> NoProgram]
  /\ fate = [c \in Clients |-> "none"] /\ saw = fate

Goto(c, place) == pc' = [pc EXCEPT ![c] = place]
Begin(c, call) == pc[c] = "idle" /\ calls[c] # <<>> /\ Head(calls[c]) = call
\* mutant: the block is not locked
AcquireNothing(c) == UNCHANGED lock
Acquire(c) == lock = Free /\ lock' = c

\* mutant: the lock is kept
ReleaseNever == UNCHANGED lock
Release == lock' = Free

(* A call returns; if it raises, the client makes none of its others.  The *)
(* program is kept for a fire that names it.  The history stands at `fates` *)
(* and forgets a client that has no call left.                             *)
Return(c, result, fates) ==
  /\ Goto(c, "idle") /\ saw' = [saw EXCEPT ![c] = "none"]
  /\ calls' = [calls EXCEPT ![c] = IF result = "raised" THEN <<>> ELSE Tail(@)]
  /\ program' = IF calls'[c] # <<>> /\ Head(calls'[c]) = "fireThis"
                  THEN program ELSE [program EXCEPT ![c] = NoProgram]
  /\ fate' = IF calls'[c] = <<>> THEN [fates EXCEPT ![c] = "none"] ELSE fates

Turned(from, to) == [c \in Clients |-> IF fate[c] \in from THEN to ELSE fate[c]]

-----------------------------------------------------------------------------
(* The device on its own, and the thread that halts it after K sweeps; the *)
(* thread's SAFE and the latch behind it are one step, as whoever stops    *)
(* the thread joins it.                                                    *)

DeviceLoaded == Device!Loaded /\ UNCHANGED <<service, session, image, unclear, client, pc, fate>>

DevicePlays ==
  /\ image \notin Streams /\ Device!Play
  /\ fate' = Turned({"plays"}, "ended")
  /\ UNCHANGED <<service, session, image, unclear, client, pc>>

SweepsEnd ==
  /\ streaming /\ image \in Streams /\ phase = "running"
  /\ Device!Safe /\ finished' = TRUE /\ streaming' = FALSE
  /\ fate' = Turned({"sweeps"}, "ended")
  /\ UNCHANGED <<service, resident, image, unclear, client, pc>>

StreamDies ==
  /\ LinkFails /\ streaming
  /\ streaming' = FALSE
  /\ UNCHANGED <<service, resident, finished, device, client, pc, fate>>

-----------------------------------------------------------------------------
(* What a client does next.                                                *)

Plan(c, s) ==
  /\ calls[c] = <<>> /\ calls' = [calls EXCEPT ![c] = s]
  /\ UNCHANGED <<service, session, device, program, saw, pc, fate>>

OnPulse(c) ==
  \/ Plan(c, <<"safe", "prepare", "fire">>)
  \/ Plan(c, <<"safe", "prepare", "fire", "wait">>)

OffPulse(c) == Plan(c, <<"safe">>)
Shot(c) == Plan(c, <<"prepare", "fireThis", "wait">>)
FireAgain(c) == Plan(c, <<"fire", "wait">>)

-----------------------------------------------------------------------------
(* prepare                                                                 *)

Cached(p) == CachePrepared /\ prepared = p

PrepareBegins(c) ==
  /\ Begin(c, "prepare") /\ Acquire(c)
  /\ \E p \in Programs :
       /\ program' = [program EXCEPT ![c] = p]
       /\ Goto(c, IF Cached(p) THEN "record" ELSE "note")
  /\ UNCHANGED <<prepared, state, session, device, calls, saw, fate>>

(* The program does not compile: a stream that may be playing is stopped.  *)
PrepareRejects(c) ==
  /\ Begin(c, "prepare")
  /\ IF prepared \in Streams THEN Goto(c, "reject") /\ UNCHANGED <<client, fate>>
                             ELSE Return(c, "raised", fate)
  /\ UNCHANGED <<service, session, device>>

Stopped == Turned({"plays", "sweeps", "repeats"}, "stopped")
HaltEngine == Device!Safe /\ unclear' = FALSE

(* safe_state stops the thread too.                                        *)
SafeState == HaltEngine /\ streaming' = FALSE

SafeOnReject(c) ==
  /\ pc[c] = "reject" /\ Return(c, "raised", Stopped)
  /\ SafeState
  /\ UNCHANGED <<service, resident, finished, image>>

(* The session's prepare, also called from fire.                           *)
Note(c) ==
  /\ pc[c] = "note" /\ Goto(c, "halt")
  /\ resident' = program[c] /\ finished' = FALSE /\ streaming' = FALSE
  /\ fate' = Turned({"plays", "sweeps", "repeats", "stopped"}, "other")
  /\ UNCHANGED <<service, device, client>>

Halt(c) ==
  /\ pc[c] = "halt" /\ Goto(c, "write")
  /\ HaltEngine /\ fate' = Stopped
  /\ UNCHANGED <<service, session, image, client>>

Write(c) ==
  /\ pc[c] = "write"
  /\ \/ image # Torn /\ image' = Torn /\ UNCHANGED pc
     \/ image = Torn /\ image' = program[c] /\ Goto(c, "load")
  /\ UNCHANGED <<service, session, phase, unclear, client, fate>>

Load(c) ==
  /\ pc[c] = "load" /\ Goto(c, "poll")
  /\ Device!Load
  /\ UNCHANGED <<service, session, image, unclear, client, fate>>

SeesLoaded(c) ==
  /\ pc[c] = "poll" /\ phase = "loaded"
  /\ Goto(c, IF Head(calls[c]) = "prepare" THEN "record" ELSE "start")
  /\ UNCHANGED <<service, session, device, client, fate>>

(* load_timeout is seconds, the copy below a millisecond.                  *)
NotLoaded(c) ==
  /\ pc[c] = "poll" /\ phase \notin {"loading", "loaded"}
  /\ Return(c, "raised", fate) /\ Release
  /\ UNCHANGED <<prepared, state, session, device>>

(* A transaction raises, its words executed or not.                        *)
LinkFailure(c) ==
  /\ LinkFails /\ pc[c] \in {"halt", "write", "load", "poll", "start", "fired"}
  /\ Return(c, "raised", fate) /\ Release /\ unclear' = TRUE
  /\ UNCHANGED <<prepared, state, session, image, phase>>

PrepareReturns(c) ==
  /\ pc[c] = "record" /\ Return(c, "ok", fate) /\ Release
  /\ prepared' = program[c] /\ state' = "idle"
  /\ UNCHANGED <<session, device>>

-----------------------------------------------------------------------------
(* fire                                                                    *)

SameResident(p) == resident = p

\* mutant: fire(sequence) does not compare it with the prepared program
MatchesAlways(c) == TRUE
Matches(c) == Head(calls[c]) = "fire" \/ program[c] = prepared

FireBegins(c) ==
  /\ Begin(c, "fire") \/ Begin(c, "fireThis")
  /\ prepared # NoProgram /\ Matches(c) /\ Acquire(c)
  /\ program' = IF Head(calls[c]) = "fire" THEN [program EXCEPT ![c] = prepared] ELSE program
  /\ Goto(c, IF SameResident(prepared) THEN "start" ELSE "note")
  /\ UNCHANGED <<prepared, state, session, device, calls, saw, fate>>

(* fire and wait_done raise if no program is prepared, fire also if it is  *)
(* not the one it is given, wait_done also without a time-out of its own   *)
(* if the program is repeat_forever.                                       *)
NotPrepared(c) ==
  /\ lock = Free /\ Return(c, "raised", fate)
  /\ \/ \E call \in {"fire", "fireThis", "wait"} : Begin(c, call) /\ prepared = NoProgram
     \/ Begin(c, "fireThis") /\ ~Matches(c)
     \/ Begin(c, "wait") /\ prepared \in Streams
  /\ UNCHANGED <<service, session, device>>

(* CMD_FIRE, and the thread is started; the FPGA ignores the command unless *)
(* an image is loaded.  Who waited for another run now waits for this one. *)
FireStarted(c) ==
  /\ Device!Fire
  /\ fate' = [d \in Clients |->
       IF d = c THEN IF image # resident THEN "other"
                     ELSE IF image \in Forever THEN "repeats"
                     ELSE IF image \in Repeated THEN "sweeps" ELSE "plays"
       ELSE IF fate[d] \in {"none", "ended"} THEN fate[d] ELSE "other"]

FireIgnored(c) ==
  /\ phase # "loaded" /\ UNCHANGED phase
  /\ fate' = [fate EXCEPT ![c] =
       IF finished \/ phase \in {"running", "done"} THEN "other" ELSE "stopped"]

FireCommand(c) ==
  /\ pc[c] = "start" /\ Goto(c, "fired")
  /\ FireStarted(c) \/ FireIgnored(c)
  /\ streaming' = (resident \in Repeated)
  /\ UNCHANGED <<service, resident, finished, image, unclear, client>>

FireReturns(c) ==
  /\ pc[c] = "fired" /\ Return(c, "ok", fate) /\ Release
  /\ state' = "running"
  /\ UNCHANGED <<prepared, session, device>>

-----------------------------------------------------------------------------
(* wait_done: the poll is outside the lock.                                *)

WaitBegins(c) ==
  /\ Begin(c, "wait") /\ lock = Free /\ prepared # NoProgram
  /\ Goto(c, "waiting")
  /\ UNCHANGED <<service, session, device, client, fate>>

\* mutant: an unfinished run counts as done
SeesDoneEarly == finished \/ phase \in {"done", "running"}
SeesDone == finished \/ phase = "done"

(* The latch and STATUS are read; of a program that repeats, RUNNING will  *)
(* do, but which program it is, is read later.                             *)
WaitPolls(c) ==
  /\ pc[c] = "waiting"
  /\ \/ SeesDone /\ Goto(c, "done")
     \/ ~SeesDone /\ phase = "running" /\ Goto(c, "running")
     \/ ~SeesDone /\ phase # "running" /\ Goto(c, "timeout")
  /\ saw' = IF pc'[c] = "timeout" THEN saw ELSE [saw EXCEPT ![c] = fate[c]]
  /\ UNCHANGED <<service, session, device, calls, program, fate>>

WaitAnswers(c) ==
  /\ pc[c] = "running"
  /\ Goto(c, IF resident \in Streams THEN "done" ELSE "timeout")
  /\ UNCHANGED <<service, session, device, client, fate>>

WaitReturns(c) ==
  /\ pc[c] \in {"done", "timeout"} /\ lock = Free
  /\ state' = "idle"
  /\ Return(c, pc[c], fate)
  /\ UNCHANGED <<lock, prepared, session, device>>

-----------------------------------------------------------------------------
(* set_safe_state, abort (its state, "aborted", is taken for "safe"), and a *)
(* connection that is lost.                                                *)

SafeBegins(c) ==
  /\ Begin(c, "safe") /\ lock = Free
  /\ prepared' = NoProgram /\ state' = "safe"
  /\ Goto(c, "safing")
  /\ UNCHANGED <<lock, session, device, client, fate>>

\* mutant: SAFE only if the service says a program runs
SafeHaltsIfRunning ==
  IF state = "running" THEN SafeState ELSE UNCHANGED <<phase, unclear, streaming>>
SafeHalts == SafeState

SafeReturns(c) ==
  /\ pc[c] = "safing" /\ Return(c, "ok", Stopped)
  /\ SafeHalts
  /\ UNCHANGED <<service, resident, finished, image>>

SafeFails(c) ==
  /\ LinkFails /\ pc[c] = "safing" /\ Return(c, "raised", fate)
  /\ unclear' = TRUE /\ streaming' = FALSE
  /\ UNCHANGED <<service, resident, finished, image, phase>>

-----------------------------------------------------------------------------
Prepares(c) ==
  \/ PrepareBegins(c) \/ Note(c) \/ Halt(c) \/ Write(c) \/ Load(c) \/ SeesLoaded(c)
  \/ NotLoaded(c) \/ PrepareReturns(c) \/ SafeOnReject(c)
Fires(c) == FireBegins(c) \/ NotPrepared(c) \/ FireCommand(c) \/ FireReturns(c)
Waits(c) == WaitBegins(c) \/ WaitPolls(c) \/ WaitAnswers(c) \/ WaitReturns(c)
Safes(c) == SafeBegins(c) \/ SafeReturns(c)

Work(c) == Prepares(c) \/ Fires(c) \/ Waits(c) \/ Safes(c)
Fail(c) == PrepareRejects(c) \/ LinkFailure(c) \/ SafeFails(c)
Choose(c) == OnPulse(c) \/ OffPulse(c) \/ Shot(c) \/ FireAgain(c)

Next ==
  \/ DeviceLoaded \/ DevicePlays \/ SweepsEnd \/ StreamDies
  \/ \E c \in Clients : Work(c) \/ Fail(c) \/ Choose(c)

(* Threads run, the lock is granted in turn, and the device copies and     *)
(* plays; no client has to call, nothing has to fail.                      *)
Spec ==
  /\ Init /\ [][Next]_vars
  /\ \A c \in Clients : SF_vars(Work(c))
  /\ WF_vars(DeviceLoaded) /\ WF_vars(DevicePlays)

-----------------------------------------------------------------------------
Calls == {"safe", "prepare", "fire", "fireThis", "wait"}

Places == {"idle", "reject", "note", "halt", "write", "load", "poll", "record", "start",
           "fired", "waiting", "running", "done", "timeout", "safing"}

(* Of the run a client's fire began: none yet; it plays, once, for K sweeps *)
(* or for ever; it ended by itself; it was stopped, or did not begin, and   *)
(* nothing plays; the device or the session is at another one.              *)
Fates == {"none", "plays", "sweeps", "repeats", "ended", "stopped", "other"}

Critical == {"note", "halt", "write", "load", "poll", "record", "start", "fired"}

(* Types; the service's lock is held exactly inside prepare and fire.      *)
TypeOK ==
  /\ prepared \in Programs \cup {NoProgram} /\ resident \in Programs \cup {NoProgram}
  /\ state \in {"idle", "running", "safe"}
  /\ image \in Programs \cup {Torn} /\ phase \in Device!Phases
  /\ unclear \in BOOLEAN
  /\ program \in [Clients -> Programs \cup {NoProgram}] /\ pc \in [Clients -> Places]
  /\ finished \in BOOLEAN /\ streaming \in BOOLEAN
  /\ fate \in [Clients -> Fates] /\ saw \in [Clients -> Fates]
  /\ calls \in [Clients -> Seq(Calls)]
  /\ lock \in Clients \cup {Free} /\ \A c \in Clients : lock = c <=> pc[c] \in Critical

Starts == phase # "running" /\ phase' = "running"

(* A run begins with the program the service holds as prepared, complete   *)
(* in the device, whatever other clients did to earlier uploads; after a   *)
(* failed transaction, from the next SAFE on.                              *)
FiresPrepared == [][Starts /\ ~unclear => image = prepared]_vars

(* A shot plays its own program or none, whatever other clients prepare    *)
(* between its prepare and its fire.                                       *)
ShotPlaysItsOwn ==
  [][\A c \in Clients :
       Starts /\ ~unclear /\ lock = c /\ Head(calls[c]) = "fireThis"
         => image = program[c]]_vars

Quiet == \A c \in Clients : pc[c] = "idle"

(* After a stop that was the last word and did not fail, with no call      *)
(* under way, the device is halted: "leave hardware in the safe state on   *)
(* disconnect".                                                            *)
SafeMeansReset ==
  Quiet /\ state = "safe" /\ ~unclear => phase = "reset"

(* Every call a client makes returns, those that wait for the lock         *)
(* included.                                                               *)
CallsReturn == \A c \in Clients : calls[c] # <<>> ~> calls[c] = <<>>

(* wait_done answers done only if, when it read STATUS or since, the run    *)
(* that the caller's fire began had ended, or is one that repeats and was   *)
(* playing; or if the caller's is no longer the run that device and session *)
(* are at: its FIRE met another, or another client has prepared or fired.   *)
(* So not while its finite run plays, and not because somebody stopped it.  *)
WaitTruthful ==
  \A c \in Clients :
    pc[c] = "done" =>
      \/ saw[c] \in {"ended", "sweeps", "repeats", "other"}
      \/ fate[c] \in {"ended", "other"}

(* What a caller would take it for: its own run has ended, or never does.   *)
(* Not so, and in no run: README, section 3.                                *)
DoneOfOwnRun ==
  \A c \in Clients :
    pc[c] = "done" => saw[c] \in {"ended", "sweeps", "repeats"} \/ fate[c] = "ended"

(* "returns the instant that happens": wait_done answers a scan of K sweeps *)
(* when they are played.  Not so, and in no run.                            *)
SweepsDone == \A c \in Clients : pc[c] = "done" => saw[c] # "sweeps" \/ fate[c] = "ended"

(* A fire that does not fail starts the engine: "already-prepared -> just  *)
(* fire".                                                                  *)
FireStarts == [][\A c \in Clients : pc[c] = "start" /\ pc'[c] = "fired" => Starts]_vars
=============================================================================
