------------------------------ MODULE Acquisition -------------------------------
(***************************************************************************)
(* Nodes that take frames: the console starts and stops them one at a time *)
(* per device, each runs its shots in a thread of its own, a live view     *)
(* reads the triggers that happen by, a scan arms its camera, fires the    *)
(* sequencer and reads back.  A user plays pulses on the same sequencer.   *)
(*                                                                         *)
(* A thread is numbered by its start.  The console builds a new node       *)
(* object for every start, and stops what shares a device with it; but the *)
(* panel editor's Apply takes a shot with an object the console has let go *)
(* of, on the console's own thread, and starts it again, asking nobody.    *)
(* A fire is the thread and the number of its shot, and a frame is known   *)
(* by the fire whose trigger exposed it.  One call to the sequencer is one *)
(* step here; SequencerService has what can happen inside.                 *)
(***************************************************************************)
EXTENDS Integers, Sequences, FiniteSets

CONSTANTS Nodes, Cameras,
          Camera,        \* the camera each node reads
          Scans,         \* nodes that fire the sequencer
          MaxStarts,     \* bound: nodes started
          MaxShots,      \* bound: shots a scan takes
          MaxFaults,     \* bound: calls to the sequencer that raise, and
                         \* Applies to a node that does not run
          MaxGiveUps,    \* bound: joins that time out
          MaxPending,    \* bound: frames of a pulse in a camera's queue
          Nobody, User

ASSUME AcquisitionAssumption ==
  /\ Camera \in [Nodes -> Cameras] /\ Scans \subseteq Nodes
  /\ {MaxStarts, MaxShots, MaxFaults, MaxGiveUps, MaxPending} \subseteq Nat
  /\ Nobody # User
  /\ \A x \in {Nobody, User} : x \notin Nodes /\ x \notin Nat /\ x \notin Nat \X Nat

Threads == 1..MaxStarts
Fires == Threads \X (1..MaxShots)
Pulse == <<0, 0>>          \* the tag of the user's pulse

VARIABLES
  node, object,            \* of a thread: its node, and the first thread of
                           \* the same object
  pc, shot, frame,         \* its place, shots begun, and the frame of the shot
                           \* of a scan
  stop, abandoned,         \* threads whose object has _stop set; those whose
                           \* join gave up
  owner, pending,          \* of a camera: who holds its lock (and armed it),
                           \* and the frames queued for it
  prepared, phase, fire,   \* the sequencer: whose program, its phase and tag
  current, joining,        \* the console: each node's thread, the thread it
                           \* waits for
  applying, unlisted,      \* the thread Apply is taking a shot as; threads it
                           \* started that the console does not know
  unsafe, disturbed,       \* fires left without a SAFE; threads in whose shot
                           \* others commanded the sequencer
  faults

born == <<node, object>>
threads == <<born, pc, shot, frame>>
cameras == <<owner, pending>>
sequencer == <<prepared, phase, fire, disturbed>>
editor == <<applying, unlisted>>
console == <<stop, abandoned, current, joining, editor>>
vars == <<threads, cameras, sequencer, console, unsafe, faults>>

Init ==
  /\ node = [t \in Threads |-> Nobody] /\ object = [t \in Threads |-> t]
  /\ pc = [t \in Threads |-> "unborn"]
  /\ shot = [t \in Threads |-> 0] /\ frame = [t \in Threads |-> Nobody]
  /\ stop = {} /\ abandoned = {}
  /\ owner = [c \in Cameras |-> Nobody] /\ pending = [c \in Cameras |-> <<>>]
  /\ prepared = Nobody /\ phase = "reset" /\ fire = Pulse
  /\ current = [n \in Nodes |-> Nobody] /\ joining = Nobody
  /\ applying = Nobody /\ unlisted = {}
  /\ unsafe = {} /\ disturbed = {} /\ faults = 0

Goto(t, place) == pc' = [pc EXCEPT ![t] = place]
Fault == faults < MaxFaults /\ faults' = faults + 1
Cam(t) == Camera[node[t]]
Own(t) == <<t, shot[t]>>
Scanning(t) == node[t] \in Scans
Same(t) == {u \in Threads : object[u] = object[t]}
Running(t) == pc[t] \notin {"unborn", "ended"}

-----------------------------------------------------------------------------
(* The sequencer and its wires.  A scan's program has one edge on the line *)
(* of its own camera, then a tail; a pulse triggers every camera for ever. *)

Wired == IF fire = Pulse THEN Cameras ELSE {Cam(fire[1])}

(* _deliver: a frame for whoever has the camera armed.                     *)
Deliver(c, tag) ==
  pending' = [pending EXCEPT ![c] = IF owner[c] = Nobody THEN @ ELSE Append(@, tag)]

Edge ==
  /\ phase = "running"
  /\ \E c \in Wired : Len(pending[c]) < MaxPending /\ Deliver(c, fire)
  /\ phase' = IF fire = Pulse THEN "running" ELSE "tail"
  /\ UNCHANGED <<threads, owner, prepared, fire, disturbed, console, unsafe, faults>>

ProgramEnds ==
  /\ phase = "tail" /\ phase' = "done"
  /\ UNCHANGED <<threads, cameras, prepared, fire, disturbed, console, unsafe, faults>>

Halt(who) == phase' = "reset" /\ prepared' = who /\ fire' = Pulse
Load(who) == phase' = "loaded" /\ prepared' = who /\ fire' = Pulse
Unsent == UNCHANGED <<prepared, phase, fire>>
Start(tag) == phase' = "running" /\ fire' = tag /\ UNCHANGED prepared

(* What one commands the sequencer, the shots under way of others notice.  *)
Disturbs(who) == disturbed' = disturbed \cup {t \in Threads \ {who} : Scanning(t) /\ pc[t] # "top"}

(* The user: On Pulse (stop, prepare, fire of an endless program) and Off. *)
UserPulse ==
  /\ \/ phase' = "running" /\ prepared' = User /\ fire' = Pulse /\ phase # "running"
     \/ Halt(Nobody) /\ phase = "running"
  /\ Disturbs(User)
  /\ UNCHANGED <<threads, cameras, console, unsafe, faults>>

-----------------------------------------------------------------------------
(* A thread: LogicNode's loop around one shot.  A view of so many frames   *)
(* that has them sets its own _stop.                                       *)

Top(t) ==
  /\ pc[t] = "top" /\ applying # t
  /\ \/ t \in stop /\ Goto(t, "ended") /\ UNCHANGED <<shot, stop>>
     \/ t \notin stop /\ ~Scanning(t) /\ Goto(t, "arm") /\ UNCHANGED <<shot, stop>>
     \/ t \notin stop /\ ~Scanning(t) /\ Goto(t, "ended") /\ stop' = stop \cup Same(t) /\ UNCHANGED shot
     \/ /\ t \notin stop /\ Scanning(t) /\ shot[t] < MaxShots
        /\ Goto(t, "arm") /\ shot' = [shot EXCEPT ![t] = @ + 1] /\ UNCHANGED stop
  /\ disturbed' = disturbed \ {t}
  /\ UNCHANGED <<born, frame, cameras, prepared, phase, fire, abandoned, current, joining, editor, unsafe, faults>>

(* arm: it waits for the camera's lock, and begins with an empty queue.    *)
Arm(t) ==
  /\ pc[t] = "arm" /\ owner[Cam(t)] = Nobody
  /\ owner' = [owner EXCEPT ![Cam(t)] = t]
  /\ pending' = [pending EXCEPT ![Cam(t)] = <<>>]
  /\ Goto(t, IF Scanning(t) THEN "prepare" ELSE "read")
  /\ UNCHANGED <<born, shot, frame, sequencer, console, unsafe, faults>>

(* prepare stops what plays before it loads.                               *)
Prepare(t) ==
  /\ pc[t] = "prepare" /\ Goto(t, "fire") /\ Load(t) /\ Disturbs(t)
  /\ UNCHANGED <<born, shot, frame, cameras, console, unsafe, faults>>

(* fire raises unless the program prepared is its own.                     *)
Fire(t) ==
  /\ pc[t] = "fire"
  /\ IF prepared = t /\ phase = "loaded" THEN Goto(t, "read") /\ Start(Own(t))
                                         ELSE Goto(t, "fault") /\ Unsent
  /\ UNCHANGED <<born, shot, frame, cameras, disturbed, console, unsafe, faults>>

(* A call raises: the connection ended, with the work done or not.         *)
CallRaises(t) ==
  /\ pc[t] \in {"prepare", "fire"} /\ Fault /\ Goto(t, "fault") /\ Disturbs(t)
  /\ \/ Unsent
     \/ pc[t] = "prepare" /\ (Load(t) \/ Halt(t))
     \/ pc[t] = "fire" /\ prepared = t /\ phase = "loaded" /\ Start(Own(t))
  /\ UNCHANGED <<born, shot, frame, cameras, console, unsafe>>

Read(t) ==
  /\ pc[t] = "read" /\ pending[Cam(t)] # <<>>
  /\ frame' = [frame EXCEPT ![t] = IF Scanning(t) THEN Head(pending[Cam(t)]) ELSE @]
  /\ pending' = [pending EXCEPT ![Cam(t)] = Tail(@)]
  /\ Goto(t, IF Scanning(t) THEN "wait" ELSE "disarm")
  /\ UNCHANGED <<born, shot, owner, sequencer, console, unsafe, faults>>

(* No frame came: a stop, or the time-out of the read.                     *)
ReadEnds(t) ==
  /\ pc[t] = "read" /\ pending[Cam(t)] = <<>>
  /\ Goto(t, IF Scanning(t) THEN "fault" ELSE "disarm")
  /\ UNCHANGED <<born, shot, frame, cameras, sequencer, console, unsafe, faults>>

\* mutant: the shot returns with its frames, the program still playing
DoneAtOnce == TRUE
Done == phase = "done" \/ (prepared = User /\ phase = "running")

Wait(t) ==
  /\ pc[t] = "wait" /\ Done /\ Goto(t, "disarm")
  /\ UNCHANGED <<born, shot, frame, cameras, sequencer, console, unsafe, faults>>

(* A stop, or the budget of twice the program and five seconds.            *)
WaitEnds(t) ==
  /\ pc[t] = "wait" /\ ~Done /\ Goto(t, "fault")
  /\ frame' = [frame EXCEPT ![t] = Nobody]
  /\ UNCHANGED <<born, shot, cameras, sequencer, console, unsafe, faults>>

\* mutant: a shot that was cancelled is not a fault
SafeUnlessStopped(t) == IF t \in stop THEN Unsent ELSE Halt(Nobody)
SafeState(t) == Halt(Nobody)

(* What a shot that raises does; if SAFE raises too, that is passed over.  *)
Safe(t) ==
  /\ pc[t] = "fault" /\ Goto(t, "disarm")
  /\ \/ SafeState(t) /\ UNCHANGED <<unsafe, faults>>
     \/ Fault /\ unsafe' = unsafe \cup {Own(t)} /\ Unsent
  /\ Disturbs(t)
  /\ UNCHANGED <<born, shot, frame, cameras, console>>

\* mutant: only a shot that succeeded stands its camera down
FreesIfGood(t) == IF frame[t] # Nobody THEN Nobody ELSE t
Frees(t) == Nobody

Disarm(t) ==
  /\ pc[t] = "disarm" /\ Goto(t, "top")
  /\ owner' = [owner EXCEPT ![Cam(t)] = Frees(t)]
  /\ pending' = [pending EXCEPT ![Cam(t)] = <<>>]
  /\ frame' = [frame EXCEPT ![t] = Nobody]
  /\ UNCHANGED <<born, shot, sequencer, console, unsafe, faults>>

Step(t) ==
  \/ Top(t) \/ Arm(t) \/ Prepare(t) \/ Fire(t) \/ Read(t) \/ ReadEnds(t)
  \/ Wait(t) \/ WaitEnds(t) \/ Safe(t) \/ Disarm(t)

-----------------------------------------------------------------------------
(* The console, one thread.                                                *)

Idle == joining = Nobody /\ applying = Nobody

\* mutant: only cameras are exclusive
DevicesCameras(n) == {Camera[n]}
Devices(n) == {Camera[n]} \cup IF n \in Scans THEN {"sequencer"} ELSE {}

Conflicts(n) == {m \in Nodes : current[m] # Nobody /\ (m = n \/ Devices(m) \cap Devices(n) # {})}

(* stop() of one node, and the wait for its thread.                        *)
StopNode(m) ==
  /\ Idle /\ current[m] # Nobody
  /\ stop' = stop \cup Same(current[m]) /\ joining' = current[m]
  /\ UNCHANGED <<threads, cameras, sequencer, abandoned, current, editor, unsafe, faults>>

Joined ==
  /\ joining # Nobody /\ joining' = Nobody
  /\ current' = [current EXCEPT ![node[joining]] = Nobody]
  /\ \/ pc[joining] = "ended" /\ UNCHANGED abandoned
     \/ /\ pc[joining] # "ended" /\ Cardinality(abandoned) < MaxGiveUps
        /\ abandoned' = abandoned \cup {joining}
  /\ UNCHANGED <<threads, cameras, sequencer, stop, editor, unsafe, faults>>

(* The next number that no thread has had.                                 *)
Unborn(t) == pc[t] = "unborn" /\ \A u \in Threads : u < t => pc[u] # "unborn"

(* A node starts once those that hold one of its devices were stopped.     *)
StartNode(n) ==
  /\ Idle /\ Conflicts(n) = {}
  /\ \E t \in Threads :
       /\ Unborn(t) /\ Goto(t, "top") /\ node' = [node EXCEPT ![t] = n]
       /\ current' = [current EXCEPT ![n] = t]
  /\ UNCHANGED <<object, shot, frame, cameras, sequencer, stop, abandoned, joining, editor, unsafe, faults>>

(* Apply, to the object of t, a view with settings to edit whose last      *)
(* thread is over or was forgotten: step(), with its _stop still set.  The *)
(* number of a thread that is over is used again.                          *)
ApplySteps(t) ==
  /\ Idle /\ pc[t] # "unborn" /\ ~Scanning(t) /\ \A u \in Same(t) : Running(u) => u \in abandoned
  /\ Fault
  /\ \E u \in Threads :
       /\ IF Running(t) THEN Unborn(u) ELSE u = t
       /\ Goto(u, "arm") /\ node' = [node EXCEPT ![u] = node[t]]
       /\ object' = [object EXCEPT ![u] = object[t]]
       /\ applying' = u /\ stop' = stop \cup {u}
       /\ unlisted' = IF current[node[t]] = u THEN unlisted ELSE unlisted \cup {u}
  /\ UNCHANGED <<shot, frame, cameras, sequencer, abandoned, current, joining, unsafe>>

(* The shot raised, and that is that; or start(), which clears the _stop   *)
(* of the object, also for a thread that has yet to see it.                *)
ApplyStarts ==
  /\ applying # Nobody /\ pc[applying] = "top" /\ applying' = Nobody
  /\ \/ Goto(applying, "ended") /\ UNCHANGED stop
     \/ stop' = stop \ Same(applying) /\ UNCHANGED pc
  /\ UNCHANGED <<born, shot, frame, cameras, sequencer, abandoned, current, joining, unlisted, unsafe, faults>>

Next ==
  \/ Edge \/ ProgramEnds \/ UserPulse
  \/ \E t \in Threads : Step(t) \/ CallRaises(t) \/ ApplySteps(t)
  \/ \E n \in Nodes : StartNode(n) \/ StopNode(n)
  \/ Joined \/ ApplyStarts

Spec ==
  /\ Init /\ [][Next]_vars
  /\ WF_vars(ApplyStarts) /\ \A t \in Threads : SF_vars(Step(t))

-----------------------------------------------------------------------------
Good(t) == pc[t] = "disarm" /\ Scanning(t) /\ frame[t] # Nobody

(* A scan's point is made of the frame its own fire triggered, or of one   *)
(* the user's pulse triggered, or of a fire that could not be stopped: no  *)
(* frame of an earlier shot, late or left over, is taken for it.           *)
OwnFrames ==
  \A t \in Threads :
    Good(t) => frame[t] \in {Own(t), Pulse} \cup unsafe

(* A shot that succeeds has played its program to the end, unless others   *)
(* commanded the sequencer meanwhile ("never quietly truncate").           *)
PlayedWhole ==
  \A t \in Threads : Good(t) /\ t \notin disturbed => phase = "done" /\ fire = Own(t)

(* A program plays on only while its shot is under way, unless SAFE itself *)
(* failed: "a failed shot can never strand outputs high".                  *)
NotStranded ==
  phase \in {"running", "tail"} /\ fire # Pulse /\ fire \notin unsafe =>
    pc[fire[1]] \in {"read", "wait", "fault"} /\ Own(fire[1]) = fire

(* A device has one driver: two threads that both use it are not both      *)
(* going on, unless a join gave up one of them or Apply started it behind  *)
(* the console's back.                                                     *)
Shared(t, u) == Cam(t) = Cam(u) \/ {node[t], node[u]} \subseteq Scans

SoleDriver ==
  \A t, u \in Threads :
    t # u /\ Running(t) /\ Running(u) /\ Shared(t, u) => {t, u} \cap (abandoned \cup unlisted) # {}

(* A node told to stop ends, whoever holds its camera, unless an Apply     *)
(* takes the stop back first.                                              *)
StopEnds == \A t \in Threads : t \in stop ~> pc[t] = "ended" \/ t \notin stop

(* "with no second acquire() ever running on it": Apply and the console's  *)
(* exclusion leave each camera to one thread, joins that gave up aside.    *)
ApplyExcludes ==
  \A t, u \in Threads :
    t # u /\ Running(t) /\ Running(u) /\ Shared(t, u) => {t, u} \cap abandoned # {}
=============================================================================
