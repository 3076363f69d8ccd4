-------------------------- MODULE Acquisition_proof --------------------------
(***************************************************************************)
(* The four safety properties of Acquisition, whatever the nodes, cameras, *)
(* threads, shots and faults.                                              *)
(*                                                                         *)
(* A thread that holds a camera is the only one to be sent its frames, and *)
(* it holds it from its arm to its disarm; what plays is a shot under way, *)
(* a shot whose SAFE failed, or the user's pulse.  So a frame is the       *)
(* holder's own, the pulse's, or one of a shot that could not be stopped.  *)
(* A thread that Apply started holds its camera like any other; only the   *)
(* console does not know of it.                                            *)
(***************************************************************************)
EXTENDS Acquisition, TLAPS

Places == {"unborn", "top", "arm", "prepare", "fire", "read", "wait", "fault", "disarm", "ended"}
Holding == {"prepare", "fire", "read", "wait", "fault", "disarm"}
Tags == {Pulse} \cup (Threads \X Nat)

Types ==
  /\ node \in [Threads -> Nodes \cup {Nobody}] /\ object \in [Threads -> Threads]
  /\ pc \in [Threads -> Places] /\ shot \in [Threads -> Nat]
  /\ frame \in [Threads -> Tags \cup {Nobody}]
  /\ owner \in [Cameras -> Threads \cup {Nobody}] /\ pending \in [Cameras -> Seq(Tags)]
  /\ prepared \in Threads \cup {Nobody, User} /\ fire \in Tags
  /\ phase \in {"reset", "loaded", "running", "tail", "done"}
  /\ current \in [Nodes -> Threads \cup {Nobody}]
  /\ {joining, applying} \subseteq Threads \cup {Nobody}

\* Every thread that was started has a node; a shot is a scan's from its
\* prepare on.
Born ==
  \A t \in Threads :
    /\ pc[t] # "unborn" => node[t] \in Nodes
    /\ pc[t] \in {"prepare", "fire", "wait", "fault"} => Scanning(t)

\* A thread not given up, nor started by Apply, is the one the console knows
\* of its node, and the nodes it knows to run share no device.
Registered ==
  /\ \A t \in Threads : Running(t) /\ t \notin abandoned \cup unlisted => current[node[t]] = t
  /\ \A n \in Nodes : current[n] # Nobody => node[current[n]] = n /\ pc[current[n]] # "unborn"
  /\ joining # Nobody => current[node[joining]] = joining
  /\ \A m, n \in Nodes :
       m # n /\ current[m] # Nobody /\ current[n] # Nobody => Devices(m) \cap Devices(n) = {}

\* A camera is held by the thread between its arm and its disarm.
Holders ==
  /\ \A t \in Threads : pc[t] \in Holding => owner[Cam(t)] = t
  /\ \A c \in Cameras : owner[c] # Nobody => pc[owner[c]] \in Holding /\ Cam(owner[c]) = c

\* What a thread may find in its camera's queue.
Mine(t) == {Own(t), Pulse} \cup unsafe

Queues ==
  \A c \in Cameras : owner[c] # Nobody =>
    \A i \in 1..Len(pending[c]) : pending[c][i] \in Mine(owner[c])

Frames ==
  \A t \in Threads : frame[t] # Nobody => pc[t] \in {"wait", "disarm"} /\ frame[t] \in Mine(t)

\* A shot plays the program it prepared, and while it plays the shot is
\* under way, unless SAFE failed.
Wires ==
  /\ fire # Pulse =>
       prepared = fire[1] /\ pc[prepared] # "unborn" /\ phase \in {"running", "tail", "done"}
  /\ NotStranded
  /\ phase \in {"running", "tail"} /\ fire # Pulse /\ fire \notin unsafe => Scanning(fire[1])

\* Until others command the sequencer, what a shot fired is what plays.
Whole ==
  \A t \in Threads \ disturbed :
    /\ Scanning(t) /\ pc[t] \in {"read", "wait"} => fire = Own(t)
    /\ Good(t) => fire = Own(t) /\ phase = "done"

Inv ==
  /\ Types /\ Born /\ Registered /\ Holders /\ Queues /\ Frames /\ Wires /\ Whole

-----------------------------------------------------------------------------
(* What the constants say of the values that stand for none.               *)
LEMMA Nones ==
  /\ Nobody \notin Threads /\ User \notin Threads /\ Nobody # User
  /\ Nobody \notin Tags /\ Nobody \notin Nodes
  BY AcquisitionAssumption DEF Threads, Tags, Pulse

(* The fire of a thread's shot names the thread, and is no pulse.          *)
LEMMA OwnTag ==
  ASSUME Types, NEW t \in Threads
  PROVE  Own(t) \in Threads \X Nat /\ Own(t)[1] = t /\ Own(t) # Pulse /\ Own(t) \in Tags
  BY DEF Types, Own, Pulse, Tags, Threads

LEMMA CamOf ==
  ASSUME Types, NEW t \in Threads, node[t] \in Nodes
  PROVE  Cam(t) \in Cameras
  BY AcquisitionAssumption DEF Cam

(* Nodes and shots that stay keep what is said of them.                    *)
LEMMA SameThreads ==
  ASSUME NEW t \in Threads, node' = node
  PROVE  Cam(t)' = Cam(t) /\ Scanning(t)' = Scanning(t) /\ (shot' = shot => Own(t)' = Own(t))
  BY DEF Cam, Scanning, Own

-----------------------------------------------------------------------------
(* Most steps leave most of it alone.                                      *)
LEMMA RegisteredKept ==
  ASSUME Types, Registered, UNCHANGED <<node, current, joining, abandoned, unlisted>>,
         \A t \in Threads : (Running(t)' => Running(t)) /\ (pc[t] # "unborn" => pc'[t] # "unborn")
  PROVE  Registered'
  <1>1. \A t \in Threads : (Running(t) /\ t \notin abandoned \cup unlisted => current[node[t]] = t)'
    BY DEF Registered
  <1>2. \A n \in Nodes : (current[n] # Nobody => node[current[n]] = n /\ pc[current[n]] # "unborn")'
    BY DEF Registered, Types
  <1> QED BY <1>1, <1>2 DEF Registered

LEMMA HoldersKept ==
  ASSUME Types, Holders, UNCHANGED <<node, owner>>,
         \A t \in Threads : pc[t] \in Holding <=> pc'[t] \in Holding
  PROVE  Holders'
  <1>1. \A t \in Threads : Cam(t)' = Cam(t)
    BY SameThreads
  <1> QED BY <1>1 DEF Holders, Types

LEMMA MineKept ==
  ASSUME NEW t \in Threads, UNCHANGED <<node, shot>>, unsafe \subseteq unsafe'
  PROVE  Mine(t) \subseteq Mine(t)'
  BY SameThreads DEF Mine

LEMMA QueuesKept ==
  ASSUME Types, Queues, UNCHANGED <<node, shot, owner, pending>>, unsafe \subseteq unsafe'
  PROVE  Queues'
  <1> SUFFICES ASSUME NEW c \in Cameras, owner[c] # Nobody, NEW i \in 1..Len(pending[c])
               PROVE  pending[c][i] \in Mine(owner[c])'
    BY DEF Queues
  <1>1. owner[c] \in Threads
    BY DEF Types
  <1> QED BY <1>1, MineKept DEF Queues

LEMMA FramesKept ==
  ASSUME Types, Frames, UNCHANGED <<node, shot, frame>>, unsafe \subseteq unsafe',
         \A t \in Threads : frame[t] # Nobody /\ pc[t] \in {"wait", "disarm"} => pc'[t] \in {"wait", "disarm"}
  PROVE  Frames'
  <1> SUFFICES ASSUME NEW t \in Threads, frame[t] # Nobody
               PROVE  pc'[t] \in {"wait", "disarm"} /\ frame[t] \in Mine(t)'
    BY DEF Frames
  <1> QED BY MineKept DEF Frames

(* A thread goes to a place.                                               *)
LEMMA Goes ==
  ASSUME Inv, NEW t \in Threads, NEW place \in Places, Goto(t, place), place # "unborn",
         Running(t), UNCHANGED <<node, current, joining, abandoned, unlisted>>,
         place \in {"prepare", "fire", "wait", "fault"} => Scanning(t)
  PROVE  /\ pc' \in [Threads -> Places] /\ pc'[t] = place
         /\ \A u \in Threads : u # t => pc'[u] = pc[u]
         /\ Born' /\ Registered'
  <1>1. Types /\ Born /\ Registered
    BY DEF Inv
  <1>2. /\ pc' \in [Threads -> Places] /\ pc'[t] = place
        /\ \A u \in Threads : u # t => pc'[u] = pc[u]
    BY <1>1 DEF Goto, Types
  <1>3. Born'
    BY <1>1, <1>2, SameThreads DEF Born, Running
  <1>4. Registered'
    BY <1>1, <1>2, RegisteredKept DEF Running
  <1> QED BY <1>2, <1>3, <1>4

LEMMA WiresKept ==
  ASSUME Types, Wires, UNCHANGED <<node, prepared, phase, fire>>, unsafe \subseteq unsafe',
         \A u \in Threads :
           pc[u] \in {"read", "wait", "fault"} /\ Scanning(u) /\ Own(u) = fire /\ phase \in {"running", "tail"} /\ fire \notin unsafe' =>
             pc'[u] \in {"read", "wait", "fault"} /\ shot'[u] = shot[u],
         \A u \in Threads : pc[u] # "unborn" => pc'[u] # "unborn"
  PROVE  Wires'
  <1>1. fire # Pulse => fire[1] \in Threads
    BY DEF Types, Tags
  <1> SUFFICES ASSUME phase \in {"running", "tail"}, fire # Pulse, fire \notin unsafe'
               PROVE  pc'[fire[1]] \in {"read", "wait", "fault"} /\ Own(fire[1])' = fire /\ Scanning(fire[1])'
    BY <1>1 DEF Wires, NotStranded
  <1>2. /\ pc[fire[1]] \in {"read", "wait", "fault"} /\ Own(fire[1]) = fire
        /\ Scanning(fire[1])
    BY DEF Wires, NotStranded
  <1>3. pc'[fire[1]] \in {"read", "wait", "fault"} /\ shot'[fire[1]] = shot[fire[1]]
    BY <1>1, <1>2
  <1> QED BY <1>1, <1>2, <1>3, SameThreads DEF Own

LEMMA WholeKept ==
  ASSUME Types, Whole, UNCHANGED <<node, fire>>, disturbed \subseteq disturbed', phase' = phase \/ phase # "done",
         \A u \in Threads \ disturbed' :
           /\ Scanning(u) /\ pc'[u] \in {"read", "wait"} => pc[u] \in {"read", "wait"} /\ shot'[u] = shot[u]
           /\ Good(u)' => Good(u) /\ shot'[u] = shot[u]
  PROVE  Whole'
  <1> SUFFICES ASSUME NEW u \in Threads \ disturbed'
               PROVE  /\ Scanning(u)' /\ pc'[u] \in {"read", "wait"} => fire = Own(u)'
                      /\ Good(u)' => fire = Own(u)' /\ phase' = "done"
    BY DEF Whole
  <1>1. Scanning(u)' = Scanning(u) /\ (shot'[u] = shot[u] => Own(u)' = Own(u))
    BY SameThreads DEF Own
  <1> QED BY <1>1 DEF Whole

(* Who commands the sequencer disturbs every shot under way but its own.   *)
LEMMA Undisturbed ==
  ASSUME NEW who, Disturbs(who), NEW u \in Threads \ disturbed', u # who, Scanning(u)
  PROVE  pc[u] = "top" /\ u \notin disturbed
  BY DEF Disturbs

LEMMA WholeDisturbed ==
  ASSUME Types, NEW who, Disturbs(who), UNCHANGED node,
         \A u \in Threads : u # who => pc'[u] = pc[u],
         who \in Threads => pc'[who] \notin {"read", "wait"} /\ ~Good(who)'
  PROVE  Whole'
  <1> SUFFICES ASSUME NEW u \in Threads \ disturbed', Scanning(u)', pc'[u] \in {"read", "wait", "disarm"}, u # who
               PROVE  FALSE
    BY DEF Whole, Good
  <1> QED BY Undisturbed, SameThreads

-----------------------------------------------------------------------------
(* The sequencer and the user.                                             *)
LEMMA EdgeStep ==
  ASSUME Inv, Edge
  PROVE  Inv'
  <1>1. Types /\ Born /\ Registered /\ Holders /\ Queues /\ Frames /\ Wires /\ Whole
    BY DEF Inv
  <1>2. /\ UNCHANGED <<node, object, applying, pc, shot, frame, owner, prepared, fire, disturbed>>
        /\ UNCHANGED <<abandoned, current, joining, unlisted, unsafe>>
        /\ phase = "running" /\ phase' = IF fire = Pulse THEN "running" ELSE "tail"
    BY DEF Edge, threads, console, born, editor
  <1>3. PICK c \in Wired : Deliver(c, fire)
    BY DEF Edge
  <1>4. c \in Cameras
    <2>1. CASE fire = Pulse
      BY <2>1 DEF Wired
    <2>2. CASE fire # Pulse
      <3>1. fire[1] \in Threads /\ node[fire[1]] \in Nodes
        BY <1>1, <2>2 DEF Types, Tags, Wires, Born
      <3>2. c = Cam(fire[1])
        BY <2>2 DEF Wired
      <3> QED BY <1>1, <3>1, <3>2, CamOf
    <2> QED BY <2>1, <2>2
  <1>5. owner[c] # Nobody => fire \in Mine(owner[c])
    <2> SUFFICES ASSUME owner[c] # Nobody, fire # Pulse, fire \notin unsafe
                 PROVE  fire = Own(owner[c])
      BY DEF Mine
    <2>1. /\ fire[1] \in Threads /\ c = Cam(fire[1])
      BY <1>1 DEF Types, Tags, Wired
    <2>2. pc[fire[1]] \in Holding /\ Own(fire[1]) = fire
      BY <1>1, <1>2 DEF Wires, NotStranded, Holding
    <2> QED BY <1>1, <2>1, <2>2 DEF Holders
  <1>6. /\ pending' \in [Cameras -> Seq(Tags)]
        /\ \A d \in Cameras : d # c \/ owner[d] = Nobody => pending'[d] = pending[d]
        /\ owner[c] # Nobody => pending'[c] = Append(pending[c], fire)
    BY <1>1, <1>3, <1>4 DEF Deliver, Types
  <1>7. Types'
    BY <1>1, <1>2, <1>6 DEF Types
  <1>8. Born'
    BY <1>1, <1>2, SameThreads DEF Born
  <1>9. Registered'
    BY <1>1, <1>2, RegisteredKept DEF Running
  <1>10. Holders'
    BY <1>1, <1>2, HoldersKept
  <1>11. Queues'
    <2> SUFFICES ASSUME NEW d \in Cameras, owner[d] # Nobody, NEW i \in 1..Len(pending'[d])
                 PROVE  pending'[d][i] \in Mine(owner[d])
      <3>1. \A d \in Cameras : owner[d] # Nobody => owner[d] \in Threads
        BY <1>1 DEF Types
      <3>2. \A t \in Threads : Mine(t) \subseteq Mine(t)'
        BY <1>2, MineKept
      <3> QED BY <1>2, <3>1, <3>2 DEF Queues
    <2>1. CASE d # c
      BY <1>1, <1>6, <2>1 DEF Queues
    <2>2. CASE d = c
      <3>1. pending[c] \in Seq(Tags) /\ fire \in Tags
        BY <1>1, <1>4 DEF Types
      <3>2. CASE i \in 1..Len(pending[c])
        BY <1>1, <1>4, <1>6, <2>2, <3>1, <3>2 DEF Queues
      <3>3. CASE i = Len(pending[c]) + 1
        BY <1>5, <1>6, <2>2, <3>1, <3>3
      <3> QED BY <1>6, <2>2, <3>1, <3>2, <3>3
    <2> QED BY <2>1, <2>2
  <1>12. Frames'
    BY <1>1, <1>2, FramesKept
  <1>13. Wires'
    <2>1. \A t \in Threads : Own(t)' = Own(t) /\ Scanning(t)' = Scanning(t)
      BY <1>2, SameThreads
    <2>2. fire # Pulse => fire[1] \in Threads
      BY <1>1 DEF Types, Tags
    <2> QED BY <1>1, <1>2, <2>1, <2>2 DEF Wires, NotStranded
  <1>14. Whole'
    BY <1>1, <1>2, WholeKept, SameThreads DEF Good
  <1> QED BY <1>7, <1>8, <1>9, <1>10, <1>11, <1>12, <1>13, <1>14 DEF Inv

LEMMA ProgramEndsStep ==
  ASSUME Inv, ProgramEnds
  PROVE  Inv'
  <1>1. Types /\ Born /\ Registered /\ Holders /\ Queues /\ Frames /\ Wires /\ Whole
    BY DEF Inv
  <1>2. /\ UNCHANGED <<node, object, applying, pc, shot, frame, owner, pending, prepared, fire, disturbed>>
        /\ UNCHANGED <<abandoned, current, joining, unlisted, unsafe>>
        /\ phase = "tail" /\ phase' = "done"
    BY DEF ProgramEnds, threads, cameras, console, born, editor
  <1>7. Types'
    BY <1>1, <1>2 DEF Types
  <1>8. Born'
    BY <1>1, <1>2, SameThreads DEF Born
  <1>9. Registered'
    BY <1>1, <1>2, RegisteredKept DEF Running
  <1>10. Holders'
    BY <1>1, <1>2, HoldersKept
  <1>11. Queues'
    BY <1>1, <1>2, QueuesKept
  <1>12. Frames'
    BY <1>1, <1>2, FramesKept
  <1>13. Wires'
    BY <1>1, <1>2 DEF Wires, NotStranded
  <1>14. Whole'
    BY <1>1, <1>2, WholeKept, SameThreads DEF Good
  <1> QED BY <1>7, <1>8, <1>9, <1>10, <1>11, <1>12, <1>13, <1>14 DEF Inv

LEMMA UserPulseStep ==
  ASSUME Inv, UserPulse
  PROVE  Inv'
  <1>1. Types /\ Born /\ Registered /\ Holders /\ Queues /\ Frames /\ Wires /\ Whole
    BY DEF Inv
  <1>2. /\ UNCHANGED <<node, object, applying, pc, shot, frame, owner, pending>>
        /\ UNCHANGED <<abandoned, current, joining, unlisted, unsafe>>
        /\ phase' \in {"running", "reset"} /\ prepared' \in {User, Nobody} /\ fire' = Pulse
        /\ Disturbs(User)
    BY DEF UserPulse, threads, cameras, console, Halt, born, editor
  <1>7. Types'
    BY <1>1, <1>2 DEF Types, Tags
  <1>8. Born'
    BY <1>1, <1>2, SameThreads DEF Born
  <1>9. Registered'
    BY <1>1, <1>2, RegisteredKept DEF Running
  <1>10. Holders'
    BY <1>1, <1>2, HoldersKept
  <1>11. Queues'
    BY <1>1, <1>2, QueuesKept
  <1>12. Frames'
    BY <1>1, <1>2, FramesKept
  <1>13. Wires'
    BY <1>2 DEF Wires, NotStranded, Pulse
  <1>14. Whole'
    BY <1>1, <1>2, WholeDisturbed, Nones
  <1> QED BY <1>7, <1>8, <1>9, <1>10, <1>11, <1>12, <1>13, <1>14 DEF Inv

-----------------------------------------------------------------------------
(* The steps of a thread.                                                  *)
LEMMA PrepareStep ==
  ASSUME Inv, NEW t \in Threads, Prepare(t)
  PROVE  Inv'
  <1>1. Inv /\ Types /\ Born /\ Registered /\ Holders /\ Queues /\ Frames /\ Wires /\ Whole
    BY DEF Inv
  <1>2. /\ UNCHANGED <<node, object, applying, shot, frame, owner, pending, current, joining, abandoned, unlisted, unsafe>>
        /\ pc[t] = "prepare" /\ Goto(t, "fire")
        /\ phase' = "loaded" /\ prepared' = t /\ fire' = Pulse /\ Disturbs(t)
    BY DEF Prepare, Load, cameras, console, born, editor, threads
  <1>3. /\ pc' \in [Threads -> Places] /\ Born' /\ Registered'
        /\ \A u \in Threads : u # t => pc'[u] = pc[u]
        /\ pc'[t] = "fire"
    BY <1>1, <1>2, Goes DEF Places, Running, Born
  <1>7. Types'
    BY <1>1, <1>2, <1>3 DEF Types, Tags
  <1>10. Holders'
    BY <1>1, <1>2, <1>3, HoldersKept DEF Holding
  <1>11. Queues'
    BY <1>1, <1>2, QueuesKept
  <1>12. Frames'
    BY <1>1, <1>2, <1>3, FramesKept
  <1>13. Wires'
    BY <1>2 DEF Wires, NotStranded, Pulse
  <1>14. Whole'
    BY <1>1, <1>2, <1>3, WholeDisturbed DEF Good
  <1> QED BY <1>3, <1>7, <1>10, <1>11, <1>12, <1>13, <1>14 DEF Inv

LEMMA ReadEndsStep ==
  ASSUME Inv, NEW t \in Threads, ReadEnds(t)
  PROVE  Inv'
  <1>1. Inv /\ Types /\ Born /\ Registered /\ Holders /\ Queues /\ Frames /\ Wires /\ Whole
    BY DEF Inv
  <1>2. /\ UNCHANGED <<node, object, applying, shot, frame, owner, pending, prepared, phase, fire, disturbed, current, joining, abandoned, unlisted, unsafe>>
        /\ pc[t] = "read" /\ Goto(t, IF Scanning(t) THEN "fault" ELSE "disarm")
    BY DEF ReadEnds, cameras, sequencer, console, born, editor, threads
  <1>3. /\ pc' \in [Threads -> Places] /\ Born' /\ Registered'
        /\ \A u \in Threads : u # t => pc'[u] = pc[u]
        /\ pc'[t] = IF Scanning(t) THEN "fault" ELSE "disarm"
    BY <1>1, <1>2, Goes DEF Places, Running
  <1>7. Types'
    BY <1>1, <1>2, <1>3 DEF Types
  <1>10. Holders'
    BY <1>1, <1>2, <1>3, HoldersKept DEF Holding
  <1>11. Queues'
    BY <1>1, <1>2, QueuesKept
  <1>12. Frames'
    BY <1>1, <1>2, <1>3, FramesKept
  <1>13. Wires'
    BY <1>1, <1>2, <1>3, WiresKept
  <1>14. Whole'
    BY <1>1, <1>2, <1>3, WholeKept, SameThreads DEF Good
  <1> QED BY <1>3, <1>7, <1>10, <1>11, <1>12, <1>13, <1>14 DEF Inv

LEMMA WaitStep ==
  ASSUME Inv, NEW t \in Threads, Wait(t)
  PROVE  Inv'
  <1>1. Inv /\ Types /\ Born /\ Registered /\ Holders /\ Queues /\ Frames /\ Wires /\ Whole
    BY DEF Inv
  <1>2. /\ UNCHANGED <<node, object, applying, shot, frame, owner, pending, prepared, phase, fire, disturbed, current, joining, abandoned, unlisted, unsafe>>
        /\ pc[t] = "wait" /\ Goto(t, "disarm") /\ Done
    BY DEF Wait, cameras, sequencer, console, born, editor, threads
  <1>3. /\ pc' \in [Threads -> Places] /\ Born' /\ Registered'
        /\ \A u \in Threads : u # t => pc'[u] = pc[u]
        /\ pc'[t] = "disarm"
    BY <1>1, <1>2, Goes DEF Places, Running
  <1>7. Types'
    BY <1>1, <1>2, <1>3 DEF Types
  <1>10. Holders'
    BY <1>1, <1>2, <1>3, HoldersKept DEF Holding
  <1>11. Queues'
    BY <1>1, <1>2, QueuesKept
  <1>12. Frames'
    BY <1>1, <1>2, <1>3, FramesKept
  <1>4. phase \in {"running", "tail"} => fire = Pulse
    BY <1>1, <1>2, Nones DEF Wires, Types, Tags, Done
  <1>13. Wires'
    <2>1. \A u \in Threads : Own(u) # Pulse
      BY <1>1, OwnTag
    <2> QED BY <1>1, <1>2, <1>3, <1>4, <2>1, WiresKept
  <1>14. Whole'
    <2> SUFFICES ASSUME NEW u \in Threads \ disturbed, Scanning(u)
                 PROVE  /\ pc'[u] \in {"read", "wait"} => fire = Own(u)
                        /\ pc'[u] = "disarm" /\ frame[u] # Nobody => fire = Own(u) /\ phase = "done"
      BY <1>2, SameThreads DEF Whole, Good
    <2>1. CASE u = t
      <3>1. fire = Own(t)
        BY <1>1, <1>2, <2>1 DEF Whole
      <3>2. phase = "done"
        BY <1>1, <1>2, <1>4, <3>1, OwnTag DEF Done
      <3> QED BY <1>3, <2>1, <3>1, <3>2
    <2>2. CASE u # t
      BY <1>1, <1>3, <2>2 DEF Whole, Good
    <2> QED BY <2>1, <2>2
  <1> QED BY <1>3, <1>7, <1>10, <1>11, <1>12, <1>13, <1>14 DEF Inv

LEMMA WaitEndsStep ==
  ASSUME Inv, NEW t \in Threads, WaitEnds(t)
  PROVE  Inv'
  <1>1. Inv /\ Types /\ Born /\ Registered /\ Holders /\ Queues /\ Frames /\ Wires /\ Whole
    BY DEF Inv
  <1>2. /\ UNCHANGED <<node, object, applying, shot, owner, pending, prepared, phase, fire, disturbed, current, joining, abandoned, unlisted, unsafe>>
        /\ pc[t] = "wait" /\ Goto(t, "fault")
        /\ frame' = [frame EXCEPT ![t] = Nobody]
    BY DEF WaitEnds, cameras, sequencer, console, born, editor, threads
  <1>3. /\ pc' \in [Threads -> Places] /\ Born' /\ Registered'
        /\ \A u \in Threads : u # t => pc'[u] = pc[u]
        /\ pc'[t] = "fault"
    BY <1>1, <1>2, Goes DEF Places, Running, Born
  <1>7. Types'
    BY <1>1, <1>2, <1>3 DEF Types
  <1>10. Holders'
    BY <1>1, <1>2, <1>3, HoldersKept DEF Holding
  <1>11. Queues'
    BY <1>1, <1>2, QueuesKept
  <1>12. Frames'
    <2>1. frame'[t] = Nobody /\ \A u \in Threads : u # t => frame'[u] = frame[u]
      BY <1>1, <1>2 DEF Types
    <2>2. \A u \in Threads : Mine(u) \subseteq Mine(u)'
      BY <1>2, MineKept
    <2> QED BY <1>1, <1>3, <2>1, <2>2 DEF Frames
  <1>13. Wires'
    BY <1>1, <1>2, <1>3, WiresKept
  <1>14. Whole'
    BY <1>1, <1>2, <1>3, WholeKept, SameThreads DEF Good
  <1> QED BY <1>3, <1>7, <1>10, <1>11, <1>12, <1>13, <1>14 DEF Inv

LEMMA DisarmStep ==
  ASSUME Inv, NEW t \in Threads, Disarm(t)
  PROVE  Inv'
  <1>1. Inv /\ Types /\ Born /\ Registered /\ Holders /\ Queues /\ Frames /\ Wires /\ Whole
    BY DEF Inv
  <1>2. /\ UNCHANGED <<node, object, applying, shot, prepared, phase, fire, disturbed, current, joining, abandoned, unlisted, unsafe>>
        /\ pc[t] = "disarm" /\ Goto(t, "top")
        /\ owner' = [owner EXCEPT ![Cam(t)] = Nobody]
        /\ pending' = [pending EXCEPT ![Cam(t)] = <<>>]
        /\ frame' = [frame EXCEPT ![t] = Nobody]
    BY DEF Disarm, sequencer, console, Frees, born, editor, threads
  <1>3. /\ pc' \in [Threads -> Places] /\ Born' /\ Registered'
        /\ \A u \in Threads : u # t => pc'[u] = pc[u]
        /\ pc'[t] = "top"
    BY <1>1, <1>2, Goes DEF Places, Running
  <1>4. Cam(t) \in Cameras /\ node[t] \in Nodes
    BY <1>1, <1>2, CamOf DEF Born

  <1>7. Types'
    <2>1. owner' \in [Cameras -> Threads \cup {Nobody}] /\ frame' \in [Threads -> Tags \cup {Nobody}]
      BY <1>1, <1>2 DEF Types
    <2>2. pending' \in [Cameras -> Seq(Tags)]
      <3>1. <<>> \in Seq(Tags)
        OBVIOUS
      <3> QED BY <1>1, <1>2, <3>1 DEF Types
    <2> QED BY <1>1, <1>2, <1>3, <2>1, <2>2 DEF Types
  <1>5. /\ owner[Cam(t)] = t /\ owner'[Cam(t)] = Nobody
        /\ \A c \in Cameras : c # Cam(t) => owner'[c] = owner[c] /\ pending'[c] = pending[c]
    BY <1>1, <1>2, <1>4 DEF Types, Holders, Holding
  <1>10. Holders'
    <2>1. \A u \in Threads : Cam(u)' = Cam(u)
      BY <1>2, SameThreads
    <2>2. \A u \in Threads : u # t /\ pc[u] \in Holding => Cam(u) # Cam(t) /\ node[u] \in Nodes
      BY <1>1, <1>5 DEF Holders, Born, Holding
    <2>3. ASSUME NEW u \in Threads, pc'[u] \in Holding
          PROVE  owner'[Cam(u)'] = u
      <3>1. u # t /\ pc[u] \in Holding
        BY <1>3, <2>3 DEF Holding
      <3>2. Cam(u) # Cam(t) /\ Cam(u) \in Cameras
        BY <1>1, <2>2, <3>1, CamOf
      <3> QED BY <1>1, <1>5, <2>1, <3>1, <3>2 DEF Holders
    <2>4. ASSUME NEW c \in Cameras, owner'[c] # Nobody
          PROVE  pc'[owner'[c]] \in Holding /\ Cam(owner'[c]) = c
      <3>1. c # Cam(t) /\ owner'[c] = owner[c] /\ owner[c] \in Threads
        BY <1>1, <1>5, <2>4 DEF Types
      <3> QED BY <1>1, <1>2, <1>3, <2>4, <3>1 DEF Holders
    <2> QED BY <1>2, <2>3, <2>4 DEF Holders, Cam
  <1>11. Queues'
    <2> SUFFICES ASSUME NEW c \in Cameras, c # Cam(t), owner[c] # Nobody, NEW i \in 1..Len(pending[c])
                 PROVE  pending[c][i] \in Mine(owner[c])'
      BY <1>2, <1>5 DEF Queues
    <2>1. owner[c] \in Threads
      BY <1>1 DEF Types
    <2> QED BY <1>1, <1>2, <2>1, MineKept DEF Queues
  <1>12. Frames'
    <2>1. frame'[t] = Nobody /\ \A u \in Threads : u # t => frame'[u] = frame[u]
      BY <1>1, <1>2 DEF Types
    <2>2. \A u \in Threads : Mine(u) \subseteq Mine(u)'
      BY <1>2, MineKept
    <2> QED BY <1>1, <1>3, <2>1, <2>2 DEF Frames
  <1>13. Wires'
    BY <1>1, <1>2, <1>3, WiresKept
  <1>14. Whole'
    BY <1>1, <1>2, <1>3, WholeKept, SameThreads DEF Good
  <1> QED BY <1>3, <1>7, <1>10, <1>11, <1>12, <1>13, <1>14 DEF Inv

LEMMA ArmStep ==
  ASSUME Inv, NEW t \in Threads, Arm(t)
  PROVE  Inv'
  <1>1. Inv /\ Types /\ Born /\ Registered /\ Holders /\ Queues /\ Frames /\ Wires /\ Whole
    BY DEF Inv
  <1>2. /\ UNCHANGED <<node, object, applying, shot, frame, prepared, phase, fire, disturbed, current, joining, abandoned, unlisted, unsafe>>
        /\ pc[t] = "arm" /\ owner[Cam(t)] = Nobody /\ Goto(t, IF Scanning(t) THEN "prepare" ELSE "read")
        /\ owner' = [owner EXCEPT ![Cam(t)] = t]
        /\ pending' = [pending EXCEPT ![Cam(t)] = <<>>]
    BY DEF Arm, sequencer, console, born, editor, threads
  <1>3. /\ pc' \in [Threads -> Places] /\ Born' /\ Registered'
        /\ \A u \in Threads : u # t => pc'[u] = pc[u]
        /\ pc'[t] = IF Scanning(t) THEN "prepare" ELSE "read"
    BY <1>1, <1>2, Goes DEF Places, Running
  <1>4. Cam(t) \in Cameras /\ node[t] \in Nodes
    BY <1>1, <1>2, CamOf DEF Born

  <1>7. Types'
    <2>1. owner' \in [Cameras -> Threads \cup {Nobody}]
      BY <1>1, <1>2 DEF Types
    <2>2. pending' \in [Cameras -> Seq(Tags)]
      <3>1. <<>> \in Seq(Tags)
        OBVIOUS
      <3> QED BY <1>1, <1>2, <3>1 DEF Types
    <2> QED BY <1>1, <1>2, <1>3, <2>1, <2>2 DEF Types
  <1>5. /\ owner[Cam(t)] = Nobody /\ owner'[Cam(t)] = t /\ pending'[Cam(t)] = <<>>
        /\ \A c \in Cameras : c # Cam(t) => owner'[c] = owner[c] /\ pending'[c] = pending[c]
    BY <1>1, <1>2, <1>4 DEF Types
  <1>10. Holders'
    <2>1. \A u \in Threads : Cam(u)' = Cam(u)
      BY <1>2, SameThreads
    <2>3. ASSUME NEW u \in Threads, pc'[u] \in Holding
          PROVE  owner'[Cam(u)'] = u
      <3>1. CASE u = t
        BY <1>5, <2>1, <3>1
      <3>2. CASE u # t
        <4>1. pc[u] \in Holding /\ owner[Cam(u)] = u /\ node[u] \in Nodes
          BY <1>1, <1>3, <2>3, <3>2 DEF Holders, Born, Holding
        <4>2. Cam(u) # Cam(t) /\ Cam(u) \in Cameras
          BY <1>1, <1>5, <4>1, CamOf, Nones
        <4> QED BY <1>5, <2>1, <4>1, <4>2
      <3> QED BY <3>1, <3>2
    <2>4. ASSUME NEW c \in Cameras, owner'[c] # Nobody
          PROVE  pc'[owner'[c]] \in Holding /\ Cam(owner'[c]) = c
      <3>1. CASE c = Cam(t)
        BY <1>2, <1>3, <1>5, <3>1 DEF Holding
      <3>2. CASE c # Cam(t)
        <4>1. owner'[c] = owner[c] /\ owner[c] \in Threads /\ pc[owner[c]] \in Holding
          BY <1>1, <1>5, <2>4, <3>2 DEF Types, Holders
        <4>2. owner[c] # t
          BY <1>2, <4>1 DEF Holding
        <4> QED BY <1>1, <1>3, <2>4, <4>1, <4>2 DEF Holders
      <3> QED BY <3>1, <3>2
    <2> QED BY <1>2, <2>3, <2>4 DEF Holders, Cam
  <1>11. Queues'
    <2> SUFFICES ASSUME NEW c \in Cameras, c # Cam(t), owner[c] # Nobody, NEW i \in 1..Len(pending[c])
                 PROVE  pending[c][i] \in Mine(owner[c])'
      BY <1>2, <1>5 DEF Queues
    <2>1. owner[c] \in Threads
      BY <1>1 DEF Types
    <2> QED BY <1>1, <1>2, <2>1, MineKept DEF Queues
  <1>12. Frames'
    BY <1>1, <1>2, <1>3, FramesKept
  <1>13. Wires'
    BY <1>1, <1>2, <1>3, WiresKept
  <1>14. Whole'
    BY <1>1, <1>2, <1>3, WholeKept, SameThreads DEF Good
  <1> QED BY <1>3, <1>7, <1>10, <1>11, <1>12, <1>13, <1>14 DEF Inv

LEMMA ReadStep ==
  ASSUME Inv, NEW t \in Threads, Read(t)
  PROVE  Inv'
  <1>1. Inv /\ Types /\ Born /\ Registered /\ Holders /\ Queues /\ Frames /\ Wires /\ Whole
    BY DEF Inv
  <1>2. /\ UNCHANGED <<node, object, applying, shot, owner, prepared, phase, fire, disturbed, current, joining, abandoned, unlisted, unsafe>>
        /\ pc[t] = "read" /\ pending[Cam(t)] # <<>> /\ Goto(t, IF Scanning(t) THEN "wait" ELSE "disarm")
        /\ frame' = [frame EXCEPT ![t] = IF Scanning(t) THEN Head(pending[Cam(t)]) ELSE @]
        /\ pending' = [pending EXCEPT ![Cam(t)] = Tail(@)]
    BY DEF Read, sequencer, console, born, editor, threads
  <1>3. /\ pc' \in [Threads -> Places] /\ Born' /\ Registered'
        /\ \A u \in Threads : u # t => pc'[u] = pc[u]
        /\ pc'[t] = IF Scanning(t) THEN "wait" ELSE "disarm"
    BY <1>1, <1>2, Goes DEF Places, Running
  <1>4. Cam(t) \in Cameras /\ node[t] \in Nodes
    BY <1>1, <1>2, CamOf DEF Born

  <1>5. /\ owner[Cam(t)] = t /\ pending[Cam(t)] \in Seq(Tags) /\ pending[Cam(t)] # <<>>
        /\ \A i \in 1..Len(pending[Cam(t)]) : pending[Cam(t)][i] \in Mine(t)
    <2>1. owner[Cam(t)] = t /\ t # Nobody
      BY <1>1, <1>2, Nones DEF Holders, Holding
    <2>2. pending[Cam(t)] \in Seq(Tags)
      BY <1>1, <1>4 DEF Types
    <2> QED BY <1>1, <1>2, <1>4, <2>1, <2>2 DEF Queues
  <1>6. /\ Head(pending[Cam(t)]) \in Tags /\ Head(pending[Cam(t)]) \in Mine(t)
        /\ Tail(pending[Cam(t)]) \in Seq(Tags)
        /\ \A i \in 1..Len(Tail(pending[Cam(t)])) : Tail(pending[Cam(t)])[i] \in Mine(t)
    BY <1>5
  <1>7. Types'
    <2>1. /\ frame' \in [Threads -> Tags \cup {Nobody}] /\ pending' \in [Cameras -> Seq(Tags)]
      BY <1>1, <1>2, <1>6 DEF Types
    <2> QED BY <1>1, <1>2, <1>3, <2>1 DEF Types
  <1>10. Holders'
    BY <1>1, <1>2, <1>3, HoldersKept DEF Holding
  <1>11. Queues'
    <2> SUFFICES ASSUME NEW c \in Cameras, owner[c] # Nobody, NEW i \in 1..Len(pending'[c])
                 PROVE  pending'[c][i] \in Mine(owner[c])'
      BY <1>2 DEF Queues
    <2>1. owner[c] \in Threads
      BY <1>1 DEF Types
    <2>2. CASE c = Cam(t)
      <3>1. pending'[c] = Tail(pending[Cam(t)])
        BY <1>1, <1>2, <2>2 DEF Types
      <3> QED BY <1>2, <1>5, <1>6, <2>2, <3>1, MineKept
    <2>3. CASE c # Cam(t)
      <3>1. pending'[c] = pending[c]
        BY <1>1, <1>2, <2>3 DEF Types
      <3> QED BY <1>1, <1>2, <2>1, <3>1, MineKept DEF Queues
    <2> QED BY <2>2, <2>3
  <1>12. Frames'
    <2>1. /\ \A u \in Threads : u # t => frame'[u] = frame[u]
          /\ frame'[t] = IF Scanning(t) THEN Head(pending[Cam(t)]) ELSE frame[t]
      BY <1>1, <1>2 DEF Types
    <2>2. \A u \in Threads : Mine(u) \subseteq Mine(u)'
      BY <1>2, MineKept
    <2> QED BY <1>1, <1>2, <1>3, <1>6, <2>1, <2>2 DEF Frames
  <1>13. Wires'
    BY <1>1, <1>2, <1>3, WiresKept
  <1>14. Whole'
    BY <1>1, <1>2, <1>3, WholeKept, SameThreads DEF Good
  <1> QED BY <1>3, <1>7, <1>10, <1>11, <1>12, <1>13, <1>14 DEF Inv

LEMMA FireStep ==
  ASSUME Inv, NEW t \in Threads, Fire(t)
  PROVE  Inv'
  <1>1. Inv /\ Types /\ Born /\ Registered /\ Holders /\ Queues /\ Frames /\ Wires /\ Whole
    BY DEF Inv
  <1>2. /\ UNCHANGED <<node, object, applying, shot, frame, owner, pending, prepared, disturbed>>
        /\ UNCHANGED <<current, joining, abandoned, unlisted, unsafe>>
        /\ pc[t] = "fire" /\ Goto(t, IF prepared = t /\ phase = "loaded" THEN "read" ELSE "fault")
        /\ IF prepared = t /\ phase = "loaded"
             THEN phase' = "running" /\ fire' = Own(t) ELSE UNCHANGED <<phase, fire>>
    BY DEF Fire, cameras, console, Start, Unsent, born, editor, threads
  <1>3. /\ pc' \in [Threads -> Places] /\ Born' /\ Registered'
        /\ \A u \in Threads : u # t => pc'[u] = pc[u]
        /\ pc'[t] = IF prepared = t /\ phase = "loaded" THEN "read" ELSE "fault"
    BY <1>1, <1>2, Goes DEF Places, Running, Born
  <1>4. Scanning(t) /\ Own(t) \in Tags /\ Own(t) # Pulse /\ Own(t)[1] = t
    BY <1>1, <1>2, OwnTag DEF Born
  <1>5. \A u \in Threads : Own(u)' = Own(u) /\ Scanning(u)' = Scanning(u)
    BY <1>2, SameThreads
  <1>7. Types'
    BY <1>1, <1>2, <1>3, <1>4 DEF Types
  <1>10. Holders'
    BY <1>1, <1>2, <1>3, HoldersKept DEF Holding
  <1>11. Queues'
    BY <1>1, <1>2, QueuesKept
  <1>12. Frames'
    BY <1>1, <1>2, <1>3, FramesKept
  <1>13. Wires'
    <2>1. CASE prepared = t /\ phase = "loaded"
      BY <1>2, <1>3, <1>4, <1>5, <2>1 DEF Wires, NotStranded
    <2>2. CASE ~(prepared = t /\ phase = "loaded")
      BY <1>1, <1>2, <1>3, <2>2, WiresKept
    <2> QED BY <2>1, <2>2
  <1>14. Whole'
    <2>1. CASE prepared = t /\ phase = "loaded"
      <3>1. fire = Pulse
        BY <1>1, <2>1 DEF Wires
      <3>2. \A u \in Threads : Own(u) # Pulse
        BY <1>1, OwnTag
      <3>3. \A u \in Threads \ disturbed : Scanning(u) => pc[u] \notin {"read", "wait"} /\ ~Good(u)
        BY <1>1, <3>1, <3>2 DEF Whole
      <3> QED BY <1>2, <1>3, <1>5, <2>1, <3>3 DEF Whole, Good
    <2>2. CASE ~(prepared = t /\ phase = "loaded")
      BY <1>1, <1>2, <1>3, <1>5, <2>2, WholeKept DEF Good
    <2> QED BY <2>1, <2>2
  <1> QED BY <1>3, <1>7, <1>10, <1>11, <1>12, <1>13, <1>14 DEF Inv

LEMMA CallRaisesStep ==
  ASSUME Inv, NEW t \in Threads, CallRaises(t)
  PROVE  Inv'
  <1>1. Inv /\ Types /\ Born /\ Registered /\ Holders /\ Queues /\ Frames /\ Wires /\ Whole
    BY DEF Inv
  <1>2. /\ UNCHANGED <<node, object, applying, shot, frame, owner, pending>>
        /\ UNCHANGED <<current, joining, abandoned, unlisted, unsafe>>
        /\ pc[t] \in {"prepare", "fire"} /\ Goto(t, "fault") /\ Disturbs(t)
        /\ \/ UNCHANGED <<prepared, phase, fire>>
           \/ prepared' \in {t, Nobody} /\ phase' \in {"loaded", "reset"} /\ fire' = Pulse
           \/ prepared' = prepared /\ prepared = t /\ phase' = "running" /\ fire' = Own(t)
    BY DEF CallRaises, cameras, console, Start, Unsent, Load, Halt, born, editor, threads
  <1>3. /\ pc' \in [Threads -> Places] /\ Born' /\ Registered'
        /\ \A u \in Threads : u # t => pc'[u] = pc[u]
        /\ pc'[t] = "fault"
    BY <1>1, <1>2, Goes DEF Places, Running, Born
  <1>4. Scanning(t) /\ Own(t) \in Tags /\ Own(t) # Pulse /\ Own(t)[1] = t
    BY <1>1, <1>2, OwnTag DEF Born
  <1>5. \A u \in Threads : Own(u)' = Own(u) /\ Scanning(u)' = Scanning(u)
    BY <1>2, SameThreads
  <1>7. Types'
    BY <1>1, <1>2, <1>3, <1>4 DEF Types, Tags
  <1>10. Holders'
    BY <1>1, <1>2, <1>3, HoldersKept DEF Holding
  <1>11. Queues'
    BY <1>1, <1>2, QueuesKept
  <1>12. Frames'
    BY <1>1, <1>2, <1>3, FramesKept
  <1>13. Wires'
    <2>1. CASE UNCHANGED <<prepared, phase, fire>>
      BY <1>1, <1>2, <1>3, <2>1, WiresKept
    <2>2. CASE fire' = Pulse
      BY <2>2 DEF Wires, NotStranded, Pulse
    <2>3. CASE prepared' = prepared /\ prepared = t /\ phase' = "running" /\ fire' = Own(t)
      BY <1>2, <1>3, <1>4, <1>5, <2>3 DEF Wires, NotStranded
    <2> QED BY <1>2, <2>1, <2>2, <2>3
  <1>14. Whole'
    BY <1>1, <1>2, <1>3, WholeDisturbed DEF Good
  <1> QED BY <1>3, <1>7, <1>10, <1>11, <1>12, <1>13, <1>14 DEF Inv

LEMMA SafeStep ==
  ASSUME Inv, NEW t \in Threads, Safe(t)
  PROVE  Inv'
  <1>1. Inv /\ Types /\ Born /\ Registered /\ Holders /\ Queues /\ Frames /\ Wires /\ Whole
    BY DEF Inv
  <1>2. /\ UNCHANGED <<node, object, applying, shot, frame, owner, pending>>
        /\ UNCHANGED <<current, joining, abandoned, unlisted>>
        /\ pc[t] = "fault" /\ Goto(t, "disarm") /\ Disturbs(t)
        /\ \/ UNCHANGED unsafe /\ prepared' = Nobody /\ phase' = "reset" /\ fire' = Pulse
           \/ unsafe' = unsafe \cup {Own(t)} /\ UNCHANGED <<prepared, phase, fire>>
    BY DEF Safe, SafeState, cameras, console, Unsent, Halt, born, editor, threads
  <1>3. /\ pc' \in [Threads -> Places] /\ Born' /\ Registered'
        /\ \A u \in Threads : u # t => pc'[u] = pc[u]
        /\ pc'[t] = "disarm"
    BY <1>1, <1>2, Goes DEF Places, Running, Born
  <1>4. frame[t] = Nobody
    BY <1>1, <1>2 DEF Frames
  <1>7. Types'
    BY <1>1, <1>2, <1>3 DEF Types, Tags
  <1>10. Holders'
    BY <1>1, <1>2, <1>3, HoldersKept DEF Holding
  <1>11. Queues'
    BY <1>1, <1>2, QueuesKept
  <1>12. Frames'
    BY <1>1, <1>2, <1>3, FramesKept
  <1>13. Wires'
    <2>1. CASE fire' = Pulse
      BY <2>1 DEF Wires, NotStranded, Pulse
    <2>2. CASE unsafe' = unsafe \cup {Own(t)} /\ UNCHANGED <<prepared, phase, fire>>
      BY <1>1, <1>2, <1>3, <2>2, WiresKept
    <2> QED BY <1>2, <2>1, <2>2
  <1>14. Whole'
    BY <1>1, <1>2, <1>3, <1>4, WholeDisturbed DEF Good
  <1> QED BY <1>3, <1>7, <1>10, <1>11, <1>12, <1>13, <1>14 DEF Inv

LEMMA TopStep ==
  ASSUME Inv, NEW t \in Threads, Top(t)
  PROVE  Inv'
  <1>1. Inv /\ Types /\ Born /\ Registered /\ Holders /\ Queues /\ Frames /\ Wires /\ Whole
    BY DEF Inv
  <1>2. /\ UNCHANGED <<node, object, applying, frame, owner, pending, prepared, phase, fire>>
        /\ UNCHANGED <<current, joining, abandoned, unlisted, unsafe>>
        /\ pc[t] = "top" /\ disturbed' = disturbed \ {t}
        /\ \/ Goto(t, "ended") /\ shot' = shot
           \/ Goto(t, "arm") /\ shot' \in {shot, [shot EXCEPT ![t] = @ + 1]}
    BY DEF Top, cameras, console, born, editor, threads
  <1>3. /\ pc' \in [Threads -> Places] /\ Born' /\ Registered'
        /\ \A u \in Threads : u # t => pc'[u] = pc[u]
        /\ pc'[t] \in {"ended", "arm"}
    <2>1. CASE Goto(t, "ended")
      BY <1>1, <1>2, <2>1, Goes DEF Places, Running
    <2>2. CASE Goto(t, "arm")
      BY <1>1, <1>2, <2>2, Goes DEF Places, Running
    <2> QED BY <1>2, <2>1, <2>2
  <1>4. /\ shot' \in [Threads -> Nat]
        /\ \A u \in Threads : u # t => shot'[u] = shot[u]
    <2>1. CASE shot' = shot
      BY <1>1, <2>1 DEF Types
    <2>2. CASE shot' = [shot EXCEPT ![t] = @ + 1]
      BY <1>1, <2>2 DEF Types
    <2> QED BY <1>2, <2>1, <2>2
  <1>5. \A u \in Threads :
          /\ Scanning(u)' = Scanning(u) /\ Cam(u)' = Cam(u)
          /\ u # t => Own(u)' = Own(u) /\ Mine(u)' = Mine(u)
    BY <1>2, <1>4 DEF Own, Scanning, Cam, Mine
  <1>7. Types'
    BY <1>1, <1>2, <1>3, <1>4 DEF Types
  <1>10. Holders'
    BY <1>1, <1>2, <1>3, HoldersKept DEF Holding
  <1>11. Queues'
    <2> SUFFICES ASSUME NEW c \in Cameras, owner[c] # Nobody, NEW i \in 1..Len(pending[c])
                 PROVE  pending[c][i] \in Mine(owner[c])'
      BY <1>2 DEF Queues
    <2>1. owner[c] \in Threads /\ pc[owner[c]] \in Holding
      BY <1>1 DEF Types, Holders
    <2>2. owner[c] # t
      BY <1>2, <2>1 DEF Holding
    <2>3. pending[c][i] \in Mine(owner[c])
      BY <1>1 DEF Queues
    <2> QED BY <1>2, <1>5, <2>1, <2>2, <2>3
  <1>12. Frames'
    BY <1>1, <1>2, <1>3, <1>5 DEF Frames
  <1>13. Wires'
    BY <1>1, <1>2, <1>3, <1>4, WiresKept
  <1>14. Whole'
    BY <1>1, <1>2, <1>3, <1>5 DEF Whole, Good
  <1> QED BY <1>3, <1>7, <1>10, <1>11, <1>12, <1>13, <1>14 DEF Inv

-----------------------------------------------------------------------------
(* The console.                                                            *)
LEMMA StopNodeStep ==
  ASSUME Inv, NEW m \in Nodes, StopNode(m)
  PROVE  Inv'
  <1>1. Inv /\ Types /\ Born /\ Registered /\ Holders /\ Queues /\ Frames /\ Wires /\ Whole
    BY DEF Inv
  <1>2. /\ UNCHANGED <<node, object, applying, pc, shot, frame, owner, pending, prepared, phase, fire, disturbed>>
        /\ UNCHANGED <<current, abandoned, unlisted, unsafe>>
        /\ current[m] # Nobody /\ joining' = current[m]
    BY DEF StopNode, threads, cameras, sequencer, born, editor
  <1>7. Types'
    BY <1>1, <1>2 DEF Types
  <1>9. Registered'
    <2>1. \A t \in Threads : Running(t)' = Running(t)
      BY <1>2 DEF Running
    <2> QED BY <1>1, <1>2, <2>1 DEF Registered
  <1>8. Born'
    BY <1>1, <1>2, SameThreads DEF Born
  <1>10. Holders'
    BY <1>1, <1>2, HoldersKept
  <1>11. Queues'
    BY <1>1, <1>2, QueuesKept
  <1>12. Frames'
    BY <1>1, <1>2, FramesKept
  <1>13. Wires'
    BY <1>1, <1>2, WiresKept
  <1>14. Whole'
    BY <1>1, <1>2, WholeKept, SameThreads DEF Good
  <1> QED BY <1>7, <1>8, <1>9, <1>10, <1>11, <1>12, <1>13, <1>14 DEF Inv

LEMMA JoinedStep ==
  ASSUME Inv, Joined
  PROVE  Inv'
  <1>1. Inv /\ Types /\ Born /\ Registered /\ Holders /\ Queues /\ Frames /\ Wires /\ Whole
    BY DEF Inv
  <1>2. /\ UNCHANGED <<node, object, applying, pc, shot, frame, owner, pending, prepared, phase, fire, disturbed, unlisted, unsafe>>
        /\ joining # Nobody /\ joining' = Nobody
        /\ current' = [current EXCEPT ![node[joining]] = Nobody]
        /\ \/ ~Running(joining) /\ abandoned' = abandoned
           \/ abandoned' = abandoned \cup {joining}
    BY DEF Joined, Running, threads, cameras, sequencer, born, editor
  <1>3. /\ current' \in [Nodes -> Threads \cup {Nobody}]
        /\ \A n \in Nodes : n # node[joining] => current'[n] = current[n]
        /\ node[joining] \in Nodes => current'[node[joining]] = Nobody
    BY <1>1, <1>2 DEF Types
  <1>7. Types'
    BY <1>1, <1>2, <1>3 DEF Types
  <1>9. Registered'
    <2>1. ASSUME NEW t \in Threads, Running(t)', t \notin abandoned' \cup unlisted'
          PROVE  current'[node'[t]] = t
      <3>1. t # joining /\ t \notin abandoned \cup unlisted
        BY <1>2, <2>1 DEF Running
      <3>2. current[node[t]] = t /\ node[t] \in Nodes /\ current[node[joining]] = joining
        BY <1>1, <1>2, <2>1, <3>1 DEF Registered, Born, Running
      <3> QED BY <1>2, <1>3, <3>1, <3>2
    <2>2. ASSUME NEW n \in Nodes, current'[n] # Nobody
          PROVE  current'[n] = current[n]
      BY <1>3, <2>2
    <2>3. \A n \in Nodes : current'[n] # Nobody => node[current'[n]] = n /\ pc[current'[n]] # "unborn"
      BY <1>1, <2>2 DEF Registered
    <2>4. \A m, n \in Nodes :
            m # n /\ current'[m] # Nobody /\ current'[n] # Nobody => Devices(m) \cap Devices(n) = {}
      BY <1>1, <2>2 DEF Registered
    <2> QED BY <1>2, <2>1, <2>3, <2>4 DEF Registered
  <1>8. Born'
    BY <1>1, <1>2, SameThreads DEF Born
  <1>10. Holders'
    BY <1>1, <1>2, HoldersKept
  <1>11. Queues'
    BY <1>1, <1>2, QueuesKept
  <1>12. Frames'
    BY <1>1, <1>2, FramesKept
  <1>13. Wires'
    BY <1>1, <1>2, WiresKept
  <1>14. Whole'
    BY <1>1, <1>2, WholeKept, SameThreads DEF Good
  <1> QED BY <1>7, <1>8, <1>9, <1>10, <1>11, <1>12, <1>13, <1>14 DEF Inv

LEMMA StartNodeStep ==
  ASSUME Inv, NEW n \in Nodes, StartNode(n)
  PROVE  Inv'
  <1>1. Inv /\ Types /\ Born /\ Registered /\ Holders /\ Queues /\ Frames /\ Wires /\ Whole
    BY DEF Inv
  <1>2. /\ UNCHANGED <<object, shot, frame, owner, pending, prepared, phase, fire, disturbed>>
        /\ UNCHANGED <<unsafe, abandoned, joining, applying, unlisted>>
    BY DEF StartNode, cameras, sequencer, editor
  <1>3. PICK t \in Threads :
          /\ pc[t] = "unborn"
          /\ pc' = [pc EXCEPT ![t] = "top"] /\ node' = [node EXCEPT ![t] = n]
          /\ current' = [current EXCEPT ![n] = t]
    BY DEF StartNode, Unborn, Goto
  <1>4. /\ pc' \in [Threads -> Places] /\ pc'[t] = "top"
        /\ node' \in [Threads -> Nodes \cup {Nobody}] /\ node'[t] = n
        /\ \A u \in Threads : u # t => pc'[u] = pc[u] /\ node'[u] = node[u]
    BY <1>1, <1>3 DEF Types, Places
  <1>5. /\ current' \in [Nodes -> Threads \cup {Nobody}] /\ current'[n] = t
        /\ \A m \in Nodes : m # n => current'[m] = current[m]
    BY <1>1, <1>3 DEF Types
  <1>6. \A u \in Threads : u # t =>
          Cam(u)' = Cam(u) /\ Scanning(u)' = Scanning(u) /\ Own(u)' = Own(u) /\ Mine(u)' = Mine(u)
    BY <1>2, <1>4 DEF Own, Scanning, Cam, Mine
  <1>7. Types'
    BY <1>1, <1>2, <1>4, <1>5 DEF Types
  <1>8. Born'
    BY <1>1, <1>4, <1>6 DEF Born
  <1>9. Registered'
    <2>1. \A m \in Nodes : current[m] # Nobody => m # n /\ Devices(m) \cap Devices(n) = {}
      BY DEF StartNode, Conflicts, born, editor, threads
    <2>2. \A m \in Nodes : current[m] # Nobody => current[m] \in Threads /\ current[m] # t
      BY <1>1, <1>3 DEF Types, Registered
    <2>3. ASSUME NEW u \in Threads, Running(u)', u \notin abandoned \cup unlisted
          PROVE  current'[node'[u]] = u
      <3>1. CASE u = t
        BY <1>4, <1>5, <3>1
      <3>2. CASE u # t
        <4>1. current[node[u]] = u /\ node[u] \in Nodes /\ node'[u] = node[u]
          BY <1>1, <1>4, <2>3, <3>2 DEF Registered, Born, Running
        <4> QED BY <1>5, <2>1, <4>1, Nones
      <3> QED BY <3>1, <3>2
    <2>4. ASSUME NEW m \in Nodes, current'[m] # Nobody
          PROVE  node'[current'[m]] = m /\ pc'[current'[m]] # "unborn"
      <3>1. CASE m = n
        BY <1>4, <1>5, <3>1
      <3>2. CASE m # n
        <4>1. current'[m] = current[m] /\ current[m] \in Threads /\ current[m] # t
          BY <1>5, <2>2, <2>4, <3>2
        <4> QED BY <1>1, <1>4, <2>4, <4>1 DEF Registered
      <3> QED BY <3>1, <3>2
    <2>5. ASSUME NEW l \in Nodes, NEW m \in Nodes, l # m, current'[l] # Nobody, current'[m] # Nobody
          PROVE  Devices(l) \cap Devices(m) = {}
      BY <1>1, <1>5, <2>1, <2>5 DEF Registered
    <2>6. joining = Nobody
      BY DEF StartNode, Idle
    <2> QED BY <1>2, <2>3, <2>4, <2>5, <2>6 DEF Registered
  <1>10. Holders'
    <2>1. ASSUME NEW u \in Threads, pc'[u] \in Holding
          PROVE  (owner[Cam(u)] = u)'
      <3>1. u # t /\ pc[u] \in Holding
        BY <1>4, <2>1 DEF Holding
      <3> QED BY <1>1, <1>2, <1>6, <3>1 DEF Holders
    <2>2. ASSUME NEW c \in Cameras, owner[c] # Nobody
          PROVE  pc'[owner[c]] \in Holding /\ (Cam(owner[c]) = c)'
      <3>1. owner[c] \in Threads /\ pc[owner[c]] \in Holding /\ Cam(owner[c]) = c
        BY <1>1, <2>2 DEF Holders, Types
      <3>2. owner[c] # t
        BY <1>3, <3>1 DEF Holding
      <3> QED BY <1>2, <1>4, <1>6, <3>1, <3>2
    <2> QED BY <1>2, <2>1, <2>2 DEF Holders
  <1>11. Queues'
    <2> SUFFICES ASSUME NEW c \in Cameras, owner[c] # Nobody, NEW i \in 1..Len(pending[c])
                 PROVE  pending[c][i] \in Mine(owner[c])'
      BY <1>2 DEF Queues
    <2>1. owner[c] \in Threads /\ pc[owner[c]] \in Holding
      BY <1>1 DEF Types, Holders
    <2>2. owner[c] # t
      BY <1>3, <2>1 DEF Holding
    <2>3. pending[c][i] \in Mine(owner[c])
      BY <1>1 DEF Queues
    <2> QED BY <1>2, <1>6, <2>1, <2>2, <2>3
  <1>12. Frames'
    BY <1>1, <1>2, <1>3, <1>4, <1>6 DEF Frames
  <1>13. Wires'
    <2>1. fire # Pulse => prepared = fire[1] /\ prepared \in Threads /\ prepared # t
      BY <1>1, <1>3 DEF Wires, Types, Tags
    <2> QED BY <1>1, <1>2, <1>4, <1>6, <2>1 DEF Wires, NotStranded
  <1>14. Whole'
    BY <1>1, <1>2, <1>4, <1>6 DEF Whole, Good
  <1> QED BY <1>7, <1>8, <1>9, <1>10, <1>11, <1>12, <1>13, <1>14 DEF Inv

(* Apply takes a shot as a thread that is over, or as a new one of the     *)
(* same node.                                                              *)
LEMMA ApplyStepsStep ==
  ASSUME Inv, NEW t \in Threads, ApplySteps(t)
  PROVE  Inv'
  <1>1. Inv /\ Types /\ Born /\ Registered /\ Holders /\ Queues /\ Frames /\ Wires /\ Whole
    BY DEF Inv
  <1>2. /\ UNCHANGED <<shot, frame, owner, pending, prepared, phase, fire, disturbed>>
        /\ UNCHANGED <<unsafe, abandoned, joining, current>>
        /\ pc[t] # "unborn" /\ ~Scanning(t) /\ node[t] \in Nodes
    BY <1>1 DEF ApplySteps, cameras, sequencer, Born
  <1>3. PICK u \in Threads :
          /\ IF Running(t) THEN Unborn(u) ELSE u = t
          /\ Goto(u, "arm") /\ node' = [node EXCEPT ![u] = node[t]]
          /\ object' = [object EXCEPT ![u] = object[t]] /\ applying' = u
          /\ unlisted' = IF current[node[t]] = u THEN unlisted ELSE unlisted \cup {u}
    BY DEF ApplySteps
  <1>4. /\ pc' \in [Threads -> Places] /\ pc'[u] = "arm"
        /\ node' \in [Threads -> Nodes \cup {Nobody}] /\ node'[u] = node[t]
        /\ \A v \in Threads : v # u => pc'[v] = pc[v] /\ node'[v] = node[v]
        /\ object' \in [Threads -> Threads]
    BY <1>1, <1>2, <1>3 DEF Types, Places, Goto
  <1>5. pc[u] \in {"unborn", "ended"} /\ (pc[u] = "ended" => u = t) /\ (pc[u] = "unborn" => u # t)
    BY <1>2, <1>3 DEF Unborn, Running
  <1>6. /\ ~Scanning(u)'
        /\ \A v \in Threads : v # u =>
             Cam(v)' = Cam(v) /\ Scanning(v)' = Scanning(v) /\ Own(v)' = Own(v) /\ Mine(v)' = Mine(v)
    BY <1>2, <1>4 DEF Own, Scanning, Cam, Mine
  <1>7. Types'
    BY <1>1, <1>2, <1>3, <1>4 DEF Types
  <1>8. Born'
    BY <1>1, <1>2, <1>4, <1>6 DEF Born
  <1>9. Registered'
    <2>1. \A n \in Nodes : current[n] # Nobody =>
            node'[current[n]] = node[current[n]] /\ pc'[current[n]] # "unborn"
      <3> SUFFICES ASSUME NEW n \in Nodes, current[n] # Nobody
                   PROVE  node'[current[n]] = node[current[n]] /\ pc'[current[n]] # "unborn"
        OBVIOUS
      <3>1. current[n] \in Threads /\ pc[current[n]] # "unborn"
        BY <1>1 DEF Types, Registered
      <3>2. CASE current[n] = u
        BY <1>4, <1>5, <3>1, <3>2
      <3>3. CASE current[n] # u
        BY <1>4, <3>1, <3>3
      <3> QED BY <3>2, <3>3
    <2>2. ASSUME NEW v \in Threads, Running(v)', v \notin abandoned \cup unlisted'
          PROVE  current[node'[v]] = v
      <3>1. CASE v = u
        BY <1>3, <1>4, <2>2, <3>1
      <3>2. CASE v # u
        BY <1>1, <1>3, <1>4, <2>2, <3>2 DEF Registered, Running
      <3> QED BY <3>1, <3>2
    <2>3. joining = Nobody
      BY DEF ApplySteps, Idle
    <2> QED BY <1>1, <1>2, <2>1, <2>2, <2>3 DEF Registered
  <1>10. Holders'
    <2>1. ASSUME NEW v \in Threads, pc'[v] \in Holding
          PROVE  (owner[Cam(v)] = v)'
      <3>1. v # u /\ pc[v] \in Holding
        BY <1>4, <2>1 DEF Holding
      <3> QED BY <1>1, <1>2, <1>6, <3>1 DEF Holders
    <2>2. ASSUME NEW c \in Cameras, owner[c] # Nobody
          PROVE  pc'[owner[c]] \in Holding /\ (Cam(owner[c]) = c)'
      <3>1. owner[c] \in Threads /\ pc[owner[c]] \in Holding /\ Cam(owner[c]) = c
        BY <1>1, <2>2 DEF Holders, Types
      <3>2. owner[c] # u
        BY <1>5, <3>1 DEF Holding
      <3> QED BY <1>2, <1>4, <1>6, <3>1, <3>2
    <2> QED BY <1>2, <2>1, <2>2 DEF Holders
  <1>11. Queues'
    <2> SUFFICES ASSUME NEW c \in Cameras, owner[c] # Nobody, NEW i \in 1..Len(pending[c])
                 PROVE  pending[c][i] \in Mine(owner[c])'
      BY <1>2 DEF Queues
    <2>1. owner[c] \in Threads /\ pc[owner[c]] \in Holding
      BY <1>1 DEF Types, Holders
    <2>2. owner[c] # u
      BY <1>5, <2>1 DEF Holding
    <2>3. pending[c][i] \in Mine(owner[c])
      BY <1>1 DEF Queues
    <2> QED BY <1>2, <1>6, <2>1, <2>2, <2>3
  <1>12. Frames'
    <2>1. frame[u] = Nobody
      BY <1>1, <1>5 DEF Frames
    <2> QED BY <1>1, <1>2, <1>4, <1>6, <2>1 DEF Frames
  <1>13. Wires'
    <2>1. \A v \in Threads : pc[v] \in {"read", "wait", "fault"} => v # u
      BY <1>5
    <2>2. fire # Pulse => fire[1] \in Threads
      BY <1>1 DEF Types, Tags
    <2>3. fire # Pulse => prepared = fire[1] /\ pc'[prepared] # "unborn"
      BY <1>1, <1>4, <2>2 DEF Wires
    <2> QED BY <1>1, <1>2, <1>4, <1>6, <2>1, <2>2, <2>3 DEF Wires, NotStranded
  <1>14. Whole'
    <2> SUFFICES ASSUME NEW v \in Threads \ disturbed
                 PROVE  /\ Scanning(v)' /\ pc'[v] \in {"read", "wait"} => fire = Own(v)'
                        /\ Good(v)' => fire = Own(v)' /\ phase = "done"
      BY <1>2 DEF Whole
    <2>1. CASE v = u
      BY <1>4, <2>1 DEF Good
    <2>2. CASE v # u
      BY <1>1, <1>2, <1>4, <1>6, <2>2 DEF Whole, Good
    <2> QED BY <2>1, <2>2
  <1> QED BY <1>7, <1>8, <1>9, <1>10, <1>11, <1>12, <1>13, <1>14 DEF Inv

LEMMA ApplyStartsStep ==
  ASSUME Inv, ApplyStarts
  PROVE  Inv'
  <1>1. Inv /\ Types /\ Born /\ Registered /\ Holders /\ Queues /\ Frames /\ Wires /\ Whole
    BY DEF Inv
  <1>2. /\ UNCHANGED <<node, object, shot, frame, owner, pending, prepared, phase, fire, disturbed>>
        /\ UNCHANGED <<current, joining, abandoned, unlisted, unsafe>>
        /\ applying \in Threads /\ pc[applying] = "top" /\ applying' = Nobody
        /\ Goto(applying, "ended") \/ pc' = pc
    BY <1>1 DEF ApplyStarts, born, cameras, sequencer, Types
  <1>3. /\ pc' \in [Threads -> Places] /\ Born' /\ Registered'
        /\ \A u \in Threads : pc'[u] = pc[u] \/ (pc[u] = "top" /\ pc'[u] = "ended")
    <2>1. CASE Goto(applying, "ended")
      BY <1>1, <1>2, <2>1, Goes DEF Places, Running
    <2>2. CASE pc' = pc
      <3>1. Born'
        BY <1>1, <1>2, <2>2, SameThreads DEF Born
      <3>2. Registered'
        BY <1>1, <1>2, <2>2, RegisteredKept DEF Running
      <3> QED BY <1>1, <2>2, <3>1, <3>2 DEF Types
    <2> QED BY <1>2, <2>1, <2>2
  <1>7. Types'
    BY <1>1, <1>2, <1>3 DEF Types
  <1>10. Holders'
    BY <1>1, <1>2, <1>3, HoldersKept DEF Holding
  <1>11. Queues'
    BY <1>1, <1>2, QueuesKept
  <1>12. Frames'
    BY <1>1, <1>2, <1>3, FramesKept
  <1>13. Wires'
    BY <1>1, <1>2, <1>3, WiresKept
  <1>14. Whole'
    BY <1>1, <1>2, <1>3, WholeKept, SameThreads DEF Good
  <1> QED BY <1>3, <1>7, <1>10, <1>11, <1>12, <1>13, <1>14 DEF Inv

-----------------------------------------------------------------------------
LEMMA InvInit == Init => Inv
  <1> SUFFICES ASSUME Init PROVE Inv
    OBVIOUS
  <1>1. Types
    <2>1. <<>> \in Seq(Tags)
      OBVIOUS
    <2> QED BY <2>1 DEF Init, Types, Places, Tags
  <1>2. Born /\ Registered /\ Holders /\ Queues /\ Frames
    BY DEF Init, Born, Registered, Holders, Queues, Frames, Running, Holding
  <1>3. Wires /\ Whole
    BY DEF Init, Wires, NotStranded, Whole, Good
  <1> QED BY <1>1, <1>2, <1>3 DEF Inv

LEMMA InvStep ==
  ASSUME Inv, [Next]_vars
  PROVE  Inv'
  <1>1. CASE Edge \/ ProgramEnds \/ UserPulse
    BY <1>1, EdgeStep, ProgramEndsStep, UserPulseStep
  <1>2. CASE \E t \in Threads : Step(t) \/ CallRaises(t) \/ ApplySteps(t)
    BY <1>2, TopStep, ArmStep, PrepareStep, FireStep, ReadStep, ReadEndsStep, WaitStep, WaitEndsStep,
       SafeStep, DisarmStep, CallRaisesStep, ApplyStepsStep DEF Step
  <1>3. CASE \E n \in Nodes : StartNode(n) \/ StopNode(n)
    BY <1>3, StartNodeStep, StopNodeStep
  <1>4. CASE Joined \/ ApplyStarts
    BY <1>4, JoinedStep, ApplyStartsStep
  <1>5. CASE UNCHANGED vars
    BY <1>5 DEF vars, born, editor, threads, cameras, sequencer, console, Inv, Types, Born, Registered, Holders, Queues,
       Frames, Wires, Whole, NotStranded, Running, Good, Cam, Own, Scanning, Mine
  <1> QED BY <1>1, <1>2, <1>3, <1>4, <1>5 DEF Next

(* What every state of every run satisfies.                                *)
THEOREM Invariance == Spec => []Inv
  BY InvInit, InvStep, PTL DEF Spec

(* No frame of an earlier shot, late or left over in the camera's queue,   *)
(* is taken for a scan's point: it is of the shot's own fire, of the       *)
(* user's pulse, or of a fire that SAFE failed to stop.                    *)
THEOREM PointsOwnFrames == Spec => []OwnFrames
  <1>1. Inv => OwnFrames
    BY DEF Inv, Frames, Mine, OwnFrames, Good
  <1> QED BY <1>1, Invariance, PTL

(* A shot that succeeds, and in which nobody else commanded the sequencer, *)
(* has played its own program to the end.                                  *)
THEOREM ShotsPlayedWhole == Spec => []PlayedWhole
  <1>1. Inv => PlayedWhole
    BY DEF Inv, Whole, PlayedWhole
  <1> QED BY <1>1, Invariance, PTL

(* However a shot ends - with frames, by a stop, a time-out or a call that *)
(* raises - its program does not play on without it, unless SAFE failed.   *)
THEOREM NothingStranded == Spec => []NotStranded
  <1>1. Inv => NotStranded
    BY DEF Inv, Wires
  <1> QED BY <1>1, Invariance, PTL

(* Two threads that use one device never both run, unless the console gave *)
(* up joining one of them, or one was started by Apply, with an object the *)
(* console had let go of.                                                  *)
THEOREM OneDriver == Spec => []SoleDriver
  <1>1. ASSUME Inv PROVE SoleDriver
    <2> SUFFICES ASSUME NEW t \in Threads, NEW u \in Threads, t # u, Running(t), Running(u),
                        Cam(t) = Cam(u) \/ {node[t], node[u]} \subseteq Scans,
                        t \notin abandoned \cup unlisted, u \notin abandoned \cup unlisted
                 PROVE  FALSE
      BY DEF SoleDriver, Shared
    <2>1. current[node[t]] = t /\ current[node[u]] = u /\ node[t] \in Nodes /\ node[u] \in Nodes
      BY <1>1 DEF Inv, Registered, Born, Running
    <2>2. Devices(node[t]) \cap Devices(node[u]) = {}
      BY <1>1, <2>1, Nones DEF Inv, Registered
    <2> QED BY <2>2 DEF Devices, Cam
  <1> QED BY <1>1, Invariance, PTL
=============================================================================
