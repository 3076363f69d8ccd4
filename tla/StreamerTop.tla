----------------------------- MODULE StreamerTop -----------------------------
(***************************************************************************)
(* The command mailbox of zlc_pulse_streamer_top: COMMAND and STATUS words *)
(* the host reads and writes, the loader FSM that copies the bus image and *)
(* releases or resets the engine, and the engine's synchronisers.  One     *)
(* Clock step is one clock cycle; host words land between cycles.          *)
(*                                                                         *)
(* The host is a client that prepares, fires and waits (it holds the       *)
(* service's lock for that) and a second one that may command SAFE at any  *)
(* time.  A host word takes thousands of cycles (Settled), but less than   *)
(* the copy of the bus image.                                              *)
(***************************************************************************)
EXTENDS Integers, Sequences

CONSTANTS Programs,   \* the images a host may upload
          BusRows     \* rows of the bus image the loader copies

Torn == "torn"    \* an image of which a part is uploaded

ASSUME TopAssumption ==
  Programs # {} /\ Torn \notin Programs /\ BusRows \in Nat \ {0}

VARIABLES command, status,              \* ctrl_reg[C_COMMAND], ctrl_reg[C_STATUS]
          lstate, cmd_seen, row,        \* the loader FSM
          eng_reset, eng_start, status_running,
          post_we, post_val,            \* ldr_status_we, ldr_status_val
          reset_meta, reset_sync, start_meta, start_sync, start_prev,
          running, done,                \* the engine
          image, bus,                   \* BRAM image; rows copied into the engine
          played,                       \* the image and rows of the current run
          script                        \* host words each client has still to send

mailbox == <<command, status>>
loader == <<lstate, cmd_seen, row, eng_reset, eng_start, status_running,
            post_we, post_val, bus>>
engine == <<reset_meta, reset_sync, start_meta, start_sync, start_prev, running,
            done, played>>
vars == <<mailbox, loader, engine, image, script>>

Clients == {"client", "stopper"}
Images == Programs \cup {Torn}
Rows == 1..BusRows
Flags == {"LOADED", "RUNNING", "DONE"}

Init ==
  /\ command = "NONE" /\ status = {} /\ lstate = "idle" /\ cmd_seen = "NONE" /\ row = 1
  /\ eng_reset = TRUE /\ eng_start = FALSE /\ status_running = FALSE
  /\ post_we = FALSE /\ post_val = {}
  /\ reset_meta = FALSE /\ reset_sync = FALSE
  /\ start_meta = FALSE /\ start_sync = FALSE /\ start_prev = FALSE
  /\ running = FALSE /\ done = FALSE
  /\ image = Torn /\ bus = [r \in Rows |-> Torn] /\ played = <<Torn, bus>>
  /\ script = [c \in Clients |-> <<>>]

-----------------------------------------------------------------------------
(* The loader FSM.                                                         *)

\* cmd_now & ~cmd_seen: the commands are one-hot
Edge(c) == command = c /\ cmd_seen # c

NoEdge == \A c \in {"SAFE", "LOAD", "FIRE"} : ~Edge(c)

Post(flags) == post_we' = TRUE /\ post_val' = flags

TakeSafe ==
  /\ Edge("SAFE")
  /\ eng_reset' = TRUE /\ status_running' = FALSE /\ Post({})
  /\ UNCHANGED <<lstate, row>>

TakeLoad ==
  /\ Edge("LOAD")
  /\ eng_reset' = TRUE /\ status_running' = FALSE /\ row' = 1 /\ lstate' = "copy"
  /\ post_we' = FALSE /\ UNCHANGED post_val

\* mutant: FIRE does not ask whether an image is loaded
MayFireAlways == TRUE
MayFire == "LOADED" \in status

TakeFire ==
  /\ Edge("FIRE")
  /\ lstate' = IF MayFire THEN "fire" ELSE "idle"
  /\ post_we' = FALSE /\ UNCHANGED <<eng_reset, status_running, row, post_val>>

Refreshes == NoEdge /\ status_running

\* mutant: RUNNING while the engine runs, and nothing after
ProgressRunOnly == {"RUNNING"}
Progress == IF done THEN {"DONE"} ELSE {"RUNNING"}

(* Surface DONE while running, only when no command is taken.              *)
NoCommand ==
  /\ NoEdge
  /\ IF Refreshes
       THEN Post(Progress) /\ status_running' = ~done
       ELSE post_we' = FALSE /\ UNCHANGED <<post_val, status_running>>
  /\ UNCHANGED <<lstate, row, eng_reset>>

LoaderIdle ==
  /\ lstate = "idle"
  /\ cmd_seen' = command /\ eng_start' = FALSE /\ UNCHANGED bus
  /\ TakeSafe \/ TakeLoad \/ TakeFire \/ NoCommand

\* mutant: commands are sampled during the copy, and not acted on
SeenWhileBusySampled == command
SeenWhileBusy == cmd_seen

RowsLeft == row <= BusRows

(* L_NEXT..L_RUN: one row, some cycles.  The engine takes it only under    *)
(* its reset, which is through the synchroniser long before the first row. *)
LoaderCopies ==
  /\ lstate = "copy" /\ RowsLeft /\ reset_sync
  /\ bus' = [bus EXCEPT ![row] = image]
  /\ row' = row + 1
  /\ post_we' = FALSE /\ eng_start' = FALSE /\ cmd_seen' = SeenWhileBusy
  /\ UNCHANGED <<lstate, eng_reset, status_running, post_val>>

LoaderWaits ==
  /\ lstate = "copy" /\ RowsLeft
  /\ post_we' = FALSE /\ eng_start' = FALSE /\ cmd_seen' = SeenWhileBusy
  /\ UNCHANGED <<lstate, row, bus, eng_reset, status_running, post_val>>

LoaderLoaded ==
  /\ lstate = "copy" /\ ~RowsLeft
  /\ Post({"LOADED"}) /\ lstate' = "idle" /\ eng_start' = FALSE
  /\ cmd_seen' = SeenWhileBusy
  /\ UNCHANGED <<row, eng_reset, status_running, bus>>

LoaderFires ==
  /\ lstate = "fire"
  /\ eng_reset' = FALSE /\ eng_start' = TRUE /\ status_running' = TRUE
  /\ Post({"RUNNING"})
  /\ cmd_seen' = command /\ lstate' = "idle"
  /\ UNCHANGED <<row, bus>>

-----------------------------------------------------------------------------
(* The engine behind its synchronisers.                                    *)

Synchronise ==
  /\ reset_meta' = eng_reset /\ reset_sync' = reset_meta
  /\ start_meta' = eng_start /\ start_sync' = start_meta /\ start_prev' = start_sync

StartEvent == start_sync /\ ~start_prev

Engine ==
  \/ /\ reset_sync
     /\ running' = FALSE /\ done' = FALSE /\ UNCHANGED played
  \/ /\ ~reset_sync /\ StartEvent /\ ~running
     /\ running' \in BOOLEAN /\ done' = ~running' /\ played' = <<image, bus>>
  \/ /\ ~reset_sync /\ ~(StartEvent /\ ~running)
     /\ UNCHANGED played
     /\ \/ UNCHANGED <<running, done>>
        \/ running /\ running' = FALSE /\ done' = TRUE

WriteStatus == status' = IF post_we THEN post_val ELSE status

Clock ==
  /\ LoaderIdle \/ LoaderCopies \/ LoaderWaits \/ LoaderLoaded \/ LoaderFires
  /\ WriteStatus /\ Synchronise /\ Engine
  /\ UNCHANGED <<command, image, script>>

-----------------------------------------------------------------------------
(* The host.  A command is written as 0 and then the command, so that it   *)
(* has an edge.                                                            *)

Command(c) == <<"NONE", c>>

\* mutant: prepare() does not halt the engine before it rewrites the image
PrepareRunning == <<"image", "NONE", "LOAD", "poll">>
PrepareWords == <<"NONE", "SAFE", "image", "NONE", "LOAD", "poll">>

(* Every transient of the last word is over; the copy is not, it is long.  *)
Settled ==
  \/ lstate = "copy"
  \/ /\ lstate = "idle" /\ cmd_seen = command
     /\ reset_meta = eng_reset /\ reset_sync = eng_reset
     /\ ~(eng_start \/ start_meta \/ start_sync)
     /\ post_we => status_running \/ post_val = {"DONE"}

Send(c, words) == script[c] = <<>> /\ script' = [script EXCEPT ![c] = words]
Prepare == Send("client", PrepareWords)
Fire == Send("client", Command("FIRE"))
SafeState == Send("stopper", Command("SAFE"))

Sent(c) == script' = [script EXCEPT ![c] = Tail(@)]

WriteCommand(c) ==
  /\ script[c] # <<>> /\ Head(script[c]) \in {"NONE", "SAFE", "LOAD", "FIRE"}
  /\ Settled
  /\ command' = Head(script[c]) /\ Sent(c)
  /\ UNCHANGED <<status, loader, engine, image>>

(* The upload: at first the image is neither the old one nor the new.      *)
WriteImage(c) ==
  /\ script[c] # <<>> /\ Head(script[c]) = "image" /\ Settled
  /\ \/ image # Torn /\ image' = Torn /\ UNCHANGED script
     \/ image = Torn /\ image' \in Programs /\ Sent(c)
  /\ UNCHANGED <<mailbox, loader, engine>>

(* prepare() polls for LOADED, and gives up after load_timeout: seconds,   *)
(* by when a copy that was started has ended.                              *)
PollLoaded(c) ==
  /\ script[c] # <<>> /\ Head(script[c]) = "poll"
  /\ "LOADED" \in status \/ (Settled /\ lstate = "idle")
  /\ Sent(c)
  /\ UNCHANGED <<mailbox, loader, engine, image>>

Call == (Prepare \/ Fire \/ SafeState) /\ UNCHANGED <<mailbox, loader, engine, image>>
Host == \E c \in Clients : WriteCommand(c) \/ WriteImage(c) \/ PollLoaded(c)

Next == Clock \/ Call \/ Host

(* The clock runs, a copy goes on, and a call's words are sent: the words  *)
(* of all clients leave one queue in order, so no client shuts out another.*)
Spec ==
  /\ Init /\ [][Next]_vars
  /\ WF_vars(Clock) /\ \A c \in Clients : SF_vars(WriteCommand(c) \/ WriteImage(c))
  /\ WF_vars(LoaderCopies /\ Clock)

-----------------------------------------------------------------------------
TypeOK ==
  /\ command \in {"NONE", "SAFE", "LOAD", "FIRE"} /\ cmd_seen \in {"NONE", "SAFE", "LOAD", "FIRE"}
  /\ status \subseteq Flags /\ post_val \subseteq Flags
  /\ lstate \in {"idle", "copy", "fire"} /\ row \in 1..BusRows + 1
  /\ {eng_reset, eng_start, status_running, post_we} \subseteq BOOLEAN
  /\ {reset_meta, reset_sync, start_meta, start_sync, start_prev} \subseteq BOOLEAN
  /\ running \in BOOLEAN /\ done \in BOOLEAN /\ ~(running /\ done)
  /\ image \in Images /\ bus \in [Rows -> Images]
  /\ played \in Images \X [Rows -> Images]

(* LOADED is shown only for a whole image whose bus rows are all copied,   *)
(* whichever prepare, SAFE or aborted prepare came before; and the engine  *)
(* runs such an image, which nobody rewrites meanwhile.                    *)
LoadedMeansCopied ==
  /\ "LOADED" \in status => image # Torn /\ \A r \in Rows : bus[r] = image
  /\ running /\ ~reset_sync =>
       /\ played[1] # Torn /\ \A r \in Rows : played[2][r] = played[1]
       /\ image = played[1] /\ bus = played[2]

\* The phase of the device: what its registers, and a post under way, make of it.
phaseNow ==
  CASE lstate = "copy" -> "loading"
    [] lstate # "copy" /\ ~eng_reset -> IF status_running THEN "running" ELSE "done"
    [] OTHER -> IF "LOADED" \in (IF post_we THEN post_val ELSE status)
                  THEN "loaded" ELSE "reset"

(* A SAFE is obeyed, also when it arrives during the copy of a load that   *)
(* would otherwise leave the program armed.                                *)
SafeObeyed == script["stopper"] # <<>> ~> phaseNow = "reset"

(* The end of a run is shown to a host that polls, unless a command        *)
(* overtakes it.                                                           *)
DoneShown == done ~> ("DONE" \in status \/ ~done)

(* The mailbox is the device of StreamerLifecycle.                         *)
Lifecycle == INSTANCE StreamerLifecycle WITH phase <- phaseNow
ImplementsLifecycle == Lifecycle!Spec
=============================================================================
