------------------------- MODULE HostInterface_proof -------------------------
(***************************************************************************)
(* Proofs about the host's way into the board, for every value of the      *)
(* constants.                                                              *)
(*                                                                         *)
(* StreamerTop: LOADED is shown only for a whole image that is copied, the *)
(* engine runs such an image, and the mailbox is the device of             *)
(* StreamerLifecycle.                                                      *)
(*                                                                         *)
(* UartLink: an exchange begun on a quiet link that returns has its own    *)
(* answers and its frames took effect once each, in order, and it times    *)
(* out only if a byte of it was spoiled.  LinkInv has the types and what   *)
(* the host knows; OrderInv adds that after a quiet start the frames on    *)
(* the line, in the bridge and among the answers follow one another;       *)
(* SoundInv adds that, as long as nothing is spoiled, the bridge meets     *)
(* each frame at rest and takes it whole.                                  *)
(***************************************************************************)
EXTENDS StreamerTop, UartLink, SequenceTheorems, WellFoundedInduction, TLAPS

-----------------------------------------------------------------------------
(* What a call has still to send, by the words left of it.                 *)

Prepare1 == <<"SAFE", "image", "NONE", "LOAD", "poll">>
Upload0 == <<"image", "NONE", "LOAD", "poll">>
Upload1 == <<"NONE", "LOAD", "poll">>
Upload2 == <<"LOAD", "poll">>
Poll == <<"poll">>
Fire0 == Command("FIRE")
Fire1 == <<"FIRE">>
Safe0 == Command("SAFE")
Safe1 == <<"SAFE">>
None == <<>>

ClientScripts ==
  {None, PrepareWords, Prepare1, Upload0, Upload1, Upload2, Poll, Fire0, Fire1}
StopperScripts == {None, Safe0, Safe1}
Uploading == {Upload0, Upload1, Upload2}

-----------------------------------------------------------------------------
(* The inductive invariant.                                                *)

\* The mailbox and the type of every register.
Registers ==
  /\ command \in {"NONE", "SAFE", "LOAD", "FIRE"} /\ cmd_seen \in {"NONE", "SAFE", "LOAD", "FIRE"}
  /\ status \subseteq Flags /\ post_val \subseteq Flags
  /\ lstate \in {"idle", "copy", "fire"} /\ row \in 1..BusRows + 1
  /\ eng_reset \in BOOLEAN /\ eng_start \in BOOLEAN /\ status_running \in BOOLEAN
  /\ post_we \in BOOLEAN
  /\ reset_meta \in BOOLEAN /\ reset_sync \in BOOLEAN
  /\ start_meta \in BOOLEAN /\ start_sync \in BOOLEAN /\ start_prev \in BOOLEAN
  /\ running \in BOOLEAN /\ done \in BOOLEAN /\ ~(running /\ done)
  /\ image \in Images /\ bus \in [Rows -> Images]
  /\ played \in Images \X [Rows -> Images]

Scripts ==
  /\ DOMAIN script = Clients
  /\ script["client"] \in ClientScripts /\ script["stopper"] \in StopperScripts

Copied == image # Torn /\ \A r \in Rows : bus[r] = image
Starting == eng_start \/ start_meta \/ start_sync

\* What the host will read, the post under way included.
Shown == IF post_we THEN post_val ELSE status

Halted ==
  /\ lstate = "idle" /\ eng_reset /\ ~status_running /\ ~Starting
  /\ "LOADED" \notin Shown /\ (post_we => post_val = {})

\* A command is new for one cycle of an idle loader, or waits for the copy to end.
Sampled ==
  /\ command # cmd_seen => ~Starting /\ lstate # "fire"
  /\ Edge("FIRE") => lstate = "idle" /\ (post_we => ~eng_reset)

SafeSeen == lstate = "idle" /\ cmd_seen = "SAFE" => Halted

\* prepare() rewrites the image of a halted engine only.
Uploads ==
  script["client"] \in Uploading =>
    /\ lstate = "idle" /\ command \in {"NONE", "SAFE"}
    /\ Halted \/ Edge("SAFE")
    /\ script["client"] # Upload0 => image # Torn

LoadPending ==
  Edge("LOAD") => script["client"] = Poll /\ Halted /\ ~post_we /\ image # Torn

Copying ==
  lstate = "copy" =>
    /\ script["client"] = Poll /\ cmd_seen = "LOAD" /\ command # "FIRE"
    /\ ~post_we /\ "LOADED" \notin status
    /\ eng_reset /\ ~status_running /\ ~Starting /\ image # Torn
    /\ \A r \in Rows : r < row => bus[r] = image

\* A complete load, until the image is released to the engine, and a release of it.
Loaded ==
  /\ "LOADED" \in status =>
       Copied /\ (eng_reset \/ (post_we /\ "LOADED" \notin post_val /\ eng_start))
  /\ post_we /\ "LOADED" \in post_val => Copied /\ eng_reset
  /\ lstate = "fire" \/ Starting => Copied
  /\ lstate = "fire" =>
       /\ "LOADED" \in status /\ eng_reset /\ ~post_we /\ ~status_running
       /\ command = "FIRE" /\ cmd_seen = "FIRE"

Runs ==
  /\ running /\ ~reset_sync => Copied /\ played = <<image, bus>>
  /\ status_running => ~eng_reset
  /\ post_we /\ "DONE" \in post_val => ~eng_reset

Inv ==
  /\ Registers /\ Scripts /\ Sampled /\ SafeSeen /\ Uploads
  /\ LoadPending /\ Copying /\ Loaded /\ Runs

-----------------------------------------------------------------------------
(* The words, one at a time.                                               *)

LEMMA FirstWords ==
  /\ Head(PrepareWords) = "NONE" /\ Head(Prepare1) = "SAFE" /\ Head(Upload0) = "image"
  /\ Head(Upload1) = "NONE" /\ Head(Upload2) = "LOAD" /\ Head(Poll) = "poll"
  /\ Head(Fire0) = "NONE" /\ Head(Fire1) = "FIRE"
  /\ Head(Safe0) = "NONE" /\ Head(Safe1) = "SAFE"
<1>1. Head(PrepareWords) = "NONE"
  BY DEF PrepareWords
<1>2. Head(Prepare1) = "SAFE"
  BY DEF Prepare1
<1>3. Head(Upload0) = "image"
  BY DEF Upload0
<1>4. Head(Upload1) = "NONE"
  BY DEF Upload1
<1>5. Head(Upload2) = "LOAD"
  BY DEF Upload2
<1>6. Head(Poll) = "poll"
  BY DEF Poll
<1>7. Head(Fire0) = "NONE" /\ Head(Fire1) = "FIRE"
  BY DEF Fire0, Fire1, Command
<1>8. Head(Safe0) = "NONE" /\ Head(Safe1) = "SAFE"
  BY DEF Safe0, Safe1, Command
<1>9. QED BY <1>1, <1>2, <1>3, <1>4, <1>5, <1>6, <1>7, <1>8

LEMMA OtherWords ==
  /\ Tail(PrepareWords) = Prepare1 /\ Tail(Prepare1) = Upload0 /\ Tail(Upload0) = Upload1
  /\ Tail(Upload1) = Upload2 /\ Tail(Upload2) = Poll /\ Tail(Poll) = None
  /\ Tail(Fire0) = Fire1 /\ Tail(Fire1) = None
  /\ Tail(Safe0) = Safe1 /\ Tail(Safe1) = None
<1>1. Tail(PrepareWords) = Prepare1
  BY DEF PrepareWords, Prepare1
<1>2. Tail(Prepare1) = Upload0
  BY DEF Prepare1, Upload0
<1>3. Tail(Upload0) = Upload1
  BY DEF Upload0, Upload1
<1>4. Tail(Upload1) = Upload2
  BY DEF Upload1, Upload2
<1>5. Tail(Upload2) = Poll
  BY DEF Upload2, Poll
<1>6. Tail(Poll) = None
  BY DEF Poll, None
<1>7. Tail(Fire0) = Fire1
  BY DEF Fire0, Fire1, Command
<1>8. Tail(Fire1) = None
  BY DEF Fire1, None
<1>9. Tail(Safe0) = Safe1
  BY DEF Safe0, Safe1, Command
<1>10. Tail(Safe1) = None
  BY DEF Safe1, None
<1>11. QED BY <1>1, <1>2, <1>3, <1>4, <1>5, <1>6, <1>7, <1>8, <1>9, <1>10

LEMMA WordsLeft ==
  /\ Len(None) = 0 /\ Len(PrepareWords) = 6 /\ Len(Prepare1) = 5 /\ Len(Upload0) = 4
  /\ Len(Upload1) = 3 /\ Len(Upload2) = 2 /\ Len(Poll) = 1
  /\ Len(Fire0) = 2 /\ Len(Fire1) = 1 /\ Len(Safe0) = 2 /\ Len(Safe1) = 1
<1>1. Len(None) = 0
  BY DEF None
<1>2. Len(PrepareWords) = 6
  BY DEF PrepareWords
<1>3. Len(Prepare1) = 5
  BY DEF Prepare1
<1>4. Len(Upload0) = 4
  BY DEF Upload0
<1>5. Len(Upload1) = 3
  BY DEF Upload1
<1>6. Len(Upload2) = 2
  BY DEF Upload2
<1>7. Len(Poll) = 1
  BY DEF Poll
<1>8. Len(Fire0) = 2 /\ Len(Fire1) = 1
  BY DEF Fire0, Fire1, Command
<1>9. Len(Safe0) = 2 /\ Len(Safe1) = 1
  BY DEF Safe0, Safe1, Command
<1>10. QED BY <1>1, <1>2, <1>3, <1>4, <1>5, <1>6, <1>7, <1>8, <1>9

LEMMA WordsApart ==
  /\ None \notin Uploading /\ PrepareWords \notin Uploading /\ Prepare1 \notin Uploading
  /\ Poll \notin Uploading /\ Fire0 \notin Uploading /\ Fire1 \notin Uploading
  /\ Upload0 # Upload1 /\ Upload0 # Upload2
  /\ Poll # None /\ Poll # PrepareWords /\ Poll # Prepare1 /\ Poll # Upload0 /\ Poll # Upload1
  /\ Poll # Upload2 /\ Poll # Fire0 /\ Poll # Fire1
<1>1. Len(None) = 0 /\ Len(Poll) = 1 /\ Len(Upload0) = 4
  BY WordsLeft
<1>2. Len(Upload1) = 3 /\ Len(Upload2) = 2 /\ Len(Fire0) = 2
  BY WordsLeft
<1>3. Len(None) = 0 /\ Len(Upload1) = 3 /\ Len(Upload2) = 2
  BY WordsLeft
<1>4. Len(Upload1) = 3 /\ Len(PrepareWords) = 6
  BY WordsLeft
<1>5. None # Upload0 /\ None # Poll
  BY <1>1, SMTT(30)
<1>6. None # Upload1 /\ None # Upload2
  BY <1>3
<1>7. Fire0 # Upload1 /\ Fire0 # Upload0 /\ Fire0 # Upload2
  BY <1>2, FirstWords
<1>8. PrepareWords # Upload0 /\ PrepareWords # Upload1 /\ PrepareWords # Upload2
  BY <1>4, FirstWords
<1>9. /\ Prepare1 # Upload0 /\ Prepare1 # Upload1 /\ Prepare1 # Upload2
      /\ Fire1 # Upload0 /\ Fire1 # Upload1 /\ Fire1 # Upload2
      /\ Upload0 # Upload1 /\ Upload0 # Upload2
  BY FirstWords
<1>10. /\ Poll # PrepareWords /\ Poll # Prepare1 /\ Poll # Fire0 /\ Poll # Fire1
       /\ Poll # Upload0 /\ Poll # Upload1 /\ Poll # Upload2
  BY FirstWords
<1>11. QED BY <1>5, <1>6, <1>7, <1>8, <1>9, <1>10 DEF Uploading

\* One word of a client goes out; the other client's words stay.
LEMMA SentOne ==
  ASSUME Scripts, NEW c \in Clients, Sent(c)
  PROVE  /\ DOMAIN script' = Clients /\ script'[c] = Tail(script[c])
         /\ \A d \in Clients : d # c => script'[d] = script[d]
  BY DEF Scripts, Sent

\* The commands a client writes, by the words it has left.
LEMMA CommandWords ==
  ASSUME Scripts, NEW c \in Clients, WriteCommand(c)
  PROVE  /\ Scripts'
         /\ \/ /\ c = "client" /\ script'["stopper"] = script["stopper"]
               /\ \/ script[c] = PrepareWords /\ command' = "NONE" /\ script'[c] = Prepare1
                  \/ script[c] = Prepare1 /\ command' = "SAFE" /\ script'[c] = Upload0
                  \/ script[c] = Upload1 /\ command' = "NONE" /\ script'[c] = Upload2
                  \/ script[c] = Upload2 /\ command' = "LOAD" /\ script'[c] = Poll
                  \/ script[c] = Fire0 /\ command' = "NONE" /\ script'[c] = Fire1
                  \/ script[c] = Fire1 /\ command' = "FIRE" /\ script'[c] = None
            \/ /\ c = "stopper" /\ script'["client"] = script["client"]
               /\ command' \in {"NONE", "SAFE"}
<1>1. /\ Sent(c) /\ Head(script[c]) \in {"NONE", "SAFE", "LOAD", "FIRE"}
      /\ command' = Head(script[c])
  BY DEF WriteCommand
<1>2. script[c] # None
  BY DEF WriteCommand, None
<1>3. /\ DOMAIN script' = Clients /\ script'[c] = Tail(script[c])
      /\ \A d \in Clients : d # c => script'[d] = script[d]
  BY <1>1, SentOne
<1>4. c = "client" \/ c = "stopper"
  BY DEF Clients
<1>5. "client" \in Clients /\ "stopper" \in Clients
  BY DEF Clients
<1>6. CASE c = "client"
  <2>1. /\ command' = Head(script[c]) /\ script'["client"] = Tail(script[c])
        /\ script'["stopper"] = script["stopper"]
    BY <1>1, <1>3, <1>5, <1>6
  <2>2. script[c] \in {PrepareWords, Prepare1, Upload1, Upload2, Fire0, Fire1}
    BY <1>1, <1>2, <1>6, FirstWords DEF Scripts, ClientScripts
  <2>3. \/ script[c] = PrepareWords /\ command' = "NONE" /\ script'["client"] = Prepare1
        \/ script[c] = Prepare1 /\ command' = "SAFE" /\ script'["client"] = Upload0
        \/ script[c] = Upload1 /\ command' = "NONE" /\ script'["client"] = Upload2
        \/ script[c] = Upload2 /\ command' = "LOAD" /\ script'["client"] = Poll
        \/ script[c] = Fire0 /\ command' = "NONE" /\ script'["client"] = Fire1
        \/ script[c] = Fire1 /\ command' = "FIRE" /\ script'["client"] = None
    BY <2>1, <2>2, FirstWords, OtherWords
  <2>4. Scripts'
    BY <1>3, <2>1, <2>3 DEF Scripts, ClientScripts
  <2>5. QED BY <1>6, <2>1, <2>3, <2>4
<1>7. CASE c = "stopper"
  BY <1>1, <1>2, <1>3, <1>5, <1>7, FirstWords, OtherWords DEF Scripts, StopperScripts
<1>8. QED BY <1>4, <1>6, <1>7

\* The upload and the poll are words of the client's prepare.
LEMMA ImageWords ==
  ASSUME Scripts, NEW c \in Clients, WriteImage(c)
  PROVE  /\ Scripts' /\ c = "client" /\ script["client"] = Upload0
         /\ \/ image # Torn /\ image' = Torn /\ script' = script
            \/ image = Torn /\ image' \in Programs /\ script'["client"] = Upload1
<1>1. script[c] # None /\ Head(script[c]) = "image"
  BY DEF WriteImage, None
<1>2. \/ image # Torn /\ image' = Torn /\ script' = script
      \/ image = Torn /\ image' \in Programs /\ Sent(c)
  BY DEF WriteImage
<1>3. c = "client" /\ script["client"] = Upload0
  BY <1>1, FirstWords DEF Scripts, ClientScripts, StopperScripts, Clients
<1>4. CASE image # Torn /\ image' = Torn /\ script' = script
  BY <1>3, <1>4 DEF Scripts
<1>5. CASE image = Torn /\ image' \in Programs /\ Sent(c)
  <2>1. /\ DOMAIN script' = Clients /\ script'["client"] = Upload1
        /\ script'["stopper"] = script["stopper"]
    BY <1>3, <1>5, SentOne, OtherWords DEF Clients
  <2>2. Scripts'
    BY <2>1 DEF Scripts, ClientScripts
  <2>3. QED BY <1>3, <1>5, <2>1, <2>2
<1>6. QED BY <1>2, <1>4, <1>5

LEMMA PollWords ==
  ASSUME Scripts, NEW c \in Clients, PollLoaded(c)
  PROVE  /\ Scripts' /\ script["client"] = Poll /\ script'["client"] = None
<1>1. script[c] # None /\ Head(script[c]) = "poll" /\ Sent(c)
  BY DEF PollLoaded, None
<1>2. c = "client" /\ script["client"] = Poll
  BY <1>1, FirstWords DEF Scripts, ClientScripts, StopperScripts, Clients
<1>3. /\ DOMAIN script' = Clients /\ script'["client"] = None
      /\ script'["stopper"] = script["stopper"]
  BY <1>1, <1>2, SentOne, OtherWords DEF Clients
<1>4. Scripts'
  BY <1>3 DEF Scripts, ClientScripts
<1>5. QED BY <1>2, <1>3, <1>4

\* A call puts its words where none are left.
LEMMA CallWords ==
  ASSUME Scripts, Call
  PROVE  /\ Scripts'
         /\ \/ script'["client"] = script["client"]
            \/ script["client"] = None /\ script'["client"] \in {PrepareWords, Fire0}
<1>1. \/ script["client"] = <<>> /\ script' = [script EXCEPT !["client"] = PrepareWords]
      \/ script["client"] = <<>> /\ script' = [script EXCEPT !["client"] = Fire0]
      \/ script["stopper"] = <<>> /\ script' = [script EXCEPT !["stopper"] = Safe0]
  BY DEF Call, Prepare, Fire, SafeState, Send, Fire0, Safe0
<1>2. \/ script["client"] = None /\ script' = [script EXCEPT !["client"] = PrepareWords]
      \/ script["client"] = None /\ script' = [script EXCEPT !["client"] = Fire0]
      \/ script' = [script EXCEPT !["stopper"] = Safe0]
  BY <1>1 DEF None
<1>3. DOMAIN script = Clients /\ "client" \in Clients /\ "stopper" \in Clients
  BY DEF Scripts, Clients
<1>4. QED BY <1>2, <1>3 DEF Scripts, ClientScripts, StopperScripts

-----------------------------------------------------------------------------
(* A cycle of the clock.                                                   *)

ClockFrame ==
  /\ command' = command /\ image' = image /\ script' = script
  /\ status' = (IF post_we THEN post_val ELSE status)
  /\ reset_meta' = eng_reset /\ reset_sync' = reset_meta
  /\ start_meta' = eng_start /\ start_sync' = start_meta /\ start_prev' = start_sync

LEMMA ClockFrames == Clock => ClockFrame
BY DEF Clock, ClockFrame, WriteStatus, Synchronise

\* What the loader's registers become, whatever it does.
LEMMA LoaderRegisters ==
  ASSUME Registers, LoaderIdle \/ LoaderCopies \/ LoaderWaits \/ LoaderLoaded \/ LoaderFires
  PROVE  /\ cmd_seen' \in {"NONE", "SAFE", "LOAD", "FIRE"} /\ post_val' \subseteq Flags
         /\ lstate' \in {"idle", "copy", "fire"} /\ row' \in 1..BusRows + 1
         /\ eng_reset' \in BOOLEAN /\ eng_start' \in BOOLEAN /\ status_running' \in BOOLEAN
         /\ post_we' \in BOOLEAN /\ bus' \in [Rows -> Images]
         /\ bus' # bus => lstate = "copy" /\ reset_sync
<1>1. CASE LoaderIdle
  <2>1. CASE TakeSafe
    BY <1>1, <2>1, TopAssumption DEF LoaderIdle, TakeSafe, Registers, Post, Flags
  <2>2. CASE TakeLoad
    <3>1. /\ cmd_seen' = command /\ eng_start' = FALSE /\ bus' = bus /\ lstate' = "copy"
          /\ row' = 1 /\ eng_reset' = TRUE /\ status_running' = FALSE /\ post_we' = FALSE
          /\ post_val' = post_val
      BY <1>1, <2>2 DEF LoaderIdle, TakeLoad
    <3>2. 1 \in 1..BusRows + 1
      BY TopAssumption
    <3>3. QED BY <3>1, <3>2 DEF Registers
  <2>3. CASE TakeFire
    BY <1>1, <2>3, TopAssumption DEF LoaderIdle, TakeFire, Registers, Flags
  <2>4. CASE NoCommand
    <3>1. /\ cmd_seen' = command /\ eng_start' = FALSE /\ bus' = bus
          /\ lstate' = lstate /\ row' = row /\ eng_reset' = eng_reset
      BY <1>1, <2>4 DEF LoaderIdle, NoCommand
    <3>2. /\ post_we' \in BOOLEAN
          /\ post_val' = post_val \/ post_val' = Progress
          /\ status_running' = status_running \/ status_running' = ~done
      BY <2>4 DEF NoCommand, Post
    <3>3. Progress \subseteq Flags
      BY DEF Progress, Flags
    <3>4. post_val' \subseteq Flags
      BY <3>2, <3>3 DEF Registers
    <3>5. status_running' \in BOOLEAN
      BY <3>2 DEF Registers
    <3>6. QED BY <3>1, <3>2, <3>4, <3>5 DEF Registers
  <2>5. QED BY <1>1, <2>1, <2>2, <2>3, <2>4 DEF LoaderIdle
<1>2. CASE LoaderCopies
  <2>1. /\ lstate = "copy" /\ reset_sync /\ row <= BusRows /\ row' = row + 1
        /\ bus' = [bus EXCEPT ![row] = image] /\ lstate' = lstate
    BY <1>2 DEF LoaderCopies, RowsLeft
  <2>2. bus' \in [Rows -> Images]
    BY <2>1 DEF Registers
  <2>3. row' \in 1..BusRows + 1
    BY <2>1, TopAssumption DEF Registers
  <2>4. /\ cmd_seen' = cmd_seen /\ post_val' = post_val /\ eng_reset' = eng_reset
        /\ eng_start' = FALSE /\ status_running' = status_running /\ post_we' = FALSE
    BY <1>2 DEF LoaderCopies, SeenWhileBusy
  <2>5. QED BY <2>1, <2>2, <2>3, <2>4 DEF Registers
<1>3. CASE LoaderWaits
  BY <1>3 DEF LoaderWaits, Registers, SeenWhileBusy
<1>4. CASE LoaderLoaded
  BY <1>4 DEF LoaderLoaded, Registers, SeenWhileBusy, Post, Flags
<1>5. CASE LoaderFires
  BY <1>5 DEF LoaderFires, Registers, Post, Flags
<1>6. QED BY <1>1, <1>2, <1>3, <1>4, <1>5

LEMMA EngineRegisters ==
  ASSUME Registers, Engine
  PROVE  /\ running' \in BOOLEAN /\ done' \in BOOLEAN /\ ~(running' /\ done')
         /\ played' \in Images \X [Rows -> Images]
<1>1. /\ running' \in BOOLEAN /\ done' \in BOOLEAN /\ ~(running' /\ done')
      /\ played' = played \/ played' = <<image, bus>>
  <2>1. CASE running' = FALSE /\ done' \in BOOLEAN /\ played' = played
    BY <2>1
  <2>2. CASE running' \in BOOLEAN /\ done' = ~running' /\ played' = <<image, bus>>
    BY <2>2
  <2>3. CASE running' = running /\ done' = done /\ played' = played
    BY <2>3 DEF Registers
  <2>4. QED BY <2>1, <2>2, <2>3 DEF Engine
<1>2. played' \in Images \X [Rows -> Images]
  BY <1>1 DEF Registers
<1>3. QED BY <1>1, <1>2

LEMMA ClockRegisters ==
  ASSUME Registers, Clock
  PROVE  Registers'
<1>1. ClockFrame
  BY ClockFrames
<1>2. status' \subseteq Flags
  BY <1>1 DEF Registers, ClockFrame
<1>3. Engine
  BY DEF Clock
<1>4. LoaderIdle \/ LoaderCopies \/ LoaderWaits \/ LoaderLoaded \/ LoaderFires
  BY DEF Clock
<1>5. Registers'
  BY <1>1, <1>2, <1>3, <1>4, LoaderRegisters, EngineRegisters DEF Registers, ClockFrame
<1>6. QED BY <1>5

\* The engine starts what is copied, and nothing rewrites it under a run.
LEMMA ClockRuns ==
  ASSUME Inv, Clock, running', ~reset_sync'
  PROVE  Copied' /\ played' = <<image', bus'>>
<1>1. ClockFrame /\ Engine
  BY ClockFrames DEF Clock
<1>2. ~reset_sync
  BY <1>1 DEF Engine
<1>3. bus' = bus /\ image' = image
  BY <1>1, <1>2, LoaderRegisters DEF Clock, ClockFrame, Inv
<1>4. Copied /\ played' = <<image, bus>>
  <2>1. CASE StartEvent /\ ~running
    BY <1>1, <1>2, <2>1 DEF Engine, StartEvent, Inv, Loaded, Starting
  <2>2. CASE ~(StartEvent /\ ~running)
    BY <1>1, <1>2, <2>2 DEF Engine, Inv, Runs
  <2>3. QED BY <2>1, <2>2
<1>5. QED BY <1>3, <1>4 DEF Copied

-----------------------------------------------------------------------------
(* Every cycle keeps the invariant: one lemma for each thing a loader does.*)

\* What any cycle keeps.
LEMMA ClockKeeps ==
  ASSUME Inv, Clock
  PROVE  /\ Registers' /\ Scripts' /\ ClockFrame
         /\ running' /\ ~reset_sync' => Copied' /\ played' = <<image', bus'>>
<1>1. Registers' /\ ClockFrame
  BY ClockRegisters, ClockFrames DEF Inv
<1>2. Scripts'
  BY <1>1 DEF Inv, Scripts, ClockFrame
<1>3. QED BY <1>1, <1>2, ClockRuns

\* SAFE: the engine is held in reset, and the status is cleared.
LEMMA SafeInv ==
  ASSUME Inv, Clock, LoaderIdle, TakeSafe
  PROVE  Inv'
<1>1. /\ command = "SAFE" /\ cmd_seen # "SAFE" /\ lstate = "idle"
      /\ cmd_seen' = "SAFE" /\ eng_start' = FALSE /\ lstate' = "idle" /\ bus' = bus
      /\ eng_reset' = TRUE /\ status_running' = FALSE /\ post_we' = TRUE /\ post_val' = {}
  BY DEF LoaderIdle, TakeSafe, Post, Edge
<1>2. /\ command' = "SAFE" /\ image' = image /\ script' = script
      /\ status' = (IF post_we THEN post_val ELSE status)
      /\ start_meta' = eng_start /\ start_sync' = start_meta
  BY <1>1, ClockKeeps DEF ClockFrame
<1>3. ~Starting'
  BY <1>1, <1>2 DEF Inv, Sampled, Starting
<1>4. Halted'
  BY <1>1, <1>3 DEF Halted, Shown
<1>5. Sampled' /\ SafeSeen'
  BY <1>1, <1>2, <1>4 DEF Sampled, SafeSeen, Edge
<1>6. Uploads'
  BY <1>1, <1>2, <1>4 DEF Inv, Uploads
<1>7. LoadPending' /\ Copying'
  BY <1>1, <1>2 DEF LoadPending, Copying, Edge
<1>8. Loaded'
  <2>1. "LOADED" \in status' => Copied
    BY <1>2 DEF Inv, Loaded
  <2>2. Copied' = Copied
    BY <1>1, <1>2 DEF Copied
  <2>3. QED BY <1>1, <1>3, <2>1, <2>2 DEF Loaded
<1>9. Runs'
  BY <1>1, ClockKeeps DEF Runs
<1>10. QED BY <1>5, <1>6, <1>7, <1>8, <1>9, ClockKeeps DEF Inv

\* LOAD: the copy begins, of an image that is whole, into an engine in reset.
LEMMA LoadInv ==
  ASSUME Inv, Clock, LoaderIdle, TakeLoad
  PROVE  Inv'
<1>1. /\ command = "LOAD" /\ cmd_seen # "LOAD" /\ lstate = "idle"
      /\ cmd_seen' = "LOAD" /\ eng_start' = FALSE /\ lstate' = "copy" /\ bus' = bus
      /\ eng_reset' = TRUE /\ status_running' = FALSE /\ post_we' = FALSE /\ row' = 1
  BY DEF LoaderIdle, TakeLoad, Edge
<1>2. /\ command' = "LOAD" /\ image' = image /\ script' = script
      /\ status' = (IF post_we THEN post_val ELSE status)
      /\ start_meta' = eng_start /\ start_sync' = start_meta
  BY <1>1, ClockKeeps DEF ClockFrame
<1>3. script["client"] = Poll /\ Halted /\ ~post_we /\ image # Torn
  BY <1>1 DEF Inv, LoadPending, Edge
<1>4. ~Starting' /\ "LOADED" \notin status'
  BY <1>1, <1>2, <1>3 DEF Halted, Starting, Shown
<1>5. Sampled' /\ SafeSeen'
  BY <1>1, <1>2 DEF Sampled, SafeSeen, Edge
<1>6. Uploads'
  BY <1>2, <1>3, WordsApart DEF Uploads
<1>7. LoadPending'
  BY <1>1, <1>2 DEF LoadPending, Edge
<1>8. Copying'
  BY <1>1, <1>2, <1>3, <1>4 DEF Copying, Rows
<1>9. Loaded'
  BY <1>1, <1>4 DEF Loaded
<1>10. Runs'
  BY <1>1, ClockKeeps DEF Runs
<1>11. QED BY <1>5, <1>6, <1>7, <1>8, <1>9, <1>10, ClockKeeps DEF Inv

\* FIRE: obeyed if LOADED is shown, and then the image is a complete one.
LEMMA FireInv ==
  ASSUME Inv, Clock, LoaderIdle, TakeFire
  PROVE  Inv'
<1>1. /\ command = "FIRE" /\ cmd_seen # "FIRE" /\ lstate = "idle"
      /\ cmd_seen' = "FIRE" /\ eng_start' = FALSE /\ bus' = bus
      /\ lstate' = (IF "LOADED" \in status THEN "fire" ELSE "idle")
      /\ eng_reset' = eng_reset /\ status_running' = status_running /\ post_we' = FALSE
  BY DEF LoaderIdle, TakeFire, Edge, MayFire
<1>2. /\ command' = "FIRE" /\ image' = image /\ script' = script
      /\ status' = (IF post_we THEN post_val ELSE status)
      /\ start_meta' = eng_start /\ start_sync' = start_meta
  BY <1>1, ClockKeeps DEF ClockFrame
<1>3. ~Starting /\ (post_we => ~eng_reset)
  BY <1>1 DEF Inv, Sampled, Edge
<1>4. ~Starting'
  BY <1>1, <1>2, <1>3 DEF Starting
<1>5. Copied' = Copied
  BY <1>1, <1>2 DEF Copied
<1>6. "LOADED" \in status => Copied /\ eng_reset /\ ~post_we /\ ~status_running
  BY <1>3 DEF Inv, Loaded, Starting, Runs
<1>7. "LOADED" \in status' => Copied /\ eng_reset
  BY <1>2, <1>6 DEF Inv, Loaded
<1>8. Sampled' /\ SafeSeen'
  BY <1>1, <1>2 DEF Sampled, SafeSeen, Edge
<1>9. Uploads'
  BY <1>1, <1>2 DEF Inv, Uploads
<1>10. LoadPending' /\ Copying'
  BY <1>1, <1>2 DEF LoadPending, Copying, Edge
<1>11. Loaded'
  BY <1>1, <1>2, <1>4, <1>5, <1>6, <1>7 DEF Loaded
<1>12. Runs'
  BY <1>1, ClockKeeps DEF Inv, Runs
<1>13. QED BY <1>8, <1>9, <1>10, <1>11, <1>12, ClockKeeps DEF Inv

\* No command: a running engine's progress is posted, or the post under way lands.
LEMMA NoCommandInv ==
  ASSUME Inv, Clock, LoaderIdle, NoCommand
  PROVE  Inv'
<1>1. /\ lstate = "idle" /\ lstate' = "idle" /\ cmd_seen' = command /\ eng_start' = FALSE
      /\ bus' = bus /\ eng_reset' = eng_reset /\ NoEdge
  BY DEF LoaderIdle, NoCommand
<1>2. \/ /\ status_running /\ post_we' = TRUE /\ status_running' = ~done
         /\ post_val' = Progress
      \/ ~status_running /\ post_we' = FALSE /\ status_running' = FALSE /\ post_val' = post_val
  <2>1. Refreshes <=> status_running
    BY <1>1 DEF Refreshes
  <2>2. CASE status_running
    BY <2>1, <2>2 DEF NoCommand, Post
  <2>3. CASE ~status_running
    BY <2>1, <2>3 DEF NoCommand, Inv, Registers
  <2>4. QED BY <2>2, <2>3
<1>3. /\ command' = command /\ image' = image /\ script' = script
      /\ status' = (IF post_we THEN post_val ELSE status)
      /\ start_meta' = eng_start /\ start_sync' = start_meta
  BY ClockKeeps DEF ClockFrame
<1>4. "LOADED" \notin Progress
  BY DEF Progress
<1>5. Copied' = Copied /\ (Starting' => Starting)
  BY <1>1, <1>3 DEF Copied, Starting
<1>6. status_running => ~eng_reset
  BY DEF Inv, Runs
<1>7. Halted => Halted'
  BY <1>1, <1>2, <1>3, <1>5 DEF Halted, Shown
<1>8. Sampled'
  BY <1>1, <1>3 DEF Sampled, Edge
<1>9. SafeSeen'
  <2>1. cmd_seen' = "SAFE" => cmd_seen = "SAFE"
    BY <1>1 DEF NoEdge, Edge
  <2>2. QED BY <1>1, <1>7, <2>1 DEF Inv, SafeSeen
<1>10. Uploads'
  <2>1. ~Edge("SAFE")
    BY <1>1 DEF NoEdge
  <2>2. QED BY <1>1, <1>3, <1>7, <2>1 DEF Inv, Uploads
<1>11. LoadPending' /\ Copying'
  BY <1>1, <1>3 DEF LoadPending, Copying, Edge
<1>12. Loaded'
  <2>1. "LOADED" \in status' => Copied /\ eng_reset
    <3>1. CASE post_we
      BY <1>3, <3>1 DEF Inv, Loaded
    <3>2. CASE ~post_we
      BY <1>3, <3>2 DEF Inv, Loaded
    <3>3. QED BY <3>1, <3>2
  <2>2. post_we' => "LOADED" \notin post_val'
    BY <1>2, <1>4
  <2>3. Starting => Copied
    BY DEF Inv, Loaded
  <2>4. QED BY <1>1, <1>5, <2>1, <2>2, <2>3 DEF Loaded
<1>13. Runs'
  <2>1. status_running' => status_running
    BY <1>2
  <2>2. post_we' => status_running
    BY <1>2
  <2>3. QED BY <1>1, <1>6, <2>1, <2>2, ClockKeeps DEF Runs
<1>14. QED BY <1>8, <1>9, <1>10, <1>11, <1>12, <1>13, ClockKeeps DEF Inv

\* The copy: one more row is the image's, or none yet.
LEMMA CopyInv ==
  ASSUME Inv, Clock, LoaderCopies \/ LoaderWaits
  PROVE  Inv'
<1>1. /\ lstate = "copy" /\ lstate' = "copy" /\ cmd_seen' = cmd_seen /\ eng_start' = FALSE
      /\ post_we' = FALSE /\ eng_reset' = eng_reset /\ status_running' = status_running
      /\ \/ bus' = [bus EXCEPT ![row] = image] /\ row' = row + 1
         \/ bus' = bus /\ row' = row
  BY DEF LoaderCopies, LoaderWaits, SeenWhileBusy
<1>2. /\ command' = command /\ image' = image /\ script' = script
      /\ status' = (IF post_we THEN post_val ELSE status)
      /\ start_meta' = eng_start /\ start_sync' = start_meta
  BY ClockKeeps DEF ClockFrame
<1>3. /\ script["client"] = Poll /\ cmd_seen = "LOAD" /\ command # "FIRE"
      /\ ~post_we /\ "LOADED" \notin status
      /\ eng_reset /\ ~status_running /\ ~Starting /\ image # Torn
      /\ \A r \in Rows : r < row => bus[r] = image
  BY <1>1 DEF Inv, Copying
<1>4. ~Starting' /\ status' = status
  BY <1>1, <1>2, <1>3 DEF Starting
<1>5. \A r \in Rows : r < row' => bus'[r] = image
  <2>1. bus \in [Rows -> Images] /\ row \in Int /\ \A r \in Rows : r \in Int
    BY DEF Inv, Registers, Rows
  <2>2. CASE bus' = [bus EXCEPT ![row] = image] /\ row' = row + 1
    BY <1>3, <2>1, <2>2
  <2>3. CASE bus' = bus /\ row' = row
    BY <1>3, <2>3
  <2>4. QED BY <1>1, <2>2, <2>3
<1>6. Copying'
  BY <1>1, <1>2, <1>3, <1>4, <1>5 DEF Copying
<1>7. Sampled' /\ SafeSeen' /\ LoadPending'
  BY <1>1, <1>2, <1>3, <1>4 DEF Sampled, SafeSeen, LoadPending, Edge
<1>8. Uploads'
  BY <1>2, <1>3, WordsApart DEF Uploads
<1>9. Loaded'
  BY <1>1, <1>3, <1>4 DEF Loaded
<1>10. Runs'
  BY <1>1, <1>3, ClockKeeps DEF Runs
<1>11. QED BY <1>6, <1>7, <1>8, <1>9, <1>10, ClockKeeps DEF Inv

\* The end of the copy: every row is the image's, and LOADED is posted.
LEMMA LoadedInv ==
  ASSUME Inv, Clock, LoaderLoaded
  PROVE  Inv'
<1>1. /\ lstate = "copy" /\ lstate' = "idle" /\ cmd_seen' = cmd_seen /\ eng_start' = FALSE
      /\ post_we' = TRUE /\ post_val' = {"LOADED"} /\ ~(row <= BusRows)
      /\ eng_reset' = eng_reset /\ status_running' = status_running /\ bus' = bus
  BY DEF LoaderLoaded, SeenWhileBusy, Post, RowsLeft
<1>2. /\ command' = command /\ image' = image /\ script' = script
      /\ status' = (IF post_we THEN post_val ELSE status)
      /\ start_meta' = eng_start /\ start_sync' = start_meta
  BY ClockKeeps DEF ClockFrame
<1>3. /\ script["client"] = Poll /\ cmd_seen = "LOAD" /\ command # "FIRE"
      /\ ~post_we /\ "LOADED" \notin status
      /\ eng_reset /\ ~status_running /\ ~Starting /\ image # Torn
      /\ \A r \in Rows : r < row => bus[r] = image
  BY <1>1 DEF Inv, Copying
<1>4. ~Starting' /\ status' = status
  BY <1>1, <1>2, <1>3 DEF Starting
<1>5. Copied'
  BY <1>1, <1>2, <1>3, TopAssumption DEF Copied, Inv, Registers, Rows
<1>6. Sampled' /\ SafeSeen' /\ LoadPending' /\ Copying'
  BY <1>1, <1>2, <1>3, <1>4 DEF Sampled, SafeSeen, LoadPending, Copying, Edge
<1>7. Uploads'
  BY <1>2, <1>3, WordsApart DEF Uploads
<1>8. Loaded'
  BY <1>1, <1>3, <1>4, <1>5 DEF Loaded
<1>9. Runs'
  BY <1>1, <1>3, ClockKeeps DEF Runs
<1>10. QED BY <1>6, <1>7, <1>8, <1>9, ClockKeeps DEF Inv

\* The engine is released to the image that is copied.
LEMMA ReleaseInv ==
  ASSUME Inv, Clock, LoaderFires
  PROVE  Inv'
<1>1. /\ lstate = "fire" /\ lstate' = "idle" /\ cmd_seen' = command /\ eng_start' = TRUE
      /\ post_we' = TRUE /\ post_val' = {"RUNNING"} /\ eng_reset' = FALSE /\ bus' = bus
  BY DEF LoaderFires, Post
<1>2. /\ command' = command /\ image' = image /\ script' = script
      /\ status' = (IF post_we THEN post_val ELSE status)
  BY ClockKeeps DEF ClockFrame
<1>3. Copied /\ "LOADED" \in status /\ ~post_we /\ command = "FIRE"
  BY <1>1 DEF Inv, Loaded
<1>4. Copied'
  BY <1>1, <1>2, <1>3 DEF Copied
<1>5. Sampled' /\ SafeSeen' /\ LoadPending' /\ Copying'
  BY <1>1, <1>2, <1>3 DEF Sampled, SafeSeen, LoadPending, Copying, Edge
<1>6. Uploads'
  BY <1>1, <1>2 DEF Inv, Uploads
<1>7. Loaded'
  BY <1>1, <1>4 DEF Loaded
<1>8. Runs'
  BY <1>1, ClockKeeps DEF Runs
<1>9. QED BY <1>5, <1>6, <1>7, <1>8, ClockKeeps DEF Inv

LEMMA ClockInv == Inv /\ Clock => Inv'
BY SafeInv, LoadInv, FireInv, NoCommandInv, CopyInv, LoadedInv, ReleaseInv DEF Clock, LoaderIdle

-----------------------------------------------------------------------------
(* Every word of the host keeps it.                                        *)

\* What the device's registers decide, whatever the host writes into its mailbox.
DeviceSame ==
  /\ status' = status /\ lstate' = lstate /\ cmd_seen' = cmd_seen /\ row' = row
  /\ eng_reset' = eng_reset /\ eng_start' = eng_start /\ status_running' = status_running
  /\ post_we' = post_we /\ post_val' = post_val /\ bus' = bus
  /\ reset_meta' = reset_meta /\ reset_sync' = reset_sync /\ start_meta' = start_meta
  /\ start_sync' = start_sync /\ start_prev' = start_prev /\ running' = running
  /\ done' = done /\ played' = played

LEMMA HostLeavesDevice ==
  ASSUME NEW c \in Clients, WriteCommand(c) \/ WriteImage(c) \/ PollLoaded(c) \/ Call
  PROVE  DeviceSame
BY DEF WriteCommand, WriteImage, PollLoaded, Call, mailbox, loader, engine, DeviceSame

LEMMA SameDevice ==
  ASSUME DeviceSame
  PROVE  /\ Halted' = Halted /\ Starting' = Starting /\ Shown' = Shown
         /\ image' = image => Copied' = Copied
<1>1. Starting' = Starting
  BY DEF DeviceSame, Starting
<1>2. Shown' = Shown
  BY DEF DeviceSame, Shown
<1>3. Halted' = Halted
  BY <1>1, <1>2 DEF DeviceSame, Halted
<1>4. image' = image => Copied' = Copied
  BY DEF DeviceSame, Copied
<1>5. QED BY <1>1, <1>2, <1>3, <1>4

\* A word finds the transients of the last one over.
LEMMA SettledFacts ==
  ASSUME Inv, Settled
  PROVE  /\ lstate # "fire" /\ ~Starting
         /\ lstate = "idle" =>
              /\ cmd_seen = command /\ reset_sync = eng_reset
              /\ post_we => ~eng_reset
<1>1. CASE lstate = "copy"
  BY <1>1 DEF Inv, Copying
<1>2. CASE lstate = "idle"
  <2>1. /\ cmd_seen = command /\ reset_sync = eng_reset /\ ~Starting
        /\ post_we => status_running \/ post_val = {"DONE"}
    BY <1>2 DEF Settled, Starting
  <2>2. post_we => ~eng_reset
    BY <2>1 DEF Inv, Runs
  <2>3. QED BY <1>2, <2>1, <2>2
<1>3. QED BY <1>1, <1>2 DEF Settled

LEMMA WriteCommandInv ==
  ASSUME Inv, NEW c \in Clients, WriteCommand(c)
  PROVE  Inv'
<1>1. /\ DeviceSame /\ image' = image /\ Settled
      /\ Halted' = Halted /\ Starting' = Starting /\ Copied' = Copied
  BY HostLeavesDevice, SameDevice DEF WriteCommand
<1>2. /\ lstate # "fire" /\ ~Starting
      /\ lstate = "idle" => cmd_seen = command /\ (post_we => ~eng_reset)
  BY <1>1, SettledFacts
<1>3. Scripts'
  BY CommandWords DEF Inv
<1>4. \/ /\ c = "client" /\ script["client"] # Poll /\ lstate = "idle"
         /\ \/ script'["client"] \notin Uploading /\ command' \in {"NONE", "FIRE"}
            \/ script["client"] = Prepare1 /\ command' = "SAFE" /\ script'["client"] = Upload0
            \/ script["client"] = Upload1 /\ command' = "NONE" /\ script'["client"] = Upload2
            \/ script["client"] = Upload2 /\ command' = "LOAD" /\ script'["client"] = Poll
      \/ command' \in {"NONE", "SAFE"} /\ script'["client"] = script["client"]
  <2>1. lstate = "copy" => script["client"] = Poll
    BY DEF Inv, Copying
  <2>2. lstate \in {"idle", "copy"}
    BY <1>2 DEF Inv, Registers
  <2>3. CASE c = "client"
    BY <2>1, <2>2, <2>3, CommandWords, WordsApart DEF Inv
  <2>4. CASE c = "stopper"
    BY <2>4, CommandWords DEF Inv
  <2>5. QED BY <2>3, <2>4 DEF Clients
<1>5. Registers'
  BY <1>1, <1>4 DEF Inv, Registers, DeviceSame
<1>6. Sampled'
  <2>1. command' = "FIRE" => lstate = "idle"
    BY <1>4
  <2>2. QED BY <1>1, <1>2, <2>1 DEF Sampled, Edge, DeviceSame
<1>7. SafeSeen'
  BY <1>1 DEF Inv, SafeSeen, DeviceSame
<1>8. Uploads'
  <2>1. CASE script'["client"] = Upload0 /\ command' = "SAFE" /\ lstate = "idle"
    BY <1>1, <2>1 DEF Inv, Uploads, DeviceSame, Edge, SafeSeen
  <2>2. CASE script'["client"] \notin Uploading
    BY <2>2 DEF Uploads
  <2>3. CASE /\ script["client"] \in Uploading /\ command' \in {"NONE", "SAFE"}
             /\ script'["client"] = script["client"] \/ script["client"] = Upload1
    <3>1. lstate = "idle" /\ Halted /\ (script["client"] # Upload0 => image # Torn)
      BY <1>2, <2>3 DEF Inv, Uploads, Edge
    <3>2. script'["client"] # Upload0 => script["client"] # Upload0
      BY <2>3, WordsApart
    <3>3. QED BY <1>1, <2>3, <3>1, <3>2 DEF Uploads, DeviceSame
  <2>4. QED BY <1>4, <2>1, <2>2, <2>3, WordsApart DEF Uploading
<1>9. LoadPending'
  <2>1. CASE command' # "LOAD"
    BY <2>1 DEF LoadPending, Edge
  <2>2. CASE command' = "LOAD"
    <3>1. script["client"] = Upload2 /\ script'["client"] = Poll
      BY <1>4, <2>2
    <3>2. lstate = "idle" /\ Halted /\ image # Torn
      BY <1>2, <3>1, WordsApart DEF Inv, Uploads, Edge, Uploading
    <3>3. ~post_we
      BY <1>2, <3>2 DEF Halted
    <3>4. QED BY <1>1, <3>1, <3>2, <3>3 DEF LoadPending, DeviceSame
  <2>3. QED BY <2>1, <2>2
<1>10. Copying'
  <2>1. lstate = "copy" => command' # "FIRE" /\ script'["client"] = script["client"]
    BY <1>4
  <2>2. QED BY <1>1, <2>1 DEF Inv, Copying, DeviceSame
<1>11. Loaded'
  BY <1>1, <1>2 DEF Inv, Loaded, DeviceSame
<1>12. Runs'
  BY <1>1 DEF Inv, Runs, DeviceSame
<1>13. QED BY <1>3, <1>5, <1>6, <1>7, <1>8, <1>9, <1>10, <1>11, <1>12 DEF Inv

LEMMA WriteImageInv ==
  ASSUME Inv, NEW c \in Clients, WriteImage(c)
  PROVE  Inv'
<1>1. /\ DeviceSame /\ command' = command /\ Settled
      /\ Halted' = Halted /\ Starting' = Starting
  BY HostLeavesDevice, SameDevice DEF WriteImage, mailbox
<1>2. /\ Scripts' /\ script["client"] = Upload0
      /\ \/ image' = Torn /\ script'["client"] = Upload0
         \/ image' \in Programs /\ script'["client"] = Upload1
  BY ImageWords DEF Inv
<1>3. lstate = "idle" /\ Halted /\ command \in {"NONE", "SAFE"} /\ ~post_we /\ cmd_seen = command
  <2>1. lstate = "idle" /\ command \in {"NONE", "SAFE"} /\ (Halted \/ Edge("SAFE"))
    BY <1>2 DEF Inv, Uploads, Uploading
  <2>2. cmd_seen = command /\ (post_we => ~eng_reset)
    BY <1>1, <2>1, SettledFacts
  <2>3. Halted
    BY <2>1, <2>2 DEF Edge
  <2>4. QED BY <2>1, <2>2, <2>3 DEF Halted
<1>4. eng_reset /\ reset_sync /\ "LOADED" \notin status /\ ~Starting
  BY <1>1, <1>3, SettledFacts DEF Halted, Shown
<1>5. Registers'
  BY <1>1, <1>2 DEF Inv, Registers, DeviceSame, Images
<1>6. Sampled' /\ SafeSeen'
  BY <1>1 DEF Inv, Sampled, SafeSeen, Edge, DeviceSame
<1>7. Uploads'
  <2>1. script'["client"] # Upload0 => image' # Torn
    BY <1>2, TopAssumption
  <2>2. QED BY <1>1, <1>3, <2>1 DEF Uploads, DeviceSame
<1>8. LoadPending' /\ Copying'
  BY <1>1, <1>3 DEF LoadPending, Copying, Edge, DeviceSame
<1>9. Loaded'
  BY <1>1, <1>3, <1>4 DEF Loaded, DeviceSame
<1>10. Runs'
  BY <1>1, <1>4 DEF Inv, Runs, DeviceSame
<1>11. QED BY <1>2, <1>5, <1>6, <1>7, <1>8, <1>9, <1>10 DEF Inv

LEMMA PollInv ==
  ASSUME Inv, NEW c \in Clients, PollLoaded(c)
  PROVE  Inv'
<1>1. /\ DeviceSame /\ command' = command /\ image' = image
      /\ Halted' = Halted /\ Starting' = Starting /\ Copied' = Copied
  BY HostLeavesDevice, SameDevice DEF PollLoaded, mailbox
<1>2. Scripts' /\ script'["client"] = None
  BY PollWords DEF Inv
<1>3. "LOADED" \in status \/ (lstate = "idle" /\ cmd_seen = command)
  BY SettledFacts DEF PollLoaded
<1>4. lstate # "copy" /\ ~Edge("LOAD")
  BY <1>3 DEF Inv, Copying, LoadPending, Edge, Halted, Shown
<1>5. Registers'
  BY <1>1 DEF Inv, Registers, DeviceSame
<1>6. Sampled' /\ SafeSeen'
  BY <1>1 DEF Inv, Sampled, SafeSeen, Edge, DeviceSame
<1>7. Uploads'
  BY <1>2, WordsApart DEF Uploads
<1>8. LoadPending' /\ Copying'
  BY <1>1, <1>4 DEF LoadPending, Copying, Edge, DeviceSame
<1>9. Loaded'
  BY <1>1 DEF Inv, Loaded, DeviceSame
<1>10. Runs'
  BY <1>1 DEF Inv, Runs, DeviceSame
<1>11. QED BY <1>2, <1>5, <1>6, <1>7, <1>8, <1>9, <1>10 DEF Inv

LEMMA CallInv ==
  ASSUME Inv, Call
  PROVE  Inv'
<1>1. /\ DeviceSame /\ command' = command /\ image' = image
      /\ Halted' = Halted /\ Starting' = Starting /\ Copied' = Copied
  BY HostLeavesDevice, SameDevice DEF Call, mailbox, Clients
<1>2. /\ Scripts'
      /\ \/ script'["client"] = script["client"]
         \/ script["client"] = None /\ script'["client"] \in {PrepareWords, Fire0}
  BY CallWords DEF Inv
<1>3. Registers'
  BY <1>1 DEF Inv, Registers, DeviceSame
<1>4. Sampled' /\ SafeSeen'
  BY <1>1 DEF Inv, Sampled, SafeSeen, Edge, DeviceSame
<1>5. Uploads'
  <2>1. CASE script'["client"] = script["client"]
    BY <1>1, <2>1 DEF Inv, Uploads, Edge, DeviceSame
  <2>2. CASE script'["client"] \in {PrepareWords, Fire0}
    BY <2>2, WordsApart DEF Uploads
  <2>3. QED BY <1>2, <2>1, <2>2
<1>6. LoadPending' /\ Copying'
  <2>1. script["client"] = Poll => script'["client"] = Poll
    BY <1>2, WordsApart
  <2>2. QED BY <1>1, <2>1 DEF Inv, LoadPending, Copying, Edge, DeviceSame
<1>7. Loaded'
  BY <1>1 DEF Inv, Loaded, DeviceSame
<1>8. Runs'
  BY <1>1 DEF Inv, Runs, DeviceSame
<1>9. QED BY <1>2, <1>3, <1>4, <1>5, <1>6, <1>7, <1>8 DEF Inv

-----------------------------------------------------------------------------
(* The theorems.                                                           *)

LEMMA InitInv == Init => Inv
<1>1. SUFFICES ASSUME Init PROVE Inv
  OBVIOUS
<1>2. /\ command = "NONE" /\ status = {} /\ lstate = "idle" /\ cmd_seen = "NONE" /\ row = 1
      /\ eng_reset = TRUE /\ eng_start = FALSE /\ status_running = FALSE
      /\ post_we = FALSE /\ post_val = {} /\ reset_meta = FALSE /\ reset_sync = FALSE
      /\ start_meta = FALSE /\ start_sync = FALSE /\ start_prev = FALSE
      /\ running = FALSE /\ done = FALSE
  BY <1>1 DEF Init
<1>3. image = Torn /\ bus = [r \in Rows |-> Torn] /\ played = <<Torn, bus>>
  BY <1>1 DEF Init
<1>4. script = [c \in Clients |-> None]
  BY <1>1 DEF Init, None
<1>5. Registers
  <2>1. image \in Images /\ bus \in [Rows -> Images]
    BY <1>3 DEF Images
  <2>2. played \in Images \X [Rows -> Images]
    BY <1>3, <2>1
  <2>3. 1 \in 1..BusRows + 1
    BY TopAssumption
  <2>4. QED BY <1>2, <2>1, <2>2, <2>3 DEF Registers
<1>6. Scripts
  BY <1>4 DEF Scripts, Clients, ClientScripts, StopperScripts
<1>7. Uploads
  <2>1. script["client"] = None
    BY <1>4 DEF Clients
  <2>2. QED BY <2>1, WordsApart DEF Uploads
<1>8. Sampled /\ SafeSeen /\ LoadPending /\ Copying
  BY <1>2 DEF Sampled, SafeSeen, LoadPending, Copying, Edge, Starting
<1>9. Loaded /\ Runs
  BY <1>2 DEF Loaded, Runs, Starting
<1>10. QED BY <1>5, <1>6, <1>7, <1>8, <1>9 DEF Inv

LEMMA StutterInv ==
  ASSUME Inv, UNCHANGED vars
  PROVE  Inv'
<1>1. /\ DeviceSame /\ command' = command /\ image' = image /\ script' = script
  BY DEF vars, mailbox, loader, engine, DeviceSame
<1>2. Halted' = Halted /\ Starting' = Starting /\ Copied' = Copied
  BY <1>1, SameDevice
<1>3. Registers' /\ Scripts'
  BY <1>1 DEF Inv, Registers, Scripts, DeviceSame
<1>4. Sampled' /\ SafeSeen' /\ Uploads' /\ LoadPending' /\ Copying'
  BY <1>1, <1>2 DEF Inv, Sampled, SafeSeen, Uploads, LoadPending, Copying, Edge, DeviceSame
<1>5. Loaded' /\ Runs'
  BY <1>1, <1>2 DEF Inv, Loaded, Runs, DeviceSame
<1>6. QED BY <1>3, <1>4, <1>5 DEF Inv

\* The inductive invariant holds whatever images are uploaded and however long
\* the loader copies.
THEOREM Invariance == Spec => []Inv
<1>1. Inv /\ [Next]_vars => Inv'
  BY ClockInv, CallInv, WriteCommandInv, WriteImageInv, PollInv, StutterInv DEF Next, Host
<1>2. QED BY <1>1, InitInv, PTL DEF Spec

\* The mailbox, the loader and the engine keep to their types.
THEOREM TypeCorrect == Spec => []TypeOK
<1>1. Inv => TypeOK
  BY DEF Inv, Registers, TypeOK
<1>2. QED BY <1>1, Invariance, PTL

\* LOADED is shown for a whole image with all its rows copied, whatever commands
\* two hosts interleave; and what the engine runs is such an image, still in place.
THEOREM LoadedIsCopied == Spec => []LoadedMeansCopied
<1>1. ASSUME Inv PROVE LoadedMeansCopied
  <2>1. "LOADED" \in status => image # Torn /\ \A r \in Rows : bus[r] = image
    BY <1>1 DEF Inv, Loaded, Copied
  <2>2. ASSUME running, ~reset_sync
        PROVE  /\ played[1] # Torn /\ \A r \in Rows : played[2][r] = played[1]
               /\ image = played[1] /\ bus = played[2]
    <3>1. Copied /\ played[1] = image /\ played[2] = bus
      BY <1>1, <2>2 DEF Inv, Runs
    <3>2. QED BY <3>1 DEF Copied
  <2>3. QED BY <2>1, <2>2 DEF LoadedMeansCopied
<1>2. QED BY <1>1, Invariance, PTL

-----------------------------------------------------------------------------
(* The mailbox implements the device of StreamerLifecycle.                 *)

\* A cycle of the clock is a phase's step, or none.
LEMMA ClockStep ==
  ASSUME Inv, Inv', Clock
  PROVE  [Lifecycle!Next]_phaseNow
<1>1. status' = (IF post_we THEN post_val ELSE status)
  BY ClockFrames DEF ClockFrame
<1>2. CASE LoaderIdle /\ TakeSafe
  <2>1. lstate' # "copy" /\ eng_reset' /\ "LOADED" \notin Shown'
    BY <1>2 DEF LoaderIdle, TakeSafe, Post, Shown
  <2>2. phaseNow' = "reset"
    BY <2>1 DEF phaseNow, Shown
  <2>3. QED BY <2>2 DEF Lifecycle!Next, Lifecycle!Safe
<1>3. CASE LoaderIdle /\ TakeLoad
  <2>1. phaseNow' = "loading"
    BY <1>3 DEF TakeLoad, phaseNow
  <2>2. QED BY <2>1 DEF Lifecycle!Next, Lifecycle!Load
<1>4. CASE LoaderIdle /\ TakeFire
  <2>1. /\ lstate # "copy" /\ lstate' # "copy" /\ eng_reset' = eng_reset
        /\ status_running' = status_running /\ post_we' = FALSE
    BY <1>4 DEF LoaderIdle, TakeFire
  <2>2. Shown' = Shown
    BY <1>1, <2>1 DEF Shown
  <2>3. phaseNow' = phaseNow
    BY <2>1, <2>2 DEF phaseNow, Shown
  <2>4. QED BY <2>3
<1>5. CASE LoaderIdle /\ NoCommand
  <2>1. lstate = "idle" /\ lstate' = "idle" /\ eng_reset' = eng_reset
    BY <1>5 DEF LoaderIdle, NoCommand
  <2>2. CASE status_running
    <3>1. ~eng_reset
      BY <2>2 DEF Inv, Runs
    <3>2. phaseNow = "running" /\ phaseNow' \in {"running", "done"}
      BY <2>1, <2>2, <3>1 DEF phaseNow
    <3>3. QED BY <3>2 DEF Lifecycle!Next, Lifecycle!Play
  <2>3. CASE ~status_running
    <3>1. post_we' = FALSE /\ status_running' = status_running
      BY <1>5, <2>3 DEF NoCommand, Refreshes
    <3>2. Shown' = Shown
      BY <1>1, <3>1 DEF Shown
    <3>3. phaseNow' = phaseNow
      BY <2>1, <3>1, <3>2 DEF phaseNow, Shown
    <3>4. QED BY <3>3
  <2>4. QED BY <2>2, <2>3
<1>6. CASE LoaderCopies \/ LoaderWaits
  <2>1. phaseNow = "loading" /\ phaseNow' = "loading"
    BY <1>6 DEF LoaderCopies, LoaderWaits, phaseNow
  <2>2. QED BY <2>1
<1>7. CASE LoaderLoaded
  <2>1. phaseNow = "loading" /\ eng_reset
    BY <1>7 DEF LoaderLoaded, phaseNow, Inv, Copying
  <2>2. phaseNow' = "loaded"
    BY <1>7, <2>1 DEF LoaderLoaded, Post, phaseNow
  <2>3. QED BY <2>1, <2>2 DEF Lifecycle!Next, Lifecycle!Loaded
<1>8. CASE LoaderFires
  <2>1. lstate = "fire" /\ eng_reset /\ ~post_we /\ "LOADED" \in status
    BY <1>8 DEF LoaderFires, Inv, Loaded
  <2>2. phaseNow = "loaded"
    BY <2>1 DEF phaseNow
  <2>3. phaseNow' = "running"
    BY <1>8 DEF LoaderFires, phaseNow
  <2>4. QED BY <2>2, <2>3 DEF Lifecycle!Next, Lifecycle!Fire
<1>9. QED BY <1>2, <1>3, <1>4, <1>5, <1>6, <1>7, <1>8 DEF Clock, LoaderIdle

\* A complete load only can be fired, and SAFE ends any phase: the mailbox with
\* its loader, its post of the status and its synchronisers is that device.
THEOREM Refinement == Spec => ImplementsLifecycle
<1>1. Init => Lifecycle!Init
  BY DEF Init, Lifecycle!Init, phaseNow
<1>2. ASSUME Inv, Inv', [Next]_vars PROVE [Lifecycle!Next]_phaseNow
  <2>1. CASE Clock
    BY <1>2, <2>1, ClockStep
  <2>2. CASE Call \/ Host \/ UNCHANGED vars
    <3>1. DeviceSame
      <4>1. CASE Call
        BY <4>1 DEF Call, mailbox, loader, engine, DeviceSame
      <4>2. CASE Host
        BY <4>2, HostLeavesDevice DEF Host
      <4>3. CASE UNCHANGED vars
        BY <4>3 DEF vars, mailbox, loader, engine, DeviceSame
      <4>4. QED BY <2>2, <4>1, <4>2, <4>3
    <3>2. phaseNow' = phaseNow
      BY <3>1 DEF DeviceSame, phaseNow
    <3>3. QED BY <3>2
  <2>3. QED BY <1>2, <2>1, <2>2 DEF Next
<1>3. QED BY <1>1, <1>2, Invariance, PTL DEF Spec, ImplementsLifecycle, Lifecycle!Spec

-----------------------------------------------------------------------------
(* The UART link.                                                          *)

(* Induction over the numbers in a set.                                    *)
LEMMA Induct ==
  ASSUME NEW S \in SUBSET Nat, 0 \in S, \A n \in S : n + 1 \in S
  PROVE  S = Nat
  <1> DEFINE R == OpToRel(<, Nat)
             T == Nat \ S
  <1>1. \A a, b \in Nat : a < b => <<a, b>> \in R
    BY DEF OpToRel
  <1>2. IsWellFoundedOn(R, Nat)
    BY NatLessThanWellFounded
  <1> HIDE DEF R
  <1>3. SUFFICES ASSUME T # {} PROVE FALSE
    OBVIOUS
  <1>4. PICK m \in T : \A n \in T : ~(<<n, m>> \in R)
    BY <1>2, <1>3, WFMin
  <1>5. m # 0 /\ m - 1 \in Nat /\ m - 1 < m /\ m - 1 + 1 = m
    OBVIOUS
  <1>6. m - 1 \in S
    BY <1>1, <1>4, <1>5
  <1> QED BY <1>5, <1>6

(* The elements of a concatenation.                                        *)
LEMMA Enclosed ==
  ASSUME NEW S, NEW s \in Seq(S), NEW a \in S, NEW b \in S, NEW c \in S
  PROVE  LET u == <<a, b>> \o s \o <<c>>
         IN  /\ u \in Seq(S) /\ Len(u) = Len(s) + 3 /\ u[1] = a /\ u[2] = b
             /\ \A i \in 1..Len(s) : u[i + 2] = s[i]
             /\ u[Len(s) + 3] = c
  <1> DEFINE v == <<a, b>> \o s
             u == v \o <<c>>
  <1>1. /\ v \in Seq(S) /\ Len(v) = Len(s) + 2 /\ v[1] = a /\ v[2] = b
        /\ \A i \in 1..Len(s) : v[i + 2] = s[i]
    OBVIOUS
  <1> HIDE DEF v
  <1>2. /\ u \in Seq(S) /\ Len(u) = Len(v) + 1 /\ u[Len(v) + 1] = c
        /\ \A i \in 1..Len(v) : u[i] = v[i]
    BY <1>1
  <1> HIDE DEF u
  <1>3. /\ u \in Seq(S) /\ Len(u) = Len(s) + 3 /\ u[1] = a /\ u[2] = b /\ u[Len(s) + 3] = c
        /\ \A i \in 1..Len(s) : u[i + 2] = s[i]
    BY <1>1, <1>2
  <1> QED BY <1>3 DEF u, v

LEMMA Joined ==
  ASSUME NEW S, NEW s \in Seq(S), NEW t \in Seq(S)
  PROVE  /\ s \o t \in Seq(S) /\ Len(s \o t) = Len(s) + Len(t)
         /\ Len(s) \in Nat /\ Len(t) \in Nat
         /\ \A i \in 1..Len(s) : (s \o t)[i] = s[i]
         /\ \A i \in 1..Len(t) : (s \o t)[Len(s) + i] = t[i]
  OBVIOUS

-----------------------------------------------------------------------------
(* What a batch puts on the line.                                          *)

Kinds == {"pad", "sync", "head", "word", "crc"}
Tokens == [kind : Kinds, bytes : Nat, frame : Nat, words : Nat]

\* The tokens of a frame, in order.
SyncLeads(s) ==
  \A i \in 1..Len(s) : s[i].kind = "sync" =>
    s[i].bytes = 2 /\ i < Len(s) /\ s[i + 1].kind = "head" /\ s[i + 1].frame = s[i].frame

HeadAt(s, i, m) ==
  /\ s[i].bytes = 8
  /\ \A j \in 1..m : s[i + j].kind = "word" /\ s[i + j].bytes = 4 /\ s[i + j].frame = s[i].frame
  /\ s[i + m + 1].kind = "crc" /\ s[i + m + 1].frame = s[i].frame /\ s[i + m + 1].words = m

HeadLeads(s) ==
  \A i \in 1..Len(s) : s[i].kind = "head" => i + s[i].words < Len(s) /\ HeadAt(s, i, s[i].words)

\* A frame, unless it is the last, is followed by idle bytes and by the next one.
CrcEnds(s, last) ==
  \A i \in 1..Len(s) : s[i].kind = "crc" =>
    /\ s[i].bytes = 2
    /\ i = Len(s) => s[i].frame = last
    /\ i < Len(s) => /\ s[i].words > 0 /\ s[i + 1].kind = "pad"
                     /\ i + 2 <= Len(s) /\ s[i + 2].kind = "sync" /\ s[i + 2].frame = s[i].frame + 1

PadLeads(s) ==
  \A i \in 1..Len(s) : s[i].kind = "pad" =>
    s[i].bytes = 8 /\ s[i].frame = 0 /\ i < Len(s) /\ s[i + 1].kind = "sync"

HeadsRise(s) ==
  \A i, j \in 1..Len(s) : i < j /\ s[i].kind = "head" /\ s[j].kind = "head" => s[i].frame < s[j].frame

FramesWithin(s, lo, hi) ==
  \A i \in 1..Len(s) : s[i].kind # "pad" => lo < s[i].frame /\ s[i].frame <= hi

Chained(s, lo, hi) ==
  /\ s \in Seq(Tokens)
  /\ SyncLeads(s) /\ HeadLeads(s) /\ CrcEnds(s, hi) /\ PadLeads(s)
  /\ HeadsRise(s) /\ FramesWithin(s, lo, hi)

Tok(k, b, f, n) == [kind |-> k, bytes |-> b, frame |-> f, words |-> n]

\* A frame with its gap before it, token by token, of which off are the gap's.
IsFrame(x, off, f, n) ==
  /\ x \in Seq(Tokens) /\ Len(x) = off + n + 3
  /\ off = 1 => x[1] = Tok("pad", 8, 0, 0)
  /\ x[off + 1] = Tok("sync", 2, f, n) /\ x[off + 2] = Tok("head", 8, f, n)
  /\ \A i \in 1..n : x[off + 2 + i] = Tok("word", 4, f, n)
  /\ x[off + n + 3] = Tok("crc", 2, f, n)

LEMMA TokType ==
  ASSUME NEW k \in Kinds, NEW b \in Nat, NEW f \in Nat, NEW n \in Nat
  PROVE  /\ Tok(k, b, f, n) \in Tokens
         /\ Tok(k, b, f, n).kind = k /\ Tok(k, b, f, n).bytes = b
         /\ Tok(k, b, f, n).frame = f /\ Tok(k, b, f, n).words = n
  BY DEF Tok, Tokens

LEMMA FrameShape ==
  ASSUME NEW f \in Nat, NEW n \in Nat
  PROVE  IsFrame(FrameTokens(f, n), 0, f, n)
  <1> DEFINE a == Tok("sync", 2, f, n)
             h == Tok("head", 8, f, n)
             t == Tok("word", 4, f, n)
             c == Tok("crc", 2, f, n)
             w == [i \in 1..n |-> t]
             x == <<a, h>> \o w \o <<c>>
  <1>1. a \in Tokens /\ h \in Tokens /\ t \in Tokens /\ c \in Tokens
    BY TokType DEF Kinds
  <1>2. FrameTokens(f, n) = x
    BY DEF FrameTokens, Tok
  <1> HIDE DEF a, h, t, c
  <1>3. w \in Seq(Tokens) /\ Len(w) = n /\ \A i \in 1..n : w[i] = t
    BY <1>1
  <1> HIDE DEF w
  <1>4. /\ x \in Seq(Tokens) /\ Len(x) = n + 3 /\ x[1] = a /\ x[2] = h
        /\ \A i \in 1..n : x[i + 2] = w[i]
        /\ x[n + 3] = c
    BY <1>1, <1>3, Enclosed
  <1> HIDE DEF x
  <1>5. \A i \in 1..n : x[0 + 2 + i] = t
    <2> SUFFICES ASSUME NEW i \in 1..n PROVE x[0 + 2 + i] = t
      OBVIOUS
    <2>1. 0 + 2 + i = i + 2
      OBVIOUS
    <2> QED BY <1>3, <1>4, <2>1
  <1>6. 0 + 1 = 1 /\ 0 + 2 = 2 /\ 0 + n + 3 = n + 3
    OBVIOUS
  <1>7. IsFrame(x, 0, f, n)
    BY <1>4, <1>5, <1>6 DEF IsFrame, a, h, t, c
  <1> QED BY <1>2, <1>7

LEMMA SpacedShape ==
  ASSUME NEW first \in Nat, NEW b \in Seq(Nat), NEW i \in 1..Len(b)
  PROVE  IsFrame(Spaced(first, b, i), IF i = 1 THEN 0 ELSE 1, first + i, b[i])
  <1> DEFINE f == first + i
             n == b[i]
             x == FrameTokens(f, n)
             pad == Tok("pad", 8, 0, 0)
             z == <<pad>> \o x
  <1>1. f \in Nat /\ n \in Nat
    OBVIOUS
  <1>2. IsFrame(x, 0, f, n)
    BY <1>1, FrameShape
  <1>3. pad \in Tokens
    BY TokType DEF Kinds
  <1>4. Spaced(first, b, i) = IF i = 1 THEN <<>> \o x ELSE z
    BY DEF Spaced, Padding, Tok
  <1> HIDE DEF x, f, n, pad
  <1>5. CASE i = 1
    <2>1. <<>> \o x = x
      BY <1>2, ConcatEmptySeq DEF IsFrame
    <2> QED BY <2>1, <1>2, <1>4, <1>5 DEF f, n
  <1>6. CASE i # 1
    <2>1. x \in Seq(Tokens) /\ Len(x) = n + 3
      BY <1>1, <1>2 DEF IsFrame
    <2>2. z \in Seq(Tokens) /\ Len(z) = Len(x) + 1 /\ z[1] = pad /\ \A j \in 1..Len(x) : z[j + 1] = x[j]
      BY <2>1, <1>3
    <2> HIDE DEF z
    <2>3. x[1] = Tok("sync", 2, f, n) /\ x[2] = Tok("head", 8, f, n) /\ x[n + 3] = Tok("crc", 2, f, n)
          /\ \A j \in 1..n : x[j + 2] = Tok("word", 4, f, n)
      <3>1. 0 + 1 = 1 /\ 0 + 2 = 2 /\ 0 + n + 3 = n + 3 /\ \A j \in 1..n : 0 + 2 + j = j + 2
        BY <1>1
      <3> QED BY <3>1, <1>2 DEF IsFrame
    <2>4. z[1 + 1] = x[1] /\ z[1 + 2] = x[2] /\ z[1 + n + 3] = x[n + 3] /\ \A j \in 1..n : z[1 + 2 + j] = x[j + 2]
      BY <2>1, <2>2, <1>1
    <2>5. IsFrame(z, 1, f, n)
      BY <2>1, <2>2, <2>3, <2>4, <1>1 DEF IsFrame, pad
    <2> QED BY <2>5, <1>4, <1>6 DEF f, n
  <1> QED BY <1>5, <1>6

(* Where the tokens of a frame are.                                        *)
LEMMA FramePlaces ==
  ASSUME NEW x, NEW off \in {0, 1}, NEW f \in Nat \ {0}, NEW n \in Nat, IsFrame(x, off, f, n),
         NEW i \in 1..Len(x)
  PROVE  /\ Len(x) = off + n + 3 /\ x[i] \in Tokens
         /\ x[i].kind = "pad" => i = 1 /\ off = 1 /\ x[i].bytes = 8 /\ x[i].frame = 0
         /\ x[i].kind # "pad" => x[i].frame = f
         /\ x[i].kind = "sync" => i = off + 1 /\ x[i].bytes = 2
         /\ x[i].kind = "head" => i = off + 2 /\ x[i].bytes = 8 /\ x[i].words = n
         /\ x[i].kind = "word" => x[i].bytes = 4
         /\ x[i].kind = "crc" => i = off + n + 3 /\ x[i].bytes = 2 /\ x[i].words = n
         /\ i \in (off + 3)..(off + n + 2) => x[i].kind = "word"
         /\ i = off + 1 => x[i].kind = "sync"
         /\ i = off + 2 => x[i].kind = "head"
         /\ i = off + n + 3 => x[i].kind = "crc"
         /\ off = 1 /\ i = 1 => x[i].kind = "pad"
  <1>1. x \in Seq(Tokens) /\ Len(x) = off + n + 3
    BY DEF IsFrame
  <1>2. x[i] \in Tokens
    BY <1>1
  <1>3. CASE off = 1 /\ i = 1
    <2>1. x[i] = Tok("pad", 8, 0, 0)
      BY <1>3 DEF IsFrame
    <2> QED BY <1>1, <1>2, <1>3, <2>1 DEF Tok
  <1>4. CASE i = off + 1
    <2>1. x[i] = Tok("sync", 2, f, n)
      BY <1>4 DEF IsFrame
    <2> QED BY <1>1, <1>2, <1>4, <2>1 DEF Tok
  <1>5. CASE i = off + 2
    <2>1. x[i] = Tok("head", 8, f, n)
      BY <1>5 DEF IsFrame
    <2> QED BY <1>1, <1>2, <1>5, <2>1 DEF Tok
  <1>6. CASE i \in (off + 3)..(off + n + 2)
    <2>1. i - (off + 2) \in 1..n /\ off + 2 + (i - (off + 2)) = i
      BY <1>6
    <2>2. x[i] = Tok("word", 4, f, n)
      BY <2>1 DEF IsFrame
    <2> QED BY <1>1, <1>2, <1>6, <2>2 DEF Tok
  <1>7. CASE i = off + n + 3
    <2>1. x[i] = Tok("crc", 2, f, n)
      BY <1>7 DEF IsFrame
    <2> QED BY <1>1, <1>2, <1>7, <2>1 DEF Tok
  <1> QED BY <1>1, <1>3, <1>4, <1>5, <1>6, <1>7

LEMMA FrameChained ==
  ASSUME NEW x, NEW off \in {0, 1}, NEW f \in Nat \ {0}, NEW n \in Nat, IsFrame(x, off, f, n)
  PROVE  Chained(x, f - 1, f)
  <1>1. x \in Seq(Tokens) /\ Len(x) = off + n + 3
    BY DEF IsFrame
  <1>0. \A i \in 1..Len(x) :
          /\ x[i].kind = "pad" => i = 1 /\ off = 1 /\ x[i].bytes = 8 /\ x[i].frame = 0
          /\ i \in (off + 3)..(off + n + 2) => x[i].kind = "word"
          /\ x[i].kind # "pad" => x[i].frame = f
          /\ x[i].kind = "word" => x[i].bytes = 4
          /\ i = off + 1 => x[i].kind = "sync"
    BY FramePlaces
  <1>2. SyncLeads(x)
    <2> SUFFICES ASSUME NEW i \in 1..Len(x), x[i].kind = "sync"
                 PROVE  x[i].bytes = 2 /\ i < Len(x) /\ x[i + 1].kind = "head" /\ x[i + 1].frame = x[i].frame
      BY DEF SyncLeads
    <2>1. i = off + 1 /\ x[i].bytes = 2 /\ x[i].frame = f
      BY FramePlaces
    <2>2. i + 1 \in 1..Len(x) /\ i + 1 = off + 2 /\ i < Len(x)
      BY <2>1, <1>1
    <2>3. x[i + 1].kind = "head" /\ x[i + 1].frame = f
      BY <2>2, FramePlaces
    <2> QED BY <2>1, <2>2, <2>3
  <1>3. HeadLeads(x)
    <2> SUFFICES ASSUME NEW i \in 1..Len(x), x[i].kind = "head"
                 PROVE  i + x[i].words < Len(x) /\ HeadAt(x, i, x[i].words)
      BY DEF HeadLeads
    <2>1. i = off + 2 /\ x[i].bytes = 8 /\ x[i].words = n /\ x[i].frame = f
      BY FramePlaces
    <2>2. i + n < Len(x) /\ i + n + 1 = off + n + 3 /\ i + n + 1 \in 1..Len(x)
      BY <2>1, <1>1
    <2>3. x[i + n + 1].kind = "crc" /\ x[i + n + 1].frame = f /\ x[i + n + 1].words = n
      BY <2>2, FramePlaces
    <2>4. \A j \in 1..n : x[i + j].kind = "word" /\ x[i + j].bytes = 4 /\ x[i + j].frame = f
      <3> SUFFICES ASSUME NEW j \in 1..n
                   PROVE  x[i + j].kind = "word" /\ x[i + j].bytes = 4 /\ x[i + j].frame = f
        OBVIOUS
      <3>1. i + j \in 1..Len(x) /\ i + j \in (off + 3)..(off + n + 2)
        BY <2>1, <1>1
      <3> QED BY <3>1, <1>0
    <2> QED BY <2>1, <2>2, <2>3, <2>4 DEF HeadAt
  <1>4. CrcEnds(x, f)
    <2> SUFFICES ASSUME NEW i \in 1..Len(x), x[i].kind = "crc"
                 PROVE  x[i].bytes = 2 /\ i = Len(x) /\ x[i].frame = f
      BY DEF CrcEnds
    <2> QED BY <1>1, FramePlaces
  <1>5. PadLeads(x)
    <2> SUFFICES ASSUME NEW i \in 1..Len(x), x[i].kind = "pad"
                 PROVE  x[i].bytes = 8 /\ x[i].frame = 0 /\ i < Len(x) /\ x[i + 1].kind = "sync"
      BY DEF PadLeads
    <2>1. i = 1 /\ off = 1 /\ x[i].bytes = 8 /\ x[i].frame = 0
      BY <1>0
    <2>2. i + 1 \in 1..Len(x) /\ i + 1 = off + 1 /\ i < Len(x)
      BY <2>1, <1>1
    <2> QED BY <2>1, <2>2, <1>0
  <1>6. HeadsRise(x)
    <2>1. \A i \in 1..Len(x) : x[i].kind = "head" => i = off + 2
      BY FramePlaces
    <2> QED BY <2>1, <1>1 DEF HeadsRise
  <1>7. FramesWithin(x, f - 1, f)
    <2>1. \A i \in 1..Len(x) : x[i].kind # "pad" => x[i].frame = f
      BY FramePlaces
    <2> QED BY <2>1 DEF FramesWithin
  <1> QED BY <1>1, <1>2, <1>3, <1>4, <1>5, <1>6, <1>7 DEF Chained

(* Wherever a frame goes, its words and its CRC go with its head.          *)
LEMMA HeadMoves ==
  ASSUME NEW s, NEW w, NEW i \in Int, NEW e \in Int, NEW m \in Nat, HeadAt(s, i, m),
         \A j \in 0..(m + 1) : w[e + j] = s[i + j]
  PROVE  HeadAt(w, e, m)
  <1>1. w[e] = s[i]
    <2>1. w[e + 0] = s[i + 0] /\ e + 0 = e /\ i + 0 = i
      OBVIOUS
    <2> QED BY <2>1
  <1>2. \A j \in 1..m : w[e + j] = s[i + j]
    OBVIOUS
  <1>3. w[e + m + 1] = s[i + m + 1]
    <2>1. w[e + (m + 1)] = s[i + (m + 1)] /\ e + (m + 1) = e + m + 1 /\ i + (m + 1) = i + m + 1
      OBVIOUS
    <2> QED BY <2>1
  <1> QED BY <1>1, <1>2, <1>3 DEF HeadAt

(* A batch grows by a frame at its end.                                    *)
LEMMA ChainGrows ==
  ASSUME NEW first \in Nat, NEW last \in Nat, first <= last,
         NEW u, Chained(u, first, last), NEW x, NEW off \in {0, 1}, NEW n \in Nat,
         IsFrame(x, off, last + 1, n),
         u # <<>> => /\ off = 1 /\ u[Len(u)].kind = "crc" /\ u[Len(u)].frame = last
                     /\ u[Len(u)].words > 0
  PROVE  Chained(u \o x, first, last + 1)
  <1> DEFINE w == u \o x
             p == Len(u)
             q == Len(x)
             f == last + 1
  <1>1. u \in Seq(Tokens) /\ x \in Seq(Tokens) /\ q = off + n + 3
    BY DEF Chained, IsFrame
  <1>2. /\ w \in Seq(Tokens) /\ Len(w) = p + q /\ p \in Nat /\ q \in Nat
        /\ \A i \in 1..p : w[i] = u[i]
        /\ \A j \in 1..q : w[p + j] = x[j]
    <2>1. /\ u \o x \in Seq(Tokens) /\ Len(u \o x) = Len(u) + Len(x)
          /\ Len(u) \in Nat /\ Len(x) \in Nat
          /\ \A i \in 1..Len(u) : (u \o x)[i] = u[i]
          /\ \A j \in 1..Len(x) : (u \o x)[Len(u) + j] = x[j]
      <3>1. u \in Seq(Tokens) /\ x \in Seq(Tokens)
        BY <1>1
      <3> QED BY <3>1, Joined
    <2> QED BY <2>1
  <1>14. \A i \in 1..Len(w) : w[i] \in Tokens
    BY <1>2
  <1>15. p \in Nat /\ q \in Nat /\ Len(w) = p + q
    BY <1>2
  <1>16. \A i \in 1..p : w[i] = u[i]
    BY <1>2
  <1>17. \A j \in 1..q : w[p + j] = x[j]
    BY <1>2
  <1>3. Chained(x, last, f)
    <2>1. f - 1 = last /\ f \in Nat \ {0}
      OBVIOUS
    <2> QED BY <2>1, FrameChained
  <1>4. \A i \in 1..Len(w) : i > p => i - p \in 1..q /\ w[i] = x[i - p]
    <2> SUFFICES ASSUME NEW i \in 1..Len(w), i > p PROVE i - p \in 1..q /\ w[i] = x[i - p]
      OBVIOUS
    <2>1. i - p \in 1..q /\ p + (i - p) = i
      BY <1>2
    <2> QED BY <2>1, <1>2
  <1>5. p > 0 => /\ off = 1 /\ u[p].kind = "crc" /\ u[p].frame = last /\ u[p].words > 0
    BY <1>1
  <1> HIDE DEF w, p, q
  <1>6. SyncLeads(w)
    <2> SUFFICES ASSUME NEW i \in 1..Len(w), w[i].kind = "sync"
                 PROVE  w[i].bytes = 2 /\ i < Len(w) /\ w[i + 1].kind = "head" /\ w[i + 1].frame = w[i].frame
      BY DEF SyncLeads
    <2>1. CASE i <= p
      <3>1. i \in 1..p /\ w[i] = u[i]
        BY <2>1, <1>15, <1>16
      <3>2. u[i].bytes = 2 /\ i < p /\ u[i + 1].kind = "head" /\ u[i + 1].frame = u[i].frame
        BY <3>1 DEF Chained, SyncLeads, p
      <3>3. i + 1 \in 1..p /\ i < Len(w)
        BY <3>1, <3>2, <1>15, <1>16
      <3> QED BY <3>1, <3>2, <3>3, <1>15, <1>16
    <2>2. CASE i > p
      <3>1. i - p \in 1..q /\ w[i] = x[i - p]
        BY <2>2, <1>4
      <3>2. x[i - p].bytes = 2 /\ i - p < q /\ x[i - p + 1].kind = "head" /\ x[i - p + 1].frame = x[i - p].frame
        BY <3>1, <1>3 DEF Chained, SyncLeads, q
      <3>3. i + 1 \in 1..Len(w) /\ i + 1 > p /\ i + 1 - p = i - p + 1 /\ i < Len(w)
        BY <2>2, <3>1, <3>2, <1>15, <1>16, SMTT(30)
      <3>4. w[i + 1] = x[i - p + 1]
        BY <3>3, <1>4, <1>15
      <3> QED BY <3>1, <3>2, <3>3, <3>4
    <2> QED BY <2>1, <2>2, <1>15, <1>16
  <1>7. HeadLeads(w)
    <2> SUFFICES ASSUME NEW i \in 1..Len(w), w[i].kind = "head"
                 PROVE  i + w[i].words < Len(w) /\ HeadAt(w, i, w[i].words)
      BY DEF HeadLeads
    <2>0. PICK m \in Nat : m = w[i].words
      BY <1>14 DEF Tokens
    <2>1. CASE i <= p
      <3>1. i \in 1..p /\ w[i] = u[i]
        BY <2>1, <1>15, <1>16
      <3>2. i + m < p /\ HeadAt(u, i, m)
        BY <2>0, <3>1 DEF Chained, HeadLeads, p
      <3>3. \A j \in 0..(m + 1) : w[i + j] = u[i + j]
        <4>1. \A j \in 0..(m + 1) : i + j \in 1..p
          BY <3>1, <3>2, <1>15
        <4> QED BY <4>1, <1>16
      <3>4. HeadAt(w, i, m) /\ i + m < Len(w)
        <4>1. i \in Int /\ i + m < Len(w)
          BY <3>1, <3>2, <1>15
        <4>2. HeadAt(w, i, m)
          BY <4>1, <3>2, <3>3, HeadMoves
        <4> QED BY <4>1, <4>2
      <3> QED BY <3>4, <2>0
    <2>2. CASE i > p
      <3>1. PICK k \in 1..q : w[i] = x[k] /\ p + k = i
        <4>1. i - p \in 1..q /\ w[i] = x[i - p] /\ p + (i - p) = i
          BY <2>2, <1>4, <1>15
        <4> QED BY <4>1
      <3>2. k + m < q /\ HeadAt(x, k, m)
        BY <2>0, <3>1, <1>3 DEF Chained, HeadLeads, q
      <3>3. \A j \in 0..(m + 1) : w[i + j] = x[k + j]
        <4>1. \A j \in 0..(m + 1) : k + j \in 1..q /\ i + j = p + (k + j)
          BY <3>1, <3>2, <1>15, SMTT(30)
        <4> QED BY <4>1, <1>17
      <3>4. HeadAt(w, i, m) /\ i + m < Len(w)
        <4>1. i \in Int /\ k \in Int /\ i + m < Len(w)
          BY <3>1, <3>2, <1>15
        <4>2. HeadAt(w, i, m)
          BY <4>1, <3>2, <3>3, HeadMoves
        <4> QED BY <4>1, <4>2
      <3> QED BY <3>4, <2>0
    <2> QED BY <2>1, <2>2, <1>15
  <1>8. CrcEnds(w, f)
    <2> SUFFICES ASSUME NEW i \in 1..Len(w), w[i].kind = "crc"
                 PROVE  /\ w[i].bytes = 2
                        /\ i = Len(w) => w[i].frame = f
                        /\ i < Len(w) => /\ w[i].words > 0 /\ w[i + 1].kind = "pad"
                                         /\ i + 2 <= Len(w) /\ w[i + 2].kind = "sync"
                                         /\ w[i + 2].frame = w[i].frame + 1
      BY DEF CrcEnds
    <2>1. CASE i < p
      <3>1. i \in 1..p /\ w[i] = u[i] /\ i < Len(w)
        BY <2>1, <1>15, <1>16, <1>1
      <3>2. /\ u[i].bytes = 2 /\ u[i].words > 0 /\ u[i + 1].kind = "pad"
            /\ i + 2 <= p /\ u[i + 2].kind = "sync" /\ u[i + 2].frame = u[i].frame + 1
        BY <2>1, <3>1 DEF Chained, CrcEnds, p
      <3>3. i + 1 \in 1..p /\ i + 2 \in 1..p /\ i + 2 <= Len(w)
        BY <3>1, <3>2, <1>15
      <3>4. w[i + 1] = u[i + 1] /\ w[i + 2] = u[i + 2] /\ i # Len(w)
        BY <3>1, <3>3, <1>15, <1>16, SMTT(30)
      <3> QED BY <3>1, <3>2, <3>3, <3>4
    <2>2. CASE i = p
      <3>1. w[i] = u[i] /\ i \in 1..p
        BY <2>2, <1>15, <1>16
      <3>2. u[i].bytes = 2 /\ u[i].frame = last /\ u[i].words > 0 /\ off = 1
        BY <2>2, <3>1, <1>5 DEF Chained, CrcEnds, p
      <3>3. 1 \in 1..q /\ 2 \in 1..q /\ i + 2 <= Len(w) /\ i < Len(w)
        BY <2>2, <1>1, <1>15, <1>16 DEF q
      <3>4. w[i + 1] = x[1] /\ w[i + 2] = x[2]
        BY <2>2, <3>3, <1>17
      <3>5. x[1].kind = "pad" /\ x[2].kind = "sync" /\ x[2].frame = f
        <4>1. x[1] = Tok("pad", 8, 0, 0) /\ x[1 + 1] = Tok("sync", 2, f, n) /\ 1 + 1 = 2
          BY <3>2 DEF IsFrame
        <4> QED BY <4>1 DEF Tok
      <3> QED BY <3>1, <3>2, <3>3, <3>4, <3>5
    <2>3. CASE i > p
      <3>1. i - p \in 1..q /\ w[i] = x[i - p]
        BY <2>3, <1>4
      <3>2. /\ x[i - p].bytes = 2 /\ i - p = q /\ x[i - p].frame = f
        <4>1. f \in Nat \ {0} /\ x[i - p].kind = "crc" /\ i - p \in 1..Len(x)
          BY <3>1 DEF q
        <4>2. x[i - p].bytes = 2 /\ i - p = off + n + 3 /\ x[i - p].frame = f
          BY <4>1, FramePlaces, SMTT(30)
        <4> QED BY <4>2, <1>1
      <3>3. i = Len(w)
        BY <3>2, <1>15, <1>16
      <3> QED BY <3>1, <3>2, <3>3
    <2> QED BY <2>1, <2>2, <2>3, <1>15, <1>16
  <1>9. PadLeads(w)
    <2> SUFFICES ASSUME NEW i \in 1..Len(w), w[i].kind = "pad"
                 PROVE  w[i].bytes = 8 /\ w[i].frame = 0 /\ i < Len(w) /\ w[i + 1].kind = "sync"
      BY DEF PadLeads
    <2>1. CASE i <= p
      <3>1. i \in 1..p /\ w[i] = u[i]
        BY <2>1, <1>15, <1>16
      <3>2. u[i].bytes = 8 /\ u[i].frame = 0 /\ i < p /\ u[i + 1].kind = "sync"
        BY <3>1 DEF Chained, PadLeads, p
      <3>3. i + 1 \in 1..p /\ i < Len(w)
        BY <3>1, <3>2, <1>15, <1>16
      <3> QED BY <3>1, <3>2, <3>3, <1>15, <1>16
    <2>2. CASE i > p
      <3>1. i - p \in 1..q /\ w[i] = x[i - p]
        BY <2>2, <1>4
      <3>2. x[i - p].bytes = 8 /\ x[i - p].frame = 0 /\ i - p < q /\ x[i - p + 1].kind = "sync"
        BY <3>1, <1>3 DEF Chained, PadLeads, q
      <3>3. i + 1 \in 1..Len(w) /\ i + 1 > p /\ i + 1 - p = i - p + 1 /\ i < Len(w)
        BY <2>2, <3>1, <3>2, <1>15, <1>16, SMTT(30)
      <3>4. w[i + 1] = x[i - p + 1]
        BY <3>3, <1>4, <1>15, SMTT(30)
      <3> QED BY <3>1, <3>2, <3>3, <3>4
    <2> QED BY <2>1, <2>2, <1>15, <1>16
  <1>10. \A i \in 1..Len(w) :
           /\ i <= p /\ w[i].kind # "pad" => first < w[i].frame /\ w[i].frame <= last
           /\ i > p /\ w[i].kind # "pad" => w[i].frame = f
    <2> SUFFICES ASSUME NEW i \in 1..Len(w), w[i].kind # "pad"
                 PROVE  /\ i <= p => first < w[i].frame /\ w[i].frame <= last
                        /\ i > p => w[i].frame = f
      OBVIOUS
    <2>1. i <= p => first < w[i].frame /\ w[i].frame <= last
      BY <1>15, <1>16 DEF Chained, FramesWithin, p
    <2>2. i > p => w[i].frame = f
      <3>1. f \in Nat \ {0}
        OBVIOUS
      <3> QED BY <3>1, <1>4, FramePlaces, SMTT(30) DEF q
    <2> QED BY <2>1, <2>2
  <1>11. \A i \in 1..Len(w) : w[i].frame \in Nat
    BY <1>14 DEF Tokens
  <1>12. HeadsRise(w)
    <2> SUFFICES ASSUME NEW i \in 1..Len(w), NEW j \in 1..Len(w), i < j,
                        w[i].kind = "head", w[j].kind = "head"
                 PROVE  w[i].frame < w[j].frame
      BY DEF HeadsRise
    <2>1. CASE j <= p
      <3>1. i \in 1..p /\ j \in 1..p /\ w[i] = u[i] /\ w[j] = u[j]
        BY <2>1, <1>15, <1>16
      <3> QED BY <3>1 DEF Chained, HeadsRise, p
    <2>2. CASE i <= p /\ j > p
      BY <2>2, <1>10, <1>11
    <2>3. CASE i > p
      <3>1. i - p \in 1..q /\ j - p \in 1..q /\ w[i] = x[i - p] /\ w[j] = x[j - p] /\ i - p < j - p
        BY <2>3, <1>15, <1>16, <1>4
      <3> QED BY <3>1, <1>3 DEF Chained, HeadsRise, q
    <2> QED BY <2>1, <2>2, <2>3, <1>15, <1>16
  <1>13. FramesWithin(w, first, f)
    <2> SUFFICES ASSUME NEW i \in 1..Len(w), w[i].kind # "pad"
                 PROVE  first < w[i].frame /\ w[i].frame <= f
      BY DEF FramesWithin
    <2>1. w[i].frame \in Nat
      BY <1>11
    <2> QED BY <2>1, <1>15, <1>16, <1>10
  <1> QED BY <1>2, <1>6, <1>7, <1>8, <1>9, <1>12, <1>13 DEF Chained, w, f

(* The tokens of a batch's first frames, frame by frame.                   *)
LEMMA BatchUnfolds ==
  ASSUME NEW first, NEW b, NEW n \in Nat, n = Len(b)
  PROVE  \E u : /\ u[0] = <<>> /\ BatchTokens(first, b) = u[n]
                /\ \A i \in 1..n : u[i] = u[i - 1] \o Spaced(first, b, i)
  <1> DEFINE S == {k \in Nat : \E u : u = [i \in 0..k |-> IF i = 0 THEN <<>>
                                                          ELSE u[i - 1] \o Spaced(first, b, i)]}
             F == CHOOSE u : u = [i \in 0..n |-> IF i = 0 THEN <<>> ELSE u[i - 1] \o Spaced(first, b, i)]
  <1>1. 0 \in S
    <2> DEFINE u == [i \in 0..0 |-> <<>>]
    <2>1. u = [i \in 0..0 |-> IF i = 0 THEN <<>> ELSE u[i - 1] \o Spaced(first, b, i)]
      OBVIOUS
    <2> QED BY <2>1
  <1>2. ASSUME NEW k \in S PROVE k + 1 \in S
    <2>1. k \in Nat /\ k + 1 \in Nat
      OBVIOUS
    <2>2. PICK u : u = [i \in 0..k |-> IF i = 0 THEN <<>> ELSE u[i - 1] \o Spaced(first, b, i)]
      OBVIOUS
    <2> DEFINE g == [i \in 0..(k + 1) |-> IF i <= k THEN u[i] ELSE u[k] \o Spaced(first, b, k + 1)]
    <2>3. \A i \in 0..(k + 1) : g[i] = IF i = 0 THEN <<>> ELSE g[i - 1] \o Spaced(first, b, i)
      <3> SUFFICES ASSUME NEW i \in 0..(k + 1)
                   PROVE  g[i] = IF i = 0 THEN <<>> ELSE g[i - 1] \o Spaced(first, b, i)
        OBVIOUS
      <3>1. CASE i = 0
        <4>1. g[i] = u[i] /\ i \in 0..k
          BY <3>1, <2>1
        <4>2. u[i] = <<>>
          BY <4>1, <3>1, <2>2
        <4> QED BY <4>1, <4>2, <3>1
      <3>2. CASE i # 0 /\ i <= k
        <4>1. g[i] = u[i] /\ i \in 0..k /\ i - 1 \in 0..k /\ i - 1 <= k /\ i - 1 \in 0..(k + 1)
          BY <3>2, <2>1
        <4>2. u[i] = u[i - 1] \o Spaced(first, b, i)
          BY <4>1, <3>2, <2>2
        <4>3. g[i - 1] = u[i - 1]
          BY <4>1
        <4> HIDE DEF g
        <4> QED BY <4>1, <4>2, <4>3, <3>2
      <3>3. CASE i = k + 1
        <4>0. i - 1 = k /\ i # 0 /\ k \in 0..(k + 1) /\ k <= k /\ ~(i <= k)
          BY <3>3, <2>1
        <4>1. g[i] = u[k] \o Spaced(first, b, k + 1)
          BY <4>0
        <4>2. g[k] = u[k]
          BY <4>0
        <4> HIDE DEF g
        <4> QED BY <4>0, <4>1, <4>2, <3>3
      <3> QED BY <3>1, <3>2, <3>3, <2>1
    <2>4. g = [i \in 0..(k + 1) |-> IF i = 0 THEN <<>> ELSE g[i - 1] \o Spaced(first, b, i)]
      <3> DEFINE h == [i \in 0..(k + 1) |-> IF i = 0 THEN <<>> ELSE g[i - 1] \o Spaced(first, b, i)]
      <3>1. \A i \in 0..(k + 1) : g[i] = h[i]
        BY <2>3
      <3>2. DOMAIN g = 0..(k + 1) /\ DOMAIN h = 0..(k + 1)
            /\ g = [i \in DOMAIN g |-> g[i]] /\ h = [i \in DOMAIN h |-> h[i]]
        OBVIOUS
      <3> HIDE DEF g, h
      <3>3. g = h
        BY <3>1, <3>2
      <3> QED BY <3>3 DEF h
    <2> HIDE DEF g
    <2> QED BY <2>1, <2>4
  <1>3. S = Nat
    <2> HIDE DEF S
    <2>1. \A k \in S : k + 1 \in S
      BY <1>2
    <2>2. S \in SUBSET Nat
      BY DEF S
    <2> QED BY <1>1, <2>1, <2>2, Induct
  <1>4. n \in S
    BY <1>3
  <1>5. F = [i \in 0..n |-> IF i = 0 THEN <<>> ELSE F[i - 1] \o Spaced(first, b, i)]
    <2>1. \E u : u = [i \in 0..n |-> IF i = 0 THEN <<>> ELSE u[i - 1] \o Spaced(first, b, i)]
      BY <1>4
    <2> QED BY <2>1
  <1>6. BatchTokens(first, b) = F[n]
    BY DEF BatchTokens
  <1> HIDE DEF F, S
  <1>7. F[0] = <<>> /\ \A i \in 1..n : F[i] = F[i - 1] \o Spaced(first, b, i)
    <2>1. \A i \in 0..n : F[i] = IF i = 0 THEN <<>> ELSE F[i - 1] \o Spaced(first, b, i)
      BY <1>5
    <2>2. 0 \in 0..n /\ \A i \in 1..n : i \in 0..n /\ i # 0
      OBVIOUS
    <2> QED BY <2>1, <2>2
  <1> QED BY <1>6, <1>7

(* A batch is a chain of its frames, numbered on from what was sent.       *)
LEMMA BatchChained ==
  ASSUME NEW first \in Nat, NEW b \in Batches, NEW s, s = BatchTokens(first, b)
  PROVE  /\ Chained(s, first, first + Len(b)) /\ s # <<>>
         /\ s[1].kind = "sync" /\ s[1].frame = first + 1
  <1> DEFINE n == Len(b)
  <1>1. b \in Seq(Nat) /\ n \in Nat \ {0} /\ (n # 1 => \A i \in 1..n : b[i] > 0)
    <2>1. b \in Seq(Nat) /\ b # <<>> /\ (0 \in Range(b) => Len(b) = 1)
      BY UartAssumption
    <2>2. \A i \in 1..n : b[i] \in Range(b) /\ b[i] \in Nat
      BY <2>1 DEF Range
    <2> QED BY <2>1, <2>2
  <1> HIDE DEF n
  <1>2. PICK u : /\ u[0] = <<>> /\ s = u[n]
                 /\ \A i \in 1..n : u[i] = u[i - 1] \o Spaced(first, b, i)
    BY <1>1, BatchUnfolds DEF n
  <1>7. \A i \in Nat : i + 1 \in 1..n => u[i + 1] = u[i] \o Spaced(first, b, i + 1)
    <2> SUFFICES ASSUME NEW i \in Nat, i + 1 \in 1..n PROVE u[i + 1] = u[i] \o Spaced(first, b, i + 1)
      OBVIOUS
    <2>1. PICK j \in 1..n : j = i + 1
      OBVIOUS
    <2>2. j - 1 = i
      BY <2>1
    <2>3. u[j] = u[j - 1] \o Spaced(first, b, j)
      BY <1>2
    <2> QED BY <2>1, <2>2, <2>3
  <1> DEFINE Good(i) == /\ Chained(u[i], first, first + i)
                        /\ i > 0 => /\ u[i] # <<>> /\ u[i][1].kind = "sync" /\ u[i][1].frame = first + 1
                                    /\ u[i][Len(u[i])] = Tok("crc", 2, first + i, b[i])
             T == {i \in Nat : i <= n => Good(i)}
  <1>3. 0 \in T
    <2>1. Chained(<<>>, first, first + 0)
      <3>1. <<>> \in Seq(Tokens) /\ \A i \in 1..Len(<<>>) : FALSE
        OBVIOUS
      <3> QED BY <3>1 DEF Chained, SyncLeads, HeadLeads, CrcEnds, PadLeads, HeadsRise, FramesWithin
    <2> QED BY <2>1, <1>2
  <1>4. ASSUME NEW i \in T PROVE i + 1 \in T
    <2>1. i \in Nat /\ i + 1 \in Nat
      OBVIOUS
    <2> SUFFICES ASSUME i + 1 <= n PROVE Good(i + 1)
      BY <2>1
    <2> DEFINE x == Spaced(first, b, i + 1)
               off == IF i + 1 = 1 THEN 0 ELSE 1
               v == u[i]
               w == u[i + 1]
               m == b[i + 1]
    <2>2. Chained(v, first, first + i)
          /\ (i > 0 => /\ v # <<>> /\ v[1].kind = "sync" /\ v[1].frame = first + 1
                       /\ v[Len(v)] = Tok("crc", 2, first + i, b[i]))
      BY <2>1, <1>1
    <2>3. i + 1 \in 1..n /\ m \in Nat /\ off \in {0, 1} /\ (i > 0 <=> off = 1) /\ first + i + 1 = first + (i + 1)
      <3>1. i + 1 \in 1..n /\ first + i + 1 = first + (i + 1)
        BY <2>1, <1>1
      <3>2. b[i + 1] \in Nat
        BY <3>1, <1>1 DEF n
      <3>3. off \in {0, 1} /\ (i > 0 <=> off = 1)
        BY <2>1
      <3> QED BY <3>1, <3>2, <3>3
    <2>4. IsFrame(x, off, first + i + 1, m)
      <3>1. IsFrame(x, IF i + 1 = 1 THEN 0 ELSE 1, first + (i + 1), b[i + 1])
        BY <2>3, <1>1, SpacedShape DEF n
      <3> QED BY <3>1, <2>3
    <2>5. w = v \o x
      <3>1. u[i + 1] = u[i] \o Spaced(first, b, i + 1)
        BY <2>1, <2>3, <1>7
      <3> QED BY <3>1
    <2>6. i = 0 => v = <<>>
      BY <1>2
    <2>7. v # <<>> => /\ off = 1 /\ v[Len(v)].kind = "crc" /\ v[Len(v)].frame = first + i
                      /\ v[Len(v)].words > 0
      <3> SUFFICES ASSUME v # <<>>
                   PROVE  /\ off = 1 /\ v[Len(v)].kind = "crc" /\ v[Len(v)].frame = first + i
                          /\ v[Len(v)].words > 0
        OBVIOUS
      <3>1. i > 0 /\ i \in 1..n /\ n # 1
        BY <2>1, <2>6, <1>1
      <3>2. b[i] > 0 /\ v[Len(v)] = Tok("crc", 2, first + i, b[i]) /\ off = 1
        BY <3>1, <2>2, <2>3, <1>1
      <3> QED BY <3>2 DEF Tok
    <2> HIDE DEF x, off, v, w, m
    <2>8. Chained(w, first, first + (i + 1))
      <3>1. first + i \in Nat /\ first <= first + i
        BY <2>1
      <3>2. Chained(v \o x, first, first + i + 1)
        BY <3>1, <2>2, <2>3, <2>4, <2>7, ChainGrows
      <3> QED BY <3>2, <2>3, <2>5
    <2>9. v \in Seq(Tokens) /\ x \in Seq(Tokens) /\ Len(x) = off + m + 3
      BY <2>2, <2>4 DEF Chained, IsFrame
    <2>10. /\ Len(w) = Len(v) + Len(x) /\ Len(v) \in Nat /\ Len(x) \in Nat \ {0}
           /\ \A j \in 1..Len(v) : w[j] = v[j]
           /\ \A j \in 1..Len(x) : w[Len(v) + j] = x[j]
      <3>1. Len(x) \in Nat \ {0}
        BY <2>3, <2>9
      <3>2. /\ Len(v \o x) = Len(v) + Len(x) /\ Len(v) \in Nat
            /\ \A j \in 1..Len(v) : (v \o x)[j] = v[j]
            /\ \A j \in 1..Len(x) : (v \o x)[Len(v) + j] = x[j]
        <4>1. v \in Seq(Tokens) /\ x \in Seq(Tokens)
          BY <2>9
        <4> QED BY <4>1, Joined
      <3> QED BY <3>1, <3>2, <2>5
    <2>11. w[Len(w)] = Tok("crc", 2, first + (i + 1), m) /\ w # <<>>
      <3>1. x[off + m + 3] = Tok("crc", 2, first + i + 1, m)
        BY <2>4 DEF IsFrame
      <3>2. w[Len(v) + Len(x)] = x[Len(x)] /\ Len(w) # 0
        BY <2>10
      <3> QED BY <3>1, <3>2, <2>3, <2>9, <2>10
    <2>12. w[1].kind = "sync" /\ w[1].frame = first + 1
      <3>1. CASE i > 0
        <4>1. 1 \in 1..Len(v)
          BY <3>1, <2>2, <2>9
        <4> QED BY <4>1, <3>1, <2>2, <2>10
      <3>2. CASE i = 0
        <4>1. v = <<>> /\ Len(v) = 0 /\ 0 + 1 = 1 /\ off = 0 /\ first + i + 1 = first + 1
          BY <3>2, <2>1, <2>3, <2>6
        <4>2. w[1] = x[1]
          BY <4>1, <2>10
        <4>3. x[1] = Tok("sync", 2, first + 1, m)
          BY <4>1, <2>4 DEF IsFrame
        <4> QED BY <4>2, <4>3 DEF Tok
      <3> QED BY <3>1, <3>2, <2>1
    <2> QED BY <2>8, <2>11, <2>12 DEF w, m
  <1>5. T = Nat
    <2> HIDE DEF T
    <2>1. \A i \in T : i + 1 \in T
      BY <1>4
    <2>2. T \in SUBSET Nat
      BY DEF T
    <2> QED BY <1>3, <2>1, <2>2, Induct
  <1>6. Good(n)
    BY <1>1, <1>5
  <1> QED BY <1>1, <1>2, <1>6 DEF n

(* What is left of a chain when its first token is taken is one.           *)
LEMMA TailShifts ==
  ASSUME NEW S, NEW s \in Seq(S), s # <<>>
  PROVE  /\ Tail(s) \in Seq(S) /\ Len(Tail(s)) = Len(s) - 1 /\ Len(s) \in Nat \ {0}
         /\ Head(s) = s[1] /\ Head(s) \in S
         /\ \A i \in 1..Len(Tail(s)) : Tail(s)[i] = s[i + 1] /\ i + 1 \in 1..Len(s)
  OBVIOUS

LEMMA TailChained ==
  ASSUME NEW lo, NEW hi, NEW s, Chained(s, lo, hi), s # <<>>
  PROVE  Chained(Tail(s), lo, hi)
  <1> DEFINE v == Tail(s)
             p == Len(v)
  <1>1. s \in Seq(Tokens) /\ SyncLeads(s) /\ HeadLeads(s) /\ CrcEnds(s, hi) /\ PadLeads(s)
        /\ HeadsRise(s) /\ FramesWithin(s, lo, hi)
    BY DEF Chained
  <1>2. /\ v \in Seq(Tokens) /\ p = Len(s) - 1 /\ p \in Nat /\ Len(s) = p + 1
        /\ \A i \in 1..p : v[i] = s[i + 1] /\ i + 1 \in 1..Len(s)
    BY <1>1, TailShifts
  <1>3. Len(v) = p
    OBVIOUS
  <1> HIDE DEF v, p
  <1>4. SyncLeads(v)
    <2> SUFFICES ASSUME NEW i \in 1..p, v[i].kind = "sync"
                 PROVE  v[i].bytes = 2 /\ i < p /\ v[i + 1].kind = "head" /\ v[i + 1].frame = v[i].frame
      BY <1>3 DEF SyncLeads
    <2>1. /\ v[i].bytes = 2 /\ i + 1 < Len(s) /\ s[(i + 1) + 1].kind = "head"
          /\ s[(i + 1) + 1].frame = v[i].frame
      BY <1>1, <1>2 DEF SyncLeads
    <2>2. i < p /\ i + 1 \in 1..p
      BY <2>1, <1>2
    <2>3. v[i + 1] = s[(i + 1) + 1]
      BY <2>2, <1>2
    <2> QED BY <2>1, <2>2, <2>3
  <1>5. HeadLeads(v)
    <2> SUFFICES ASSUME NEW i \in 1..p, v[i].kind = "head"
                 PROVE  i + v[i].words < p /\ HeadAt(v, i, v[i].words)
      BY <1>3 DEF HeadLeads
    <2>1. v[i] = s[i + 1] /\ i + 1 \in 1..Len(s) /\ s[i + 1] \in Tokens
      BY <1>1, <1>2
    <2>2. PICK m \in Nat : m = v[i].words
      BY <2>1 DEF Tokens
    <2>3. i + 1 + m < Len(s) /\ HeadAt(s, i + 1, m)
      BY <2>1, <2>2, <1>1 DEF HeadLeads
    <2>4. i + m < p
      BY <2>2, <2>3, <1>2
    <2>5. \A j \in 0..(m + 1) : v[i + j] = s[(i + 1) + j]
      <3> SUFFICES ASSUME NEW j \in 0..(m + 1) PROVE v[i + j] = s[(i + 1) + j]
        OBVIOUS
      <3>1. i + j \in 1..p /\ (i + j) + 1 = (i + 1) + j
        BY <2>2, <2>4, <1>2, SMTT(30)
      <3> QED BY <3>1, <1>2
    <2>6. HeadAt(v, i, m)
      <3>1. i \in Int /\ i + 1 \in Int
        OBVIOUS
      <3> QED BY <3>1, <2>2, <2>3, <2>5, HeadMoves
    <2> QED BY <2>2, <2>4, <2>6
  <1>6. CrcEnds(v, hi)
    <2> SUFFICES ASSUME NEW i \in 1..p, v[i].kind = "crc"
                 PROVE  /\ v[i].bytes = 2
                        /\ i = p => v[i].frame = hi
                        /\ i < p => /\ v[i].words > 0 /\ v[i + 1].kind = "pad"
                                    /\ i + 2 <= p /\ v[i + 2].kind = "sync"
                                    /\ v[i + 2].frame = v[i].frame + 1
      BY <1>3 DEF CrcEnds
    <2>1. v[i] = s[i + 1] /\ i + 1 \in 1..Len(s) /\ s[i + 1].kind = "crc"
      BY <1>2
    <2>2. /\ v[i].bytes = 2
          /\ i + 1 = Len(s) => v[i].frame = hi
          /\ i + 1 < Len(s) => /\ v[i].words > 0 /\ s[(i + 1) + 1].kind = "pad"
                               /\ (i + 1) + 2 <= Len(s) /\ s[(i + 1) + 2].kind = "sync"
                               /\ s[(i + 1) + 2].frame = v[i].frame + 1
      BY <2>1, <1>1 DEF CrcEnds
    <2>3. CASE i = p
      <3>1. i + 1 = Len(s)
        BY <2>3, <1>2
      <3> QED BY <3>1, <2>2, <2>3
    <2>4. CASE i < p
      <3>1. i + 1 < Len(s) /\ i + 1 \in 1..p
        BY <2>4, <1>2
      <3>2. (i + 1) + 2 <= Len(s) /\ (i + 1) + 2 = (i + 2) + 1
        BY <2>2, <3>1
      <3>3. i + 2 \in 1..p
        BY <3>2, <1>2
      <3>4. v[i + 1] = s[(i + 1) + 1] /\ v[i + 2] = s[(i + 1) + 2]
        BY <3>1, <3>2, <3>3, <1>2
      <3>5. i + 2 <= p /\ i # p
        BY <3>3, <2>4
      <3> QED BY <3>1, <3>4, <3>5, <2>2
    <2> QED BY <2>3, <2>4, <1>2
  <1>7. PadLeads(v)
    <2> SUFFICES ASSUME NEW i \in 1..p, v[i].kind = "pad"
                 PROVE  v[i].bytes = 8 /\ v[i].frame = 0 /\ i < p /\ v[i + 1].kind = "sync"
      BY <1>3 DEF PadLeads
    <2>1. v[i].bytes = 8 /\ v[i].frame = 0 /\ i + 1 < Len(s) /\ s[(i + 1) + 1].kind = "sync"
      BY <1>1, <1>2 DEF PadLeads
    <2>2. i < p /\ i + 1 \in 1..p
      BY <2>1, <1>2
    <2>3. v[i + 1] = s[(i + 1) + 1]
      BY <2>2, <1>2
    <2> QED BY <2>1, <2>2, <2>3
  <1>8. HeadsRise(v)
    <2> SUFFICES ASSUME NEW i \in 1..p, NEW j \in 1..p, i < j, v[i].kind = "head", v[j].kind = "head"
                 PROVE  v[i].frame < v[j].frame
      BY <1>3 DEF HeadsRise
    <2>1. v[i] = s[i + 1] /\ v[j] = s[j + 1] /\ i + 1 \in 1..Len(s) /\ j + 1 \in 1..Len(s) /\ i + 1 < j + 1
      BY <1>2
    <2> QED BY <2>1, <1>1 DEF HeadsRise
  <1>9. FramesWithin(v, lo, hi)
    <2> SUFFICES ASSUME NEW i \in 1..p, v[i].kind # "pad"
                 PROVE  lo < v[i].frame /\ v[i].frame <= hi
      BY <1>3 DEF FramesWithin
    <2> QED BY <1>1, <1>2 DEF FramesWithin
  <1> QED BY <1>2, <1>4, <1>5, <1>6, <1>7, <1>8, <1>9 DEF Chained, v

-----------------------------------------------------------------------------
(* Rising sequences.                                                       *)
Rising(s) == \A i, j \in 1..Len(s) : i < j => s[i] < s[j]

(* As many rising numbers as there is room for are all of them.            *)
LEMMA RisingFills ==
  ASSUME NEW s \in Seq(Nat), Rising(s), NEW lo \in Nat,
         \A i \in 1..Len(s) : lo < s[i] /\ s[i] <= lo + Len(s)
  PROVE  s = [i \in 1..Len(s) |-> lo + i]
  <1> DEFINE n == Len(s)
             T == {k \in Nat : \A i \in 1..n : i <= k => lo + i <= s[i]}
             D == {k \in Nat : \A i \in 1..n : n - i <= k => s[i] <= lo + i}
  <1>0. n \in Nat /\ \A i \in 1..n : s[i] \in Nat
    OBVIOUS
  <1>1. 0 \in T
    BY <1>0
  <1>2. ASSUME NEW k \in T PROVE k + 1 \in T
    <2> SUFFICES ASSUME NEW i \in 1..n, i <= k + 1 PROVE lo + i <= s[i]
      OBVIOUS
    <2>1. CASE i = 1
      BY <2>1, <1>0
    <2>2. CASE i > 1
      <3>1. i - 1 \in 1..n /\ i - 1 <= k /\ i - 1 < i
        BY <2>2, <1>0
      <3>2. lo + (i - 1) <= s[i - 1]
        BY <3>1
      <3>3. s[i - 1] < s[i]
        BY <3>1 DEF Rising
      <3> QED BY <3>1, <3>2, <3>3, <1>0
    <2> QED BY <2>1, <2>2
  <1>3. T = Nat
    <2> HIDE DEF T
    <2>1. \A k \in T : k + 1 \in T
      BY <1>2
    <2>2. T \in SUBSET Nat
      BY DEF T
    <2> QED BY <1>1, <2>1, <2>2, Induct
  <1>4. 0 \in D
    BY <1>0
  <1>5. ASSUME NEW k \in D PROVE k + 1 \in D
    <2> SUFFICES ASSUME NEW i \in 1..n, n - i <= k + 1 PROVE s[i] <= lo + i
      OBVIOUS
    <2>1. CASE i = n
      BY <2>1, <1>0
    <2>2. CASE i < n
      <3>1. i + 1 \in 1..n /\ n - (i + 1) <= k /\ i < i + 1
        BY <2>2, <1>0
      <3>2. s[i + 1] <= lo + (i + 1)
        BY <3>1
      <3>3. s[i] < s[i + 1]
        BY <3>1 DEF Rising
      <3>4. s[i] \in Nat /\ s[i + 1] \in Nat
        BY <3>1, <1>0
      <3> HIDE DEF D, n
      <3> QED BY <3>2, <3>3, <3>4
    <2> QED BY <2>1, <2>2, <1>0
  <1>6. D = Nat
    <2> HIDE DEF D
    <2>1. \A k \in D : k + 1 \in D
      BY <1>5
    <2>2. D \in SUBSET Nat
      BY DEF D
    <2> QED BY <1>4, <2>1, <2>2, Induct
  <1>7. \A i \in 1..n : s[i] = lo + i
    <2> SUFFICES ASSUME NEW i \in 1..n PROVE s[i] = lo + i
      OBVIOUS
    <2>1. lo + i <= s[i]
      <3>1. n \in T
        BY <1>0, <1>3
      <3> QED BY <3>1
    <2>2. s[i] <= lo + i
      <3>1. n \in D
        BY <1>0, <1>6
      <3>2. \A j \in 1..n : n - j <= n => s[j] <= lo + j
        BY <3>1
      <3>3. n - i <= n
        BY <1>0
      <3> HIDE DEF n
      <3> QED BY <3>2, <3>3
    <2>3. s[i] \in Nat /\ lo + i \in Nat
      BY <1>0
    <2> HIDE DEF n, T, D
    <2> QED BY <2>1, <2>2, <2>3
  <1> HIDE DEF n
  <1>8. DOMAIN s = 1..n /\ s = [i \in 1..n |-> s[i]]
    BY DEF n
  <1> QED BY <1>7, <1>8 DEF n

(* A sequence in which every number above lo is greater than all before it *)
(* and less than all after it, and which has them all, ends with them.     *)
Above(e, lo) == \A i, j \in 1..Len(e) : i < j /\ (e[i] > lo \/ e[j] > lo) => e[i] < e[j]

LEMMA EndsWithAll ==
  ASSUME NEW e \in Seq(Nat), NEW lo \in Nat, NEW n \in Nat, Above(e, lo),
         \A i \in 1..Len(e) : e[i] <= lo + n,
         \A v \in (lo + 1)..(lo + n) : \E i \in 1..Len(e) : e[i] = v,
         NEW m, m = [i \in 1..n |-> lo + i]
  PROVE  \E k \in 0..Len(e) : e = SubSeq(e, 1, k) \o m /\ \A i \in 1..k : e[i] <= lo
  <1> DEFINE L == Len(e)
  <1>0. L \in Nat /\ \A i \in 1..L : e[i] \in Nat
    OBVIOUS
  <1>1. CASE n = 0
    <2>1. m = <<>>
      BY <1>1
    <2>2. SubSeq(e, 1, L) \o <<>> = e
      BY SubSeqFull, ConcatEmptySeq
    <2>3. L \in 0..L /\ \A i \in 1..L : e[i] <= lo
      BY <1>0, <1>1
    <2> QED BY <2>1, <2>2, <2>3
  <1>2. CASE n > 0
    <2>1. PICK p \in 1..L : e[p] = lo + 1
      <3>1. lo + 1 \in (lo + 1)..(lo + n)
        BY <1>2
      <3> QED BY <3>1
    <2> DEFINE T == {k \in Nat : k < n => p + k <= L /\ e[p + k] = lo + 1 + k}
    <2>2. 0 \in T
      BY <2>1, <1>0
    <2>3. ASSUME NEW k \in T PROVE k + 1 \in T
      <3>0. k \in Nat /\ k + 1 \in Nat
        OBVIOUS
      <3> SUFFICES ASSUME k + 1 < n PROVE p + (k + 1) <= L /\ e[p + (k + 1)] = lo + 1 + (k + 1)
        BY <3>0
      <3>1. p + k <= L /\ e[p + k] = lo + 1 + k
        BY <3>0
      <3>2. PICK q \in 1..L : e[q] = lo + 1 + (k + 1)
        <4>1. lo + 1 + (k + 1) \in (lo + 1)..(lo + n)
          BY <3>0
        <4> QED BY <4>1
      <3> HIDE DEF L, T
      <3>3. p + k \in 1..L
        BY <3>0, <3>1, <1>0
      <3>4. p + k < q
        <4>0. q # p + k
          <5>1. lo + 1 + (k + 1) # lo + 1 + k
            BY <3>0
          <5> QED BY <5>1, <3>1, <3>2
        <4>1. SUFFICES ASSUME q < p + k PROVE FALSE
          BY <4>0, <3>0
        <4>2. e[q] > lo
          BY <3>0, <3>2
        <4>3. e[q] < e[p + k]
          BY <4>1, <4>2, <3>3 DEF Above, L
        <4> QED BY <4>3, <3>0, <3>1, <3>2
      <3>5. p + (k + 1) \in 1..L /\ p + k < p + (k + 1) /\ p + (k + 1) <= q
        BY <3>0, <3>3, <3>4, <1>0
      <3>6. e[p + k] < e[p + (k + 1)]
        <4>1. e[p + k] > lo
          BY <3>0, <3>1
        <4> QED BY <4>1, <3>3, <3>5 DEF Above, L
      <3>7. p + (k + 1) = q
        <4>1. SUFFICES ASSUME p + (k + 1) < q PROVE FALSE
          BY <3>0, <3>5
        <4>2. e[q] > lo
          BY <3>0, <3>2
        <4>3. e[p + (k + 1)] < e[q]
          BY <4>1, <4>2, <3>5 DEF Above, L
        <4>4. e[p + (k + 1)] \in Nat
          BY <3>5, <1>0
        <4>5. PICK y \in Nat : y = e[p + (k + 1)]
          BY <4>4
        <4>6. lo + 1 + k < y /\ y < lo + 1 + (k + 1)
          BY <4>3, <4>5, <3>1, <3>2, <3>6
        <4> QED BY <4>6, <3>0
      <3>8. p + (k + 1) <= L
        BY <3>5, <1>0
      <3>9. e[p + (k + 1)] = lo + 1 + (k + 1)
        BY <3>2, <3>7
      <3> QED BY <3>8, <3>9
    <2>4. T = Nat
      <3> HIDE DEF T
      <3>1. \A k \in T : k + 1 \in T
        BY <2>3
      <3>2. T \in SUBSET Nat
        BY DEF T
      <3> QED BY <2>2, <3>1, <3>2, Induct
    <2>5. \A k \in Nat : k < n => p + k <= L /\ e[p + k] = lo + 1 + k
      BY <2>4
    <2> HIDE DEF T, L
    <2>6. p + (n - 1) <= L /\ e[p + (n - 1)] = lo + n
      <3>1. n - 1 \in Nat /\ n - 1 < n /\ lo + 1 + (n - 1) = lo + n
        BY <1>2
      <3> QED BY <3>1, <2>5
    <2>7. p + (n - 1) = L
      <3>1. SUFFICES ASSUME p + (n - 1) < L PROVE FALSE
        BY <2>6, <1>0
      <3>2. p + (n - 1) \in 1..L /\ p + n \in 1..L /\ p + (n - 1) < p + n
        BY <3>1, <1>0, <1>2
      <3>3. e[p + (n - 1)] > lo
        BY <2>6, <1>2
      <3>4. e[p + (n - 1)] < e[p + n]
        BY <3>2, <3>3 DEF Above, L
      <3>5. e[p + n] <= lo + n /\ e[p + n] \in Nat
        BY <3>2, <1>0 DEF L
      <3> QED BY <3>4, <3>5, <2>6
    <2> DEFINE k == p - 1
               a == SubSeq(e, 1, k)
    <2>8. k \in Nat /\ k + n = L /\ k \in 0..L
      BY <2>1, <2>7, <1>0, <1>2
    <2>9. a \in Seq(Nat) /\ Len(a) = k /\ \A i \in 1..k : a[i] = e[i]
      <3>1. 1 \in Int /\ k \in Int /\ \A i \in 1..k : e[i] \in Nat
        BY <2>8, <1>0
      <3>2. /\ a \in Seq(Nat) /\ Len(a) = IF 1 <= k THEN k - 1 + 1 ELSE 0
            /\ \A i \in 1..(k - 1 + 1) : a[i] = e[1 + i - 1]
        BY <3>1, SubSeqProperties
      <3> HIDE DEF a, k
      <3>3. k - 1 + 1 = k /\ \A i \in 1..k : 1 + i - 1 = i
        BY <2>8
      <3> QED BY <3>2, <3>3, <2>8
    <2> HIDE DEF a, k
    <2>10. m \in Seq(Nat) /\ Len(m) = n /\ \A i \in 1..n : m[i] = lo + i
      OBVIOUS
    <2>11. /\ a \o m \in Seq(Nat) /\ Len(a \o m) = L
           /\ \A i \in 1..k : (a \o m)[i] = a[i]
           /\ \A i \in 1..n : (a \o m)[k + i] = m[i]
      <3>1. /\ a \o m \in Seq(Nat) /\ Len(a \o m) = Len(a) + Len(m)
            /\ \A i \in 1..Len(a) : (a \o m)[i] = a[i]
            /\ \A i \in 1..Len(m) : (a \o m)[Len(a) + i] = m[i]
        <4>1. a \in Seq(Nat) /\ m \in Seq(Nat)
          BY <2>9, <2>10
        <4> QED BY <4>1, Joined
      <3> QED BY <3>1, <2>8, <2>9, <2>10
    <2> DEFINE c == a \o m
    <2> HIDE DEF a, k, c
    <2>12. \A i \in 1..L : e[i] = c[i]
      <3> SUFFICES ASSUME NEW i \in 1..L PROVE e[i] = c[i]
        OBVIOUS
      <3>1. CASE i <= k
        <4>1. i \in 1..k
          BY <3>1, <2>8, <1>0
        <4> QED BY <4>1, <2>9, <2>11 DEF c
      <3>2. CASE i > k
        <4>1. i - k \in 1..n /\ k + (i - k) = i /\ i - k - 1 \in Nat /\ i - k - 1 < n /\ p + (i - k - 1) = i
              /\ lo + 1 + (i - k - 1) = lo + (i - k)
          BY <3>2, <2>8, <1>0, <2>1 DEF k
        <4>2. e[i] = lo + (i - k)
          BY <4>1, <2>5
        <4>3. c[i] = m[i - k]
          BY <4>1, <2>11 DEF c
        <4> QED BY <4>1, <4>2, <4>3, <2>10
      <3> QED BY <3>1, <3>2, <2>8, <1>0
    <2>13. e = c
      <3>1. c \in Seq(Nat) /\ Len(c) = Len(e)
        BY <2>11 DEF c, L
      <3>2. \A i \in 1..Len(e) : e[i] = c[i]
        BY <2>12 DEF L
      <3> QED BY <3>1, <3>2, SeqEqual
    <2>14. \A i \in 1..k : e[i] <= lo
      <3> SUFFICES ASSUME NEW i \in 1..k PROVE e[i] <= lo
        OBVIOUS
      <3>1. i \in 1..L /\ p \in 1..L /\ i < p
        BY <2>1, <2>8, <1>0 DEF k
      <3>2. e[p] > lo
        BY <2>1
      <3>3. e[i] < e[p]
        BY <3>1, <3>2 DEF Above, L
      <3>4. e[i] \in Nat
        BY <3>1, <1>0
      <3> QED BY <3>3, <3>4, <2>1
    <2>15. k \in 0..Len(e) /\ e = SubSeq(e, 1, k) \o m
      BY <2>8, <2>13 DEF a, c, L
    <2> QED BY <2>14, <2>15
  <1>3. n = 0 \/ n > 0
    OBVIOUS
  <1> QED BY <1>1, <1>2, <1>3, Zenon

-----------------------------------------------------------------------------
(* What the variables hold.                                                *)
Decoders == [at : {"hunt", "head", "body"}, left : Int, frame : Nat, sound : BOOLEAN,
             words : Nat, busy : BOOLEAN]
Replies == [frame : Nat, left : Nat]
First == Len(sent) - Len(mine)     \* frames sent before the exchange

LinkTypes ==
  /\ line \in Seq(Tokens) /\ decoder \in Decoders
  /\ reply \in Replies /\ (reply.left = 0 => reply = NoReply)
  /\ inbox \in Seq(Nat) /\ got \in Seq(Nat) /\ effected \in Seq(Nat)
  /\ sent \in Seq(Nat) /\ mine \in Seq(Nat) /\ exchanges \in Nat
  /\ waiting \in BOOLEAN /\ quietly \in BOOLEAN

\* Between frames the decoder holds nothing of one; it is busy only as
\* another byte comes.
DecoderRests ==
  /\ decoder.at # "body" =>
       decoder.left = 0 /\ decoder.frame = 0 /\ decoder.sound /\ decoder.words = 0
  /\ decoder.busy => decoder.at = "hunt" /\ line # <<>>

HostKnows ==
  /\ Len(mine) <= Len(sent) /\ mine = [i \in 1..Len(mine) |-> First + i]
  /\ waiting => Len(got) < Len(mine)
  /\ outcome = "ok" => Len(got) = Len(mine) /\ \A i \in 1..Len(got) : got[i] # Unreadable

\* Nothing is marked with a frame that was not sent.
NotAhead ==
  /\ \A i \in 1..Len(line) : line[i].frame <= Len(sent)
  /\ \A i \in 1..Len(effected) : effected[i] <= Len(sent)
  /\ decoder.frame <= Len(sent)

LinkInv == LinkTypes /\ DecoderRests /\ HostKnows /\ NotAhead

-----------------------------------------------------------------------------
(* What the arrival of a token does to the bridge.                         *)
Idles ==
  /\ decoder' \in {Hunting, [Hunting EXCEPT !.at = "head"]}
  /\ reply' = Advanced /\ effected' = effected

Body(f, n, left, sound) ==
  [at |-> "body", left |-> left, frame |-> f, sound |-> sound, words |-> n, busy |-> FALSE]

Opens(t) ==
  /\ decoder.at = "head" /\ t.kind = "head"
  /\ decoder' = Body(t.frame, t.words, 4 * t.words + 2, TRUE)
  /\ reply' = Advanced /\ effected' = effected

Garbles(t) ==
  /\ \E n \in Nat, left \in Int, f \in {decoder.frame, t.frame} : decoder' = Body(f, n, left, FALSE)
  /\ reply' = Advanced /\ effected' = effected

Continues(t) ==
  /\ decoder.at = "body" /\ decoder.sound /\ t.frame = decoder.frame
  /\ \E left \in Int : decoder' = Body(decoder.frame, decoder.words, left, TRUE)
  /\ reply' = Advanced /\ effected' = effected

Effects(t) ==
  /\ decoder.at = "body" /\ decoder.sound /\ t.frame = decoder.frame
  /\ effected' = Append(effected, decoder.frame)
  /\ decoder' = [Hunting EXCEPT !.busy = decoder.words >= SlowWords /\ Len(line) > 1]
  /\ reply' = IF Advanced = NoReply
                THEN [frame |-> decoder.frame, left |-> ReplyBytes(decoder.words)] ELSE Advanced

Happens(t) == Idles \/ Opens(t) \/ Garbles(t) \/ Continues(t) \/ Effects(t)

(* A decoder that holds nothing is a hunting one, or one at a header.      *)
LEMMA Fielded ==
  ASSUME NEW d \in Decoders
  PROVE  d = [at |-> d.at, left |-> d.left, frame |-> d.frame, sound |-> d.sound,
              words |-> d.words, busy |-> d.busy]
  BY DEF Decoders

LEMMA HuntingDecoders ==
  ASSUME NEW b \in BOOLEAN
  PROVE  /\ LET x == [Hunting EXCEPT !.at = "head"]
            IN  /\ x \in Decoders /\ x.at = "head" /\ x.left = 0 /\ x.frame = 0 /\ x.sound = TRUE
                /\ x.words = 0 /\ x.busy = FALSE
         /\ LET x == [Hunting EXCEPT !.busy = b]
            IN  /\ x \in Decoders /\ x.at = "hunt" /\ x.left = 0 /\ x.frame = 0 /\ x.sound = TRUE
                /\ x.words = 0 /\ x.busy = b
  <1> DEFINE d == Hunting
             x == [d EXCEPT !.at = "head"]
             y == [d EXCEPT !.busy = b]
  <1>1. /\ d \in Decoders /\ d.at = "hunt" /\ d.left = 0 /\ d.frame = 0 /\ d.sound = TRUE
        /\ d.words = 0 /\ d.busy = FALSE
    BY DEF Hunting, Decoders
  <1> HIDE DEF d
  <1>2. /\ x \in Decoders /\ x.at = "head" /\ x.left = d.left /\ x.frame = d.frame
        /\ x.sound = d.sound /\ x.words = d.words /\ x.busy = d.busy
    BY <1>1 DEF Decoders
  <1>3. /\ y \in Decoders /\ y.at = d.at /\ y.left = d.left /\ y.frame = d.frame
        /\ y.sound = d.sound /\ y.words = d.words /\ y.busy = b
    BY <1>1 DEF Decoders
  <1> QED BY <1>1, <1>2, <1>3 DEF d

LEMMA RestingDecoder ==
  ASSUME NEW d \in Decoders, d.at # "body", d.left = 0, d.frame = 0, d.sound, d.words = 0, ~d.busy
  PROVE  d \in {Hunting, [Hunting EXCEPT !.at = "head"]} /\ (d.at = "hunt" => d = Hunting)
  <1>1. d.sound = TRUE /\ d.busy = FALSE /\ d.at \in {"hunt", "head"}
    BY DEF Decoders
  <1>2. d = [at |-> d.at, left |-> 0, frame |-> 0, sound |-> TRUE, words |-> 0, busy |-> FALSE]
    BY <1>1, Fielded
  <1> DEFINE x == [Hunting EXCEPT !.at = "head"]
  <1>3. x = [at |-> "head", left |-> 0, frame |-> 0, sound |-> TRUE, words |-> 0, busy |-> FALSE]
    <2>1. /\ x \in Decoders /\ x.at = "head" /\ x.left = 0 /\ x.frame = 0 /\ x.sound = TRUE
          /\ x.words = 0 /\ x.busy = FALSE
      BY DEF Hunting, Decoders
    <2> HIDE DEF x
    <2> QED BY <2>1, Fielded
  <1> QED BY <1>1, <1>2, <1>3 DEF Hunting

LEMMA EndHappens ==
  ASSUME NEW t, NEW d \in Decoders, d.at = "body", Ends(d), NEW w, w <=> d.sound,
         w => /\ d.frame = decoder.frame /\ d.words = decoder.words
              /\ decoder.at = "body" /\ decoder.sound /\ t.frame = decoder.frame
  PROVE  Happens(t)
  <1>1. CASE CrcMatches(d)
    <2>1. d.sound /\ d.frame = decoder.frame /\ d.words = decoder.words /\ decoder.at = "body"
          /\ decoder.sound /\ t.frame = decoder.frame
      BY <1>1 DEF CrcMatches
    <2>2. Effects(t)
      BY <1>1, <2>1 DEF Ends, Effects
    <2> QED BY <2>2 DEF Happens
  <1>2. CASE ~CrcMatches(d)
    <2>1. Idles
      BY <1>2 DEF Ends, Idles
    <2> QED BY <2>1 DEF Happens
  <1> QED BY <1>1, <1>2

(* The decoder the bridge takes a token with.                              *)
Freed == [decoder EXCEPT !.busy = FALSE]

LEMMA FreedDecoder ==
  ASSUME LinkTypes, DecoderRests
  PROVE  /\ Freed \in Decoders /\ ~Freed.busy /\ Freed.at = decoder.at /\ Freed.left = decoder.left
         /\ Freed.frame = decoder.frame /\ Freed.sound = decoder.sound /\ Freed.words = decoder.words
         /\ Freed.at # "body" => Freed.left = 0 /\ Freed.frame = 0 /\ Freed.sound /\ Freed.words = 0
         /\ Freed.at = "hunt" => Freed = Hunting
  <1> DEFINE d == Freed
  <1>1. /\ d \in Decoders /\ ~d.busy /\ d.at = decoder.at /\ d.left = decoder.left
        /\ d.frame = decoder.frame /\ d.sound = decoder.sound /\ d.words = decoder.words
    BY DEF LinkTypes, Decoders, Freed
  <1> HIDE DEF d
  <1>2. d.at # "body" => d.left = 0 /\ d.frame = 0 /\ d.sound /\ d.words = 0
    BY <1>1 DEF DecoderRests
  <1>3. d.at = "hunt" => d = Hunting
    BY <1>1, <1>2, RestingDecoder
  <1> QED BY <1>1, <1>2, <1>3 DEF d

LEMMA HuntTaken ==
  ASSUME LinkTypes, DecoderRests, NEW t, NEW b, NEW whole, decoder.at = "hunt", Takes(t, b, whole)
  PROVE  Stays(IF whole /\ t.kind = "sync" THEN [Hunting EXCEPT !.at = "head"] ELSE Hunting)
  <1>1. Freed = Hunting /\ Freed.at = "hunt"
    BY FreedDecoder
  <1>2. Stays(IF whole /\ t.kind = "sync" THEN [Freed EXCEPT !.at = "head"] ELSE Freed)
    BY <1>1 DEF Takes, Freed
  <1> QED BY <1>1, <1>2

LEMMA HeadTaken ==
  ASSUME LinkTypes, DecoderRests, NEW t \in Tokens, NEW b, decoder.at = "head", t.kind = "head",
         Takes(t, b, TRUE)
  PROVE  Opens(t)
  <1> DEFINE d == Freed
             e == [d EXCEPT !.frame = t.frame]
             g == [e EXCEPT !.at = "body", !.left = 4 * t.words + 2, !.words = t.words]
  <1>1. t.frame \in Nat /\ t.words \in Nat
    BY DEF Tokens
  <1>2. d \in Decoders /\ d.sound /\ ~d.busy /\ d.at = "head"
    BY FreedDecoder
  <1>3. InFrame(e, t.words)
    BY <1>2 DEF Takes, Freed
  <1> HIDE DEF d
  <1>4. e \in Decoders /\ e.sound /\ ~e.busy /\ e.frame = t.frame
    BY <1>1, <1>2 DEF Decoders
  <1>5. Stays(g)
    BY <1>3 DEF InFrame
  <1>6. /\ g \in Decoders /\ g.at = "body" /\ g.left = 4 * t.words + 2 /\ g.words = t.words
        /\ g.frame = e.frame /\ g.sound = e.sound /\ g.busy = e.busy
    <2>1. 4 * t.words + 2 \in Int
      BY <1>1
    <2>2. g = [e EXCEPT !.at = "body", !.left = 4 * t.words + 2, !.words = t.words]
      OBVIOUS
    <2> HIDE DEF e, g
    <2>3. PICK x \in Decoders, l \in Int, n \in Nat : x = e /\ l = 4 * t.words + 2 /\ n = t.words
      BY <2>1, <1>1, <1>4
    <2>4. g = [x EXCEPT !.at = "body", !.left = l, !.words = n]
      BY <2>2, <2>3
    <2>5. /\ g \in Decoders /\ g.at = "body" /\ g.left = l /\ g.words = n
          /\ g.frame = x.frame /\ g.sound = x.sound /\ g.busy = x.busy
      BY <2>4 DEF Decoders
    <2> QED BY <2>3, <2>5
  <1> HIDE DEF e, g
  <1>7. g = Body(t.frame, t.words, 4 * t.words + 2, TRUE)
    <2>1. g = [at |-> g.at, left |-> g.left, frame |-> g.frame, sound |-> g.sound,
               words |-> g.words, busy |-> g.busy]
      BY <1>6, Fielded
    <2>2. g.sound = TRUE /\ g.busy = FALSE
      BY <1>4, <1>6 DEF Decoders
    <2> QED BY <2>1, <2>2, <1>4, <1>6 DEF Body
  <1> QED BY <1>5, <1>7 DEF Opens, Stays

LEMMA GarbledTaken ==
  ASSUME LinkTypes, DecoderRests, NEW t \in Tokens, NEW n \in Nat,
         InFrame([Freed EXCEPT !.sound = FALSE, !.frame = t.frame], n)
  PROVE  Garbles(t)
  <1> DEFINE d == Freed
             e == [d EXCEPT !.sound = FALSE, !.frame = t.frame]
             g == [e EXCEPT !.at = "body", !.left = 4 * n + 2, !.words = n]
  <1>1. t.frame \in Nat
    BY DEF Tokens
  <1>2. d \in Decoders /\ ~d.busy
    BY FreedDecoder
  <1> HIDE DEF d
  <1>3. e \in Decoders /\ ~e.sound /\ ~e.busy /\ e.frame = t.frame
    BY <1>1, <1>2 DEF Decoders
  <1>4. Stays(g)
    BY DEF InFrame, d
  <1>5. 4 * n + 2 \in Int
    OBVIOUS
  <1>6. /\ g \in Decoders /\ g.at = "body" /\ g.left = 4 * n + 2 /\ g.words = n
        /\ g.frame = e.frame /\ g.sound = e.sound /\ g.busy = e.busy
    <2>2. g = [e EXCEPT !.at = "body", !.left = 4 * n + 2, !.words = n]
      OBVIOUS
    <2> HIDE DEF e, g
    <2>3. PICK x \in Decoders, l \in Int : x = e /\ l = 4 * n + 2
      BY <1>3, <1>5
    <2>4. g = [x EXCEPT !.at = "body", !.left = l, !.words = n]
      BY <2>2, <2>3
    <2>5. /\ g \in Decoders /\ g.at = "body" /\ g.left = l /\ g.words = n
          /\ g.frame = x.frame /\ g.sound = x.sound /\ g.busy = x.busy
      BY <2>4 DEF Decoders
    <2> QED BY <2>3, <2>5
  <1> HIDE DEF e, g
  <1>7. g = Body(t.frame, n, 4 * n + 2, FALSE)
    <2>1. g = [at |-> g.at, left |-> g.left, frame |-> g.frame, sound |-> g.sound,
               words |-> g.words, busy |-> g.busy]
      BY <1>6, Fielded
    <2>2. g.sound = FALSE /\ g.busy = FALSE
      BY <1>3, <1>6 DEF Decoders
    <2> QED BY <2>1, <2>2, <1>3, <1>6 DEF Body
  <1> QED BY <1>4, <1>5, <1>7 DEF Garbles, Stays

LEMMA BodyTaken ==
  ASSUME LinkTypes, DecoderRests, NEW t, NEW b \in Int, NEW whole \in BOOLEAN, decoder.at = "body",
         Takes(t, b, whole), NEW left, left = decoder.left - b,
         NEW ok, ok = (decoder.sound /\ whole /\ t.frame = decoder.frame)
  PROVE  /\ left \in Int /\ ok \in BOOLEAN
         /\ LET r == Body(decoder.frame, decoder.words, left, ok)
            IN  /\ r \in Decoders /\ r.at = "body"
                /\ IF left <= 0 THEN Ends(r) ELSE Stays(r)
  <1> DEFINE d == Freed
             rest == [d EXCEPT !.left = d.left - b, !.sound = d.sound /\ whole /\ t.frame = d.frame]
  <1>1. /\ d \in Decoders /\ ~d.busy /\ d.at = "body" /\ d.left = decoder.left
        /\ d.frame = decoder.frame /\ d.sound = decoder.sound /\ d.words = decoder.words
    BY FreedDecoder
  <1>2. d.left \in Int /\ d.words \in Nat /\ d.frame \in Nat /\ d.busy \in BOOLEAN
    BY <1>1 DEF Decoders
  <1>3. left \in Int /\ ok \in BOOLEAN /\ left = d.left - b /\ ok = (d.sound /\ whole /\ t.frame = d.frame)
    BY <1>1, <1>2
  <1>4. IF rest.left <= 0 THEN Ends(rest) ELSE Stays(rest)
    BY <1>1 DEF Takes, Freed
  <1>5. rest = [d EXCEPT !.left = left, !.sound = ok]
    BY <1>3
  <1> HIDE DEF d, rest
  <1>6. PICK x \in Decoders, l \in Int, v \in BOOLEAN : x = d /\ l = left /\ v = ok
    BY <1>1, <1>3
  <1>7. rest = [x EXCEPT !.left = l, !.sound = v]
    BY <1>5, <1>6
  <1>8. /\ rest \in Decoders /\ rest.at = x.at /\ rest.left = l /\ rest.frame = x.frame
        /\ rest.words = x.words /\ rest.busy = x.busy /\ rest.sound = v
    BY <1>7 DEF Decoders
  <1>9. rest = Body(decoder.frame, decoder.words, left, ok)
    <2>1. rest = [at |-> rest.at, left |-> rest.left, frame |-> rest.frame, sound |-> rest.sound,
                  words |-> rest.words, busy |-> rest.busy]
      BY <1>8, Fielded
    <2>2. rest.busy = FALSE
      BY <1>1, <1>2, <1>6, <1>8
    <2> QED BY <2>1, <2>2, <1>1, <1>6, <1>8 DEF Body
  <1>10. rest.at = "body" /\ rest.left = left
    BY <1>1, <1>6, <1>8
  <1> QED BY <1>3, <1>4, <1>8, <1>9, <1>10

LEMMA TakenHappens ==
  ASSUME LinkTypes, DecoderRests, NEW t \in Tokens, NEW b \in Int, NEW whole \in BOOLEAN,
         Takes(t, b, whole)
  PROVE  Happens(t)
  <1>1. decoder \in Decoders /\ decoder.at \in {"hunt", "head", "body"} /\ Freed.at = decoder.at
    BY FreedDecoder DEF LinkTypes, Decoders
  <1>2. CASE decoder.at = "hunt"
    <2>1. Stays(IF whole /\ t.kind = "sync" THEN [Hunting EXCEPT !.at = "head"] ELSE Hunting)
      BY <1>2, HuntTaken
    <2>2. Idles
      BY <2>1 DEF Stays, Idles
    <2> QED BY <2>2 DEF Happens
  <1>3. CASE decoder.at = "head"
    <2>1. CASE whole /\ t.kind = "head"
      <3>1. Takes(t, b, TRUE)
        <4>1. whole = TRUE
          BY <2>1
        <4> QED BY <4>1
      <3>2. Opens(t)
        BY <3>1, <2>1, <1>3, HeadTaken
      <3> QED BY <3>2 DEF Happens
    <2>2. CASE ~(whole /\ t.kind = "head")
      <3>1. \/ Stays(Hunting)
            \/ \E n \in WrongCounts : InFrame([Freed EXCEPT !.sound = FALSE, !.frame = t.frame], n)
        BY <1>1, <1>3, <2>2 DEF Takes, Freed
      <3>2. Stays(Hunting) => Happens(t)
        BY DEF Stays, Happens, Idles
      <3>3. ASSUME NEW n \in WrongCounts, InFrame([Freed EXCEPT !.sound = FALSE, !.frame = t.frame], n)
            PROVE  Garbles(t)
        <4>1. n \in Nat
          BY UartAssumption
        <4> QED BY <4>1, <3>3, GarbledTaken
      <3> QED BY <3>1, <3>2, <3>3 DEF Happens
    <2> QED BY <2>1, <2>2
  <1>4. CASE decoder.at = "body"
    <2> DEFINE left == decoder.left - b
               ok == decoder.sound /\ whole /\ t.frame = decoder.frame
               r == Body(decoder.frame, decoder.words, left, ok)
    <2>1. left \in Int /\ ok \in BOOLEAN /\ r \in Decoders /\ r.at = "body"
          /\ IF left <= 0 THEN Ends(r) ELSE Stays(r)
      BY <1>4, BodyTaken
    <2>2. decoder.words \in Nat /\ (ok => decoder.sound /\ t.frame = decoder.frame)
      BY <1>1 DEF Decoders
    <2>3. r.frame = decoder.frame /\ r.words = decoder.words /\ r.sound = ok
      BY DEF Body
    <2> HIDE DEF left, ok
    <2>4. r = Body(decoder.frame, decoder.words, left, ok)
      OBVIOUS
    <2> HIDE DEF r
    <2>5. CASE Ends(r)
      BY <2>1, <2>2, <2>3, <2>5, <1>4, EndHappens
    <2>6. CASE Stays(r)
      <3>1. CASE ok
        <4>1. r = Body(decoder.frame, decoder.words, left, TRUE)
          BY <3>1, <2>1, <2>4
        <4>2. Continues(t)
          BY <4>1, <3>1, <2>1, <2>2, <2>6, <1>4 DEF Continues, Stays
        <4> QED BY <4>2 DEF Happens
      <3>2. CASE ~ok
        <4>1. r = Body(decoder.frame, decoder.words, left, FALSE)
          BY <3>2, <2>1, <2>4
        <4>2. Garbles(t)
          BY <4>1, <2>1, <2>2, <2>6 DEF Garbles, Stays
        <4> QED BY <4>2 DEF Happens
      <3> QED BY <3>1, <3>2
    <2> QED BY <2>1, <2>5, <2>6
  <1> QED BY <1>1, <1>2, <1>3, <1>4

LEMMA ArrivalHappens ==
  ASSUME LinkTypes, DecoderRests, Receive \/ Spoil
  PROVE  Arrives /\ Happens(Head(line)) /\ Head(line) \in Tokens
  <1> DEFINE t == Head(line)
  <1>1. Arrives /\ line # <<>>
    BY DEF Receive, Spoil, Arrives
  <1>2. t \in Tokens
    BY <1>1, TailShifts DEF LinkTypes
  <1>3. t.bytes \in Int /\ t.bytes - 1 \in Int
    BY <1>2 DEF Tokens
  <1>4. CASE Receive
    <2>1. Takes(t, IF decoder.busy THEN t.bytes - 1 ELSE t.bytes, ~decoder.busy)
      BY <1>4 DEF Receive
    <2>2. (IF decoder.busy THEN t.bytes - 1 ELSE t.bytes) \in Int /\ (~decoder.busy) \in BOOLEAN
      BY <1>3
    <2> HIDE DEF t
    <2>3. Happens(t)
      BY <2>1, <2>2, <1>2, TakenHappens
    <2> QED BY <2>3, <1>1, <1>2 DEF t
  <1>5. CASE Spoil
    <2>1. Takes(t, t.bytes, FALSE) \/ Takes(t, t.bytes - 1, FALSE) \/ Stays(Hunting)
      BY <1>5 DEF Spoil
    <2> HIDE DEF t
    <2>2. Stays(Hunting) => Happens(t)
      BY DEF Stays, Happens, Idles
    <2>3. Happens(t)
      BY <2>1, <2>2, <1>2, <1>3, TakenHappens
    <2> QED BY <2>3, <1>1, <1>2 DEF t
  <1> QED BY <1>4, <1>5

-----------------------------------------------------------------------------
(* The replies: those the host has taken, those in its buffer, and the one *)
(* being sent.                                                             *)
Pending(r) == IF r = NoReply THEN <<>> ELSE <<r.frame>>
Answers == got \o (inbox \o Pending(reply))

LEMMA PendingType ==
  ASSUME NEW r \in Replies
  PROVE  Pending(r) \in Seq(Nat) /\ r.frame \in Nat /\ r.left \in Nat
  <1>1. r.frame \in Nat /\ r.left \in Nat
    BY DEF Replies
  <1>2. <<>> \in Seq(Nat) /\ <<r.frame>> \in Seq(Nat)
    BY <1>1
  <1> QED BY <1>1, <1>2 DEF Pending

LEMMA AnswersType ==
  ASSUME LinkTypes
  PROVE  Answers \in Seq(Nat)
  <1>1. Pending(reply) \in Seq(Nat) /\ got \in Seq(Nat) /\ inbox \in Seq(Nat)
    BY PendingType DEF LinkTypes
  <1>2. inbox \o Pending(reply) \in Seq(Nat)
    BY <1>1, Joined
  <1> QED BY <1>1, <1>2, Joined DEF Answers

(* A reply that is completed as a token arrives is in the buffer.          *)
LEMMA ReplyAdvances ==
  ASSUME LinkTypes, Arrives
  PROVE  /\ Advanced \in Replies /\ (Advanced.left = 0 => Advanced = NoReply)
         /\ inbox' \in Seq(Nat)
         /\ inbox' \o Pending(Advanced) = inbox \o Pending(reply)
         /\ Advanced # NoReply => reply # NoReply /\ Advanced.frame = reply.frame
         /\ Advanced.left <= reply.left
  <1> DEFINE h == Head(line)
  <1>1. h \in Tokens /\ h.bytes \in Nat
    <2>1. h \in Tokens
      BY TailShifts DEF LinkTypes, Arrives
    <2> QED BY <2>1 DEF Tokens
  <1>2. reply \in Replies /\ reply.frame \in Nat /\ reply.left \in Nat /\ inbox \in Seq(Nat)
        /\ (reply.left = 0 => reply = NoReply)
    BY DEF LinkTypes, Replies
  <1>3. inbox' = IF reply.left \in 1..h.bytes THEN Append(inbox, reply.frame) ELSE inbox
    BY DEF Arrives
  <1>4. Advanced = IF reply.left <= h.bytes THEN NoReply ELSE [reply EXCEPT !.left = @ - h.bytes]
    BY DEF Advanced
  <1>5. NoReply \in Replies /\ NoReply.left = 0 /\ NoReply.frame = 0
    BY DEF NoReply, Replies
  <1> HIDE DEF h
  <1>6. CASE reply = NoReply
    <2>1. Advanced = NoReply /\ inbox' = inbox
      BY <1>1, <1>3, <1>4, <1>5, <1>6
    <2> QED BY <2>1, <1>2, <1>5, <1>6
  <1>7. CASE reply # NoReply /\ reply.left <= h.bytes
    <2>1. Advanced = NoReply /\ inbox' = Append(inbox, reply.frame)
      BY <1>1, <1>2, <1>3, <1>4, <1>7
    <2>2. Append(inbox, reply.frame) \in Seq(Nat)
      BY <1>2
    <2>3. Append(inbox, reply.frame) \o <<>> = inbox \o <<reply.frame>>
      <3>1. Append(inbox, reply.frame) \o <<>> = Append(inbox, reply.frame)
        BY <2>2, ConcatEmptySeq
      <3>2. Append(inbox, reply.frame) = inbox \o <<reply.frame>>
        BY <1>2
      <3> QED BY <3>1, <3>2
    <2>4. Pending(Advanced) = <<>> /\ Pending(reply) = <<reply.frame>>
      BY <2>1, <1>7 DEF Pending
    <2>5. Advanced.left <= reply.left
      BY <2>1, <1>2, <1>5
    <2> QED BY <2>1, <2>2, <2>3, <2>4, <2>5, <1>5
  <1>8. CASE reply # NoReply /\ reply.left > h.bytes
    <2>1. Advanced = [reply EXCEPT !.left = reply.left - h.bytes] /\ inbox' = inbox
      BY <1>1, <1>2, <1>3, <1>4, <1>8
    <2>2. PICK l \in Nat : l = reply.left - h.bytes /\ l # 0
      BY <1>1, <1>2, <1>8
    <2>3. Advanced \in Replies /\ Advanced.left = l /\ Advanced.frame = reply.frame
      BY <2>1, <2>2, <1>2 DEF Replies
    <2>4. Advanced # NoReply
      BY <2>2, <2>3, <1>5
    <2>5. Pending(Advanced) = Pending(reply)
      BY <2>3, <2>4, <1>8 DEF Pending
    <2>6. l <= reply.left
      BY <2>2, <1>1, <1>2
    <2> QED BY <2>1, <2>2, <2>3, <2>4, <2>5, <2>6, <1>2, <1>8
  <1>9. reply.left <= h.bytes \/ reply.left > h.bytes
    BY <1>1, <1>2
  <1> QED BY <1>6, <1>7, <1>8, <1>9

-----------------------------------------------------------------------------
(* The typing of the link is inductive.                                    *)
LEMMA HappensTyped ==
  ASSUME LinkInv, Arrives, NEW t \in Tokens, t = line[1], Happens(t)
  PROVE  /\ decoder' \in Decoders /\ effected' \in Seq(Nat)
         /\ reply' \in Replies /\ (reply'.left = 0 => reply' = NoReply)
         /\ DecoderRests'
         /\ \A i \in 1..Len(effected') : effected'[i] <= Len(sent)
         /\ decoder'.frame <= Len(sent)
  <1>1. /\ decoder \in Decoders /\ decoder.frame \in Nat /\ decoder.words \in Nat
        /\ effected \in Seq(Nat) /\ sent \in Seq(Nat) /\ Len(sent) \in Nat
        /\ line \in Seq(Tokens) /\ line # <<>>
    BY DEF LinkInv, LinkTypes, Decoders, Arrives
  <1>2. t.frame \in Nat /\ t.words \in Nat /\ t.frame <= Len(sent) /\ decoder.frame <= Len(sent)
        /\ \A i \in 1..Len(effected) : effected[i] <= Len(sent)
    <2>1. 1 \in 1..Len(line)
      BY <1>1
    <2> QED BY <2>1 DEF LinkInv, NotAhead, Tokens
  <1>3. Advanced \in Replies /\ (Advanced.left = 0 => Advanced = NoReply)
    BY ReplyAdvances DEF LinkInv
  <1>4. CASE Idles
    <2>1. decoder' \in Decoders /\ decoder'.frame = 0 /\ decoder'.at # "body" /\ decoder'.left = 0
          /\ decoder'.sound /\ decoder'.words = 0 /\ ~decoder'.busy
      <3>1. CASE decoder' = Hunting
        BY <3>1 DEF Hunting, Decoders
      <3>2. CASE decoder' = [Hunting EXCEPT !.at = "head"]
        <4> DEFINE x == [Hunting EXCEPT !.at = "head"]
        <4>1. /\ x \in Decoders /\ x.at = "head" /\ x.left = 0 /\ x.frame = 0 /\ x.sound = TRUE
              /\ x.words = 0 /\ x.busy = FALSE
          BY HuntingDecoders
        <4> HIDE DEF x
        <4>2. decoder' = x
          BY <3>2 DEF x
        <4> QED BY <4>1, <4>2
      <3> QED BY <3>1, <3>2, <1>4 DEF Idles
    <2> QED BY <2>1, <1>1, <1>2, <1>3, <1>4 DEF Idles, DecoderRests
  <1>5. ASSUME NEW f \in {decoder.frame, t.frame}, NEW n \in Nat, NEW left \in Int, NEW b \in BOOLEAN,
               decoder' = Body(f, n, left, b), reply' = Advanced, effected' = effected
        PROVE  /\ decoder' \in Decoders /\ effected' \in Seq(Nat)
               /\ reply' \in Replies /\ (reply'.left = 0 => reply' = NoReply)
               /\ DecoderRests'
               /\ \A i \in 1..Len(effected') : effected'[i] <= Len(sent)
               /\ decoder'.frame <= Len(sent)
    <2>1. f \in Nat /\ f <= Len(sent)
      BY <1>1, <1>2
    <2>2. decoder' \in Decoders /\ decoder'.frame = f /\ decoder'.at = "body" /\ ~decoder'.busy
      BY <2>1, <1>5 DEF Body, Decoders
    <2> QED BY <2>1, <2>2, <1>1, <1>2, <1>3, <1>5 DEF DecoderRests
  <1>6. CASE Opens(t)
    <2>1. 4 * t.words + 2 \in Int
      BY <1>2
    <2> QED BY <2>1, <1>2, <1>5, <1>6 DEF Opens
  <1>7. CASE Garbles(t)
    BY <1>5, <1>7 DEF Garbles
  <1>8. CASE Continues(t)
    BY <1>1, <1>5, <1>8 DEF Continues
  <1>9. CASE Effects(t)
    <2>1. /\ decoder' \in Decoders /\ decoder'.frame = 0 /\ decoder'.at = "hunt" /\ decoder'.left = 0
          /\ decoder'.sound /\ decoder'.words = 0
          /\ decoder'.busy => Len(line) > 1
      <3>1. PICK b \in BOOLEAN : b = (decoder.words >= SlowWords /\ Len(line) > 1)
        OBVIOUS
      <3>2. decoder' = [Hunting EXCEPT !.busy = b]
        BY <3>1, <1>9 DEF Effects
      <3>3. /\ decoder' \in Decoders /\ decoder'.frame = 0 /\ decoder'.at = "hunt" /\ decoder'.left = 0
            /\ decoder'.sound /\ decoder'.words = 0 /\ decoder'.busy = b
        <4> DEFINE x == [Hunting EXCEPT !.busy = b]
        <4>1. /\ x \in Decoders /\ x.at = "hunt" /\ x.left = 0 /\ x.frame = 0 /\ x.sound = TRUE
              /\ x.words = 0 /\ x.busy = b
          BY HuntingDecoders
        <4> HIDE DEF x
        <4>2. decoder' = x
          BY <3>2 DEF x
        <4> QED BY <4>1, <4>2
      <3> QED BY <3>1, <3>3
    <2>2. Len(line) > 1 => line' # <<>>
      <3>1. line' = Tail(line)
        BY DEF Arrives
      <3>2. Len(line') = Len(line) - 1 /\ Len(line) \in Nat
        BY <3>1, <1>1, TailShifts
      <3>3. line' = <<>> => Len(line') = 0
        OBVIOUS
      <3> QED BY <3>2, <3>3
    <2>3. effected' = Append(effected, decoder.frame)
      BY <1>9 DEF Effects
    <2>4. /\ effected' \in Seq(Nat) /\ Len(effected') = Len(effected) + 1
          /\ \A i \in 1..Len(effected) : effected'[i] = effected[i]
          /\ effected'[Len(effected) + 1] = decoder.frame
      BY <2>3, <1>1
    <2>5. \A i \in 1..Len(effected') : effected'[i] <= Len(sent)
      <3> SUFFICES ASSUME NEW i \in 1..Len(effected') PROVE effected'[i] <= Len(sent)
        OBVIOUS
      <3>1. i \in 1..Len(effected) \/ i = Len(effected) + 1
        BY <2>4, <1>1
      <3> QED BY <3>1, <2>4, <1>2
    <2>6. reply' \in Replies /\ (reply'.left = 0 => reply' = NoReply)
      <3> DEFINE r == [frame |-> decoder.frame, left |-> ReplyBytes(decoder.words)]
      <3>1. r \in Replies /\ r.left # 0
        BY <1>1 DEF Replies, ReplyBytes
      <3>2. reply' = IF Advanced = NoReply THEN r ELSE Advanced
        BY <1>9 DEF Effects
      <3> HIDE DEF r
      <3> QED BY <3>1, <3>2, <1>3
    <2> QED BY <2>1, <2>2, <2>4, <2>5, <2>6, <1>1 DEF DecoderRests
  <1> QED BY <1>4, <1>6, <1>7, <1>8, <1>9 DEF Happens

LEMMA ArrivalTyped ==
  ASSUME LinkInv, Receive \/ Spoil
  PROVE  LinkInv'
  <1>1. Arrives /\ Happens(Head(line)) /\ Head(line) \in Tokens
    BY ArrivalHappens DEF LinkInv
  <1>2. line \in Seq(Tokens) /\ line # <<>> /\ line' = Tail(line) /\ UNCHANGED host
    BY <1>1 DEF LinkInv, LinkTypes, Arrives
  <1>3. /\ line' \in Seq(Tokens) /\ Head(line) = line[1]
        /\ \A i \in 1..Len(line') : line'[i] = line[i + 1] /\ i + 1 \in 1..Len(line)
    BY <1>2, TailShifts
  <1>4. /\ decoder' \in Decoders /\ effected' \in Seq(Nat)
        /\ reply' \in Replies /\ (reply'.left = 0 => reply' = NoReply)
        /\ DecoderRests'
        /\ \A i \in 1..Len(effected') : effected'[i] <= Len(sent)
        /\ decoder'.frame <= Len(sent)
    BY <1>1, <1>3, HappensTyped
  <1>5. inbox' \in Seq(Nat)
    BY <1>1, ReplyAdvances DEF LinkInv
  <1>6. LinkTypes'
    BY <1>2, <1>3, <1>4, <1>5 DEF LinkInv, LinkTypes, host
  <1>7. HostKnows'
    BY <1>2 DEF LinkInv, HostKnows, First, host
  <1>8. NotAhead'
    BY <1>2, <1>3, <1>4 DEF LinkInv, NotAhead, host
  <1> QED BY <1>4, <1>6, <1>7, <1>8 DEF LinkInv

LEMMA ExchangeTyped ==
  ASSUME LinkInv, NEW b \in Batches, Exchange(b)
  PROVE  LinkInv'
  <1> DEFINE n == Len(b)
             z == BatchTokens(Len(sent), b)
             e == [i \in 1..n |-> exchanges + 1]
  <1>1. /\ line \in Seq(Tokens) /\ sent \in Seq(Nat) /\ effected \in Seq(Nat) /\ Len(sent) \in Nat
        /\ exchanges \in Nat
    BY DEF LinkInv, LinkTypes
  <1>2. b \in Seq(Nat) /\ b # <<>> /\ n \in Nat /\ n # 0
    BY UartAssumption
  <1>3. z \in Seq(Tokens) /\ FramesWithin(z, Len(sent), Len(sent) + n) /\ PadLeads(z)
    BY <1>1, BatchChained DEF Chained
  <1>4. e \in Seq(Nat) /\ Len(e) = n
    BY <1>1, <1>2
  <1> HIDE DEF n, z, e
  <1>5. sent' = sent \o e /\ line' = line \o z /\ mine' = [i \in 1..n |-> Len(sent) + i]
        /\ UNCHANGED <<decoder, effected>>
    BY DEF Exchange, n, z, e
  <1>6. sent' \in Seq(Nat) /\ Len(sent') = Len(sent) + n
    BY <1>1, <1>4, <1>5, Joined
  <1>7. mine' \in Seq(Nat) /\ Len(mine') = n
    BY <1>1, <1>2, <1>5
  <1>8. /\ line' \in Seq(Tokens) /\ Len(line') = Len(line) + Len(z) /\ Len(line) \in Nat /\ Len(z) \in Nat
        /\ \A i \in 1..Len(line) : line'[i] = line[i]
        /\ \A i \in 1..Len(z) : line'[Len(line) + i] = z[i]
    <2>1. /\ line \o z \in Seq(Tokens) /\ Len(line \o z) = Len(line) + Len(z)
          /\ Len(line) \in Nat /\ Len(z) \in Nat
          /\ \A i \in 1..Len(line) : (line \o z)[i] = line[i]
          /\ \A i \in 1..Len(z) : (line \o z)[Len(line) + i] = z[i]
      <3>1. line \in Seq(Tokens) /\ z \in Seq(Tokens)
        BY <1>1, <1>3
      <3> QED BY <3>1, Joined
    <2> QED BY <2>1, <1>5
  <1>9. LinkTypes'
    <2>1. reply' \in Replies /\ (reply'.left = 0 => reply' = NoReply)
      BY DEF Exchange, LinkInv, LinkTypes, Replies, NoReply
    <2>2. inbox' \in Seq(Nat) /\ got' \in Seq(Nat) /\ exchanges' \in Nat /\ waiting' \in BOOLEAN
          /\ quietly' \in BOOLEAN
      BY <1>1 DEF Exchange, Emptied, Quiet
    <2>3. decoder' \in Decoders /\ effected' \in Seq(Nat)
      BY <1>5 DEF LinkInv, LinkTypes
    <2> QED BY <2>1, <2>2, <2>3, <1>6, <1>7, <1>8 DEF LinkTypes
  <1>10. DecoderRests'
    <2>1. line # <<>> => line' # <<>>
      BY <1>1, <1>8
    <2> QED BY <2>1, <1>5 DEF LinkInv, DecoderRests
  <1>11. HostKnows'
    <2>1. Len(mine') <= Len(sent') /\ First' = Len(sent)
      BY <1>1, <1>2, <1>6, <1>7 DEF First
    <2>2. got' = <<>> /\ outcome' = "none" /\ Len(got') < Len(mine')
      BY <1>2, <1>7 DEF Exchange
    <2> QED BY <2>1, <2>2, <1>5, <1>7 DEF HostKnows
  <1>12. NotAhead'
    <2>1. \A i \in 1..Len(line') : line'[i].frame <= Len(sent')
      <3> SUFFICES ASSUME NEW i \in 1..Len(line') PROVE line'[i].frame <= Len(sent')
        OBVIOUS
      <3>1. CASE i <= Len(line)
        <4>1. i \in 1..Len(line)
          BY <3>1, <1>8
        <4>2. line[i].frame <= Len(sent) /\ line[i].frame \in Nat
          <5>1. line[i] \in Tokens
            BY <4>1, <1>1
          <5>2. line[i].frame \in Nat
            BY <5>1 DEF Tokens
          <5> QED BY <4>1, <5>2 DEF LinkInv, NotAhead
        <4>3. line'[i] = line[i]
          BY <4>1, <1>8
        <4> QED BY <4>2, <4>3, <1>1, <1>2, <1>6, SMTT(30)
      <3>2. CASE i > Len(line)
        <4>1. PICK k \in 1..Len(z) : i = Len(line) + k
          <5>1. i - Len(line) \in 1..Len(z) /\ i = Len(line) + (i - Len(line))
            BY <3>2, <1>8
          <5> QED BY <5>1
        <4>2. line'[i] = z[k]
          BY <4>1, <1>8
        <4>3. z[k].frame <= Len(sent) + n
          <5>1. CASE z[k].kind = "pad"
            <6>1. z[k].frame = 0
              BY <5>1, <1>3 DEF PadLeads
            <6> QED BY <6>1, <1>1, <1>2
          <5>2. CASE z[k].kind # "pad"
            BY <5>2, <1>3 DEF FramesWithin
          <5> QED BY <5>1, <5>2
        <4> QED BY <4>2, <4>3, <1>6
      <3> QED BY <3>1, <3>2, <1>8
    <2>2. \A i \in 1..Len(effected') : effected'[i] <= Len(sent')
      <3>1. \A i \in 1..Len(effected) : effected[i] \in Nat /\ effected[i] <= Len(sent)
        BY <1>1 DEF LinkInv, NotAhead
      <3> QED BY <3>1, <1>1, <1>2, <1>5, <1>6, SMTT(30)
    <2>3. decoder'.frame <= Len(sent')
      <3>1. decoder.frame \in Nat /\ decoder.frame <= Len(sent)
        BY DEF LinkInv, LinkTypes, NotAhead, Decoders
      <3> QED BY <3>1, <1>1, <1>2, <1>5, <1>6
    <2> QED BY <2>1, <2>2, <2>3 DEF NotAhead
  <1> QED BY <1>9, <1>10, <1>11, <1>12 DEF LinkInv

LEMMA CollectTyped ==
  ASSUME LinkInv, Collect
  PROVE  LinkInv' /\ Len(got') = Len(got) + 1
  <1>1. inbox \in Seq(Nat) /\ got \in Seq(Nat) /\ inbox # <<>> /\ Len(got) < Len(mine) /\ Len(got) \in Nat
        /\ Len(mine) \in Nat
    BY SMTT(30) DEF LinkInv, LinkTypes, HostKnows, Collect
  <1>2. Head(inbox) \in Nat /\ inbox' \in Seq(Nat)
    BY <1>1, TailShifts DEF Collect
  <1>3. got' = Append(got, Head(inbox))
    BY DEF Collect
  <1>4. /\ got' \in Seq(Nat) /\ Len(got') = Len(got) + 1
        /\ \A i \in 1..Len(got') : got'[i] \in Range(got')
    <2>1. got' \in Seq(Nat) /\ Len(got') = Len(got) + 1
      BY <1>1, <1>2, <1>3
    <2>2. \A i \in 1..Len(got') : got'[i] \in Range(got')
      BY <2>1 DEF Range
    <2> QED BY <2>1, <2>2
  <1>5. LinkTypes'
    <2>1. waiting' \in BOOLEAN
      BY DEF Collect, Ended, LinkInv, LinkTypes
    <2> QED BY <2>1, <1>2, <1>4 DEF LinkInv, LinkTypes, Collect, bridge
  <1>6. HostKnows'
    <2>1. mine' = mine /\ sent' = sent
      BY DEF Collect
    <2>2. CASE Len(got') < Len(mine)
      <3>1. waiting' = waiting /\ outcome' = outcome
        BY <2>2 DEF Collect
      <3>2. outcome # "ok"
        BY <1>1 DEF LinkInv, HostKnows
      <3> QED BY <3>1, <3>2, <2>1, <2>2 DEF LinkInv, HostKnows, First
    <2>3. CASE ~(Len(got') < Len(mine))
      <3>1. Ended(IF Unreadable \in Range(got') THEN "raised" ELSE "ok")
        BY <2>3 DEF Collect
      <3>2. waiting' = FALSE /\ (outcome' = "ok" => Unreadable \notin Range(got'))
        BY <3>1 DEF Ended
      <3>3. Len(got') = Len(mine)
        BY <2>3, <1>1, <1>4
      <3> QED BY <3>2, <3>3, <2>1, <1>4 DEF LinkInv, HostKnows, First
    <2> QED BY <2>2, <2>3
  <1>7. DecoderRests' /\ NotAhead'
    BY DEF LinkInv, DecoderRests, NotAhead, Collect, bridge
  <1> QED BY <1>4, <1>5, <1>6, <1>7 DEF LinkInv

LEMMA OthersTyped ==
  ASSUME LinkInv, SendReply \/ SpoilReply \/ Abort \/ TimeOut \/ UNCHANGED uartVars
  PROVE  LinkInv'
  <1>1. NoReply \in Replies /\ NoReply.left = 0
    BY DEF NoReply, Replies
  <1>2. reply.frame \in Nat /\ inbox \in Seq(Nat)
    BY DEF LinkInv, LinkTypes, Replies
  <1>3. Append(inbox, reply.frame) \in Seq(Nat) /\ Append(inbox, Unreadable) \in Seq(Nat)
    BY <1>2 DEF Unreadable
  <1>4. CASE SendReply
    BY <1>1, <1>3, <1>4 DEF SendReply, LinkInv, LinkTypes, DecoderRests, HostKnows, NotAhead, First, host
  <1>5. CASE SpoilReply
    BY <1>1, <1>2, <1>3, <1>5
       DEF SpoilReply, LinkInv, LinkTypes, DecoderRests, HostKnows, NotAhead, First, host
  <1>6. CASE Abort
    BY <1>6 DEF Abort, Ended, LinkInv, LinkTypes, DecoderRests, HostKnows, NotAhead, First, bridge
  <1>7. CASE TimeOut
    BY <1>7 DEF TimeOut, Ended, LinkInv, LinkTypes, DecoderRests, HostKnows, NotAhead, First, bridge
  <1>8. CASE UNCHANGED uartVars
    BY <1>8 DEF uartVars, LinkInv, LinkTypes, DecoderRests, HostKnows, NotAhead, First, bridge, host
  <1> QED BY <1>4, <1>5, <1>6, <1>7, <1>8

LEMMA InitTyped ==
  ASSUME UartInit
  PROVE  LinkInv
  <1>1. \A S : <<>> \in Seq(S) /\ Len(<<>>) = 0
    OBVIOUS
  <1>2. decoder \in Decoders /\ decoder.frame = 0 /\ decoder.left = 0 /\ decoder.sound
        /\ decoder.words = 0 /\ ~decoder.busy
    BY DEF UartInit, Hunting, Decoders
  <1>3. reply \in Replies
    BY DEF UartInit, NoReply, Replies
  <1>4. LinkTypes
    BY <1>1, <1>2, <1>3 DEF UartInit, LinkTypes
  <1>5. HostKnows
    <2>1. <<>> = [i \in 1..0 |-> First + i]
      OBVIOUS
    <2> QED BY <2>1, <1>1 DEF UartInit, HostKnows
  <1>6. DecoderRests /\ NotAhead
    BY <1>1, <1>2 DEF UartInit, DecoderRests, NotAhead
  <1> QED BY <1>4, <1>5, <1>6 DEF LinkInv

-----------------------------------------------------------------------------
(* The order of things, in an exchange that began on a quiet link: frames  *)
(* reach the bridge, take effect and are answered in the order of their    *)
(* numbers, and those of earlier exchanges have none of it.                *)
HeadsAhead(s, e) ==
  \A i \in 1..Len(s), j \in 1..Len(e) : s[i].kind = "head" => e[j] < s[i].frame

FrameInHand ==
  decoder.at = "body" /\ decoder.sound =>
    /\ First < decoder.frame
    /\ \A j \in 1..Len(effected) : effected[j] < decoder.frame
    /\ \A i \in 1..Len(line) : line[i].kind = "head" => decoder.frame < line[i].frame

Answered(a, e, lo) ==
  /\ \A i \in 1..Len(a) : a[i] # Unreadable => lo < a[i] /\ \E j \in 1..Len(e) : e[j] = a[i]
  /\ \A i, j \in 1..Len(a) : i < j /\ a[i] # Unreadable /\ a[j] # Unreadable => a[i] < a[j]

Ordered ==
  /\ Chained(line, First, Len(sent))
  /\ Above(effected, First) /\ HeadsAhead(line, effected)
  /\ FrameInHand
  /\ Answered(Answers, effected, First)
  /\ reply # NoReply => reply.frame # Unreadable

OrderInv == LinkInv /\ (quietly => Ordered)

LEMMA Appended ==
  ASSUME NEW S, NEW s \in Seq(S), NEW x \in S
  PROVE  /\ Append(s, x) \in Seq(S) /\ Len(Append(s, x)) = Len(s) + 1 /\ Len(s) \in Nat
         /\ \A i \in 1..Len(s) : Append(s, x)[i] = s[i]
         /\ Append(s, x)[Len(s) + 1] = x
         /\ Append(s, x) = s \o <<x>>
         /\ \A i \in 1..Len(Append(s, x)) : i \in 1..Len(s) \/ i = Len(s) + 1
  OBVIOUS

LEMMA AnsweredMore ==
  ASSUME NEW a \in Seq(Nat), NEW e \in Seq(Nat), NEW lo \in Nat, NEW f \in Nat, lo < f,
         \A j \in 1..Len(e) : e[j] < f, Answered(a, e, lo)
  PROVE  Answered(a, Append(e, f), lo) /\ Answered(Append(a, f), Append(e, f), lo)
  <1> DEFINE b == Append(a, f)
             g == Append(e, f)
  <1>1. /\ Len(b) = Len(a) + 1 /\ Len(a) \in Nat /\ \A i \in 1..Len(a) : b[i] = a[i]
        /\ b[Len(a) + 1] = f
        /\ \A i \in 1..Len(b) : i \in 1..Len(a) \/ i = Len(a) + 1
    BY Appended
  <1>2. /\ Len(g) = Len(e) + 1 /\ Len(e) \in Nat /\ \A i \in 1..Len(e) : g[i] = e[i]
        /\ g[Len(e) + 1] = f
    BY Appended
  <1> HIDE DEF b, g
  <1>3. \A i \in 1..Len(a) : a[i] # Unreadable =>
          /\ lo < a[i] /\ a[i] < f /\ a[i] \in Nat /\ \E j \in 1..Len(g) : g[j] = a[i]
    <2> SUFFICES ASSUME NEW i \in 1..Len(a), a[i] # Unreadable
                 PROVE  lo < a[i] /\ a[i] < f /\ a[i] \in Nat /\ \E j \in 1..Len(g) : g[j] = a[i]
      OBVIOUS
    <2>1. lo < a[i] /\ a[i] \in Nat
      BY DEF Answered
    <2>2. PICK j \in 1..Len(e) : e[j] = a[i]
      BY DEF Answered
    <2>3. j \in 1..Len(g) /\ g[j] = a[i]
      BY <2>2, <1>2
    <2>4. a[i] < f
      BY <2>2
    <2> QED BY <2>1, <2>3, <2>4
  <1>4. Answered(a, g, lo)
    BY <1>3 DEF Answered
  <1>5. Answered(b, g, lo)
    <2>1. ASSUME NEW i \in 1..Len(b), b[i] # Unreadable
          PROVE  lo < b[i] /\ \E j \in 1..Len(g) : g[j] = b[i]
      <3>1. CASE i \in 1..Len(a)
        BY <3>1, <2>1, <1>1, <1>3
      <3>2. CASE i = Len(a) + 1
        <4>1. Len(e) + 1 \in 1..Len(g) /\ g[Len(e) + 1] = b[i]
          BY <3>2, <1>1, <1>2
        <4> QED BY <4>1, <3>2, <1>1
      <3> QED BY <3>1, <3>2, <1>1
    <2>2. ASSUME NEW i \in 1..Len(b), NEW j \in 1..Len(b), i < j, b[i] # Unreadable, b[j] # Unreadable
          PROVE  b[i] < b[j]
      <3>1. i \in 1..Len(a)
        BY <2>2, <1>1
      <3>2. CASE j \in 1..Len(a)
        BY <3>1, <3>2, <2>2, <1>1 DEF Answered
      <3>3. CASE j = Len(a) + 1
        BY <3>1, <3>3, <2>2, <1>1, <1>3
      <3> QED BY <3>2, <3>3, <1>1
    <2> QED BY <2>1, <2>2 DEF Answered
  <1> QED BY <1>4, <1>5 DEF b, g

LEMMA AnsweredLess ==
  ASSUME NEW a \in Seq(Nat), NEW f \in Nat, NEW e, NEW lo, Answered(Append(a, f), e, lo)
  PROVE  Answered(a, e, lo) /\ Answered(Append(a, Unreadable), e, lo)
  <1> DEFINE b == Append(a, f)
             c == Append(a, Unreadable)
  <1>1. Unreadable \in Nat
    BY DEF Unreadable
  <1>2. /\ Len(b) = Len(a) + 1 /\ Len(a) \in Nat /\ \A i \in 1..Len(a) : b[i] = a[i]
    BY Appended
  <1>3. /\ Len(c) = Len(a) + 1 /\ \A i \in 1..Len(a) : c[i] = a[i]
        /\ c[Len(a) + 1] = Unreadable
        /\ \A i \in 1..Len(c) : i \in 1..Len(a) \/ i = Len(a) + 1
    BY <1>1, Appended
  <1> HIDE DEF b, c
  <1>4. Answered(b, e, lo)
    BY DEF b
  <1>5. \A i \in 1..Len(a) : i \in 1..Len(b)
    BY <1>2
  <1>6. /\ \A i \in 1..Len(a) : a[i] # Unreadable => lo < a[i] /\ \E j \in 1..Len(e) : e[j] = a[i]
        /\ \A i, j \in 1..Len(a) : i < j /\ a[i] # Unreadable /\ a[j] # Unreadable => a[i] < a[j]
    BY <1>2, <1>4, <1>5 DEF Answered
  <1>7. Answered(a, e, lo)
    BY <1>6 DEF Answered
  <1>8. \A i \in 1..Len(c) : c[i] # Unreadable => i \in 1..Len(a) /\ c[i] = a[i]
    BY <1>3
  <1>9. Answered(c, e, lo)
    BY <1>6, <1>8 DEF Answered
  <1> QED BY <1>7, <1>9 DEF c

LEMMA AnswersGrow ==
  ASSUME LinkInv, Arrives, NEW t, Happens(t)
  PROVE  /\ ~Effects(t) => Answers' = Answers /\ effected' = effected
         /\ reply' = Advanced => Answers' = Answers
         /\ Effects(t) => \/ Answers' = Answers
                          \/ Answers' = Append(Answers, decoder.frame)
         /\ Effects(t) /\ Advanced = NoReply =>
              /\ Answers' = Append(Answers, decoder.frame)
              /\ reply' = [frame |-> decoder.frame, left |-> ReplyBytes(decoder.words)]
  <1> DEFINE x == inbox \o Pending(reply)
             f == decoder.frame
  <1>1. /\ got \in Seq(Nat) /\ inbox \in Seq(Nat) /\ Pending(reply) \in Seq(Nat) /\ f \in Nat
        /\ got' = got
    BY PendingType DEF LinkInv, LinkTypes, Decoders, Arrives, host
  <1>2. inbox' \o Pending(Advanced) = x /\ inbox' \in Seq(Nat)
    BY ReplyAdvances DEF LinkInv
  <1>3. x \in Seq(Nat) /\ got \o x \in Seq(Nat)
    <2>1. x \in Seq(Nat)
      BY <1>1, Joined
    <2> QED BY <2>1, <1>1, Joined
  <1> HIDE DEF x, f
  <1>4. Answers = got \o x
    BY DEF Answers, x
  <1>5. reply' = Advanced => Answers' = Answers
    BY <1>1, <1>2, <1>4 DEF Answers
  <1>6. CASE ~Effects(t)
    <2>1. reply' = Advanced /\ effected' = effected
      BY <1>6 DEF Happens, Idles, Opens, Garbles, Continues
    <2> QED BY <2>1, <1>5, <1>6
  <1>7. CASE Effects(t) /\ Advanced = NoReply
    <2> DEFINE r == [frame |-> f, left |-> ReplyBytes(decoder.words)]
    <2>1. reply' = r
      BY <1>7 DEF Effects, f
    <2>2. r # NoReply /\ r.frame = f
      <3>1. r.left # 0 /\ NoReply.left = 0
        BY DEF ReplyBytes, NoReply
      <3> QED BY <3>1
    <2> HIDE DEF r
    <2>3. Pending(reply') = <<f>>
      BY <2>1, <2>2 DEF Pending
    <2>4. inbox' = x
      <3>1. Pending(Advanced) = <<>>
        BY <1>7 DEF Pending
      <3> QED BY <3>1, <1>2, ConcatEmptySeq
    <2>5. Answers' = got \o (x \o <<f>>)
      BY <2>3, <2>4, <1>1 DEF Answers
    <2>6. <<f>> \in Seq(Nat)
      BY <1>1
    <2>7. got \o (x \o <<f>>) = (got \o x) \o <<f>>
      BY <2>6, <1>1, <1>3, ConcatAssociative
    <2>8. Append(got \o x, f) = (got \o x) \o <<f>>
      BY <1>1, <1>3, Appended
    <2> QED BY <2>1, <2>5, <2>7, <2>8, <1>4, <1>5, <1>7 DEF r, f
  <1>8. CASE Effects(t) /\ Advanced # NoReply
    <2>1. reply' = Advanced
      BY <1>8 DEF Effects
    <2> QED BY <2>1, <1>5, <1>8
  <1> QED BY <1>5, <1>6, <1>7, <1>8

LEMMA FirstType ==
  ASSUME LinkInv
  PROVE  First \in Nat /\ Len(mine) \in Nat /\ Len(sent) \in Nat /\ First + Len(mine) = Len(sent)
  BY DEF LinkInv, LinkTypes, HostKnows, First

LEMMA AboveMore ==
  ASSUME NEW e \in Seq(Nat), NEW lo, Above(e, lo), NEW f \in Nat, \A j \in 1..Len(e) : e[j] < f
  PROVE  Above(Append(e, f), lo)
  <1> DEFINE g == Append(e, f)
  <1>1. /\ Len(e) \in Nat /\ \A i \in 1..Len(e) : g[i] = e[i]
        /\ g[Len(e) + 1] = f
        /\ \A i \in 1..Len(g) : i \in 1..Len(e) \/ i = Len(e) + 1
    BY Appended
  <1> HIDE DEF g
  <1>2. ASSUME NEW i \in 1..Len(g), NEW j \in 1..Len(g), i < j, g[i] > lo \/ g[j] > lo
        PROVE  g[i] < g[j]
    <2>1. i \in 1..Len(e) /\ g[i] = e[i]
      BY <1>1, <1>2
    <2>2. CASE j \in 1..Len(e)
      BY <2>1, <2>2, <1>1, <1>2 DEF Above
    <2>3. CASE j = Len(e) + 1
      BY <2>1, <2>3, <1>1
    <2> QED BY <2>2, <2>3, <1>1
  <1>3. Above(g, lo)
    BY <1>2 DEF Above
  <1> QED BY <1>3 DEF g

LEMMA ArrivalOrdered ==
  ASSUME LinkInv, Ordered, Receive \/ Spoil
  PROVE  Ordered'
  <1> DEFINE t == Head(line)
             f == decoder.frame
  <1>1. Arrives /\ Happens(t) /\ t \in Tokens
    BY ArrivalHappens DEF LinkInv
  <1>2. line \in Seq(Tokens) /\ line # <<>> /\ line' = Tail(line) /\ First' = First /\ sent' = sent
    BY <1>1 DEF LinkInv, LinkTypes, Arrives, host, First
  <1>3. /\ t = line[1] /\ Len(line) \in Nat \ {0} /\ 1 \in 1..Len(line)
        /\ \A i \in 1..Len(line') : line'[i] = line[i + 1] /\ i + 1 \in 1..Len(line) /\ 1 < i + 1
    BY <1>2, TailShifts
  <1>4. effected \in Seq(Nat) /\ f \in Nat /\ First \in Nat /\ Answers \in Seq(Nat)
    BY FirstType, AnswersType DEF LinkInv, LinkTypes, Decoders
  <1> HIDE DEF t, f
  <1>5. Chained(line', First', Len(sent'))
    BY <1>2, TailChained DEF Ordered
  <1>6. HeadsAhead(line', effected)
    BY <1>3 DEF Ordered, HeadsAhead
  <1>7. CASE ~Effects(t)
    <2>1. effected' = effected /\ Answers' = Answers
      BY <1>1, <1>7, AnswersGrow
    <2>2. FrameInHand'
      <3>1. CASE Idles
        <4>1. decoder'.at # "body"
          <5>1. decoder' = Hunting => decoder'.at # "body"
            BY DEF Hunting
          <5>2. TRUE \in BOOLEAN
            OBVIOUS
          <5>3. [Hunting EXCEPT !.at = "head"].at # "body"
            BY <5>2, HuntingDecoders
          <5> QED BY <3>1, <5>1, <5>3 DEF Idles
        <4> QED BY <4>1 DEF FrameInHand
      <3>2. CASE Garbles(t)
        <4>1. ~decoder'.sound
          BY <3>2 DEF Garbles, Body
        <4> QED BY <4>1 DEF FrameInHand
      <3>3. CASE Opens(t)
        <4>1. decoder'.frame = t.frame /\ t.kind = "head"
          BY <3>3 DEF Opens, Body
        <4>2. First < t.frame
          BY <4>1, <1>3 DEF Ordered, Chained, FramesWithin
        <4>3. \A j \in 1..Len(effected) : effected[j] < t.frame
          BY <4>1, <1>3 DEF Ordered, HeadsAhead
        <4>4. \A i \in 1..Len(line') : line'[i].kind = "head" => t.frame < line'[i].frame
          <5>1. HeadsRise(line)
            BY DEF Ordered, Chained
          <5> QED BY <5>1, <4>1, <1>3 DEF HeadsRise
        <4> QED BY <4>1, <4>2, <4>3, <4>4, <2>1, <1>2 DEF FrameInHand
      <3>4. CASE Continues(t)
        <4>1. decoder'.frame = f /\ decoder.at = "body" /\ decoder.sound
          BY <3>4 DEF Continues, Body, f
        <4>2. /\ First < f /\ \A j \in 1..Len(effected) : effected[j] < f
              /\ \A i \in 1..Len(line) : line[i].kind = "head" => f < line[i].frame
          BY <4>1 DEF Ordered, FrameInHand, f
        <4>3. \A i \in 1..Len(line') : line'[i].kind = "head" => f < line'[i].frame
          BY <4>2, <1>3
        <4> QED BY <4>1, <4>2, <4>3, <2>1, <1>2 DEF FrameInHand
      <3> QED BY <3>1, <3>2, <3>3, <3>4, <1>1, <1>7 DEF Happens
    <2>3. reply' # NoReply => reply'.frame # Unreadable
      <3>1. reply' = Advanced
        BY <1>1, <1>7 DEF Happens, Idles, Opens, Garbles, Continues
      <3>2. Advanced # NoReply => reply # NoReply /\ Advanced.frame = reply.frame
        BY <1>1, ReplyAdvances DEF LinkInv
      <3> QED BY <3>1, <3>2 DEF Ordered
    <2>4. Above(effected', First') /\ HeadsAhead(line', effected') /\ Answered(Answers', effected', First')
      BY <2>1, <1>2, <1>6 DEF Ordered
    <2> QED BY <2>2, <2>3, <2>4, <1>5 DEF Ordered
  <1>8. CASE Effects(t)
    <2>1. /\ First < f /\ \A j \in 1..Len(effected) : effected[j] < f
          /\ \A i \in 1..Len(line) : line[i].kind = "head" => f < line[i].frame
      BY <1>8 DEF Ordered, FrameInHand, Effects, f
    <2>2. effected' = Append(effected, f) /\ decoder'.at # "body"
      <3>1. effected' = Append(effected, f)
        BY <1>8 DEF Effects, f
      <3>2. PICK b \in BOOLEAN : b = (decoder.words >= SlowWords /\ Len(line) > 1)
        OBVIOUS
      <3>3. decoder' = [Hunting EXCEPT !.busy = b]
        BY <3>2, <1>8 DEF Effects
      <3>4. [Hunting EXCEPT !.busy = b].at = "hunt"
        BY HuntingDecoders
      <3> QED BY <3>1, <3>3, <3>4
    <2>3. Above(effected', First')
      BY <2>1, <2>2, <1>2, <1>4, AboveMore DEF Ordered
    <2>4. HeadsAhead(line', effected')
      <3> SUFFICES ASSUME NEW i \in 1..Len(line'), NEW j \in 1..Len(effected'), line'[i].kind = "head"
                   PROVE  effected'[j] < line'[i].frame
        BY DEF HeadsAhead
      <3>1. /\ \A k \in 1..Len(effected) : effected'[k] = effected[k]
            /\ effected'[Len(effected) + 1] = f
            /\ j \in 1..Len(effected) \/ j = Len(effected) + 1
        BY <2>2, <1>4, Appended
      <3>2. CASE j \in 1..Len(effected)
        BY <3>1, <3>2, <1>6 DEF HeadsAhead
      <3>3. CASE j = Len(effected) + 1
        BY <3>1, <3>3, <2>1, <1>3
      <3> QED BY <3>1, <3>2, <3>3
    <2>5. FrameInHand'
      BY <2>2 DEF FrameInHand
    <2>6. Answered(Answers', effected', First')
      <3>1. Answers' = Answers \/ Answers' = Append(Answers, f)
        BY <1>1, <1>8, AnswersGrow DEF f
      <3>2. /\ Answered(Answers, Append(effected, f), First)
            /\ Answered(Append(Answers, f), Append(effected, f), First)
        BY <2>1, <1>4, AnsweredMore DEF Ordered
      <3> QED BY <3>1, <3>2, <2>2, <1>2
    <2>7. reply' # NoReply => reply'.frame # Unreadable
      <3>1. Advanced # NoReply => reply # NoReply /\ Advanced.frame = reply.frame
        BY <1>1, ReplyAdvances DEF LinkInv
      <3>2. f # Unreadable
        BY <2>1, <1>4 DEF Unreadable
      <3>3. reply' = IF Advanced = NoReply
                       THEN [frame |-> f, left |-> ReplyBytes(decoder.words)] ELSE Advanced
        BY <1>8 DEF Effects, f
      <3>4. reply'.frame = IF Advanced = NoReply THEN f ELSE Advanced.frame
        BY <3>3
      <3> QED BY <3>1, <3>2, <3>3, <3>4 DEF Ordered
    <2> QED BY <2>3, <2>4, <2>5, <2>6, <2>7, <1>5 DEF Ordered
  <1> QED BY <1>7, <1>8

LEMMA ExchangeOrdered ==
  ASSUME LinkInv, NEW b \in Batches, Exchange(b), quietly'
  PROVE  /\ Ordered' /\ Answers' = <<>> /\ First' = Len(sent) /\ Len(mine') = Len(b)
         /\ line = <<>> /\ line' # <<>> /\ line'[1].kind = "sync" /\ line'[1].frame = First' + 1
         /\ decoder' = decoder /\ decoder.at = "hunt" /\ reply' = NoReply
  <1> DEFINE z == BatchTokens(Len(sent), b)
             e == [i \in 1..Len(b) |-> exchanges + 1]
  <1>1. line = <<>> /\ reply = NoReply /\ decoder.at = "hunt"
    BY DEF Exchange, Quiet, LinkInv, LinkTypes
  <1>2. reply' = NoReply /\ inbox' = <<>> /\ got' = <<>> /\ decoder' = decoder /\ effected' = effected
    BY <1>1 DEF Exchange, Emptied
  <1>3. sent \in Seq(Nat) /\ Len(sent) \in Nat /\ effected \in Seq(Nat) /\ exchanges \in Nat
    BY DEF LinkInv, LinkTypes
  <1>4. b \in Seq(Nat) /\ Len(b) \in Nat
    BY UartAssumption
  <1>5. Chained(z, Len(sent), Len(sent) + Len(b)) /\ z # <<>> /\ z[1].kind = "sync"
        /\ z[1].frame = Len(sent) + 1
    BY <1>3, BatchChained
  <1>6. e \in Seq(Nat) /\ Len(e) = Len(b)
    BY <1>3, <1>4
  <1> HIDE DEF z, e
  <1>7. sent' = sent \o e /\ line' = line \o z
    BY DEF Exchange, z, e
  <1>8. Len(sent') = Len(sent) + Len(b)
    <2>1. sent \in Seq(Nat) /\ e \in Seq(Nat)
      BY <1>3, <1>6
    <2>2. Len(sent \o e) = Len(sent) + Len(e)
      BY <2>1, Joined
    <2> QED BY <2>2, <1>6, <1>7
  <1>9. line' = z
    <2>1. z \in Seq(Tokens)
      BY <1>5 DEF Chained
    <2> QED BY <2>1, <1>1, <1>7, ConcatEmptySeq
  <1>10. Len(mine') = Len(b)
    <2>1. mine' = [i \in 1..Len(b) |-> Len(sent) + i]
      BY DEF Exchange
    <2> HIDE DEF e
    <2> QED BY <2>1, <1>3, <1>4
  <1>11. First' = Len(sent)
    BY <1>3, <1>4, <1>8, <1>10 DEF First
  <1>12. Chained(line', First', Len(sent'))
    BY <1>5, <1>8, <1>9, <1>11
  <1>13. \A i \in 1..Len(effected) : effected[i] \in Nat /\ effected[i] <= First' /\ ~(effected[i] > First')
    <2>1. \A i \in 1..Len(effected) : effected[i] \in Nat /\ effected[i] <= Len(sent)
      BY <1>3 DEF LinkInv, NotAhead
    <2> QED BY <2>1, <1>3, <1>11
  <1>14. Above(effected', First')
    BY <1>2, <1>13 DEF Above
  <1>15. HeadsAhead(line', effected')
    <2> SUFFICES ASSUME NEW i \in 1..Len(line'), NEW j \in 1..Len(effected), line'[i].kind = "head"
                 PROVE  effected[j] < line'[i].frame
      BY <1>2 DEF HeadsAhead
    <2>1. line'[i] \in Tokens /\ First' < line'[i].frame
      BY <1>12 DEF Chained, FramesWithin
    <2>2. line'[i].frame \in Nat /\ First' \in Nat
      BY <2>1, <1>3, <1>11 DEF Tokens
    <2>3. effected[j] <= First' /\ effected[j] \in Nat
      BY <1>13
    <2> QED BY <2>1, <2>2, <2>3
  <1>16. FrameInHand'
    BY <1>1, <1>2 DEF FrameInHand
  <1>17. Answers' = <<>>
    <2>1. Pending(reply') = <<>>
      BY <1>2 DEF Pending
    <2> QED BY <2>1, <1>2 DEF Answers
  <1>18. Answered(Answers', effected', First')
    BY <1>17 DEF Answered
  <1> QED BY <1>1, <1>2, <1>5, <1>9, <1>10, <1>11, <1>12, <1>14, <1>15, <1>16, <1>17, <1>18 DEF Ordered

LEMMA SameAnswers ==
  ASSUME LinkInv, SendReply \/ Collect \/ Abort \/ TimeOut \/ UNCHANGED uartVars
  PROVE  Answers' = Answers
  <1>1. got \in Seq(Nat) /\ inbox \in Seq(Nat) /\ Pending(reply) \in Seq(Nat) /\ reply.frame \in Nat
    BY PendingType DEF LinkInv, LinkTypes, Replies
  <1>2. CASE SendReply
    <2>1. Pending(reply) = <<reply.frame>> /\ Pending(reply') = <<>> /\ got' = got
          /\ inbox' = Append(inbox, reply.frame)
      BY <1>2 DEF SendReply, Pending, host
    <2>2. inbox' \in Seq(Nat) /\ inbox' = inbox \o <<reply.frame>>
      BY <2>1, <1>1, Appended
    <2>3. inbox' \o <<>> = inbox'
      BY <2>2, ConcatEmptySeq
    <2> QED BY <2>1, <2>2, <2>3 DEF Answers
  <1>3. CASE Collect
    <2> DEFINE h == Head(inbox)
               r == Tail(inbox)
               p == Pending(reply)
    <2>1. inbox # <<>> /\ got' = Append(got, h) /\ inbox' = r /\ reply' = reply
      BY <1>3 DEF Collect, bridge
    <2>2. h \in Nat /\ r \in Seq(Nat) /\ <<h>> \in Seq(Nat) /\ p \in Seq(Nat)
      BY <2>1, <1>1, TailShifts
    <2>3. inbox = <<h>> \o r
      BY <2>1, <1>1
    <2> HIDE DEF h, r, p
    <2>4. got' = got \o <<h>>
      BY <2>1, <2>2, <1>1, Appended
    <2>5. r \o p \in Seq(Nat)
      BY <2>2, Joined
    <2>6. (got \o <<h>>) \o (r \o p) = got \o (<<h>> \o (r \o p))
      <3>1. got \in Seq(Nat) /\ <<h>> \in Seq(Nat) /\ r \o p \in Seq(Nat)
        BY <2>2, <2>5, <1>1
      <3> QED BY <3>1, ConcatAssociative, SMTT(30)
    <2>7. (<<h>> \o r) \o p = <<h>> \o (r \o p)
      BY <2>2, ConcatAssociative
    <2>8. Answers' = got' \o (r \o p)
      BY <2>1 DEF Answers, p
    <2> QED BY <2>3, <2>4, <2>6, <2>7, <2>8 DEF Answers, p
  <1>4. CASE Abort
    BY <1>4 DEF Abort, Answers, bridge
  <1>5. CASE TimeOut
    BY <1>5 DEF TimeOut, Answers, bridge
  <1>6. CASE UNCHANGED uartVars
    BY <1>6 DEF uartVars, Answers, bridge, host
  <1> QED BY <1>2, <1>3, <1>4, <1>5, <1>6

LEMMA SpoiledAnswers ==
  ASSUME LinkInv, SpoilReply
  PROVE  \E a \in Seq(Nat) : /\ Answers = Append(a, reply.frame)
                             /\ Answers' = a \/ Answers' = Append(a, Unreadable)
  <1> DEFINE a == got \o inbox
  <1>1. got \in Seq(Nat) /\ inbox \in Seq(Nat) /\ reply.frame \in Nat /\ Unreadable \in Nat
    BY DEF LinkInv, LinkTypes, Replies, Unreadable
  <1>2. a \in Seq(Nat) /\ <<reply.frame>> \in Seq(Nat) /\ <<Unreadable>> \in Seq(Nat)
    <2>1. a \in Seq(Nat)
      BY <1>1, Joined
    <2> QED BY <2>1, <1>1
  <1>3. Answers = got \o (inbox \o <<reply.frame>>)
    BY DEF SpoilReply, Answers, Pending
  <1>4. Answers' = got \o (inbox' \o <<>>) /\ (inbox' = inbox \/ inbox' = Append(inbox, Unreadable))
    BY DEF SpoilReply, Answers, Pending, host
  <1>5. got \o (inbox \o <<reply.frame>>) = a \o <<reply.frame>>
    BY <1>1, <1>2, ConcatAssociative
  <1>6. got \o (inbox \o <<Unreadable>>) = a \o <<Unreadable>>
    BY <1>1, <1>2, ConcatAssociative
  <1>7. inbox' \in Seq(Nat) /\ inbox' \o <<>> = inbox'
    <2>1. Append(inbox, Unreadable) \in Seq(Nat)
      <3>1. inbox \in Seq(Nat) /\ Unreadable \in Nat
        BY <1>1
      <3> QED BY <3>1, Appended
    <2>2. inbox' \in Seq(Nat)
      BY <2>1, <1>1, <1>4
    <2> QED BY <2>2, ConcatEmptySeq
  <1>8. Append(inbox, Unreadable) = inbox \o <<Unreadable>>
    BY <1>1, Appended
  <1> HIDE DEF a
  <1>9. Append(a, reply.frame) = a \o <<reply.frame>> /\ Append(a, Unreadable) = a \o <<Unreadable>>
    <2>1. a \in Seq(Nat) /\ reply.frame \in Nat
      BY <1>1, <1>2
    <2>2. a \in Seq(Nat) /\ Unreadable \in Nat
      BY <1>1, <1>2
    <2>3. Append(a, reply.frame) = a \o <<reply.frame>>
      BY <2>1, Appended
    <2>4. Append(a, Unreadable) = a \o <<Unreadable>>
      BY <2>2, Appended
    <2> QED BY <2>3, <2>4
  <1>10. Answers' = a \/ Answers' = a \o <<Unreadable>>
    BY <1>4, <1>6, <1>7, <1>8 DEF a
  <1> QED BY <1>2, <1>3, <1>5, <1>9, <1>10

LEMMA OthersOrdered ==
  ASSUME LinkInv, Ordered, SendReply \/ SpoilReply \/ Collect \/ Abort \/ TimeOut \/ UNCHANGED uartVars
  PROVE  Ordered'
  <1>1. /\ line' = line /\ decoder' = decoder /\ effected' = effected /\ sent' = sent /\ mine' = mine
        /\ reply' \in {reply, NoReply}
    BY DEF SendReply, SpoilReply, Collect, Abort, TimeOut, uartVars, bridge, host
  <1>2. Chained(line', First', Len(sent')) /\ Above(effected', First') /\ HeadsAhead(line', effected')
        /\ FrameInHand' /\ (reply' # NoReply => reply'.frame # Unreadable) /\ First' = First
    BY <1>1 DEF Ordered, FrameInHand, First
  <1>3. Answered(Answers', effected', First')
    <2>1. CASE SpoilReply
      <3>1. PICK a \in Seq(Nat) : /\ Answers = Append(a, reply.frame)
                                  /\ Answers' = a \/ Answers' = Append(a, Unreadable)
        BY <2>1, SpoiledAnswers
      <3>2. reply.frame \in Nat
        BY DEF LinkInv, LinkTypes, Replies
      <3>3. Answered(a, effected, First) /\ Answered(Append(a, Unreadable), effected, First)
        BY <3>1, <3>2, AnsweredLess DEF Ordered
      <3> QED BY <3>1, <3>3, <1>1, <1>2
    <2>2. CASE ~SpoilReply
      <3>1. Answers' = Answers
        BY <2>2, SameAnswers
      <3> QED BY <3>1, <1>1, <1>2 DEF Ordered
    <2> QED BY <2>1, <2>2
  <1> QED BY <1>2, <1>3 DEF Ordered

LEMMA OrderStep ==
  ASSUME OrderInv, [UartNext]_uartVars
  PROVE  OrderInv'
  <1>1. LinkInv /\ (quietly => Ordered)
    BY DEF OrderInv
  <1>2. CASE Receive \/ Spoil
    <2>1. quietly' = quietly
      BY <1>2 DEF Receive, Spoil, Arrives, host
    <2> QED BY <2>1, <1>1, <1>2, ArrivalTyped, ArrivalOrdered DEF OrderInv
  <1>3. CASE \E b \in Batches : Exchange(b)
    BY <1>1, <1>3, ExchangeTyped, ExchangeOrdered DEF OrderInv
  <1>4. CASE SendReply \/ SpoilReply \/ Collect \/ Abort \/ TimeOut \/ UNCHANGED uartVars
    <2>1. quietly' = quietly
      BY <1>4 DEF SendReply, SpoilReply, Collect, Abort, TimeOut, uartVars, host
    <2>2. LinkInv'
      BY <1>1, <1>4, CollectTyped, OthersTyped
    <2> QED BY <2>1, <2>2, <1>1, <1>4, OthersOrdered DEF OrderInv
  <1> QED BY <1>2, <1>3, <1>4 DEF UartNext, Finished

LEMMA OrderInit ==
  ASSUME UartInit
  PROVE  OrderInv
  <1>1. LinkInv
    BY InitTyped
  <1>2. <<>> \in Seq(Tokens) /\ Len(<<>>) = 0
    OBVIOUS
  <1>3. line = <<>> /\ effected = <<>> /\ decoder.at = "hunt" /\ reply = NoReply /\ got = <<>> /\ inbox = <<>>
    BY DEF UartInit, Hunting
  <1>4. Chained(line, First, Len(sent))
    BY <1>2, <1>3 DEF Chained, SyncLeads, HeadLeads, CrcEnds, PadLeads, HeadsRise, FramesWithin
  <1>5. Above(effected, First) /\ HeadsAhead(line, effected) /\ FrameInHand
    BY <1>2, <1>3 DEF Above, HeadsAhead, FrameInHand
  <1>6. Answers = <<>>
    BY <1>3 DEF Answers, Pending
  <1>7. Answered(Answers, effected, First)
    BY <1>6 DEF Answered
  <1> QED BY <1>1, <1>3, <1>4, <1>5, <1>7 DEF OrderInv, Ordered

LEMMA OwnAnswers ==
  ASSUME OrderInv
  PROVE  QuietStartOwnAnswers
  <1> SUFFICES ASSUME outcome = "ok", quietly
               PROVE  /\ got = mine
                      /\ \E k \in 0..Len(effected) :
                           /\ effected = SubSeq(effected, 1, k) \o mine
                           /\ \A i \in 1..k : effected[i] \notin Range(mine)
    BY DEF QuietStartOwnAnswers
  <1> DEFINE n == Len(mine)
  <1>1. LinkInv /\ Ordered
    BY DEF OrderInv
  <1>2. First \in Nat /\ n \in Nat /\ First + n = Len(sent)
    BY <1>1, FirstType
  <1>3. /\ got \in Seq(Nat) /\ effected \in Seq(Nat) /\ mine \in Seq(Nat) /\ Len(got) = n
        /\ mine = [i \in 1..n |-> First + i] /\ \A i \in 1..Len(got) : got[i] # Unreadable
    BY <1>1 DEF LinkInv, LinkTypes, HostKnows
  <1>4. \A i \in 1..Len(effected) : effected[i] \in Nat /\ effected[i] <= First + n
    BY <1>1, <1>2, <1>3 DEF LinkInv, NotAhead
  <1>5. Above(effected, First) /\ Answered(Answers, effected, First)
    BY <1>1 DEF Ordered
  <1>6. /\ \A i \in 1..Len(got) : i \in 1..Len(Answers) /\ Answers[i] = got[i]
    <2> DEFINE x == inbox \o Pending(reply)
    <2>1. inbox \in Seq(Nat) /\ Pending(reply) \in Seq(Nat)
      BY <1>1, PendingType DEF LinkInv, LinkTypes
    <2>2. got \in Seq(Nat) /\ x \in Seq(Nat)
      BY <2>1, <1>3, Joined
    <2> HIDE DEF x
    <2>3. /\ Len(got \o x) = Len(got) + Len(x) /\ Len(got) \in Nat /\ Len(x) \in Nat
          /\ \A i \in 1..Len(got) : (got \o x)[i] = got[i]
      BY <2>2, Joined
    <2>4. Answers = got \o x
      BY DEF Answers, x
    <2> QED BY <2>3, <2>4
  <1> HIDE DEF n
  <1>7. \A i \in 1..Len(got) : First < got[i] /\ got[i] <= First + Len(got)
                               /\ \E j \in 1..Len(effected) : effected[j] = got[i]
    <2> SUFFICES ASSUME NEW i \in 1..Len(got)
                 PROVE  First < got[i] /\ got[i] <= First + Len(got)
                        /\ \E j \in 1..Len(effected) : effected[j] = got[i]
      OBVIOUS
    <2>1. First < got[i] /\ \E j \in 1..Len(effected) : effected[j] = got[i]
      BY <1>3, <1>5, <1>6 DEF Answered
    <2> QED BY <2>1, <1>3, <1>4
  <1>8. Rising(got)
    BY <1>3, <1>5, <1>6 DEF Answered, Rising
  <1>9. got = [i \in 1..Len(got) |-> First + i]
    BY <1>2, <1>3, <1>7, <1>8, RisingFills
  <1>10. got = mine
    BY <1>3, <1>9
  <1>11. \A v \in (First + 1)..(First + n) : \E i \in 1..Len(effected) : effected[i] = v
    <2> SUFFICES ASSUME NEW v \in (First + 1)..(First + n)
                 PROVE  \E i \in 1..Len(effected) : effected[i] = v
      OBVIOUS
    <2>1. PICK i \in 1..n : First + i = v
      <3>1. v - First \in 1..n /\ First + (v - First) = v
        BY <1>2
      <3> QED BY <3>1
    <2>2. i \in 1..Len(got) /\ mine[i] = v
      BY <2>1, <1>3
    <2>3. got[i] = v
      BY <2>2, <1>10
    <2> QED BY <2>2, <2>3, <1>7
  <1>12. PICK k \in 0..Len(effected) :
           effected = SubSeq(effected, 1, k) \o mine /\ \A i \in 1..k : effected[i] <= First
    <2>1. effected \in Seq(Nat) /\ First \in Nat /\ n \in Nat
      BY <1>2, <1>3
    <2>2. Above(effected, First) /\ \A i \in 1..Len(effected) : effected[i] <= First + n
      BY <1>4, <1>5
    <2>3. mine = [i \in 1..n |-> First + i]
      BY <1>3
    <2>4. \E k \in 0..Len(effected) :
            effected = SubSeq(effected, 1, k) \o mine /\ \A i \in 1..k : effected[i] <= First
      BY <2>1, <2>2, <2>3, <1>11, EndsWithAll, ZenonT(30)
    <2> QED BY <2>4
  <1>13. \A v \in Range(mine) : v > First
    <2> SUFFICES ASSUME NEW v \in Range(mine) PROVE v > First
      OBVIOUS
    <2>1. PICK i \in 1..n : v = mine[i]
      <3>1. DOMAIN mine = 1..n
        BY <1>3
      <3> QED BY <3>1 DEF Range
    <2>2. v = First + i
      BY <2>1, <1>3
    <2> QED BY <2>2, <1>2
  <1>14. \A i \in 1..k : effected[i] \notin Range(mine)
    <2> SUFFICES ASSUME NEW i \in 1..k, effected[i] > First PROVE FALSE
      BY <1>13
    <2>1. i \in 1..Len(effected) /\ effected[i] <= First
      BY <1>3, <1>12
    <2> QED BY <2>1, <1>2, <1>4
  <1> QED BY <1>10, <1>12, <1>14

-----------------------------------------------------------------------------
(* An exchange none of whose bytes was spoiled.  Its frames are taken and  *)
(* answered one by one, and the place on the line tells which comes next.  *)
Unhurt == \A hit \in spoiled : hit[2] \notin Range(mine)
Awaited == First + Len(Answers) + 1

AtGap ==
  /\ line = <<>> => Len(Answers) = Len(mine)
  /\ line # <<>> =>
       \/ line[1].kind = "pad" /\ line[2].frame = Awaited /\ reply.left <= 9
       \/ line[1].kind = "sync" /\ line[1].frame = Awaited /\ ~decoder.busy /\ reply.left <= 1

AtHeader ==
  line # <<>> /\ line[1].kind = "head" /\ line[1].frame = Awaited /\ reply = NoReply

\* k words of the frame in hand, and its CRC, are to come.
RestOf(k) ==
  /\ k < Len(line) /\ decoder.left = 4 * k + 2
  /\ \A j \in 1..k : line[j].kind = "word" /\ line[j].bytes = 4 /\ line[j].frame = Awaited
  /\ line[k + 1].kind = "crc" /\ line[k + 1].frame = Awaited /\ line[k + 1].words = decoder.words

InBody ==
  decoder.sound /\ decoder.frame = Awaited /\ reply = NoReply /\ \E k \in Nat : RestOf(k)

Sounds ==
  /\ decoder.at = "hunt" => AtGap
  /\ decoder.at = "head" => AtHeader
  /\ decoder.at = "body" => InBody

SoundInv ==
  /\ OrderInv
  /\ quietly /\ Unhurt => Sounds
  /\ outcome = "timed out" /\ quietly => ~Unhurt

LEMMA OwnFrames ==
  ASSUME LinkInv, NEW f, First < f, f <= Len(sent), f \in Nat
  PROVE  f \in Range(mine)
  <1>1. First \in Nat /\ Len(mine) \in Nat /\ First + Len(mine) = Len(sent)
    BY FirstType
  <1>2. mine = [i \in 1..Len(mine) |-> First + i]
    BY DEF LinkInv, HostKnows
  <1>3. PICK i \in 1..Len(mine) : f = First + i
    <2>1. f - First \in 1..Len(mine) /\ f = First + (f - First)
      BY <1>1
    <2> QED BY <2>1
  <1>4. i \in DOMAIN mine /\ mine[i] = f
    BY <1>2, <1>3
  <1> QED BY <1>4 DEF Range

(* What was hit stays hit, and hitting anything of the exchange hurts it.  *)
LEMMA HurtStays ==
  ASSUME LinkInv, Ordered, Receive \/ Spoil \/ SpoilReply \/ SendReply \/ Collect \/ Abort \/ TimeOut
                           \/ UNCHANGED uartVars
  PROVE  /\ Unhurt' => Unhurt
         /\ Spoil /\ line[1].kind # "pad" => ~Unhurt'
         /\ SpoilReply => ~Unhurt'
         /\ mine' = mine /\ quietly' = quietly
  <1>1. mine' = mine /\ quietly' = quietly /\ spoiled \subseteq spoiled'
    BY DEF Receive, Spoil, SpoilReply, SendReply, Collect, Abort, TimeOut, Arrives, uartVars, host
  <1>2. Unhurt' => Unhurt
    BY <1>1 DEF Unhurt
  <1>3. ASSUME Spoil, line[1].kind # "pad" PROVE ~Unhurt'
    <2>1. line # <<>> /\ line \in Seq(Tokens)
      BY <1>3 DEF Spoil, Arrives, LinkInv, LinkTypes
    <2>2. Head(line) = line[1] /\ line[1] \in Tokens /\ 1 \in 1..Len(line)
      BY <2>1, TailShifts
    <2>3. First < line[1].frame /\ line[1].frame <= Len(sent) /\ line[1].frame \in Nat
      BY <2>2, <1>3 DEF Ordered, Chained, FramesWithin, Tokens
    <2>4. line[1].frame \in Range(mine)
      BY <2>3, OwnFrames
    <2>5. <<"request", line[1].frame>> \in spoiled'
      BY <2>2, <1>3 DEF Spoil
    <2> QED BY <2>4, <2>5, <1>1 DEF Unhurt
  <1>4. ASSUME SpoilReply PROVE ~Unhurt'
    <2>1. reply # NoReply /\ <<"reply", reply.frame>> \in spoiled'
      BY <1>4 DEF SpoilReply
    <2>2. reply.frame # Unreadable /\ reply.frame \in Nat
      BY <2>1 DEF Ordered, LinkInv, LinkTypes, Replies
    <2>3. First < reply.frame /\ reply.frame <= Len(sent)
      <3>1. PICK a \in Seq(Nat) : Answers = Append(a, reply.frame)
        BY <1>4, SpoiledAnswers
      <3>2. Len(a) + 1 \in 1..Len(Answers) /\ Answers[Len(a) + 1] = reply.frame
        BY <3>1, <2>2, Appended
      <3>3. First < reply.frame /\ \E j \in 1..Len(effected) : effected[j] = reply.frame
        BY <3>2, <2>2 DEF Ordered, Answered
      <3> QED BY <3>3 DEF LinkInv, NotAhead
    <2>4. reply.frame \in Range(mine)
      BY <2>2, <2>3, OwnFrames
    <2> QED BY <2>1, <2>4, <1>1 DEF Unhurt
  <1> QED BY <1>1, <1>2, <1>3, <1>4

LEMMA NextTokens ==
  ASSUME LinkInv, Receive \/ Spoil
  PROVE  /\ Arrives /\ line \in Seq(Tokens) /\ line # <<>> /\ Len(line) \in Nat \ {0}
         /\ line' = Tail(line) /\ Len(line') = Len(line) - 1
         /\ Head(line) = line[1] /\ line[1] \in Tokens /\ 1 \in 1..Len(line)
         /\ \A i \in 1..Len(line') : line'[i] = line[i + 1] /\ i + 1 \in 1..Len(line)
         /\ First' = First /\ mine' = mine /\ sent' = sent /\ Happens(Head(line))
  <1>1. Arrives /\ Happens(Head(line))
    BY ArrivalHappens DEF LinkInv
  <1>2. line \in Seq(Tokens) /\ line # <<>> /\ line' = Tail(line) /\ First' = First /\ mine' = mine
        /\ sent' = sent
    BY <1>1 DEF LinkInv, LinkTypes, Arrives, host, First
  <1>3. /\ Tail(line) \in Seq(Tokens) /\ Len(Tail(line)) = Len(line) - 1 /\ Len(line) \in Nat \ {0}
        /\ Head(line) = line[1] /\ Head(line) \in Tokens
        /\ \A i \in 1..Len(Tail(line)) : Tail(line)[i] = line[i + 1] /\ i + 1 \in 1..Len(line)
    BY <1>2, TailShifts
  <1> QED BY <1>1, <1>2, <1>3

LEMMA PadArrives ==
  ASSUME LinkInv, Ordered, Sounds, Receive \/ Spoil, decoder.at = "hunt", line[1].kind = "pad"
  PROVE  Sounds'
  <1> DEFINE t == Head(line)
  <1>1. /\ Arrives /\ Happens(t) /\ t = line[1] /\ line # <<>> /\ 1 \in 1..Len(line) /\ First' = First
        /\ Len(line) \in Nat /\ Len(line') = Len(line) - 1
        /\ \A i \in 1..Len(line') : line'[i] = line[i + 1]
    BY NextTokens
  <1>2. Stays(Hunting)
    <2>1. ASSUME NEW b, NEW whole, Takes(t, b, whole) PROVE Stays(Hunting)
      <3>1. t.kind # "sync"
        BY <1>1
      <3>2. Stays(IF whole /\ t.kind = "sync" THEN [Hunting EXCEPT !.at = "head"] ELSE Hunting)
        BY <2>1, HuntTaken DEF LinkInv
      <3> QED BY <3>1, <3>2
    <2>2. CASE Receive
      BY <2>1, <2>2 DEF Receive
    <2>3. CASE Spoil
      BY <2>1, <2>3 DEF Spoil
    <2> QED BY <2>2, <2>3
  <1>3. decoder'.at = "hunt" /\ ~decoder'.busy /\ reply' = Advanced
    BY <1>2 DEF Stays, Hunting
  <1>4. Answers' = Answers
    BY <1>1, <1>3, AnswersGrow
  <1>5. line[2].frame = Awaited /\ reply.left <= 9
    BY <1>1 DEF Sounds, AtGap
  <1>6. t.bytes = 8 /\ 1 < Len(line) /\ line[1 + 1].kind = "sync"
    BY <1>1 DEF Ordered, Chained, PadLeads
  <1>7. 1 \in 1..Len(line') /\ 1 + 1 = 2 /\ line' # <<>>
    <2>1. Len(line') > 0
      BY <1>1, <1>6
    <2> QED BY <2>1, <1>1
  <1>8. line'[1].kind = "sync" /\ line'[1].frame = Awaited
    BY <1>1, <1>5, <1>6, <1>7
  <1>9. reply'.left <= 1
    <2>1. reply \in Replies /\ reply.left \in Nat
      BY DEF LinkInv, LinkTypes, Replies
    <2>2. CASE reply.left <= 8
      BY <2>2, <1>3, <1>6 DEF Advanced, NoReply
    <2>3. CASE ~(reply.left <= 8)
      <3>1. PICK l \in Nat : l = reply.left - 8 /\ l <= 1
        BY <2>1, <2>3, <1>5
      <3>2. Advanced = [reply EXCEPT !.left = l]
        BY <3>1, <2>3, <1>6 DEF Advanced
      <3>3. Advanced.left = l
        BY <3>2, <2>1 DEF Replies
      <3> QED BY <3>1, <3>3, <1>3
    <2> QED BY <2>2, <2>3
  <1>10. Awaited' = Awaited
    BY <1>1, <1>4 DEF Awaited
  <1> QED BY <1>3, <1>7, <1>8, <1>9, <1>10 DEF Sounds, AtGap

LEMMA SyncArrives ==
  ASSUME LinkInv, Ordered, Sounds, Receive, decoder.at = "hunt", line[1].kind = "sync"
  PROVE  Sounds'
  <1> DEFINE t == Head(line)
  <1>1. /\ Arrives /\ Happens(t) /\ t = line[1] /\ line # <<>> /\ 1 \in 1..Len(line) /\ First' = First
        /\ Len(line) \in Nat /\ Len(line') = Len(line) - 1
        /\ \A i \in 1..Len(line') : line'[i] = line[i + 1]
    BY NextTokens
  <1>2. t.frame = Awaited /\ ~decoder.busy /\ reply.left <= 1
    BY <1>1 DEF Sounds, AtGap
  <1>3. Stays([Hunting EXCEPT !.at = "head"])
    <2>1. Takes(t, t.bytes, ~decoder.busy)
      BY <1>2 DEF Receive
    <2>2. Stays(IF ~decoder.busy /\ t.kind = "sync" THEN [Hunting EXCEPT !.at = "head"] ELSE Hunting)
      BY <2>1, HuntTaken DEF LinkInv
    <2> QED BY <2>2, <1>1, <1>2
  <1>4. decoder'.at = "head" /\ reply' = Advanced
    <2>1. TRUE \in BOOLEAN
      OBVIOUS
    <2>2. [Hunting EXCEPT !.at = "head"].at = "head"
      BY <2>1, HuntingDecoders
    <2> QED BY <2>2, <1>3 DEF Stays
  <1>5. Answers' = Answers
    BY <1>1, <1>4, AnswersGrow
  <1>6. t.bytes = 2 /\ 1 < Len(line) /\ line[1 + 1].kind = "head" /\ line[1 + 1].frame = t.frame
    BY <1>1 DEF Ordered, Chained, SyncLeads
  <1>7. reply' = NoReply
    <2>1. reply.left \in Nat
      BY DEF LinkInv, LinkTypes, Replies
    <2> QED BY <2>1, <1>2, <1>4, <1>6 DEF Advanced
  <1>8. 1 \in 1..Len(line') /\ line' # <<>>
    <2>1. Len(line') > 0
      BY <1>1, <1>6
    <2> QED BY <2>1, <1>1
  <1>9. line'[1].kind = "head" /\ line'[1].frame = Awaited
    BY <1>1, <1>2, <1>6, <1>8
  <1>10. Awaited' = Awaited
    BY <1>1, <1>5 DEF Awaited
  <1> QED BY <1>4, <1>7, <1>8, <1>9, <1>10 DEF Sounds, AtHeader

LEMMA HeadArrives ==
  ASSUME LinkInv, Ordered, Sounds, Receive, decoder.at = "head"
  PROVE  Sounds'
  <1> DEFINE t == Head(line)
  <1>1. /\ Arrives /\ Happens(t) /\ t = line[1] /\ t \in Tokens /\ line # <<>> /\ 1 \in 1..Len(line)
        /\ First' = First /\ Len(line) \in Nat /\ Len(line') = Len(line) - 1
        /\ \A i \in 1..Len(line') : line'[i] = line[i + 1]
    BY NextTokens
  <1>0. PICK n \in Nat : n = t.words
    BY <1>1 DEF Tokens
  <1>2. t.kind = "head" /\ t.frame = Awaited /\ reply = NoReply /\ n \in Nat
    BY <1>1 DEF Sounds, AtHeader
  <1>3. Opens(t)
    <2>1. ~decoder.busy
      BY DEF LinkInv, DecoderRests
    <2>2. Takes(t, t.bytes, ~decoder.busy)
      BY <2>1 DEF Receive
    <2>3. (~decoder.busy) = TRUE
      BY <2>1
    <2>4. Takes(t, t.bytes, TRUE)
      BY <2>2, <2>3
    <2> QED BY <2>4, <1>1, <1>2, HeadTaken DEF LinkInv
  <1>4. /\ decoder'.at = "body" /\ decoder'.sound /\ decoder'.frame = Awaited /\ decoder'.words = n
        /\ decoder'.left = 4 * n + 2 /\ reply' = Advanced
    BY <1>0, <1>2, <1>3 DEF Opens, Body
  <1>5. Answers' = Answers
    BY <1>1, <1>4, AnswersGrow
  <1>6. Awaited' = Awaited
    BY <1>1, <1>5 DEF Awaited
  <1>7. reply' = NoReply
    <2>1. t.bytes \in Nat /\ reply.left = 0
      BY <1>1, <1>2 DEF Tokens, NoReply
    <2> QED BY <2>1, <1>4 DEF Advanced
  <1>8. 1 + n < Len(line) /\ HeadAt(line, 1, n)
    BY <1>0, <1>1, <1>2 DEF Ordered, Chained, HeadLeads
  <1> HIDE DEF t
  <1>9. /\ \A j \in 1..n : line[1 + j].kind = "word" /\ line[1 + j].bytes = 4 /\ line[1 + j].frame = Awaited
        /\ line[1 + n + 1].kind = "crc" /\ line[1 + n + 1].frame = Awaited /\ line[1 + n + 1].words = n
    BY <1>1, <1>2, <1>8 DEF HeadAt
  <1>10. \A j \in 1..n : line'[j].kind = "word" /\ line'[j].bytes = 4 /\ line'[j].frame = Awaited
    <2> SUFFICES ASSUME NEW j \in 1..n
                 PROVE  line'[j].kind = "word" /\ line'[j].bytes = 4 /\ line'[j].frame = Awaited
      OBVIOUS
    <2>1. j \in 1..Len(line') /\ j + 1 = 1 + j
      BY <1>1, <1>2, <1>8
    <2> QED BY <2>1, <1>1, <1>9
  <1>11. n < Len(line') /\ line'[n + 1] = line[1 + n + 1]
    <2>1. n + 1 \in 1..Len(line') /\ (n + 1) + 1 = 1 + n + 1 /\ n < Len(line')
      BY <1>1, <1>2, <1>8
    <2> QED BY <2>1, <1>1
  <1>12. RestOf(n)'
    BY <1>4, <1>6, <1>9, <1>10, <1>11 DEF RestOf
  <1> QED BY <1>2, <1>4, <1>6, <1>7, <1>12 DEF Sounds, InBody

LEMMA WordArrives ==
  ASSUME LinkInv, Ordered, Sounds, Receive, decoder.at = "body", NEW k \in Nat, k # 0, RestOf(k)
  PROVE  Sounds'
  <1> DEFINE t == Head(line)
             left == 4 * (k - 1) + 2
  <1>1. /\ Arrives /\ Happens(t) /\ t = line[1] /\ line # <<>> /\ 1 \in 1..Len(line) /\ First' = First
        /\ Len(line) \in Nat /\ Len(line') = Len(line) - 1
        /\ \A i \in 1..Len(line') : line'[i] = line[i + 1]
    BY NextTokens
  <1>2. decoder.sound /\ decoder.frame = Awaited /\ reply = NoReply /\ ~decoder.busy
    BY DEF Sounds, InBody, LinkInv, DecoderRests
  <1>3. t.bytes = 4 /\ t.frame = Awaited
    <2>1. 1 \in 1..k
      OBVIOUS
    <2> QED BY <2>1, <1>1 DEF RestOf
  <1>4. k < Len(line) /\ decoder.left = 4 * k + 2
    BY DEF RestOf
  <1>5. left = decoder.left - 4 /\ left > 0 /\ left \in Int
    BY <1>4
  <1>6. Takes(t, 4, TRUE)
    <2>1. Takes(t, t.bytes, ~decoder.busy)
      BY <1>2 DEF Receive
    <2>2. (~decoder.busy) = TRUE
      BY <1>2
    <2> QED BY <2>1, <2>2, <1>3
  <1>7. Stays(Body(decoder.frame, decoder.words, left, TRUE))
    <2>0. PICK w \in BOOLEAN : w = TRUE
      OBVIOUS
    <2> DEFINE ok == decoder.sound /\ w /\ t.frame = decoder.frame
    <2>1. ok = TRUE
      BY <2>0, <1>2, <1>3
    <2> HIDE DEF left, t
    <2>2. LinkTypes /\ DecoderRests /\ 4 \in Int /\ Takes(t, 4, w) /\ left = decoder.left - 4
      <3>1. Takes(t, 4, w)
        BY <2>0, <1>6, Zenon
      <3> QED BY <3>1, <1>5 DEF LinkInv
    <2>3. LET r == Body(decoder.frame, decoder.words, left, ok)
          IN  IF left <= 0 THEN Ends(r) ELSE Stays(r)
      BY <2>2, BodyTaken
    <2> HIDE DEF ok
    <2>4. ~(left <= 0)
      BY <1>5
    <2> QED BY <2>1, <2>3, <2>4
  <1>8. /\ decoder'.at = "body" /\ decoder'.sound /\ decoder'.frame = Awaited
        /\ decoder'.words = decoder.words /\ decoder'.left = left /\ reply' = Advanced
    BY <1>2, <1>7 DEF Stays, Body
  <1>9. Answers' = Answers
    BY <1>1, <1>8, AnswersGrow
  <1>10. Awaited' = Awaited
    BY <1>1, <1>9 DEF Awaited
  <1>11. reply' = NoReply
    BY <1>1, <1>2, <1>3, <1>8 DEF Advanced, NoReply
  <1> HIDE DEF t
  <1>12. \A j \in 1..(k - 1) :
            line'[j].kind = "word" /\ line'[j].bytes = 4 /\ line'[j].frame = Awaited
    <2> SUFFICES ASSUME NEW j \in 1..(k - 1)
                 PROVE  line'[j].kind = "word" /\ line'[j].bytes = 4 /\ line'[j].frame = Awaited
      OBVIOUS
    <2>1. j \in 1..Len(line') /\ j + 1 \in 1..k
      BY <1>1, <1>4
    <2> QED BY <2>1, <1>1 DEF RestOf
  <1>13. k - 1 \in Nat /\ k - 1 < Len(line') /\ line'[k - 1 + 1] = line[k + 1]
    <2>1. k \in 1..Len(line') /\ k - 1 + 1 = k /\ k - 1 \in Nat /\ k - 1 < Len(line')
      BY <1>1, <1>4
    <2> QED BY <2>1, <1>1
  <1>14. RestOf(k - 1)'
    <2>1. line[k + 1].kind = "crc" /\ line[k + 1].frame = Awaited /\ line[k + 1].words = decoder.words
      BY DEF RestOf
    <2> QED BY <2>1, <1>8, <1>10, <1>12, <1>13 DEF RestOf
  <1> QED BY <1>8, <1>10, <1>11, <1>13, <1>14 DEF Sounds, InBody

LEMMA CrcArrives ==
  ASSUME LinkInv, Ordered, Sounds, Receive, decoder.at = "body", RestOf(0)
  PROVE  Sounds'
  <1> DEFINE t == Head(line)
  <1>1. /\ Arrives /\ Happens(t) /\ t = line[1] /\ line # <<>> /\ 1 \in 1..Len(line) /\ First' = First
        /\ Len(line) \in Nat \ {0} /\ Len(line') = Len(line) - 1 /\ mine' = mine
        /\ \A i \in 1..Len(line') : line'[i] = line[i + 1]
    BY NextTokens
  <1>2. decoder.sound /\ decoder.frame = Awaited /\ reply = NoReply /\ ~decoder.busy
    BY DEF Sounds, InBody, LinkInv, DecoderRests
  <1>3. t.kind = "crc" /\ t.frame = Awaited /\ t.words = decoder.words /\ decoder.left = 2
    <2>1. 0 + 1 = 1 /\ 4 * 0 + 2 = 2
      OBVIOUS
    <2> QED BY <2>1, <1>1 DEF RestOf
  <1>4. /\ t.bytes = 2
        /\ 1 = Len(line) => Awaited = Len(sent)
        /\ 1 < Len(line) => /\ decoder.words > 0 /\ line[1 + 1].kind = "pad"
                            /\ 1 + 2 <= Len(line) /\ line[1 + 2].frame = Awaited + 1
    BY <1>1, <1>3 DEF Ordered, Chained, CrcEnds
  <1>5. Takes(t, 2, TRUE)
    <2>1. Takes(t, t.bytes, ~decoder.busy)
      BY <1>2 DEF Receive
    <2>2. (~decoder.busy) = TRUE
      BY <1>2
    <2> QED BY <2>1, <2>2, <1>4
  <1>6. Ends(Body(decoder.frame, decoder.words, 0, TRUE))
    <2>0. PICK w \in BOOLEAN : w = TRUE
      OBVIOUS
    <2>5. PICK left \in Int : left = 0
      OBVIOUS
    <2> DEFINE ok == decoder.sound /\ w /\ t.frame = decoder.frame
    <2>1. ok = TRUE
      BY <2>0, <1>2, <1>3
    <2> HIDE DEF t
    <2>2. LinkTypes /\ DecoderRests /\ 2 \in Int /\ Takes(t, 2, w) /\ left = decoder.left - 2
      <3>1. Takes(t, 2, w)
        BY <2>0, <1>5, Zenon
      <3> QED BY <3>1, <2>5, <1>3 DEF LinkInv
    <2>3. LET r == Body(decoder.frame, decoder.words, left, ok)
          IN  IF left <= 0 THEN Ends(r) ELSE Stays(r)
      BY <2>2, BodyTaken
    <2> HIDE DEF ok
    <2>4. left <= 0 /\ left = 0
      BY <2>5
    <2> QED BY <2>1, <2>3, <2>4
  <1>7. Advanced = NoReply
    BY <1>2, <1>4 DEF Advanced, NoReply
  <1>8. Effects(t)
    <2> DEFINE r == Body(decoder.frame, decoder.words, 0, TRUE)
    <2>1. CrcMatches(r) /\ r.frame = decoder.frame /\ r.words = decoder.words
      BY DEF CrcMatches, Body
    <2> HIDE DEF r
    <2>2. Ends(r)
      BY <1>6 DEF r
    <2> QED BY <2>1, <2>2, <1>2, <1>3 DEF Ends, Effects
  <1>9. Answers' = Append(Answers, decoder.frame) /\ reply' = [frame |-> decoder.frame, left |-> ReplyBytes(decoder.words)]
    BY <1>1, <1>7, <1>8, AnswersGrow
  <1>10. Len(Answers') = Len(Answers) + 1 /\ Len(Answers) \in Nat /\ First \in Nat
         /\ Len(mine) \in Nat /\ First + Len(mine) = Len(sent)
    <2>1. Answers \in Seq(Nat) /\ decoder.frame \in Nat
      BY AnswersType DEF LinkInv, LinkTypes, Decoders
    <2>2. Len(Answers') = Len(Answers) + 1 /\ Len(Answers) \in Nat
      BY <2>1, <1>9, Appended
    <2> QED BY <2>2, FirstType
  <1>11. Awaited' = Awaited + 1
    BY <1>1, <1>10 DEF Awaited
  <1>12. decoder'.at = "hunt"
    <2>1. PICK b \in BOOLEAN : b = (decoder.words >= SlowWords /\ Len(line) > 1)
      OBVIOUS
    <2>2. decoder' = [Hunting EXCEPT !.busy = b]
      BY <2>1, <1>8 DEF Effects
    <2>3. [Hunting EXCEPT !.busy = b].at = "hunt"
      BY HuntingDecoders
    <2> QED BY <2>2, <2>3
  <1>13. line' = <<>> => Len(Answers') = Len(mine')
    <2> SUFFICES ASSUME line' = <<>> PROVE Len(Answers') = Len(mine)
      BY <1>1
    <2>1. Len(line) = 1
      <3>1. Len(line') = 0
        OBVIOUS
      <3> QED BY <3>1, <1>1
    <2>2. First + Len(Answers) + 1 = Len(sent)
      BY <2>1, <1>4 DEF Awaited
    <2> QED BY <2>2, <1>10
  <1>14. line' # <<>> => line'[1].kind = "pad" /\ line'[2].frame = Awaited' /\ reply'.left <= 9
    <2> SUFFICES ASSUME line' # <<>>
                 PROVE  line'[1].kind = "pad" /\ line'[2].frame = Awaited' /\ reply'.left <= 9
      OBVIOUS
    <2>1. 1 < Len(line)
      <3>1. line' \in Seq(Tokens)
        BY ArrivalTyped DEF LinkInv, LinkTypes
      <3>2. Len(line') # 0 /\ Len(line') \in Nat
        BY <3>1
      <3> QED BY <3>2, <1>1
    <2>2. decoder.words > 0 /\ line[1 + 1].kind = "pad" /\ 1 + 2 <= Len(line)
          /\ line[1 + 2].frame = Awaited + 1
      BY <2>1, <1>4
    <2>3. 1 \in 1..Len(line') /\ 2 \in 1..Len(line') /\ 2 + 1 = 1 + 2
      BY <2>2, <1>1
    <2>4. line'[1] = line[1 + 1] /\ line'[2] = line[1 + 2]
      BY <2>3, <1>1
    <2>5. reply'.left = 9
      BY <2>2, <1>9 DEF ReplyBytes
    <2> QED BY <2>2, <2>4, <2>5, <1>11
  <1> QED BY <1>12, <1>13, <1>14 DEF Sounds, AtGap

LEMMA ArrivalSounds ==
  ASSUME LinkInv, Ordered, Sounds, Receive \/ Spoil, Unhurt'
  PROVE  Sounds'
  <1>1. line # <<>> /\ decoder.at \in {"hunt", "head", "body"}
    BY NextTokens DEF LinkInv, LinkTypes, Decoders
  <1>2. Spoil => line[1].kind = "pad"
    BY HurtStays
  <1>3. CASE decoder.at = "hunt"
    <2>1. line[1].kind = "pad" \/ line[1].kind = "sync"
      BY <1>1, <1>3 DEF Sounds, AtGap
    <2>2. CASE line[1].kind = "pad"
      BY <2>2, <1>3, PadArrives
    <2>3. CASE line[1].kind = "sync"
      <3>1. Receive
        BY <2>3, <1>2
      <3> QED BY <3>1, <2>3, <1>3, SyncArrives
    <2> QED BY <2>1, <2>2, <2>3
  <1>4. CASE decoder.at = "head"
    <2>1. line[1].kind = "head"
      BY <1>4 DEF Sounds, AtHeader
    <2>2. Receive
      BY <2>1, <1>2
    <2> QED BY <2>2, <1>4, HeadArrives
  <1>5. CASE decoder.at = "body"
    <2>1. PICK k \in Nat : RestOf(k)
      BY <1>5 DEF Sounds, InBody
    <2>2. CASE k = 0
      <3>1. line[0 + 1].kind = "crc" /\ 0 + 1 = 1
        BY <2>1, <2>2 DEF RestOf
      <3>2. Receive
        BY <3>1, <1>2
      <3> QED BY <3>2, <2>1, <2>2, <1>5, CrcArrives
    <2>3. CASE k # 0
      <3>1. 1 \in 1..k
        BY <2>3
      <3>2. line[1].kind = "word"
        BY <3>1, <2>1 DEF RestOf
      <3>3. Receive
        BY <3>2, <1>2
      <3> QED BY <3>3, <2>1, <2>3, <1>5, WordArrives
    <2> QED BY <2>2, <2>3
  <1> QED BY <1>1, <1>3, <1>4, <1>5

LEMMA OthersSound ==
  ASSUME LinkInv, Sounds, SendReply \/ Collect \/ Abort \/ TimeOut \/ UNCHANGED uartVars
  PROVE  Sounds'
  <1>1. /\ line' = line /\ decoder' = decoder /\ mine' = mine /\ sent' = sent
        /\ reply' = reply \/ (reply' = NoReply /\ line = <<>>)
    BY DEF SendReply, Collect, Abort, TimeOut, uartVars, bridge, host
  <1>2. Answers' = Answers
    BY SameAnswers
  <1>3. Awaited' = Awaited
    BY <1>1, <1>2 DEF Awaited, First
  <1>4. AtGap => AtGap'
    BY <1>1, <1>2, <1>3 DEF AtGap
  <1>5. AtHeader => AtHeader'
    BY <1>1, <1>3 DEF AtHeader
  <1>6. ASSUME InBody PROVE InBody'
    <2>1. PICK k \in Nat : RestOf(k)
      BY <1>6 DEF InBody
    <2>2. RestOf(k)'
      BY <2>1, <1>1, <1>3 DEF RestOf
    <2> QED BY <2>2, <1>1, <1>3, <1>6 DEF InBody
  <1> QED BY <1>1, <1>4, <1>5, <1>6 DEF Sounds

(* A sound exchange has its answers before the time is out.                *)
LEMMA TimesOutHurt ==
  ASSUME LinkInv, Sounds, TimeOut
  PROVE  FALSE
  <1>1. line = <<>> /\ reply = NoReply /\ inbox = <<>> /\ waiting
    BY DEF TimeOut
  <1>2. decoder.at = "hunt"
    <2>1. decoder.at # "head"
      BY <1>1 DEF Sounds, AtHeader
    <2>2. ASSUME decoder.at = "body" PROVE FALSE
      <3>1. PICK k \in Nat : k < Len(line)
        BY <2>2 DEF Sounds, InBody, RestOf
      <3>2. Len(line) = 0
        BY <1>1
      <3> QED BY <3>1, <3>2
    <2> QED BY <2>1, <2>2 DEF LinkInv, LinkTypes, Decoders
  <1>3. Len(Answers) = Len(mine)
    BY <1>1, <1>2 DEF Sounds, AtGap
  <1>4. Answers = got
    <2>1. Pending(reply) = <<>> /\ inbox \o <<>> = <<>>
      BY <1>1 DEF Pending
    <2>2. got \in Seq(Nat)
      BY DEF LinkInv, LinkTypes
    <2>3. got \o <<>> = got
      BY <2>2, ConcatEmptySeq
    <2> QED BY <2>1, <2>3, <1>1 DEF Answers
  <1>5. Len(got) < Len(mine) /\ Len(got) \in Nat /\ Len(mine) \in Nat
    BY <1>1 DEF LinkInv, LinkTypes, HostKnows
  <1> QED BY <1>3, <1>4, <1>5

LEMMA SoundInit ==
  ASSUME UartInit
  PROVE  SoundInv
  <1>1. line = <<>> /\ decoder.at = "hunt" /\ mine = <<>> /\ outcome # "timed out" /\ Answers = <<>>
    BY DEF UartInit, Hunting, Answers, Pending
  <1>2. Sounds
    BY <1>1 DEF Sounds, AtGap
  <1> QED BY <1>1, <1>2, OrderInit DEF SoundInv

LEMMA SoundStep ==
  ASSUME SoundInv, [UartNext]_uartVars
  PROVE  SoundInv'
  <1>1. LinkInv /\ OrderInv' /\ (quietly => Ordered)
    BY OrderStep DEF SoundInv, OrderInv
  <1>2. CASE \E b \in Batches : Exchange(b)
    <2>1. PICK b \in Batches : Exchange(b)
      BY <1>2
    <2>2. outcome' # "timed out"
      BY <2>1 DEF Exchange
    <2>3. ASSUME quietly' PROVE Sounds'
      <3>1. /\ Answers' = <<>> /\ line = <<>> /\ line' # <<>> /\ line'[1].kind = "sync"
            /\ line'[1].frame = First' + 1
            /\ decoder' = decoder /\ decoder.at = "hunt" /\ reply' = NoReply
        BY <2>1, <2>3, <1>1, ExchangeOrdered
      <3>2. ~decoder.busy
        BY <3>1, <1>1 DEF LinkInv, DecoderRests
      <3>3. Awaited' = First' + 1
        <4>1. First' \in Nat
          BY <2>1, <2>3, <1>1, ExchangeOrdered, FirstType
        <4>2. Len(Answers') = 0
          BY <3>1
        <4>3. Awaited' = First' + Len(Answers') + 1
          BY DEF Awaited
        <4> QED BY <4>1, <4>2, <4>3
      <3>4. reply'.left <= 1
        BY <3>1 DEF NoReply
      <3> QED BY <3>1, <3>2, <3>3, <3>4 DEF Sounds, AtGap
    <2> QED BY <2>2, <2>3, <1>1 DEF SoundInv
  <1>3. CASE Receive \/ Spoil \/ SpoilReply \/ SendReply \/ Collect \/ Abort \/ TimeOut
             \/ UNCHANGED uartVars
    <2>1. quietly' = quietly
      BY <1>3 DEF Receive, Spoil, SpoilReply, SendReply, Collect, Abort, TimeOut, Arrives, uartVars, host
    <2>2. SUFFICES ASSUME quietly
                   PROVE  (Unhurt' => Sounds') /\ (outcome' = "timed out" => ~Unhurt')
      BY <2>1, <1>1 DEF SoundInv
    <2>3. Ordered
      BY <2>2, <1>1
    <2>4. (Unhurt' => Unhurt) /\ (SpoilReply => ~Unhurt')
      BY <2>3, <1>1, <1>3, HurtStays
    <2>5. Unhurt' => Sounds
      BY <2>2, <2>4 DEF SoundInv
    <2>6. Unhurt' => Sounds'
      BY <2>3, <2>4, <2>5, <1>1, <1>3, ArrivalSounds, OthersSound
    <2>7. ASSUME outcome' = "timed out" PROVE ~Unhurt'
      <3>1. CASE TimeOut
        BY <3>1, <2>5, <1>1, TimesOutHurt
      <3>2. CASE ~TimeOut
        <4>1. outcome' = outcome
          <5>1. Collect => outcome' # "timed out" \/ outcome' = outcome
            BY DEF Collect, Ended
          <5>2. ~Abort
            BY <2>7 DEF Abort, Ended
          <5> QED BY <5>1, <5>2, <3>2, <2>7, <1>3
                 DEF Receive, Spoil, SpoilReply, SendReply, Arrives, uartVars, host
        <4> QED BY <4>1, <2>2, <2>4, <2>7 DEF SoundInv
      <3> QED BY <3>1, <3>2
    <2> QED BY <2>6, <2>7
  <1> QED BY <1>2, <1>3 DEF UartNext, Finished

LEMMA SoundAlways == UartSpec => []SoundInv
  <1>1. UartInit => SoundInv
    BY SoundInit
  <1>2. SoundInv /\ [UartNext]_uartVars => SoundInv'
    BY SoundStep
  <1> QED BY <1>1, <1>2, PTL DEF UartSpec

(* An exchange begun on a quiet link that returns has its own answers and  *)
(* no others, and its frames took effect once each, in order, after those  *)
(* of every earlier exchange: whatever the line spoils or loses, though    *)
(* the host checks no sequence number (exchange, write_batch).             *)
THEOREM OwnAnswersAlways == UartSpec => []QuietStartOwnAnswers
  <1>1. SoundInv => QuietStartOwnAnswers
    BY OwnAnswers DEF SoundInv
  <1> QED BY <1>1, SoundAlways, PTL

(* An exchange begun on a quiet link times out only if a byte of one of    *)
(* its frames or answers was spoiled: the bytes between the frames of a    *)
(* batch are enough for the bridge, which is deaf for a byte as it commits *)
(* and has no room for a second reply (write_batch's gap).                 *)
THEOREM SoundLineAlways == UartSpec => []SoundLineAnswers
  <1>1. SoundInv => SoundLineAnswers
    BY DEF SoundInv, SoundLineAnswers, Unhurt
  <1> QED BY <1>1, SoundAlways, PTL
=============================================================================
