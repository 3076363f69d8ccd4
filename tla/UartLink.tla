------------------------------- MODULE UartLink --------------------------------
(***************************************************************************)
(* The serial side channel: the host's exchange() and write_batch() at one *)
(* end, the bridge in the FPGA at the other, a line between them that may  *)
(* spoil a byte or lose one.                                               *)
(*                                                                         *)
(* A frame is its SYNC pair, its header, its words and its CRC, as tokens  *)
(* of a known length, each marked with the frame it belongs to.  The CRC   *)
(* is taken to catch every fault.  The bridge has no time-out: a frame     *)
(* that lost a byte is completed by the bytes of the next one.             *)
(***************************************************************************)
EXTENDS Integers, Sequences, FiniteSets, SequencesExt

CONSTANTS Batches,        \* the exchanges: sequences of frames, each a number
                          \* of words written, or 0 for a READ of one word
          SlowWords,      \* committing so many words outlasts a byte
          WrongCounts,    \* the counts a spoiled header may show
          MaxExchanges,   \* bound
          MaxFaults       \* bound: bytes spoiled or lost

ASSUME UartAssumption ==
  /\ \A b \in Batches : b \in Seq(Nat) /\ b # <<>> /\ (0 \in Range(b) => Len(b) = 1)
  /\ SlowWords \in Nat \ {0} /\ WrongCounts \subseteq Nat
  /\ MaxExchanges \in Nat /\ MaxFaults \in Nat

VARIABLES
  line,         \* tokens on their way to the bridge
  decoder,      \* the bridge's place, the bytes its frame still needs, the
                \* frame, whether it is sound so far, its words, and whether
                \* the bridge is busy committing as the next byte arrives
  reply,        \* the reply being sent: whose, and its bytes to go
  inbox,        \* replies in the host's input buffer
  waiting, mine, got,       \* the exchange: running; its frames; its replies
  outcome, quietly,         \* how it ended; whether it began on a quiet link
  exchanges, sent,          \* exchanges begun; the exchange of each frame
  effected, spoiled, faults \* frames that took effect; what a fault hit; bound

bridge == <<decoder, reply, effected>>
host == <<waiting, mine, got, outcome, quietly, exchanges, sent>>
uartVars == <<line, bridge, inbox, host, spoiled, faults>>

Unreadable == 0     \* a reply with a bad CRC, in place of its frame's number

-----------------------------------------------------------------------------
(* Frames.                                                                 *)

PaddingNone == <<>>  \* mutant: frames are sent without a gap
Padding == <<[kind |-> "pad", bytes |-> 8, frame |-> 0, words |-> 0]>>

FrameTokens(f, n) ==
  LET Token(k, b) == [kind |-> k, bytes |-> b, frame |-> f, words |-> n]
  IN  <<Token("sync", 2), Token("head", 8)>>
        \o [i \in 1..n |-> Token("word", 4)] \o <<Token("crc", 2)>>

(* The frames of a batch, numbered on from what was sent, with idle bytes  *)
(* between them.                                                           *)
Spaced(first, b, i) == (IF i = 1 THEN <<>> ELSE Padding) \o FrameTokens(first + i, b[i])

BatchTokens(first, b) ==
  LET upto[i \in 0..Len(b)] == IF i = 0 THEN <<>> ELSE upto[i - 1] \o Spaced(first, b, i)
  IN  upto[Len(b)]

ReplyBytes(n) == IF n = 0 THEN 13 ELSE 9

-----------------------------------------------------------------------------
Hunting == [at |-> "hunt", left |-> 0, frame |-> 0, sound |-> TRUE, words |-> 0, busy |-> FALSE]
NoReply == [frame |-> 0, left |-> 0]

UartInit ==
  /\ line = <<>> /\ decoder = Hunting /\ reply = NoReply /\ inbox = <<>>
  /\ waiting = FALSE /\ mine = <<>> /\ got = <<>> /\ outcome = "none" /\ quietly = TRUE
  /\ exchanges = 0 /\ sent = <<>>
  /\ effected = <<>> /\ spoiled = {} /\ faults = 0

(* The reply advances by as many bytes as arrive; when its last byte is    *)
(* out it is in the host's buffer.                                         *)
Advanced ==
  IF reply.left <= Head(line).bytes THEN NoReply ELSE [reply EXCEPT !.left = @ - Head(line).bytes]

CrcMatches(d) == d.left = 0 /\ d.sound

(* The end of a frame: a sound one takes effect, and is answered unless a  *)
(* reply is still being sent; a bad one is dropped without a word.         *)
Ends(d) ==
  IF CrcMatches(d)
    THEN /\ effected' = Append(effected, d.frame)
         /\ decoder' = [Hunting EXCEPT !.busy = d.words >= SlowWords /\ Len(line) > 1]
         /\ reply' = IF Advanced = NoReply
                       THEN [frame |-> d.frame, left |-> ReplyBytes(d.words)] ELSE Advanced
    ELSE decoder' = Hunting /\ reply' = Advanced /\ UNCHANGED effected

Stays(d) == decoder' = d /\ reply' = Advanced /\ UNCHANGED effected

InFrame(d, count) == Stays([d EXCEPT !.at = "body", !.left = 4 * count + 2, !.words = count])

(* The bridge takes token t, of which b bytes arrive, whole or not.        *)
Takes(t, b, whole) ==
  LET d == [decoder EXCEPT !.busy = FALSE]
      rest == [d EXCEPT !.left = @ - b, !.sound = @ /\ whole /\ t.frame = d.frame]
      header == whole /\ t.kind = "head"
  IN  \/ d.at = "hunt" /\ Stays(IF whole /\ t.kind = "sync" THEN [d EXCEPT !.at = "head"] ELSE d)
      \/ d.at = "head" /\ header /\ InFrame([d EXCEPT !.frame = t.frame], t.words)
      \/ d.at = "head" /\ ~header /\ Stays(Hunting)
      \/ d.at = "head" /\ ~header /\ \E n \in WrongCounts :
                                       InFrame([d EXCEPT !.sound = FALSE, !.frame = t.frame], n)
      \/ d.at = "body" /\ IF rest.left <= 0 THEN Ends(rest) ELSE Stays(rest)

Arrives ==
  /\ line # <<>> /\ line' = Tail(line)
  /\ inbox' = IF reply.left \in 1..Head(line).bytes THEN Append(inbox, reply.frame) ELSE inbox
  /\ UNCHANGED host

Receive ==
  /\ Arrives
  /\ LET t == Head(line)
     IN  Takes(t, IF decoder.busy THEN t.bytes - 1 ELSE t.bytes, ~decoder.busy)
  /\ UNCHANGED <<spoiled, faults>>

(* A byte of the next token is spoiled or lost, or its stop bit is.        *)
Spoil ==
  /\ Arrives
  /\ faults < MaxFaults /\ faults' = faults + 1
  /\ LET t == Head(line)
     IN  /\ Takes(t, t.bytes, FALSE) \/ Takes(t, t.bytes - 1, FALSE) \/ Stays(Hunting)
         /\ spoiled' = spoiled \cup {<<"request", t.frame>>}

(* Nothing arrives: the reply goes out, read by the host or not.           *)
SendReply ==
  /\ line = <<>> /\ reply # NoReply /\ reply' = NoReply
  /\ inbox' = Append(inbox, reply.frame)
  /\ UNCHANGED <<line, decoder, effected, host, spoiled, faults>>

SpoilReply ==
  /\ reply # NoReply /\ reply' = NoReply
  /\ faults < MaxFaults /\ faults' = faults + 1
  /\ inbox' \in {inbox, Append(inbox, Unreadable)}
  /\ spoiled' = spoiled \cup {<<"reply", reply.frame>>}
  /\ UNCHANGED <<line, decoder, effected, host>>

-----------------------------------------------------------------------------
(* The host.                                                               *)

Quiet == line = <<>> /\ reply = NoReply /\ decoder.at = "hunt"

EmptiedNever == inbox  \* mutant: the input buffer is not reset
Emptied == <<>>

(* exchange, write_batch: whatever lies in the input buffer is thrown      *)
(* away, with it perhaps the bytes of a reply that have come so far.       *)
Exchange(b) ==
  /\ ~waiting /\ waiting' = TRUE
  /\ exchanges < MaxExchanges /\ exchanges' = exchanges + 1
  /\ mine' = [i \in 1..Len(b) |-> Len(sent) + i] /\ got' = <<>>
  /\ sent' = sent \o [i \in 1..Len(b) |-> exchanges + 1]
  /\ line' = line \o BatchTokens(Len(sent), b)
  /\ inbox' = Emptied
  /\ reply' \in {reply, NoReply}
  /\ quietly' = Quiet /\ outcome' = "none"
  /\ UNCHANGED <<decoder, effected, spoiled, faults>>

Ended(how) == waiting' = FALSE /\ outcome' = how

(* As many replies as requests, in the order they come; what follows, the  *)
(* CRC of each is checked, its sequence number is not.                     *)
Collect ==
  /\ waiting /\ inbox # <<>>
  /\ inbox' = Tail(inbox) /\ got' = Append(got, Head(inbox))
  /\ IF Len(got') < Len(mine) THEN UNCHANGED <<waiting, outcome>>
                              ELSE Ended(IF Unreadable \in Range(got') THEN "raised" ELSE "ok")
  /\ UNCHANGED <<line, bridge, mine, quietly, exchanges, sent, spoiled, faults>>

(* The refill thread's exchange, when the thread is told to stop.          *)
Abort ==
  /\ waiting /\ Ended("aborted")
  /\ UNCHANGED <<line, bridge, inbox, mine, got, quietly, exchanges, sent, spoiled, faults>>

(* The time-out is seconds, a frame and its reply are milliseconds.        *)
TimeOut ==
  /\ waiting /\ line = <<>> /\ reply = NoReply /\ inbox = <<>> /\ Ended("timed out")
  /\ UNCHANGED <<line, bridge, inbox, mine, got, quietly, exchanges, sent, spoiled, faults>>

Finished == ~waiting /\ exchanges = MaxExchanges /\ UNCHANGED uartVars

UartNext ==
  \/ Receive \/ Spoil \/ SendReply \/ SpoilReply
  \/ Collect \/ Abort \/ TimeOut \/ Finished
  \/ \E b \in Batches : Exchange(b)

UartSpec ==
  /\ UartInit /\ [][UartNext]_uartVars
  /\ WF_uartVars(Receive) /\ WF_uartVars(SendReply) /\ WF_uartVars(Collect \/ TimeOut)

-----------------------------------------------------------------------------
(* An exchange that begins on a quiet link and returns has its own answers *)
(* and nobody else's, one for each request, and all its frames took effect *)
(* once each in the order they were sent, whatever the line lost ("a       *)
(* request gets exactly one reply frame").                                 *)
QuietStartOwnAnswers ==
  outcome = "ok" /\ quietly =>
    /\ got = mine
    /\ \E k \in 0..Len(effected) :
         /\ effected = SubSeq(effected, 1, k) \o mine
         /\ \A i \in 1..k : effected[i] \notin Range(mine)

(* Such an exchange times out only if a byte of it was spoiled: on a sound *)
(* line no frame and no answer of a batch is lost, though the bridge       *)
(* cannot listen while it commits nor queue a reply (write_batch's gap,    *)
(* "no ack is lost").                                                      *)
SoundLineAnswers ==
  outcome = "timed out" /\ quietly => \E hit \in spoiled : hit[2] \in Range(mine)

(* The session takes the link for one on which every answer is to the      *)
(* exchange that waits for it.                                             *)
Link == INSTANCE Transport WITH
  asked <- exchanges, open <- waiting,
  effects <- {e \in 1..exchanges : \A f \in DOMAIN sent : sent[f] = e => f \in Range(effected)},
  answer <- IF outcome = "ok" THEN sent[Last(got)] ELSE 0

ImplementsTransport == Link!Spec
=============================================================================
