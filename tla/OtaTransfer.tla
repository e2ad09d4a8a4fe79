----------------------------- MODULE OtaTransfer -----------------------------
(***************************************************************************)
(* One firmware download: the device of OtaService, a stop-and-wait Ymodem *)
(* sender (the host, external to the repository) and the 4G link between   *)
(* them, which keeps the order of what it carries and may lose it.  The    *)
(* operator sends OTASTART once.  The device may restart at any moment and *)
(* its flash may fail; both ends go on with what they then know.           *)
(***************************************************************************)
EXTENDS OtaService

CONSTANTS
  NumBlocks,    \* data blocks of the image; payload k is its k-th block,
                \* payload 0 the header, payload NumBlocks + 1 the empty header
  MaxRetries,   \* times the sender repeats itself before it gives up
  MaxLoss,      \* messages the link may lose
  MaxRestarts,  \* restarts of the device that nobody asked for
  MaxLate       \* times the sender's timer fires while an answer is under way

ASSUME TransferAssumption ==
  /\ NumBlocks \in Nat \ {0}
  /\ Payloads = 0 .. NumBlocks + 1
  /\ \A p \in Payloads :
       SizeIn[p] = CASE p = 0 -> 128 * NumBlocks [] p = NumBlocks + 1 -> NoName [] OTHER -> 0
  /\ {MaxRetries, MaxLoss, MaxRestarts, MaxLate} \subseteq Nat

VARIABLES
  snd,       \* what the sender last sent, or waits for
  blk,       \* the data block it is at
  retries,
  up, down,  \* the link, to the device and back
  lost,
  restarts, late,
  disturbed  \* something was lost or late, restarted or failed to program

linkVars == <<up, down, lost>>
sndVars  == <<snd, blk, retries>>
allVars  == <<vars, sndVars, linkVars, restarts, late, disturbed>>

Header(p) == [kind |-> "block", num |-> 0, len |-> 128, pay |-> p]
Data(k)   == [kind |-> "block", num |-> k % BlockMod, len |-> 128, pay |-> k]

\* What the sender sends in each of its states.
Outgoing(s, k) ==
  CASE s \in {"header", "header_c"} -> Header(0)
    [] s = "data"                   -> Data(k)
    [] s \in {"eot", "eot_c"}       -> [kind |-> "eot"]
    [] s = "last"                   -> Header(NumBlocks + 1)

Sending == snd \in {"header", "header_c", "data", "eot", "eot_c", "last"}

TransferInit ==
  /\ Init
  /\ snd = "idle" /\ blk = 1 /\ retries = 0 /\ up = <<>> /\ down = <<>>
  /\ lost = 0 /\ restarts = 0 /\ late = 0 /\ disturbed = FALSE

(***************************************************************************)
(* The device, its replies appended to the link.                           *)
(***************************************************************************)
FlashFails ==
  \/ pc \in {"erase_temp", "flush", "erase_meta", "program_meta"} /\ ym' = "ABORTED"
  \/ StoreFails /\ WriteLen > 0

DeviceStep ==
  /\ Consumer
  /\ RequestStart => up = <<>> /\ down = <<>>    \* five seconds: the link is quiet
  /\ down' = down \o tx'
  /\ disturbed' = (disturbed \/ FlashFails)
  /\ UNCHANGED <<sndVars, up, lost, restarts, late>>

\* OTASTART; the sender learns of it and waits for the first 'C'.
StartTransfer ==
  /\ snd = "idle" /\ AtStart
  /\ snd' = "wait_c"
  /\ UNCHANGED <<blk, retries, linkVars, restarts, late, disturbed>>

Deliver ==
  /\ up # <<>> /\ RxChunk(Head(up)) /\ up' = Tail(up)
  /\ UNCHANGED <<sndVars, down, lost, restarts, late, disturbed>>

Reboot == RebootIntoImage /\ UNCHANGED <<sndVars, linkVars, restarts, late, disturbed>>

\* A restart loses what arrives meanwhile with it.
Crash ==
  /\ restarts < MaxRestarts /\ OtherReset
  /\ restarts' = restarts + 1 /\ disturbed' = TRUE
  /\ UNCHANGED <<sndVars, linkVars, late>>

(***************************************************************************)
(* The link and the sender.                                                *)
(***************************************************************************)
Lose ==
  /\ lost < MaxLoss /\ lost' = lost + 1 /\ disturbed' = TRUE
  /\ \/ up # <<>> /\ up' = Tail(up) /\ UNCHANGED down
     \/ down # <<>> /\ down' = Tail(down) /\ UNCHANGED up
  /\ UNCHANGED <<vars, sndVars, restarts, late>>

GoTo(s, k) ==
  /\ snd' = s /\ blk' = k /\ retries' = 0
  /\ up' = Append(up, Outgoing(s, k))

Wait(s) == snd' = s /\ UNCHANGED <<blk, retries, up>>

\* Say it again, or give up and cancel.
Repeat ==
  /\ Sending
  /\ IF retries < MaxRetries
     THEN retries' = retries + 1 /\ up' = Append(up, Outgoing(snd, blk)) /\ UNCHANGED <<snd, blk>>
     ELSE snd' = "aborted" /\ up' = Append(up, [kind |-> "can"]) /\ UNCHANGED <<blk, retries>>

\* The replies a sender acts on; it ignores any other.
Advance(reply) ==
  \/ snd = "wait_c" /\ reply = "C" /\ GoTo("header", blk)
  \/ snd = "header" /\ reply = "ACK" /\ Wait("header_c")
  \/ snd = "header_c" /\ reply = "C" /\ GoTo("data", 1)
  \/ snd = "data" /\ reply = "ACK" /\ blk < NumBlocks /\ GoTo("data", blk + 1)
  \/ snd = "data" /\ reply = "ACK" /\ blk = NumBlocks /\ GoTo("eot", blk)
  \/ snd = "eot" /\ reply = "NAK" /\ GoTo("eot", blk)
  \/ snd = "eot" /\ reply = "ACK" /\ Wait("eot_c")
  \/ snd = "eot_c" /\ reply = "C" /\ GoTo("last", blk)
  \/ snd = "last" /\ reply = "ACK" /\ Wait("done")
  \/ snd # "eot" /\ reply = "NAK" /\ Repeat
  \/ snd = "header" /\ reply = "C" /\ Repeat
  \/ reply = "CAN" /\ snd # "done" /\ Wait("aborted")

Ignored(reply) ==
  \/ reply = "C" /\ snd \notin {"wait_c", "header", "header_c", "eot_c"}
  \/ reply = "ACK" /\ snd \notin {"header", "data", "eot", "last"}
  \/ reply = "NAK" /\ ~Sending
  \/ reply = "CAN" /\ snd = "done"

TakeReply ==
  /\ down # <<>> /\ down' = Tail(down)
  /\ \/ Advance(Head(down))
     \/ Ignored(Head(down)) /\ UNCHANGED <<sndVars, up>>
  /\ UNCHANGED <<vars, lost, restarts, late, disturbed>>

AnswerUnderWay == up # <<>> \/ down # <<>> \/ rx_queue # <<>> \/ pc # "poll" \/ reboot_pending

\* No answer in time, because there will be none or because it is late.
Timeout ==
  /\ Sending
  /\ \/ ~AnswerUnderWay /\ UNCHANGED late
     \/ AnswerUnderWay /\ late < MaxLate /\ late' = late + 1
  /\ Repeat /\ disturbed' = (disturbed \/ AnswerUnderWay)
  /\ UNCHANGED <<vars, down, lost, restarts>>

\* A sender nobody answers while it waits for the first 'C'.
GiveUp ==
  /\ snd = "wait_c" /\ svc # "WAIT_START" /\ down = <<>>
  /\ snd' = "aborted"
  /\ UNCHANGED <<vars, blk, retries, linkVars, restarts, late, disturbed>>

Sender == TakeReply \/ Timeout \/ GiveUp

TransferNext == DeviceStep \/ StartTransfer \/ Deliver \/ Reboot \/ Crash \/ Lose \/ Sender

TransferSpec == TransferInit /\ [][TransferNext]_allVars

\* The consumer runs, the link delivers what it does not lose, the sender
\* answers and its timer fires.  Losses, restarts and OTASTART are free.
FairTransfer ==
  TransferSpec /\ WF_allVars(DeviceStep) /\ WF_allVars(Reboot)
               /\ WF_allVars(Deliver) /\ WF_allVars(Sender)

-------------------------------------------------------------------------------
TransferTypeOK ==
  /\ TypeOK
  /\ snd \in {"idle", "wait_c", "header", "header_c", "data", "eot", "eot_c", "last", "done", "aborted"}
  /\ blk \in 1 .. NumBlocks /\ retries \in 0 .. MaxRetries
  /\ up \in Seq(Chunk) /\ down \in Seq({"ACK", "NAK", "C", "CAN"})
  /\ lost \in 0 .. MaxLoss /\ restarts \in 0 .. MaxRestarts
  /\ late \in 0 .. MaxLate /\ disturbed \in BOOLEAN

\* Flash holds the image's first blocks, each once and in order, whatever was
\* repeated, lost or late: a repeated block is answered and not stored twice,
\* and a restart in the middle never lets a later block follow an earlier one.
ImagePrefix == \A i \in 1 .. Len(temp) : temp[i] = <<i, 128>>

\* Metadata for the bootloader means that flash holds the whole image, and so
\* does the sender's belief that it is done (unless the device restarted: it
\* then answers a repeated empty header as if it had just received an image).
\* The service does not compare received_size with image_size: that no block
\* is missing rests on a sender to which no answer comes late.
WholeImage ==
  late = 0 /\ (meta.size > 0 \/ (snd = "done" /\ restarts = 0)) => Len(temp) = NumBlocks

\* An undisturbed download never comes to a standstill: until the sender has its
\* last ACK something is under way to it or from it, or the device is at work on
\* what it said, so its timer has nothing to make good; and neither side cancels.
UndisturbedGoesOn ==
  ~disturbed => snd # "aborted" /\ ym # "ABORTED" /\ (Sending => AnswerUnderWay)

\* The device answers every EOT, header and data block of an undisturbed
\* download so that the next step follows: it ends with the metadata written.
CleanTransferCompletes ==
  snd = "wait_c" ~> (meta.size > 0 \/ disturbed)

\* Whatever is lost or fails, the sender comes to an end, and a device that is
\* still receiving by then was left behind without a CAN.
TransferEnds == snd = "wait_c" ~> snd \in {"done", "aborted"}
===============================================================================
