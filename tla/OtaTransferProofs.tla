-------------------------- MODULE OtaTransferProofs --------------------------
(***************************************************************************)
(* The device of OtaTransfer is that of OtaService, so what is proved of   *)
(* the latter holds in every download, however many blocks it has and      *)
(* whatever the link loses.                                                *)
(***************************************************************************)
EXTENDS OtaTransfer, OtaContractProofs

Replies == {"ACK", "NAK", "C", "CAN"}

\* What a sender puts on the link: of the blocks, its headers and its data.
Sent == Control \cup {Header(0), Header(NumBlocks + 1)} \cup {Data(k) : k \in 1 .. NumBlocks}

\* The sender, the link and the history have their types.
LinkTyped ==
  /\ snd \in {"idle", "wait_c", "header", "header_c", "data", "eot", "eot_c", "last", "done", "aborted"}
  /\ blk \in 1 .. NumBlocks /\ retries \in 0 .. MaxRetries
  /\ up \in Seq(Sent) /\ down \in Seq(Replies)
  /\ lost \in 0 .. MaxLoss /\ restarts \in 0 .. MaxRestarts
  /\ late \in 0 .. MaxLate /\ disturbed \in BOOLEAN

\* Each is a chunk.
LEMMA SentChunks == Sent \subseteq Chunk /\ [kind |-> "can"] \in Sent /\ Idle \in Sent
<1>1. /\ 0 \in Payloads /\ NumBlocks + 1 \in Payloads
      /\ \A k \in 1 .. NumBlocks : k \in Payloads /\ k % BlockMod \in 0 .. BlockMod - 1
      /\ 0 \in 0 .. BlockMod - 1
  BY TransferAssumption, BlockModBound
<1>2. Header(0) \in Chunk /\ Header(NumBlocks + 1) \in Chunk
  BY <1>1 DEF Header, Chunk, Block, BlockLens
<1>3. ASSUME NEW k \in 1 .. NumBlocks PROVE Data(k) \in Chunk
  BY <1>1 DEF Data, Chunk, Block, BlockLens
<1> QED
  BY <1>2, <1>3 DEF Sent, Control, Chunk, Idle

\* What is taken from, or put at the end of, a queue of them.
LEMMA SentSeqs ==
  ASSUME NEW q \in Seq(Sent)
  PROVE  /\ q \in Seq(Chunk)
         /\ q # <<>> => Head(q) \in Sent /\ Tail(q) \in Seq(Sent)
         /\ \A c \in Sent : Append(q, c) \in Seq(Sent)
BY SentChunks

LEMMA Outgoings ==
  ASSUME NEW s, s \in {"header", "header_c", "data", "eot", "eot_c", "last"},
         NEW k \in 1 .. NumBlocks
  PROVE  Outgoing(s, k) \in Sent
<1>1. [kind |-> "eot"] \in Sent
  BY DEF Sent, Control
<1> QED
  BY <1>1 DEF Outgoing, Sent

\* A step of the consumer answers with control bytes.
LEMMA RepliesOnly == ASSUME Consumer PROVE tx' \in Seq(Replies)
<1>1. /\ <<>> \in Seq(Replies) /\ <<"C">> \in Seq(Replies) /\ <<"ACK">> \in Seq(Replies)
      /\ <<"NAK">> \in Seq(Replies) /\ <<"ACK", "C">> \in Seq(Replies) /\ CanCan \in Seq(Replies)
  BY DEF Replies, CanCan
<1> USE <1>1
<1>2. CASE Dequeue \/ RequestStart \/ ReadHeader \/ Verify \/ NotifyError
  BY <1>2 DEF Dequeue, RequestStart, ReadHeader, Verify, NotifyError
<1>3. CASE HandleNoise \/ HandleEot \/ HandleLateHeader \/ HandleOtherData
  BY <1>3 DEF HandleNoise, HandleEot, HandleLateHeader, HandleOtherData, Reply
<1>4. CASE HandleCan \/ HandleStrayData \/ StoreBlock \/ StoreFails
  BY <1>4 DEF HandleCan, HandleStrayData, StoreBlock, StoreFails, Abort
<1>5. CASE BeginImage \/ EraseTemp \/ StartData \/ BeginFinish \/ FlushCache \/ EraseMeta \/ ProgramMeta
  BY <1>5 DEF BeginImage, EraseTemp, StartData, BeginFinish, FlushCache, EraseMeta, ProgramMeta, Abort
<1> QED
  BY <1>2, <1>3, <1>4, <1>5 DEF Consumer

\* The bounds of a download are natural numbers.
LEMMA Limits ==
  /\ NumBlocks \in Nat /\ NumBlocks > 0 /\ MaxRetries \in Nat
  /\ MaxLoss \in Nat /\ MaxRestarts \in Nat /\ MaxLate \in Nat
<1>1. NumBlocks \in Nat /\ NumBlocks > 0
  BY TransferAssumption
<1>2. MaxRetries \in Nat /\ MaxLoss \in Nat /\ MaxRestarts \in Nat /\ MaxLate \in Nat
  BY TransferAssumption, Zenon
<1> QED
  BY <1>1, <1>2

LEMMA LinkInit == TransferInit => LinkTyped
<1> SUFFICES ASSUME TransferInit PROVE LinkTyped
  OBVIOUS
<1>1. snd = "idle" /\ blk = 1 /\ retries = 0 /\ lost = 0 /\ restarts = 0 /\ late = 0 /\ disturbed = FALSE
  BY DEF TransferInit
<1>2. up \in Seq(Sent) /\ down \in Seq(Replies)
  BY DEF TransferInit
<1>3. disturbed \in BOOLEAN
  BY <1>1
<1>4. blk \in 1 .. NumBlocks /\ retries \in 0 .. MaxRetries
  BY <1>1, Limits
<1>5. lost \in 0 .. MaxLoss /\ restarts \in 0 .. MaxRestarts /\ late \in 0 .. MaxLate
  BY <1>1, Limits
<1> QED
  BY <1>1, <1>2, <1>3, <1>4, <1>5 DEF LinkTyped

LEMMA LinkStep == LinkTyped /\ [TransferNext]_allVars => LinkTyped'
<1> SUFFICES ASSUME LinkTyped, [TransferNext]_allVars PROVE LinkTyped'
  OBVIOUS
<1> USE Limits DEF LinkTyped
<1>1. CASE DeviceStep
  <2>1. tx' \in Seq(Replies)
    BY <1>1, RepliesOnly DEF DeviceStep
  <2>2. down' \in Seq(Replies)
    BY <1>1, <2>1 DEF DeviceStep
  <2>3. disturbed' \in BOOLEAN
    BY <1>1 DEF DeviceStep
  <2> QED
    BY <1>1, <2>2, <2>3 DEF DeviceStep, sndVars
<1>2. CASE StartTransfer \/ Reboot
  BY <1>2 DEF StartTransfer, Reboot, linkVars, sndVars
<1>3. CASE Crash
  BY <1>3 DEF Crash, linkVars, sndVars
<1>4. CASE Deliver
  BY <1>4 DEF Deliver, sndVars
<1>5. CASE Lose
  <2>1. up' \in Seq(Sent) /\ down' \in Seq(Replies)
    <3>1. CASE up # <<>> /\ up' = Tail(up) /\ UNCHANGED down
      BY <3>1, SentSeqs
    <3>2. CASE down # <<>> /\ down' = Tail(down) /\ UNCHANGED up
      BY <3>2, SentSeqs
    <3> QED
      BY <1>5, <3>1, <3>2 DEF Lose
  <2>2. lost' \in 0 .. MaxLoss
    BY <1>5 DEF Lose
  <2>3. disturbed' \in BOOLEAN
    BY <1>5 DEF Lose
  <2> QED
    BY <1>5, <2>1, <2>2, <2>3 DEF Lose, sndVars
<1>6. ASSUME NEW s, s \in {"header", "header_c", "data", "eot", "eot_c", "last"},
             NEW k \in 1 .. NumBlocks, GoTo(s, k)
      PROVE  snd' = s /\ blk' = k /\ retries' = 0 /\ up' \in Seq(Sent)
  BY <1>6, Outgoings DEF GoTo
<1>7. ASSUME Repeat
      PROVE  /\ snd' \in {snd, "aborted"} /\ blk' = blk
             /\ retries' \in 0 .. MaxRetries /\ up' \in Seq(Sent)
  <2>1. Outgoing(snd, blk) \in Sent /\ [kind |-> "can"] \in Sent
    BY <1>7, Outgoings, SentChunks DEF Repeat, Sending
  <2>2. CASE retries < MaxRetries
    BY <1>7, <2>1, <2>2 DEF Repeat
  <2>3. CASE ~(retries < MaxRetries)
    <3>1. snd' = "aborted" /\ up' = Append(up, [kind |-> "can"]) /\ blk' = blk /\ retries' = retries
      BY <1>7, <2>3 DEF Repeat
    <3>2. up' \in Seq(Sent)
      BY <2>1, <3>1
    <3> QED
      BY <3>1, <3>2
  <2> QED
    BY <2>2, <2>3
<1>8. CASE TakeReply
  <2>1. down' \in Seq(Replies)
    BY <1>8 DEF TakeReply
  <2>2. /\ snd' \in {"idle", "wait_c", "header", "header_c", "data", "eot", "eot_c", "last", "done", "aborted"}
        /\ blk' \in 1 .. NumBlocks /\ retries' \in 0 .. MaxRetries /\ up' \in Seq(Sent)
    <3>1. CASE Ignored(Head(down)) /\ UNCHANGED <<sndVars, up>>
      BY <3>1 DEF sndVars
    <3>2. CASE Advance(Head(down))
      <4>1. CASE Repeat
        BY <1>7, <4>1
      <4>2. CASE \E s \in {"header_c", "eot_c", "done", "aborted"} : Wait(s)
        BY <4>2 DEF Wait
      <4>3. CASE \/ GoTo("header", blk) \/ GoTo("data", 1) \/ GoTo("eot", blk) \/ GoTo("last", blk)
                 \/ (blk < NumBlocks /\ GoTo("data", blk + 1))
        <5>1. 1 \in 1 .. NumBlocks /\ (blk < NumBlocks => blk + 1 \in 1 .. NumBlocks)
          OBVIOUS
        <5>2. 0 \in 0 .. MaxRetries
          OBVIOUS
        <5> QED
          BY <1>6, <4>3, <5>1, <5>2
      <4> QED
        BY <3>2, <4>1, <4>2, <4>3 DEF Advance
    <3> QED
      BY <1>8, <3>1, <3>2 DEF TakeReply
  <2> QED
    BY <1>8, <2>1, <2>2 DEF TakeReply
<1>9. CASE Timeout
  <2>1. late' \in 0 .. MaxLate /\ disturbed' \in BOOLEAN
    BY <1>9 DEF Timeout
  <2> QED
    BY <1>7, <1>9, <2>1 DEF Timeout
<1>10. CASE GiveUp
  BY <1>10 DEF GiveUp, linkVars
<1>11. CASE UNCHANGED allVars
  BY <1>11 DEF allVars, sndVars, linkVars
<1> QED
  BY <1>1, <1>2, <1>3, <1>4, <1>5, <1>8, <1>9, <1>10, <1>11 DEF TransferNext, Sender

\* A step of the download is a step of the device, or leaves it alone.
LEMMA DeviceStepOnly == LinkTyped /\ [TransferNext]_allVars => [Next]_vars
<1> SUFFICES ASSUME LinkTyped, [TransferNext]_allVars PROVE [Next]_vars
  OBVIOUS
<1>1. CASE Deliver
  <2>1. Head(up) \in Chunk /\ RxChunk(Head(up))
    BY <1>1, SentSeqs, SentChunks DEF Deliver, LinkTyped
  <2> QED
    BY <2>1 DEF Next, Isr
<1>2. CASE ~Deliver
  BY <1>2
  DEF TransferNext, DeviceStep, StartTransfer, Reboot, Crash, Lose, Sender, TakeReply, Timeout,
      GiveUp, allVars, Next, Isr
<1> QED
  BY <1>1, <1>2

LEMMA LinkHolds == TransferSpec => []LinkTyped
BY LinkInit, LinkStep, PTL DEF TransferSpec

\* The device of a download behaves as OtaService says, so every theorem about
\* that holds here as well: a real sender does no more than any host may.
THEOREM DeviceIsService == TransferSpec => Spec
<1>1. TransferInit => Init
  BY DEF TransferInit
<1> QED
  BY <1>1, DeviceStepOnly, LinkHolds, PTL DEF TransferSpec, Spec

\* In a download the state keeps its types: in particular the sender never
\* goes past the last block, and never repeats itself more often than it may.
THEOREM TransferTyped == TransferSpec => []TransferTypeOK
<1>1. TypeOK /\ LinkTyped => TransferTypeOK
  BY SentSeqs DEF TransferTypeOK, LinkTyped, Replies
<1> QED
  BY <1>1, LinkHolds, DeviceIsService, TypeCorrect, PTL
-------------------------------------------------------------------------------
(***************************************************************************)
(* What reaches flash, for an image of fewer blocks than block numbers.    *)
(***************************************************************************)

\* What the device has queued and works on came from the sender.
Queued == cur \in Sent /\ rx_queue \in Seq(Sent)

\* While data is received the area holds a prefix of the image, the size of
\* which is that of the header (or 0, where an AT command cleared the image
\* between a header nobody asked for and its erase), and the block number is
\* that of the block that follows, which wraps only at the last.
Following ==
  /\ pc = "begin" => IsHeader
  /\ pc \in {"erase_temp", "start_data"} \/ ym = "RECV_DATA" => image_size \in {0, 128 * NumBlocks}
  /\ ym = "RECV_DATA" =>
       /\ received_size = 128 * Len(temp)
       /\ \/ block_num = Len(temp) + 1
          \/ block_num = 0 /\ Len(temp) + 1 = BlockMod

PInv == IInv /\ LinkTyped /\ Queued /\ Following /\ ImagePrefix

\* A block that is a header announces the image, or nothing; a block that is
\* not carries its number's data.
LEMMA SentBlocks ==
  ASSUME NumBlocks < BlockMod, NEW c \in Sent, c.kind = "block"
  PROVE  /\ c.len = 128 /\ c.num \in Nat
         /\ c.num = 0 => SizeIn[c.pay] \in {128 * NumBlocks, NoName}
         /\ c.num # 0 => c.pay = c.num /\ c.num \in 1 .. NumBlocks
<1> USE Limits, BlockModBound
<1>1. CASE c \in {Header(0), Header(NumBlocks + 1)}
  <2>1. 0 \in Payloads /\ NumBlocks + 1 \in Payloads
    BY TransferAssumption
  <2>2. SizeIn[0] = 128 * NumBlocks /\ SizeIn[NumBlocks + 1] = NoName
    BY <2>1, TransferAssumption
  <2> QED
    BY <1>1, <2>2 DEF Header
<1>2. CASE c \in {Data(k) : k \in 1 .. NumBlocks}
  <2>1. PICK k \in 1 .. NumBlocks : c = Data(k)
    BY <1>2
  <2>2. k % BlockMod = k
    OBVIOUS
  <2> QED
    BY <2>1, <2>2 DEF Data
<1>3. CASE c \in Control
  BY <1>3 DEF Control
<1> QED
  BY <1>1, <1>2, <1>3 DEF Sent

LEMMA QueuedStep == PInv /\ [TransferNext]_allVars => Queued'
<1> SUFFICES ASSUME PInv, [TransferNext]_allVars PROVE Queued'
  OBVIOUS
<1> USE DEF PInv, Queued
<1>1. CASE Deliver
  <2>1. Head(up) \in Sent
    BY <1>1, SentSeqs DEF Deliver, LinkTyped
  <2> QED
    BY <1>1, <2>1, SentSeqs DEF Deliver, RxChunk, Enqueued
<1>2. CASE Dequeue
  BY <1>2, SentSeqs DEF Dequeue
<1>3. CASE cur' \in {cur, Idle} /\ rx_queue' \in {rx_queue, <<>>}
  <2>1. <<>> \in Seq(Sent)
    OBVIOUS
  <2> QED
    BY <1>3, <2>1, SentChunks
<1>4. CASE Consumer /\ ~Dequeue
  <2>1. CASE RequestStart \/ ReadHeader \/ Verify \/ NotifyError \/ HandleNoise \/ HandleEot \/ HandleLateHeader \/ HandleOtherData
    BY <1>3, <2>1 DEF RequestStart, ReadHeader, Verify, NotifyError, HandleNoise, HandleEot,
      HandleLateHeader, HandleOtherData, Reply
  <2>2. CASE HandleCan \/ HandleStrayData \/ StoreBlock \/ StoreFails \/ BeginImage \/ EraseTemp \/ StartData
    BY <1>3, <2>2 DEF HandleCan, HandleStrayData, StoreBlock, StoreFails, Abort, BeginImage, EraseTemp, StartData
  <2>3. CASE BeginFinish \/ FlushCache \/ EraseMeta \/ ProgramMeta
    BY <1>3, <2>3 DEF BeginFinish, FlushCache, EraseMeta, ProgramMeta, Abort
  <2> QED
    BY <1>4, <2>1, <2>2, <2>3 DEF Consumer
<1>5. CASE AtStart \/ RebootIntoImage \/ OtherReset \/ UNCHANGED vars
  BY <1>3, <1>5 DEF AtStart, HaltInIsr, RebootIntoImage, OtherReset, Restart, vars
<1> QED
  BY <1>1, <1>2, <1>4, <1>5
  DEF TransferNext, DeviceStep, StartTransfer, Reboot, Crash, Lose, Sender, TakeReply, Timeout,
      GiveUp, allVars

\* The one step that adds to the area adds the block that follows.
LEMMA StoreFollows ==
  ASSUME NumBlocks < BlockMod, PInv, StoreBlock
  PROVE  /\ temp' = Append(temp, <<Len(temp) + 1, 128>>)
         /\ received_size' = 128 * Len(temp')
         /\ \/ block_num' = Len(temp') + 1
            \/ block_num' = 0 /\ Len(temp') + 1 = BlockMod
<1> USE Limits, BlockModBound
<1>1. /\ ym = "RECV_DATA" /\ pc = "feed" /\ cur.kind = "block" /\ cur.num # 0
      /\ cur.num = block_num /\ WriteLen > 0
      /\ temp \in Seq(Piece) /\ Len(temp) \in Nat
      /\ image_size \in Nat /\ received_size \in Nat
  BY DEF StoreBlock, Feeding, ExpectedData, IsData, PInv, IInv, TypeOK, DataTyped, SizesTyped
<1>2. cur.len = 128 /\ cur.pay = Len(temp) + 1 /\ block_num = Len(temp) + 1 /\ block_num <= NumBlocks
  BY <1>1, SentBlocks DEF PInv, Queued, Following
<1>3. received_size = 128 * Len(temp) /\ image_size = 128 * NumBlocks
  BY <1>1 DEF PInv, Following, WriteLen, Remaining
<1>4. WriteLen = 128
  BY <1>1, <1>2, <1>3 DEF WriteLen, Remaining
<1>5. temp' = Append(temp, <<Len(temp) + 1, 128>>) /\ received_size' = received_size + 128
  BY <1>2, <1>4 DEF StoreBlock
<1>6. Len(temp') = Len(temp) + 1
  BY <1>1, <1>5
<1>7. block_num' = IF block_num + 1 = BlockMod THEN 0 ELSE block_num + 1
  <2>1. block_num' = (block_num + 1) % BlockMod
    BY DEF StoreBlock, NextBlock
  <2>2. block_num + 1 <= BlockMod /\ block_num \in Nat
    BY <1>1, <1>2
  <2>3. BlockMod % BlockMod = 0
    OBVIOUS
  <2>4. block_num + 1 < BlockMod => (block_num + 1) % BlockMod = block_num + 1
    BY <2>2
  <2> QED
    BY <2>1, <2>2, <2>3, <2>4
<1> QED
  BY <1>1, <1>2, <1>3, <1>5, <1>6, <1>7

LEMMA FollowingStep ==
  ASSUME NumBlocks < BlockMod, PInv, [TransferNext]_allVars
  PROVE  Following'
<1> USE DEF PInv, Following
<1>a. /\ pc \in {"begin", "erase_temp", "start_data"} => ym # "RECV_DATA"
      /\ pc = "error" => ym # "RECV_DATA"
      /\ pc \in {"erase_temp", "start_data"} => received_size = 0
      /\ pc = "start_data" => temp = <<>>
  BY DEF IInv, PcAgrees, SizesAgree, StreamAgrees, HeaderExpected
<1>1. CASE UNCHANGED <<ym, block_num, image_size, received_size, temp>>
           /\ (pc' \in {"begin", "erase_temp", "start_data"} => pc' = pc /\ cur' = cur)
  BY <1>1 DEF IsHeader
<1>2. CASE ym' # "RECV_DATA" /\ pc' \notin {"begin", "erase_temp", "start_data"}
  BY <1>2
<1>3. CASE StoreBlock
  <2>1. /\ received_size' = 128 * Len(temp')
        /\ \/ block_num' = Len(temp') + 1
           \/ block_num' = 0 /\ Len(temp') + 1 = BlockMod
    BY <1>3, StoreFollows
  <2>2. ym = "RECV_DATA" /\ image_size' = image_size /\ pc' = "poll"
    BY <1>3 DEF StoreBlock, ExpectedData
  <2> QED
    BY <2>1, <2>2
<1>4. CASE ReadHeader
  BY <1>4 DEF ReadHeader, HeaderExpected, IsHeader, imageVars
<1>5. CASE BeginImage
  <2>1. CASE Abort(CanCan)
    BY <1>2, <2>1 DEF Abort
  <2>2. CASE /\ SizeIn[cur.pay] \in 1 .. MaxSize /\ StartImage(SizeIn[cur.pay])
             /\ pc' = "erase_temp" /\ UNCHANGED ymodemVars
    <3>1. SizeIn[cur.pay] \in {128 * NumBlocks, NoName}
      BY <1>5, SentBlocks DEF BeginImage, Queued, IsHeader
    <3>2. image_size' = 128 * NumBlocks
      BY <2>2, <3>1 DEF StartImage, NoName
    <3>3. ym' # "RECV_DATA"
      BY <1>5, <1>a, <2>2 DEF BeginImage, ymodemVars
    <3> QED
      BY <2>2, <3>2, <3>3
  <2> QED
    BY <1>5, <2>1, <2>2 DEF BeginImage
<1>6. CASE EraseTemp
  <2>1. CASE Abort(CanCan)
    BY <1>2, <2>1 DEF Abort
  <2>2. CASE temp' = <<>> /\ pc' = "start_data" /\ UNCHANGED <<ymodemVars, imageVars>>
    BY <1>6, <1>a, <2>2 DEF EraseTemp, ymodemVars, imageVars
  <2> QED
    BY <1>6, <2>1, <2>2 DEF EraseTemp
<1>11. CASE StartData
  <2>1. /\ temp' = <<>> /\ ym' = "RECV_DATA" /\ block_num' = 1 /\ pc' = "poll"
        /\ image_size' \in {0, 128 * NumBlocks} /\ received_size' = 0
    BY <1>11, <1>a DEF StartData, imageVars, flashVars
  <2>2. Len(temp') = 0
    BY <2>1
  <2> QED
    BY <2>1, <2>2
<1>7. CASE AtStart
  <2>1. CASE HaltInIsr
    BY <1>1, <2>1 DEF HaltInIsr, ymodemVars, imageVars, flashVars
  <2>2. CASE ym' = "WAIT_HEADER" /\ StartImage(0) /\ UNCHANGED <<pc, cur>>
    BY <2>2 DEF StartImage, IsHeader
  <2> QED
    BY <1>7, <2>1, <2>2 DEF AtStart
<1>8. CASE RebootIntoImage \/ OtherReset
  BY <1>2, <1>8 DEF RebootIntoImage, OtherReset, Restart
<1>9. CASE Consumer /\ ~(StoreBlock \/ ReadHeader \/ BeginImage \/ EraseTemp \/ StartData)
  <2>1. CASE Dequeue \/ RequestStart \/ HandleNoise \/ HandleLateHeader \/ HandleOtherData
    BY <1>1, <2>1 DEF Dequeue, RequestStart, HandleNoise, HandleLateHeader, HandleOtherData,
      Feeding, Reply, ymodemVars, imageVars, flashVars
  <2>2. CASE HandleEot \/ BeginFinish \/ HandleCan \/ HandleStrayData \/ StoreFails
    BY <1>2, <2>2 DEF HandleEot, Reply, BeginFinish, HandleCan, HandleStrayData, StoreFails, Abort
  <2>3. CASE Verify
    BY <1>1, <2>3 DEF Verify, ymodemVars, imageVars, flashVars
  <2>4. CASE FlushCache \/ EraseMeta \/ ProgramMeta
    BY <1>1, <1>2, <2>4 DEF FlushCache, EraseMeta, ProgramMeta, Abort, ymodemVars, imageVars, flashVars
  <2>5. CASE NotifyError
    BY <1>2, <1>a, <2>5 DEF NotifyError, ymodemVars
  <2> QED
    BY <1>9, <2>1, <2>2, <2>3, <2>4, <2>5 DEF Consumer
<1>10. CASE UNCHANGED vars \/ Deliver
  BY <1>1, <1>10 DEF vars, ymodemVars, imageVars, flashVars, Deliver, RxChunk
<1> QED
  BY <1>3, <1>4, <1>5, <1>6, <1>7, <1>8, <1>9, <1>10, <1>11
  DEF TransferNext, DeviceStep, StartTransfer, Reboot, Crash, Lose, Sender, TakeReply, Timeout,
      GiveUp, allVars

\* Only a stored block makes the area longer.
LEMMA AreaGrows ==
  [TransferNext]_allVars => StoreBlock \/ temp' \in {temp, <<>>}
<1>1. Consumer => StoreBlock \/ temp' \in {temp, <<>>}
  BY DEF Consumer, Dequeue, RequestStart, HandleNoise, HandleEot, HandleCan, HandleLateHeader,
    ReadHeader, BeginImage, EraseTemp, StartData, StoreFails, HandleOtherData, HandleStrayData, BeginFinish,
    Verify, FlushCache, EraseMeta, ProgramMeta, NotifyError, Reply, Abort, flashVars
<1>2. AtStart \/ RebootIntoImage \/ OtherReset \/ Deliver \/ UNCHANGED vars => temp' = temp
  BY DEF AtStart, HaltInIsr, RebootIntoImage, OtherReset, Restart, Deliver, RxChunk, flashVars, vars
<1> QED
  BY <1>1, <1>2
  DEF TransferNext, DeviceStep, StartTransfer, Reboot, Crash, Lose, Sender, TakeReply, Timeout,
      GiveUp, allVars

LEMMA PrefixStep ==
  ASSUME NumBlocks < BlockMod, PInv, [TransferNext]_allVars
  PROVE  ImagePrefix'
<1> USE DEF PInv, ImagePrefix
<1>1. CASE StoreBlock
  <2>1. temp' = Append(temp, <<Len(temp) + 1, 128>>)
    BY <1>1, StoreFollows
  <2>2. temp \in Seq(Piece) /\ Len(temp) \in Nat
    BY DEF IInv, TypeOK, DataTyped
  <2>3. /\ Len(temp') = Len(temp) + 1 /\ temp'[Len(temp) + 1] = <<Len(temp) + 1, 128>>
        /\ \A i \in 1 .. Len(temp) : temp'[i] = temp[i]
    BY <2>1, <2>2
  <2>4. ASSUME NEW i \in 1 .. Len(temp') PROVE temp'[i] = <<i, 128>>
    BY <2>2, <2>3, <2>4
  <2> QED
    BY <2>4
<1>2. CASE temp' \in {temp, <<>>}
  BY <1>2
<1> QED
  BY <1>1, <1>2, AreaGrows

\* The device's queue and the area keep to the image.
LEMMA PrefixHolds == ASSUME NumBlocks < BlockMod PROVE TransferSpec => []PInv
<1>1. TransferInit => PInv
  <2> SUFFICES ASSUME TransferInit PROVE PInv
    OBVIOUS
  <2>1. IInv /\ LinkTyped
    BY InitIInv, LinkInit DEF TransferInit
  <2>2. cur = Idle /\ rx_queue = <<>> /\ temp = <<>> /\ pc = "poll" /\ ym = "WAIT_HEADER"
    BY DEF TransferInit, Init, RamInit
  <2>3. Queued
    BY <2>2, SentChunks DEF Queued
  <2> QED
    BY <2>1, <2>2, <2>3 DEF PInv, Following, ImagePrefix
<1>2. PInv /\ IInv' /\ LinkTyped' /\ [TransferNext]_allVars => PInv'
  BY QueuedStep, FollowingStep, PrefixStep DEF PInv
<1> QED
  BY <1>1, <1>2, IInvInductive, DeviceIsService, LinkHolds, PTL DEF TransferSpec

\* Whatever is repeated, lost, late or restarted, the area holds the first
\* blocks of the image, each once, whole and in order: true of every image of
\* fewer blocks than there are block numbers (255 in the code), which are those
\* the device can receive to the end.
THEOREM PrefixStored ==
  ASSUME NumBlocks < BlockMod PROVE TransferSpec => []ImagePrefix
<1>1. PInv => ImagePrefix
  BY DEF PInv
<1> QED
  BY <1>1, PrefixHolds, PTL
===============================================================================
