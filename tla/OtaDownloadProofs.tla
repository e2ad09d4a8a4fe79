-------------------------- MODULE OtaDownloadProofs --------------------------
(***************************************************************************)
(* A whole download.  While no answer comes late, the sender, the link and *)
(* the device are a stop-and-wait protocol, whatever is lost and whenever  *)
(* the device restarts: metadata, and the sender's belief that it is done, *)
(* then mean that the whole image is there.  While nothing is lost, late   *)
(* or failing either, the download never stands still.                     *)
(***************************************************************************)
EXTENDS OtaTransferProofs

(***************************************************************************)
(* The inductive invariant, for as long as late = 0.                       *)
(***************************************************************************)
Can == [kind |-> "can"]

\* A chunk is what the sender said last.
Said(c) ==
  \/ snd = "aborted" /\ c = Can
  \/ Sending /\ c = Outgoing(snd, blk)

\* What the link can carry to the sender.
Answers == {<<>>, <<"ACK">>, <<"NAK">>, <<"C">>, <<"CAN">>, <<"ACK", "C">>, CanCan}

\* One message, or the answer to it, is under way at a time.  Only a failed
\* session answers before the device is done with what it failed at.
OneAtATime ==
  /\ up = <<>> \/ \E c \in Sent : up = <<c>>
  /\ rx_queue = <<>> \/ \E c \in Sent : rx_queue = <<c>>
  /\ down \in Answers
  /\ up # <<>> => rx_queue = <<>> /\ pc = "poll" /\ down = <<>>
  /\ rx_queue # <<>> => pc = "poll" /\ down = <<>>
  /\ pc # "poll" /\ down # <<>> => pc = "error" /\ down \in {<<"CAN">>, CanCan}

\* The device works on what the sender said last; its answer fits that.
InStep ==
  /\ up # <<>> => Said(up[1])
  /\ rx_queue # <<>> => Said(rx_queue[1])
  /\ pc \notin {"poll", "error"} => Said(cur)
  /\ pc \notin {"poll", "feed", "error"} => IsHeader
  /\ pc \in {"erase_temp", "start_data"} => snd \in {"header", "header_c"}
  /\ pc \in {"verify", "flush", "erase_meta", "program_meta"} => snd = "last"
  /\ pc = "error" => ym = "ABORTED" /\ (Sending \/ snd = "aborted")
  /\ snd \in {"idle", "wait_c"} => ym = "WAIT_HEADER"
  /\ snd = "idle" => svc = "IDLE" /\ down = <<>>
  /\ down = <<"ACK", "C">> => snd \in {"header", "header_c", "eot", "eot_c"}

\* The block number follows from how many blocks are stored.
Counted ==
  /\ Len(temp) < BlockMod
  /\ ym = "RECV_DATA" =>
       \/ block_num = Len(temp) + 1
       \/ block_num = 0 /\ Len(temp) + 1 = BlockMod

\* How many blocks are stored where the sender stands, if the device is still
\* in its session and not about to begin the next.
Stored ==
  /\ ym = "RECV_DATA" =>
       /\ snd \in {"header", "header_c"} => Len(temp) = 0
       /\ snd = "data" => Len(temp) \in {blk - 1, blk}
       /\ snd = "data" /\ down = <<"ACK">> => Len(temp) = blk
       /\ snd \in {"eot", "eot_c", "last", "done"} => Len(temp) = NumBlocks
  /\ ym \in {"WAIT_EOT", "WAIT_LAST_EMPTY"} /\ pc # "start_data" => Len(temp) = NumBlocks
  /\ pc \in {"verify", "flush", "erase_meta", "program_meta"} /\ image_size > 0 =>
       Len(temp) = NumBlocks
  /\ meta.size > 0 => Len(temp) = NumBlocks

\* What the sender may believe of a device that did not restart.
Believed ==
  restarts = 0 =>
    /\ snd = "data" /\ down = <<"ACK">> => ym = "RECV_DATA"
    /\ snd \in {"eot", "eot_c"} => Transferring /\ Len(temp) = NumBlocks
    /\ snd = "last" => \/ Len(temp) = NumBlocks
                       \/ ym = "ABORTED" /\ down # <<"ACK">>
    /\ snd = "done" => Len(temp) = NumBlocks

\* Sender, link and device are in step.
Sync == OneAtATime /\ InStep /\ Stored /\ Believed

\* The inductive invariant.
WInv == IInv /\ LinkTyped /\ Counted /\ (late = 0 => Sync)

-------------------------------------------------------------------------------
(***************************************************************************)
(* Facts about what is said and answered.                                  *)
(***************************************************************************)

\* What the kind and the content of a chunk tell of the sender that said it.
LEMMA SaidMeans ==
  ASSUME NEW c, Said(c), blk \in 1 .. NumBlocks
  PROVE  /\ snd \notin {"idle", "wait_c", "done"}
         /\ c.kind \in {"can", "eot", "block"}
         /\ c.kind = "can" => snd = "aborted"
         /\ c.kind = "eot" => snd \in {"eot", "eot_c"}
         /\ c.kind = "block" =>
              /\ snd \in {"header", "header_c", "data", "last"}
              /\ c.num # 0 => snd = "data" /\ c.num = blk % BlockMod
              /\ SizeIn[c.pay] > 0 => snd \in {"header", "header_c"}
              /\ SizeIn[c.pay] = NoName => snd = "last"
<1> USE Limits
<1>1. CASE snd = "aborted" /\ c = Can
  BY <1>1 DEF Can
<1>2. CASE snd \in {"header", "header_c"} /\ c = Header(0)
  <2>1. 0 \in Payloads /\ SizeIn[0] = 128 * NumBlocks
    BY TransferAssumption
  <2> QED
    BY <1>2, <2>1 DEF Header, NoName
<1>3. CASE snd = "data" /\ c = Data(blk)
  <2>1. blk \in Payloads /\ SizeIn[blk] = 0
    BY TransferAssumption
  <2> QED
    BY <1>3, <2>1 DEF Data, NoName
<1>4. CASE snd \in {"eot", "eot_c"} /\ c = [kind |-> "eot"]
  BY <1>4
<1>5. CASE snd = "last" /\ c = Header(NumBlocks + 1)
  <2>1. NumBlocks + 1 \in Payloads /\ SizeIn[NumBlocks + 1] = NoName
    BY TransferAssumption
  <2> QED
    BY <1>5, <2>1 DEF Header, NoName
<1>6. Sending => \/ snd \in {"header", "header_c"} /\ Outgoing(snd, blk) = Header(0)
                 \/ snd = "data" /\ Outgoing(snd, blk) = Data(blk)
                 \/ snd \in {"eot", "eot_c"} /\ Outgoing(snd, blk) = [kind |-> "eot"]
                 \/ snd = "last" /\ Outgoing(snd, blk) = Header(NumBlocks + 1)
  BY DEF Sending, Outgoing
<1> QED
  BY <1>1, <1>2, <1>3, <1>4, <1>5, <1>6 DEF Said

\* What is left of the answers when the first is taken or lost.
LEMMA AnswerTails ==
  ASSUME NEW d \in Answers, d # <<>>
  PROVE  /\ Head(d) \in Replies
         /\ Head(d) = "ACK" => d \in {<<"ACK">>, <<"ACK", "C">>}
         /\ Head(d) = "C" => d = <<"C">>
         /\ Head(d) = "NAK" => d = <<"NAK">>
         /\ Head(d) = "CAN" => d \in {<<"CAN">>, CanCan}
         /\ \/ Tail(d) = <<>>
            \/ d = <<"ACK", "C">> /\ Head(d) = "ACK" /\ Tail(d) = <<"C">>
            \/ d = CanCan /\ Head(d) = "CAN" /\ Tail(d) = <<"CAN">>
         /\ Tail(d) # <<"ACK">>
<1> DEFINE P(e) == /\ Head(e) \in Replies
                   /\ Head(e) = "ACK" => e \in {<<"ACK">>, <<"ACK", "C">>}
                   /\ Head(e) = "C" => e = <<"C">>
                   /\ Head(e) = "NAK" => e = <<"NAK">>
                   /\ Head(e) = "CAN" => e \in {<<"CAN">>, CanCan}
                   /\ \/ Tail(e) = <<>>
                      \/ e = <<"ACK", "C">> /\ Head(e) = "ACK" /\ Tail(e) = <<"C">>
                      \/ e = CanCan /\ Head(e) = "CAN" /\ Tail(e) = <<"CAN">>
                   /\ Tail(e) # <<"ACK">>
<1>1. ASSUME NEW r \in Replies
      PROVE  Head(<<r>>) = r /\ Tail(<<r>>) = <<>>
  OBVIOUS
<1>2. P(<<"ACK">>) /\ P(<<"NAK">>) /\ P(<<"C">>) /\ P(<<"CAN">>)
  BY <1>1 DEF Replies
<1>3. ASSUME NEW r \in Replies, NEW t \in Replies
      PROVE  Head(<<r, t>>) = r /\ Tail(<<r, t>>) = <<t>>
  OBVIOUS
<1>4. P(<<"ACK", "C">>)
  BY <1>3 DEF Replies
<1>5. P(CanCan)
  BY <1>3 DEF Replies, CanCan
<1> HIDE DEF P
<1>6. P(d)
  BY <1>2, <1>4, <1>5 DEF Answers
<1> QED
  BY <1>6 DEF P

\* A device at work has the line to itself.
LEMMA Alone ==
  ASSUME OneAtATime, pc # "poll"
  PROVE  up = <<>> /\ rx_queue = <<>> /\ (pc # "error" => down = <<>>)
BY DEF OneAtATime

\* A chunk dealt with is answered or failed at; one in progress is not.
LEMMA AnswersOnce ==
  ASSUME Consumer, ~Dequeue, ~RequestStart, ~NotifyError
  PROVE  /\ cpu = "run" /\ pc \notin {"poll", "error"} /\ rx_queue' = rx_queue
         /\ \/ pc' = "poll" /\ tx' \in {<<>>, <<"ACK">>, <<"NAK">>, <<"ACK", "C">>}
            \/ pc' = "error" /\ ym' = "ABORTED" /\ tx' \in {<<>>, CanCan}
            \/ pc' \notin {"poll", "error"} /\ tx' = <<>> /\ cur' = cur
<1>1. CASE HandleNoise \/ HandleEot \/ HandleLateHeader \/ HandleOtherData
  BY <1>1 DEF HandleNoise, HandleEot, HandleLateHeader, HandleOtherData, Reply, Feeding
<1>2. CASE HandleCan \/ HandleStrayData \/ StoreBlock \/ StoreFails
  BY <1>2 DEF HandleCan, HandleStrayData, StoreBlock, StoreFails, Abort, Feeding
<1>3. CASE ReadHeader \/ BeginImage \/ EraseTemp \/ StartData \/ Verify
  BY <1>3 DEF ReadHeader, BeginImage, EraseTemp, StartData, Verify, Abort, Feeding
<1>4. CASE BeginFinish \/ FlushCache \/ EraseMeta \/ ProgramMeta
  BY <1>4 DEF BeginFinish, FlushCache, EraseMeta, ProgramMeta, Abort, Feeding
<1> QED
  BY <1>1, <1>2, <1>3, <1>4 DEF Consumer

\* What the device sends on a quiet line is what the line then carries.
LEMMA Answered ==
  ASSUME OneAtATime, LinkTyped, DeviceStep
  PROVE  /\ Dequeue \/ NotifyError => down' = down
         /\ ~(Dequeue \/ NotifyError) => down = <<>> /\ down' = tx'
         /\ UNCHANGED <<sndVars, up, lost, restarts, late>>
<1>1. tx' \in Seq(Replies) /\ down \in Seq(Replies) /\ down' = down \o tx'
  BY RepliesOnly DEF DeviceStep, LinkTyped
<1>2. CASE Dequeue \/ NotifyError
  <2>1. tx' = <<>>
    BY <1>2 DEF Dequeue, NotifyError
  <2> QED
    BY <1>1, <1>2, <2>1 DEF DeviceStep
<1>3. CASE ~(Dequeue \/ NotifyError)
  <2>1. down = <<>>
    <3>1. CASE RequestStart
      BY <3>1 DEF DeviceStep
    <3>2. CASE ~RequestStart
      BY <1>3, <3>2, AnswersOnce, Alone DEF DeviceStep
    <3> QED
      BY <3>1, <3>2
  <2> QED
    BY <1>1, <1>3, <2>1 DEF DeviceStep
<1> QED
  BY <1>2, <1>3

\* The sender says one thing at a time.
LEMMA Speaks ==
  ASSUME LinkTyped, up = <<>>,
         \/ Repeat
         \/ \E s \in {"header", "header_c", "data", "eot", "eot_c", "last"}, k \in 1 .. NumBlocks : GoTo(s, k)
  PROVE  \E c \in Sent : up' = <<c>> /\ Said(c)'
<1>1. ASSUME NEW c \in Sent, up' = Append(up, c) PROVE up' = <<c>>
  BY <1>1
<1>2. CASE Repeat
  <2>1. Outgoing(snd, blk) \in Sent /\ Can \in Sent
    BY <1>2, Outgoings, SentChunks DEF Repeat, Sending, LinkTyped, Can
  <2>2. PICK c \in Sent : \/ up' = Append(up, c) /\ c = Outgoing(snd, blk) /\ UNCHANGED <<snd, blk>>
                          \/ up' = Append(up, c) /\ c = Can /\ snd' = "aborted"
    BY <1>2, <2>1 DEF Repeat, Can
  <2>3. up' = <<c>> /\ Said(c)'
    BY <1>1, <1>2, <2>2 DEF Said, Repeat, Sending
  <2> QED
    BY <2>3
<1>3. ASSUME NEW s, s \in {"header", "header_c", "data", "eot", "eot_c", "last"},
             NEW k \in 1 .. NumBlocks, GoTo(s, k)
      PROVE  \E c \in Sent : up' = <<c>> /\ Said(c)'
  <2>1. PICK c \in Sent : c = Outgoing(s, k)
    BY <1>3, Outgoings
  <2>2. up' = <<c>> /\ snd' = s /\ blk' = k
    BY <1>1, <1>3, <2>1 DEF GoTo
  <2>3. Said(c)'
    BY <1>3, <2>1, <2>2 DEF Said, Sending
  <2> QED
    BY <2>2, <2>3
<1> QED
  BY <1>2, <1>3

\* What the sender makes of each answer, with nothing else under way.
LEMMA Replied ==
  ASSUME LinkTyped, OneAtATime, InStep, TakeReply
  PROVE  /\ down # <<>> /\ down' = Tail(down) /\ up = <<>> /\ rx_queue = <<>>
         /\ UNCHANGED <<vars, lost, restarts, late>>
         /\ \/ up' = <<>>
            \/ /\ pc = "poll" /\ down' = <<>>
               /\ \E c \in Sent : up' = <<c>> /\ Said(c)'
<1> USE Limits
<1>1. down # <<>> /\ down' = Tail(down) /\ UNCHANGED <<vars, lost, restarts, late>> /\ down \in Answers
  BY DEF TakeReply, OneAtATime
<1>2. up = <<>> /\ rx_queue = <<>>
  BY <1>1 DEF OneAtATime
<1>3. CASE up' = up
  BY <1>1, <1>2, <1>3
<1>4. CASE up' # up
  <2>1. Advance(Head(down)) /\ Head(down) # "CAN"
    BY <1>4 DEF TakeReply, Advance, Wait, GoTo, Repeat
  <2>2. pc = "poll"
    BY <1>1, <2>1, AnswerTails DEF OneAtATime, CanCan
  <2>3. \/ Repeat
        \/ \E s \in {"header", "header_c", "data", "eot", "eot_c", "last"}, k \in 1 .. NumBlocks : GoTo(s, k)
    <3>1. 1 \in 1 .. NumBlocks /\ blk \in 1 .. NumBlocks /\ (blk < NumBlocks => blk + 1 \in 1 .. NumBlocks)
      BY DEF LinkTyped
    <3>2. \/ GoTo("header", blk) \/ GoTo("data", 1) \/ GoTo("eot", blk) \/ GoTo("last", blk)
          \/ blk < NumBlocks /\ GoTo("data", blk + 1)
          \/ Repeat
      BY <1>4, <2>1 DEF Advance, Wait
    <3> QED
      BY <3>1, <3>2
  <2>4. down' = <<>>
    <3>1. Head(down) = "ACK" => snd = "data"
      BY <1>4, <2>1 DEF Advance, Wait, Repeat
    <3>2. down # <<"ACK", "C">>
      BY <2>1, <3>1, <1>1, AnswerTails DEF InStep
    <3> QED
      BY <1>1, <2>1, <3>2, AnswerTails
  <2> QED
    BY <1>1, <1>2, <2>2, <2>3, <2>4, Speaks
<1> QED
  BY <1>3, <1>4

-------------------------------------------------------------------------------
(***************************************************************************)
(* The parts of the invariant, each kept by every step.                    *)
(***************************************************************************)

\* A timer that fires for nothing finds the line and the device quiet.
LEMMA TimedOut ==
  ASSUME LinkTyped, Timeout, late' = 0
  PROVE  /\ up = <<>> /\ down = <<>> /\ rx_queue = <<>> /\ pc = "poll" /\ ~reboot_pending
         /\ UNCHANGED <<vars, down, blk, restarts>> /\ snd' \in {snd, "aborted"} /\ Sending
         /\ \E c \in Sent : up' = <<c>> /\ Said(c)'
<1>1. ~AnswerUnderWay
  BY Limits DEF Timeout, LinkTyped
<1> QED
  BY <1>1, Speaks DEF Timeout, AnswerUnderWay, Repeat

\* No step puts a second message or answer under way.
LEMMA OneAtATimeStep ==
  ASSUME LinkTyped, OneAtATime, InStep, [TransferNext]_allVars, late' = 0
  PROVE  OneAtATime'
<1>1. CASE DeviceStep
  <2>1. CASE Dequeue
    <3>1. rx_queue # <<>> /\ rx_queue' = <<>> /\ pc = "poll" /\ pc' = "feed" /\ up' = up /\ down' = down
      BY <1>1, <2>1, Answered DEF Dequeue, OneAtATime
    <3> QED
      BY <3>1 DEF OneAtATime
  <2>2. CASE RequestStart
    <3>1. up' = <<>> /\ rx_queue' = <<>> /\ pc' = "poll" /\ down' = <<"C">>
      BY <1>1, <2>2, Answered DEF RequestStart, DeviceStep, Dequeue, NotifyError
    <3> QED
      BY <3>1 DEF OneAtATime, Answers
  <2>3. CASE NotifyError
    <3>1. up' = <<>> /\ rx_queue' = <<>> /\ pc' = "poll" /\ down' = down
      BY <1>1, <2>3, Answered, Alone DEF NotifyError
    <3> QED
      BY <3>1 DEF OneAtATime
  <2>4. CASE ~(Dequeue \/ RequestStart \/ NotifyError)
    <3>1. /\ up' = <<>> /\ rx_queue' = <<>> /\ down' = tx'
          /\ \/ pc' = "poll" /\ tx' \in {<<>>, <<"ACK">>, <<"NAK">>, <<"ACK", "C">>}
             \/ pc' = "error" /\ tx' \in {<<>>, CanCan}
             \/ tx' = <<>>
      BY <1>1, <2>4, Answered, AnswersOnce, Alone DEF DeviceStep
    <3> QED
      BY <3>1 DEF OneAtATime, Answers
  <2> QED
    BY <2>1, <2>2, <2>3, <2>4
<1>2. CASE StartTransfer
  BY <1>2 DEF StartTransfer, AtStart, HaltInIsr, linkVars, OneAtATime
<1>3. CASE Reboot \/ Crash
  <2>1. rx_queue' = <<>> /\ pc' = "poll" /\ up' = up /\ down' = down
    BY <1>3 DEF Reboot, Crash, RebootIntoImage, OtherReset, Restart, linkVars
  <2> QED
    BY <2>1 DEF OneAtATime
<1>4. CASE Deliver
  <2>1. PICK c \in Sent : up = <<c>>
    BY <1>4 DEF Deliver, OneAtATime
  <2>2. Head(up) = c /\ Tail(up) = <<>>
    BY <2>1
  <2>3. rx_queue = <<>> /\ down = <<>> /\ pc = "poll"
    BY <2>1 DEF OneAtATime
  <2>4. Len(rx_queue) < QueueDepth /\ Append(rx_queue, c) = <<c>>
    BY <2>3, QueueDepthBound
  <2>5. rx_queue' = <<c>> /\ up' = <<>> /\ down' = <<>> /\ pc' = "poll"
    BY <1>4, <2>2, <2>3, <2>4 DEF Deliver, RxChunk, Enqueued
  <2> QED
    BY <2>5 DEF OneAtATime, Answers
<1>5. CASE Lose
  <2>1. UNCHANGED vars
    BY <1>5 DEF Lose
  <2>2. CASE up # <<>> /\ up' = Tail(up) /\ UNCHANGED down
    <3>1. PICK c \in Sent : up = <<c>>
      BY <2>2 DEF OneAtATime
    <3>2. up' = <<>>
      BY <2>2, <3>1
    <3> QED
      BY <2>1, <2>2, <3>2 DEF OneAtATime, vars
  <2>3. CASE down # <<>> /\ down' = Tail(down) /\ UNCHANGED up
    <3>1. /\ down' \in Answers
          /\ pc # "poll" /\ down' # <<>> => down' \in {<<"CAN">>, CanCan}
      BY <2>3, AnswerTails DEF OneAtATime, Answers, CanCan
    <3>2. up' = <<>> /\ rx_queue' = <<>>
      BY <2>1, <2>3 DEF OneAtATime, vars
    <3> QED
      BY <2>1, <2>3, <3>1, <3>2 DEF OneAtATime, vars
  <2> QED
    BY <1>5, <2>2, <2>3 DEF Lose
<1>6. CASE TakeReply
  <2>1. down # <<>> /\ down' = Tail(down) /\ rx_queue' = <<>> /\ pc' = pc
    BY <1>6, Replied DEF vars
  <2>2. /\ down' \in Answers
        /\ pc # "poll" /\ down' # <<>> => pc = "error" /\ down' \in {<<"CAN">>, CanCan}
    BY <2>1, AnswerTails DEF OneAtATime, Answers, CanCan
  <2>3. \/ up' = <<>>
        \/ pc = "poll" /\ down' = <<>> /\ \E c \in Sent : up' = <<c>>
    BY <1>6, Replied
  <2> QED
    BY <2>1, <2>2, <2>3 DEF OneAtATime
<1>7. CASE Timeout
  <2>1. /\ rx_queue' = <<>> /\ pc' = "poll" /\ down' = <<>>
        /\ \E c \in Sent : up' = <<c>>
    BY <1>7, TimedOut DEF vars
  <2> QED
    BY <2>1 DEF OneAtATime, Answers
<1>8. CASE GiveUp \/ UNCHANGED allVars
  BY <1>8 DEF GiveUp, linkVars, allVars, vars, OneAtATime
<1> QED
  BY <1>1, <1>2, <1>3, <1>4, <1>5, <1>6, <1>7, <1>8 DEF TransferNext, Sender

\* Between a header and what comes of it the device works on that header.
LEMMA HeaderSteps ==
  ASSUME InStep, blk \in 1 .. NumBlocks, Consumer, ~Dequeue, ~NotifyError, pc' \notin {"poll", "feed", "error"}
  PROVE  /\ IsHeader /\ cur' = cur
         /\ pc' \in {"erase_temp", "start_data"} => snd \in {"header", "header_c"}
         /\ pc' \in {"verify", "flush", "erase_meta", "program_meta"} => snd = "last"
<1>1. pc \notin {"poll", "error"} => Said(cur)
  BY DEF InStep
<1>2. CASE ReadHeader
  BY <1>2 DEF ReadHeader
<1>3. CASE BeginImage
  <2>1. pc = "begin" /\ pc' = "erase_temp" /\ SizeIn[cur.pay] > 0 /\ cur' = cur
    BY <1>3, MaxSizeBound DEF BeginImage, Abort
  <2>2. IsHeader
    BY <2>1 DEF InStep
  <2> QED
    BY <1>1, <2>1, <2>2, SaidMeans DEF IsHeader
<1>4. CASE BeginFinish
  <2>1. pc = "feed" /\ pc' = "verify" /\ IsHeader /\ SizeIn[cur.pay] = NoName /\ cur' = cur
    BY <1>4 DEF BeginFinish, Feeding, Abort
  <2> QED
    BY <1>1, <2>1, SaidMeans DEF IsHeader
<1>5. CASE Verify \/ FlushCache \/ EraseMeta
  <2>1. /\ pc \in {"verify", "flush", "erase_meta"} /\ cur' = cur
        /\ pc' \in {"flush", "erase_meta", "program_meta"}
    BY <1>5 DEF Verify, FlushCache, EraseMeta, Abort
  <2> QED
    BY <2>1 DEF InStep
<1>6. CASE EraseTemp
  <2>1. pc = "erase_temp" /\ pc' = "start_data" /\ cur' = cur
    BY <1>6 DEF EraseTemp, Abort
  <2> QED
    BY <2>1 DEF InStep
<1>7. CASE ~(ReadHeader \/ BeginImage \/ EraseTemp \/ BeginFinish \/ Verify \/ FlushCache \/ EraseMeta)
  <2>1. pc' \in {"poll", "error"} \/ RequestStart
    BY <1>7 DEF Consumer, HandleNoise, HandleEot, HandleCan, HandleLateHeader, StartData,
      StoreBlock, StoreFails, HandleOtherData, HandleStrayData, ProgramMeta, Reply, Abort
  <2> QED
    BY <2>1 DEF RequestStart
<1> QED
  BY <1>2, <1>3, <1>4, <1>5, <1>6, <1>7

\* The device keeps to what it was told, and its answers fit.
LEMMA InStepDevice ==
  ASSUME LinkTyped, OneAtATime, InStep, DeviceStep
  PROVE  InStep'
<1>a. blk \in 1 .. NumBlocks /\ Consumer
  BY DEF LinkTyped, DeviceStep
<1>b. /\ snd' = snd /\ blk' = blk /\ up' = up
      /\ \A c \in Sent : Said(c) => Said(c)'
  BY Answered DEF sndVars, Said, Sending
<1>1. CASE Dequeue
  <2>1. PICK c \in Sent : rx_queue = <<c>>
    BY <1>1 DEF Dequeue, OneAtATime
  <2>2. /\ cur' = c /\ rx_queue' = <<>> /\ up = <<>> /\ pc' = "feed" /\ down' = down
        /\ ym' = ym /\ svc' = svc
    BY <1>1, <2>1, Answered DEF Dequeue, OneAtATime, ymodemVars
  <2>3. Said(cur)'
    <3>1. Said(c)
      BY <2>1 DEF InStep
    <3> QED
      BY <1>b, <2>2, <3>1 DEF Said, Sending
  <2> QED
    BY <1>b, <2>2, <2>3 DEF InStep
<1>2. CASE RequestStart
  <2>1. /\ up' = <<>> /\ rx_queue' = <<>> /\ pc' = "poll" /\ down' = <<"C">>
        /\ ym' = ym /\ svc = "WAIT_START"
    BY <1>2, Answered DEF RequestStart, DeviceStep, Dequeue, NotifyError, ymodemVars
  <2>2. <<"C">> # <<"ACK", "C">>
    OBVIOUS
  <2> QED
    BY <1>b, <2>1, <2>2 DEF InStep
<1>3. CASE NotifyError
  <2>1. /\ up' = <<>> /\ rx_queue' = <<>> /\ pc = "error" /\ pc' = "poll" /\ down' = down
    BY <1>3, Answered, Alone DEF NotifyError
  <2>2. snd \notin {"idle", "wait_c"} /\ down # <<"ACK", "C">>
    BY <2>1 DEF InStep, OneAtATime, Sending, CanCan
  <2> QED
    BY <1>b, <2>1, <2>2 DEF InStep
<1>4. CASE ~(Dequeue \/ RequestStart \/ NotifyError)
  <2>1. /\ up' = <<>> /\ rx_queue' = <<>> /\ down' = tx' /\ pc \notin {"poll", "error"}
        /\ \/ pc' = "poll"
           \/ pc' = "error" /\ ym' = "ABORTED" /\ tx' \in {<<>>, CanCan}
           \/ pc' \notin {"poll", "error"} /\ tx' = <<>> /\ cur' = cur
    BY <1>4, Answered, AnswersOnce, Alone DEF DeviceStep
  <2>2. Said(cur) /\ snd \notin {"idle", "wait_c", "done"} /\ (Sending \/ snd = "aborted")
    BY <1>a, <2>1, SaidMeans DEF InStep, Said
  <2>3. pc' \notin {"poll", "error"} => Said(cur)'
    BY <1>b, <2>1, <2>2 DEF Said, Sending
  <2>4. pc' = "error" => Sending' \/ snd' = "aborted"
    BY <1>b, <2>2 DEF Sending
  <2>5. /\ pc' \notin {"poll", "feed", "error"} => IsHeader'
        /\ pc' \in {"erase_temp", "start_data"} => snd' \in {"header", "header_c"}
        /\ pc' \in {"verify", "flush", "erase_meta", "program_meta"} => snd' = "last"
    BY <1>a, <1>b, <1>4, HeaderSteps DEF IsHeader
  <2>6. down' = <<"ACK", "C">> => snd \in {"header", "header_c", "eot", "eot_c"}
    <3>1. CASE StartData
      BY <3>1 DEF StartData, InStep
    <3>2. CASE HandleEot
      BY <1>a, <2>2, <3>2, SaidMeans DEF HandleEot
    <3>3. CASE ~(StartData \/ HandleEot)
      <4>1. tx' \in {<<>>, <<"ACK">>, <<"NAK">>, CanCan}
        BY <1>a, <1>4, <3>3 DEF Consumer, HandleNoise, HandleCan, HandleLateHeader, ReadHeader,
          BeginImage, EraseTemp, StoreBlock, StoreFails, HandleOtherData, HandleStrayData, BeginFinish,
          Verify, FlushCache, EraseMeta, ProgramMeta, Reply, Abort
      <4> QED
        BY <2>1, <4>1 DEF CanCan
    <3> QED
      BY <3>1, <3>2, <3>3
  <2> QED
    BY <1>b, <2>1, <2>2, <2>3, <2>4, <2>5, <2>6 DEF InStep
<1> QED
  BY <1>1, <1>2, <1>3, <1>4

\* So do the sender, the link and restarts.
LEMMA InStepStep ==
  ASSUME LinkTyped, OneAtATime, InStep, [TransferNext]_allVars, late' = 0
  PROVE  InStep'
<1>a. blk \in 1 .. NumBlocks
  BY DEF LinkTyped
<1>1. CASE DeviceStep
  BY <1>1, InStepDevice
<1>2. CASE StartTransfer
  <2>1. snd = "idle" /\ svc = "IDLE" /\ ~Sending
    BY <1>2 DEF StartTransfer, InStep, Sending
  <2>2. up = <<>> /\ rx_queue = <<>> /\ pc = "poll"
    BY <1>a, <2>1, SaidMeans DEF InStep
  <2>3. /\ snd' = "wait_c" /\ ym' = "WAIT_HEADER" /\ pc' = "poll" /\ up' = <<>> /\ rx_queue' = <<>>
        /\ down' = <<>>
    BY <1>2, <2>1, <2>2 DEF StartTransfer, AtStart, linkVars, InStep
  <2> QED
    BY <2>3 DEF InStep
<1>3. CASE Reboot \/ Crash
  <2>1. /\ rx_queue' = <<>> /\ pc' = "poll" /\ ym' = "WAIT_HEADER" /\ svc' = "IDLE"
        /\ UNCHANGED <<up, down, snd, blk>>
    BY <1>3 DEF Reboot, Crash, RebootIntoImage, OtherReset, Restart, linkVars, sndVars
  <2> QED
    BY <2>1 DEF InStep, Said, Sending
<1>4. CASE Deliver
  <2>1. PICK c \in Sent : up = <<c>>
    BY <1>4 DEF Deliver, OneAtATime
  <2>2. Head(up) = c /\ Tail(up) = <<>> /\ Said(c)
    BY <2>1 DEF InStep
  <2>3. rx_queue = <<>> /\ down = <<>> /\ pc = "poll"
    BY <2>1 DEF OneAtATime
  <2>4. Len(rx_queue) < QueueDepth /\ Append(rx_queue, c) = <<c>>
    BY <2>3, QueueDepthBound
  <2>5. /\ rx_queue' = <<c>> /\ up' = <<>> /\ down' = <<>> /\ pc' = "poll"
        /\ UNCHANGED <<snd, blk, svc, ym>>
    BY <1>4, <2>2, <2>3, <2>4 DEF Deliver, RxChunk, Enqueued, sndVars, ymodemVars
  <2>6. Said(rx_queue[1])'
    BY <2>2, <2>5 DEF Said, Sending
  <2>7. snd \in {"idle", "wait_c"} => ym = "WAIT_HEADER" /\ (snd = "idle" => svc = "IDLE")
    BY DEF InStep
  <2> QED
    BY <2>5, <2>6, <2>7 DEF InStep
<1>5. CASE Lose
  <2>1. UNCHANGED <<rx_queue, pc, cur, ym, svc, snd, blk>>
    BY <1>5 DEF Lose, vars, ymodemVars, sndVars
  <2>2. up' \in {up, <<>>}
    <3>1. CASE up # <<>> /\ up' = Tail(up)
      <4>1. PICK c \in Sent : up = <<c>>
        BY <3>1 DEF OneAtATime
      <4> QED
        BY <3>1, <4>1
    <3> QED
      BY <1>5, <3>1 DEF Lose
  <2>3. down' = down \/ (snd # "idle" /\ down' \in {<<>>, <<"C">>, <<"CAN">>})
    <3>1. CASE down # <<>> /\ down' = Tail(down)
      BY <3>1, AnswerTails DEF OneAtATime, InStep
    <3> QED
      BY <1>5, <3>1 DEF Lose
  <2>4. down' # down => down' # <<"ACK", "C">>
    BY <2>3
  <2> QED
    BY <2>1, <2>2, <2>3, <2>4 DEF InStep, Said, Sending, IsHeader
<1>6. CASE TakeReply
  <2>1. /\ down # <<>> /\ down' = Tail(down) /\ rx_queue' = <<>>
        /\ UNCHANGED <<pc, cur, ym, svc>>
        /\ up' = <<>> \/ \E c \in Sent : up' = <<c>> /\ Said(c)'
    BY <1>6, Replied DEF vars, ymodemVars
  <2>2. pc = "poll" \/ (pc = "error" /\ down \in {<<"CAN">>, CanCan})
    BY <2>1 DEF OneAtATime
  <2>3. down' # <<"ACK", "C">>
    BY <2>1, AnswerTails DEF OneAtATime
  <2>4. snd # "idle" /\ snd' # "idle" /\ (snd' = "wait_c" => snd = "wait_c")
    BY <1>6, <2>1 DEF InStep, TakeReply, Advance, Ignored, GoTo, Wait, Repeat, sndVars
  <2>5. pc = "error" => Sending' \/ snd' = "aborted"
    <3>1. pc = "error" => Head(down) = "CAN" /\ snd # "done"
      BY <2>2 DEF CanCan, InStep, Sending
    <3>2. pc = "error" => snd' = "aborted"
      BY <1>6, <3>1 DEF TakeReply, Advance, Ignored, Wait
    <3> QED
      BY <3>2
  <2>6. up' # <<>> => Said(up[1])'
    <3>1. CASE \E c \in Sent : up' = <<c>> /\ Said(c)'
      BY <3>1 DEF Said
    <3> QED
      BY <2>1, <3>1
  <2> QED
    BY <2>1, <2>2, <2>3, <2>4, <2>5, <2>6 DEF InStep
<1>7. CASE Timeout
  <2>1. /\ rx_queue' = <<>> /\ pc' = "poll" /\ down' = <<>> /\ Sending /\ snd' \in {snd, "aborted"}
        /\ \E c \in Sent : up' = <<c>> /\ Said(c)'
    BY <1>7, TimedOut DEF vars
  <2>2. Said(up[1])'
    BY <2>1 DEF Said
  <2>3. snd' \notin {"idle", "wait_c"}
    BY <2>1 DEF Sending
  <2> QED
    BY <2>1, <2>2, <2>3 DEF InStep
<1>8. CASE GiveUp
  <2>1. snd = "wait_c" /\ ~Sending /\ snd' = "aborted" /\ UNCHANGED <<vars, up, down>> /\ down = <<>>
    BY <1>8 DEF GiveUp, linkVars, Sending
  <2>2. up = <<>> /\ rx_queue = <<>> /\ pc = "poll"
    BY <1>a, <2>1, SaidMeans DEF InStep
  <2> QED
    BY <2>1, <2>2 DEF InStep, vars
<1>9. CASE UNCHANGED allVars
  BY <1>9 DEF allVars, vars, sndVars, linkVars, ymodemVars, InStep, Said, Sending, IsHeader
<1> QED
  BY <1>1, <1>2, <1>3, <1>4, <1>5, <1>6, <1>7, <1>8, <1>9 DEF TransferNext, Sender

\* What the device does to its session and to flash, apart from storing a
\* block and failing.
LEMMA SessionSteps ==
  ASSUME Consumer, ~StoreBlock, ~HandleOtherData, ~NotifyError
  PROVE  \/ /\ Dequeue \/ RequestStart \/ HandleNoise \/ HandleLateHeader \/ ReadHeader \/ BeginImage
            /\ UNCHANGED <<ym, block_num, temp, meta>>
            /\ pc # "start_data" /\ pc' \notin {"verify", "flush", "erase_meta", "program_meta", "error"}
            /\ ~Dequeue => tx' # <<"ACK">>
         \/ /\ EraseTemp /\ temp' = <<>> /\ UNCHANGED <<ym, block_num, meta>>
            /\ pc = "erase_temp" /\ pc' = "start_data" /\ tx' = <<>>
         \/ /\ StartData /\ ym' = "RECV_DATA" /\ block_num' = 1 /\ UNCHANGED <<temp, meta>>
            /\ pc = "start_data" /\ pc' = "poll" /\ tx' = <<"ACK", "C">>
         \/ /\ HandleEot /\ cur.kind = "eot" /\ ym \in {"RECV_DATA", "WAIT_EOT"}
            /\ ym' \in {"WAIT_EOT", "WAIT_LAST_EMPTY"}
            /\ UNCHANGED <<temp, meta>> /\ pc = "feed" /\ pc' = "poll"
         \/ /\ BeginFinish /\ HeaderExpected /\ SizeIn[cur.pay] = NoName /\ IsHeader /\ pc = "feed"
            /\ ym' = "DONE" /\ pc' = "verify" /\ UNCHANGED <<temp, meta, image_size>> /\ tx' = <<>>
         \/ /\ Verify \/ FlushCache \/ EraseMeta
            /\ pc \in {"verify", "flush", "erase_meta"}
            /\ pc' \in {"flush", "erase_meta", "program_meta"} /\ tx' = <<>>
            /\ meta' \in {meta, NoMeta} /\ UNCHANGED <<ym, block_num, temp, image_size>>
         \/ /\ ProgramMeta /\ pc = "program_meta" /\ pc' = "poll"
            /\ meta' = [size |-> image_size, crc |-> crc32] /\ UNCHANGED <<ym, block_num, temp>>
         \/ /\ (pc = "feed" /\ cur.kind \in {"can", "block"}) \/ pc \notin {"poll", "feed", "error"}
            /\ ym' = "ABORTED" /\ pc' = "error" /\ tx' \in {<<>>, CanCan}
            /\ temp' = temp /\ meta' \in {meta, NoMeta}
<1>a. /\ <<>> # <<"ACK">> /\ <<"NAK">> # <<"ACK">> /\ <<"C">> # <<"ACK">>
      /\ <<"ACK", "C">> # <<"ACK">> /\ CanCan # <<"ACK">>
  BY DEF CanCan
<1>1. CASE Dequeue \/ RequestStart
  BY <1>1, <1>a DEF Dequeue, RequestStart, ymodemVars, flashVars
<1>2. CASE HandleNoise \/ HandleLateHeader \/ ReadHeader
  BY <1>2, <1>a DEF HandleNoise, HandleLateHeader, ReadHeader, Reply, Feeding, ymodemVars, flashVars
<1>3. CASE BeginImage
  <2>1. CASE Abort(CanCan) /\ UNCHANGED <<file_size, imageVars, meta>>
    BY <1>3, <2>1 DEF BeginImage, Abort
  <2>2. CASE ~(Abort(CanCan) /\ UNCHANGED <<file_size, imageVars, meta>>)
    BY <1>3, <2>2, <1>a DEF BeginImage, ymodemVars, flashVars
  <2> QED
    BY <2>1, <2>2
<1>4. CASE EraseTemp
  BY <1>4 DEF EraseTemp, Abort, ymodemVars
<1>13. CASE StartData
  BY <1>13 DEF StartData, flashVars
<1>5. CASE HandleEot
  BY <1>5 DEF HandleEot, Reply, Feeding, flashVars
<1>6. CASE HandleCan \/ HandleStrayData
  BY <1>6 DEF HandleCan, HandleStrayData, Abort, Feeding, IsData
<1>7. CASE StoreFails
  BY <1>7 DEF StoreFails, Abort, Feeding, ExpectedData, IsData
<1>8. CASE BeginFinish
  BY <1>8 DEF BeginFinish, Abort, Feeding, IsHeader, flashVars, imageVars
<1>9. CASE Verify
  BY <1>9 DEF Verify, ymodemVars, flashVars, imageVars
<1>10. CASE FlushCache
  BY <1>10 DEF FlushCache, Abort, ymodemVars, flashVars
<1>11. CASE EraseMeta
  BY <1>11 DEF EraseMeta, Abort, ymodemVars, imageVars
<1>12. CASE ProgramMeta
  BY <1>12 DEF ProgramMeta, Abort, ymodemVars
<1> QED
  BY <1>1, <1>2, <1>3, <1>4, <1>5, <1>6, <1>7, <1>8, <1>9, <1>10, <1>11, <1>12, <1>13 DEF Consumer

\* The block number of a stored block, and the one the next must have.
LEMMA BlockCounts ==
  ASSUME IInv, Counted, StoreBlock
  PROVE  /\ temp' = Append(temp, <<cur.pay, WriteLen>>) /\ Len(temp) \in Nat /\ Len(temp') = Len(temp) + 1
         /\ block_num = Len(temp) + 1 /\ Len(temp') < BlockMod
         /\ block_num' = Len(temp') + 1 \/ (block_num' = 0 /\ Len(temp') + 1 = BlockMod)
<1> USE BlockModBound
<1>1. /\ ym = "RECV_DATA" /\ cur.num # 0 /\ cur.num = block_num
      /\ temp \in Seq(Piece) /\ Len(temp) \in Nat /\ block_num \in 0 .. BlockMod - 1
  BY DEF StoreBlock, ExpectedData, IsData, IInv, TypeOK, DataTyped, SizesTyped
<1>2. block_num = Len(temp) + 1
  BY <1>1 DEF Counted
<1>3. temp' = Append(temp, <<cur.pay, WriteLen>>) /\ Len(temp') = Len(temp) + 1
  BY <1>1 DEF StoreBlock
<1>4. block_num' = IF block_num + 1 = BlockMod THEN 0 ELSE block_num + 1
  <2>1. block_num' = (block_num + 1) % BlockMod
    BY DEF StoreBlock, NextBlock
  <2>2. block_num + 1 <= BlockMod /\ block_num \in Nat
    BY <1>1
  <2>3. BlockMod % BlockMod = 0
    OBVIOUS
  <2>4. block_num + 1 < BlockMod => (block_num + 1) % BlockMod = block_num + 1
    BY <2>2
  <2> QED
    BY <2>1, <2>2, <2>3, <2>4
<1> QED
  BY <1>1, <1>2, <1>3, <1>4

\* Block number and stored blocks move together, also when answers are late.
LEMMA CountedStep ==
  ASSUME IInv, Counted, [TransferNext]_allVars
  PROVE  Counted'
<1> USE BlockModBound
<1>1. CASE StoreBlock
  BY <1>1, BlockCounts DEF Counted
<1>2. CASE UNCHANGED <<ym, block_num, temp>>
  BY <1>2 DEF Counted
<1>3. CASE temp' \in {temp, <<>>} /\ ym' # "RECV_DATA"
  BY <1>3 DEF Counted
<1>4. CASE StartData
  BY <1>4 DEF StartData, flashVars, IInv, StreamAgrees, Counted
<1>5. CASE HandleOtherData
  BY <1>2, <1>5 DEF HandleOtherData, Reply, ymodemVars, flashVars
<1>6. CASE NotifyError
  <2>1. ym' # "RECV_DATA" /\ temp' \in {temp, <<>>}
    BY <1>6 DEF NotifyError, ymodemVars, IInv, PcAgrees
  <2> QED
    BY <1>3, <2>1
<1>7. CASE Consumer /\ ~StoreBlock /\ ~HandleOtherData /\ ~NotifyError
  <2>1. \/ UNCHANGED <<ym, block_num, temp>>
        \/ temp' \in {temp, <<>>} /\ ym' # "RECV_DATA"
        \/ StartData
    BY <1>7, SessionSteps DEF IInv, PcAgrees, HeaderExpected
  <2> QED
    BY <1>2, <1>3, <1>4, <2>1
<1>8. CASE AtStart
  <2>1. \/ UNCHANGED <<ym, block_num, temp>>
        \/ temp' = temp /\ ym' # "RECV_DATA"
    BY <1>8 DEF AtStart, HaltInIsr, ymodemVars, flashVars
  <2> QED
    BY <1>2, <1>3, <2>1
<1>9. CASE RebootIntoImage \/ OtherReset
  BY <1>3, <1>9 DEF RebootIntoImage, OtherReset, Restart
<1>10. CASE UNCHANGED vars \/ Deliver
  BY <1>2, <1>10 DEF vars, ymodemVars, flashVars, Deliver, RxChunk
<1> QED
  BY <1>1, <1>5, <1>6, <1>7, <1>8, <1>9, <1>10
  DEF TransferNext, DeviceStep, StartTransfer, Reboot, Crash, Lose, Sender, TakeReply, Timeout,
      GiveUp, allVars

\* Whether the block is new or was stored before, it is stored when the device
\* has answered: that its number alone tells which of the two it is rests on
\* the sender being at most one block ahead.
LEMMA DataAnswered ==
  ASSUME IInv, LinkTyped, InStep, Counted, Stored, StoreBlock \/ HandleOtherData
  PROVE  /\ snd = "data" /\ ym = "RECV_DATA" /\ ym' = ym /\ pc = "feed" /\ pc' = "poll"
         /\ Len(temp') = blk /\ meta' = meta
<1> USE Limits, BlockModBound
<1>1. /\ pc = "feed" /\ pc' = "poll" /\ cur.kind = "block" /\ cur.num # 0
      /\ ym = "RECV_DATA" /\ ym' = ym /\ meta' = meta
  BY DEF StoreBlock, HandleOtherData, Reply, Feeding, ExpectedData, IsData, ymodemVars, flashVars
<1>2. blk \in 1 .. NumBlocks /\ Said(cur)
  BY <1>1 DEF LinkTyped, InStep
<1>3. snd = "data" /\ cur.num = blk % BlockMod
  BY <1>1, <1>2, SaidMeans
<1>4. /\ Len(temp) \in {blk - 1, blk} /\ Len(temp) < BlockMod /\ Len(temp) \in Nat
      /\ block_num \in 0 .. BlockMod - 1
      /\ block_num = Len(temp) + 1 \/ (block_num = 0 /\ Len(temp) + 1 = BlockMod)
  BY <1>1, <1>3 DEF Stored, Counted, IInv, TypeOK, DataTyped, SizesTyped
<1>5. /\ blk < BlockMod => blk % BlockMod = blk
      /\ BlockMod % BlockMod = 0
  BY <1>2
<1>6. CASE StoreBlock
  <2>1. block_num = Len(temp) + 1 /\ Len(temp') = Len(temp) + 1 /\ cur.num = block_num
    BY <1>6, BlockCounts DEF StoreBlock, ExpectedData
  <2> QED
    BY <1>1, <1>2, <1>3, <1>4, <1>5, <2>1
<1>7. CASE HandleOtherData
  <2>1. cur.num # block_num /\ temp' = temp
    BY <1>7 DEF HandleOtherData, Reply, flashVars
  <2> QED
    BY <1>1, <1>2, <1>3, <1>4, <1>5, <2>1
<1> QED
  BY <1>6, <1>7

\* Metadata lives only until the restart that it asks for.
LEMMA NoMetaAtWork ==
  ASSUME BootClears, IInv, pc # "poll"
  PROVE  ~(meta.size > 0) /\ meta = NoMeta
<1>1. meta = NoMeta
  BY DEF IInv, PcAgrees, MetaAgrees
<1> QED
  BY <1>1 DEF NoMeta

\* No step of the device loses what it stored for this sender, and the steps
\* towards the end of the session are taken only when all is stored.
LEMMA StoredDevice ==
  ASSUME BootClears, IInv, LinkTyped, Counted, OneAtATime, InStep, Stored, DeviceStep
  PROVE  Stored'
<1>a. Consumer /\ UNCHANGED <<snd, blk>>
  BY Answered DEF DeviceStep, sndVars
<1>b. NoMeta.size = -1
  BY DEF NoMeta
<1>1. CASE StoreBlock \/ HandleOtherData
  <2>1. /\ snd = "data" /\ ym' = "RECV_DATA" /\ pc = "feed" /\ pc' = "poll" /\ Len(temp') = blk
        /\ meta' = meta
    BY <1>1, DataAnswered
  <2>2. ~(meta.size > 0)
    BY <2>1, NoMetaAtWork
  <2> QED
    BY <1>a, <2>1, <2>2 DEF Stored
<1>2. CASE NotifyError
  <2>1. pc = "error" /\ pc' = "poll" /\ ym' = "ABORTED" /\ meta' = meta
    BY <1>2 DEF NotifyError, InStep, ymodemVars
  <2>2. ~(meta.size > 0)
    BY <2>1, NoMetaAtWork
  <2> QED
    BY <2>1, <2>2 DEF Stored
<1>3. CASE /\ Dequeue \/ RequestStart \/ HandleNoise \/ HandleLateHeader \/ ReadHeader \/ BeginImage
           /\ UNCHANGED <<ym, temp, meta>>
           /\ pc # "start_data" /\ pc' \notin {"verify", "flush", "erase_meta", "program_meta", "error"}
           /\ ~Dequeue => tx' # <<"ACK">>
  <2>1. down' = <<"ACK">> => down = <<"ACK">>
    <3>1. CASE Dequeue
      BY <3>1, Answered
    <3>2. CASE ~Dequeue
      <4>1. ~NotifyError
        BY <1>3, <3>2 DEF NotifyError, RequestStart, HandleNoise, HandleLateHeader, ReadHeader, BeginImage, Feeding
      <4> QED
        BY <1>3, <3>2, <4>1, Answered
    <3> QED
      BY <3>1, <3>2
  <2> QED
    BY <1>3, <1>a, <2>1 DEF Stored
<1>4. CASE /\ pc = "erase_temp" /\ pc' = "start_data"
           /\ temp' = <<>> /\ UNCHANGED <<ym, meta>>
  <2>1. ~(meta.size > 0)
    BY <1>4, NoMetaAtWork
  <2>2. ym # "RECV_DATA"
    BY <1>4 DEF IInv, PcAgrees, HeaderExpected
  <2> QED
    BY <1>4, <2>1, <2>2 DEF Stored
<1>10. CASE /\ pc = "start_data" /\ pc' = "poll" /\ ym' = "RECV_DATA"
            /\ UNCHANGED <<temp, meta>>
  <2>1. ~(meta.size > 0)
    BY <1>10, NoMetaAtWork
  <2>2. snd \in {"header", "header_c"} /\ Len(temp) = 0
    BY <1>10 DEF InStep, IInv, StreamAgrees
  <2> QED
    BY <1>10, <1>a, <2>1, <2>2 DEF Stored
<1>5. CASE /\ cur.kind = "eot" /\ ym \in {"RECV_DATA", "WAIT_EOT"}
           /\ ym' \in {"WAIT_EOT", "WAIT_LAST_EMPTY"}
           /\ UNCHANGED <<temp, meta>> /\ pc = "feed" /\ pc' = "poll"
  <2>1. snd \in {"eot", "eot_c"}
    BY <1>5, SaidMeans DEF InStep, LinkTyped
  <2>2. Len(temp) = NumBlocks
    BY <1>5, <2>1 DEF Stored
  <2> QED
    BY <1>5, <2>2 DEF Stored
<1>6. CASE /\ HeaderExpected /\ pc = "feed"
           /\ ym' = "DONE" /\ pc' = "verify" /\ UNCHANGED <<temp, meta, image_size>>
  <2>1. image_size > 0 => Len(temp) = NumBlocks
    BY <1>6 DEF HeaderExpected, IInv, SizesAgree, Stored
  <2> QED
    BY <1>6, <2>1 DEF Stored
<1>7. CASE /\ pc \in {"verify", "flush", "erase_meta"}
           /\ pc' \in {"flush", "erase_meta", "program_meta"} /\ tx' = <<>>
           /\ meta' \in {meta, NoMeta} /\ UNCHANGED <<ym, temp, image_size>>
  <2>1. ~Dequeue /\ ~NotifyError
    BY <1>7 DEF Dequeue, NotifyError
  <2>2. down' # <<"ACK">>
    BY <1>7, <2>1, Answered
  <2> QED
    BY <1>7, <1>a, <1>b, <2>2 DEF Stored
<1>8. CASE /\ pc = "program_meta" /\ pc' = "poll"
           /\ meta' = [size |-> image_size, crc |-> crc32] /\ UNCHANGED <<ym, temp>>
  <2>1. ym \in {"DONE", "WAIT_HEADER"}
    BY <1>8 DEF IInv, PcAgrees
  <2>2. meta'.size > 0 => Len(temp) = NumBlocks
    BY <1>8 DEF Stored
  <2> QED
    BY <1>8, <2>1, <2>2 DEF Stored
<1>9. CASE ym' = "ABORTED" /\ pc' = "error" /\ temp' = temp /\ meta' \in {meta, NoMeta}
  BY <1>9, <1>b DEF Stored
<1> QED
  BY <1>a, <1>1, <1>2, <1>3, <1>4, <1>5, <1>6, <1>7, <1>8, <1>9, <1>10, SessionSteps

\* Where an answer takes the sender.
LEMMA SenderMoves ==
  ASSUME TakeReply, OneAtATime, InStep
  PROVE  /\ down' # <<"ACK">>
         /\ \/ snd' = snd /\ blk' = blk
            \/ snd' = "aborted"
            \/ snd = "wait_c" /\ snd' = "header"
            \/ snd = "header" /\ snd' = "header_c"
            \/ snd = "header_c" /\ snd' = "data" /\ blk' = 1
            \/ snd = "data" /\ down = <<"ACK">> /\ snd' = "data" /\ blk' = blk + 1
            \/ snd = "data" /\ down = <<"ACK">> /\ blk = NumBlocks /\ snd' = "eot"
            \/ snd = "eot" /\ snd' = "eot_c"
            \/ snd = "eot_c" /\ snd' = "last"
            \/ snd = "last" /\ down = <<"ACK">> /\ snd' = "done"
<1>1. down # <<>> /\ down \in Answers /\ down' = Tail(down)
  BY DEF TakeReply, OneAtATime
<1>2. down' # <<"ACK">>
  BY <1>1, AnswerTails
<1>3. snd \in {"data", "last"} /\ Head(down) = "ACK" => down = <<"ACK">>
  BY <1>1, AnswerTails DEF InStep
<1>4. CASE Ignored(Head(down)) /\ UNCHANGED <<sndVars, up>>
  BY <1>2, <1>4 DEF sndVars
<1>5. CASE Advance(Head(down))
  BY <1>2, <1>3, <1>5 DEF Advance, GoTo, Wait, Repeat
<1> QED
  BY <1>4, <1>5 DEF TakeReply

\* The sender moves on only when what it counts on is stored.
LEMMA StoredStep ==
  ASSUME BootClears, IInv, LinkTyped, Counted, OneAtATime, InStep, Stored, [TransferNext]_allVars, late' = 0
  PROVE  Stored'
<1> USE Limits
<1>1. CASE DeviceStep
  BY <1>1, StoredDevice
<1>2. CASE StartTransfer
  <2>1. snd = "idle" /\ svc = "IDLE"
    BY <1>2 DEF StartTransfer, InStep
  <2>2. ym' = "WAIT_HEADER" /\ UNCHANGED <<temp, meta, pc>> /\ snd' = "wait_c" /\ image_size' = 0
    BY <1>2, <2>1 DEF StartTransfer, AtStart, flashVars, StartImage
  <2> QED
    BY <2>2 DEF Stored
<1>3. CASE Reboot \/ Crash
  <2>1. ym' = "WAIT_HEADER" /\ pc' = "poll" /\ meta' = NoMeta
    BY <1>3 DEF Reboot, Crash, RebootIntoImage, OtherReset, Restart
  <2>2. ~(meta'.size > 0)
    BY <2>1 DEF NoMeta
  <2> QED
    BY <2>1, <2>2 DEF Stored
<1>4. CASE Deliver
  BY <1>4 DEF Deliver, RxChunk, sndVars, ymodemVars, imageVars, flashVars, Stored
<1>5. CASE Lose
  <2>1. down' = <<"ACK">> => down = <<"ACK">>
    <3>1. CASE down # <<>> /\ down' = Tail(down)
      <4>1. Tail(down) # <<"ACK">>
        BY <3>1, AnswerTails DEF OneAtATime
      <4> QED
        BY <3>1, <4>1
    <3> QED
      BY <1>5, <3>1 DEF Lose
  <2> QED
    BY <1>5, <2>1 DEF Lose, vars, sndVars, ymodemVars, imageVars, flashVars, Stored
<1>6. CASE TakeReply
  <2>1. UNCHANGED <<ym, temp, meta, pc, image_size>>
    BY <1>6 DEF TakeReply, vars, ymodemVars, imageVars, flashVars
  <2>2. ym = "RECV_DATA" =>
          /\ snd' \in {"header", "header_c"} => Len(temp) = 0
          /\ snd' = "data" => Len(temp) \in {blk' - 1, blk'}
          /\ snd' \in {"eot", "eot_c", "last", "done"} => Len(temp) = NumBlocks
    <3>1. ym = "RECV_DATA" => snd # "wait_c"
      BY DEF InStep
    <3>2. blk \in 1 .. NumBlocks
      BY DEF LinkTyped
    <3> QED
      BY <1>6, <3>1, <3>2, SenderMoves DEF Stored
  <2> QED
    BY <1>6, <2>1, <2>2, SenderMoves DEF Stored
<1>7. CASE Timeout
  <2>1. UNCHANGED <<vars, blk>> /\ down' = <<>> /\ snd' \in {snd, "aborted"}
    BY <1>7, TimedOut
  <2> QED
    BY <2>1 DEF vars, ymodemVars, imageVars, flashVars, Stored
<1>8. CASE GiveUp
  BY <1>8 DEF GiveUp, vars, linkVars, ymodemVars, imageVars, flashVars, Stored
<1>9. CASE UNCHANGED allVars
  BY <1>9 DEF allVars, vars, sndVars, linkVars, ymodemVars, imageVars, flashVars, Stored
<1> QED
  BY <1>1, <1>2, <1>3, <1>4, <1>5, <1>6, <1>7, <1>8, <1>9 DEF TransferNext, Sender

\* A device that goes wrong gives no answer that the sender could mistake.
LEMMA BelievedDevice ==
  ASSUME IInv, LinkTyped, Counted, OneAtATime, InStep, Stored, Believed, DeviceStep
  PROVE  Believed'
<1>a. Consumer /\ UNCHANGED <<snd, blk, restarts>> /\ blk \in 1 .. NumBlocks
  BY Answered DEF DeviceStep, sndVars, LinkTyped
<1>1. CASE StoreBlock \/ HandleOtherData
  BY <1>1, <1>a, DataAnswered DEF Believed
<1>2. CASE NotifyError
  <2>1. /\ pc = "error" /\ ym = "ABORTED" /\ ym' = ym /\ down' = down /\ down \in {<<>>, <<"CAN">>, CanCan}
        /\ snd # "done"
    BY <1>2, Answered DEF NotifyError, InStep, OneAtATime, ymodemVars, Sending
  <2>2. down' # <<"ACK">>
    BY <2>1 DEF CanCan
  <2>3. restarts = 0 => snd \notin {"eot", "eot_c"}
    BY <2>1 DEF Believed, Transferring
  <2> QED
    BY <1>a, <2>1, <2>2, <2>3 DEF Believed
<1>3. CASE /\ Dequeue \/ RequestStart \/ HandleNoise \/ HandleLateHeader \/ ReadHeader \/ BeginImage
           /\ UNCHANGED <<ym, temp>>
           /\ ~Dequeue => tx' # <<"ACK">>
  <2>1. down' = <<"ACK">> => down = <<"ACK">>
    <3>1. CASE Dequeue
      BY <3>1, Answered
    <3>2. CASE ~Dequeue
      <4>1. ~NotifyError
        BY <1>3, <3>2 DEF NotifyError, RequestStart, HandleNoise, HandleLateHeader, ReadHeader, BeginImage, Feeding
      <4> QED
        BY <1>3, <3>2, <4>1, Answered
    <3> QED
      BY <3>1, <3>2
  <2> QED
    BY <1>3, <1>a, <2>1 DEF Believed, Transferring
<1>4. CASE pc \in {"erase_temp", "start_data"}
  <2>1. snd \in {"header", "header_c"}
    BY <1>4 DEF InStep
  <2> QED
    BY <1>a, <2>1 DEF Believed
<1>5. CASE /\ cur.kind = "eot" /\ pc = "feed"
           /\ ym' \in {"WAIT_EOT", "WAIT_LAST_EMPTY"} /\ temp' = temp
  <2>1. snd \in {"eot", "eot_c"}
    BY <1>5, <1>a, SaidMeans DEF InStep
  <2> QED
    BY <1>5, <1>a, <2>1 DEF Believed, Transferring
<1>6. CASE /\ BeginFinish /\ HeaderExpected /\ SizeIn[cur.pay] = NoName /\ IsHeader /\ pc = "feed"
           /\ ym' = "DONE" /\ temp' = temp
  <2>1. snd = "last"
    BY <1>6, <1>a, SaidMeans DEF InStep, IsHeader
  <2> QED
    BY <1>6, <1>a, <2>1 DEF Believed, HeaderExpected
<1>7. CASE /\ pc \in {"verify", "flush", "erase_meta", "program_meta"}
           /\ UNCHANGED <<ym, temp>> /\ pc' # "error"
  <2>1. snd = "last" /\ ym # "ABORTED"
    BY <1>7 DEF InStep, IInv, PcAgrees
  <2> QED
    BY <1>7, <1>a, <2>1 DEF Believed
<1>8. CASE /\ (pc = "feed" /\ cur.kind \in {"can", "block"}) \/ pc \notin {"poll", "feed", "error"}
           /\ ym' = "ABORTED" /\ tx' \in {<<>>, CanCan} /\ temp' = temp
  <2>1. cur.kind \in {"can", "block"} /\ Said(cur)
    BY <1>8 DEF InStep, IsHeader
  <2>2. snd \in {"aborted", "header", "header_c", "data", "last"}
    BY <1>a, <2>1, SaidMeans
  <2>3. down' # <<"ACK">>
    <3>1. ~Dequeue /\ ~NotifyError
      BY <1>8 DEF Dequeue, NotifyError
    <3>2. down' = tx'
      BY <3>1, Answered
    <3> QED
      BY <1>8, <3>2 DEF CanCan
  <2> QED
    BY <1>8, <1>a, <2>2, <2>3 DEF Believed
<1> QED
  BY <1>a, <1>1, <1>2, <1>3, <1>4, <1>5, <1>6, <1>7, <1>8, SessionSteps

\* What the sender believes stays true while it and the link move.
LEMMA BelievedStep ==
  ASSUME IInv, LinkTyped, Counted, OneAtATime, InStep, Stored, Believed, [TransferNext]_allVars, late' = 0
  PROVE  Believed'
<1> USE Limits
<1>1. CASE DeviceStep
  BY <1>1, BelievedDevice
<1>2. CASE StartTransfer
  BY <1>2 DEF StartTransfer, Believed
<1>3. CASE Reboot
  <2>1. ym \in {"DONE", "WAIT_HEADER"}
    BY <1>3 DEF Reboot, RebootIntoImage, IInv, PcAgrees
  <2>2. UNCHANGED <<temp, snd, blk, down, restarts>>
    BY <1>3 DEF Reboot, RebootIntoImage, Restart, sndVars, linkVars
  <2> QED
    BY <2>1, <2>2 DEF Believed, Transferring
<1>4. CASE Crash
  <2>1. restarts' # 0
    BY <1>4 DEF Crash, LinkTyped
  <2> QED
    BY <2>1 DEF Believed
<1>5. CASE Deliver
  BY <1>5 DEF Deliver, RxChunk, sndVars, ymodemVars, flashVars, Believed, Transferring
<1>6. CASE Lose
  <2>1. down' = <<"ACK">> => down = <<"ACK">>
    <3>1. CASE down # <<>> /\ down' = Tail(down)
      <4>1. Tail(down) # <<"ACK">>
        BY <3>1, AnswerTails DEF OneAtATime
      <4> QED
        BY <3>1, <4>1
    <3> QED
      BY <1>6, <3>1 DEF Lose
  <2> QED
    BY <1>6, <2>1 DEF Lose, vars, sndVars, ymodemVars, flashVars, Believed, Transferring
<1>7. CASE TakeReply
  <2>1. UNCHANGED <<ym, temp, restarts>>
    BY <1>7 DEF TakeReply, vars, ymodemVars, flashVars
  <2>2. blk \in 1 .. NumBlocks
    BY DEF LinkTyped
  <2>3. restarts = 0 /\ snd = "data" /\ down = <<"ACK">> => ym = "RECV_DATA" /\ Len(temp) = blk
    BY DEF Believed, Stored
  <2> QED
    BY <1>7, <2>1, <2>2, <2>3, SenderMoves DEF Believed, Transferring
<1>8. CASE Timeout
  <2>1. UNCHANGED <<vars, restarts>> /\ down' = <<>> /\ snd' \in {snd, "aborted"}
    BY <1>8, TimedOut
  <2>2. down' # <<"ACK">>
    BY <2>1
  <2> QED
    BY <2>1, <2>2 DEF vars, ymodemVars, flashVars, Believed, Transferring
<1>9. CASE GiveUp
  BY <1>9 DEF GiveUp, Believed
<1>10. CASE UNCHANGED allVars
  BY <1>10 DEF allVars, vars, sndVars, linkVars, ymodemVars, flashVars, Believed, Transferring
<1> QED
  BY <1>1, <1>2, <1>3, <1>4, <1>5, <1>6, <1>7, <1>8, <1>9, <1>10 DEF TransferNext, Sender

-------------------------------------------------------------------------------
(***************************************************************************)
(* The theorems.                                                           *)
(***************************************************************************)

\* At power up nothing is under way and nothing is stored.
LEMMA WholeInit == TransferInit => WInv
<1> SUFFICES ASSUME TransferInit PROVE WInv
  OBVIOUS
<1> USE Limits, BlockModBound
<1>1. /\ snd = "idle" /\ up = <<>> /\ down = <<>> /\ rx_queue = <<>> /\ pc = "poll"
      /\ svc = "IDLE" /\ ym = "WAIT_HEADER" /\ temp = <<>> /\ meta = NoMeta
  BY DEF TransferInit, Init, RamInit
<1>2. IInv /\ LinkTyped
  BY InitIInv, LinkInit DEF TransferInit
<1>3. OneAtATime
  BY <1>1 DEF OneAtATime, Answers
<1>4. InStep
  BY <1>1 DEF InStep
<1>5. Counted
  BY <1>1 DEF Counted
<1>6. Stored
  BY <1>1 DEF Stored, NoMeta
<1>7. Believed
  BY <1>1 DEF Believed
<1> QED
  BY <1>2, <1>3, <1>4, <1>5, <1>6, <1>7 DEF WInv, Sync

\* An answer that was late once stays counted.
LEMMA LateStays == LinkTyped /\ [TransferNext]_allVars /\ late' = 0 => late = 0
BY Limits
DEF LinkTyped, TransferNext, DeviceStep, StartTransfer, Deliver, Reboot, Crash, Lose, Sender,
    TakeReply, Timeout, GiveUp, allVars

\* The parts together.
LEMMA WholeStep ==
  ASSUME BootClears, WInv, IInv', LinkTyped', [TransferNext]_allVars
  PROVE  WInv'
<1>1. Counted'
  BY CountedStep DEF WInv
<1>2. ASSUME late' = 0 PROVE Sync'
  <2>1. late = 0
    BY <1>2, LateStays DEF WInv
  <2> QED
    BY <1>2, <2>1, OneAtATimeStep, InStepStep, StoredStep, BelievedStep DEF WInv, Sync
<1> QED
  BY <1>1, <1>2 DEF WInv

\* The invariant holds in every download.
LEMMA WholeHolds == ASSUME BootClears PROVE TransferSpec => []WInv
<1>1. WInv /\ IInv' /\ LinkTyped' /\ [TransferNext]_allVars => WInv'
  BY WholeStep
<1> QED
  BY <1>1, WholeInit, IInvInductive, DeviceIsService, LinkHolds, PTL DEF TransferSpec

\* Metadata, and the belief of a sender whose device did not restart, mean that
\* no block of the image is missing, whatever the link loses, for images of any
\* number of blocks, also of more than there are block numbers.
THEOREM WholeStored == ASSUME BootClears PROVE TransferSpec => []WholeImage
<1>1. WInv => WholeImage
  BY DEF WInv, Sync, Stored, Believed, WholeImage
<1> QED
  BY <1>1, WholeHolds, PTL

\* End to end: the area holds the image as the sender has it.
Delivered ==
  late = 0 /\ meta.size > 0 =>
    temp = [i \in 1 .. NumBlocks |-> <<i, 128>>] /\ meta.crc = temp

\* Metadata describes the image as the sender has it: every block once, in order,
\* whole, and the CRC of exactly these.  A bootloader that finds it installs what
\* was sent.
THEOREM ImageDelivered ==
  ASSUME BootClears, NumBlocks < BlockMod PROVE TransferSpec => []Delivered
<1>1. TypeOK /\ WholeImage /\ ImagePrefix /\ MetaDescribesTemp => Delivered
  <2> SUFFICES ASSUME TypeOK, WholeImage, ImagePrefix, MetaDescribesTemp, late = 0, meta.size > 0
               PROVE  temp = [i \in 1 .. NumBlocks |-> <<i, 128>>] /\ meta.crc = temp
    BY DEF Delivered
  <2>1. Len(temp) = NumBlocks /\ temp \in Seq(Piece)
    BY DEF WholeImage, TypeOK, DataTyped
  <2>2. temp = [i \in 1 .. NumBlocks |-> <<i, 128>>]
    <3>1. temp \in [1 .. NumBlocks -> Piece]
      BY <2>1
    <3>2. ASSUME NEW i \in 1 .. NumBlocks PROVE temp[i] = <<i, 128>>
      BY <2>1 DEF ImagePrefix
    <3> QED
      BY <3>1, <3>2
  <2>3. meta.crc = temp
    BY DEF MetaDescribesTemp, NoMeta
  <2> QED
    BY <2>2, <2>3
<1> QED
  BY <1>1, WholeStored, PrefixStored, DeviceIsService, TypeCorrect, MetaCorrect, PTL

\* An image with as many blocks as there are block numbers, or more (256 in the
\* code), is never delivered, not in part either: one of its data blocks has the
\* number 0, the device takes that for a header where none is due, and never gets
\* past it.
THEOREM LargeNotDelivered ==
  ASSUME BootClears, NumBlocks >= BlockMod
  PROVE  TransferSpec => [](late = 0 => ~(meta.size > 0) /\ ~(snd = "done" /\ restarts = 0))
<1>1. WInv => (late = 0 => ~(meta.size > 0) /\ ~(snd = "done" /\ restarts = 0))
  <2> SUFFICES ASSUME WInv, late = 0, Len(temp) = NumBlocks PROVE FALSE
    BY DEF WInv, Sync, Stored, Believed
  <2>1. Len(temp) < BlockMod /\ Len(temp) \in Nat
    BY DEF WInv, Counted, IInv, TypeOK, DataTyped
  <2> QED
    BY <2>1, Limits, BlockModBound
<1> QED
  BY <1>1, WholeHolds, PTL

-------------------------------------------------------------------------------
(***************************************************************************)
(* The undisturbed download.                                               *)
(***************************************************************************)

\* What the sender said last is on its way, or just taken from the queue.
Coming == up # <<>> \/ rx_queue # <<>> \/ pc = "feed"

\* Which state of the device goes with each of the sender's.
Paired ==
  /\ snd = "wait_c" => svc = "WAIT_START" /\ down \in {<<>>, <<"C">>}
  /\ snd = "header" =>
       \/ (Coming \/ pc \in {"begin", "erase_temp"}) /\ ym = "WAIT_HEADER" /\ svc = "WAIT_START"
       \/ pc = "start_data"
       \/ down = <<"ACK", "C">> /\ ym = "RECV_DATA"
  /\ snd = "header_c" => down = <<"C">> /\ ym = "RECV_DATA"
  /\ snd = "data" =>
       /\ ym = "RECV_DATA"
       /\ (Coming /\ Len(temp) = blk - 1) \/ down = <<"ACK">>
  /\ snd = "eot" =>
       \/ Coming /\ ym \in {"RECV_DATA", "WAIT_EOT"}
       \/ down = <<"NAK">> /\ ym = "WAIT_EOT"
       \/ down = <<"ACK", "C">> /\ ym = "WAIT_LAST_EMPTY"
  /\ snd = "eot_c" => down = <<"C">> /\ ym = "WAIT_LAST_EMPTY"
  /\ snd = "last" =>
       \/ Coming /\ ym = "WAIT_LAST_EMPTY"
       \/ pc \in {"verify", "flush", "erase_meta", "program_meta"} /\ ym = "DONE"
       \/ down = <<"ACK">>

\* The device has the size of the image from the header.
Announced ==
  /\ pc = "begin" => file_size = 128 * NumBlocks
  /\ pc \in {"erase_temp", "start_data"} \/ Transferring => image_size = 128 * NumBlocks /\ file_size = image_size

\* A download to which nothing has happened.
Smooth == late = 0 /\ snd # "aborted" /\ ym # "ABORTED" /\ Paired /\ Announced

\* The image fits, and its blocks can be told from each other.
Fits == NumBlocks < BlockMod /\ 128 * NumBlocks <= MaxSize

\* What the device has in hand, and what it has stored when it has.
LEMMA InHand ==
  ASSUME Fits, PInv, WInv, Smooth, pc = "feed"
  PROVE  /\ down = <<>> /\ Said(cur) /\ snd \in {"header", "data", "eot", "last"}
         /\ snd = "header" =>
              /\ cur.kind = "block" /\ cur.num = 0 /\ SizeIn[cur.pay] = 128 * NumBlocks
              /\ ym = "WAIT_HEADER" /\ svc = "WAIT_START"
         /\ snd = "data" =>
              /\ cur.kind = "block" /\ cur.num = blk /\ blk # 0 /\ cur.len = 128
              /\ ym = "RECV_DATA" /\ block_num = blk /\ Len(temp) = blk - 1
         /\ snd = "eot" => cur.kind = "eot" /\ ym \in {"RECV_DATA", "WAIT_EOT"}
         /\ snd = "last" =>
              /\ cur.kind = "block" /\ cur.num = 0 /\ SizeIn[cur.pay] = NoName
              /\ ym = "WAIT_LAST_EMPTY"
<1> USE Limits, BlockModBound
<1>1. Sync /\ blk \in 1 .. NumBlocks
  BY DEF Smooth, WInv, LinkTyped
<1>2. down = <<>> /\ Said(cur)
  BY <1>1, Alone DEF Sync, InStep
<1>3. /\ down # <<"ACK">> /\ down # <<"C">> /\ down # <<"NAK">> /\ down # <<"ACK", "C">>
  BY <1>2
<1>4. snd \in {"header", "data", "eot", "last"} /\ cur = Outgoing(snd, blk)
  BY <1>1, <1>2, <1>3, SaidMeans DEF Smooth, Paired, Said, Sending
<1>5. CASE snd = "header"
  <2>1. cur = Header(0) /\ SizeIn[0] = 128 * NumBlocks
    BY <1>4, <1>5, TransferAssumption DEF Outgoing
  <2> QED
    BY <1>2, <1>3, <1>5, <2>1 DEF Header, Smooth, Paired
<1>6. CASE snd = "data"
  <2>1. cur = Data(blk)
    BY <1>4, <1>6 DEF Outgoing
  <2>2. ym = "RECV_DATA" /\ Len(temp) = blk - 1
    BY <1>3, <1>6 DEF Smooth, Paired
  <2>3. blk % BlockMod = blk /\ blk < BlockMod
    BY <1>1 DEF Fits
  <2>4. block_num = blk
    BY <1>1, <2>2, <2>3 DEF WInv, Counted
  <2> QED
    BY <1>1, <1>2, <1>6, <2>1, <2>2, <2>3, <2>4 DEF Data
<1>7. CASE snd = "eot"
  BY <1>2, <1>3, <1>4, <1>7 DEF Outgoing, Smooth, Paired
<1>8. CASE snd = "last"
  <2>1. cur = Header(NumBlocks + 1) /\ SizeIn[NumBlocks + 1] = NoName
    BY <1>4, <1>8, TransferAssumption DEF Outgoing
  <2> QED
    BY <1>2, <1>3, <1>8, <2>1 DEF Header, Smooth, Paired
<1> QED
  BY <1>4, <1>5, <1>6, <1>7, <1>8

\* There is room for every block.
LEMMA RoomLeft ==
  ASSUME Fits, PInv, WInv, Smooth, pc = "feed", snd = "data"
  PROVE  WriteLen > 0
<1> USE Limits
<1>1. cur.len = 128 /\ ym = "RECV_DATA" /\ Len(temp) = blk - 1 /\ blk \in 1 .. NumBlocks
  BY InHand DEF WInv, LinkTyped
<1>2. image_size = 128 * NumBlocks /\ received_size = 128 * Len(temp)
  BY <1>1 DEF Smooth, Announced, Transferring, PInv, Following
<1> QED
  BY <1>1, <1>2 DEF WriteLen, Remaining

\* Each step of the device is the one the sender counts on, or a disturbance.
LEMMA SmoothDevice ==
  ASSUME Fits, PInv, WInv, Smooth, DeviceStep, ~disturbed'
  PROVE  Smooth'
<1> USE Limits
<1>a. /\ Consumer /\ ~FlashFails /\ Sync /\ UNCHANGED <<snd, blk, up, late>> /\ late = 0
      /\ snd # "aborted" /\ ym # "ABORTED"
      /\ Dequeue \/ NotifyError => down' = down
      /\ ~(Dequeue \/ NotifyError) => down = <<>> /\ down' = tx'
  BY Answered DEF DeviceStep, Smooth, WInv, Sync, sndVars
<1>b. <<>> # <<"ACK">> /\ <<>> # <<"C">> /\ <<>> # <<"NAK">> /\ <<>> # <<"ACK", "C">>
  OBVIOUS
<1>1. CASE Dequeue
  <2>1. /\ pc = "poll" /\ pc' = "feed" /\ rx_queue # <<>> /\ down' = down
        /\ UNCHANGED <<svc, ym, temp, file_size, image_size>>
    BY <1>1, <1>a DEF Dequeue, ymodemVars, imageVars, flashVars
  <2> QED
    BY <1>a, <2>1 DEF Smooth, Paired, Announced, Transferring, Coming
<1>2. CASE RequestStart
  <2>1. /\ pc = "poll" /\ pc' = "poll" /\ svc = "WAIT_START" /\ up = <<>> /\ rx_queue = <<>> /\ down = <<>>
        /\ down' = <<"C">> /\ UNCHANGED <<svc, ym, temp, file_size, image_size>>
    BY <1>2, <1>a DEF RequestStart, DeviceStep, Dequeue, NotifyError, ymodemVars, imageVars, flashVars
  <2>2. snd \notin {"header", "header_c", "data", "eot", "eot_c", "last"}
    BY <1>b, <2>1 DEF Smooth, Paired, Coming
  <2> QED
    BY <1>a, <2>1, <2>2 DEF Smooth, Paired, Announced, Transferring
<1>3. CASE HandleNoise \/ HandleCan \/ HandleLateHeader \/ HandleOtherData \/ HandleStrayData
  <2>1. pc = "feed"
    BY <1>3 DEF HandleNoise, HandleCan, HandleLateHeader, HandleOtherData, HandleStrayData, Feeding
  <2> QED
    BY <1>3, <2>1, InHand DEF HandleNoise, HandleCan, HandleLateHeader, HandleOtherData,
      HandleStrayData, IsHeader, IsData, HeaderExpected
<1>4. CASE HandleEot
  <2>1. pc = "feed" /\ cur.kind = "eot" /\ snd = "eot"
    BY <1>4, InHand DEF HandleEot, Feeding
  <2>2. /\ pc' = "poll" /\ UNCHANGED <<file_size, image_size>> /\ Transferring
        /\ \/ ym' = "WAIT_EOT" /\ down' = <<"NAK">>
           \/ ym' = "WAIT_LAST_EMPTY" /\ down' = <<"ACK", "C">>
    BY <1>4, <1>a, <2>1 DEF HandleEot, Reply, Dequeue, NotifyError, Transferring
  <2> QED
    BY <1>a, <2>1, <2>2 DEF Smooth, Paired, Announced, Transferring
<1>5. CASE ReadHeader
  <2>1. pc = "feed" /\ snd = "header" /\ SizeIn[cur.pay] = 128 * NumBlocks /\ ym = "WAIT_HEADER" /\ svc = "WAIT_START"
    BY <1>5, InHand DEF ReadHeader, Feeding, IsHeader, IsData
  <2>2. pc' = "begin" /\ file_size' = 128 * NumBlocks /\ UNCHANGED <<ym, svc>>
    BY <1>5, <2>1 DEF ReadHeader
  <2> QED
    BY <1>a, <2>1, <2>2 DEF Smooth, Paired, Announced, Transferring
<1>6. CASE BeginImage
  <2>1. pc = "begin" /\ Said(cur) /\ IsHeader /\ down = <<>> /\ up = <<>> /\ rx_queue = <<>>
    BY <1>6, <1>a, Alone DEF BeginImage, Sync, InStep
  <2>2. snd = "header" /\ ym = "WAIT_HEADER" /\ svc = "WAIT_START"
    BY <1>b, <2>1, SaidMeans DEF Smooth, Paired, Coming, WInv, LinkTyped, IsHeader
  <2>3. cur = Header(0) /\ SizeIn[0] = 128 * NumBlocks
    BY <2>1, <2>2, TransferAssumption DEF Said, Outgoing
  <2>4. SizeIn[cur.pay] = 128 * NumBlocks /\ SizeIn[cur.pay] \in 1 .. MaxSize
    BY <2>3, MaxSizeBound DEF Header, Fits
  <2>5. pc' = "erase_temp" /\ image_size' = 128 * NumBlocks /\ UNCHANGED <<ym, svc, file_size>>
    BY <1>6, <2>4 DEF BeginImage, StartImage, ymodemVars
  <2>6. file_size = 128 * NumBlocks
    BY <2>1 DEF Smooth, Announced
  <2> QED
    BY <1>a, <2>2, <2>5, <2>6 DEF Smooth, Paired, Announced
<1>7. CASE EraseTemp
  <2>1. pc = "erase_temp" /\ snd \in {"header", "header_c"} /\ down = <<>>
    BY <1>7, <1>a, Alone DEF EraseTemp, Sync, InStep
  <2>2. snd = "header"
    BY <1>b, <2>1 DEF Smooth, Paired
  <2>3. pc' = "start_data" /\ UNCHANGED <<ym, file_size, image_size>>
    BY <1>7, <1>a, <2>1 DEF EraseTemp, Abort, FlashFails, ymodemVars, imageVars
  <2> QED
    BY <1>a, <2>1, <2>2, <2>3 DEF Smooth, Paired, Announced
<1>13. CASE StartData
  <2>1. pc = "start_data" /\ snd \in {"header", "header_c"} /\ down = <<>>
    BY <1>13, <1>a, Alone DEF StartData, Sync, InStep
  <2>2. snd = "header"
    BY <1>b, <2>1 DEF Smooth, Paired
  <2>3. ym' = "RECV_DATA" /\ pc' = "poll" /\ down' = <<"ACK", "C">> /\ UNCHANGED <<file_size, image_size>>
    BY <1>13, <1>a, <2>1 DEF StartData, Dequeue, NotifyError, imageVars
  <2> QED
    BY <1>a, <2>1, <2>2, <2>3 DEF Smooth, Paired, Announced
<1>8. CASE StoreBlock
  <2>1. pc = "feed" /\ snd = "data" /\ ym = "RECV_DATA"
    BY <1>8, InHand DEF StoreBlock, Feeding, ExpectedData, IsData
  <2>2. pc' = "poll" /\ down' = <<"ACK">> /\ UNCHANGED <<ym, file_size, image_size>>
    BY <1>8, <1>a, <2>1 DEF StoreBlock, Dequeue, NotifyError
  <2> QED
    BY <1>a, <2>1, <2>2 DEF Smooth, Paired, Announced, Transferring
<1>9. CASE StoreFails
  <2>1. pc = "feed" /\ snd = "data"
    BY <1>9, InHand DEF StoreFails, Feeding, ExpectedData, IsData
  <2> QED
    BY <1>9, <1>a, <2>1, RoomLeft DEF FlashFails
<1>10. CASE BeginFinish
  <2>1. pc = "feed" /\ snd = "last" /\ ym = "WAIT_LAST_EMPTY"
    BY <1>10, InHand DEF BeginFinish, Feeding, IsHeader, NoName
  <2>2. file_size = image_size
    BY <2>1 DEF Smooth, Announced, Transferring
  <2>3. pc' = "verify" /\ ym' = "DONE"
    BY <1>10, <2>2 DEF BeginFinish
  <2> QED
    BY <1>a, <2>1, <2>3 DEF Smooth, Paired, Announced, Transferring
<1>11. CASE Verify \/ FlushCache \/ EraseMeta \/ ProgramMeta
  <2>1. pc \in {"verify", "flush", "erase_meta", "program_meta"} /\ down = <<>> /\ up = <<>> /\ rx_queue = <<>>
    BY <1>11, <1>a, Alone DEF Verify, FlushCache, EraseMeta, ProgramMeta, Sync
  <2>2. snd = "last" /\ ym = "DONE"
    BY <1>a, <1>b, <2>1 DEF Sync, InStep, Smooth, Paired, Coming
  <2>3. CASE ProgramMeta
    <3>1. pc' = "poll" /\ ym' = ym /\ down' = <<"ACK">>
      BY <1>a, <2>1, <2>3 DEF ProgramMeta, Abort, FlashFails, Dequeue, NotifyError, ymodemVars
    <3> QED
      BY <1>a, <2>2, <3>1 DEF Smooth, Paired, Announced, Transferring
  <2>4. CASE Verify \/ FlushCache \/ EraseMeta
    <3>1. pc' \in {"flush", "erase_meta", "program_meta"} /\ ym' = ym
      BY <1>a, <2>1, <2>4 DEF Verify, FlushCache, EraseMeta, Abort, FlashFails, ymodemVars
    <3> QED
      BY <1>a, <2>2, <3>1 DEF Smooth, Paired, Announced, Transferring
  <2> QED
    BY <1>11, <2>3, <2>4
<1>12. CASE NotifyError
  BY <1>12, <1>a DEF NotifyError, Sync, InStep
<1> QED
  BY <1>a, <1>1, <1>2, <1>3, <1>4, <1>5, <1>6, <1>7, <1>8, <1>9, <1>10, <1>11, <1>12, <1>13 DEF Consumer

\* Each answer is one on which the sender acts.
LEMMA SmoothReply ==
  ASSUME WInv, Smooth, TakeReply
  PROVE  Smooth'
<1> USE Limits
<1>a. /\ Sync /\ late = 0 /\ snd # "aborted" /\ ym # "ABORTED"
      /\ UNCHANGED <<svc, ym, temp, file_size, image_size, pc, late>>
      /\ down # <<>> /\ down' = Tail(down) /\ up = <<>> /\ rx_queue = <<>>
  BY Replied DEF Smooth, WInv, Sync, vars, ymodemVars, imageVars, flashVars
<1>b. pc = "poll" /\ ~Coming
  BY <1>a DEF Sync, OneAtATime, InStep, Coming
<1>c. \A x : Append(up, x) # <<>>
  BY <1>a
<1>1. Announced'
  BY <1>a DEF Smooth, Announced, Transferring
<1>2. CASE snd = "wait_c"
  <2>1. Head(down) = "C" /\ svc = "WAIT_START" /\ ym = "WAIT_HEADER"
    BY <1>2, <1>a DEF Smooth, Paired, Sync, InStep
  <2>2. snd' = "header" /\ up' # <<>>
    BY <1>2, <1>c, <2>1 DEF TakeReply, Advance, Ignored, GoTo
  <2> QED
    BY <1>1, <1>a, <2>1, <2>2 DEF Smooth, Paired, Coming
<1>3. CASE snd = "header"
  <2>1. down = <<"ACK", "C">> /\ ym = "RECV_DATA"
    BY <1>3, <1>b DEF Smooth, Paired
  <2>2. Head(down) = "ACK" /\ down' = <<"C">>
    BY <1>a, <2>1
  <2>3. snd' = "header_c"
    BY <1>3, <2>2 DEF TakeReply, Advance, Ignored, Wait
  <2> QED
    BY <1>1, <1>a, <2>1, <2>2, <2>3 DEF Smooth, Paired
<1>4. CASE snd = "header_c"
  <2>1. Head(down) = "C" /\ ym = "RECV_DATA" /\ Len(temp) = 0
    BY <1>4, <1>a DEF Smooth, Paired, Sync, Stored
  <2>2. snd' = "data" /\ blk' = 1 /\ up' # <<>>
    BY <1>4, <1>c, <2>1 DEF TakeReply, Advance, Ignored, GoTo
  <2> QED
    BY <1>1, <1>a, <2>1, <2>2 DEF Smooth, Paired, Coming
<1>5. CASE snd = "data"
  <2>1. down = <<"ACK">> /\ Head(down) = "ACK" /\ ym = "RECV_DATA" /\ Len(temp) = blk /\ blk \in 1 .. NumBlocks
    BY <1>5, <1>a, <1>b DEF Smooth, Paired, Sync, Stored, WInv, LinkTyped
  <2>2. up' # <<>> /\ ((snd' = "data" /\ blk' = blk + 1) \/ snd' = "eot")
    BY <1>5, <1>c, <2>1 DEF TakeReply, Advance, Ignored, GoTo
  <2> QED
    BY <1>1, <1>a, <2>1, <2>2 DEF Smooth, Paired, Coming
<1>6. CASE snd = "eot"
  <2>1. CASE down = <<"NAK">> /\ ym = "WAIT_EOT"
    <3>1. Head(down) = "NAK"
      BY <2>1
    <3>2. snd' = "eot" /\ up' # <<>>
      BY <1>6, <1>c, <3>1 DEF TakeReply, Advance, Ignored, GoTo, Sending
    <3> QED
      BY <1>1, <1>a, <2>1, <3>2 DEF Smooth, Paired, Coming
  <2>2. CASE down = <<"ACK", "C">> /\ ym = "WAIT_LAST_EMPTY"
    <3>1. Head(down) = "ACK" /\ down' = <<"C">>
      BY <1>a, <2>2
    <3>2. snd' = "eot_c"
      BY <1>6, <3>1 DEF TakeReply, Advance, Ignored, Wait
    <3> QED
      BY <1>1, <1>a, <2>2, <3>1, <3>2 DEF Smooth, Paired
  <2> QED
    BY <1>6, <1>b, <2>1, <2>2 DEF Smooth, Paired
<1>7. CASE snd = "eot_c"
  <2>1. Head(down) = "C" /\ ym = "WAIT_LAST_EMPTY"
    BY <1>7, <1>a DEF Smooth, Paired
  <2>2. snd' = "last" /\ up' # <<>>
    BY <1>7, <1>c, <2>1 DEF TakeReply, Advance, Ignored, GoTo
  <2> QED
    BY <1>1, <1>a, <2>1, <2>2 DEF Smooth, Paired, Coming
<1>8. CASE snd = "last"
  <2>1. Head(down) = "ACK"
    BY <1>8, <1>b DEF Smooth, Paired
  <2>2. snd' = "done"
    BY <1>8, <2>1 DEF TakeReply, Advance, Ignored, Wait
  <2> QED
    BY <1>1, <1>a, <2>2 DEF Smooth, Paired
<1>9. CASE snd = "done"
  <2>1. snd' = "done"
    BY <1>9 DEF TakeReply, Advance, Ignored, Repeat, Sending, sndVars
  <2> QED
    BY <1>1, <1>a, <2>1 DEF Smooth, Paired
<1>10. snd # "idle"
  BY <1>a DEF Sync, InStep
<1> QED
  BY <1>2, <1>3, <1>4, <1>5, <1>6, <1>7, <1>8, <1>9, <1>10, <1>a DEF WInv, LinkTyped

\* While the sender is not done it has something to wait for.
LEMMA SmoothGoesOn == WInv /\ Smooth /\ Sending => AnswerUnderWay
BY DEF Smooth, Paired, Coming, Sending, AnswerUnderWay, WInv, Sync, OneAtATime

\* Together they pass the turn from one to the other and keep it.
LEMMA SmoothStep ==
  ASSUME Fits, PInv, WInv, Smooth, ~disturbed, [TransferNext]_allVars, ~disturbed'
  PROVE  Smooth'
<1>a. Sync /\ late = 0 /\ snd # "aborted" /\ ym # "ABORTED"
  BY DEF Smooth, WInv
<1>1. CASE DeviceStep
  BY <1>1, SmoothDevice
<1>2. CASE StartTransfer
  <2>1. snd = "idle" /\ svc = "IDLE" /\ down = <<>>
    BY <1>2, <1>a DEF StartTransfer, Sync, InStep
  <2>2. pc = "poll"
    BY <1>a, <2>1, SaidMeans DEF Sync, InStep, Sending, WInv, LinkTyped
  <2>3. snd' = "wait_c" /\ svc' = "WAIT_START" /\ ym' = "WAIT_HEADER" /\ pc' = "poll" /\ down' = <<>> /\ late' = 0
    BY <1>2, <1>a, <2>1, <2>2 DEF StartTransfer, AtStart, linkVars
  <2> QED
    BY <2>3 DEF Smooth, Paired, Announced, Transferring
<1>3. CASE Reboot
  <2>1. svc = "COMPLETED" /\ ym \in {"DONE", "WAIT_HEADER"} /\ pc = "poll"
    BY <1>3 DEF Reboot, RebootIntoImage, WInv, IInv, PcAgrees
  <2>2. snd = "done" \/ (snd = "last" /\ down = <<"ACK">>)
    <3>1. snd \notin {"idle", "wait_c", "header", "header_c", "data", "eot", "eot_c"}
      BY <1>a, <2>1 DEF Smooth, Paired, Sync, InStep
    <3> QED
      BY <1>a, <2>1, <3>1 DEF Smooth, Paired, WInv, LinkTyped
  <2>3. ym' = "WAIT_HEADER" /\ pc' = "poll" /\ UNCHANGED <<snd, down, late>>
    BY <1>3 DEF Reboot, RebootIntoImage, Restart, sndVars, linkVars
  <2> QED
    BY <1>a, <2>2, <2>3 DEF Smooth, Paired, Announced, Transferring
<1>4. CASE Deliver
  <2>1. /\ up # <<>> /\ rx_queue = <<>> /\ UNCHANGED <<snd, blk, svc, ym, temp, file_size, image_size, pc, down, late>>
    BY <1>4, <1>a DEF Deliver, RxChunk, Sync, OneAtATime, sndVars, ymodemVars, imageVars, flashVars
  <2>2. rx_queue' # <<>>
    BY <1>4, <2>1, QueueDepthBound DEF Deliver, RxChunk, Enqueued
  <2> QED
    BY <2>1, <2>2 DEF Smooth, Paired, Announced, Transferring, Coming
<1>5. CASE TakeReply
  BY <1>5, SmoothReply
<1>6. CASE Timeout
  BY <1>6, SmoothGoesOn DEF Timeout
<1>7. CASE GiveUp
  BY <1>7 DEF GiveUp, Smooth, Paired
<1>8. CASE UNCHANGED allVars
  BY <1>8 DEF allVars, vars, sndVars, linkVars, ymodemVars, imageVars, flashVars, Smooth, Paired,
    Announced, Transferring, Coming
<1> QED
  BY <1>1, <1>2, <1>3, <1>4, <1>5, <1>6, <1>7, <1>8 DEF TransferNext, Sender, Crash, Lose

\* What was disturbed once stays so.
LEMMA DisturbedStays == [TransferNext]_allVars /\ ~disturbed' => ~disturbed
BY DEF TransferNext, DeviceStep, StartTransfer, Deliver, Reboot, Crash, Lose, Sender, TakeReply,
    Timeout, GiveUp, allVars

\* Unless something is lost, late or fails, a download of an image that fits
\* never stands still and is never cancelled, whatever number of blocks it has
\* and however the steps of the device, the link and the sender interleave.
THEOREM UndisturbedAnswered ==
  ASSUME BootClears, NumBlocks < BlockMod, 128 * NumBlocks <= MaxSize
  PROVE  TransferSpec => []UndisturbedGoesOn
<1> DEFINE Inv == ~disturbed => Smooth
<1>1. TransferInit => Inv
  BY DEF TransferInit, Init, RamInit, Smooth, Paired, Announced, Transferring
<1>2. PInv /\ WInv /\ Inv /\ [TransferNext]_allVars => Inv'
  BY SmoothStep, DisturbedStays DEF Fits
<1>3. WInv /\ Inv => UndisturbedGoesOn
  BY SmoothGoesOn DEF UndisturbedGoesOn, Smooth
<1> QED
  BY <1>1, <1>2, <1>3, PrefixHolds, WholeHolds, PTL DEF TransferSpec
===============================================================================
