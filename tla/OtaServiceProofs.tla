--------------------------- MODULE OtaServiceProofs ---------------------------
(***************************************************************************)
(* Safety of OtaService for every number of block values, area size, queue *)
(* depth and payload set, and for every order in which interrupts, chunks, *)
(* flash failures and restarts fall between the consumer's steps.          *)
(***************************************************************************)
EXTENDS OtaService, TLAPS

(***************************************************************************)
(* The inductive invariant: what each position of the consumer knows.  It  *)
(* speaks of ym rather than svc: AtStart and AtReset change ym only where  *)
(* they also clear the image.                                              *)
(***************************************************************************)

\* Which states the two machines can be in where the consumer stands.
PcAgrees ==
  /\ pc \in {"begin", "erase_temp", "start_data"} => HeaderExpected
  /\ pc = "start_data" => svc = "RECEIVING"
  /\ pc = "verify" => /\ ym \in {"DONE", "WAIT_HEADER"}
                      /\ svc \in {"IDLE", "WAIT_START", "RECEIVING", "FAILED"}
  /\ pc = "error" => ym \in {"ABORTED", "WAIT_HEADER"} /\ svc # "COMPLETED"
  /\ pc = "flush" => svc = "VERIFYING"
  /\ pc \in {"erase_meta", "program_meta"} => svc = "WRITING_META"
  /\ svc = "VERIFYING" => pc \in {"flush", "error"}
  /\ svc = "WRITING_META" => pc \in {"erase_meta", "program_meta", "error"}
  /\ svc \in {"VERIFYING", "WRITING_META"} =>
       ym \in {"DONE", "WAIT_HEADER"} \/ (pc = "error" /\ ym = "ABORTED")
  /\ svc = "COMPLETED" => pc = "poll" /\ ym \in {"DONE", "WAIT_HEADER"}
  /\ svc \in {"IDLE", "WAIT_START"} =>
       \/ ym = "WAIT_HEADER"
       \/ ym = "DONE" /\ pc = "verify"
       \/ ym = "ABORTED" /\ pc = "error"
  /\ svc = "FAILED" =>
       ym \in {"WAIT_HEADER", "ABORTED"} \/ (ym = "DONE" /\ pc = "verify")
  /\ ym = "WAIT_HEADER" /\ svc = "RECEIVING" => pc = "start_data"
  /\ reboot_pending => svc = "COMPLETED"

\* Sizes and addresses.  Between begin and data nothing is stored yet; a
\* protocol that waits for its first header has no image.
SizesAgree ==
  /\ image_size <= MaxSize
  /\ write_off <= MaxSize /\ write_off % FlashWord = 0
  /\ pc \in {"erase_temp", "start_data"} \/ ym = "WAIT_HEADER" =>
       write_off = 0 /\ cache_len = 0 /\ received_size = 0
  /\ ym = "WAIT_HEADER" /\ pc \notin {"erase_temp", "start_data"} => image_size = 0
  /\ ym # "ABORTED" /\ svc \notin {"WRITING_META", "COMPLETED"} =>
       /\ cache_len < FlashWord
       /\ write_off + cache_len = received_size
       /\ received_size <= image_size
  /\ ym # "ABORTED" /\ svc \in {"WRITING_META", "COMPLETED"} =>
       cache_len = 0 /\ write_off >= received_size

\* The CRC covers what is stored, once the area was erased for the image.
StreamAgrees ==
  /\ pc = "erase_temp" => crc32 = <<>>
  /\ pc = "start_data" => temp = <<>>
  /\ \/ pc = "erase_temp"
     \/ ym = "ABORTED"
     \/ image_size = 0 /\ received_size = 0
     \/ crc32 = temp

\* Metadata lives only from its programming to the restart.
MetaAgrees ==
  BootClears => /\ meta # NoMeta => svc = "COMPLETED"
                /\ meta # NoMeta /\ meta.size > 0 => meta.crc = temp

IInv == TypeOK /\ ModesAgree /\ PcAgrees /\ SizesAgree /\ StreamAgrees /\ MetaAgrees

\* A step out of FAILED, as FailureEndsInRestart has it.
FailedThenRestarted ==
  svc = "FAILED" /\ ym = "ABORTED" /\ svc' # "FAILED" =>
    svc' = "IDLE" /\ rx_queue' = <<>> /\ offline_on'

-------------------------------------------------------------------------------
(***************************************************************************)
(* Facts about the data.                                                   *)
(***************************************************************************)

\* A block the protocol accepts has a known length and a known payload.
LEMMA BlockFields ==
  ASSUME NEW c \in Chunk, c.kind = "block"
  PROVE  /\ c.num \in 0 .. BlockMod - 1
         /\ c.len \in BlockLens
         /\ c.pay \in Payloads
         /\ SizeIn[c.pay] \in Nat \cup {NoName}
  BY OtaAssumption DEF Chunk, Control, Block

\* Idle stands for a chunk without effect.
LEMMA IdleIsChunk == Idle \in Chunk
  BY DEF Idle, Chunk, Control

\* The erased metadata sector.
LEMMA NoMetaIsMeta == NoMeta \in Meta
  BY DEF Meta

\* A programmed metadata record.
LEMMA MetaValues == \A n \in Nat, c \in Seq(Piece) : [size |-> n, crc |-> c] \in Meta
  BY DEF Meta

\* The least a block counter allows.
LEMMA BlockModBound == BlockMod \in Nat /\ BlockMod > 2
  BY OtaAssumption

\* A flash word is not empty.
LEMMA FlashWordBound == FlashWord \in Nat /\ FlashWord > 0
  BY DEF FlashWord

\* The queue has room for one chunk.
LEMMA QueueDepthBound == QueueDepth \in Nat /\ QueueDepth > 0
  BY OtaAssumption

\* What is left of a queue when the consumer has taken its head.
LEMMA HeadAndTail ==
  ASSUME NEW q \in Seq(Chunk), q # <<>>
  PROVE  Head(q) \in Chunk /\ Tail(q) \in Seq(Chunk) /\ Len(Tail(q)) <= Len(q)
  OBVIOUS

\* ota_flash_write_stream: filling the cache by n bytes leaves less than a
\* flash word in it, and moves the rest to flash, in whole words.
LEMMA FlashFill ==
  ASSUME NEW off \in Nat, NEW fill \in Nat
  PROVE  /\ fill % FlashWord \in 0 .. FlashWord - 1
         /\ off + fill - (fill % FlashWord) \in Nat
         /\ off % FlashWord = 0 => (off + fill - (fill % FlashWord)) % FlashWord = 0
  BY DEF FlashWord

\* ota_flash_program_data: how far a write that fails at some flash word gets.
LEMMA PartialWrite ==
  ASSUME NEW off \in Nat, NEW fill \in Nat, NEW done \in 0 .. (fill \div FlashWord) - 1,
         off % FlashWord = 0
  PROVE  /\ off + done * FlashWord \in Nat
         /\ (off + done * FlashWord) % FlashWord = 0
         /\ off + done * FlashWord <= off + fill
<1>1. done \in Nat /\ fill \div FlashWord \in Nat /\ 32 * (fill \div FlashWord) <= fill
  BY DEF FlashWord
<1>2. off + done * FlashWord = off + 32 * done
  BY <1>1 DEF FlashWord
<1>3. 32 * done <= 32 * (fill \div FlashWord)
  BY <1>1
<1>4. (off + 32 * done) % 32 = 0
  BY <1>1 DEF FlashWord
<1>5. QED
  BY <1>1, <1>2, <1>3, <1>4 DEF FlashWord

\* ota_flash_flush_cache: the last flash word still fits, because the area is
\* a whole number of them.
LEMMA LastWord ==
  ASSUME NEW off \in Nat, off % FlashWord = 0, off < MaxSize
  PROVE  off + FlashWord <= MaxSize /\ (off + FlashWord) % FlashWord = 0
  BY OtaAssumption DEF FlashWord

\* An address at the start of the area is aligned.
LEMMA ZeroAligned == 0 % FlashWord = 0
  BY DEF FlashWord

\* The area is not empty.
LEMMA MaxSizeBound == MaxSize \in Nat /\ MaxSize > 0
  BY OtaAssumption

\* A block is stored only while something is left of the image.
LEMMA NothingLeft ==
  ASSUME WriteLen > 0
  PROVE  ~(image_size = 0 /\ received_size = 0)
  BY DEF WriteLen, Remaining

\* The empty queue and the empty stream.
LEMMA EmptySeqs ==
  /\ <<>> \in Seq(Chunk) /\ Len(<<>>) = 0
  /\ <<>> \in Seq(Piece)
  OBVIOUS

\* ota_protocol_on_data writes at most what is left of the image.
LEMMA WriteLenBound ==
  ASSUME image_size \in Nat, received_size \in Nat, cur.len \in BlockLens
  PROVE  /\ WriteLen \in Nat
         /\ received_size <= image_size => received_size + WriteLen <= image_size
  BY DEF WriteLen, Remaining, BlockLens
-------------------------------------------------------------------------------
(***************************************************************************)
(* Type correctness.                                                       *)
(***************************************************************************)

\* At power up every variable has its type.
LEMMA TypeInit == Init => TypeOK
<1> SUFFICES ASSUME Init PROVE TypeOK
  OBVIOUS
<1> USE DEF Init, RamInit
<1>1. StatesTyped
  BY DEF StatesTyped, PcStates, SvcStates, YmStates
<1>2. SizesTyped
  BY OtaAssumption DEF SizesTyped, FlashWord
<1>3. DataTyped
  BY OtaAssumption, IdleIsChunk, NoMetaIsMeta, EmptySeqs DEF DataTyped
<1>4. QED
  BY <1>1, <1>2, <1>3 DEF TypeOK

\* Every step keeps the types.  The cases that set many variables are proved
\* one part of the type invariant at a time.
LEMMA TypeStep == TypeOK /\ [Next]_vars => TypeOK'
<1> SUFFICES ASSUME StatesTyped, SizesTyped, DataTyped, [Next]_vars
             PROVE  TypeOK'
  BY DEF TypeOK
<1> USE DEF TypeOK
<1>1. CASE Dequeue
  <2> USE <1>1 DEF Dequeue, imageVars, ymodemVars, flashVars
  <2>1. StatesTyped'
    BY DEF StatesTyped, PcStates, SvcStates, YmStates
  <2>2. SizesTyped'
    BY DEF SizesTyped
  <2>3. DataTyped'
    <3>1. cur' \in Chunk /\ rx_queue' \in Seq(Chunk) /\ Len(rx_queue') <= QueueDepth
      BY HeadAndTail, QueueDepthBound DEF DataTyped
    <3>2. QED
      BY <3>1 DEF DataTyped
  <2>4. QED
    BY <2>1, <2>2, <2>3
<1>2. CASE RequestStart
  <2> USE <1>2 DEF RequestStart, imageVars, ymodemVars, flashVars
  <2>1. StatesTyped'
    BY DEF StatesTyped, PcStates, SvcStates, YmStates
  <2>2. SizesTyped'
    BY DEF SizesTyped
  <2>3. DataTyped'
    BY DEF DataTyped
  <2>4. QED
    BY <2>1, <2>2, <2>3
<1>3. CASE HandleNoise
  <2> USE <1>3 DEF HandleNoise, Reply, ymodemVars, flashVars
  <2>1. StatesTyped'
    BY DEF StatesTyped, PcStates, SvcStates, YmStates
  <2>2. SizesTyped'
    BY DEF SizesTyped
  <2>3. DataTyped'
    BY IdleIsChunk DEF DataTyped
  <2>4. QED
    BY <2>1, <2>2, <2>3
<1>4. CASE HandleEot
  <2> USE <1>4 DEF HandleEot, Reply, flashVars
  <2>1. StatesTyped'
    BY DEF StatesTyped, PcStates, SvcStates, YmStates
  <2>2. SizesTyped'
    BY DEF SizesTyped
  <2>3. DataTyped'
    BY IdleIsChunk DEF DataTyped
  <2>4. QED
    BY <2>1, <2>2, <2>3
<1>5. CASE HandleCan
  <2> USE <1>5 DEF HandleCan, Abort, imageVars
  <2>1. StatesTyped'
    BY DEF StatesTyped, PcStates, SvcStates, YmStates
  <2>2. SizesTyped'
    BY DEF SizesTyped
  <2>3. DataTyped'
    BY IdleIsChunk, EmptySeqs DEF DataTyped
  <2>4. QED
    BY <2>1, <2>2, <2>3
<1>6. CASE HandleLateHeader
  <2> USE <1>6 DEF HandleLateHeader, Reply, ymodemVars, flashVars
  <2>1. StatesTyped'
    BY DEF StatesTyped, PcStates, SvcStates, YmStates
  <2>2. SizesTyped'
    BY DEF SizesTyped
  <2>3. DataTyped'
    BY IdleIsChunk DEF DataTyped
  <2>4. QED
    BY <2>1, <2>2, <2>3
<1>7. CASE ReadHeader
  <2> USE <1>7 DEF ReadHeader, Feeding, IsHeader, NoName, imageVars, flashVars
  <2>1. StatesTyped'
    BY DEF StatesTyped, PcStates, SvcStates, YmStates
  <2>2. SizesTyped'
    <3>1. SizeIn[cur.pay] \in Nat
      BY BlockFields DEF DataTyped
    <3>2. QED
      BY <3>1 DEF SizesTyped
  <2>3. DataTyped'
    BY DEF DataTyped
  <2>4. QED
    BY <2>1, <2>2, <2>3
<1>8. CASE BeginImage
  <2> USE <1>8 DEF BeginImage, Abort, StartImage, ymodemVars, imageVars, flashVars
  <2>1. StatesTyped'
    BY DEF StatesTyped, PcStates, SvcStates, YmStates
  <2>2. SizesTyped'
    BY FlashWordBound, MaxSizeBound DEF SizesTyped
  <2>3. DataTyped'
    BY EmptySeqs DEF DataTyped
  <2>4. QED
    BY <2>1, <2>2, <2>3
<1>9. CASE EraseTemp
  <2> USE <1>9 DEF EraseTemp, Abort, imageVars, ymodemVars
  <2>1. StatesTyped'
    BY DEF StatesTyped, PcStates, SvcStates, YmStates
  <2>2. SizesTyped'
    BY BlockModBound, FlashWordBound DEF SizesTyped
  <2>3. DataTyped'
    BY IdleIsChunk, EmptySeqs DEF DataTyped
  <2>4. QED
    BY <2>1, <2>2, <2>3
<1>10. CASE StoreBlock
  <2> USE <1>10 DEF StoreBlock, StreamCrc, Feeding, ExpectedData, IsData
  <2>1. StatesTyped'
    BY DEF StatesTyped, PcStates, SvcStates, YmStates
  <2>2. cur.pay \in Payloads /\ WriteLen \in Nat
    BY BlockFields, WriteLenBound DEF DataTyped, SizesTyped
  <2>3. SizesTyped'
    <3>1. block_num' \in 0 .. BlockMod - 1
      BY BlockModBound DEF SizesTyped, NextBlock
    <3>2. PICK fill : /\ fill = cache_len + WriteLen
                      /\ cache_len' = fill % FlashWord
                      /\ write_off' = write_off + fill - (fill % FlashWord)
      OBVIOUS
    <3>3. fill \in Nat
      BY <2>2, <3>2, FlashWordBound DEF SizesTyped
    <3>4. write_off \in Nat
      BY DEF SizesTyped
    <3>5. /\ fill % FlashWord \in 0 .. FlashWord - 1
          /\ write_off + fill - (fill % FlashWord) \in Nat
      BY <3>3, <3>4, FlashFill
    <3>6. cache_len' \in 0 .. FlashWord /\ write_off' \in Nat
      BY <3>2, <3>5, FlashWordBound
    <3>7. QED
      BY <2>2, <3>1, <3>6 DEF SizesTyped
  <2>4. DataTyped'
    <3>1. <<cur.pay, WriteLen>> \in Piece
      BY <2>2 DEF Piece
    <3>2. QED
      BY <3>1, IdleIsChunk DEF DataTyped
  <2>5. QED
    BY <2>1, <2>3, <2>4
<1>11. CASE StoreFails
  <2> USE <1>11 DEF StoreFails, Abort, Feeding, ExpectedData, IsData
  <2>1. StatesTyped'
    BY DEF StatesTyped, PcStates, SvcStates, YmStates
  <2>2. SizesTyped'
    BY BlockModBound, FlashWordBound, BlockFields, WriteLenBound DEF SizesTyped
  <2>3. DataTyped'
    BY IdleIsChunk, MetaValues, EmptySeqs, BlockFields, WriteLenBound DEF DataTyped
  <2>4. QED
    BY <2>1, <2>2, <2>3
<1>12. CASE HandleOtherData
  <2> USE <1>12 DEF HandleOtherData, Reply, ymodemVars, flashVars
  <2>1. StatesTyped'
    BY DEF StatesTyped, PcStates, SvcStates, YmStates
  <2>2. SizesTyped'
    BY DEF SizesTyped
  <2>3. DataTyped'
    BY IdleIsChunk DEF DataTyped
  <2>4. QED
    BY <2>1, <2>2, <2>3
<1>13. CASE HandleStrayData
  <2> USE <1>13 DEF HandleStrayData, Abort, imageVars
  <2>1. StatesTyped'
    BY DEF StatesTyped, PcStates, SvcStates, YmStates
  <2>2. SizesTyped'
    BY DEF SizesTyped
  <2>3. DataTyped'
    BY IdleIsChunk, EmptySeqs DEF DataTyped
  <2>4. QED
    BY <2>1, <2>2, <2>3
<1>14. CASE BeginFinish
  <2> USE <1>14 DEF BeginFinish, Abort, imageVars, flashVars
  <2>1. StatesTyped'
    BY DEF StatesTyped, PcStates, SvcStates, YmStates
  <2>2. SizesTyped'
    BY DEF SizesTyped
  <2>3. DataTyped'
    BY IdleIsChunk, EmptySeqs DEF DataTyped
  <2>4. QED
    BY <2>1, <2>2, <2>3
<1>15. CASE FlushCache
  <2> USE <1>15 DEF FlushCache, Abort, imageVars, ymodemVars, flashVars
  <2>1. StatesTyped'
    BY DEF StatesTyped, PcStates, SvcStates, YmStates
  <2>2. SizesTyped'
    BY BlockModBound, FlashWordBound DEF SizesTyped
  <2>3. DataTyped'
    BY IdleIsChunk, EmptySeqs DEF DataTyped
  <2>4. QED
    BY <2>1, <2>2, <2>3
<1>16. CASE EraseMeta
  <2> USE <1>16 DEF EraseMeta, Abort, imageVars, ymodemVars
  <2>1. StatesTyped'
    BY DEF StatesTyped, PcStates, SvcStates, YmStates
  <2>2. SizesTyped'
    BY DEF SizesTyped
  <2>3. DataTyped'
    BY IdleIsChunk, NoMetaIsMeta, EmptySeqs DEF DataTyped
  <2>4. QED
    BY <2>1, <2>2, <2>3
<1>17. CASE ProgramMeta
  <2> USE <1>17 DEF ProgramMeta, Complete, Abort, imageVars, ymodemVars
  <2>1. StatesTyped'
    BY DEF StatesTyped, PcStates, SvcStates, YmStates
  <2>2. SizesTyped'
    BY BlockModBound, FlashWordBound DEF SizesTyped
  <2>3. DataTyped'
    <3>1. [size |-> image_size, crc |-> crc32] \in Meta
      BY MetaValues DEF SizesTyped, DataTyped
    <3>2. QED
      BY <3>1, IdleIsChunk, EmptySeqs DEF DataTyped
  <2>4. QED
    BY <2>1, <2>2, <2>3
<1>18. CASE AtStart
  <2> USE <1>18 DEF AtStart, HaltInIsr, StartImage, imageVars, ymodemVars, flashVars
  <2>1. StatesTyped'
    BY DEF StatesTyped, PcStates, SvcStates, YmStates
  <2>2. SizesTyped'
    BY BlockModBound, FlashWordBound DEF SizesTyped
  <2>3. DataTyped'
    BY EmptySeqs DEF DataTyped
  <2>4. QED
    BY <2>1, <2>2, <2>3
<1>19. CASE AtReset
  <2> USE <1>19 DEF AtReset, HaltInIsr, StartImage, imageVars, ymodemVars, flashVars
  <2>1. StatesTyped'
    BY DEF StatesTyped, PcStates, SvcStates, YmStates
  <2>2. SizesTyped'
    BY BlockModBound, FlashWordBound DEF SizesTyped
  <2>3. DataTyped'
    BY EmptySeqs DEF DataTyped
  <2>4. QED
    BY <2>1, <2>2, <2>3
<1>20. CASE \E c \in Chunk : RxChunk(c)
  <2> USE <1>20 DEF RxChunk, Enqueued, imageVars, ymodemVars, flashVars
  <2>1. StatesTyped'
    BY DEF StatesTyped, PcStates, SvcStates, YmStates
  <2>2. SizesTyped'
    BY DEF SizesTyped
  <2>3. DataTyped'
    BY OtaAssumption DEF DataTyped
  <2>4. QED
    BY <2>1, <2>2, <2>3
<1>21. CASE RebootIntoImage
  <2> USE <1>21 DEF RebootIntoImage, Restart, StartImage
  <2>1. StatesTyped'
    BY DEF StatesTyped, PcStates, SvcStates, YmStates
  <2>2. SizesTyped'
    BY BlockModBound, FlashWordBound DEF SizesTyped
  <2>3. DataTyped'
    BY IdleIsChunk, NoMetaIsMeta, EmptySeqs, QueueDepthBound DEF DataTyped
  <2>4. QED
    BY <2>1, <2>2, <2>3
<1>22. CASE WatchdogReset
  <2> USE <1>22 DEF WatchdogReset, Restart, StartImage
  <2>1. StatesTyped'
    BY DEF StatesTyped, PcStates, SvcStates, YmStates
  <2>2. SizesTyped'
    BY BlockModBound, FlashWordBound DEF SizesTyped
  <2>3. DataTyped'
    BY IdleIsChunk, NoMetaIsMeta, EmptySeqs, QueueDepthBound DEF DataTyped
  <2>4. QED
    BY <2>1, <2>2, <2>3
<1>23. CASE OtherReset
  <2> USE <1>23 DEF OtherReset, Restart, StartImage
  <2>1. StatesTyped'
    BY DEF StatesTyped, PcStates, SvcStates, YmStates
  <2>2. SizesTyped'
    BY BlockModBound, FlashWordBound DEF SizesTyped
  <2>3. DataTyped'
    BY IdleIsChunk, NoMetaIsMeta, EmptySeqs, QueueDepthBound DEF DataTyped
  <2>4. QED
    BY <2>1, <2>2, <2>3
<1>24. CASE UNCHANGED vars
  <2> USE <1>24 DEF vars, imageVars, ymodemVars, flashVars
  <2>1. StatesTyped'
    BY DEF StatesTyped, PcStates, SvcStates, YmStates
  <2>2. SizesTyped'
    BY DEF SizesTyped
  <2>3. DataTyped'
    BY DEF DataTyped
  <2>4. QED
    BY <2>1, <2>2, <2>3
<1>25. CASE Verify
  <2> USE <1>25 DEF Verify, ymodemVars, imageVars, flashVars
  <2>1. StatesTyped'
    BY DEF StatesTyped, PcStates, SvcStates, YmStates
  <2>2. SizesTyped'
    BY DEF SizesTyped
  <2>3. DataTyped'
    BY IdleIsChunk, EmptySeqs DEF DataTyped
  <2>4. QED
    BY <2>1, <2>2, <2>3
<1>26. CASE NotifyError
  <2> USE <1>26 DEF NotifyError, ymodemVars, imageVars
  <2>1. StatesTyped'
    BY DEF StatesTyped, PcStates, SvcStates, YmStates
  <2>2. SizesTyped'
    BY DEF SizesTyped
  <2>3. DataTyped'
    BY IdleIsChunk, EmptySeqs DEF DataTyped
  <2>4. QED
    BY <2>1, <2>2, <2>3
<1>27. CASE StartData
  <2> USE <1>27 DEF StartData, imageVars, flashVars
  <2>1. StatesTyped'
    BY DEF StatesTyped, PcStates, SvcStates, YmStates
  <2>2. SizesTyped'
    BY BlockModBound DEF SizesTyped
  <2>3. DataTyped'
    BY IdleIsChunk DEF DataTyped
  <2>4. QED
    BY <2>1, <2>2, <2>3
<1>q. QED
  BY <1>1, <1>2, <1>3, <1>4, <1>5, <1>6, <1>7, <1>8, <1>9, <1>10, <1>11, <1>12, <1>13, <1>14, <1>15, <1>16, <1>17, <1>18, <1>19, <1>20, <1>21, <1>22, <1>23, <1>24, <1>25, <1>26, <1>27 DEF Next, Isr, Consumer

\* Every variable keeps its type, and the queue its depth.
THEOREM TypeCorrect == Spec => []TypeOK
<1>1. QED
  BY TypeInit, TypeStep, PTL DEF Spec
-------------------------------------------------------------------------------
(***************************************************************************)
(* The inductive invariant.                                                *)
(***************************************************************************)

\* Every step keeps the two machines and the position of the consumer agreed.
LEMMA ModesStep ==
  ASSUME StatesTyped, ModesAgree, PcAgrees, [Next]_vars
  PROVE  ModesAgree' /\ PcAgrees'
<1> USE DEF ModesAgree, PcAgrees, Transferring, HeaderExpected, StatesTyped, SvcStates, YmStates, PcStates
<1>1. CASE Dequeue
  BY <1>1 DEF Dequeue, imageVars, ymodemVars, flashVars
<1>2. CASE RequestStart
  BY <1>2 DEF RequestStart, imageVars, ymodemVars, flashVars
<1>3. CASE HandleNoise
  BY <1>3 DEF HandleNoise, Feeding, Reply, imageVars, ymodemVars, flashVars
<1>4. CASE HandleEot
  BY <1>4 DEF HandleEot, Feeding, Reply, imageVars, ymodemVars, flashVars
<1>5. CASE HandleCan
  BY <1>5 DEF HandleCan, Feeding, Abort, imageVars, ymodemVars, flashVars
<1>6. CASE HandleLateHeader
  BY <1>6 DEF HandleLateHeader, Feeding, Reply, imageVars, ymodemVars, flashVars
<1>7. CASE ReadHeader
  BY <1>7 DEF ReadHeader, Feeding, imageVars, ymodemVars, flashVars
<1>8. CASE BeginImage
  BY <1>8 DEF BeginImage, Abort, StartImage, imageVars, ymodemVars, flashVars
<1>9. CASE EraseTemp
  BY <1>9 DEF EraseTemp, Abort, imageVars, ymodemVars, flashVars
<1>10. CASE StoreBlock
  BY <1>10 DEF StoreBlock, Feeding, ExpectedData, imageVars, ymodemVars, flashVars
<1>11. CASE StoreFails
  BY <1>11 DEF StoreFails, Feeding, ExpectedData, Abort, imageVars, ymodemVars, flashVars
<1>12. CASE HandleOtherData
  BY <1>12 DEF HandleOtherData, Feeding, Reply, imageVars, ymodemVars, flashVars
<1>13. CASE HandleStrayData
  BY <1>13 DEF HandleStrayData, Feeding, Abort, imageVars, ymodemVars, flashVars
<1>14. CASE BeginFinish
  BY <1>14 DEF BeginFinish, Feeding, Abort, imageVars, ymodemVars, flashVars
<1>15. CASE Verify
  BY <1>15 DEF Verify, imageVars, ymodemVars, flashVars
<1>16. CASE FlushCache
  BY <1>16 DEF FlushCache, Abort, imageVars, ymodemVars, flashVars
<1>17. CASE EraseMeta
  BY <1>17 DEF EraseMeta, Abort, imageVars, ymodemVars, flashVars
<1>18. CASE ProgramMeta
  BY <1>18 DEF ProgramMeta, Complete, Abort, imageVars, ymodemVars, flashVars
<1>19. CASE NotifyError
  BY <1>19 DEF NotifyError, imageVars, ymodemVars, flashVars
<1>20. CASE AtStart
  BY <1>20 DEF AtStart, HaltInIsr, StartImage, imageVars, ymodemVars, flashVars
<1>21. CASE AtReset
  BY <1>21 DEF AtReset, HaltInIsr, StartImage, imageVars, ymodemVars, flashVars
<1>22. CASE \E c \in Chunk : RxChunk(c)
  BY <1>22 DEF RxChunk, imageVars, ymodemVars, flashVars
<1>23. CASE RebootIntoImage
  BY <1>23 DEF RebootIntoImage, Restart, StartImage, imageVars, ymodemVars, flashVars
<1>24. CASE WatchdogReset
  BY <1>24 DEF WatchdogReset, Restart, StartImage, imageVars, ymodemVars, flashVars
<1>25. CASE OtherReset
  BY <1>25 DEF OtherReset, Restart, StartImage, imageVars, ymodemVars, flashVars
<1>26. CASE UNCHANGED vars
  BY <1>26 DEF vars, imageVars, ymodemVars, flashVars
<1>27. CASE StartData
  BY <1>27 DEF StartData, imageVars, ymodemVars, flashVars
<1>q. QED
  BY <1>1, <1>2, <1>3, <1>4, <1>5, <1>6, <1>7, <1>8, <1>9, <1>10, <1>11, <1>12, <1>13, <1>14, <1>15, <1>16, <1>17, <1>18, <1>19, <1>20, <1>21, <1>22, <1>23, <1>24, <1>25, <1>26, <1>27 DEF Next, Isr, Consumer

\* Every step keeps the sizes within the image, and the image within the area.
LEMMA SizesStep ==
  ASSUME StatesTyped, SizesTyped, DataTyped, ModesAgree, PcAgrees, SizesAgree, [Next]_vars
  PROVE  SizesAgree'
<1> USE DEF SizesAgree
<1>1. CASE Dequeue
  BY <1>1 DEF PcAgrees, Dequeue, imageVars, ymodemVars, flashVars
<1>2. CASE RequestStart
  BY <1>2 DEF PcAgrees, RequestStart, imageVars, ymodemVars, flashVars
<1>3. CASE HandleNoise
  BY <1>3 DEF PcAgrees, HandleNoise, Feeding, Reply, imageVars, ymodemVars, flashVars
<1>4. CASE HandleEot
  BY <1>4 DEF PcAgrees, HandleEot, Feeding, Reply, imageVars, ymodemVars, flashVars
<1>5. CASE HandleCan
  BY <1>5 DEF PcAgrees, HandleCan, Feeding, Abort, imageVars, ymodemVars, flashVars
<1>6. CASE HandleLateHeader
  BY <1>6 DEF PcAgrees, HandleLateHeader, Feeding, Reply, imageVars, ymodemVars, flashVars
<1>7. CASE ReadHeader
  BY <1>7 DEF PcAgrees, ModesAgree, Transferring, HeaderExpected, SizesTyped, ReadHeader, Feeding, imageVars, ymodemVars, flashVars
<1>8. CASE BeginImage
  BY <1>8, ZeroAligned, FlashWordBound, MaxSizeBound DEF PcAgrees, ModesAgree, Transferring, HeaderExpected, SizesTyped, BeginImage, Abort, StartImage, imageVars, ymodemVars, flashVars
<1>9. CASE EraseTemp
  BY <1>9 DEF PcAgrees, ModesAgree, Transferring, HeaderExpected, SizesTyped, EraseTemp, Abort, imageVars, ymodemVars, flashVars
<1>10. CASE StoreBlock
  <2> USE <1>10 DEF PcAgrees, StoreBlock, Feeding, ExpectedData, IsData
  <2>1. /\ WriteLen \in Nat
        /\ received_size <= image_size => received_size + WriteLen <= image_size
    BY BlockFields, WriteLenBound DEF DataTyped, SizesTyped
  <2>2. PICK fill : /\ fill = cache_len + WriteLen
                    /\ cache_len' = fill % FlashWord
                    /\ write_off' = write_off + fill - (fill % FlashWord)
    OBVIOUS
  <2>3. svc = "RECEIVING" /\ svc' = svc /\ ym = "RECV_DATA" /\ ym' = ym /\ pc' = "poll"
    BY DEF ModesAgree, Transferring
  <2>4. /\ image_size <= MaxSize /\ write_off % FlashWord = 0
        /\ write_off + cache_len = received_size
        /\ received_size <= image_size
    BY <2>3
  <2>5. fill \in Nat /\ write_off \in Nat
    BY <2>1, <2>2, FlashWordBound DEF SizesTyped
  <2>6. /\ cache_len' \in 0 .. FlashWord - 1
        /\ write_off' \in Nat /\ write_off' % FlashWord = 0
    BY <2>2, <2>4, <2>5, FlashFill
  <2>7. write_off' + cache_len' = received_size + WriteLen
    BY <2>1, <2>2, <2>4, <2>5, <2>6, FlashWordBound DEF SizesTyped
  <2>8. /\ received_size' = received_size + WriteLen /\ image_size' = image_size
    OBVIOUS
  <2>9. write_off' <= MaxSize
    BY <2>1, <2>4, <2>6, <2>7, FlashWordBound, MaxSizeBound DEF SizesTyped
  <2>10. QED
    BY <2>1, <2>3, <2>4, <2>6, <2>7, <2>8, <2>9, FlashWordBound
<1>11. CASE StoreFails
  <2> USE DEF PcAgrees, StoreFails, Feeding, ExpectedData, IsData, Abort
  <2>1. svc = "RECEIVING" /\ ym = "RECV_DATA" /\ ym' = "ABORTED" /\ pc' = "error" /\ image_size' = image_size
    BY <1>11 DEF ModesAgree, Transferring
  <2>2. /\ WriteLen \in Nat
        /\ received_size <= image_size => received_size + WriteLen <= image_size
    BY <1>11, BlockFields, WriteLenBound DEF DataTyped, SizesTyped
  <2>3. /\ image_size <= MaxSize /\ write_off <= MaxSize /\ write_off % FlashWord = 0
        /\ write_off + cache_len = received_size
        /\ received_size <= image_size
    BY <2>1
  <2>4. write_off \in Nat /\ cache_len + WriteLen \in Nat
    BY <2>2, FlashWordBound DEF SizesTyped
  <2>5. write_off + (cache_len + WriteLen) <= MaxSize
    BY <2>2, <2>3, MaxSizeBound, FlashWordBound DEF SizesTyped
  <2>6. write_off' <= MaxSize /\ write_off' % FlashWord = 0
    <3>1. CASE write_off' = write_off
      BY <2>3, <3>1
    <3>2. CASE \E done \in 0 .. ((cache_len + WriteLen) \div FlashWord) - 1 :
                 write_off' = write_off + done * FlashWord
      <4>1. PICK done \in 0 .. ((cache_len + WriteLen) \div FlashWord) - 1 :
                   write_off' = write_off + done * FlashWord
        BY <3>2
      <4>2. /\ write_off' \in Nat /\ write_off' % FlashWord = 0
            /\ write_off' <= write_off + (cache_len + WriteLen)
        BY <2>3, <2>4, <4>1, PartialWrite
      <4>3. QED
        BY <2>4, <2>5, <4>2, MaxSizeBound
    <3>3. QED
      BY <1>11, <3>1, <3>2
  <2>7. QED
    BY <2>1, <2>3, <2>6
<1>12. CASE HandleOtherData
  BY <1>12 DEF PcAgrees, HandleOtherData, Feeding, Reply, imageVars, ymodemVars, flashVars
<1>13. CASE HandleStrayData
  BY <1>13 DEF PcAgrees, HandleStrayData, Feeding, Abort, imageVars, ymodemVars, flashVars
<1>14. CASE BeginFinish
  BY <1>14 DEF PcAgrees, ModesAgree, Transferring, HeaderExpected, SizesTyped, BeginFinish, Feeding, Abort, imageVars, ymodemVars, flashVars
<1>15. CASE Verify
  BY <1>15 DEF PcAgrees, ModesAgree, Transferring, HeaderExpected, SizesTyped, Verify, imageVars, ymodemVars, flashVars
<1>16. CASE FlushCache
  <2> USE <1>16 DEF PcAgrees, FlushCache, Abort
  <2>1. svc = "VERIFYING" /\ ym # "ABORTED" /\ pc' # "erase_temp" /\ image_size' = image_size
    BY DEF PcAgrees, imageVars
  <2>2. /\ image_size <= MaxSize /\ write_off <= MaxSize /\ write_off % FlashWord = 0
        /\ write_off + cache_len = received_size
        /\ received_size <= image_size
        /\ cache_len < FlashWord
    BY <2>1
  <2>3. CASE ym' = "ABORTED"
    BY <2>1, <2>2, <2>3 DEF imageVars, ymodemVars
  <2>4. CASE svc' = "WRITING_META"
    <3>1. cache_len' = 0 /\ received_size' = received_size /\ ym' = ym
      BY <2>1, <2>4 DEF ymodemVars
    <3>2. CASE cache_len = 0
      <4>1. write_off' = write_off
        BY <2>4, <3>2
      <4>2. write_off' >= received_size
        BY <2>2, <3>2, <4>1 DEF SizesTyped
      <4>3. QED
        BY <2>1, <2>2, <2>4, <3>1, <4>1, <4>2
    <3>3. CASE cache_len # 0
      <4>1. write_off \in Nat /\ write_off < MaxSize
        BY <2>2, <3>3, FlashWordBound, MaxSizeBound DEF SizesTyped
      <4>2. write_off' = write_off + FlashWord
        BY <2>4, <3>3
      <4>3. write_off' <= MaxSize /\ write_off' % FlashWord = 0
        BY <2>2, <4>1, <4>2, LastWord
      <4>4. write_off' >= received_size /\ ym # "WAIT_HEADER"
        BY <2>2, <3>3, <4>1, <4>2, FlashWordBound DEF SizesTyped
      <4>5. QED
        BY <2>1, <2>2, <2>4, <3>1, <4>3, <4>4
    <3>4. QED
      BY <3>2, <3>3
  <2>5. QED
    BY <2>3, <2>4 DEF imageVars
<1>17. CASE EraseMeta
  BY <1>17 DEF PcAgrees, EraseMeta, Abort, imageVars, ymodemVars, flashVars
<1>18. CASE ProgramMeta
  BY <1>18 DEF PcAgrees, ProgramMeta, Complete, Abort, imageVars, ymodemVars, flashVars
<1>19. CASE NotifyError
  BY <1>19, FlashWordBound DEF PcAgrees, SizesTyped, NotifyError, imageVars, ymodemVars, flashVars
<1>20. CASE AtStart
  BY <1>20, ZeroAligned, FlashWordBound, MaxSizeBound DEF PcAgrees, AtStart, HaltInIsr, StartImage, imageVars, ymodemVars, flashVars
<1>21. CASE AtReset
  BY <1>21, ZeroAligned, FlashWordBound, MaxSizeBound DEF PcAgrees, AtReset, HaltInIsr, StartImage, imageVars, ymodemVars, flashVars
<1>22. CASE \E c \in Chunk : RxChunk(c)
  BY <1>22 DEF PcAgrees, RxChunk, imageVars, ymodemVars, flashVars
<1>23. CASE RebootIntoImage
  BY <1>23, ZeroAligned, FlashWordBound, MaxSizeBound DEF PcAgrees, RebootIntoImage, Restart, StartImage, imageVars, ymodemVars, flashVars
<1>24. CASE WatchdogReset
  BY <1>24, ZeroAligned, FlashWordBound, MaxSizeBound DEF PcAgrees, WatchdogReset, Restart, StartImage, imageVars, ymodemVars, flashVars
<1>25. CASE OtherReset
  BY <1>25, ZeroAligned, FlashWordBound, MaxSizeBound DEF PcAgrees, OtherReset, Restart, StartImage, imageVars, ymodemVars, flashVars
<1>26. CASE UNCHANGED vars
  BY <1>26 DEF PcAgrees, vars, imageVars, ymodemVars, flashVars
<1>27. CASE StartData
  BY <1>27 DEF PcAgrees, ModesAgree, Transferring, HeaderExpected, SizesTyped, StartData, imageVars, ymodemVars, flashVars
<1>q. QED
  BY <1>1, <1>2, <1>3, <1>4, <1>5, <1>6, <1>7, <1>8, <1>9, <1>10, <1>11, <1>12, <1>13, <1>14, <1>15, <1>16, <1>17, <1>18, <1>19, <1>20, <1>21, <1>22, <1>23, <1>24, <1>25, <1>26, <1>27 DEF Next, Isr, Consumer

\* Every step keeps the CRC on the bytes stored.
LEMMA StreamStep ==
  ASSUME StatesTyped, ModesAgree, PcAgrees, SizesAgree, StreamAgrees, [Next]_vars
  PROVE  StreamAgrees'
<1> USE DEF StreamAgrees
<1>1. CASE Dequeue
  BY <1>1 DEF SizesAgree, PcAgrees, HeaderExpected, Dequeue, imageVars, ymodemVars, flashVars
<1>2. CASE RequestStart
  BY <1>2 DEF SizesAgree, PcAgrees, HeaderExpected, RequestStart, imageVars, ymodemVars, flashVars
<1>3. CASE HandleNoise
  BY <1>3 DEF SizesAgree, PcAgrees, HeaderExpected, HandleNoise, Feeding, Reply, imageVars, ymodemVars, flashVars
<1>4. CASE HandleEot
  BY <1>4 DEF SizesAgree, PcAgrees, HeaderExpected, HandleEot, Feeding, Reply, imageVars, ymodemVars, flashVars
<1>5. CASE HandleCan
  BY <1>5 DEF SizesAgree, PcAgrees, HeaderExpected, HandleCan, Feeding, Abort, imageVars, ymodemVars, flashVars
<1>6. CASE HandleLateHeader
  BY <1>6 DEF SizesAgree, PcAgrees, HeaderExpected, HandleLateHeader, Feeding, Reply, imageVars, ymodemVars, flashVars
<1>7. CASE ReadHeader
  BY <1>7 DEF SizesAgree, PcAgrees, HeaderExpected, ReadHeader, Feeding, imageVars, ymodemVars, flashVars
<1>8. CASE BeginImage
  BY <1>8 DEF SizesAgree, PcAgrees, HeaderExpected, BeginImage, Abort, StartImage, imageVars, ymodemVars, flashVars
<1>9. CASE EraseTemp
  BY <1>9 DEF SizesAgree, PcAgrees, HeaderExpected, EraseTemp, Abort, imageVars, ymodemVars, flashVars
<1>10. CASE StoreBlock
  <2>1. /\ pc' = "poll" /\ crc32' = Append(crc32, <<cur.pay, WriteLen>>)
        /\ temp' = Append(temp, <<cur.pay, WriteLen>>)
    BY <1>10 DEF SizesAgree, PcAgrees, HeaderExpected, StoreBlock, StreamCrc
  <2>2. ~(image_size = 0 /\ received_size = 0)
    <3>1. WriteLen > 0
      BY <1>10 DEF StoreBlock
    <3>2. QED
      BY <3>1, NothingLeft
  <2>3. pc # "erase_temp" /\ ym # "ABORTED"
    BY <1>10 DEF SizesAgree, PcAgrees, HeaderExpected, StoreBlock, Feeding, ExpectedData
  <2>4. QED
    BY <2>1, <2>2, <2>3
<1>11. CASE StoreFails
  BY <1>11 DEF SizesAgree, PcAgrees, HeaderExpected, StoreFails, Feeding, ExpectedData, Abort, imageVars, ymodemVars, flashVars
<1>12. CASE HandleOtherData
  BY <1>12 DEF SizesAgree, PcAgrees, HeaderExpected, HandleOtherData, Feeding, Reply, imageVars, ymodemVars, flashVars
<1>13. CASE HandleStrayData
  BY <1>13 DEF SizesAgree, PcAgrees, HeaderExpected, HandleStrayData, Feeding, Abort, imageVars, ymodemVars, flashVars
<1>14. CASE BeginFinish
  BY <1>14 DEF SizesAgree, PcAgrees, HeaderExpected, BeginFinish, Feeding, Abort, imageVars, ymodemVars, flashVars
<1>15. CASE Verify
  BY <1>15 DEF SizesAgree, PcAgrees, HeaderExpected, Verify, imageVars, ymodemVars, flashVars
<1>16. CASE FlushCache
  BY <1>16 DEF SizesAgree, PcAgrees, HeaderExpected, FlushCache, Abort, imageVars, ymodemVars, flashVars
<1>17. CASE EraseMeta
  BY <1>17 DEF SizesAgree, PcAgrees, HeaderExpected, EraseMeta, Abort, imageVars, ymodemVars, flashVars
<1>18. CASE ProgramMeta
  BY <1>18 DEF SizesAgree, PcAgrees, HeaderExpected, ProgramMeta, Complete, Abort, imageVars, ymodemVars, flashVars
<1>19. CASE NotifyError
  BY <1>19 DEF SizesAgree, PcAgrees, HeaderExpected, NotifyError, imageVars, ymodemVars, flashVars
<1>20. CASE AtStart
  BY <1>20 DEF SizesAgree, PcAgrees, HeaderExpected, AtStart, HaltInIsr, StartImage, imageVars, ymodemVars, flashVars
<1>21. CASE AtReset
  BY <1>21 DEF SizesAgree, PcAgrees, HeaderExpected, AtReset, HaltInIsr, StartImage, imageVars, ymodemVars, flashVars
<1>22. CASE \E c \in Chunk : RxChunk(c)
  BY <1>22 DEF SizesAgree, PcAgrees, HeaderExpected, RxChunk, imageVars, ymodemVars, flashVars
<1>23. CASE RebootIntoImage
  BY <1>23 DEF SizesAgree, PcAgrees, HeaderExpected, RebootIntoImage, Restart, StartImage, imageVars, ymodemVars, flashVars
<1>24. CASE WatchdogReset
  BY <1>24 DEF SizesAgree, PcAgrees, HeaderExpected, WatchdogReset, Restart, StartImage, imageVars, ymodemVars, flashVars
<1>25. CASE OtherReset
  BY <1>25 DEF SizesAgree, PcAgrees, HeaderExpected, OtherReset, Restart, StartImage, imageVars, ymodemVars, flashVars
<1>26. CASE UNCHANGED vars
  BY <1>26 DEF vars, imageVars, ymodemVars, flashVars
<1>27. CASE StartData
  BY <1>27 DEF SizesAgree, PcAgrees, HeaderExpected, StartData, imageVars, ymodemVars, flashVars
<1>q. QED
  BY <1>1, <1>2, <1>3, <1>4, <1>5, <1>6, <1>7, <1>8, <1>9, <1>10, <1>11, <1>12, <1>13, <1>14, <1>15, <1>16, <1>17, <1>18, <1>19, <1>20, <1>21, <1>22, <1>23, <1>24, <1>25, <1>26, <1>27 DEF Next, Isr, Consumer

\* Every step keeps the metadata on the bytes stored, if the bootloader consumes
\* it at every boot.
LEMMA MetaStep ==
  ASSUME StatesTyped, ModesAgree, PcAgrees, SizesAgree, StreamAgrees, MetaAgrees, [Next]_vars
  PROVE  MetaAgrees'
<1> USE DEF MetaAgrees
<1>1. CASE Dequeue
  BY <1>1 DEF PcAgrees, Dequeue, imageVars, ymodemVars, flashVars
<1>2. CASE RequestStart
  BY <1>2 DEF PcAgrees, RequestStart, imageVars, ymodemVars, flashVars
<1>3. CASE HandleNoise
  BY <1>3 DEF PcAgrees, HandleNoise, Feeding, Reply, imageVars, ymodemVars, flashVars
<1>4. CASE HandleEot
  BY <1>4 DEF PcAgrees, HandleEot, Feeding, Reply, imageVars, ymodemVars, flashVars
<1>5. CASE HandleCan
  BY <1>5 DEF PcAgrees, HandleCan, Feeding, Abort, imageVars, ymodemVars, flashVars
<1>6. CASE HandleLateHeader
  BY <1>6 DEF PcAgrees, HandleLateHeader, Feeding, Reply, imageVars, ymodemVars, flashVars
<1>7. CASE ReadHeader
  BY <1>7 DEF PcAgrees, ReadHeader, Feeding, imageVars, ymodemVars, flashVars
<1>8. CASE BeginImage
  BY <1>8 DEF PcAgrees, BeginImage, Abort, StartImage, imageVars, ymodemVars, flashVars
<1>9. CASE EraseTemp
  BY <1>9 DEF PcAgrees, EraseTemp, Abort, imageVars, ymodemVars, flashVars
<1>10. CASE StoreBlock
  BY <1>10 DEF PcAgrees, StoreBlock, Feeding, ExpectedData, imageVars, ymodemVars, flashVars
<1>11. CASE StoreFails
  BY <1>11 DEF PcAgrees, StoreFails, Feeding, ExpectedData, Abort, imageVars, ymodemVars, flashVars
<1>12. CASE HandleOtherData
  BY <1>12 DEF PcAgrees, HandleOtherData, Feeding, Reply, imageVars, ymodemVars, flashVars
<1>13. CASE HandleStrayData
  BY <1>13 DEF PcAgrees, HandleStrayData, Feeding, Abort, imageVars, ymodemVars, flashVars
<1>14. CASE BeginFinish
  BY <1>14 DEF PcAgrees, BeginFinish, Feeding, Abort, imageVars, ymodemVars, flashVars
<1>15. CASE Verify
  BY <1>15 DEF PcAgrees, Verify, imageVars, ymodemVars, flashVars
<1>16. CASE FlushCache
  BY <1>16 DEF PcAgrees, FlushCache, Abort, imageVars, ymodemVars, flashVars
<1>17. CASE EraseMeta
  BY <1>17 DEF PcAgrees, EraseMeta, Abort, imageVars, ymodemVars, flashVars
<1>18. CASE ProgramMeta
  <2>1. pc = "program_meta" /\ temp' = temp
    BY <1>18 DEF PcAgrees, ProgramMeta, Abort, imageVars
  <2>2. svc = "WRITING_META" /\ ym # "ABORTED"
    BY <2>1 DEF PcAgrees
  <2>3. image_size > 0 => crc32 = temp
    BY <2>1, <2>2 DEF StreamAgrees
  <2>4. CASE svc' = "COMPLETED"
    <3>1. meta' = [size |-> image_size, crc |-> crc32]
      BY <1>18, <2>2, <2>4 DEF PcAgrees, ProgramMeta, Abort
    <3>2. QED
      BY <2>1, <2>3, <2>4, <3>1
  <2>5. CASE svc' # "COMPLETED"
    BY <1>18, <2>1, <2>2, <2>5 DEF PcAgrees, ProgramMeta, Complete, Abort
  <2>6. QED
    BY <2>4, <2>5
<1>19. CASE NotifyError
  BY <1>19 DEF PcAgrees, NotifyError, imageVars, ymodemVars, flashVars
<1>20. CASE AtStart
  BY <1>20 DEF PcAgrees, AtStart, HaltInIsr, StartImage, imageVars, ymodemVars, flashVars
<1>21. CASE AtReset
  BY <1>21 DEF PcAgrees, AtReset, HaltInIsr, StartImage, imageVars, ymodemVars, flashVars
<1>22. CASE \E c \in Chunk : RxChunk(c)
  BY <1>22 DEF PcAgrees, RxChunk, imageVars, ymodemVars, flashVars
<1>23. CASE RebootIntoImage
  BY <1>23 DEF PcAgrees, RebootIntoImage, Restart, StartImage, imageVars, ymodemVars, flashVars
<1>24. CASE WatchdogReset
  BY <1>24 DEF PcAgrees, WatchdogReset, Restart, StartImage, imageVars, ymodemVars, flashVars
<1>25. CASE OtherReset
  BY <1>25 DEF PcAgrees, OtherReset, Restart, StartImage, imageVars, ymodemVars, flashVars
<1>26. CASE UNCHANGED vars
  BY <1>26 DEF vars, imageVars, ymodemVars, flashVars
<1>27. CASE StartData
  BY <1>27 DEF PcAgrees, StartData, imageVars, ymodemVars, flashVars
<1>q. QED
  BY <1>1, <1>2, <1>3, <1>4, <1>5, <1>6, <1>7, <1>8, <1>9, <1>10, <1>11, <1>12, <1>13, <1>14, <1>15, <1>16, <1>17, <1>18, <1>19, <1>20, <1>21, <1>22, <1>23, <1>24, <1>25, <1>26, <1>27 DEF Next, Isr, Consumer

\* The only steps out of FAILED are restarts.
LEMMA FailureStep ==
  ASSUME ModesAgree, PcAgrees, [Next]_vars
  PROVE  FailedThenRestarted
<1> USE DEF FailedThenRestarted, ModesAgree, PcAgrees, Transferring, HeaderExpected
<1>1. CASE Dequeue
  BY <1>1 DEF Dequeue, imageVars, ymodemVars, flashVars
<1>2. CASE RequestStart
  BY <1>2 DEF RequestStart, imageVars, ymodemVars, flashVars
<1>3. CASE HandleNoise
  BY <1>3 DEF HandleNoise, Feeding, Reply, imageVars, ymodemVars, flashVars
<1>4. CASE HandleEot
  BY <1>4 DEF HandleEot, Feeding, Reply, imageVars, ymodemVars, flashVars
<1>5. CASE HandleCan
  BY <1>5 DEF HandleCan, Feeding, Abort, imageVars, ymodemVars, flashVars
<1>6. CASE HandleLateHeader
  BY <1>6 DEF HandleLateHeader, Feeding, Reply, imageVars, ymodemVars, flashVars
<1>7. CASE ReadHeader
  BY <1>7 DEF ReadHeader, Feeding, imageVars, ymodemVars, flashVars
<1>8. CASE BeginImage
  BY <1>8 DEF BeginImage, Abort, StartImage, imageVars, ymodemVars, flashVars
<1>9. CASE EraseTemp
  BY <1>9 DEF EraseTemp, Abort, imageVars, ymodemVars, flashVars
<1>10. CASE StoreBlock
  BY <1>10 DEF StoreBlock, Feeding, ExpectedData, imageVars, ymodemVars, flashVars
<1>11. CASE StoreFails
  BY <1>11 DEF StoreFails, Feeding, ExpectedData, Abort, imageVars, ymodemVars, flashVars
<1>12. CASE HandleOtherData
  BY <1>12 DEF HandleOtherData, Feeding, Reply, imageVars, ymodemVars, flashVars
<1>13. CASE HandleStrayData
  BY <1>13 DEF HandleStrayData, Feeding, Abort, imageVars, ymodemVars, flashVars
<1>14. CASE BeginFinish
  BY <1>14 DEF BeginFinish, Feeding, Abort, imageVars, ymodemVars, flashVars
<1>15. CASE Verify
  BY <1>15 DEF Verify, imageVars, ymodemVars, flashVars
<1>16. CASE FlushCache
  BY <1>16 DEF FlushCache, Abort, imageVars, ymodemVars, flashVars
<1>17. CASE EraseMeta
  BY <1>17 DEF EraseMeta, Abort, imageVars, ymodemVars, flashVars
<1>18. CASE ProgramMeta
  BY <1>18 DEF ProgramMeta, Complete, Abort, imageVars, ymodemVars, flashVars
<1>19. CASE NotifyError
  BY <1>19 DEF NotifyError, imageVars, ymodemVars, flashVars
<1>20. CASE AtStart
  BY <1>20 DEF AtStart, HaltInIsr, StartImage, imageVars, ymodemVars, flashVars
<1>21. CASE AtReset
  BY <1>21 DEF AtReset, HaltInIsr, StartImage, imageVars, ymodemVars, flashVars
<1>22. CASE \E c \in Chunk : RxChunk(c)
  BY <1>22 DEF RxChunk, imageVars, ymodemVars, flashVars
<1>23. CASE RebootIntoImage
  BY <1>23 DEF RebootIntoImage, Restart, StartImage, imageVars, ymodemVars, flashVars
<1>24. CASE WatchdogReset
  BY <1>24 DEF WatchdogReset, Restart, StartImage, imageVars, ymodemVars, flashVars
<1>25. CASE OtherReset
  BY <1>25 DEF OtherReset, Restart, StartImage, imageVars, ymodemVars, flashVars
<1>26. CASE UNCHANGED vars
  BY <1>26 DEF vars, imageVars, ymodemVars, flashVars
<1>27. CASE StartData
  BY <1>27 DEF StartData, imageVars, ymodemVars, flashVars
<1>q. QED
  BY <1>1, <1>2, <1>3, <1>4, <1>5, <1>6, <1>7, <1>8, <1>9, <1>10, <1>11, <1>12, <1>13, <1>14, <1>15, <1>16, <1>17, <1>18, <1>19, <1>20, <1>21, <1>22, <1>23, <1>24, <1>25, <1>26, <1>27 DEF Next, Isr, Consumer

\* The inductive invariant holds at power up.
LEMMA InitIInv == Init => IInv
<1> SUFFICES ASSUME Init PROVE IInv
  OBVIOUS
<1> USE DEF Init, RamInit
<1>1. TypeOK
  BY TypeInit
<1>2. ModesAgree /\ PcAgrees
  BY DEF ModesAgree, PcAgrees, Transferring, HeaderExpected
<1>3. SizesAgree
  BY ZeroAligned, FlashWordBound, MaxSizeBound DEF SizesAgree
<1>4. StreamAgrees /\ MetaAgrees
  BY DEF StreamAgrees, MetaAgrees
<1> QED
  BY <1>1, <1>2, <1>3, <1>4 DEF IInv

\* Every step keeps it.
LEMMA IInvInductive == Spec => []IInv
<1>1. Init => IInv
  BY InitIInv
<1>2. IInv /\ [Next]_vars => IInv'
  <2> SUFFICES ASSUME IInv, [Next]_vars PROVE IInv'
    OBVIOUS
  <2>1. TypeOK /\ StatesTyped /\ SizesTyped /\ DataTyped
    BY DEF IInv, TypeOK
  <2>2. ModesAgree /\ PcAgrees /\ SizesAgree /\ StreamAgrees /\ MetaAgrees
    BY DEF IInv
  <2>3. TypeOK'
    BY <2>1, TypeStep
  <2>4. ModesAgree' /\ PcAgrees'
    BY <2>1, <2>2, ModesStep
  <2>5. SizesAgree'
    BY <2>1, <2>2, SizesStep
  <2>6. StreamAgrees'
    BY <2>1, <2>2, StreamStep
  <2>7. MetaAgrees'
    BY <2>1, <2>2, MetaStep
  <2>8. QED
    BY <2>3, <2>4, <2>5, <2>6, <2>7 DEF IInv
<1>3. QED
  BY <1>1, <1>2, PTL DEF Spec
-------------------------------------------------------------------------------
(***************************************************************************)
(* What follows from it.                                                   *)
(***************************************************************************)

\* g_ota.state and g_ota.ymodem.state agree wherever the consumer is at rest.
THEOREM ModesCorrect == Spec => []ModesAgree
<1>1. IInv => ModesAgree
  BY DEF IInv
<1>2. QED
  BY <1>1, IInvInductive, PTL

\* The stream stays inside the temporary area, and every byte accepted is in
\* flash or in the cache.
THEOREM StreamInside == Spec => []WritesInsideTemp
<1>1. IInv => WritesInsideTemp
  BY DEF IInv, WritesInsideTemp, Transferring, SizesAgree, ModesAgree, PcAgrees, TypeOK, StatesTyped, PcStates, SvcStates
<1>2. QED
  BY <1>1, IInvInductive, PTL

\* With a bootloader that consumes the metadata, what the metadata says is what
\* lies in flash, through every failure, command and restart.
THEOREM MetaCorrect ==
  ASSUME BootClears
  PROVE  Spec => []MetaDescribesTemp
<1>1. IInv => MetaDescribesTemp
  BY DEF IInv, MetaDescribesTemp, SizesAgree, PcAgrees, MetaAgrees
<1>2. QED
  BY <1>1, IInvInductive, PTL

\* A failed session answers no new one: it ends with a restart that empties the
\* queue and enables the offline events.
THEOREM FailureRestarts == Spec => FailureEndsInRestart
<1>1. IInv /\ [Next]_vars => [FailedThenRestarted]_vars
  BY FailureStep DEF IInv
<1>2. QED
  BY <1>1, IInvInductive, PTL DEF Spec, FailureEndsInRestart, FailedThenRestarted
===============================================================================
