------------------------------ MODULE OtaService ------------------------------
(***************************************************************************)
(* The firmware-update side of the client: the Ymodem receiver             *)
(* (application/ota_ymodem_protocol.c), the service that writes the image  *)
(* to flash (application/ota_service_task.c), the AT commands that start   *)
(* and reset it, and the UART receive callback that feeds its queue.       *)
(*                                                                         *)
(* Two flows of control share g_ota.  The consumer task takes chunks from  *)
(* rx_queue and runs the protocol.  The UART receive interrupt queues      *)
(* chunks and runs the AT commands, and may do so between any two steps of *)
(* the consumer.  The host is the environment: any chunk may arrive at any *)
(* moment (OtaTransfer gives it a real Ymodem sender).                     *)
(***************************************************************************)
EXTENDS Integers, Sequences

CONSTANTS
  BlockMod,    \* values of the Ymodem block number: 256, it is a uint8_t
  MaxSize,     \* bytes of the temporary firmware area, max_size
  QueueDepth,  \* OTA_QUEUE_DEPTH
  Payloads,    \* contents a block can carry
  SizeIn,      \* the file size a payload announces when read as a header
  BootClears   \* TRUE: the bootloader consumes the metadata at every boot

NoName   == -1                   \* SizeIn of a payload whose file name is ""
NoMeta   == [size |-> -1, crc |-> <<>>]     \* erased metadata sector: no magic
FlashWord == 32                  \* OTA_FLASHWORD_SIZE
BlockLens == {128, 1024}         \* YMODEM_SOH_DATA_LEN, YMODEM_STX_DATA_LEN

ASSUME OtaAssumption ==
  /\ BlockMod \in Nat /\ BlockMod > 2
  /\ MaxSize \in Nat /\ MaxSize > 0 /\ MaxSize % FlashWord = 0
  /\ QueueDepth \in Nat \ {0}
  /\ SizeIn \in [Payloads -> Nat \cup {NoName}]
  /\ BootClears \in BOOLEAN

(***************************************************************************)
(* What one "2," message of the 4G module carries: a control byte, a block *)
(* whose complement and CRC are right, a block whose are not, or bytes of  *)
(* no valid length.                                                        *)
(***************************************************************************)
Control == [kind : {"eot", "can", "corrupt", "junk"}]
Block   == [kind : {"block"}, num : 0 .. BlockMod - 1, len : BlockLens, pay : Payloads]
Chunk   == Control \cup Block

\* Bytes of one payload that went to flash.
Piece == Payloads \X Nat
Meta  == {NoMeta} \cup [size : Nat, crc : Seq(Piece)]

VARIABLES
  cpu,             \* "run", or "halted" in configASSERT's endless loop
  pc,              \* where the consumer task is
  cur,             \* msg, the chunk the consumer works on
  rx_queue,
  svc,             \* g_ota.state
  ym,              \* g_ota.ymodem.state
  block_num,
  file_size,
  image_size,
  received_size,
  write_off,       \* write_addr - temp_base
  cache_len,
  crc32,           \* the pieces folded into the CRC: equal CRCs, equal pieces
  reboot_pending,
  temp,            \* the pieces stored in the temporary firmware area
  meta,            \* the metadata sector the bootloader reads
  offline_on,      \* the offline events are enabled
  tx               \* the bytes the last consumer step sent to the host

ymodemVars == <<ym, block_num, file_size>>
imageVars  == <<image_size, received_size, write_off, cache_len, crc32>>
flashVars  == <<temp, meta>>
vars == <<cpu, pc, cur, rx_queue, svc, ymodemVars, imageVars, reboot_pending,
          flashVars, offline_on, tx>>

Idle == [kind |-> "junk"]        \* value of cur between two chunks

(***************************************************************************)
(* Power up: ota_init_service clears g_ota, the queue is created empty,    *)
(* the offline table enables its events.                                   *)
(***************************************************************************)
RamInit ==
  /\ cpu = "run" /\ pc = "poll" /\ cur = Idle /\ rx_queue = <<>>
  /\ svc = "IDLE" /\ ym = "WAIT_HEADER" /\ block_num = 0 /\ file_size = 0
  /\ image_size = 0 /\ received_size = 0 /\ write_off = 0 /\ cache_len = 0
  /\ crc32 = <<>> /\ reboot_pending = FALSE /\ offline_on = TRUE /\ tx = <<>>

Init == RamInit /\ temp = <<>> /\ meta = NoMeta

(***************************************************************************)
(* The UART receive interrupt.                                             *)
(***************************************************************************)

\* Mutant: the queue grows past its depth.
EnqueuedAlways(c) == Append(rx_queue, c)

\* osMessageQueuePut without a timeout: a full queue drops the chunk.
Enqueued(c) == IF Len(rx_queue) < QueueDepth THEN Append(rx_queue, c) ELSE rx_queue

\* uart_4g_recv_callback with prefix "2,".
RxChunk(c) ==
  /\ cpu = "run"
  /\ rx_queue' = Enqueued(c)
  /\ tx' = <<>>
  /\ UNCHANGED <<cpu, pc, cur, svc, ymodemVars, imageVars, reboot_pending, flashVars, offline_on>>

\* Mutant: the reset happens without stopping the CPU, and without the restart
\* that empties the queue.
ResetInIsr ==
  /\ svc' = "IDLE" /\ ym' = "WAIT_HEADER" /\ reboot_pending' = FALSE /\ tx' = <<>>
  /\ UNCHANGED <<cpu, pc, cur, rx_queue, block_num, file_size, imageVars, flashVars, offline_on>>

\* ota_reset_runtime_state outside IDLE: ymodem_request_abort sends its first
\* CAN through vTaskDelay, whose critical section asserts that it is not in an
\* interrupt.  It is, so interrupts are masked and the CPU loops for ever.
HaltInIsr ==
  /\ cpu' = "halted"
  /\ tx' = <<>>
  /\ UNCHANGED <<pc, cur, rx_queue, svc, ymodemVars, imageVars, reboot_pending, flashVars, offline_on>>

\* The fields ota_protocol_on_begin sets for an image of that size, and both AT
\* commands for none.
StartImage(size) ==
  /\ image_size' = size /\ received_size' = 0 /\ write_off' = 0 /\ cache_len' = 0
  /\ crc32' = <<>>

\* craner#AT+OTASTART: ota_start_transfer_callback.  The queue keeps its chunks:
\* osMessageQueueReset returns osErrorISR when called from an interrupt.
AtStart ==
  /\ cpu = "run"
  /\ svc \notin {"RECEIVING", "VERIFYING", "WRITING_META"}
  /\ \/ /\ svc = "IDLE"
        /\ svc' = "WAIT_START" /\ ym' = "WAIT_HEADER" /\ block_num' = 1 /\ file_size' = 0
        /\ StartImage(0)
        /\ offline_on' = FALSE
        /\ tx' = <<>>
        /\ UNCHANGED <<cpu, pc, cur, rx_queue, reboot_pending, flashVars>>
     \/ svc # "IDLE" /\ HaltInIsr

\* craner#AT+OTARESET: ota_reset_transfer_callback.
AtReset ==
  /\ cpu = "run"
  /\ \/ /\ svc = "IDLE"
        /\ svc' = "IDLE" /\ ym' = "WAIT_HEADER" /\ block_num' = 0 /\ file_size' = 0
        /\ reboot_pending' = FALSE
        /\ StartImage(0)
        /\ tx' = <<>>
        /\ UNCHANGED <<cpu, pc, cur, rx_queue, flashVars, offline_on>>
     \/ svc # "IDLE" /\ HaltInIsr

(***************************************************************************)
(* The consumer task.                                                      *)
(***************************************************************************)

Dequeue ==
  /\ cpu = "run" /\ pc = "poll" /\ ~reboot_pending /\ rx_queue # <<>>
  /\ pc' = "feed" /\ cur' = Head(rx_queue) /\ rx_queue' = Tail(rx_queue)
  /\ tx' = <<>>
  /\ UNCHANGED <<cpu, svc, ymodemVars, imageVars, reboot_pending, flashVars, offline_on>>

\* Mutant: the repeated request starts only once data is received.
RequestStartLate ==
  /\ cpu = "run" /\ pc = "poll" /\ ~reboot_pending /\ rx_queue = <<>> /\ svc = "RECEIVING"
  /\ tx' = <<"C">>
  /\ UNCHANGED <<cpu, pc, cur, rx_queue, svc, ymodemVars, imageVars, reboot_pending, flashVars, offline_on>>

\* Five seconds of empty polls in WAIT_START: ymodem_request_start asks again.
RequestStart ==
  /\ cpu = "run" /\ pc = "poll" /\ ~reboot_pending /\ rx_queue = <<>> /\ svc = "WAIT_START"
  /\ tx' = <<"C">>
  /\ UNCHANGED <<cpu, pc, cur, rx_queue, svc, ymodemVars, imageVars, reboot_pending, flashVars, offline_on>>

Feeding == cpu = "run" /\ pc = "feed"

\* The chunk is dealt with; nothing but the listed reply came of it.
Reply(bytes) ==
  /\ pc' = "poll" /\ cur' = Idle /\ tx' = bytes
  /\ UNCHANGED <<cpu, rx_queue, svc, image_size, received_size, write_off, cache_len, crc32,
                 reboot_pending, flashVars, offline_on>>

\* The session ends, after the host was told so; the service learns it next.
Abort(bytes) ==
  /\ ym' = "ABORTED" /\ pc' = "error" /\ tx' = bytes
  /\ UNCHANGED <<cpu, cur, rx_queue, svc, block_num, reboot_pending, temp, offline_on>>

\* ota_protocol_on_error; the result of the erase is ignored.
NotifyError ==
  /\ cpu = "run" /\ pc = "error"
  /\ svc' = "FAILED" /\ reboot_pending' = FALSE
  /\ temp' \in {<<>>, temp}
  /\ pc' = "poll" /\ cur' = Idle /\ tx' = <<>>
  /\ UNCHANGED <<cpu, rx_queue, ymodemVars, imageVars, meta, offline_on>>

CanCan == <<"CAN", "CAN">>

\* Control bytes of no effect, chunks of a wrong length, and corrupted blocks.
HandleNoise ==
  /\ Feeding
  /\ \/ cur.kind = "junk" /\ Reply(<<>>)
     \/ cur.kind = "corrupt" /\ Reply(<<"NAK">>)
     \/ cur.kind = "eot" /\ ym \notin {"RECV_DATA", "WAIT_EOT"} /\ Reply(<<>>)
  /\ UNCHANGED ymodemVars

\* Mutant: the second EOT is accepted and the next header is not asked for.
HandleEotNoC ==
  /\ Feeding /\ cur.kind = "eot"
  /\ \/ ym = "RECV_DATA" /\ ym' = "WAIT_EOT" /\ Reply(<<"NAK">>)
     \/ ym = "WAIT_EOT" /\ ym' = "WAIT_LAST_EMPTY" /\ Reply(<<"ACK">>)
  /\ UNCHANGED <<block_num, file_size>>

\* ymodem_handle_control: the first EOT is refused, the second accepted.
HandleEot ==
  /\ Feeding /\ cur.kind = "eot"
  /\ \/ ym = "RECV_DATA" /\ ym' = "WAIT_EOT" /\ Reply(<<"NAK">>)
     \/ ym = "WAIT_EOT" /\ ym' = "WAIT_LAST_EMPTY" /\ Reply(<<"ACK", "C">>)
  /\ UNCHANGED <<block_num, file_size>>

\* Mutant: CAN aborts the protocol and the service is not told.
HandleCanQuietly ==
  /\ Feeding /\ cur.kind = "can"
  /\ ym' = "ABORTED" /\ Reply(<<>>)
  /\ UNCHANGED <<block_num, file_size>>

\* ymodem_handle_control: CAN ends the session in whatever state.
HandleCan ==
  /\ Feeding /\ cur.kind = "can"
  /\ Abort(<<>>)
  /\ UNCHANGED <<file_size, imageVars, meta>>

HeaderExpected == ym \in {"WAIT_HEADER", "WAIT_LAST_EMPTY"}
IsHeader == cur.kind = "block" /\ cur.num = 0

\* ymodem_process_frame: block 0 where no header is due.
HandleLateHeader ==
  /\ Feeding /\ IsHeader /\ ~HeaderExpected
  /\ Reply(<<"NAK">>)
  /\ UNCHANGED ymodemVars

\* ymodem_handle_header reads the size of the image.
ReadHeader ==
  /\ Feeding /\ IsHeader /\ HeaderExpected
  /\ SizeIn[cur.pay] # NoName
  /\ file_size' = SizeIn[cur.pay]
  /\ pc' = "begin" /\ tx' = <<>>
  /\ UNCHANGED <<cpu, cur, rx_queue, svc, ym, block_num, imageVars, reboot_pending,
                 flashVars, offline_on>>

\* ota_protocol_on_begin up to the flash erase; the size is an argument of its.
BeginImage ==
  /\ cpu = "run" /\ pc = "begin"
  /\ \/ /\ SizeIn[cur.pay] \in 1 .. MaxSize
        /\ StartImage(SizeIn[cur.pay])
        /\ pc' = "erase_temp" /\ tx' = <<>>
        /\ UNCHANGED <<cpu, cur, rx_queue, svc, ymodemVars, reboot_pending, flashVars, offline_on>>
     \/ /\ SizeIn[cur.pay] \notin 1 .. MaxSize
        /\ Abort(CanCan)
        /\ UNCHANGED <<file_size, imageVars, meta>>

\* Mutant: the erase is taken for done whatever it says.
EraseTempUnchecked ==
  /\ cpu = "run" /\ pc = "erase_temp"
  /\ temp' \in {<<>>, temp} /\ svc' = "RECEIVING"
  /\ pc' = "start_data" /\ tx' = <<>>
  /\ UNCHANGED <<cpu, cur, rx_queue, ymodemVars, imageVars, reboot_pending, meta, offline_on>>

\* The erase of the temporary area takes seconds; then the service receives.
EraseTemp ==
  /\ cpu = "run" /\ pc = "erase_temp"
  /\ \/ /\ temp' = <<>> /\ svc' = "RECEIVING"
        /\ pc' = "start_data" /\ tx' = <<>>
        /\ UNCHANGED <<cpu, cur, rx_queue, ymodemVars, imageVars, reboot_pending, meta, offline_on>>
     \/ Abort(CanCan) /\ UNCHANGED <<file_size, imageVars, meta>>

\* ymodem_handle_header, after the 60 ms that each of its two replies takes.
StartData ==
  /\ cpu = "run" /\ pc = "start_data"
  /\ ym' = "RECV_DATA" /\ block_num' = 1
  /\ pc' = "poll" /\ cur' = Idle /\ tx' = <<"ACK", "C">>
  /\ UNCHANGED <<cpu, rx_queue, svc, file_size, imageVars, reboot_pending, flashVars, offline_on>>

IsData == cur.kind = "block" /\ cur.num # 0

\* ota_protocol_on_data: what is left of the image bounds what is written.
Remaining == IF image_size > received_size THEN image_size - received_size ELSE 0

\* Mutant: a block is stored whole whatever is left of the image.
WriteLenWhole == cur.len

WriteLen == IF cur.len > Remaining THEN Remaining ELSE cur.len

\* Mutant: the counter is wider than the block number it is compared with.
NextBlockUnwrapped(n) == n + 1

NextBlock(n) == (n + 1) % BlockMod

\* Mutant: the number of a block is not looked at.
AnyData == IsData /\ ym = "RECV_DATA"

ExpectedData == IsData /\ ym = "RECV_DATA" /\ cur.num = block_num

\* Mutant: the CRC takes the padding of the last block too.
StreamCrcPadded == Append(crc32, <<cur.pay, cur.len>>)

\* The CRC after the bytes of a block that belong to the image.
StreamCrc == Append(crc32, <<cur.pay, WriteLen>>)

\* The block is stored: ota_flash_write_stream programs the full flash words.
StoreBlock ==
  /\ Feeding /\ ExpectedData /\ WriteLen > 0
  /\ LET fill == cache_len + WriteLen IN
       /\ cache_len' = fill % FlashWord
       /\ write_off' = write_off + fill - (fill % FlashWord)
  /\ received_size' = received_size + WriteLen
  /\ crc32' = StreamCrc
  /\ temp' = Append(temp, <<cur.pay, WriteLen>>)
  /\ block_num' = NextBlock(block_num)
  /\ pc' = "poll" /\ cur' = Idle /\ tx' = <<"ACK">>
  /\ UNCHANGED <<cpu, rx_queue, svc, ym, file_size, image_size, reboot_pending, meta, offline_on>>

\* Mutant: a flash word that could not be programmed is not noticed.
StoreFailsUnseen ==
  /\ Feeding /\ ExpectedData /\ WriteLen > 0
  /\ received_size' = received_size + WriteLen
  /\ block_num' = NextBlock(block_num)
  /\ pc' = "poll" /\ cur' = Idle /\ tx' = <<"ACK">>
  /\ UNCHANGED <<cpu, rx_queue, svc, ym, file_size, image_size, write_off, cache_len, crc32,
                 reboot_pending, flashVars, offline_on>>

\* No room left, or a flash word could not be programmed.
StoreFails ==
  /\ Feeding /\ ExpectedData
  /\ \/ WriteLen = 0 /\ UNCHANGED <<write_off, cache_len>>
     \/ /\ WriteLen > 0
        /\ \E done \in 0 .. ((cache_len + WriteLen) \div FlashWord) - 1 :
             write_off' = write_off + done * FlashWord
        /\ cache_len' = FlashWord
  /\ Abort(CanCan)
  /\ UNCHANGED <<file_size, image_size, received_size, crc32, meta>>

\* The block just stored again, or any other number.
HandleOtherData ==
  /\ Feeding /\ IsData /\ ym = "RECV_DATA" /\ cur.num # block_num
  /\ \/ cur.num = (block_num + BlockMod - 1) % BlockMod /\ Reply(<<"ACK">>)
     \/ cur.num # (block_num + BlockMod - 1) % BlockMod /\ Reply(<<"NAK">>)
  /\ UNCHANGED ymodemVars

\* ymodem_process_frame: data in any other state ends the session.
HandleStrayData ==
  /\ Feeding /\ IsData /\ ym # "RECV_DATA"
  /\ Abort(CanCan)
  /\ UNCHANGED <<file_size, imageVars, meta>>

\* ymodem_handle_header with an empty name: the protocol is DONE, and
\* ota_protocol_on_finish compares the sizes.
BeginFinish ==
  /\ Feeding /\ IsHeader /\ HeaderExpected
  /\ SizeIn[cur.pay] = NoName
  /\ \/ /\ file_size = image_size
        /\ ym' = "DONE" /\ pc' = "verify" /\ tx' = <<>>
        /\ UNCHANGED <<cpu, cur, rx_queue, svc, block_num, file_size, imageVars, reboot_pending,
                       flashVars, offline_on>>
     \/ file_size # image_size /\ Abort(CanCan) /\ UNCHANGED <<file_size, imageVars, meta>>

Verify ==
  /\ cpu = "run" /\ pc = "verify"
  /\ svc' = "VERIFYING" /\ pc' = "flush" /\ tx' = <<>>
  /\ UNCHANGED <<cpu, cur, rx_queue, ymodemVars, imageVars, reboot_pending, flashVars, offline_on>>

\* ota_flash_flush_cache pads the last flash word and programs it.
FlushCache ==
  /\ cpu = "run" /\ pc = "flush"
  /\ \/ /\ svc' = "WRITING_META" /\ pc' = "erase_meta" /\ tx' = <<>>
        /\ write_off' = IF cache_len = 0 THEN write_off ELSE write_off + FlashWord
        /\ cache_len' = 0
        /\ UNCHANGED <<cpu, cur, rx_queue, ymodemVars, image_size, received_size, crc32,
                       reboot_pending, flashVars, offline_on>>
     \/ cache_len # 0 /\ Abort(CanCan) /\ UNCHANGED <<file_size, imageVars, meta>>

EraseMeta ==
  /\ cpu = "run" /\ pc = "erase_meta"
  /\ \/ /\ meta' = NoMeta /\ pc' = "program_meta" /\ tx' = <<>>
        /\ UNCHANGED <<cpu, cur, rx_queue, svc, ymodemVars, imageVars, reboot_pending, temp, offline_on>>
     \/ meta' \in {meta, NoMeta} /\ Abort(CanCan) /\ UNCHANGED <<file_size, imageVars>>

\* Mutant: the service completes and does not ask for the reboot.
CompleteSilently == svc' = "COMPLETED" /\ UNCHANGED reboot_pending

Complete == svc' = "COMPLETED" /\ reboot_pending' = TRUE

ProgramMeta ==
  /\ cpu = "run" /\ pc = "program_meta"
  /\ \/ /\ meta' = [size |-> image_size, crc |-> crc32]
        /\ Complete
        /\ pc' = "poll" /\ cur' = Idle /\ tx' = <<"ACK">>
        /\ UNCHANGED <<cpu, rx_queue, ymodemVars, imageVars, temp, offline_on>>
     \/ Abort(CanCan) /\ UNCHANGED <<file_size, imageVars, meta>>

Consumer ==
  \/ Dequeue \/ RequestStart
  \/ HandleNoise \/ HandleEot \/ HandleCan
  \/ HandleLateHeader \/ ReadHeader \/ BeginImage \/ EraseTemp \/ StartData
  \/ StoreBlock \/ StoreFails \/ HandleOtherData \/ HandleStrayData
  \/ BeginFinish \/ Verify \/ FlushCache \/ EraseMeta \/ ProgramMeta
  \/ NotifyError

(***************************************************************************)
(* Restarts.  RAM is lost, flash is kept, and the bootloader (external)    *)
(* may install the image and clear the metadata before the client runs.    *)
(***************************************************************************)
Restart ==
  /\ cpu' = "run" /\ pc' = "poll" /\ cur' = Idle /\ rx_queue' = <<>>
  /\ svc' = "IDLE" /\ ym' = "WAIT_HEADER" /\ block_num' = 0 /\ file_size' = 0
  /\ StartImage(0)
  /\ reboot_pending' = FALSE /\ offline_on' = TRUE /\ tx' = <<>>
  /\ meta' \in IF BootClears THEN {NoMeta} ELSE {NoMeta, meta}
  /\ UNCHANGED temp

\* ota_consumer_task after a completed transfer: NVIC_SystemReset.
RebootIntoImage == cpu = "run" /\ pc = "poll" /\ reboot_pending /\ Restart

\* The consumer no longer feeds the independent watchdog.
WatchdogReset == cpu = "halted" /\ Restart

\* craner#AT+SYSRESET, the twelve-hour reboot, or a power cut, at any moment.
OtherReset == cpu = "run" /\ Restart

Isr == AtStart \/ AtReset \/ \E c \in Chunk : RxChunk(c)

Next == Isr \/ Consumer \/ RebootIntoImage \/ WatchdogReset \/ OtherReset

Spec == Init /\ [][Next]_vars

\* The consumer has the highest priority of the client's tasks and the watchdog
\* is hardware, so neither is held up for ever; interrupts and power are free.
FairSpec == Spec /\ WF_vars(Consumer) /\ WF_vars(RebootIntoImage) /\ WF_vars(WatchdogReset)
-------------------------------------------------------------------------------
(***************************************************************************)
(* Properties.                                                             *)
(***************************************************************************)

SvcStates == {"IDLE", "WAIT_START", "RECEIVING", "VERIFYING", "WRITING_META", "COMPLETED", "FAILED"}
YmStates  == {"WAIT_HEADER", "RECV_DATA", "WAIT_EOT", "WAIT_LAST_EMPTY", "DONE", "ABORTED"}
PcStates  == {"poll", "feed", "begin", "erase_temp", "start_data", "verify", "flush", "erase_meta",
              "program_meta", "error"}

StatesTyped ==
  /\ cpu \in {"run", "halted"} /\ pc \in PcStates /\ svc \in SvcStates /\ ym \in YmStates
  /\ reboot_pending \in BOOLEAN /\ offline_on \in BOOLEAN
SizesTyped ==
  /\ block_num \in 0 .. BlockMod - 1 /\ file_size \in Nat
  /\ image_size \in Nat /\ received_size \in Nat /\ write_off \in Nat
  /\ cache_len \in 0 .. FlashWord
DataTyped ==
  /\ cur \in Chunk /\ rx_queue \in Seq(Chunk) /\ Len(rx_queue) <= QueueDepth
  /\ crc32 \in Seq(Piece) /\ temp \in Seq(Piece) /\ meta \in Meta

\* The type invariant, with the depth of the queue.
TypeOK == StatesTyped /\ SizesTyped /\ DataTyped

Transferring == ym \in {"RECV_DATA", "WAIT_EOT", "WAIT_LAST_EMPTY"}

\* The two state machines of a session, ymodem.state and g_ota.state, agree
\* whenever the consumer is not just moving both, whatever commands and chunks
\* the interrupt slips in between its steps: the protocol moves data exactly
\* while the service receives, but for the two replies to the header before it, ABORTED means FAILED, DONE covers the finish,
\* and a restart is pending exactly when the update is complete.
ModesAgree ==
  pc \notin {"verify", "error"} =>
    /\ svc = "RECEIVING" <=> Transferring \/ pc = "start_data"
    /\ ym = "ABORTED" => svc = "FAILED"
    /\ ym = "DONE" => svc \in {"VERIFYING", "WRITING_META", "COMPLETED"}
    /\ svc = "COMPLETED" <=> reboot_pending

\* While an image is received, every byte accepted is in a programmed flash
\* word or in the cache, and there are never more than the header announced;
\* the stream never reaches the end of the temporary area, past which other
\* sectors (the metadata's among them) lie.
WritesInsideTemp ==
  /\ write_off <= MaxSize
  /\ Transferring =>
       /\ write_off + cache_len = received_size
       /\ received_size <= image_size
       /\ image_size <= MaxSize

\* Metadata of a non-empty image carries the CRC of exactly the bytes that
\* lie in the temporary area, flushed to the last word: no restart, failed
\* flash operation or later session leaves it describing something else.
\* (Assumes a bootloader that consumes the metadata, BootClears.)
MetaDescribesTemp ==
  /\ meta # NoMeta /\ meta.size > 0 => meta.crc = temp
  /\ svc = "COMPLETED" => cache_len = 0 /\ write_off >= received_size

\* After a failed session the service answers no new one: only a restart
\* brings it back to IDLE (a second OTASTART stops the CPU until the watchdog
\* fires), and then nothing of the old session is left in the queue.  (An
\* OTASTART in the instant between ABORTED and FAILED is the exception: the
\* service is FAILED and its protocol waits for a header.)
FailureEndsInRestart ==
  [][svc = "FAILED" /\ ym = "ABORTED" /\ svc' # "FAILED" =>
       svc' = "IDLE" /\ rx_queue' = <<>> /\ offline_on']_vars

\* A completed download is always followed by a restart, also when a reset
\* command stops the CPU in the three seconds before NVIC_SystemReset.
CompletedRestarts == svc = "COMPLETED" ~> svc = "IDLE"

\* Where an update is.  A finish without a transfer before it leaves the area
\* alone, and its CRC is not of what the area holds.
Phase ==
  CASE svc = "COMPLETED" -> "done"
    [] svc = "FAILED" /\ ym = "ABORTED" -> "failed"
    [] svc = "RECEIVING" -> "open"
    [] svc \in {"VERIFYING", "WRITING_META"} /\ crc32 = temp -> "open"
    [] OTHER -> "idle"

Told == IF meta = NoMeta THEN {} ELSE {meta.crc}

Update == INSTANCE UpdateService WITH
  Pieces <- Piece, phase <- Phase, image <- temp, record <- Told

\* The device is an update service: flash and metadata change only as that
\* allows, whatever commands, chunks and failures come between the steps of
\* an erase and of a finish.  (Assumes BootClears.)
KeepsContract == Update!Spec

-------------------------------------------------------------------------------
(***************************************************************************)
(* What the repository says of the program and the code does not do.       *)
(***************************************************************************)

\* ota_service_task.h: OTARESET resets the transfer state and aborts any
\* active session.  The command is over with the service IDLE.
ResetReachesIdle == [][AtReset => svc' = "IDLE"]_vars

\* ota_ymodem_protocol.c: a transfer ends RECV_DATA, WAIT_EOT,
\* WAIT_LAST_EMPTY, DONE.
DoneAfterLastEmpty == [][ym # "DONE" /\ ym' = "DONE" => ym = "WAIT_LAST_EMPTY"]_vars
===============================================================================
