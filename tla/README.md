# Verification of the crane anti-collision client

TLA+ models of the firmware in this repository (STM32H743, FreeRTOS, C), checked
with TLC on small instances and proved with TLAPS, as far as safety goes, for
every value of the constants. File and line references are to the repository.

## 1. The system

One board on a tower crane reads two encoders over RS485 (Modbus master),
receives load metrics over UDP, keeps everything in a register bank, serves the
bank to a local Modbus client, reports it through a 4G module, and updates its
own firmware through the same 4G module. Everything is one FreeRTOS image; the
actors are tasks, UART interrupts and the lwIP thread.

| Component | State | Operations | Talks to |
|---|---|---|---|
| OTA service and Ymodem receiver (`application/ota_service_task.c`, `ota_ymodem_protocol.c`) | `g_ota`: service state, Ymodem state, sizes, write address, word cache, CRC, queue of chunks; the temporary and metadata flash areas | OTASTART and OTARESET (in the UART interrupt), feed a chunk, store, finish, fail, ask for the first block, reboot | receive interrupt (queue), flash, bootloader (metadata), 4G transmit, offline supervision |
| Offline supervision (`offline_manage_task.c`, `offline_event_table.c`) | per event a stamp, enable flag and on/offline state; `protect_trigger_time` | stamp, scan every period, protect and reset, twelve-hour reboot, disable all | every producer task, OTA |
| AT dispatch and receive callbacks (`at_protocol_handler.c`, `uart_manage_port.c`) | none of its own | classify a received line, call the OTA commands, queue a chunk, echo | UART, OTA |
| UART transmit path (`component/uart_manage/uart_manage.c`, `fifo.c`) | DMA send buffer, byte fifo, `is_sending` | send, transmission completed | tasks, receive interrupts, completion interrupt, `printf` |
| UART receive ring (`lwrb.c`) | ring of bytes, two indices | write, read | receive interrupt, a reader |
| Modbus master (`component/am_modbus/am_modbus.c`) | telegram in progress, receive ring, two timers, last error | query, byte received, end of frame, timeout, validate | encoder tasks, timer daemon, UART |
| Modbus slave and registers (`am_modbus.c`, `modbus_register_interface.c`) | `holding_reg_data`, `g_reg_mutex` | read and write functions 1, 3, 5, 6, 15, 16; word, float and bit accessors | readers, UDP, report |
| Encoder readers (`read_swing_encoder_task.c`, `read_luffing_encoder_task..c`) | last answer | query every 500 ms, store value and validity | master, registers, supervision |
| Ethernet load metrics (`eth_manage_task.c`) | last frame | parse a UDP frame, store four floats and a bit | lwIP, registers, supervision |
| Neighbour report (`report_atc_data_task.c`) | none | pack the registers, send | registers, 4G |
| Board start-up (`board_manage.c`, `Core/Src`) | none | create the tasks, reset | all |

### What makes it hard

* The AT commands run in the receive interrupt and write `g_ota` between any two
  steps of the consumer task, which does the same; nothing locks `g_ota`.
* A transfer spans two state machines (`g_ota.state`, `g_ota.ymodem.state`), the
  flash, and a sender at the other end of a link that loses and delays.
* Power may fail, and the device restarts itself, between any two flash steps.
* The supervision compares stamps of tasks that keep running while it scans, in
  unsigned arithmetic.
* The transmit path, the register bank and the Modbus stack are shared between
  tasks and interrupts with partial or no locking.

PROJECT.json lists each of these hazards at its line.

### What makes each component correct

* **OTA**: the two state machines agree; flash writes stay inside the temporary
  area; metadata never describes an image that is not there; a failed session
  leaves nothing behind; a completed one reboots; an undisturbed transfer
  completes; repeats do not shift the image.
* **Supervision**: a silent critical producer resets the device in bounded time,
  a healthy one never does, and the device never stays switched off for ever.
* **Transmit path**: bytes leave once, whole messages in the order of the calls,
  and none waits for ever.
* **Modbus master**: every query ends, by an answer or by its own timeout; a late
  answer does not shift the ones after it for ever.
* **Registers**: a report packs no half of a value and nothing that was never
  measured, no update of a validity bit is lost, and nobody keeps the mutex.

## 2. Modules

### OtaService

The device side of an update. `vars` follow `ota_service_t` and
`ota_ymodem_ctx_t` field by field; `write_off` is `write_addr - temp_base`,
`temp` the pieces of payload in the temporary area, `meta` the metadata sector.
`crc32` is kept as the sequence of pieces folded into it, so that two CRCs are
equal exactly if the data is: a CRC collision is the one thing abstracted away.
`tx` holds the bytes the last consumer step sent.

The consumer task is a program counter `pc`. `Dequeue` takes a chunk; each
handler of `ymodem_process_frame` is an action; `ota_protocol_on_begin` and
`ota_protocol_on_finish`, which work on flash for up to seconds and during which
interrupts are served, are sequences of steps (`ReadHeader`, `BeginImage`,
`EraseTemp`, `StartData` and `BeginFinish`, `Verify`, `FlushCache`, `EraseMeta`,
`ProgramMeta`). The service is RECEIVING from the end of the erase, the protocol
RECV_DATA only after its ACK and 'C', each of which takes 60 ms. Every flash operation may fail. A failure is two steps as in the
code: `Abort` sends CAN CAN and sets ABORTED, `NotifyError` sets FAILED and
erases.

Interrupts (`RxChunk`, `AtStart`, `AtReset`) are enabled at every step. A command
outside IDLE reaches `vTaskDelay` in interrupt context; FreeRTOS asserts and
loops, so the action is `HaltInIsr` and the only way on is `WatchdogReset`.
`osMessageQueueReset` and `osDelay` refuse to run in an interrupt, so the queue
keeps its chunks at OTASTART.

`Restart` clears RAM and keeps flash. The bootloader is not in the repository:
`BootClears` says whether it consumes the metadata at every boot. With a
bootloader that keeps them a new session erases the temporary area under valid
metadata; `MetaDescribesTemp` therefore assumes `BootClears`.

Not modelled here: the frame buffer being cleared by OTARESET within the
microseconds in which the consumer validates a frame in IDLE, and file sizes
that overflow 32 bits while they are parsed.

### OtaTransfer

`OtaService` composed with a stop-and-wait Ymodem sender (external: the
repository only answers one) and a link that keeps order and loses messages.
Every `Consumer` step appends its bytes to the link. The sender repeats on
timeout or NAK, gives up after `MaxRetries` and cancels. `disturbed` remembers
that something was lost, late, restarted or failed to program.

### OfflineManage

The supervision task as a program counter over one scan: `WakeUp` samples the
tick, `ScanEvent` looks at one event, then one of `ProtectBegins`,
`ProtectLasts`, `ProtectResets`, `ProtectEnds` is `offline_event_callback` on
SYSTEM_PROTECT. `Stamp` may come between any two of these. `Elapsed` is the
unsigned subtraction of the scan. `OtaStart` clears the enable flags;
`OtaUnsolicited` starts a session and leaves them. After twelve hours `WakeUp` leads
to `AutoReboot`, `RebootDelay` (the 3 s of line 295) later: the producers keep
stamping meanwhile, nobody scans. The warning-level
event (load weight) is disabled in the table and never read.

### UartTx and TxQueue

`TxQueue` is what a user of a port may expect: a queue of bytes, from which an
error may drop some. `UartTx` is the code, with what `send_buffer` has still to
send followed by the fifo as that queue (`Pending`).

`uart_manage_dma_send_impl` takes no lock, so each access to shared state is a
step: `Begin` (the flag is read), `Check` (if set, it is compared with the HAL),
`Clear` (a stale one), `Split` (the test of `is_sending`), `Copy`, `Flag`, `Start`,
`Puts`. The last is one step because the fifo masks the
interrupts. Each writer moves only while no writer of a higher priority is at
work. The receive and completion interrupts all have priority 5, so the
completion does not interrupt a send from a receive callback. `Emit` is the DMA
reading `send_buffer` byte by byte, which `Copy` may overwrite. A DMA error
resets the HAL state without a call of the hook, so that the flag goes stale; the
next send sees it, unless `printf` has taken the port by then: to the test of
`gState` that looks like a transfer. The hook's branch for a HAL that refuses the
next piece (lines 345-348) is left out: the completion callback comes when the HAL
is ready, with a length above 0, and it refuses nothing else.

All that is written to the shell port is written by receive callbacks, except
what `printf` sends with the blocking call: one writer (`Tasks = 0`). On the 4G
port the OTA consumer and the report task write as well.

A second writer breaks the path, in ways that one property, `Flows`, shows in
its simplest form (run `uart_4g`). With it `KeepsOrder` and `WholeMessages` fail
too, for the same reason.

### ModbusMaster

One port: its master task, the reader that waits in `ModbusQueryV2`, the receive
interrupt and the FreeRTOS timer task. The master is a program counter:
`Transmit` (`HAL_UART_Transmit_IT` and the wait for its completion), `TxComplete`,
`Sent`, `AwaitAnswer` (starts the timeout and waits), then
`Answered` (`getRxBuffer` with the trimming to id and function code, and the
checks of `validateAnswer`) or `TimedOut`. A task notification is one value that
overwrites itself, and 0, the value of an end of frame, wakes a waiting task but
leaves nothing behind (`note`, `Wake`).

Timers are commands to a queue of `QueueLen` entries: `Posted` drops what finds
it full, as `xTimerReset` does and nobody checks. `Process` takes a command and
may find it expired already; `T35Expires` and `TimeoutExpires` are the callbacks.
The commands of the other ports share the queue. They are only counted: since
they may be anywhere in it, their number is all that matters to this port.

The line is in pieces (`First`, `Rest`, `Exception`, `Noise`), each of a query,
so that an answer that is late is one of an older query. `Arrive` is the
interrupt with the ring, whose 8-bit counter wraps at its size; an overrun
(`TakeIn`) leaves the receiver disarmed until the master reads the ring again.

`Settled` guards a new query: readers wait 500 ms between two, in which the timer
task is taken to have emptied its queue and let a timeout expire. It is the one
assumption on time.

### Registers

The bank word by word. A writer's round is `Measure` or `Fail`, then `StoreHigh`
and `StoreLow` for each pair in a critical section of its own, then `ReadBits`
and `WriteBits` (`mb_reg_write_bit`). `ReadCoil` and `WriteCoil` are the slave's
`process_FC5`, which changes the same array under another semaphore. The report
copies all words in one critical section: what it sees is the state wherever
the mutex is free (`Readable`), so it has no variables of its own. A measurement
is abstracted to its age (latest, previous, older, none).

### UpdateService

What the bootloader and an operator may expect of an update, without the protocol:
an image is collected piece by piece in an erased area, the bootloader is told
of it at most once, of what is then in the area, and after that or a failure only
a restart makes the service ready again. `OtaService` implements it with `phase`
read off both state machines and the CRC (`Phase`), `image` = `temp` and `record`
= the CRC in the metadata (`Told`). The code gives two exceptions, which the
abstract service allows: an update that never began may be committed as an empty
image (the finding of `ota_done`), and a start that overtakes the failure of an
idle service leaves it idle.

### The proof modules

`OtaServiceProofs`, `OtaContractProofs`, `OtaTransferProofs`, `OtaDownloadProofs`,
`OfflineManageProofs`, `UartTxProofs`, `ModbusMasterProofs`, `RegistersProofs`:
section 4.

## 3. What the runs check

| Run | Result | Shows |
|---|---|---|
| `ota_service` | passes | type correctness, agreement of the state machines, writes inside the area, metadata describing the image, failure ending in a restart, a completed download rebooting, and the abstract update service implemented; any host, any command at any step |
| `ota_transfer` | passes | blocks stored once and in order, no metadata of an incomplete image while no answer is late, an undisturbed download never stands still and completes, the sender always comes to an end |
| `offline_manage` | passes | bounded time from silence to reset, no reset of a healthy device, agreement of the trigger time, recovery from whatever an update leaves |
| `uart_shell` | passes | the transmit path with one writer refines the queue, keeps messages whole, sees a stale flag and leaves nothing behind |
| `modbus_master` | passes | every query ends, is not failed by another's timeout, and late answers are overcome; lost, late, noisy and overlong answers, overruns, a timer queue that does not fill |
| `modbus_full` | violated | a full timer queue loses the start of the timeout: with a silent slave or a disarmed receiver the reader waits for ever |
| `registers` | passes | reports of whole pairs, of at most two frames in order and of measured values only; no validity update lost; every round ends; three writers, coil writes to another word |
| `registers_coil` | violated | a coil write to the validity word undoes a writer's update |
| `uart_4g` | violated | with two writers, bytes stay in the fifo when a transfer completes between the test of `is_sending` and the fifo |
| `ota_reset` | violated | OTARESET during a session halts the CPU instead of resetting the session |
| `ota_done` | violated | an empty header completes an update that never began |
| `ota_large` | violated | an image with as many blocks as the block number has values cannot be transferred |

### Bounds

* `ota_service`: block numbers modulo 3 (the three cases equal, previous, other
  all occur, and the wrap), an area of 8 flash words, a queue of one chunk (full
  and empty queues both occur), three payloads (empty header, image that fits
  and ends inside a flash word, image one byte too large), both block sizes. No
  bound on the number of sessions, restarts or chunks: TLC visits all 1.4 million
  states of the instance. Its longest run, about three minutes with two workers.
* `modbus_master`: two names, so that an answer can be late by one query and yet
  be told from the one expected (`SelfCorrects` is proved for any number), a ring
  of four or five pieces, which one answer with noise and a late one overflow, a
  timer queue of ten, which never fills with one command of other ports.
  `modbus_full` has a queue of three and three commands of other ports: full
  whenever they like.
* `registers`: the firmware's own registers and bits (`MCRegisters`): swing and
  luffing with one pair and failing queries, load metrics with four pairs. A
  coil goes to a reserve word; in `registers_coil` to the validity word.
* `uart_shell`: a DMA buffer and a fifo of two bytes, messages of one, three and
  five bytes (into the buffer, into both, more than both hold), two names so that
  messages can be told apart. The code has 256 and 256 bytes. No bound on the
  number of messages, errors or printfs. `uart_4g` adds one task.
* `ota_transfer`: three blocks modulo 4, two retries, two losses, one restart,
  two late timers. Two losses allow the same message and its repeat to vanish.
  `ota_large` has three blocks modulo 3 and no disturbance.
* `offline_manage`: two critical events, offline time 2, protection time 4,
  period 2, reboot at 16 ticks and 2 more, of a counter of 24. `MaxRaces` allows one stamp to slip between
  the sample and the comparison, fewer than the scans of the protection time:
  such a race needs a producer to run in the microseconds of a scan, and a reset
  of a healthy device would need one at every scan for ten minutes. `Slack` is how
  long the task may be held up.

The runs that end allow deadlock (`CHECK_DEADLOCK FALSE`) only in
`OtaTransfer`: one download is over when the sender is.

### Fairness

* `OtaService`: weak fairness of the consumer (osPriorityHigh, the highest of the
  client's tasks), of the reboot after completion, and of the watchdog, which is
  hardware. Interrupts, host and power cuts are free to happen or not.
* `OtaTransfer`: in addition the link delivers what it does not lose and the
  sender's timer fires. OTASTART, losses and restarts are free.
* `UartTx`: the DMA moves bytes, its completion interrupt stays pending until it
  is served, and a call that has begun goes on whenever it is let (strong
  fairness, since higher priorities interrupt both). That somebody sends, that
  printf ends and that errors occur is free.
* `ModbusMaster`: the master goes on when it is notified, and the timer task,
  whose priority is lower, runs while the masters are blocked, which they are
  most of the time; a timer that runs expires. The slave, the line, the other
  ports and the reader's next query are free.
* `Registers`: strong fairness of each writer's access, since the mutex is taken
  and given back by others in between; all writers delay between two rounds.
  Rounds need not begin, and the slave owes nothing.
* `OfflineManage`: the tick, and the supervision task (its lateness is bounded
  by `Slack`). Producers owe nothing.

## 4. What is proved

`OtaServiceProofs` proves, for every block-number width, area size, queue depth
and set of payloads that satisfies `OtaAssumption`:

| Theorem | Property |
|---|---|
| `TypeCorrect` | `TypeOK` |
| `ModesCorrect` | `ModesAgree` |
| `StreamInside` | `WritesInsideTemp` |
| `MetaCorrect` | `MetaDescribesTemp`, assuming `BootClears` |
| `FailureRestarts` | `FailureEndsInRestart` |

None of these is inductive alone. The invariant `IInv` adds what the consumer
knows at each program counter (`PcAgrees`: for instance that a finish in
progress holds a DONE protocol and an empty-name header), that the sizes of a
transfer agree while one is under way (`SizesAgree`: written, cached and
received bytes add up, and the write offset is a multiple of the flash word, so
that the padded last word still fits because the area is a multiple of it), that
the CRC folds exactly the pieces in flash (`StreamAgrees`), and what metadata may
exist in each state (`MetaAgrees`). There is one lemma per part and one step per
action. TLC finds `IInv` to hold on the instance of `ota_service`, too.

`OtaContractProofs` proves that the device is an update service:

| Theorem | Property |
|---|---|
| `ContractKept` | `KeepsContract` (`Spec => Update!Spec`), assuming `BootClears` |

Its invariant adds to `IInv` that the CRC is empty before a transfer (`Fresh`),
of what the area holds during one, and at the finish of it or empty
(`Collected`), and that only a command to an idle service overtakes a failure
(`Overtaken`). Every action is one of the abstract service or leaves its three
variables alone: `Verify`, for instance, opens an update that never began, where
the area is empty.

`OtaTransferProofs` carries this over to a download, for every number of blocks
and every limit of losses, retries, restarts and late answers:

| Theorem | Property |
|---|---|
| `DeviceIsService` | `TransferSpec => Spec`: every theorem about `OtaService` holds in a download |
| `TransferTyped` | `TransferTypeOK` |
| `PrefixStored` | `ImagePrefix`, assuming `NumBlocks < BlockMod` (images of up to 255 blocks, the only ones that can be received to the end) |

For `PrefixStored` what is on its way to the device is a header of the image or a
block under its own number (`Sent`, `Queued`), and in RECV_DATA the block number
is one more than the blocks stored, each of which was taken whole (`Following`).

`OtaDownloadProofs` is about both ends of a download, under the same generality:

| Theorem | Property |
|---|---|
| `WholeStored` | `WholeImage`, assuming `BootClears` |
| `ImageDelivered` | metadata means that the area holds the sender's image block by block, and carries its CRC; assuming `BootClears` and `NumBlocks < BlockMod` |
| `LargeNotDelivered` | an image with `NumBlocks >= BlockMod` never gets metadata; assuming `BootClears` |
| `UndisturbedAnswered` | `UndisturbedGoesOn`, assuming `BootClears`, `NumBlocks < BlockMod` and that the image fits the area |

The first three hold while no answer came late, as `WholeImage` says itself: a late
answer can be taken for one to the next block. Their invariant `WInv` says that
one message, or the answer to it, is under way at a time (`OneAtATime`), that it
is what the sender said last, and the position of the device fits it (`InStep`),
that the block number follows from the number of stored blocks (`Counted`, true
with late answers as well), how many are stored where the sender stands
(`Stored`), and what the sender may believe of a device that did not restart
(`Believed`). The crux is `DataAnswered`: the device tells a repeated block from a new
one by its number modulo `BlockMod` alone, and this is enough because the sender
is at most one block ahead. No assumption on the size of the image is needed for
that; for a large one the same invariant shows that it never arrives, which is
the finding of `ota_large` for every size.

`UndisturbedAnswered` is the safety part of `CleanTransferCompletes`: that there is
always something to come. Its invariant `Smooth` pairs each state of the sender
with the states the device can be in and with where the turn is (`Paired`), and
keeps the announced size until the finish compares it (`Announced`). What is left
to TLC is that fair steps then lead to the end.

`OfflineManageProofs`, for every table of events and every choice of times that
satisfies `OfflineAssumption`:

| Theorem | Property |
|---|---|
| `TypeCorrect` | `TypeOK` |
| `TriggerCorrect` | `TriggerAgrees` |
| `SilenceBounded` | `SilentIsReset`, with `RebootDelay` more where the twelve-hour reboot comes first |
| `HealthyKeepsRunning` | `HealthyNeverReset`, assuming `Reach(MaxRaces - 1) + Slack <= ProtectTime` |

The invariant relates the clocks (`Clock`: time, the last sample, the next wake-up
and the stamps), bounds the protection by its trigger (`Deadline`) and the sample
by a silent producer's last stamp (`Noticed`), and lets each scan of a protection
without a cause be paid for by a stamp that slipped into it (`Paid`). The
assumption says that the races that can happen in a row do not last as long as
the protection: with scans 100 ms apart and a protection of ten minutes, some six
thousand of them.

`UartTxProofs`, for every size of the buffers and set of messages:

| Theorem | Property |
|---|---|
| `TypeCorrect` | `TypeOK`, for any number of writers |
| `NeverReturnsIdle` | `ReturnsBusy`, assuming `Tasks = 0` |
| `QueueImplemented` | `KeepsOrder`, assuming `Tasks = 0` |
| `MessagesWhole` | `WholeMessages`, assuming `Tasks = 0` |

Types need that what a call takes of its message fits in both (`Fits`). With one
writer a call is alone with the DMA: the flag it read is still right
(`OneWriter`, `CallKnows`). For messages the pending bytes of the buffer and the
fifo continue each other, and a call in between holds the rest of the message
whose first part is the last pending (`Whole`, `CallHolds`).

`ModbusMasterProofs`, for every length of the queue and the ring, every number of
commands of other ports and every number of queries whose answers may be late:

| Theorem | Property |
|---|---|
| `TypeCorrect` | `TypeOK` |
| `AlwaysWatched` | `Watched` |
| `OwnTimeouts` | `OwnTimeout` |
| `CorrectsItself` | `SelfCorrects` |

The invariant says when reader and master agree (`Paired`), that a notification is
pending only before the transmission (`NoteAgrees`), and that after a query that
was answered and left nothing under way the air and the ring hold only this one's
pieces (`OwnOnly`). For `Watched` the last of the commands that concern the
timeout decides, and each way to post one is shown to keep that.

`RegistersProofs`, for every set of writers, pairs and bits that satisfies
`RegistersAssumption` (each has registers and a bit of its own):

| Theorem | Property |
|---|---|
| `TypeCorrect` | `TypeOK` |
| `ReportsWholePairs` | `PairsWhole` |
| `ReportsOrderedFrames` | `FramesInOrder` |
| `BitsCorrect` | `BitsAgree`, assuming `CoilWord = "spare"` |
| `ValidCorrect` | `ValidIsStored`, assuming `CoilWord = "spare"` |

The invariant: who is inside holds the mutex (`Locked`), a pair is uneven only
while its writer is between its words (`HalfOnlyInside`), what was read of the
validity word is what it holds (`WordAgrees`, false with a coil in that word:
`registers_coil`), and how far each writer's round has come (`Rounds`).

Every invariant and every action property of the passing runs is proved. Only
model-checked is all liveness (`CompletedRestarts`, `CleanTransferCompletes`,
`TransferEnds`, `AlwaysRecovers`, `Flows`, `QueryEnds`, `AccessEnds`), which the
prover does not reach.

## 5. Plan

Done: `OtaService`, `OtaTransfer`, `OfflineManage`, `UartTx` against `TxQueue`,
`ModbusMaster`, `Registers`, `OtaService` against `UpdateService`, and the proofs
of section 4.

Left:

1. The slave's receive loop, whose end of frame can get lost while it answers
   another request.

## 6. Not modelled

* STM32 HAL, CMSIS, FreeRTOS, lwIP and the iperf server are third-party code and
  make up nearly all lines of the repository. They are modelled from how the
  application uses them: the HAL's UART states in `UartTx`, the timer task, its
  command queue and notifications in `ModbusMaster`, flash operations and
  assertions in interrupts in `OtaService`.
* The receive ring (`lwrb.c`): both entries of the UART table register a
  `recv_callback`, so that nothing is ever put into it.
* The slave's receive loop and its functions 1, 3, 6, 15 and 16. Function 5 is in
  `Registers`, as it shares the validity word. That a read of registers can send
  half of a pair is listed as a hazard: no document promises more.
* `ModbusQuery`, `ModbusQueryInject`, `uart_manage_reset_dma_send`,
  `offline_manage_enable_event` and `offline_manage_disable_event`, which nothing
  calls; the TCP, USB and DMA variants of the Modbus stack, which are compiled
  out or not selected.
* Parsing of UDP frames, the packing and formatting of the report, LEDs, pins and
  clocks: no state that outlives the call, or output only.
