-------------------------------- MODULE UartTx --------------------------------
(***************************************************************************)
(* The transmit path of a UART (component/uart_manage/uart_manage.c and    *)
(* fifo.c): uart_manage_dma_send_impl copies a message to the DMA buffer,  *)
(* or to the fifo while a transfer runs, and the completion interrupt      *)
(* sends on what the fifo holds.                                           *)
(*                                                                         *)
(* Writers have priorities 1 .. Tasks + 1.  A writer moves only while none *)
(* of a higher priority is at work; the last one is the UART interrupt,    *)
(* which the completion interrupt does not preempt, as they have the same  *)
(* priority.  The shell port has no other writer, but printf sends on it   *)
(* without DMA.  The 4G port is written to by tasks as well.               *)
(***************************************************************************)
EXTENDS Integers, Sequences

CONSTANTS
  Tasks,       \* number of tasks that write to the port
  Printing,    \* TRUE: printf uses the port
  BufSize,     \* send_buffer_size
  FifoSize,    \* send_fifo_size
  Ids, Lens    \* the messages: a name and a length

ASSUME UartTxAssumption ==
  /\ Tasks \in Nat /\ Printing \in BOOLEAN
  /\ BufSize \in Nat \ {0} /\ FifoSize \in Nat \ {0}
  /\ Lens \subseteq Nat \ {0}

Writers == 1 .. Tasks + 1
Isr     == Tasks + 1

\* Byte k of a message, and the messages.
Units == Ids \X (Nat \ {0})
Message(id, n) == [k \in 1 .. n |-> <<id, k>>]
Nothing == <<>>

VARIABLES
  pc,           \* of each writer
  msg,          \* buf and len, of each writer
  direct,       \* to_send_len, of each writer
  is_sending,
  gState,       \* of the HAL: "ready", "dma", or "printf" for a blocking send
  send_buffer,
  sent, size,   \* the DMA transfer: bytes sent, and TxXferSize
  send_fifo,
  line,         \* the byte sent last
  broken        \* history: a DMA error, and the port has not drained since

writerVars == <<pc, msg, direct>>
dmaVars    == <<send_buffer, sent, size>>
vars == <<writerVars, is_sending, gState, dmaVars, send_fifo, line, broken>>

Init ==
  /\ pc = [w \in Writers |-> "idle"]
  /\ msg = [w \in Writers |-> <<>>] /\ direct = [w \in Writers |-> 0]
  /\ is_sending = FALSE /\ gState = "ready"
  /\ send_buffer = <<>> /\ sent = 0 /\ size = 0
  /\ send_fifo = <<>> /\ line = Nothing /\ broken = FALSE

Least(a, b) == IF a < b THEN a ELSE b

\* What is still to leave the port, in the order in which it will.
Pending == SubSeq(send_buffer, sent + 1, size) \o send_fifo

\* An error is over when the port has drained and its flag says so.
StillBroken == broken' = (broken /\ (is_sending' \/ Pending' # <<>>))

Running(w) == \A v \in Writers : v > w => pc[v] = "idle"

GoOn(w, at) == pc' = [pc EXCEPT ![w] = at]

\* uart_manage_dma_send_impl returns; its locals are gone.
Return(w) ==
  /\ GoOn(w, "idle")
  /\ msg' = [msg EXCEPT ![w] = <<>>] /\ direct' = [direct EXCEPT ![w] = 0]

(***************************************************************************)
(* uart_manage_dma_send_impl.                                              *)
(***************************************************************************)

\* A call begins and reads the flag.
Begin(w) ==
  /\ Running(w) /\ pc[w] = "idle"
  /\ \E id \in Ids, n \in Lens : msg' = [msg EXCEPT ![w] = Message(id, n)]
  /\ GoOn(w, IF is_sending THEN "check" ELSE "split")
  /\ UNCHANGED <<direct, is_sending, gState, dmaVars, send_fifo, line, broken>>

\* Mutant: a flag that an error left behind is believed.
StaleNever == FALSE

\* The flag says that a transfer runs, the HAL that none does.
Stale == gState = "ready"

\* The flag was set: it is compared with the state of the HAL.
Check(w) ==
  /\ Running(w) /\ pc[w] = "check"
  /\ GoOn(w, IF Stale THEN "clear" ELSE "split")
  /\ UNCHANGED <<msg, direct, is_sending, gState, dmaVars, send_fifo, line, broken>>

\* A stale flag is cleared, whatever has happened since it was compared.
Clear(w) ==
  /\ Running(w) /\ pc[w] = "clear"
  /\ is_sending' = FALSE
  /\ GoOn(w, "split")
  /\ UNCHANGED <<msg, direct, gState, dmaVars, send_fifo, line>>
  /\ StillBroken

\* to_send_len and to_tx_fifo_len.
DirectLen(n) == IF is_sending THEN 0 ELSE Least(n, BufSize)
FifoLen(w)   == Least(Len(msg[w]) - direct[w], FifoSize)

Split(w) ==
  /\ Running(w) /\ pc[w] = "split"
  /\ direct' = [direct EXCEPT ![w] = DirectLen(Len(msg[w]))]
  /\ GoOn(w, IF direct'[w] > 0 THEN "copy" ELSE "puts")
  /\ UNCHANGED <<msg, is_sending, gState, dmaVars, send_fifo, line, broken>>

\* memcpy to send_buffer, whatever the DMA is doing with it.
Copy(w) ==
  /\ Running(w) /\ pc[w] = "copy"
  /\ send_buffer' = SubSeq(msg[w], 1, direct[w])
                      \o SubSeq(send_buffer, direct[w] + 1, Len(send_buffer))
  /\ GoOn(w, "flag")
  /\ UNCHANGED <<msg, direct, is_sending, gState, sent, size, send_fifo, line, broken>>

Flag(w) ==
  /\ Running(w) /\ pc[w] = "flag"
  /\ is_sending' = TRUE
  /\ GoOn(w, "start")
  /\ UNCHANGED <<msg, direct, gState, dmaVars, send_fifo, line, broken>>

\* HAL_UART_Transmit_DMA starts, or refuses because the UART is busy.
Start(w) ==
  /\ Running(w) /\ pc[w] = "start"
  /\ \/ /\ gState = "ready"
        /\ gState' = "dma" /\ sent' = 0 /\ size' = direct[w]
        /\ IF FifoLen(w) > 0 THEN GoOn(w, "puts") /\ UNCHANGED <<msg, direct>> ELSE Return(w)
        /\ UNCHANGED is_sending
     \/ /\ gState # "ready"
        /\ is_sending' = FALSE
        /\ Return(w)
        /\ UNCHANGED <<gState, sent, size>>
  /\ UNCHANGED <<send_buffer, send_fifo, line>>
  /\ StillBroken

\* Mutant: the fifo takes more than it has room for.
AcceptedAll(w) == FifoLen(w)

\* fifo_s_puts takes what it has room for, with the interrupts masked.
Accepted(w) == Least(FifoLen(w), FifoSize - Len(send_fifo))

\* Mutant: the fifo part begins one byte late.
FifoPartLate(w) == SubSeq(msg[w], direct[w] + 2, direct[w] + Accepted(w))

FifoPart(w) == SubSeq(msg[w], direct[w] + 1, direct[w] + Accepted(w))

Puts(w) ==
  /\ Running(w) /\ pc[w] = "puts"
  /\ send_fifo' = send_fifo \o FifoPart(w)
  /\ Return(w)
  /\ UNCHANGED <<is_sending, gState, dmaVars, line>>
  /\ StillBroken

(***************************************************************************)
(* The DMA, its interrupt and printf.                                      *)
(***************************************************************************)
Emit ==
  /\ gState = "dma" /\ sent < size
  /\ line' = send_buffer[sent + 1] /\ sent' = sent + 1
  /\ UNCHANGED <<writerVars, is_sending, gState, send_buffer, size, send_fifo>>
  /\ StillBroken

NoInterrupt == pc[Isr] = "idle"

\* Mutant: the completed transfer is not followed by the next one.
SendOnNever == FALSE

SendOn == send_fifo # <<>>

\* Mutant: the flag is cleared although the fifo is sent on.
FlagCleared == FALSE

FlagAfter == SendOn

\* HAL_UART_TxCpltCallback: uart_manage_send_completed_hook.  The HAL has just
\* become ready and size' > 0, so HAL_UART_Transmit_DMA does not refuse here.
Complete ==
  /\ NoInterrupt
  /\ gState = "dma" /\ sent = size
  /\ LET n == Least(Len(send_fifo), BufSize) IN
     \/ /\ SendOn
        /\ send_buffer' = SubSeq(send_fifo, 1, n) \o SubSeq(send_buffer, n + 1, Len(send_buffer))
        /\ send_fifo' = SubSeq(send_fifo, n + 1, Len(send_fifo))
        /\ sent' = 0 /\ size' = n
        /\ UNCHANGED gState
     \/ /\ ~SendOn
        /\ gState' = "ready"
        /\ sent' = 0 /\ size' = 0
        /\ UNCHANGED <<send_buffer, send_fifo>>
  /\ is_sending' = FlagAfter
  /\ UNCHANGED <<writerVars, line>>
  /\ StillBroken

\* The HAL ends a transfer that failed and calls no hook of the transmit path.
DmaError ==
  /\ NoInterrupt
  /\ gState = "dma" /\ sent < size
  /\ gState' = "ready" /\ sent' = 0 /\ size' = 0
  /\ broken' = TRUE
  /\ UNCHANGED <<writerVars, is_sending, send_buffer, send_fifo, line>>

\* _write: HAL_UART_Transmit, which a task waits in.
PrintBegins ==
  /\ Printing /\ NoInterrupt /\ gState = "ready"
  /\ gState' = "printf"
  /\ UNCHANGED <<writerVars, is_sending, dmaVars, send_fifo, line, broken>>

PrintEnds ==
  /\ NoInterrupt /\ gState = "printf"
  /\ gState' = "ready"
  /\ UNCHANGED <<writerVars, is_sending, dmaVars, send_fifo, line, broken>>

Send(w) == Check(w) \/ Clear(w) \/ Split(w) \/ Copy(w) \/ Flag(w) \/ Start(w) \/ Puts(w)

Next ==
  \/ \E w \in Writers : Begin(w) \/ Send(w)
  \/ Emit \/ Complete \/ DmaError
  \/ PrintBegins \/ PrintEnds

Spec == Init /\ [][Next]_vars

\* A call that has begun goes on, the DMA moves bytes, and its interrupt stays
\* pending until it is served.
FairSpec ==
  /\ Spec
  /\ \A w \in Writers : SF_vars(Send(w))
  /\ WF_vars(Emit) /\ SF_vars(Complete)
-------------------------------------------------------------------------------
PcStates == {"idle", "check", "clear", "split", "copy", "flag", "start", "puts"}

TypeOK ==
  /\ pc \in [Writers -> PcStates] /\ msg \in [Writers -> Seq(Units)]
  /\ direct \in [Writers -> 0 .. BufSize]
  /\ is_sending \in BOOLEAN /\ gState \in {"ready", "dma", "printf"} /\ broken \in BOOLEAN
  /\ send_buffer \in Seq(Units) /\ Len(send_buffer) <= BufSize
  /\ size \in 0 .. Len(send_buffer) /\ sent \in 0 .. size
  /\ send_fifo \in Seq(Units) /\ Len(send_fifo) <= FifoSize
  /\ line \in Units \cup {Nothing}

Queue == INSTANCE TxQueue WITH queue <- Pending

\* A port with one writer keeps the order: DMA buffer, fifo and the pieces in
\* which a message goes to them are one queue, whatever printf, completions and
\* errors come in between.
KeepsOrder == Queue!Spec

\* Messages do not mix on the line: after a byte comes the next of the same
\* message, or the first of another one.
WholeMessages ==
  [][Emit /\ ~broken /\ line # Nothing =>
       line'[2] = 1 \/ line' = <<line[1], line[2] + 1>>]_vars

\* No call returns with the UART idle, also when the transfer it counts on was
\* stopped by an error meanwhile: it sees that the flag is stale and starts the
\* UART, rather than add to a fifo that nobody sends on.  (While printf holds
\* the UART it cannot start it, and the next call does.)
ReturnsBusy ==
  [][\A w \in Writers : pc[w] # "idle" /\ pc'[w] = "idle" => gState' # "ready"]_vars

\* docs/release_version.md: after a completed transfer the fifo is sent on
\* automatically.  Nothing waits for ever while the flag says that all is sent.
Flows == (Pending # <<>> /\ ~is_sending) ~> (Pending = <<>> \/ is_sending)
===============================================================================
