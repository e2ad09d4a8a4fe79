----------------------------- MODULE ModbusMaster -----------------------------
(***************************************************************************)
(* A Modbus master (component/am_modbus/am_modbus.c), the encoder reader   *)
(* that uses it, the interrupt that receives for it, and the FreeRTOS      *)
(* timer task that runs its two timers: T35, the silence that ends an      *)
(* answer, and xTimerTimeout.                                              *)
(*                                                                         *)
(* Reader and master have the same priority.  The timer task has a lower   *)
(* one and moves only while both are blocked; the interrupt moves at any   *)
(* time.  Whoever resets or stops a timer posts a command to the queue of  *)
(* the timer task, which other ports share, and loses it when that is full. *)
(*                                                                         *)
(* Bytes come in pieces: an answer is two, an exception and noise are one. *)
(* SendQuery's checks always pass: the ids are constant, and i8state is    *)
(* COM_IDLE again on every way out of the wait.                            *)
(***************************************************************************)
EXTENDS Integers, Sequences

CONSTANTS
  Queries,     \* names of queries that may have pieces under way or received
  QueueLen,    \* configTIMER_QUEUE_LENGTH
  MinBuffer, MaxBuffer,  \* MAX_BUFFER is that many pieces, which differ in length
  MaxOthers    \* bound: commands of other ports in the queue

ASSUME MasterAssumption ==
  /\ QueueLen \in Nat \ {0} /\ MaxOthers \in Nat
  /\ MinBuffer \in Nat /\ MaxBuffer \in Nat /\ 1 < MinBuffer /\ MinBuffer <= MaxBuffer
  /\ "none" \notin Queries

None == "none"     \* a query that the slave does not answer

First(q)     == <<q, "first">>
Rest(q)      == <<q, "rest">>
Exception(q) == <<q, "exception">>
Noise(q)     == <<q, "noise">>

Pieces == Queries \X {"first", "rest", "exception", "noise"}
Answers(q) == IF q = None THEN {<<>>}
              ELSE {<<First(q), Rest(q)>>, <<Noise(q), First(q), Rest(q)>>, <<Exception(q)>>}

Commands == {"t35", "timeout", "stop"}

VARIABLES
  waiting,     \* the reader waits in ModbusQueryV2
  result,      \* what it was notified with, and whether an answer was this query's
  pc,          \* of the master
  query,       \* the telegram's name
  note,        \* a notification value other than 0 is pending: ERR_TIME_OUT
  t35, timeout,  \* the timers run
  cmds,        \* this port's commands in the queue of the timer task
  others,      \* number of commands of other ports in it, in any place
  drained,     \* the timer task found none of this port's after the last expiry
  ring,        \* xBufferRX
  receiving,   \* HAL_UART_Receive_IT is armed
  air,         \* pieces the slave has sent
  unarmed,     \* history: the command that starts this query's timeout was lost
  tidy         \* history: the query before was answered and left nothing in the air

timerVars == <<t35, timeout, drained>>
queueVars == <<cmds, others>>
rxVars    == <<ring, receiving, air>>
vars == <<waiting, result, pc, query, note, timerVars, queueVars, rxVars, unarmed, tidy>>

Init ==
  /\ waiting = FALSE /\ result = "none"
  /\ pc = "queue" /\ query = None /\ note = FALSE
  /\ t35 = FALSE /\ timeout = FALSE /\ drained = TRUE
  /\ cmds = <<>> /\ others = 0
  /\ ring = <<>> /\ receiving = TRUE /\ air = <<>>
  /\ unarmed = FALSE /\ tidy = TRUE

Full(q) == Len(q) + others >= QueueLen
Posted(q, c) == IF Full(q) THEN q ELSE Append(q, c)
Holds(s, q) == \E i \in 1 .. Len(s) : s[i][1] = q

(***************************************************************************)
(* The reader.  Its period of 500 ms is longer than the timeout of a       *)
(* query: by then the timer task has worked off what that query posted and *)
(* its timer has expired or been stopped.                                  *)
(***************************************************************************)
Settled == ~timeout /\ cmds = <<>>

ModbusQuery ==
  /\ ~waiting /\ Settled
  /\ waiting' = TRUE /\ result' = "none" /\ pc' = "silence"
  /\ query' \in {q \in Queries : ~Holds(air, q) /\ ~Holds(ring, q)} \cup {None}
  /\ unarmed' = FALSE
  /\ UNCHANGED <<note, timerVars, queueVars, rxVars, tidy>>

(***************************************************************************)
(* StartTaskModbusMaster, with SendQuery and sendTxBuffer.                 *)
(***************************************************************************)
\* Mutant: the wait for the transmission leaves the value that is pending.
NoteLeft == note

NoteTaken == FALSE

\* HAL_UART_Transmit_IT, then ulTaskNotifyTake: a value that is pending ends
\* the wait at once.
Transmit ==
  /\ pc = "silence"
  /\ pc' = IF note THEN "sent" ELSE "tx"
  /\ note' = NoteTaken
  /\ UNCHANGED <<waiting, result, query, timerVars, queueVars, rxVars, unarmed, tidy>>

\* HAL_UART_TxCpltCallback.
TxComplete ==
  /\ pc = "tx"
  /\ pc' = "sent"
  /\ UNCHANGED <<waiting, result, query, note, timerVars, queueVars, rxVars, unarmed, tidy>>

\* The last byte is out: the slave may answer.
Sent ==
  /\ pc = "sent"
  /\ pc' = "arm"
  /\ \E answer \in Answers(query) : air' = air \o answer
  /\ UNCHANGED <<waiting, result, query, note, timerVars, queueVars, ring, receiving, unarmed, tidy>>

\* Mutant: the timeout is not started.
NotArmed == cmds

\* xTimerReset, whose result is ignored.
Arm == Posted(cmds, "timeout")

AwaitAnswer ==
  /\ pc = "arm"
  /\ pc' = IF note THEN "late" ELSE "answer"
  /\ note' = FALSE
  /\ cmds' = Arm
  /\ unarmed' = Full(cmds)
  /\ UNCHANGED <<waiting, result, query, timerVars, others, rxVars, tidy>>

\* The reader gets its result.
Notify(r) == waiting' = FALSE /\ result' = r /\ pc' = "queue" /\ query' = None

TimedOut ==
  /\ pc = "late"
  /\ Notify("failed")
  /\ tidy' = FALSE
  /\ UNCHANGED <<note, timerVars, queueVars, rxVars, unarmed>>

\* mb_trim_sticky_packet: the frames in the buffer, by their first piece.
IsFrame(s, i) ==
  \/ s[i][2] = "exception"
  \/ i < Len(s) /\ s[i] = First(s[i][1]) /\ s[i + 1] = Rest(s[i][1])
Frames(s) == {i \in 1 .. Len(s) : IsFrame(s, i)}
Leads(s, i) == i \in Frames(s) /\ \A j \in Frames(s) : i <= j

\* Whether fewer than six bytes came.  An exception has five.
TooShort(s) ==
  CASE s = <<>> \/ (Len(s) = 1 /\ s[1][2] = "exception") -> {TRUE}
    [] Frames(s) # {} -> {FALSE}
    [] OTHER -> BOOLEAN

\* What the checks make of the buffer: they look at its first frame only.
Verdict(s) ==
  CASE \E i \in Frames(s) : Leads(s, i) /\ s[i] = First(query) -> "current"
    [] \E i \in Frames(s) : Leads(s, i) /\ s[i][2] = "first" /\ s[i][1] # query -> "stale"
    [] OTHER -> "failed"

\* Mutant: what follows the first frame is kept for the next query.
AfterFrame(s) == IF Frames(s) = {} THEN <<>>
                 ELSE SubSeq(s, (CHOOSE i \in Frames(s) : Leads(s, i)) + 2, Len(s))

\* RingGetAllBytes.
AfterGet(s) == <<>>

\* Mutant: one of the ways out forgets the reader.
BadSizeQuiet == pc' = "queue" /\ UNCHANGED <<waiting, result, query>>

BadSize == Notify("failed")

\* getRxBuffer, which re-arms the receiver, and the answer's checks.
Answered ==
  /\ pc = "got"
  /\ ring' = AfterGet(ring) /\ receiving' = TRUE
  /\ \E short \in TooShort(ring) :
       \/ short /\ BadSize /\ UNCHANGED cmds
       \/ ~short /\ Notify(Verdict(ring)) /\ cmds' = Posted(cmds, "stop")
  /\ tidy' = (air = <<>>)
  /\ UNCHANGED <<note, timerVars, others, air, unarmed>>

(***************************************************************************)
(* HAL_UART_RxCpltCallback and HAL_UART_ErrorCallback.                     *)
(***************************************************************************)

\* Mutant: the count does not wrap, and nothing else stops it.
AddedUnwrapped(p) == {Append(ring, p)}

\* RingAdd.  u8available has 8 bits: it wraps to 0 at MAX_BUFFER, perhaps in
\* the middle of a piece, and never equals it.
Added(p) ==
  LET n == Len(ring) + 1 IN
  (IF n < MaxBuffer THEN {Append(ring, p)} ELSE {})
    \cup (IF n >= MinBuffer THEN {<<>>, <<Noise(p[1])>>} ELSE {})

\* A piece comes; overrun: the next byte came too soon, and nothing receives
\* after this one.
TakeIn(p, overrun) ==
  /\ receiving
  /\ ring' \in Added(p)
  /\ receiving' = ~overrun
  /\ cmds' = Posted(cmds, "t35")

Arrive ==
  /\ air # <<>>
  /\ \E overrun \in BOOLEAN : TakeIn(Head(air), overrun)
  /\ air' = Tail(air)
  /\ UNCHANGED <<waiting, result, pc, query, note, timerVars, others, unarmed, tidy>>

\* Another port posts a command.
Interfere ==
  /\ others < MaxOthers /\ ~Full(cmds)
  /\ others' = others + 1
  /\ UNCHANGED <<waiting, result, pc, query, note, timerVars, cmds, rxVars, unarmed, tidy>>

\* A piece is lost on the way, or comes while nothing receives.
Lose ==
  /\ air # <<>>
  /\ air' = Tail(air)
  /\ UNCHANGED <<waiting, result, pc, query, note, timerVars, queueVars, ring, receiving, unarmed, tidy>>

(***************************************************************************)
(* The timer task.                                                         *)
(***************************************************************************)
Blocked == pc \in {"queue", "silence", "tx", "answer"}

\* ulTaskNotifyTake ends: the wait for the transmission, or the one for the
\* answer.
Wake(answered) ==
  pc' = CASE pc = "tx" -> "sent" [] pc = "answer" -> answered [] OTHER -> pc

\* vTimerCallbackT35, on queue q.  Its notification has the value 0: it wakes
\* the master, and is lost when that does not wait.
T35Callback(q) ==
  /\ cmds' = Posted(q, "stop")
  /\ Wake("got")
  /\ note' = FALSE

TimeoutCallback ==
  /\ Wake("late")
  /\ note' = (pc \notin {"tx", "answer"})

\* The task goes on with its queue until that is empty.
GoesOn == drained' = (cmds' = <<>>)

T35Expires ==
  /\ Blocked /\ drained /\ t35
  /\ t35' = FALSE
  /\ T35Callback(cmds)
  /\ GoesOn
  /\ UNCHANGED <<waiting, result, query, timeout, others, rxVars, unarmed, tidy>>

TimeoutExpires ==
  /\ Blocked /\ drained /\ timeout
  /\ timeout' = FALSE
  /\ TimeoutCallback
  /\ UNCHANGED cmds /\ GoesOn
  /\ UNCHANGED <<waiting, result, query, t35, others, rxVars, unarmed, tidy>>

\* prvProcessReceivedCommands.  A start that has waited in the queue for
\* longer than the period of its timer expires at once.
Process ==
  /\ Blocked /\ cmds # <<>>
  /\ \/ /\ Head(cmds) = "t35"
        /\ \/ t35' = TRUE /\ cmds' = Tail(cmds) /\ UNCHANGED <<pc, note>>
           \/ t35' = FALSE /\ T35Callback(Tail(cmds))
        /\ UNCHANGED timeout
     \/ /\ Head(cmds) = "timeout"
        /\ \/ timeout' = TRUE /\ UNCHANGED <<pc, note>>
           \/ timeout' = FALSE /\ TimeoutCallback
        /\ cmds' = Tail(cmds) /\ UNCHANGED t35
     \/ /\ Head(cmds) = "stop"
        /\ timeout' = FALSE
        /\ cmds' = Tail(cmds) /\ UNCHANGED <<pc, note, t35>>
  /\ GoesOn
  /\ UNCHANGED <<waiting, result, query, others, rxVars, unarmed, tidy>>

\* The command of another port.
ProcessOther ==
  /\ Blocked /\ others > 0
  /\ others' = others - 1
  /\ UNCHANGED <<waiting, result, pc, query, note, timerVars, cmds, rxVars, unarmed, tidy>>

Master    == Transmit \/ TxComplete \/ Sent \/ AwaitAnswer \/ TimedOut \/ Answered
TimerTask == T35Expires \/ TimeoutExpires \/ Process \/ ProcessOther
Next == ModbusQuery \/ Master \/ Arrive \/ Interfere \/ Lose \/ TimerTask

Spec == Init /\ [][Next]_vars

\* Both tasks run when they are ready; timers expire.  The slave, the line
\* and the other ports owe nothing.
FairSpec ==
  /\ Spec
  /\ WF_vars(Master)
  /\ WF_vars(Process) /\ WF_vars(T35Expires) /\ WF_vars(TimeoutExpires)

TypeOK ==
  /\ waiting \in BOOLEAN /\ note \in BOOLEAN
  /\ pc \in {"queue", "silence", "tx", "sent", "arm", "answer", "got", "late"}
  /\ query \in Queries \cup {None}
  /\ t35 \in BOOLEAN /\ timeout \in BOOLEAN /\ drained \in BOOLEAN
  /\ cmds \in Seq(Commands) /\ Len(cmds) <= QueueLen
  /\ others \in 0 .. MaxOthers
  /\ ring \in Seq(Pieces) /\ Len(ring) < MaxBuffer
  /\ receiving \in BOOLEAN /\ air \in Seq(Pieces)
  /\ unarmed \in BOOLEAN /\ tidy \in BOOLEAN

\* What the commands that are posted will make of the timeout.
TimeoutRuns ==
  LET S == {i \in 1 .. Len(cmds) : cmds[i] \in {"timeout", "stop"}} IN
  IF S = {} THEN timeout
  ELSE \E i \in S : cmds[i] = "timeout" /\ \A j \in S : j <= i

\* While the master waits for an answer the timeout runs or is going to: no
\* stop that an earlier end of frame has posted is behind its start
\* (vTimerCallbackT35 posts before it notifies).
Watched == pc = "answer" /\ ~unarmed => TimeoutRuns

\* A query is never failed by the timeout of the one before: when that comes
\* after the answer, the wait for the transmission uses it up.
OwnTimeout == pc = "arm" => ~note

\* A late answer is taken for that of a later query, as nothing but getRxBuffer
\* empties the ring.  That corrects itself: after a query that was answered
\* and left nothing under way the next result is not an old one.
SelfCorrects ==
  [][waiting /\ result' = "stale" => ~tidy]_vars

\* "Block indefinitely until a Modbus Frame arrives or query timeouts": the
\* reader gets a result, whatever the slave, the line and a receiver that an
\* overrun has left disarmed do.
QueryEnds == waiting ~> ~waiting
===============================================================================
