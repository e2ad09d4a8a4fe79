-------------------------- MODULE ModbusMasterProofs --------------------------
(***************************************************************************)
(* Safety of ModbusMaster for every length of the timer queue and of the   *)
(* ring, every number of commands of other ports, and every set of query   *)
(* names, that is, however late answers are.                               *)
(***************************************************************************)
EXTENDS ModbusMaster, TLAPS

(***************************************************************************)
(* The inductive invariant.                                                *)
(***************************************************************************)
States == {"queue", "silence", "tx", "sent", "arm", "answer", "got", "late"}

\* The reader waits while its query is in work, without a result so far.
Paired ==
  /\ waiting <=> pc # "queue"
  /\ pc = "queue" => query = None
  /\ waiting => result = "none"

\* The transmission uses up what is pending, and nothing comes after it but
\* what ends a wait.
NoteAgrees == pc \notin {"queue", "silence"} => ~note

Typed == TypeOK /\ Paired /\ NoteAgrees

\* All pieces of a sequence belong to the query in work.
Own(s) == \A i \in 1 .. Len(s) : s[i][1] = query
OwnOnly == tidy => Own(air) /\ Own(ring)

IInv == Typed /\ Watched /\ OwnOnly

(***************************************************************************)
(* The queue of the timer task.                                            *)
(***************************************************************************)

\* What is posted keeps within the queue, which other ports share.
LEMMA PostedTyped ==
  ASSUME NEW q \in Seq(Commands), Len(q) <= QueueLen, NEW c \in Commands, others \in Nat
  PROVE  Posted(q, c) \in Seq(Commands) /\ Len(Posted(q, c)) <= QueueLen
BY MasterAssumption DEF Posted, Full

LEMMA TailTyped ==
  ASSUME NEW q \in Seq(Commands), q # <<>>, Len(q) <= QueueLen
  PROVE  Tail(q) \in Seq(Commands) /\ Len(Tail(q)) <= QueueLen
<1>1. Tail(q) \in Seq(Commands) /\ Len(Tail(q)) = Len(q) - 1
  OBVIOUS
<1>2. Len(q) \in Nat /\ QueueLen \in Nat
  BY MasterAssumption
<1> QED BY <1>1, <1>2

\* The last of the commands that start or stop the timeout decides.
Deciding(q) == {i \in 1 .. Len(q) : q[i] \in {"timeout", "stop"}}
Decides(q, t) ==
  \/ Deciding(q) = {} /\ t
  \/ \E i \in Deciding(q) : q[i] = "timeout" /\ \A j \in Deciding(q) : j <= i

LEMMA Runs == TimeoutRuns <=> Decides(cmds, timeout)
BY DEF TimeoutRuns, Decides, Deciding

LEMMA RunsNext == TimeoutRuns' <=> Decides(cmds', timeout')
BY DEF TimeoutRuns, Decides, Deciding

\* A T35 command leaves the timeout alone.
LEMMA DecidesAfterT35 ==
  ASSUME NEW q \in Seq(Commands), NEW t \in BOOLEAN, Decides(q, t)
  PROVE  Decides(Posted(q, "t35"), t)
<1>1. CASE Full(q)
  BY <1>1 DEF Posted
<1>2. CASE ~Full(q)
  <2> DEFINE r == Append(q, "t35")
  <2>1. Posted(q, "t35") = r
    BY <1>2 DEF Posted
  <2>2. Len(r) = Len(q) + 1 /\ r[Len(q) + 1] = "t35" /\ \A i \in 1 .. Len(q) : r[i] = q[i]
    OBVIOUS
  <2> HIDE DEF r
  <2>3. Deciding(r) = Deciding(q) /\ \A i \in Deciding(q) : r[i] = q[i]
    BY <2>2 DEF Deciding
  <2>4. Decides(r, t)
    BY <2>3 DEF Decides
  <2> QED BY <2>1, <2>4
<1> QED BY <1>1, <1>2

\* A start that finds room is the last command.
LEMMA DecidesAfterStart ==
  ASSUME NEW q \in Seq(Commands), NEW t \in BOOLEAN, ~Full(q)
  PROVE  Decides(Posted(q, "timeout"), t)
<1> DEFINE r == Append(q, "timeout")
<1>1. Posted(q, "timeout") = r
  BY DEF Posted
<1>2. Len(r) = Len(q) + 1 /\ r[Len(q) + 1] = "timeout" /\ Len(q) \in Nat
  OBVIOUS
<1> HIDE DEF r
<1>3. Decides(r, t)
  BY <1>2 DEF Decides, Deciding
<1> QED BY <1>1, <1>3

\* The task takes a command from the front: the others decide as before,
\* after a start or a T35 command.
LEMMA DecidesAfterTail ==
  ASSUME NEW q \in Seq(Commands), q # <<>>, NEW t \in BOOLEAN, NEW u \in BOOLEAN, Decides(q, t),
         Head(q) = "t35" => u = t, Head(q) = "timeout" => u
  PROVE  Decides(Tail(q), u)
<1> DEFINE r == Tail(q)
<1>1. Len(q) \in Nat /\ Len(q) >= 1 /\ Len(r) = Len(q) - 1 /\ \A i \in 1 .. Len(r) : r[i] = q[i + 1]
  OBVIOUS
<1>2. Head(q) = q[1] /\ q[1] \in Commands
  OBVIOUS
<1> SUFFICES Decides(r, u)
  OBVIOUS
<1> HIDE DEF r
<1>3. \A i \in Deciding(r) : i \in Nat /\ i >= 1 /\ i + 1 \in Deciding(q) /\ q[i + 1] = r[i]
  BY <1>1 DEF Deciding
<1>4. \A i \in Deciding(q) : i \in Nat /\ (i = 1 \/ (i - 1 \in Deciding(r) /\ r[i - 1] = q[i]))
  BY <1>1 DEF Deciding
<1>5. CASE Deciding(r) = {}
  <2>1. \A i \in Deciding(q) : i = 1
    BY <1>4, <1>5
  <2>2. CASE \E i \in Deciding(q) : q[i] = "timeout"
    BY <1>2, <2>1, <2>2, <1>5 DEF Decides
  <2>3. CASE ~ \E i \in Deciding(q) : q[i] = "timeout"
    <3>1. Deciding(q) = {} /\ t
      BY <2>3 DEF Decides
    <3>2. Head(q) = "t35"
      BY <1>1, <1>2, <3>1 DEF Commands, Deciding
    <3> QED BY <1>5, <3>1, <3>2 DEF Decides
  <2> QED BY <2>2, <2>3
<1>6. CASE Deciding(r) # {}
  <2>1. PICK k \in Deciding(r) : TRUE
    BY <1>6
  <2>2. k + 1 \in Deciding(q)
    BY <1>3, <2>1
  <2>3. PICK i \in Deciding(q) : q[i] = "timeout" /\ \A j \in Deciding(q) : j <= i
    BY <2>2 DEF Decides
  <2>4. i # 1
    BY <1>3, <2>1, <2>2, <2>3
  <2>5. i - 1 \in Deciding(r) /\ r[i - 1] = "timeout"
    BY <1>4, <2>3, <2>4
  <2>6. \A j \in Deciding(r) : j <= i - 1
    BY <1>3, <1>4, <2>3
  <2> QED BY <2>5, <2>6 DEF Decides
<1> QED BY <1>5, <1>6

(***************************************************************************)
(* The parts of the invariant.                                             *)
(***************************************************************************)

\* What the slave answers are pieces of the query.
LEMMA AnswersOwn ==
  ASSUME NEW q \in Queries \cup {None}, NEW s \in Answers(q)
  PROVE  s \in Seq(Pieces) /\ \A i \in 1 .. Len(s) : s[i][1] = q
<1>1. CASE q = None
  BY <1>1 DEF Answers
<1>2. CASE q # None
  <2>1. /\ First(q) \in Pieces /\ First(q)[1] = q
        /\ Rest(q) \in Pieces /\ Rest(q)[1] = q
        /\ Exception(q) \in Pieces /\ Exception(q)[1] = q
        /\ Noise(q) \in Pieces /\ Noise(q)[1] = q
    BY <1>2 DEF Pieces, First, Rest, Exception, Noise
  <2>2. \/ s = <<First(q), Rest(q)>>
        \/ s = <<Noise(q), First(q), Rest(q)>>
        \/ s = <<Exception(q)>>
    BY <1>2 DEF Answers
  <2>3. CASE s = <<First(q), Rest(q)>>
    BY <2>1, <2>3
  <2>4. CASE s = <<Noise(q), First(q), Rest(q)>>
    BY <2>1, <2>4
  <2>5. CASE s = <<Exception(q)>>
    BY <2>1, <2>5
  <2> QED BY <2>2, <2>3, <2>4, <2>5
<1> QED BY <1>1, <1>2

\* What the receiver stores fits in the ring and belongs to the same queries.
LEMMA AddedTyped ==
  ASSUME Typed, NEW p \in Pieces, NEW s \in Added(p)
  PROVE  /\ s \in Seq(Pieces) /\ Len(s) < MaxBuffer
         /\ p[1] = query /\ Own(ring) => Own(s)
<1> USE MasterAssumption DEF Typed, TypeOK, Own
<1>1. CASE s = Append(ring, p) /\ Len(ring) + 1 < MaxBuffer
  BY <1>1
<1>2. CASE s = <<>>
  BY <1>2
<1>3. CASE s = <<Noise(p[1])>> /\ Len(ring) + 1 >= MinBuffer
  <2>1. Noise(p[1]) \in Pieces /\ Noise(p[1])[1] = p[1]
    BY DEF Noise, Pieces
  <2>2. Len(s) = 1 /\ s[1] = Noise(p[1])
    BY <1>3
  <2>3. 1 < MaxBuffer
    OBVIOUS
  <2> QED BY <1>3, <2>1, <2>2, <2>3
<1> QED BY <1>1, <1>2, <1>3 DEF Added

\* A step keeps the types.
LEMMA TypeKept ==
  ASSUME Typed, [Next]_vars
  PROVE  TypeOK'
<1> USE DEF Typed, TypeOK, timerVars, queueVars, rxVars
<1>0. others \in Nat /\ MaxOthers \in Nat
  BY MasterAssumption
<1>1. CASE ModbusQuery
  BY <1>1 DEF ModbusQuery
<1>2. CASE Transmit
  BY <1>2 DEF Transmit, NoteTaken
<1>3. CASE TxComplete
  BY <1>3 DEF TxComplete
<1>4. CASE Sent
  <2>1. PICK answer \in Answers(query) : air' = air \o answer
    BY <1>4 DEF Sent
  <2>2. air' \in Seq(Pieces)
    BY <2>1, AnswersOwn
  <2> QED BY <1>4, <2>2 DEF Sent
<1>5. CASE AwaitAnswer
  <2>1. cmds' \in Seq(Commands) /\ Len(cmds') <= QueueLen
    BY <1>0, <1>5, PostedTyped DEF AwaitAnswer, Arm, Commands
  <2>2. unarmed' \in BOOLEAN
    BY <1>5 DEF AwaitAnswer, Full
  <2> QED BY <1>5, <2>1, <2>2 DEF AwaitAnswer
<1>6. CASE TimedOut
  BY <1>6 DEF TimedOut, Notify
<1>7. CASE Answered
  <2>1. ring' = <<>> /\ receiving' = TRUE /\ tidy' = (air = <<>>)
    BY <1>7 DEF Answered, AfterGet
  <2>2. cmds' \in Seq(Commands) /\ Len(cmds') <= QueueLen
    BY <1>0, <1>7, PostedTyped DEF Answered, Commands
  <2>3. waiting' = FALSE /\ pc' = "queue" /\ query' = None
    BY <1>7 DEF Answered, Notify, BadSize
  <2>4. ring' \in Seq(Pieces) /\ Len(ring') < MaxBuffer
    BY <2>1, MasterAssumption
  <2> QED BY <1>7, <2>1, <2>2, <2>3, <2>4 DEF Answered
<1>8. CASE Arrive
  <2>1. Head(air) \in Pieces /\ Tail(air) \in Seq(Pieces)
    BY <1>8 DEF Arrive
  <2>2. PICK overrun \in BOOLEAN : TakeIn(Head(air), overrun)
    BY <1>8 DEF Arrive
  <2>3. ring' \in Seq(Pieces) /\ Len(ring') < MaxBuffer
    BY <2>1, <2>2, AddedTyped DEF TakeIn
  <2>4. cmds' \in Seq(Commands) /\ Len(cmds') <= QueueLen
    BY <1>0, <2>2, PostedTyped DEF TakeIn, Commands
  <2> QED BY <1>8, <2>1, <2>2, <2>3, <2>4 DEF Arrive, TakeIn
<1>9. CASE Interfere
  BY <1>0, <1>9 DEF Interfere
<1>10. CASE Lose
  BY <1>10 DEF Lose
<1>11. CASE T35Expires
  <2>2. Posted(cmds, "stop") \in Seq(Commands) /\ Len(Posted(cmds, "stop")) <= QueueLen
    BY <1>0, PostedTyped DEF Commands
  <2>1. cmds' \in Seq(Commands) /\ Len(cmds') <= QueueLen
    BY <1>11, <2>2 DEF T35Expires, T35Callback
  <2> QED BY <1>11, <2>1 DEF T35Expires, T35Callback, Wake, GoesOn
<1>12. CASE TimeoutExpires
  BY <1>12 DEF TimeoutExpires, TimeoutCallback, Wake, GoesOn
<1>13. CASE Process
  <2>0. cmds # <<>>
    BY <1>13 DEF Process
  <2>1. Tail(cmds) \in Seq(Commands) /\ Len(Tail(cmds)) <= QueueLen
    BY <2>0, MasterAssumption, TailTyped
  <2>2. Posted(Tail(cmds), "stop") \in Seq(Commands) /\ Len(Posted(Tail(cmds), "stop")) <= QueueLen
    BY <1>0, <2>1, PostedTyped DEF Commands
  <2>3. cmds' = Tail(cmds) \/ cmds' = Posted(Tail(cmds), "stop")
    BY <1>13 DEF Process, T35Callback
  <2>4. cmds' \in Seq(Commands) /\ Len(cmds') <= QueueLen
    BY <2>1, <2>2, <2>3
  <2>5. pc' \in States
    BY <1>13 DEF Process, T35Callback, TimeoutCallback, Wake, States
  <2>6. note' \in BOOLEAN /\ t35' \in BOOLEAN /\ timeout' \in BOOLEAN
    BY <1>13 DEF Process, T35Callback, TimeoutCallback
  <2>7. drained' \in BOOLEAN
    BY <1>13 DEF Process, GoesOn
  <2> QED BY <1>13, <2>4, <2>5, <2>6, <2>7 DEF Process, States
<1>14. CASE ProcessOther
  BY <1>0, <1>14 DEF ProcessOther
<1>15. CASE UNCHANGED vars
  <2>1. UNCHANGED <<waiting, pc, query, note, t35, timeout, drained>>
    BY <1>15 DEF vars
  <2>2. UNCHANGED <<cmds, others, ring, receiving, air, unarmed, tidy>>
    BY <1>15 DEF vars
  <2> QED BY <2>1, <2>2
<1> QED BY <1>1, <1>2, <1>3, <1>4, <1>5, <1>6, <1>7, <1>8, <1>9, <1>10, <1>11, <1>12, <1>13, <1>14, <1>15
        DEF Next, Master, TimerTask

\* A step keeps the reader with the master, and the pending value within bounds.
LEMMA PairedKept ==
  ASSUME Typed, [Next]_vars
  PROVE  Paired' /\ NoteAgrees'
<1> USE DEF Typed, TypeOK, Paired, NoteAgrees, timerVars, queueVars, rxVars
<1>1. CASE ModbusQuery
  BY <1>1 DEF ModbusQuery
<1>2. CASE Transmit \/ TxComplete \/ Sent \/ AwaitAnswer
  BY <1>2 DEF Transmit, TxComplete, Sent, AwaitAnswer, NoteTaken
<1>3. CASE TimedOut \/ Answered
  BY <1>3 DEF TimedOut, Answered, Notify, BadSize
<1>4. CASE Arrive \/ Interfere \/ Lose \/ ProcessOther
  BY <1>4 DEF Arrive, TakeIn, Interfere, Lose, ProcessOther
<1>5. CASE T35Expires
  BY <1>5 DEF T35Expires, T35Callback, Wake, Blocked
<1>6. CASE TimeoutExpires
  BY <1>6 DEF TimeoutExpires, TimeoutCallback, Wake, Blocked
<1>7. CASE Process
  BY <1>7 DEF Process, T35Callback, TimeoutCallback, Wake, Blocked
<1>8. CASE UNCHANGED vars
  BY <1>8 DEF vars
<1> QED BY <1>1, <1>2, <1>3, <1>4, <1>5, <1>6, <1>7, <1>8 DEF Next, Master, TimerTask

\* A step keeps the timeout running, or about to, while an answer is awaited.
LEMMA WatchedKept ==
  ASSUME Typed, Watched, [Next]_vars
  PROVE  Watched'
<1> USE DEF Typed, TypeOK, timerVars, queueVars, rxVars
<1> SUFFICES ASSUME pc' = "answer", ~unarmed'
             PROVE  Decides(cmds', timeout')
  BY RunsNext DEF Watched
<1>0. pc = "answer" /\ ~unarmed => Decides(cmds, timeout)
  BY Runs DEF Watched
<1>1. CASE AwaitAnswer
  BY <1>1, DecidesAfterStart DEF AwaitAnswer, Arm
<1>2. CASE Arrive
  <2>1. pc = "answer" /\ ~unarmed /\ timeout' = timeout /\ cmds' = Posted(cmds, "t35")
    BY <1>2 DEF Arrive, TakeIn
  <2>2. Decides(Posted(cmds, "t35"), timeout)
    BY <1>0, <2>1, DecidesAfterT35
  <2> QED BY <2>1, <2>2
<1>3. CASE Process
  <2>1. pc = "answer" /\ ~unarmed
    BY <1>3 DEF Process, Wake, T35Callback, TimeoutCallback
  <2>2. cmds' = Tail(cmds) /\ cmds # <<>>
    BY <1>3, <2>1 DEF Process, Wake, T35Callback
  <2>3. Head(cmds) = "t35" => timeout' = timeout
    BY <1>3 DEF Process
  <2>4. Head(cmds) = "timeout" => timeout'
    BY <1>3, <2>1 DEF Process, Wake, TimeoutCallback
  <2>5. timeout' \in BOOLEAN
    BY <1>3 DEF Process
  <2>6. Decides(Tail(cmds), timeout')
    BY <1>0, <2>1, <2>2, <2>3, <2>4, <2>5, DecidesAfterTail
  <2> QED BY <2>2, <2>6
<1>4. CASE Interfere \/ Lose \/ ProcessOther \/ UNCHANGED vars
  BY <1>0, <1>4 DEF Interfere, Lose, ProcessOther, vars
<1>5. ASSUME ModbusQuery \/ Transmit \/ TxComplete \/ Sent \/ TimedOut \/ Answered PROVE FALSE
  BY <1>5 DEF ModbusQuery, Transmit, TxComplete, Sent, TimedOut, Answered, Notify, BadSize
<1>6. ASSUME T35Expires \/ TimeoutExpires PROVE FALSE
  BY <1>6 DEF T35Expires, T35Callback, TimeoutExpires, TimeoutCallback, Wake
<1> QED BY <1>1, <1>2, <1>3, <1>4, <1>5, <1>6 DEF Next, Master, TimerTask

\* After a query that left nothing behind there are only pieces of the next.
LEMMA OwnKept ==
  ASSUME Typed, OwnOnly, [Next]_vars
  PROVE  OwnOnly'
<1> USE DEF Typed, TypeOK, timerVars, queueVars, rxVars
<1>1. CASE ModbusQuery
  <2> SUFFICES ASSUME tidy' PROVE Own(air)' /\ Own(ring)'
    BY DEF OwnOnly
  <2>1. pc = "queue" /\ query = None /\ tidy
    BY <1>1 DEF ModbusQuery, Paired
  <2>2. \A i \in 1 .. Len(air) : air[i] \in Pieces /\ air[i][1] = None
    BY <2>1 DEF OwnOnly, Own
  <2>3. \A i \in 1 .. Len(ring) : ring[i] \in Pieces /\ ring[i][1] = None
    BY <2>1 DEF OwnOnly, Own
  <2>4. \A p \in Pieces : p[1] # None
    BY MasterAssumption DEF Pieces, None
  <2>5. Len(air) = 0 /\ Len(ring) = 0
    BY <2>2, <2>3, <2>4
  <2> QED BY <1>1, <2>5 DEF ModbusQuery, Own
<1>2. CASE Sent
  <2>1. PICK answer \in Answers(query) : air' = air \o answer
    BY <1>2 DEF Sent
  <2>2. answer \in Seq(Pieces) /\ \A i \in 1 .. Len(answer) : answer[i][1] = query
    BY <2>1, AnswersOwn
  <2>3. Own(air) => \A i \in 1 .. Len(air') : air'[i][1] = query
    BY <2>1, <2>2 DEF Own
  <2> QED BY <1>2, <2>3 DEF Sent, OwnOnly, Own
<1>3. CASE TimedOut
  BY <1>3 DEF TimedOut, OwnOnly
<1>4. CASE Answered
  <2>1. ring' = <<>> /\ air' = air /\ (tidy' => air = <<>>)
    BY <1>4 DEF Answered, AfterGet
  <2>2. tidy' => Len(air') = 0 /\ Len(ring') = 0
    BY <2>1
  <2> QED BY <2>2 DEF OwnOnly, Own
<1>5. CASE Arrive
  <2> SUFFICES ASSUME tidy PROVE Own(air)' /\ Own(ring)'
    BY <1>5 DEF Arrive, OwnOnly
  <2>1. Own(air) /\ Own(ring) /\ air # <<>>
    BY <1>5 DEF Arrive, OwnOnly
  <2>2. Head(air) \in Pieces /\ Head(air)[1] = query
    BY <2>1 DEF Own
  <2>3. ring' \in Added(Head(air))
    BY <1>5 DEF Arrive, TakeIn
  <2>4. Own(ring')
    BY <2>1, <2>2, <2>3, AddedTyped
  <2>5. \A i \in 1 .. Len(Tail(air)) : Tail(air)[i][1] = query
    BY <2>1 DEF Own
  <2>6. air' = Tail(air) /\ query' = query
    BY <1>5 DEF Arrive
  <2> QED BY <2>4, <2>5, <2>6 DEF Own
<1>6. CASE Lose
  <2>1. Own(air) => \A i \in 1 .. Len(Tail(air)) : Tail(air)[i][1] = query
    BY <1>6 DEF Lose, Own
  <2> QED BY <1>6, <2>1 DEF Lose, OwnOnly, Own
<1>7. CASE Transmit \/ TxComplete \/ AwaitAnswer \/ Interfere \/ ProcessOther \/ UNCHANGED vars
  BY <1>7 DEF Transmit, TxComplete, AwaitAnswer, Interfere, ProcessOther, vars, OwnOnly, Own
<1>8. CASE T35Expires \/ TimeoutExpires \/ Process
  BY <1>8 DEF T35Expires, TimeoutExpires, Process, OwnOnly, Own
<1> QED BY <1>1, <1>2, <1>3, <1>4, <1>5, <1>6, <1>7, <1>8 DEF Next, Master, TimerTask

(***************************************************************************)
(* The theorems.                                                           *)
(***************************************************************************)

\* The invariant holds in every state of every behaviour.
THEOREM Inductive == Spec => []IInv
<1>1. ASSUME Init PROVE IInv
  <2>1. TypeOK
    <3>1. cmds \in Seq(Commands) /\ Len(cmds) = 0
      BY <1>1 DEF Init
    <3>2. ring \in Seq(Pieces) /\ Len(ring) = 0 /\ air \in Seq(Pieces)
      BY <1>1 DEF Init
    <3>3. 0 \in 0 .. MaxOthers /\ 0 <= QueueLen /\ 0 < MaxBuffer
      BY MasterAssumption
    <3>4. others = 0
      BY <1>1 DEF Init
    <3> QED BY <1>1, <3>1, <3>2, <3>3, <3>4 DEF Init, TypeOK
  <2>2. Paired /\ NoteAgrees /\ Watched
    BY <1>1 DEF Init, Paired, NoteAgrees, Watched
  <2>3. OwnOnly
    BY <1>1 DEF Init, OwnOnly, Own
  <2> QED BY <2>1, <2>2, <2>3 DEF IInv, Typed
<1>2. IInv /\ [Next]_vars => IInv'
  BY TypeKept, PairedKept, WatchedKept, OwnKept DEF IInv, Typed
<1> QED BY <1>1, <1>2, PTL DEF Spec

\* Type correctness: the ring wraps below its size and the timer queue keeps
\* its length (RingAdd, configTIMER_QUEUE_LENGTH).
THEOREM TypeCorrect == Spec => []TypeOK
<1>1. IInv => TypeOK
  BY DEF IInv, Typed
<1> QED BY <1>1, Inductive, PTL

\* While an answer is awaited the timeout runs or is going to, unless its
\* start found the timer queue full (sendTxBuffer, vTimerCallbackT35).
THEOREM AlwaysWatched == Spec => []Watched
<1>1. IInv => Watched
  BY DEF IInv
<1> QED BY <1>1, Inductive, PTL

\* A query is never failed by the timeout of another (sendTxBuffer).
THEOREM OwnTimeouts == Spec => []OwnTimeout
<1>1. IInv => OwnTimeout
  BY DEF IInv, Typed, NoteAgrees, OwnTimeout
<1> QED BY <1>1, Inductive, PTL

\* No old answer is taken for a new one after a query that was answered and
\* left nothing under way (getRxBuffer).
THEOREM CorrectsItself == Spec => SelfCorrects
<1>1. ASSUME IInv, [Next]_vars, waiting, result' = "stale", tidy
      PROVE  UNCHANGED vars
  <2> USE DEF IInv, Typed, TypeOK, Paired
  <2>1. result = "none"
    BY <1>1
  <2>2. ~ Answered
    <3>1. \A i \in Frames(ring) : ring[i][1] = query
      BY <1>1 DEF OwnOnly, Own, Frames
    <3>2. Verdict(ring) # "stale"
      BY <3>1 DEF Verdict
    <3> QED BY <1>1, <3>2 DEF Answered, Notify, BadSize
  <2>3. ~ (ModbusQuery \/ TimedOut)
    BY <1>1 DEF ModbusQuery, TimedOut, Notify
  <2>4. ~ (Transmit \/ TxComplete \/ Sent \/ AwaitAnswer \/ Arrive \/ Interfere \/ Lose)
    BY <1>1, <2>1 DEF Transmit, TxComplete, Sent, AwaitAnswer, Arrive, Interfere, Lose
  <2>5. ~ TimerTask
    BY <1>1, <2>1 DEF TimerTask, T35Expires, TimeoutExpires, Process, ProcessOther
  <2> QED BY <1>1, <2>2, <2>3, <2>4, <2>5 DEF Next, Master
<1>2. IInv /\ [Next]_vars => [waiting /\ result' = "stale" => ~tidy]_vars
  BY <1>1
<1> QED BY <1>2, Inductive, PTL DEF Spec, SelfCorrects
===============================================================================
