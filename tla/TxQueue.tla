------------------------------- MODULE TxQueue -------------------------------
(***************************************************************************)
(* What a user of the UART transmit path may expect of it: a queue.  Bytes *)
(* leave in the order in which they were accepted, each once.  A DMA error *)
(* loses the bytes it interrupts, and until the port is mended again later *)
(* bytes may overtake the ones that the error left waiting.                *)
(***************************************************************************)
EXTENDS Integers, Sequences

CONSTANTS Units, Nothing

VARIABLES
  queue,   \* the bytes accepted and not yet sent
  line,    \* the byte sent last
  broken   \* an error happened, and the port is not mended

Init == queue = <<>> /\ line = Nothing /\ broken = FALSE

Before(s, t) == Len(s) <= Len(t) /\ SubSeq(t, 1, Len(s)) = s
After(s, t)  == Len(s) <= Len(t) /\ SubSeq(t, Len(t) - Len(s) + 1, Len(t)) = s

\* Bytes are accepted, or none and the port is mended.
Put ==
  /\ queue' \in Seq(Units)
  /\ Before(queue, queue') \/ (broken /\ After(queue, queue'))
  /\ broken' => broken
  /\ UNCHANGED line

Emit ==
  /\ queue # <<>> /\ line' = Head(queue) /\ queue' = Tail(queue)
  /\ broken' => broken

Lose ==
  /\ After(queue', queue) /\ queue' # queue
  /\ broken' = TRUE
  /\ UNCHANGED line

Next == Put \/ Emit \/ Lose

Spec == Init /\ [][Next]_<<queue, line, broken>>
==============================================================================
