----------------------------- MODULE UartTxProofs -----------------------------
(***************************************************************************)
(* Safety of UartTx for every size of the DMA buffer and of the fifo and   *)
(* every set of messages: types with any number of tasks; with the         *)
(* interrupt as only writer, also that the path is a queue (TxQueue).      *)
(***************************************************************************)
EXTENDS UartTx, SequenceTheorems, TLAPS

(***************************************************************************)
(* The invariant that holds with any number of writers.                    *)
(***************************************************************************)

\* What a call takes of its message fits in it, and in the buffer when it has
\* been copied.
Fits(w) ==
  /\ direct[w] <= Len(msg[w])
  /\ pc[w] \in {"idle", "check", "clear", "split"} => direct[w] = 0
  /\ pc[w] \in {"copy", "flag", "start"} => direct[w] > 0
  /\ pc[w] \in {"flag", "start"} => direct[w] <= Len(send_buffer)

IInv == TypeOK /\ \A w \in Writers : Fits(w)

(***************************************************************************)
(* Sequences.                                                              *)
(***************************************************************************)

\* The first n units of one sequence over the others of another.
LEMMA Overwritten ==
  ASSUME NEW S, NEW s \in Seq(S), NEW t \in Seq(S), NEW n \in 0 .. Len(s)
  PROVE  LET r == SubSeq(s, 1, n) \o SubSeq(t, n + 1, Len(t)) IN
         /\ r \in Seq(S)
         /\ Len(r) = IF n <= Len(t) THEN Len(t) ELSE n
         /\ \A k \in 1 .. n : r[k] = s[k]
<1> DEFINE a == SubSeq(s, 1, n)
           b == SubSeq(t, n + 1, Len(t))
<1>1. a \in Seq(S) /\ Len(a) = n /\ \A k \in 1 .. n : a[k] = s[k]
  <2>1. \A k \in 1 .. n : s[k] \in S
    OBVIOUS
  <2> QED BY <2>1, SubSeqProperties
<1>2. b \in Seq(S) /\ Len(b) = IF n <= Len(t) THEN Len(t) - n ELSE 0
  <2>1. n + 1 \in Int /\ Len(t) \in Int /\ \A k \in n + 1 .. Len(t) : t[k] \in S
    OBVIOUS
  <2>2. b \in Seq(S) /\ Len(b) = IF n + 1 <= Len(t) THEN Len(t) - (n + 1) + 1 ELSE 0
    BY <2>1, SubSeqProperties
  <2> QED BY <2>1, <2>2
<1> HIDE DEF a, b
<1>3. /\ a \o b \in Seq(S) /\ Len(a \o b) = Len(a) + Len(b)
      /\ \A k \in 1 .. Len(a) + Len(b) : (a \o b)[k] = IF k <= Len(a) THEN a[k] ELSE b[k - Len(a)]
  BY <1>1, <1>2, ConcatProperties
<1>4. Len(t) \in Nat /\ n \in Nat
  OBVIOUS
<1>5. Len(a \o b) = IF n <= Len(t) THEN Len(t) ELSE n
  BY <1>1, <1>2, <1>3, <1>4
<1>6. \A k \in 1 .. n : (a \o b)[k] = s[k]
  BY <1>1, <1>2, <1>3, <1>4
<1> QED BY <1>3, <1>5, <1>6 DEF a, b

\* Units m to n of a sequence.
LEMMA Cut ==
  ASSUME NEW S, NEW s \in Seq(S), NEW m \in Nat \ {0}, NEW n \in Nat, n <= Len(s)
  PROVE  LET r == SubSeq(s, m, n) IN
         /\ r \in Seq(S)
         /\ Len(r) = IF m <= n THEN n - m + 1 ELSE 0
         /\ \A k \in 1 .. n - m + 1 : r[k] = s[m + k - 1]
<1>1. \A k \in m .. n : s[k] \in S
  OBVIOUS
<1> QED BY <1>1, SubSeqProperties

(***************************************************************************)
(* Type correctness, with any number of writers.                           *)
(***************************************************************************)
LEMMA IsrIsWriter == Isr \in Writers /\ Writers \subseteq Nat
BY UartTxAssumption DEF Isr, Writers

\* The messages are sequences of units.
LEMMA MessageTyped ==
  ASSUME NEW id \in Ids, NEW n \in Lens
  PROVE  /\ Message(id, n) \in Seq(Units) /\ Len(Message(id, n)) = n
         /\ \A k \in 1 .. n : Message(id, n)[k] = <<id, k>>
<1>1. n \in Nat /\ \A k \in 1 .. n : <<id, k>> \in Units
  BY UartTxAssumption DEF Units
<1> QED BY <1>1 DEF Message

\* n units after the first m of a sequence.
LEMMA Slice ==
  ASSUME NEW S, NEW s \in Seq(S), NEW m \in Nat, NEW n \in Nat, m + n <= Len(s)
  PROVE  LET r == SubSeq(s, m + 1, m + n) IN
         /\ r \in Seq(S) /\ Len(r) = n
         /\ \A k \in 1 .. n : r[k] = s[m + k]
<1> DEFINE a == m + 1
           b == m + n
           r == SubSeq(s, a, b)
<1>1. a \in Nat \ {0} /\ b \in Nat /\ b <= Len(s) /\ b - a + 1 = n
  OBVIOUS
<1>2. \A k \in 1 .. n : a + k - 1 = m + k
  OBVIOUS
<1>3. n = 0 => ~(a <= b)
  OBVIOUS
<1>4. n > 0 => a <= b
  OBVIOUS
<1> HIDE DEF a, b
<1>5. /\ r \in Seq(S) /\ Len(r) = IF a <= b THEN b - a + 1 ELSE 0
      /\ \A k \in 1 .. b - a + 1 : r[k] = s[a + k - 1]
  BY <1>1, Cut
<1> HIDE DEF r
<1>6. Len(r) = n
  BY <1>1, <1>3, <1>4, <1>5
<1>7. \A k \in 1 .. n : r[k] = s[m + k]
  BY <1>1, <1>2, <1>5
<1> QED BY <1>5, <1>6, <1>7 DEF a, b, r

\* What the fifo takes.
LEMMA PartTyped ==
  ASSUME IInv, NEW w \in Writers
  PROVE  /\ FifoPart(w) \in Seq(Units)
         /\ Accepted(w) \in Nat /\ Len(FifoPart(w)) = Accepted(w)
         /\ Len(send_fifo) + Accepted(w) <= FifoSize
         /\ direct[w] + Accepted(w) <= Len(msg[w])
         /\ \A k \in 1 .. Accepted(w) : FifoPart(w)[k] = msg[w][direct[w] + k]
<1>1. /\ msg[w] \in Seq(Units) /\ Len(msg[w]) \in Nat /\ direct[w] \in Nat /\ direct[w] <= Len(msg[w])
      /\ Len(send_fifo) \in Nat /\ Len(send_fifo) <= FifoSize /\ FifoSize \in Nat
  BY UartTxAssumption DEF IInv, TypeOK, Fits
<1>2. /\ Accepted(w) \in Nat /\ Len(send_fifo) + Accepted(w) <= FifoSize
      /\ direct[w] + Accepted(w) <= Len(msg[w])
  BY <1>1 DEF Accepted, FifoLen, Least
<1> DEFINE s == msg[w]
           m == direct[w]
           n == Accepted(w)
           r == SubSeq(s, m + 1, m + n)
<1>3. s \in Seq(Units) /\ m \in Nat /\ n \in Nat /\ m + n <= Len(s)
  BY <1>1, <1>2
<1> HIDE DEF s, m, n
<1>4. r \in Seq(Units) /\ Len(r) = n /\ \A k \in 1 .. n : r[k] = s[m + k]
  BY <1>3, Slice
<1> HIDE DEF r
<1>5. FifoPart(w) = r
  BY DEF FifoPart, r, s, m, n
<1> QED BY <1>2, <1>4, <1>5 DEF s, m, n

\* The transfer that Complete starts.
LEMMA NextTransfer ==
  ASSUME TypeOK, NEW n, n = Least(Len(send_fifo), BufSize)
  PROVE  LET b == SubSeq(send_fifo, 1, n) \o SubSeq(send_buffer, n + 1, Len(send_buffer))
             f == SubSeq(send_fifo, n + 1, Len(send_fifo)) IN
         /\ n \in Nat /\ n <= Len(send_fifo) /\ (send_fifo # <<>> => n > 0)
         /\ b \in Seq(Units) /\ Len(b) <= BufSize /\ n <= Len(b) /\ Len(b) >= Len(send_buffer)
         /\ \A k \in 1 .. n : b[k] = send_fifo[k]
         /\ f \in Seq(Units) /\ Len(f) <= FifoSize
<1>1. /\ send_fifo \in Seq(Units) /\ send_buffer \in Seq(Units)
      /\ Len(send_fifo) \in Nat /\ Len(send_buffer) \in Nat
      /\ Len(send_fifo) <= FifoSize /\ Len(send_buffer) <= BufSize
      /\ BufSize \in Nat \ {0} /\ FifoSize \in Nat
  BY UartTxAssumption DEF TypeOK
<1>2. n \in 0 .. Len(send_fifo) /\ n <= BufSize /\ (send_fifo # <<>> => n > 0)
  <2>1. send_fifo # <<>> => Len(send_fifo) > 0
    BY <1>1, EmptySeq
  <2> QED BY <1>1, <2>1 DEF Least
<1> DEFINE b == SubSeq(send_fifo, 1, n) \o SubSeq(send_buffer, n + 1, Len(send_buffer))
           f == SubSeq(send_fifo, n + 1, Len(send_fifo))
<1>3. /\ b \in Seq(Units) /\ Len(b) = IF n <= Len(send_buffer) THEN Len(send_buffer) ELSE n
      /\ \A k \in 1 .. n : b[k] = send_fifo[k]
  BY <1>1, <1>2, Overwritten
<1>4. f \in Seq(Units) /\ Len(f) = IF n + 1 <= Len(send_fifo) THEN Len(send_fifo) - (n + 1) + 1 ELSE 0
  <2>1. n + 1 \in Nat \ {0}
    BY <1>2
  <2> QED BY <1>1, <2>1, Cut
<1> HIDE DEF b, f
<1>5. Len(b) <= BufSize /\ n <= Len(b) /\ Len(b) >= Len(send_buffer) /\ Len(f) <= FifoSize
  BY <1>1, <1>2, <1>3, <1>4
<1> QED BY <1>2, <1>3, <1>4, <1>5 DEF b, f

\* A call that returns has nothing left to fit.
LEMMA Returned ==
  ASSUME IInv, NEW w \in Writers, Return(w)
  PROVE  /\ pc' \in [Writers -> PcStates] /\ msg' \in [Writers -> Seq(Units)]
         /\ direct' \in [Writers -> 0 .. BufSize]
         /\ pc'[w] = "idle" /\ msg'[w] = <<>> /\ direct'[w] = 0
         /\ \A v \in Writers \ {w} : pc'[v] = pc[v] /\ msg'[v] = msg[v] /\ direct'[v] = direct[v]
<1>1. <<>> \in Seq(Units) /\ 0 \in 0 .. BufSize /\ "idle" \in PcStates
  BY UartTxAssumption, EmptySeq DEF PcStates
<1> QED BY <1>1 DEF IInv, TypeOK, Return, GoOn

\* What fitted still fits, as a call that is under way keeps its message and
\* the buffer does not shrink.
LEMMA StillFits ==
  ASSUME IInv, TypeOK', Len(send_buffer') >= Len(send_buffer),
         NEW v \in Writers, pc'[v] = pc[v], msg'[v] = msg[v], direct'[v] = direct[v]
  PROVE  Fits(v)'
BY DEF IInv, TypeOK, Fits

LEMMA ReturnedFits ==
  ASSUME NEW w \in Writers, pc'[w] = "idle", msg'[w] = <<>>, direct'[w] = 0
  PROVE  Fits(w)'
BY DEF Fits

LEMMA Initially == Init => IInv
<1> SUFFICES ASSUME Init PROVE IInv
  OBVIOUS
<1>1. <<>> \in Seq(Units) /\ Len(<<>>) = 0
  BY EmptySeq
<1>2. "idle" \in PcStates /\ 0 \in 0 .. BufSize /\ FifoSize \in Nat /\ BufSize \in Nat
  BY UartTxAssumption DEF PcStates
<1>3. TypeOK
  <2>1. /\ pc \in [Writers -> PcStates] /\ msg \in [Writers -> Seq(Units)]
        /\ direct \in [Writers -> 0 .. BufSize]
    BY <1>1, <1>2 DEF Init
  <2>2. /\ is_sending \in BOOLEAN /\ gState \in {"ready", "dma", "printf"} /\ broken \in BOOLEAN
        /\ line \in Units \cup {Nothing}
    BY DEF Init
  <2>3. /\ send_buffer \in Seq(Units) /\ Len(send_buffer) = 0
        /\ send_fifo \in Seq(Units) /\ Len(send_fifo) = 0 /\ size = 0 /\ sent = 0
    BY <1>1 DEF Init
  <2>4. /\ Len(send_buffer) <= BufSize /\ Len(send_fifo) <= FifoSize
        /\ size \in 0 .. Len(send_buffer) /\ sent \in 0 .. size
    BY <1>2, <2>3
  <2> QED BY <2>1, <2>2, <2>3, <2>4 DEF TypeOK
<1>4. \A w \in Writers : Fits(w)
  BY <1>1 DEF Init, Fits
<1> QED BY <1>3, <1>4 DEF IInv

LEMMA BeginKeeps ==
  ASSUME IInv, NEW w \in Writers, Begin(w)
  PROVE  IInv'
<1>1. PICK id \in Ids, n \in Lens : msg' = [msg EXCEPT ![w] = Message(id, n)]
  BY DEF Begin
<1>2. Message(id, n) \in Seq(Units)
  BY MessageTyped
<1>4. pc' \in [Writers -> PcStates] /\ msg' \in [Writers -> Seq(Units)]
  BY <1>1, <1>2 DEF Begin, GoOn, IInv, TypeOK, PcStates
<1>5. TypeOK'
  BY <1>4 DEF Begin, dmaVars, IInv, TypeOK
<1>6. pc'[w] \in {"check", "split"} /\ msg'[w] = Message(id, n) /\ direct'[w] = 0
  BY <1>1 DEF Begin, GoOn, IInv, TypeOK, Fits
<1>7. Fits(w)'
  <2>1. Len(Message(id, n)) = n /\ n >= 0
    BY MessageTyped, UartTxAssumption
  <2> QED BY <1>6, <2>1 DEF Fits
<1>8. ASSUME NEW v \in Writers, v # w PROVE Fits(v)'
  <2>1. pc'[v] = pc[v] /\ msg'[v] = msg[v] /\ direct'[v] = direct[v]
    BY <1>1, <1>8 DEF Begin, GoOn, IInv, TypeOK
  <2>2. Len(send_buffer') >= Len(send_buffer)
    BY DEF Begin, dmaVars, IInv, TypeOK
  <2> QED BY <1>5, <2>1, <2>2, StillFits
<1> QED BY <1>5, <1>7, <1>8 DEF IInv

LEMMA FlagTestKeeps ==
  ASSUME IInv, NEW w \in Writers, Check(w) \/ Clear(w)
  PROVE  IInv'
<1>1. /\ pc' \in [Writers -> PcStates]
      /\ pc[w] \in {"check", "clear"} /\ pc'[w] \in {"clear", "split"}
      /\ \A v \in Writers \ {w} : pc'[v] = pc[v]
  BY DEF Check, Clear, GoOn, IInv, TypeOK, PcStates
<1>2. is_sending' \in BOOLEAN /\ broken' \in BOOLEAN
  BY DEF Check, Clear, StillBroken, IInv, TypeOK
<1>3. UNCHANGED <<msg, direct, gState, dmaVars, send_fifo, line>>
  BY DEF Check, Clear
<1>4. TypeOK'
  BY <1>1, <1>2, <1>3 DEF dmaVars, IInv, TypeOK
<1>5. Fits(w)'
  BY <1>1, <1>3 DEF Fits, IInv
<1>6. ASSUME NEW v \in Writers, v # w PROVE Fits(v)'
  BY <1>1, <1>3, <1>4, <1>6, StillFits DEF dmaVars, IInv, TypeOK
<1> QED BY <1>4, <1>5, <1>6 DEF IInv

LEMMA SplitKeeps ==
  ASSUME IInv, NEW w \in Writers, Split(w)
  PROVE  IInv'
<1> DEFINE d == DirectLen(Len(msg[w]))
<1>1. d \in 0 .. BufSize /\ d <= Len(msg[w])
  BY UartTxAssumption DEF DirectLen, Least, IInv, TypeOK
<1> HIDE DEF d
<1>2. direct' = [direct EXCEPT ![w] = d]
  BY DEF Split, d
<1>3. /\ direct' \in [Writers -> 0 .. BufSize] /\ direct'[w] = d
      /\ \A v \in Writers \ {w} : direct'[v] = direct[v]
  BY <1>1, <1>2 DEF IInv, TypeOK
<1>4. /\ pc' \in [Writers -> PcStates] /\ pc'[w] = IF d > 0 THEN "copy" ELSE "puts"
      /\ \A v \in Writers \ {w} : pc'[v] = pc[v]
  BY <1>3 DEF Split, GoOn, IInv, TypeOK, PcStates
<1>5. TypeOK'
  BY <1>3, <1>4 DEF Split, dmaVars, IInv, TypeOK
<1>6. Fits(w)'
  BY <1>1, <1>3, <1>4 DEF Split, Fits
<1>7. ASSUME NEW v \in Writers, v # w PROVE Fits(v)'
  BY <1>3, <1>4, <1>5, <1>7, StillFits DEF Split, dmaVars, IInv, TypeOK
<1> QED BY <1>5, <1>6, <1>7 DEF IInv

LEMMA CopyKeeps ==
  ASSUME IInv, NEW w \in Writers, Copy(w)
  PROVE  IInv'
<1> DEFINE s == msg[w]
           n == direct[w]
           r == SubSeq(s, 1, n) \o SubSeq(send_buffer, n + 1, Len(send_buffer))
<1>1. /\ s \in Seq(Units) /\ n \in 0 .. Len(s) /\ n \in 1 .. BufSize
      /\ send_buffer \in Seq(Units) /\ Len(send_buffer) \in Nat /\ Len(send_buffer) <= BufSize
  BY DEF Copy, IInv, TypeOK, Fits
<1> HIDE DEF s, n
<1>2. r \in Seq(Units) /\ Len(r) = IF n <= Len(send_buffer) THEN Len(send_buffer) ELSE n
  BY <1>1, Overwritten
<1> HIDE DEF r
<1>3. send_buffer' = r
  BY DEF Copy, r, s, n
<1>4. Len(r) <= BufSize /\ Len(r) >= Len(send_buffer) /\ n <= Len(r)
  BY <1>1, <1>2
<1>5. /\ pc' \in [Writers -> PcStates] /\ pc'[w] = "flag"
      /\ \A v \in Writers \ {w} : pc'[v] = pc[v]
  BY DEF Copy, GoOn, IInv, TypeOK, PcStates
<1>6. TypeOK'
  <2>1. size' \in 0 .. Len(send_buffer') /\ sent' \in 0 .. size'
    BY <1>1, <1>2, <1>3, <1>4 DEF Copy, IInv, TypeOK
  <2> QED BY <1>2, <1>3, <1>4, <1>5, <2>1 DEF Copy, IInv, TypeOK
<1>7. Fits(w)'
  <2>1. direct'[w] = n /\ msg'[w] = s
    BY DEF Copy, n, s
  <2> QED BY <1>1, <1>3, <1>4, <1>5, <2>1 DEF Fits
<1>8. ASSUME NEW v \in Writers, v # w PROVE Fits(v)'
  BY <1>3, <1>4, <1>5, <1>6, <1>8, StillFits DEF Copy
<1> QED BY <1>6, <1>7, <1>8 DEF IInv

LEMMA FlagKeeps ==
  ASSUME IInv, NEW w \in Writers, Flag(w)
  PROVE  IInv'
<1>1. /\ pc' \in [Writers -> PcStates] /\ pc'[w] = "start"
      /\ \A v \in Writers \ {w} : pc'[v] = pc[v]
  BY DEF Flag, GoOn, IInv, TypeOK, PcStates
<1>2. TypeOK'
  BY <1>1 DEF Flag, dmaVars, IInv, TypeOK
<1>3. Fits(w)'
  BY <1>1 DEF Flag, dmaVars, Fits, IInv
<1>4. ASSUME NEW v \in Writers, v # w PROVE Fits(v)'
  BY <1>1, <1>2, <1>4, StillFits DEF Flag, dmaVars, IInv, TypeOK
<1> QED BY <1>2, <1>3, <1>4 DEF IInv

LEMMA StartKeeps ==
  ASSUME IInv, NEW w \in Writers, Start(w)
  PROVE  IInv'
<1>1. broken' \in BOOLEAN
  BY DEF Start, StillBroken, IInv, TypeOK
<1>2. /\ gState' \in {"ready", "dma", "printf"} /\ is_sending' \in BOOLEAN
      /\ size' \in 0 .. Len(send_buffer') /\ sent' \in 0 .. size'
  <2>1. direct[w] \in Nat /\ direct[w] <= Len(send_buffer) /\ send_buffer' = send_buffer
    BY DEF Start, IInv, TypeOK, Fits
  <2>2. gState' \in {"ready", "dma", "printf"} /\ is_sending' \in BOOLEAN
    BY DEF Start, IInv, TypeOK
  <2>3. (size' = direct[w] /\ sent' = 0) \/ (size' = size /\ sent' = sent)
    BY DEF Start
  <2> QED BY <2>1, <2>2, <2>3 DEF IInv, TypeOK
<1>3. CASE Return(w)
  <2>1. TypeOK'
    BY <1>1, <1>2, <1>3, Returned DEF Start, IInv, TypeOK
  <2>2. Fits(w)'
    BY <1>3, Returned, ReturnedFits
  <2>3. ASSUME NEW v \in Writers, v # w PROVE Fits(v)'
    <3>1. pc'[v] = pc[v] /\ msg'[v] = msg[v] /\ direct'[v] = direct[v]
      BY <1>3, <2>3, Returned
    <3>2. Len(send_buffer') >= Len(send_buffer)
      BY DEF Start, IInv, TypeOK
    <3> QED BY <2>1, <3>1, <3>2, StillFits
  <2> QED BY <2>1, <2>2, <2>3 DEF IInv
<1>4. CASE GoOn(w, "puts") /\ UNCHANGED <<msg, direct>>
  <2>1. /\ pc' \in [Writers -> PcStates] /\ pc'[w] = "puts"
        /\ \A v \in Writers \ {w} : pc'[v] = pc[v]
    BY <1>4 DEF GoOn, IInv, TypeOK, PcStates
  <2>2. TypeOK'
    BY <1>1, <1>2, <1>4, <2>1 DEF Start, IInv, TypeOK
  <2>3. Fits(w)'
    BY <1>4, <2>1 DEF Fits, IInv
  <2>4. ASSUME NEW v \in Writers, v # w PROVE Fits(v)'
    BY <1>4, <2>1, <2>2, <2>4, StillFits DEF Start, IInv, TypeOK
  <2> QED BY <2>2, <2>3, <2>4 DEF IInv
<1> QED BY <1>3, <1>4 DEF Start

LEMMA PutsKeeps ==
  ASSUME IInv, NEW w \in Writers, Puts(w)
  PROVE  IInv'
<1>1. broken' \in BOOLEAN
  BY DEF Puts, StillBroken, IInv, TypeOK
<1>2. Return(w)
  BY DEF Puts
<1>3. send_fifo' \in Seq(Units) /\ Len(send_fifo') <= FifoSize
  <2>1. /\ send_fifo \in Seq(Units) /\ FifoPart(w) \in Seq(Units)
        /\ Len(send_fifo) + Len(FifoPart(w)) <= FifoSize
    BY PartTyped DEF IInv, TypeOK
  <2> QED BY <2>1, ConcatProperties DEF Puts
<1>4. TypeOK'
  BY <1>1, <1>2, <1>3, Returned DEF Puts, dmaVars, IInv, TypeOK
<1>5. Fits(w)'
  BY <1>2, Returned, ReturnedFits
<1>6. ASSUME NEW v \in Writers, v # w PROVE Fits(v)'
  <2>1. pc'[v] = pc[v] /\ msg'[v] = msg[v] /\ direct'[v] = direct[v]
    BY <1>2, <1>6, Returned
  <2>2. Len(send_buffer') >= Len(send_buffer)
    BY DEF Puts, dmaVars, IInv, TypeOK
  <2> QED BY <1>4, <2>1, <2>2, StillFits
<1> QED BY <1>4, <1>5, <1>6 DEF IInv

LEMMA CompleteKeeps ==
  ASSUME IInv, Complete
  PROVE  IInv'
<1> DEFINE n == Least(Len(send_fifo), BufSize)
           b == SubSeq(send_fifo, 1, n) \o SubSeq(send_buffer, n + 1, Len(send_buffer))
           f == SubSeq(send_fifo, n + 1, Len(send_fifo))
<1>1. TypeOK
  BY DEF IInv
<1>2. /\ n \in Nat /\ b \in Seq(Units) /\ Len(b) <= BufSize /\ n <= Len(b)
      /\ Len(b) >= Len(send_buffer)
      /\ f \in Seq(Units) /\ Len(f) <= FifoSize
  BY <1>1, NextTransfer
<1> HIDE DEF n, b, f
<1>3. broken' \in BOOLEAN /\ is_sending' \in BOOLEAN
  BY DEF Complete, StillBroken, FlagAfter, SendOn, IInv, TypeOK
<1>4. \/ send_buffer' = b /\ send_fifo' = f /\ sent' = 0 /\ size' = n /\ gState' = gState
      \/ send_buffer' = send_buffer /\ send_fifo' = send_fifo /\ sent' = 0 /\ size' = 0 /\ gState' = "ready"
  BY DEF Complete, n, b, f
<1>5. TypeOK' /\ Len(send_buffer') >= Len(send_buffer)
  BY <1>1, <1>2, <1>3, <1>4 DEF Complete, writerVars, TypeOK
<1> QED BY <1>5, StillFits DEF Complete, writerVars, IInv

LEMMA OthersKeep ==
  ASSUME IInv, Emit \/ DmaError \/ PrintBegins \/ PrintEnds \/ UNCHANGED vars
  PROVE  IInv'
<1>1. TypeOK' /\ send_buffer' = send_buffer
  <2>1. CASE Emit
    <3>1. line' \in Units
      BY <2>1 DEF Emit, IInv, TypeOK
    <3> QED BY <2>1, <3>1 DEF Emit, writerVars, StillBroken, IInv, TypeOK
  <2>2. CASE DmaError
    BY <2>2 DEF DmaError, writerVars, IInv, TypeOK
  <2>3. CASE PrintBegins \/ PrintEnds
    BY <2>3 DEF PrintBegins, PrintEnds, writerVars, dmaVars, IInv, TypeOK
  <2>4. CASE UNCHANGED vars
    BY <2>4 DEF vars, writerVars, dmaVars, IInv, TypeOK
  <2> QED BY <2>1, <2>2, <2>3, <2>4
<1>2. UNCHANGED writerVars
  BY DEF Emit, DmaError, PrintBegins, PrintEnds, vars
<1>3. Len(send_buffer') >= Len(send_buffer)
  BY <1>1 DEF IInv, TypeOK
<1> QED BY <1>1, <1>2, <1>3, StillFits DEF writerVars, IInv

LEMMA Inductive == IInv /\ [Next]_vars => IInv'
BY BeginKeeps, FlagTestKeeps, SplitKeeps, CopyKeeps, FlagKeeps, StartKeeps, PutsKeeps, CompleteKeeps, OthersKeep
   DEF Next, Send

LEMMA Invariant == Spec => []IInv
BY Initially, Inductive, PTL DEF Spec

\* The variables keep their types: no message, however long, makes a transfer
\* reach past the DMA buffer or the fifo, whatever other writers do meanwhile.
THEOREM TypeCorrect == Spec => []TypeOK
<1>1. IInv => TypeOK
  BY DEF IInv
<1> QED BY <1>1, Invariant, PTL

(***************************************************************************)
(* One writer, the interrupt.                                              *)
(***************************************************************************)

\* Between two steps of a call only the DMA and a completion or an error that
\* came before it can have moved: the flag can be stale only after an error,
\* and the fifo waits without a transfer only then.
OneWriter ==
  /\ gState = "dma" => is_sending
  /\ gState # "dma" => sent = 0 /\ size = 0
  /\ gState # "dma" /\ send_fifo # <<>> => broken
  /\ gState # "dma" /\ is_sending /\ pc[Isr] # "start" => broken

\* What the call knows at each step.
CallKnows ==
  /\ pc[Isr] \in {"check", "clear", "split"} => Len(msg[Isr]) > 0
  /\ pc[Isr] = "check" => is_sending
  /\ pc[Isr] = "clear" => gState = "ready"
  /\ pc[Isr] = "split" /\ is_sending => gState # "ready"
  /\ pc[Isr] \in {"copy", "flag"} => ~is_sending
  /\ pc[Isr] = "start" => is_sending /\ gState # "dma"
  /\ pc[Isr] = "puts" => is_sending /\ gState # "ready"

OneInv == IInv /\ OneWriter /\ CallKnows

LEMMA OneWriterOnly == Tasks = 0 => Isr = 1 /\ Writers = {1}
<1>1. 0 + 1 = 1 /\ 1 .. 1 = {1}
  OBVIOUS
<1> QED BY <1>1 DEF Isr, Writers

\* The DMA buffer counts only while the DMA reads it.
LEMMA PendingIsFifo ==
  ASSUME send_fifo \in Seq(Units), size \in Nat, sent \in Nat, sent = size
  PROVE  Pending = send_fifo
<1>1. SubSeq(send_buffer, sent + 1, size) = <<>>
  BY SubSeqEmpty
<1> QED BY <1>1, ConcatEmptySeq DEF Pending

LEMMA PendingTyped ==
  ASSUME TypeOK
  PROVE  /\ SubSeq(send_buffer, sent + 1, size) \in Seq(Units)
         /\ Len(SubSeq(send_buffer, sent + 1, size)) = size - sent
         /\ \A k \in 1 .. size - sent : SubSeq(send_buffer, sent + 1, size)[k] = send_buffer[sent + k]
         /\ Pending \in Seq(Units)
<1> DEFINE s == SubSeq(send_buffer, sent + 1, size)
           n == size - sent
<1>1. send_buffer \in Seq(Units) /\ sent \in Nat /\ n \in Nat /\ sent + n <= Len(send_buffer)
  BY DEF TypeOK
<1>2. s = SubSeq(send_buffer, sent + 1, sent + n)
  BY <1>1 DEF TypeOK
<1> HIDE DEF n
<1> DEFINE r == SubSeq(send_buffer, sent + 1, sent + n)
<1>3. r \in Seq(Units) /\ Len(r) = n /\ \A k \in 1 .. n : r[k] = send_buffer[sent + k]
  BY <1>1, Slice
<1>7. s = r
  BY <1>2
<1> HIDE DEF r
<1>4. Pending = s \o send_fifo /\ send_fifo \in Seq(Units)
  BY DEF Pending, TypeOK
<1>5. r \o send_fifo \in Seq(Units)
  BY <1>3, <1>4, ConcatProperties
<1> HIDE DEF s
<1>6. s \in Seq(Units) /\ Len(s) = n /\ \A k \in 1 .. n : s[k] = send_buffer[sent + k]
  BY <1>3, <1>7
<1> QED BY <1>4, <1>5, <1>6, <1>7 DEF s, n

\* While the fifo holds something, it is pending.
LEMMA FifoIsPending == TypeOK /\ send_fifo # <<>> => Pending # <<>>
<1> SUFFICES ASSUME TypeOK, send_fifo # <<>> PROVE Pending # <<>>
  OBVIOUS
<1> DEFINE s == SubSeq(send_buffer, sent + 1, size)
<1>1. s \in Seq(Units) /\ send_fifo \in Seq(Units)
  BY PendingTyped DEF TypeOK
<1> HIDE DEF s
<1>2. s \o send_fifo # <<>>
  BY <1>1, ConcatEqualIffEmpty
<1> QED BY <1>2 DEF Pending, s

LEMMA FifoStaysPending == (TypeOK /\ send_fifo # <<>> => Pending # <<>>)'
BY FifoIsPending, PTL

\* An error is not over while the flag stays or the fifo holds something.
LEMMA NotMended ==
  ASSUME TypeOK', StillBroken, broken, is_sending' \/ send_fifo' # <<>>
  PROVE  broken'
BY FifoStaysPending DEF StillBroken

LEMMA OneInitially == Init => OneInv
<1> SUFFICES ASSUME Init PROVE OneInv
  OBVIOUS
<1>1. pc[Isr] = "idle"
  BY IsrIsWriter DEF Init
<1> QED BY <1>1, Initially DEF Init, OneInv, OneWriter, CallKnows

LEMMA OneInductive ==
  ASSUME Tasks = 0, OneInv, [Next]_vars
  PROVE  OneInv'
<1>1. IInv' /\ TypeOK'
  BY Inductive DEF OneInv, IInv
<1>2. Isr = 1 /\ Writers = {1} /\ Isr \in Writers
  BY OneWriterOnly, IsrIsWriter
<1>3. pc \in [Writers -> PcStates] /\ msg \in [Writers -> Seq(Units)] /\ direct \in [Writers -> 0 .. BufSize]
  BY DEF OneInv, IInv, TypeOK
<1>4. ASSUME Begin(Isr) PROVE OneInv'
  <2>1. pc[Isr] = "idle" /\ Len(msg'[Isr]) > 0
    <3>1. PICK id \in Ids, n \in Lens : msg' = [msg EXCEPT ![Isr] = Message(id, n)]
      BY <1>4 DEF Begin
    <3>2. Len(Message(id, n)) = n /\ n > 0
      BY MessageTyped, UartTxAssumption
    <3> QED BY <1>2, <1>3, <1>4, <3>1, <3>2 DEF Begin
  <2>2. pc'[Isr] = IF is_sending THEN "check" ELSE "split"
    BY <1>2, <1>3, <1>4 DEF Begin, GoOn
  <2> QED BY <1>1, <1>4, <2>1, <2>2 DEF Begin, dmaVars, OneInv, OneWriter, CallKnows
<1>15. ASSUME Check(Isr) PROVE OneInv'
  <2>1. pc[Isr] = "check" /\ pc'[Isr] = IF gState = "ready" THEN "clear" ELSE "split"
    BY <1>2, <1>3, <1>15 DEF Check, Stale, GoOn
  <2> QED BY <1>1, <1>15, <2>1 DEF Check, dmaVars, OneInv, OneWriter, CallKnows
<1>16. ASSUME Clear(Isr) PROVE OneInv'
  <2>1. pc[Isr] = "clear" /\ pc'[Isr] = "split" /\ gState = "ready" /\ gState' = gState
    BY <1>2, <1>3, <1>16 DEF Clear, GoOn, OneInv, CallKnows
  <2>2. broken /\ send_fifo' # <<>> => broken'
    BY <1>1, <1>16, NotMended DEF Clear
  <2> QED BY <1>1, <1>16, <2>1, <2>2 DEF Clear, dmaVars, OneInv, OneWriter, CallKnows
<1>5. ASSUME Split(Isr) PROVE OneInv'
  <2>1. /\ pc[Isr] = "split"
        /\ pc'[Isr] = IF DirectLen(Len(msg[Isr])) > 0 THEN "copy" ELSE "puts"
    BY <1>2, <1>3, <1>5 DEF Split, GoOn
  <2>2. Len(msg[Isr]) \in Nat /\ Len(msg[Isr]) > 0
    BY <1>2, <1>3, <2>1 DEF OneInv, CallKnows
  <2>3. DirectLen(Len(msg[Isr])) > 0 <=> ~is_sending
    BY <2>2, UartTxAssumption DEF DirectLen, Least
  <2> QED BY <1>1, <1>5, <2>1, <2>3 DEF Split, dmaVars, OneInv, OneWriter, CallKnows
<1>6. ASSUME Copy(Isr) PROVE OneInv'
  <2>1. pc[Isr] = "copy" /\ pc'[Isr] = "flag"
    BY <1>2, <1>3, <1>6 DEF Copy, GoOn
  <2> QED BY <1>1, <1>6, <2>1 DEF Copy, OneInv, OneWriter, CallKnows
<1>7. ASSUME Flag(Isr) PROVE OneInv'
  <2>1. pc[Isr] = "flag" /\ pc'[Isr] = "start"
    BY <1>2, <1>3, <1>7 DEF Flag, GoOn
  <2> QED BY <1>1, <1>7, <2>1 DEF Flag, dmaVars, OneInv, OneWriter, CallKnows
<1>8. ASSUME Start(Isr) PROVE OneInv'
  <2>1. pc[Isr] = "start" /\ pc'[Isr] \in {"idle", "puts"}
    BY <1>2, <1>3, <1>8 DEF Start, GoOn, Return
  <2>2. gState # "ready" => pc'[Isr] = "idle"
    BY <1>2, <1>3, <1>8 DEF Start, GoOn, Return
  <2>3. broken /\ (is_sending' \/ send_fifo' # <<>>) => broken'
    BY <1>1, <1>8, NotMended DEF Start
  <2>4. is_sending /\ gState # "dma" /\ send_fifo' = send_fifo
    BY <1>8, <2>1 DEF Start, OneInv, CallKnows
  <2>5. \/ gState = "ready" /\ gState' = "dma" /\ is_sending' = is_sending
        \/ /\ gState # "ready" /\ gState' = gState /\ is_sending' = FALSE
           /\ sent' = sent /\ size' = size
    BY <1>8 DEF Start
  <2>6. OneWriter'
    BY <2>3, <2>4, <2>5 DEF OneInv, OneWriter
  <2>7. CallKnows'
    BY <2>1, <2>2, <2>4, <2>5 DEF CallKnows
  <2> QED BY <1>1, <2>6, <2>7 DEF OneInv
<1>9. ASSUME Puts(Isr) PROVE OneInv'
  <2>1. pc[Isr] = "puts" /\ pc'[Isr] = "idle"
    BY <1>2, <1>3, <1>9 DEF Puts, GoOn, Return
  <2>2. OneWriter'
    BY <1>1, <1>9, <2>1, NotMended DEF Puts, dmaVars, OneInv, OneWriter, CallKnows
  <2> QED BY <1>1, <2>1, <2>2 DEF OneInv, CallKnows
<1>10. ASSUME Emit PROVE OneInv'
  BY <1>1, <1>10 DEF Emit, writerVars, OneInv, OneWriter, CallKnows
<1>11. ASSUME Complete PROVE OneInv'
  BY <1>1, <1>11 DEF Complete, NoInterrupt, FlagAfter, SendOn, writerVars, OneInv, OneWriter, CallKnows
<1>12. ASSUME DmaError PROVE OneInv'
  BY <1>1, <1>12 DEF DmaError, NoInterrupt, writerVars, OneInv, OneWriter, CallKnows
<1>13. ASSUME PrintBegins \/ PrintEnds PROVE OneInv'
  BY <1>1, <1>13 DEF PrintBegins, PrintEnds, NoInterrupt, writerVars, dmaVars, OneInv, OneWriter, CallKnows
<1>14. ASSUME UNCHANGED vars PROVE OneInv'
  BY <1>1, <1>14 DEF vars, writerVars, dmaVars, OneInv, OneWriter, CallKnows
<1> QED BY <1>2, <1>4, <1>5, <1>6, <1>7, <1>8, <1>9, <1>10, <1>11, <1>12, <1>13, <1>14, <1>15, <1>16
        DEF Next, Send

LEMMA OneInvariant == ASSUME Tasks = 0 PROVE Spec => []OneInv
<1>1. OneInv /\ [Next]_vars => OneInv'
  BY OneInductive
<1> QED BY <1>1, OneInitially, PTL DEF Spec

\* When a call returns the UART is at work: what it left in the fifo is sent
\* on, also after an error that left the flag behind.
THEOREM NeverReturnsIdle == ASSUME Tasks = 0 PROVE Spec => ReturnsBusy
<1>1. ASSUME OneInv, [Next]_vars,
             NEW w \in Writers, pc[w] # "idle", pc'[w] = "idle"
      PROVE  gState' # "ready"
  <2>1. w = Isr /\ Writers = {1} /\ Isr = 1 /\ Isr \in Writers
    BY OneWriterOnly, IsrIsWriter
  <2>2. pc \in [Writers -> PcStates]
    BY <1>1 DEF OneInv, IInv, TypeOK
  <2>3. pc' # pc
    BY <1>1
  <2>4. CASE Begin(w) \/ Check(w) \/ Clear(w) \/ Split(w) \/ Copy(w) \/ Flag(w)
    BY <1>1, <2>1, <2>2, <2>4 DEF Begin, Check, Clear, Split, Copy, Flag, GoOn
  <2>5. CASE Start(w)
    BY <1>1, <2>1, <2>5 DEF Start
  <2>6. CASE Puts(w)
    BY <1>1, <2>1, <2>6 DEF Puts, OneInv, CallKnows
  <2>7. CASE Emit \/ Complete \/ DmaError \/ PrintBegins \/ PrintEnds \/ UNCHANGED vars
    BY <2>3, <2>7 DEF Emit, Complete, DmaError, PrintBegins, PrintEnds, vars, writerVars
  <2> QED BY <1>1, <2>1, <2>4, <2>5, <2>6, <2>7 DEF Next, Send
<1>2. OneInv /\ [Next]_vars => [\A w \in Writers : pc[w] # "idle" /\ pc'[w] = "idle" => gState' # "ready"]_vars
  BY <1>1
<1> QED BY <1>2, OneInvariant, PTL DEF Spec, ReturnsBusy

(***************************************************************************)
(* One writer: the path is a queue.                                        *)
(***************************************************************************)

LEMMA BeforeAll ==
  ASSUME NEW s \in Seq(Units), NEW t \in Seq(Units)
  PROVE  Queue!Before(s, s \o t) /\ Queue!After(t, s \o t)
<1>1. /\ s \o t \in Seq(Units) /\ Len(s) \in Nat /\ Len(t) \in Nat
      /\ Len(s \o t) = Len(s) + Len(t)
      /\ \A k \in 1 .. Len(s) + Len(t) : (s \o t)[k] = IF k <= Len(s) THEN s[k] ELSE t[k - Len(s)]
  BY ConcatProperties
<1>2. SubSeq(s \o t, 1, Len(s)) = s
  <2> DEFINE c == s \o t
             r == SubSeq(c, 0 + 1, 0 + Len(s))
  <2>1. c \in Seq(Units) /\ 0 + Len(s) <= Len(c) /\ 0 \in Nat
    BY <1>1
  <2>2. \A k \in 1 .. Len(s) : c[0 + k] = s[k]
    BY <1>1
  <2> HIDE DEF c
  <2>3. r \in Seq(Units) /\ Len(r) = Len(s) /\ \A k \in 1 .. Len(s) : r[k] = c[0 + k]
    BY <1>1, <2>1, Slice
  <2> HIDE DEF r
  <2>4. r = s
    BY <2>2, <2>3, SeqEqual
  <2> QED BY <1>1, <2>4 DEF r, c
<1>3. SubSeq(s \o t, Len(s \o t) - Len(t) + 1, Len(s \o t)) = t
  <2> DEFINE c == s \o t
             m == Len(s)
             r == SubSeq(c, m + 1, m + Len(t))
  <2>1. c \in Seq(Units) /\ m + Len(t) <= Len(c) /\ m \in Nat
    BY <1>1
  <2>2. \A k \in 1 .. Len(t) : c[m + k] = t[k]
    <3> SUFFICES ASSUME NEW k \in 1 .. Len(t) PROVE c[m + k] = t[k]
      OBVIOUS
    <3>1. m + k \in 1 .. Len(s) + Len(t) /\ ~(m + k <= Len(s)) /\ m + k - Len(s) = k
      BY <1>1
    <3> QED BY <1>1, <3>1
  <2>3. Len(c) = m + Len(t) /\ Len(c) - Len(t) = m
    BY <1>1
  <2> HIDE DEF c, m
  <2>4. r \in Seq(Units) /\ Len(r) = Len(t) /\ \A k \in 1 .. Len(t) : r[k] = c[m + k]
    BY <1>1, <2>1, Slice
  <2> HIDE DEF r
  <2>5. r = t
    BY <2>2, <2>4, SeqEqual
  <2> QED BY <2>3, <2>5 DEF r, c
<1> QED BY <1>1, <1>2, <1>3 DEF Queue!Before, Queue!After

\* Nothing is accepted, and perhaps the port is mended.
LEMMA NoneAccepted ==
  ASSUME TypeOK, Pending' = Pending, line' = line, broken' => broken
  PROVE  Queue!Put
<1>1. Pending \in Seq(Units)
  BY PendingTyped
<1>2. Queue!Before(Pending, Pending)
  <2>1. Pending \o <<>> = Pending /\ <<>> \in Seq(Units)
    BY <1>1, ConcatEmptySeq, EmptySeq
  <2> QED BY <1>1, <2>1, BeforeAll
<1> QED BY <1>1, <1>2 DEF Queue!Put

LEMMA Mends == StillBroken => (broken' => broken)
BY DEF StillBroken

\* A transfer that starts goes before what the fifo holds.
LEMMA StartPending ==
  ASSUME OneInv, TypeOK', Start(Isr), gState = "ready"
  PROVE  /\ Pending' = SubSeq(send_buffer, 1, direct[Isr]) \o send_fifo
         /\ Pending = send_fifo /\ send_fifo \in Seq(Units)
         /\ LET s == SubSeq(send_buffer, 1, direct[Isr]) IN
              /\ s \in Seq(Units) /\ Len(s) = direct[Isr] /\ direct[Isr] \in Nat /\ direct[Isr] > 0
              /\ \A k \in 1 .. direct[Isr] : s[k] = send_buffer[k]
         /\ broken => broken'
<1> DEFINE n == direct[Isr]
<1>1. n \in Nat /\ n > 0 /\ n <= Len(send_buffer) /\ send_buffer \in Seq(Units)
  BY IsrIsWriter DEF Start, OneInv, IInv, TypeOK, Fits
<1>2. Pending = send_fifo /\ send_fifo \in Seq(Units)
  BY PendingIsFifo DEF OneInv, OneWriter, IInv, TypeOK
<1>3. send_buffer' = send_buffer /\ sent' = 0 /\ size' = n /\ send_fifo' = send_fifo /\ 0 + 1 = 1
  BY DEF Start
<1>4. Pending' = SubSeq(send_buffer, 1, n) \o send_fifo
  BY <1>3 DEF Pending
<1>5. is_sending /\ is_sending' = is_sending /\ (broken => broken')
  BY NotMended DEF Start, OneInv, CallKnows
<1> HIDE DEF n
<1> DEFINE r == SubSeq(send_buffer, 0 + 1, 0 + n)
<1>6. r \in Seq(Units) /\ Len(r) = n /\ \A k \in 1 .. n : r[k] = send_buffer[0 + k]
  BY <1>1, Slice
<1>7. 0 + n = n /\ 0 + 1 = 1 /\ \A k \in 1 .. n : 0 + k = k
  BY <1>1
<1>8. SubSeq(send_buffer, 1, n) = r
  BY <1>7
<1> HIDE DEF r
<1>9. /\ SubSeq(send_buffer, 1, n) \in Seq(Units) /\ Len(SubSeq(send_buffer, 1, n)) = n
      /\ \A k \in 1 .. n : SubSeq(send_buffer, 1, n)[k] = send_buffer[k]
  BY <1>6, <1>7, <1>8
<1> QED BY <1>1, <1>2, <1>4, <1>5, <1>9 DEF n

LEMMA StartPuts ==
  ASSUME OneInv, TypeOK', Start(Isr), gState = "ready"
  PROVE  Queue!Put
<1> DEFINE s == SubSeq(send_buffer, 1, direct[Isr])
<1>1. /\ s \in Seq(Units) /\ send_fifo \in Seq(Units)
      /\ Pending' = s \o send_fifo /\ Pending = send_fifo
  BY StartPending
<1> HIDE DEF s
<1>2. Pending' \in Seq(Units)
  BY <1>1, ConcatProperties
<1>3. CASE send_fifo = <<>>
  <2>1. <<>> \o Pending' = Pending'
    BY <1>2, ConcatEmptySeq
  <2>2. Queue!Before(<<>>, Pending')
    BY <1>2, <2>1, BeforeAll, EmptySeq
  <2> QED BY <1>1, <1>2, <1>3, <2>2, Mends DEF Start, Queue!Put
<1>4. CASE send_fifo # <<>>
  <2>1. broken /\ Queue!After(send_fifo, Pending')
    BY <1>1, <1>4, BeforeAll DEF OneInv, OneWriter, CallKnows, Start
  <2> QED BY <1>1, <1>2, <2>1, Mends DEF Start, Queue!Put
<1> QED BY <1>3, <1>4

\* What the fifo accepts goes after all that waits.
LEMMA PutsPending ==
  ASSUME OneInv, Puts(Isr)
  PROVE  Pending' = Pending \o FifoPart(Isr)
<1> DEFINE s == SubSeq(send_buffer, sent + 1, size)
           p == FifoPart(Isr)
<1>1. s \in Seq(Units) /\ p \in Seq(Units) /\ send_fifo \in Seq(Units)
  BY PendingTyped, PartTyped, IsrIsWriter DEF OneInv, IInv, TypeOK
<1>2. Pending' = s \o (send_fifo \o p) /\ Pending = s \o send_fifo
  BY DEF Puts, dmaVars, Pending
<1> HIDE DEF s, p
<1>3. Pending' = Pending \o p
  BY <1>1, <1>2, ConcatAssociative
<1> QED BY <1>3 DEF p

LEMMA PutsPuts ==
  ASSUME OneInv, Puts(Isr)
  PROVE  Queue!Put
<1> DEFINE p == FifoPart(Isr)
<1>1. p \in Seq(Units) /\ Pending \in Seq(Units)
  BY PendingTyped, PartTyped, IsrIsWriter DEF OneInv, IInv
<1>2. Pending' = Pending \o p
  BY PutsPending
<1> HIDE DEF p
<1>3. Queue!Before(Pending, Pending') /\ Pending' \in Seq(Units)
  BY <1>1, <1>2, BeforeAll, ConcatProperties
<1> QED BY <1>3, Mends DEF Puts, Queue!Put

LEMMA EmitEmits ==
  ASSUME OneInv, Emit
  PROVE  Queue!Emit
<1> DEFINE a == send_buffer[sent + 1]
           t == SubSeq(send_buffer, sent + 2, size)
           u == t \o send_fifo
<1>1. /\ send_buffer \in Seq(Units) /\ send_fifo \in Seq(Units) /\ size \in Nat /\ sent \in Nat
      /\ sent + 1 \in 1 .. Len(send_buffer) /\ size \in sent + 1 .. Len(send_buffer)
      /\ sent + 1 + 1 = sent + 2
  BY DEF Emit, OneInv, IInv, TypeOK
<1>2. SubSeq(send_buffer, sent + 1, size) = <<a>> \o t
  BY <1>1, SubSeqRecursiveFirst
<1>3. a \in Units /\ t \in Seq(Units) /\ <<a>> \in Seq(Units)
  <2>1. a \in Units
    BY <1>1
  <2>2. \A k \in sent + 2 .. size : send_buffer[k] \in Units
    BY <1>1
  <2>3. t \in Seq(Units)
    BY <1>1, <2>2, SubSeqProperties
  <2> QED BY <2>1, <2>3
<1>4. Pending = (<<a>> \o t) \o send_fifo
  BY <1>2 DEF Pending
<1>5. Pending' = u
  BY <1>1 DEF Emit, Pending
<1>6. line' = a
  BY DEF Emit
<1> HIDE DEF a, t
<1>7. Pending = <<a>> \o u
  BY <1>1, <1>3, <1>4, ConcatAssociative
<1>8. u \in Seq(Units)
  BY <1>1, <1>3, ConcatProperties
<1> HIDE DEF u
<1>9. Pending # <<>> /\ Head(Pending) = a /\ Tail(Pending) = u
  <2>1. /\ Pending \in Seq(Units) /\ Len(Pending) = 1 + Len(u)
        /\ \A k \in 1 .. 1 + Len(u) : Pending[k] = IF k <= 1 THEN a ELSE u[k - 1]
    BY <1>3, <1>7, <1>8, ConcatProperties
  <2>2. Pending # <<>>
    BY <1>8, <2>1, EmptySeq
  <2>3. Head(Pending) = a
    BY <1>8, <2>1
  <2>4. /\ Tail(Pending) \in Seq(Units) /\ Len(Tail(Pending)) = Len(u)
        /\ \A k \in 1 .. Len(u) : Tail(Pending)[k] = Pending[k + 1]
    BY <1>8, <2>1, <2>2, HeadTailProperties
  <2>5. \A k \in 1 .. Len(u) : Tail(Pending)[k] = u[k]
    BY <1>8, <2>1, <2>4
  <2> QED BY <1>8, <2>2, <2>3, <2>4, <2>5, SeqEqual
<1> QED BY <1>5, <1>6, <1>9, Mends DEF Emit, Queue!Emit

LEMMA CompleteKeepsPending ==
  ASSUME OneInv, Complete
  PROVE  Pending' = Pending
<1> DEFINE n == Least(Len(send_fifo), BufSize)
           b == SubSeq(send_fifo, 1, n) \o SubSeq(send_buffer, n + 1, Len(send_buffer))
           f == SubSeq(send_fifo, n + 1, Len(send_fifo))
<1>1. TypeOK /\ send_fifo \in Seq(Units) /\ Len(send_fifo) \in Nat
  BY DEF OneInv, IInv, TypeOK
<1>2. Pending = send_fifo
  BY PendingIsFifo DEF Complete, OneInv, IInv, TypeOK
<1>3. CASE SendOn
  <2>1. /\ n \in Nat /\ n <= Len(send_fifo) /\ b \in Seq(Units) /\ n <= Len(b) /\ f \in Seq(Units)
        /\ \A k \in 1 .. n : b[k] = send_fifo[k]
    BY <1>1, NextTransfer
  <2>2. Pending' = SubSeq(b, 0 + 1, n) \o f
    BY <1>3 DEF Complete, Pending
  <2> HIDE DEF n, b
  <2> DEFINE r == SubSeq(b, 0 + 1, 0 + n)
             g == SubSeq(send_fifo, 0 + 1, 0 + n)
  <2>3. r \in Seq(Units) /\ Len(r) = n /\ \A k \in 1 .. n : r[k] = b[0 + k]
    BY <2>1, Slice
  <2>4. g \in Seq(Units) /\ Len(g) = n /\ \A k \in 1 .. n : g[k] = send_fifo[0 + k]
    BY <1>1, <2>1, Slice
  <2>5. 0 + n = n /\ 0 + 1 = 1 /\ \A k \in 1 .. n : 0 + k = k
    BY <2>1
  <2>6. SubSeq(b, 1, n) = r /\ SubSeq(send_fifo, 1, n) = g
    BY <2>5
  <2> HIDE DEF r, g
  <2>7. r = g
    <3>1. \A k \in 1 .. n : r[k] = g[k]
      BY <2>1, <2>3, <2>4, <2>5
    <3> QED BY <2>3, <2>4, <3>1, SeqEqual
  <2>8. g \o f = send_fifo
    <3>1. /\ 1 \in 1 .. Len(send_fifo) + 1 /\ n \in 1 - 1 .. Len(send_fifo)
          /\ Len(send_fifo) \in n .. Len(send_fifo)
      BY <1>1, <2>1
    <3>2. SubSeq(send_fifo, 1, n) \o f = SubSeq(send_fifo, 1, Len(send_fifo))
      BY <1>1, <3>1, ConcatAdjacentSubSeq
    <3> QED BY <1>1, <2>6, <3>2, SubSeqFull
  <2> QED BY <1>2, <2>2, <2>5, <2>6, <2>7, <2>8
<1>4. CASE ~SendOn
  <2>1. send_fifo' = send_fifo /\ sent' = 0 /\ size' = 0
    BY <1>4 DEF Complete
  <2>2. Pending' = SubSeq(send_buffer', 0 + 1, 0) \o send_fifo
    BY <2>1 DEF Pending
  <2>3. SubSeq(send_buffer', 0 + 1, 0) = <<>>
    BY SubSeqEmpty
  <2> QED BY <1>1, <1>2, <2>2, <2>3, ConcatEmptySeq
<1> QED BY <1>3, <1>4

LEMMA ErrorLoses ==
  ASSUME OneInv, DmaError
  PROVE  Queue!Lose
<1> DEFINE s == SubSeq(send_buffer, sent + 1, size)
<1>1. s \in Seq(Units) /\ send_fifo \in Seq(Units) /\ Len(s) = size - sent /\ size - sent > 0
  BY PendingTyped DEF DmaError, OneInv, IInv, TypeOK
<1>2. Pending = s \o send_fifo
  BY DEF Pending
<1>3. Pending' = send_fifo
  <2>1. Pending' = SubSeq(send_buffer, 0 + 1, 0) \o send_fifo
    BY DEF DmaError, Pending
  <2>2. SubSeq(send_buffer, 0 + 1, 0) = <<>>
    BY SubSeqEmpty
  <2> QED BY <1>1, <2>1, <2>2, ConcatEmptySeq
<1> HIDE DEF s
<1>4. Queue!After(send_fifo, s \o send_fifo)
  BY <1>1, BeforeAll
<1>5. s \o send_fifo # send_fifo
  <2>1. s # <<>>
    BY <1>1, EmptySeq DEF OneInv, IInv, TypeOK
  <2> QED BY <1>1, <2>1, ConcatEqualIffEmpty
<1> QED BY <1>2, <1>3, <1>4, <1>5 DEF DmaError, Queue!Lose

\* Steps that move no byte.
QuietStep ==
  \/ Begin(Isr) \/ Check(Isr) \/ Clear(Isr) \/ Split(Isr) \/ Copy(Isr) \/ Flag(Isr)
  \/ Start(Isr) /\ gState # "ready"
  \/ Complete \/ PrintBegins \/ PrintEnds \/ UNCHANGED vars

LEMMA Quiet ==
  ASSUME OneInv, QuietStep
  PROVE  /\ Pending' = Pending /\ line' = line
         /\ broken' => broken
         /\ broken /\ ~broken' => Pending' = <<>>
<1>1. TypeOK
  BY DEF OneInv, IInv
<1>2. line' = line /\ (StillBroken \/ broken' = broken)
  BY DEF QuietStep, Begin, Check, Clear, Split, Copy, Flag, Start, Complete, PrintBegins, PrintEnds, vars
<1>3. (broken' => broken) /\ (broken /\ ~broken' => Pending' = <<>>)
  <2>1. CASE StillBroken
    BY <2>1 DEF StillBroken
  <2>2. CASE broken' = broken
    BY <2>2
  <2> QED BY <1>2, <2>1, <2>2
<1>4. CASE Copy(Isr)
  <2>1. gState # "dma" /\ sent = size /\ sent' = sent /\ size' = size /\ send_fifo' = send_fifo
    BY <1>4 DEF Copy, OneInv, OneWriter, CallKnows
  <2>2. Pending = send_fifo
    BY <1>1, <2>1, PendingIsFifo DEF TypeOK
  <2>3. SubSeq(send_buffer', sent + 1, size) = <<>>
    BY <1>1, <2>1, SubSeqEmpty DEF TypeOK
  <2>4. Pending' = send_fifo
    BY <1>1, <2>1, <2>3, ConcatEmptySeq DEF Pending, TypeOK
  <2> QED BY <1>2, <1>3, <2>2, <2>4
<1>5. CASE Complete
  BY <1>2, <1>3, <1>5, CompleteKeepsPending
<1>6. CASE UNCHANGED <<send_buffer, sent, size, send_fifo>>
  <2>1. Pending' = Pending
    BY <1>6 DEF Pending
  <2> QED BY <1>2, <1>3, <2>1
<1> QED BY <1>4, <1>5, <1>6
        DEF QuietStep, Begin, Check, Clear, Split, Flag, Start, PrintBegins, PrintEnds, vars, dmaVars

\* The steps of one writer.
LEMMA OneNext ==
  ASSUME Tasks = 0, [Next]_vars
  PROVE  \/ QuietStep \/ Emit \/ DmaError
         \/ Start(Isr) /\ gState = "ready"
         \/ Puts(Isr)
BY OneWriterOnly DEF QuietStep, Next, Send

LEMMA NextRefines ==
  ASSUME Tasks = 0, OneInv, [Next]_vars
  PROVE  Queue!Put \/ Queue!Emit \/ Queue!Lose
<1>1. TypeOK /\ TypeOK'
  BY Inductive DEF OneInv, IInv
<1>2. QuietStep => Queue!Put
  BY <1>1, Quiet, NoneAccepted
<1>3. Start(Isr) /\ gState = "ready" => Queue!Put
  BY <1>1, StartPuts
<1>4. Puts(Isr) => Queue!Put
  BY <1>1, PutsPuts
<1> QED BY <1>2, <1>3, <1>4, OneNext, EmitEmits, ErrorLoses

\* With one writer the transmit path is a queue, for every length of the
\* messages: DMA buffer, fifo and the pieces that a message is cut into never
\* reorder, repeat or drop a byte unless an error does.
THEOREM QueueImplemented == ASSUME Tasks = 0 PROVE Spec => KeepsOrder
<1>1. Init => Queue!Init
  <2> SUFFICES ASSUME Init PROVE Pending = <<>>
    BY DEF Init, Queue!Init
  <2>1. <<>> \in Seq(Units) /\ 0 + 1 = 1
    BY EmptySeq
  <2> QED BY <2>1, PendingIsFifo DEF Init
<1>2. OneInv /\ [Next]_vars => [Queue!Next]_<<Pending, line, broken>>
  BY NextRefines DEF Queue!Next
<1> QED BY <1>1, <1>2, OneInvariant, PTL DEF Spec, KeepsOrder, Queue!Spec

(***************************************************************************)
(* One writer: messages do not mix.                                        *)
(***************************************************************************)

Follows(x, y) == y[2] = 1 \/ y = <<x[1], x[2] + 1>>

Chained(s) == \A k \in 1 .. Len(s) - 1 : Follows(s[k], s[k + 1])

\* What waits is whole messages, but for the one on the line and the one of
\* which the end is still to come.
Whole ==
  ~broken => Chained(Pending) /\ (line # Nothing /\ Pending # <<>> => Follows(line, Pending[1]))

\* The byte accepted last.
LastPut == IF Pending = <<>> THEN line ELSE Pending[Len(Pending)]

\* What the call has put so far is the first part of its message.
CallHolds ==
  /\ pc[Isr] # "idle" => \E id \in Ids, n \in Lens : msg[Isr] = Message(id, n)
  /\ pc[Isr] \in {"flag", "start"} => \A k \in 1 .. direct[Isr] : send_buffer[k] = msg[Isr][k]
  /\ pc[Isr] = "puts" /\ direct[Isr] > 0 /\ ~broken => LastPut = msg[Isr][direct[Isr]]

WholeInv == OneInv /\ Whole /\ CallHolds

LEMMA MessageChained ==
  ASSUME NEW id \in Ids, NEW n \in Lens, NEW s, s = Message(id, n)
  PROVE  /\ Len(s) = n /\ n \in Nat /\ s[1][2] = 1
         /\ \A k \in 1 .. n - 1 : Follows(s[k], s[k + 1])
<1>1. n \in Nat \ {0} /\ Len(s) = n /\ \A k \in 1 .. n : s[k] = <<id, k>>
  BY UartTxAssumption, MessageTyped
<1>2. ASSUME NEW k \in 1 .. n - 1 PROVE Follows(s[k], s[k + 1])
  <2>1. k \in 1 .. n /\ k + 1 \in 1 .. n
    BY <1>1
  <2> QED BY <1>1, <2>1 DEF Follows
<1> QED BY <1>1, <1>2

LEMMA ChainedConcat ==
  ASSUME NEW s \in Seq(Units), NEW t \in Seq(Units), Chained(s), Chained(t),
         s # <<>> /\ t # <<>> => Follows(s[Len(s)], t[1])
  PROVE  Chained(s \o t)
<1>1. /\ Len(s) \in Nat /\ Len(t) \in Nat /\ Len(s \o t) = Len(s) + Len(t)
      /\ \A k \in 1 .. Len(s) + Len(t) : (s \o t)[k] = IF k <= Len(s) THEN s[k] ELSE t[k - Len(s)]
  BY ConcatProperties
<1> SUFFICES ASSUME NEW k \in 1 .. Len(s) + Len(t) - 1
             PROVE  Follows((s \o t)[k], (s \o t)[k + 1])
  BY <1>1 DEF Chained
<1> DEFINE c == s \o t
<1>2. k \in 1 .. Len(s) + Len(t) /\ k + 1 \in 1 .. Len(s) + Len(t)
  BY <1>1
<1>3. CASE k < Len(s)
  <2>1. c[k] = s[k] /\ c[k + 1] = s[k + 1] /\ k \in 1 .. Len(s) - 1
    BY <1>1, <1>2, <1>3
  <2> QED BY <2>1 DEF Chained
<1>4. CASE k = Len(s)
  <2>1. c[k] = s[k] /\ c[k + 1] = t[1] /\ Len(s) > 0 /\ Len(t) > 0
    BY <1>1, <1>2, <1>4
  <2>2. s # <<>> /\ t # <<>>
    BY <2>1, EmptySeq
  <2> QED BY <1>4, <2>1, <2>2
<1>5. CASE k > Len(s)
  <2>1. c[k] = t[k - Len(s)] /\ c[k + 1] = t[k - Len(s) + 1] /\ k - Len(s) \in 1 .. Len(t) - 1
    BY <1>1, <1>2, <1>5
  <2> QED BY <2>1 DEF Chained
<1> QED BY <1>1, <1>3, <1>4, <1>5

LEMMA ConcatEnds ==
  ASSUME NEW s \in Seq(Units), NEW t \in Seq(Units)
  PROVE  /\ s # <<>> => s \o t # <<>> /\ (s \o t)[1] = s[1]
         /\ t # <<>> => s \o t # <<>> /\ (s \o t)[Len(s \o t)] = t[Len(t)]
<1>1. /\ Len(s) \in Nat /\ Len(t) \in Nat /\ Len(s \o t) = Len(s) + Len(t) /\ s \o t \in Seq(Units)
      /\ \A k \in 1 .. Len(s) + Len(t) : (s \o t)[k] = IF k <= Len(s) THEN s[k] ELSE t[k - Len(s)]
  BY ConcatProperties
<1>2. (s # <<>> => Len(s) > 0) /\ (t # <<>> => Len(t) > 0) /\ (Len(s \o t) > 0 => s \o t # <<>>)
  BY <1>1, EmptySeq
<1>3. s # <<>> => s \o t # <<>> /\ (s \o t)[1] = s[1]
  BY <1>1, <1>2
<1>4. ASSUME t # <<>> PROVE s \o t # <<>> /\ (s \o t)[Len(s \o t)] = t[Len(t)]
  <2>1. Len(t) > 0 /\ s \o t # <<>>
    BY <1>1, <1>2, <1>4
  <2>2. ~(Len(s) + Len(t) <= Len(s)) /\ Len(s) + Len(t) - Len(s) = Len(t) /\ Len(s) + Len(t) \in 1 .. Len(s) + Len(t)
    BY <1>1, <2>1
  <2> QED BY <1>1, <2>1, <2>2
<1> QED BY <1>3, <1>4

\* The n units of a message after its first m are chained.
LEMMA PartChained ==
  ASSUME NEW s, NEW m \in Nat, NEW n \in Nat, NEW r, Len(r) = n,
         m + n <= Len(s), Len(s) \in Nat,
         \A k \in 1 .. Len(s) - 1 : Follows(s[k], s[k + 1]),
         \A k \in 1 .. n : r[k] = s[m + k]
  PROVE  Chained(r)
<1> SUFFICES ASSUME NEW k \in 1 .. n - 1 PROVE Follows(r[k], r[k + 1])
  BY DEF Chained
<1>1. k \in 1 .. n /\ k + 1 \in 1 .. n /\ m + k \in 1 .. Len(s) - 1 /\ m + (k + 1) = m + k + 1
  OBVIOUS
<1> QED BY <1>1

\* While no byte moves, what waits stays chained.
LEMMA QuietKeepsWhole == ASSUME WholeInv, QuietStep PROVE Whole'
<1>1. Pending' = Pending /\ line' = line /\ (broken /\ ~broken' => Pending' = <<>>)
  BY Quiet DEF WholeInv
<1>2. ASSUME Pending = <<>> PROVE Chained(Pending)
  <2>1. ~(\E k : k \in 1 .. Len(<<>>) - 1)
    BY EmptySeq
  <2> QED BY <1>2, <2>1 DEF Chained
<1>3. Chained(Pending)' <=> Chained(Pending)
  BY <1>1 DEF Chained
<1> QED BY <1>1, <1>2, <1>3 DEF WholeInv, Whole

LEMMA WholeInitially == Init => WholeInv
<1> SUFFICES ASSUME Init PROVE WholeInv
  OBVIOUS
<1>1. OneInv /\ pc[Isr] = "idle"
  BY OneInitially, IsrIsWriter DEF Init
<1>2. Pending = <<>>
  <2>1. <<>> \in Seq(Units) /\ 0 + 1 = 1
    BY EmptySeq
  <2> QED BY <2>1, PendingIsFifo DEF Init
<1>3. Chained(Pending)
  <2>1. ~(\E k : k \in 1 .. Len(<<>>) - 1)
    BY EmptySeq
  <2> QED BY <1>2, <2>1 DEF Chained
<1> QED BY <1>1, <1>2, <1>3 DEF WholeInv, Whole, CallHolds

LEMMA StartKeepsWhole ==
  ASSUME WholeInv, OneInv', Start(Isr), gState = "ready"
  PROVE  Whole' /\ CallHolds'
<1> DEFINE n == direct[Isr]
           s == SubSeq(send_buffer, 1, n)
<1>1. TypeOK' /\ pc \in [Writers -> PcStates] /\ Isr \in Writers /\ pc[Isr] = "start" /\ line' = line
  BY IsrIsWriter DEF WholeInv, OneInv, IInv, TypeOK, Start
<1>2. /\ Pending' = s \o send_fifo /\ Pending = send_fifo /\ (broken => broken')
      /\ send_fifo \in Seq(Units) /\ s \in Seq(Units) /\ Len(s) = n /\ n \in Nat /\ n > 0
      /\ \A k \in 1 .. n : s[k] = send_buffer[k]
  BY <1>1, StartPending DEF WholeInv
<1>3. PICK id \in Ids, l \in Lens : msg[Isr] = Message(id, l)
  BY <1>1 DEF WholeInv, CallHolds
<1> DEFINE m == msg[Isr]
<1>4. n <= Len(m) /\ \A k \in 1 .. n : send_buffer[k] = m[k]
  BY <1>1 DEF WholeInv, CallHolds, OneInv, IInv, Fits
<1>5. Len(m) \in Nat /\ m[1][2] = 1 /\ \A k \in 1 .. Len(m) - 1 : Follows(m[k], m[k + 1])
  BY <1>3, MessageChained
<1>6. pc'[Isr] \in {"idle", "puts"} /\ (pc'[Isr] = "puts" => direct' = direct /\ msg' = msg)
  BY <1>1 DEF Start, GoOn, Return
<1> HIDE DEF n, m, s
<1>7. Chained(s)
  <2>1. 0 \in Nat /\ 0 + n <= Len(m) /\ \A k \in 1 .. n : s[k] = m[0 + k]
    BY <1>2, <1>4, <1>5
  <2> QED BY <1>2, <1>5, <2>1, PartChained
<1>8. s # <<>> /\ s[1] = m[1] /\ s[Len(s)] = m[n] /\ 1 \in 1 .. n /\ n \in 1 .. n
  BY <1>2, <1>4, EmptySeq
<1>9. CASE broken'
  BY <1>3, <1>6, <1>9 DEF Whole, CallHolds
<1>10. CASE ~broken'
  <2>1. send_fifo = <<>>
    BY <1>1, <1>2, <1>10 DEF WholeInv, OneInv, OneWriter, CallKnows
  <2>2. Pending' = s
    BY <1>2, <2>1, ConcatEmptySeq
  <2>3. Chained(Pending)'
    BY <1>7, <2>2 DEF Chained
  <2>4. Whole'
    BY <1>1, <1>5, <1>8, <2>2, <2>3 DEF Whole, Follows
  <2>5. LastPut' = m[n]
    BY <1>8, <2>2 DEF LastPut
  <2>6. pc'[Isr] = "puts" => direct'[Isr] = n /\ msg'[Isr] = m
    BY <1>6 DEF n, m
  <2> QED BY <1>3, <1>6, <2>4, <2>5, <2>6 DEF CallHolds, n, m
<1> QED BY <1>9, <1>10

LEMMA PutsKeepWhole ==
  ASSUME WholeInv, OneInv', Puts(Isr)
  PROVE  Whole' /\ CallHolds'
<1> DEFINE p == FifoPart(Isr)
           n == Accepted(Isr)
           d == direct[Isr]
           m == msg[Isr]
<1>1. TypeOK /\ TypeOK' /\ pc \in [Writers -> PcStates] /\ Isr \in Writers /\ pc[Isr] = "puts" /\ line' = line
  BY IsrIsWriter DEF WholeInv, OneInv, IInv, TypeOK, Puts, dmaVars
<1>2. pc'[Isr] = "idle"
  BY <1>1 DEF Puts, Return, GoOn
<1>3. CallHolds'
  BY <1>2 DEF CallHolds
<1>4. PICK id \in Ids, l \in Lens : m = Message(id, l)
  BY <1>1 DEF WholeInv, CallHolds
<1>5. Len(m) \in Nat /\ m[1][2] = 1 /\ \A k \in 1 .. Len(m) - 1 : Follows(m[k], m[k + 1])
  BY <1>4, MessageChained
<1>6. /\ p \in Seq(Units) /\ n \in Nat /\ Len(p) = n /\ d + n <= Len(m) /\ d \in Nat
      /\ \A k \in 1 .. n : p[k] = m[d + k]
  BY <1>1, PartTyped DEF WholeInv, OneInv, TypeOK
<1>7. Pending' = Pending \o p /\ Pending \in Seq(Units)
  BY <1>1, PutsPending, PendingTyped DEF WholeInv
<1>8. ~broken /\ d > 0 => LastPut = m[d]
  BY <1>1 DEF WholeInv, CallHolds
<1>9. is_sending' /\ (broken => broken')
  BY <1>1, NotMended DEF Puts, WholeInv, OneInv, CallKnows
<1> HIDE DEF p, n, d, m
<1>10. CASE broken'
  BY <1>3, <1>10 DEF Whole
<1>11. CASE ~broken'
  <2>1. ~broken
    BY <1>9, <1>11
  <2>2. Chained(Pending) /\ (line # Nothing /\ Pending # <<>> => Follows(line, Pending[1]))
    BY <2>1 DEF WholeInv, Whole
  <2>3. Chained(p)
    BY <1>5, <1>6, PartChained
  <2>4. ASSUME p # <<>> PROVE p[1][2] = 1 \/ (Follows(LastPut, p[1]) /\ d > 0)
    <3>1. n > 0 /\ 1 \in 1 .. n /\ p[1] = m[d + 1]
      BY <1>6, <2>4, EmptySeq
    <3>2. CASE d = 0
      BY <1>5, <3>1, <3>2
    <3>3. CASE d > 0
      <4>1. d \in 1 .. Len(m) - 1
        BY <1>5, <1>6, <3>1, <3>3
      <4> QED BY <1>5, <1>8, <2>1, <3>1, <3>3, <4>1
    <3> QED BY <1>6, <3>2, <3>3
  <2>5. p # <<>> => Follows(LastPut, p[1])
    BY <2>4 DEF Follows
  <2>6. Chained(Pending \o p)
    BY <1>6, <1>7, <2>2, <2>3, <2>5, ChainedConcat DEF LastPut
  <2>7. ASSUME line # Nothing, Pending \o p # <<>> PROVE Follows(line, (Pending \o p)[1])
    <3>1. CASE Pending # <<>>
      BY <1>6, <1>7, <2>2, <2>7, <3>1, ConcatEnds
    <3>2. CASE Pending = <<>>
      <4>1. Pending \o p = p
        BY <1>6, <3>2, ConcatEmptySeq
      <4> QED BY <2>5, <2>7, <3>2, <4>1 DEF LastPut
    <3> QED BY <3>1, <3>2
  <2>8. Chained(Pending)'
    BY <1>7, <2>6 DEF Chained
  <2> QED BY <1>1, <1>3, <1>7, <2>7, <2>8 DEF Whole
<1> QED BY <1>10, <1>11

LEMMA EmitKeepsWhole ==
  ASSUME WholeInv, OneInv', Emit
  PROVE  Whole' /\ CallHolds'
<1>1. TypeOK /\ Pending \in Seq(Units)
  BY PendingTyped DEF WholeInv, OneInv, IInv
<1>2. Pending # <<>> /\ line' = Head(Pending) /\ Pending' = Tail(Pending)
  BY EmitEmits DEF WholeInv, Queue!Emit
<1>3. is_sending /\ UNCHANGED <<pc, msg, direct, send_buffer, is_sending>> /\ StillBroken
  BY DEF Emit, writerVars, WholeInv, OneInv, OneWriter
<1>4. (broken' => broken) /\ (broken => broken')
  BY <1>3, NotMended, Mends DEF WholeInv, OneInv, IInv
<1>5. /\ Len(Pending) \in Nat /\ Len(Pending) > 0 /\ line' = Pending[1]
      /\ Pending' \in Seq(Units) /\ Len(Pending') = Len(Pending) - 1
      /\ \A k \in 1 .. Len(Pending) - 1 : Pending'[k] = Pending[k + 1]
  BY <1>1, <1>2, EmptySeq, HeadTailProperties
<1>6. ASSUME ~broken' PROVE Chained(Pending)' /\ (Pending' # <<>> => Follows(line', Pending'[1]))
  <2>1. \A k \in 1 .. Len(Pending) - 1 : Follows(Pending[k], Pending[k + 1])
    BY <1>4, <1>6 DEF WholeInv, Whole, Chained
  <2>2. ASSUME NEW k \in 1 .. Len(Pending') - 1 PROVE Follows(Pending'[k], Pending'[k + 1])
    <3>1. k \in 1 .. Len(Pending) - 1 /\ k + 1 \in 1 .. Len(Pending) - 1
      BY <1>5
    <3>2. Pending'[k] = Pending[k + 1] /\ Pending'[k + 1] = Pending[k + 1 + 1]
      BY <1>5, <3>1
    <3> QED BY <2>1, <3>1, <3>2
  <2>3. Chained(Pending)'
    BY <2>2 DEF Chained
  <2>4. ASSUME Pending' # <<>> PROVE Follows(line', Pending'[1])
    <3>1. Len(Pending') > 0
      BY <1>5, <2>4, EmptySeq
    <3>2. 1 \in 1 .. Len(Pending) - 1 /\ Pending'[1] = Pending[1 + 1]
      BY <1>5, <3>1
    <3> QED BY <1>5, <2>1, <3>2
  <2> QED BY <2>3, <2>4
<1>7. LastPut' = LastPut
  <2>1. CASE Pending' = <<>>
    <3>1. Len(Pending) = 1
      BY <1>5, <2>1, EmptySeq
    <3> QED BY <1>2, <1>5, <2>1, <3>1 DEF LastPut
  <2>2. CASE Pending' # <<>>
    <3>1. Len(Pending') > 0
      BY <1>5, <2>2, EmptySeq
    <3>2. Len(Pending') \in 1 .. Len(Pending) - 1 /\ Len(Pending') + 1 = Len(Pending)
      BY <1>5, <3>1
    <3>3. Pending'[Len(Pending')] = Pending[Len(Pending)]
      BY <1>5, <3>2
    <3> QED BY <1>2, <2>2, <3>3 DEF LastPut
  <2> QED BY <2>1, <2>2
<1>8. Whole'
  BY <1>6 DEF Whole
<1>9. CallHolds'
  BY <1>3, <1>4, <1>7 DEF WholeInv, CallHolds
<1> QED BY <1>8, <1>9

LEMMA QuietKeepsCall ==
  ASSUME WholeInv, OneInv', QuietStep
  PROVE  CallHolds'
<1>1. /\ pc \in [Writers -> PcStates] /\ msg \in [Writers -> Seq(Units)]
      /\ direct \in [Writers -> 0 .. BufSize] /\ Isr \in Writers
  BY IsrIsWriter DEF WholeInv, OneInv, IInv, TypeOK
<1>2. Pending' = Pending /\ line' = line /\ (broken => broken' \/ Pending' = <<>>)
  BY Quiet DEF WholeInv
<1>3. LastPut' = LastPut
  BY <1>2 DEF LastPut
<1>4. CASE Begin(Isr)
  <2>1. PICK id \in Ids, n \in Lens : msg' = [msg EXCEPT ![Isr] = Message(id, n)]
    BY <1>4 DEF Begin
  <2>2. pc'[Isr] \in {"check", "split"} /\ msg'[Isr] = Message(id, n)
    BY <1>1, <1>4, <2>1 DEF Begin, GoOn
  <2> QED BY <2>2 DEF CallHolds
<1>11. CASE Check(Isr) \/ Clear(Isr)
  <2>1. pc[Isr] # "idle" /\ pc'[Isr] \in {"clear", "split"} /\ msg' = msg
    BY <1>1, <1>11 DEF Check, Clear, GoOn
  <2> QED BY <2>1 DEF WholeInv, CallHolds
<1>5. CASE Split(Isr)
  <2>1. pc[Isr] = "split" /\ pc'[Isr] \in {"copy", "puts"} /\ msg' = msg
    BY <1>1, <1>5 DEF Split, GoOn
  <2>2. pc'[Isr] = "puts" => ~(direct'[Isr] > 0)
    BY <1>1, <1>5 DEF Split, GoOn
  <2> QED BY <2>1, <2>2 DEF WholeInv, CallHolds
<1>6. CASE Copy(Isr)
  <2> DEFINE s == msg[Isr]
             n == direct[Isr]
             r == SubSeq(s, 1, n) \o SubSeq(send_buffer, n + 1, Len(send_buffer))
  <2>1. pc[Isr] = "copy" /\ pc'[Isr] = "flag" /\ msg' = msg /\ direct' = direct /\ send_buffer' = r
    BY <1>1, <1>6 DEF Copy, GoOn
  <2>2. s \in Seq(Units) /\ n \in 0 .. Len(s) /\ send_buffer \in Seq(Units)
    BY <1>1 DEF WholeInv, OneInv, IInv, TypeOK, Fits
  <2> HIDE DEF s, n
  <2>3. \A k \in 1 .. n : r[k] = s[k]
    BY <2>2, Overwritten
  <2> HIDE DEF r
  <2>4. \A k \in 1 .. n : send_buffer'[k] = s[k]
    BY <2>1, <2>3
  <2> QED BY <2>1, <2>4 DEF WholeInv, CallHolds, s, n
<1>7. CASE Flag(Isr)
  <2>1. /\ pc[Isr] = "flag" /\ pc'[Isr] = "start"
        /\ UNCHANGED <<msg, direct, send_buffer>>
    BY <1>1, <1>7 DEF Flag, GoOn, dmaVars
  <2> QED BY <2>1 DEF WholeInv, CallHolds
<1>8. CASE Start(Isr) /\ gState # "ready"
  <2>1. pc'[Isr] = "idle"
    BY <1>1, <1>8 DEF Start, Return, GoOn
  <2> QED BY <2>1 DEF CallHolds
<1>9. CASE Complete \/ PrintBegins \/ PrintEnds
  <2>1. pc[Isr] = "idle" /\ pc' = pc
    BY <1>9 DEF Complete, PrintBegins, PrintEnds, NoInterrupt, writerVars
  <2> QED BY <2>1 DEF CallHolds
<1>10. CASE UNCHANGED vars
  BY <1>3, <1>10 DEF WholeInv, CallHolds, vars, writerVars, dmaVars
<1> QED BY <1>4, <1>5, <1>6, <1>7, <1>8, <1>9, <1>10, <1>11 DEF QuietStep

LEMMA WholeInductive ==
  ASSUME Tasks = 0, WholeInv, [Next]_vars
  PROVE  WholeInv'
<1>1. OneInv'
  BY OneInductive DEF WholeInv
<1>2. QuietStep => Whole' /\ CallHolds'
  BY <1>1, QuietKeepsWhole, QuietKeepsCall
<1>3. DmaError => Whole' /\ CallHolds'
  BY DEF DmaError, NoInterrupt, writerVars, Whole, CallHolds
<1>4. Start(Isr) /\ gState = "ready" => Whole' /\ CallHolds'
  BY <1>1, StartKeepsWhole
<1>5. Puts(Isr) => Whole' /\ CallHolds'
  BY <1>1, PutsKeepWhole
<1>6. Emit => Whole' /\ CallHolds'
  BY <1>1, EmitKeepsWhole
<1> QED BY <1>1, <1>2, <1>3, <1>4, <1>5, <1>6, OneNext DEF WholeInv

\* With one writer messages do not mix on the line, for every length of the
\* messages: after a byte comes the next of its message or the first of
\* another, until an error takes bytes away.
THEOREM MessagesWhole == ASSUME Tasks = 0 PROVE Spec => WholeMessages
<1> DEFINE Step == Emit /\ ~broken /\ line # Nothing =>
                     line'[2] = 1 \/ line' = <<line[1], line[2] + 1>>
<1>1. ASSUME WholeInv PROVE Step
  <2> SUFFICES ASSUME Emit, ~broken, line # Nothing PROVE Follows(line, line')
    BY DEF Follows
  <2>1. Pending # <<>> /\ line' = Head(Pending)
    BY <1>1, EmitEmits DEF WholeInv, Queue!Emit
  <2>2. Pending \in Seq(Units)
    BY <1>1, PendingTyped DEF WholeInv, OneInv, IInv
  <2>3. line' = Pending[1]
    BY <2>1, <2>2
  <2> QED BY <1>1, <2>1, <2>3 DEF WholeInv, Whole
<1>2. WholeInv => [Step]_vars
  BY <1>1
<1>3. WholeInv /\ [Next]_vars => WholeInv'
  BY WholeInductive
<1> HIDE DEF Step
<1>4. Spec => [][Step]_vars
  BY <1>2, <1>3, WholeInitially, PTL DEF Spec
<1> QED BY <1>4 DEF Step, WholeMessages
===============================================================================
