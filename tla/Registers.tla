------------------------------- MODULE Registers -------------------------------
(***************************************************************************)
(* The holding registers (application/modbus_register_interface.c) and who *)
(* writes them: the two encoder readers, the UDP callback of the load      *)
(* metrics, and the Modbus slave.  The first three go through mb_reg_*,    *)
(* under g_reg_mutex; the slave changes the same words under a semaphore   *)
(* of its own.  All have one priority and are time-sliced, so another can  *)
(* come in between two words.                                              *)
(*                                                                         *)
(* The report reads all words in one critical section (mb_reg_read_multi)  *)
(* and has a higher priority than the writers: what it packs is the state  *)
(* at any moment at which it finds the mutex free (Readable).              *)
(*                                                                         *)
(* A measurement is abstracted to its age: a word holds the writer's       *)
(* latest one, the one before, an older one, or nothing yet.               *)
(***************************************************************************)
EXTENDS Integers, Sequences

CONSTANTS
  Writers,     \* tasks that write measurements
  Failing,     \* those whose query may fail, which clears their validity bit
  PairsOf,     \* the register pairs of a writer, in the order of its writes
  BitOf,       \* its bit in REG_DATA_VAILD
  CoilWord     \* the word in which the Modbus master sets and clears a coil

PairSet(w) == {PairsOf[w][k] : k \in 1 .. Len(PairsOf[w])}
Pairs == UNION {PairSet(w) : w \in Writers}
Words == {"valid", "spare"}     \* REG_DATA_VAILD, and a register in reserve
Ages  == {"none", "older", "previous", "latest"}
Coil  == 2                      \* REG_DATA_VAILD_BIT_HOOK_ENCODER: no task writes it
Free  == "free"

\* Every register and every bit has one writer (modbus_register_database.h).
ASSUME RegistersAssumption ==
  /\ Failing \subseteq Writers /\ Free \notin Writers
  /\ BitOf \in [Writers -> (0 .. 15) \ {Coil}]
  /\ DOMAIN PairsOf = Writers
  /\ \A w \in Writers :
       /\ PairsOf[w] \in Seq(Nat) /\ PairsOf[w] # <<>>
       /\ \A i, j \in 1 .. Len(PairsOf[w]) : i # j => PairsOf[w][i] # PairsOf[w][j]
  /\ \A v, w \in Writers :
       v # w => BitOf[v] # BitOf[w] /\ PairSet(v) \cap PairSet(w) = {}
  /\ CoilWord \in Words

VARIABLES
  pc, index,   \* of a writer: its step, and the pair it writes next
  good,        \* whether it has a measurement
  seen,        \* the word as it read it in mb_reg_write_bit
  mutex,       \* the holder of g_reg_mutex
  high, low,   \* the two words of a pair
  bits,        \* the bits of the other words
  slave, coil, \* of the slave: its step, and the word as it read it
  outcome      \* history: whether the writer's last round had a measurement

writerVars == <<pc, index, good, seen>>
slaveVars  == <<slave, coil>>
vars == <<writerVars, mutex, high, low, bits, slaveVars, outcome>>

Init ==
  /\ pc = [w \in Writers |-> "idle"] /\ index = [w \in Writers |-> 1]
  /\ good = [w \in Writers |-> FALSE] /\ seen = [w \in Writers |-> {}]
  /\ mutex = Free
  /\ high = [p \in Pairs |-> "none"] /\ low = [p \in Pairs |-> "none"]
  /\ bits = [x \in Words |-> {}]
  /\ slave = "idle" /\ coil = {}
  /\ outcome = [w \in Writers |-> FALSE]

Goes(w, at) == pc' = [pc EXCEPT ![w] = at]

(***************************************************************************)
(* A round of a writer: OP_OK_QUERY or a frame of load metrics, or an      *)
(* error, which leaves the registers of the measurement alone.             *)
(***************************************************************************)
Aged(a) == CASE a = "latest" -> "previous" [] a = "previous" -> "older" [] OTHER -> a
AgedIn(f, w) == [p \in Pairs |-> IF p \in PairSet(w) THEN Aged(f[p]) ELSE f[p]]

\* Mutant: the bit is set before the measurement is stored.
BitFirst == "bit"

FirstStep == "store"

Measure(w) ==
  /\ pc[w] = "idle"
  /\ good' = [good EXCEPT ![w] = TRUE]
  /\ high' = AgedIn(high, w) /\ low' = AgedIn(low, w)
  /\ Goes(w, FirstStep)
  /\ UNCHANGED <<index, seen, mutex, bits, slaveVars, outcome>>

Fail(w) ==
  /\ w \in Failing /\ pc[w] = "idle"
  /\ good' = [good EXCEPT ![w] = FALSE]
  /\ Goes(w, "bit")
  /\ UNCHANGED <<index, seen, mutex, high, low, bits, slaveVars, outcome>>

(***************************************************************************)
(* mb_reg_write_u32 and mb_reg_write_float: two words in a critical        *)
(* section.                                                                *)
(***************************************************************************)
Acquire(w) == mutex = Free /\ mutex' = w

\* Mutant: the mutex is released on one of the ways only.
ReleaseForgotten == UNCHANGED mutex

Release == mutex' = Free

\* Mutant: the pairs are written in the reverse order.
PairReversed(w) == PairsOf[w][Len(PairsOf[w]) + 1 - index[w]]

Pair(w) == PairsOf[w][index[w]]

StoreHigh(w) ==
  /\ pc[w] = "store"
  /\ Acquire(w)
  /\ high' = [high EXCEPT ![Pair(w)] = "latest"]
  /\ Goes(w, "low")
  /\ UNCHANGED <<index, good, seen, low, bits, slaveVars, outcome>>

StoreLow(w) ==
  /\ pc[w] = "low"
  /\ low' = [low EXCEPT ![Pair(w)] = "latest"]
  /\ Release
  /\ \/ /\ index[w] < Len(PairsOf[w])
        /\ index' = [index EXCEPT ![w] = @ + 1] /\ Goes(w, "store")
     \/ /\ index[w] = Len(PairsOf[w])
        /\ index' = [index EXCEPT ![w] = 1] /\ Goes(w, "bit")
  /\ UNCHANGED <<good, seen, high, bits, slaveVars, outcome>>

(***************************************************************************)
(* mb_reg_write_bit: reads, changes and writes a word in a critical        *)
(* section.                                                                *)
(***************************************************************************)

\* Mutant: the word is read before the mutex is taken.
BitUnlocked(w) == mutex' = mutex

AcquireBit(w) == Acquire(w)

\* Mutant: a bit position off by one.
MaskShifted(w) == {BitOf[w] + 1}

Mask(w) == {BitOf[w]}

ReadBits(w) ==
  /\ pc[w] = "bit"
  /\ AcquireBit(w)
  /\ seen' = [seen EXCEPT ![w] = bits["valid"]]
  /\ Goes(w, "write")
  /\ UNCHANGED <<index, good, high, low, bits, slaveVars, outcome>>

WriteBits(w) ==
  /\ pc[w] = "write"
  /\ bits' = [bits EXCEPT !["valid"] = IF good[w] THEN seen[w] \cup Mask(w) ELSE seen[w] \ Mask(w)]
  /\ seen' = [seen EXCEPT ![w] = {}]
  /\ outcome' = [outcome EXCEPT ![w] = good[w]]
  /\ Release
  /\ Goes(w, "idle")
  /\ UNCHANGED <<index, good, high, low, slaveVars>>

(***************************************************************************)
(* process_FC5 of the slave: bitWrite on a word of u16regs, which are the  *)
(* registers themselves.                                                   *)
(***************************************************************************)
ReadCoil ==
  /\ slave = "idle" /\ slave' = "write"
  /\ coil' = bits[CoilWord]
  /\ UNCHANGED <<writerVars, mutex, high, low, bits, outcome>>

WriteCoil ==
  /\ slave = "write" /\ slave' = "idle"
  /\ \E on \in BOOLEAN :
       bits' = [bits EXCEPT ![CoilWord] = IF on THEN coil \cup {Coil} ELSE coil \ {Coil}]
  /\ coil' = {}
  /\ UNCHANGED <<writerVars, mutex, high, low, outcome>>

Store(w)  == StoreHigh(w) \/ StoreLow(w)
Access(w) == Store(w) \/ ReadBits(w) \/ WriteBits(w)
Next ==
  \/ \E w \in Writers : Measure(w) \/ Fail(w) \/ Access(w)
  \/ ReadCoil \/ WriteCoil

Spec == Init /\ [][Next]_vars

\* A writer that waits for the mutex gets it in the end: all delay between
\* their rounds.
FairSpec == Spec /\ \A w \in Writers : SF_vars(Access(w))

(***************************************************************************)
(* The words hold only the bits that some task writes, in its own word.    *)
(***************************************************************************)
TypeOK ==
  /\ pc \in [Writers -> {"idle", "store", "low", "bit", "write"}]
  /\ \A w \in Writers : index[w] \in 1 .. Len(PairsOf[w])
  /\ good \in [Writers -> BOOLEAN] /\ outcome \in [Writers -> BOOLEAN]
  /\ mutex \in Writers \cup {Free}
  /\ high \in [Pairs -> Ages] /\ low \in [Pairs -> Ages]
  /\ slave \in {"idle", "write"}
  /\ bits["valid"] \subseteq {BitOf[w] : w \in Writers} \cup {Coil}
  /\ bits["spare"] \subseteq {Coil}

\* Mutant: the report copies the registers without the mutex.
ReadableAlways == TRUE

\* Whether the report finds the mutex free, so that mb_reg_read_multi_u16
\* returns what the registers hold now.
Readable == mutex = Free

(***************************************************************************)
(* A report never packs half of a pair: the two words of a value are of    *)
(* one measurement (mb_reg_write_u32, mb_reg_write_float).                 *)
(***************************************************************************)
PairsWhole == Readable => high = low

(***************************************************************************)
(* A report may mix two frames of load metrics, since eth_udp_recv writes  *)
(* its values in separate critical sections, but never more than two, and  *)
(* the values of the newer frame are the first ones.                       *)
(***************************************************************************)
FramesInOrder ==
  Readable => \A w \in Writers :
    /\ \A p \in PairSet(w) : low[p] # "older"
    /\ \A i, j \in 1 .. Len(PairsOf[w]) :
         i < j /\ low[PairsOf[w][j]] = "latest" => low[PairsOf[w][i]] = "latest"

(***************************************************************************)
(* A validity bit that is set covers values that were measured: the        *)
(* registers start as zeros, which no report may call valid.               *)
(***************************************************************************)
ValidIsStored ==
  \A w \in Writers : BitOf[w] \in bits["valid"] => \A p \in PairSet(w) : low[p] # "none"

(***************************************************************************)
(* No update of a validity bit is lost ("thread-safe", the comment on      *)
(* mb_reg_write_bit): a writer's bit says how its last round went, however *)
(* the others' updates of the same word fall between.                      *)
(***************************************************************************)
BitsAgree ==
  \A w \in Writers : BitOf[w] \in bits["valid"] <=> outcome[w]

(***************************************************************************)
(* A round that began comes to its end: every way through mb_reg_* gives   *)
(* the mutex back.                                                         *)
(***************************************************************************)
AccessEnds == \A w \in Writers : pc[w] # "idle" ~> pc[w] = "idle"
===============================================================================
