---------------------------- MODULE RegistersProofs ----------------------------
(***************************************************************************)
(* Safety of Registers for every set of writers, of registers and of bits, *)
(* and for every way in which their critical sections and the slave's      *)
(* unlocked access fall between each other.                                *)
(***************************************************************************)
EXTENDS Registers, TLAPS

(***************************************************************************)
(* The inductive invariant.                                                *)
(***************************************************************************)
BitsIn(x) == IF x = "valid" THEN {BitOf[w] : w \in Writers} \cup {Coil} ELSE {Coil}

\* TypeOK, with the domains and with what was read of a word before.
Typed ==
  /\ TypeOK
  /\ index \in [Writers -> Nat]
  /\ seen \in [Writers -> SUBSET BitsIn("valid")]
  /\ bits \in [Words -> SUBSET BitsIn("valid")]
  /\ coil \subseteq BitsIn(CoilWord)

\* Who is inside a critical section holds the mutex.
Locked == \A w \in Writers : pc[w] \in {"low", "write"} <=> mutex = w

\* The words of a pair differ only while its writer is between them.
HalfOnlyInside ==
  /\ \A w \in Writers : pc[w] = "low" => high[Pair(w)] = "latest"
  /\ \A p \in Pairs : high[p] = low[p] \/ \E w \in Writers : pc[w] = "low" /\ p = Pair(w)

\* What a writer read of the word is what the word holds until it writes it.
WordAgrees ==
  CoilWord = "spare" =>
    /\ \A w \in Writers : pc[w] = "write" => seen[w] = bits["valid"]
    /\ BitsAgree

Fresh(w) == \A k \in 1 .. Len(PairsOf[w]) : low[PairsOf[w][k]] = "latest"
Blank(w) == \A k \in 1 .. Len(PairsOf[w]) : low[PairsOf[w][k]] = "none"

\* How far a writer's round has come.
Midway(w) ==
  /\ good[w]
  /\ \A k \in 1 .. Len(PairsOf[w]) :
       IF k < index[w] THEN low[PairsOf[w][k]] = "latest"
                       ELSE low[PairsOf[w][k]] \in {"none", "previous"}
Around(w) ==
  /\ index[w] = 1
  /\ Fresh(w) \/ Blank(w)
  /\ pc[w] # "idle" /\ good[w] => Fresh(w)

Progress(w) ==
  /\ IF pc[w] \in {"store", "low"} THEN Midway(w) ELSE Around(w)
  /\ outcome[w] => \A k \in 1 .. Len(PairsOf[w]) : low[PairsOf[w][k]] # "none"

Rounds == \A w \in Writers : Progress(w)

IInv == Typed /\ Locked /\ HalfOnlyInside /\ WordAgrees /\ Rounds

(***************************************************************************)
(* Facts about the constants.                                              *)
(***************************************************************************)

\* Every register of a writer is a register, and a writer has one at least.
LEMMA PairsKnown ==
  ASSUME NEW w \in Writers
  PROVE  /\ Len(PairsOf[w]) \in Nat /\ Len(PairsOf[w]) >= 1
         /\ \A k \in 1 .. Len(PairsOf[w]) :
              PairsOf[w][k] \in PairSet(w) /\ PairsOf[w][k] \in Pairs
<1>1. PairsOf[w] \in Seq(Nat) /\ PairsOf[w] # <<>>
  BY RegistersAssumption
<1>2. Len(PairsOf[w]) \in Nat /\ Len(PairsOf[w]) >= 1
  BY <1>1
<1>3. \A k \in 1 .. Len(PairsOf[w]) : PairsOf[w][k] \in PairSet(w)
  BY DEF PairSet
<1>4. PairSet(w) \subseteq Pairs
  BY DEF Pairs
<1> QED BY <1>2, <1>3, <1>4

\* No writer has a register of another.
LEMMA PairsApart ==
  ASSUME NEW v \in Writers, NEW w \in Writers, v # w,
         NEW k \in 1 .. Len(PairsOf[v]), NEW p \in PairSet(w)
  PROVE  PairsOf[v][k] # p
<1>1. PairsOf[v][k] \in PairSet(v)
  BY DEF PairSet
<1>2. PairSet(v) \cap PairSet(w) = {}
  BY RegistersAssumption
<1> QED BY <1>1, <1>2

\* The register a writer is at is one of its own.
LEMMA PairKnown ==
  ASSUME Typed, NEW w \in Writers
  PROVE  Pair(w) \in PairSet(w) /\ Pair(w) \in Pairs /\ index[w] \in 1 .. Len(PairsOf[w])
<1>1. index[w] \in 1 .. Len(PairsOf[w])
  BY DEF Typed, TypeOK
<1> QED BY <1>1, PairsKnown DEF Pair

\* The initial state satisfies the invariant.
LEMMA InitHolds == Init => IInv
<1> SUFFICES ASSUME Init PROVE IInv
  OBVIOUS
<1> USE DEF Init
<1>1. Typed
  BY PairsKnown, RegistersAssumption DEF Typed, TypeOK, BitsIn, Words, Ages, Free
<1>2. Locked
  BY RegistersAssumption DEF Locked
<1>3. HalfOnlyInside
  BY DEF HalfOnlyInside
<1>4. WordAgrees
  BY DEF WordAgrees, BitsAgree, Words
<1>5. Rounds
  BY PairsKnown DEF Rounds, Progress, Around, Fresh, Blank
<1> QED BY <1>1, <1>2, <1>3, <1>4, <1>5 DEF IInv


\* A step keeps the types.
LEMMA TypedKept ==
  ASSUME Typed, [Next]_vars
  PROVE  Typed'
<1> USE DEF Typed, TypeOK
<1>1. ASSUME NEW w \in Writers, Measure(w) PROVE Typed'
  BY <1>1 DEF Measure, Goes, FirstStep, AgedIn, Aged, Ages, slaveVars
<1>2. ASSUME NEW w \in Writers, Fail(w) PROVE Typed'
  BY <1>2 DEF Fail, Goes, slaveVars
<1>3. ASSUME NEW w \in Writers, StoreHigh(w) PROVE Typed'
  BY <1>3 DEF StoreHigh, Acquire, Goes, Ages, slaveVars
<1>4. ASSUME NEW w \in Writers, StoreLow(w) PROVE Typed'
  <2>1. low' \in [Pairs -> Ages]
    BY <1>4 DEF StoreLow, Ages
  <2>2. PICK i \in 1 .. Len(PairsOf[w]) : index' = [index EXCEPT ![w] = i]
    <3>1. 1 \in 1 .. Len(PairsOf[w]) /\ Len(PairsOf[w]) \in Nat /\ index[w] \in Nat
      BY PairsKnown
    <3> QED BY <1>4, <3>1 DEF StoreLow
  <2>3. index' \in [Writers -> Nat] /\ \A v \in Writers : index'[v] \in 1 .. Len(PairsOf[v])
    BY <2>2
  <2> QED BY <1>4, <2>1, <2>3 DEF StoreLow, Release, Goes, slaveVars
<1>5. ASSUME NEW w \in Writers, ReadBits(w) PROVE Typed'
  BY <1>5 DEF ReadBits, AcquireBit, Acquire, Goes, Words, slaveVars
<1>6. ASSUME NEW w \in Writers, WriteBits(w) PROVE Typed'
  <2>1. Mask(w) \subseteq BitsIn("valid") /\ seen[w] \subseteq BitsIn("valid")
    BY RegistersAssumption DEF Mask, BitsIn
  <2>2. bits' \in [Words -> SUBSET BitsIn("valid")]
    BY <1>6, <2>1 DEF WriteBits, Words
  <2>3. bits'["valid"] \subseteq BitsIn("valid") /\ bits'["spare"] = bits["spare"]
    BY <1>6, <2>2 DEF WriteBits, Words
  <2> QED BY <1>6, <2>2, <2>3 DEF WriteBits, Release, Goes, BitsIn, slaveVars
<1>7. CASE ReadCoil
  BY <1>7, RegistersAssumption DEF ReadCoil, BitsIn, Words, writerVars
<1>8. CASE WriteCoil
  <2> PICK on \in BOOLEAN :
       bits' = [bits EXCEPT ![CoilWord] = IF on THEN coil \cup {Coil} ELSE coil \ {Coil}]
    BY <1>8 DEF WriteCoil
  <2>1. CoilWord \in Words
    BY RegistersAssumption
  <2>2. bits'[CoilWord] \subseteq BitsIn(CoilWord)
    BY <2>1 DEF BitsIn
  <2>3. BitsIn(CoilWord) \subseteq BitsIn("valid")
    BY DEF BitsIn
  <2>4. bits' \in [Words -> SUBSET BitsIn("valid")]
    BY <2>1, <2>2, <2>3
  <2>5. bits'["valid"] \subseteq BitsIn("valid") /\ bits'["spare"] \subseteq BitsIn("spare")
    BY <2>1, <2>2 DEF BitsIn, Words
  <2> QED BY <1>8, <2>4, <2>5 DEF WriteCoil, BitsIn, writerVars
<1>9. CASE UNCHANGED vars
  BY <1>9 DEF vars, writerVars, slaveVars
<1> QED BY <1>1, <1>2, <1>3, <1>4, <1>5, <1>6, <1>7, <1>8, <1>9 DEF Next, Access, Store

\* A step keeps the mutex with who is inside a critical section.
LEMMA LockedKept ==
  ASSUME Typed, Locked, [Next]_vars
  PROVE  Locked'
<1> USE RegistersAssumption DEF Typed, TypeOK, Locked
<1>1. ASSUME NEW w \in Writers, Measure(w) \/ Fail(w) PROVE Locked'
  BY <1>1 DEF Measure, Fail, Goes, FirstStep
<1>2. ASSUME NEW w \in Writers, StoreHigh(w) PROVE Locked'
  BY <1>2 DEF StoreHigh, Acquire, Goes
<1>3. ASSUME NEW w \in Writers, StoreLow(w) PROVE Locked'
  <2>1. \A v \in Writers : v # w => pc'[v] \notin {"low", "write"}
    BY <1>3 DEF StoreLow, Goes
  <2>2. pc'[w] \notin {"low", "write"} /\ mutex' = Free
    BY <1>3 DEF StoreLow, Release, Goes
  <2> QED BY <2>1, <2>2
<1>4. ASSUME NEW w \in Writers, ReadBits(w) PROVE Locked'
  BY <1>4 DEF ReadBits, AcquireBit, Acquire, Goes
<1>5. ASSUME NEW w \in Writers, WriteBits(w) PROVE Locked'
  BY <1>5 DEF WriteBits, Release, Goes
<1>6. CASE ReadCoil \/ WriteCoil \/ UNCHANGED vars
  BY <1>6 DEF ReadCoil, WriteCoil, vars, writerVars
<1> QED BY <1>1, <1>2, <1>3, <1>4, <1>5, <1>6 DEF Next, Access, Store

\* A step keeps the halves of the pairs together.
LEMMA HalfKept ==
  ASSUME Typed, HalfOnlyInside, [Next]_vars
  PROVE  HalfOnlyInside'
<1> USE DEF HalfOnlyInside, Pair
<1>0. \A w \in Writers : Pair(w) \in PairSet(w) /\ Pair(w) \in Pairs /\ index[w] \in 1 .. Len(PairsOf[w])
  BY PairKnown
<1>1. ASSUME NEW w \in Writers, Measure(w) PROVE HalfOnlyInside'
  <2>1. \A v \in Writers : pc'[v] = "low" => pc[v] = "low" /\ v # w
    BY <1>1 DEF Measure, Goes, FirstStep, Typed, TypeOK
  <2>2. \A v \in Writers : pc[v] = "low" => pc'[v] = "low"
    BY <1>1 DEF Measure, Goes, FirstStep, Typed, TypeOK
  <2>3. \A v \in Writers : pc'[v] = "low" => Pair(v) \notin PairSet(w)
    BY <1>0, <2>1, RegistersAssumption
  <2> QED BY <1>0, <1>1, <2>1, <2>2, <2>3 DEF Measure, AgedIn
<1>2. ASSUME NEW w \in Writers, Fail(w) PROVE HalfOnlyInside'
  BY <1>2 DEF Fail, Goes, Typed, TypeOK
<1>3. ASSUME NEW w \in Writers, StoreHigh(w) PROVE HalfOnlyInside'
  BY <1>0, <1>3 DEF StoreHigh, Goes, Typed, TypeOK
<1>4. ASSUME NEW w \in Writers, StoreLow(w) PROVE HalfOnlyInside'
  <2>1. \A v \in Writers : v # w => pc'[v] = pc[v] /\ index'[v] = index[v]
    BY <1>4 DEF StoreLow, Goes, Typed, TypeOK
  <2>2. pc[w] = "low" /\ pc'[w] # "low"
    BY <1>4 DEF StoreLow, Goes, Typed, TypeOK
  <2>3. low' = [low EXCEPT ![Pair(w)] = "latest"] /\ high' = high /\ low \in [Pairs -> Ages]
    BY <1>4 DEF StoreLow, Typed, TypeOK
  <2>4. \A v \in Writers : pc'[v] = "low" => high'[Pair(v)'] = "latest"
    BY <2>1, <2>2, <2>3
  <2>5. ASSUME NEW p \in Pairs
        PROVE  high'[p] = low'[p] \/ \E v \in Writers : pc'[v] = "low" /\ p = Pair(v)'
    <3>1. CASE p = Pair(w)
      BY <1>0, <2>2, <2>3, <3>1
    <3>2. CASE p # Pair(w)
      BY <2>1, <2>3, <3>2
    <3> QED BY <3>1, <3>2
  <2> QED BY <2>4, <2>5
<1>5. ASSUME NEW w \in Writers, ReadBits(w) PROVE HalfOnlyInside'
  BY <1>5 DEF ReadBits, Goes, Typed, TypeOK
<1>6. ASSUME NEW w \in Writers, WriteBits(w) PROVE HalfOnlyInside'
  BY <1>6 DEF WriteBits, Goes, Typed, TypeOK
<1>7. CASE ReadCoil \/ WriteCoil \/ UNCHANGED vars
  BY <1>7 DEF ReadCoil, WriteCoil, vars, writerVars
<1> QED BY <1>1, <1>2, <1>3, <1>4, <1>5, <1>6, <1>7 DEF Next, Access, Store

\* A step keeps the word that is read under the mutex, and the bits in it.
LEMMA WordKept ==
  ASSUME Typed, Locked, WordAgrees, [Next]_vars
  PROVE  WordAgrees'
<1> SUFFICES ASSUME CoilWord = "spare"
             PROVE  (/\ \A w \in Writers : pc[w] = "write" => seen[w] = bits["valid"]
                     /\ BitsAgree)'
  BY DEF WordAgrees
<1> DEFINE Agrees == /\ \A w \in Writers : pc[w] = "write" => seen[w] = bits["valid"]
                     /\ BitsAgree
<1>0. Agrees
  BY DEF WordAgrees
<1> USE DEF Typed, TypeOK, BitsAgree
<1>1. ASSUME NEW w \in Writers, Measure(w) \/ Fail(w) PROVE Agrees'
  BY <1>0, <1>1 DEF Measure, Fail, Goes, FirstStep
<1>2. ASSUME NEW w \in Writers, StoreHigh(w) \/ StoreLow(w) PROVE Agrees'
  BY <1>0, <1>2 DEF StoreHigh, StoreLow, Goes
<1>3. ASSUME NEW w \in Writers, ReadBits(w) PROVE Agrees'
  BY <1>0, <1>3 DEF ReadBits, Goes
<1>4. ASSUME NEW w \in Writers, WriteBits(w) PROVE Agrees'
  <2>1. pc[w] = "write" /\ mutex = w /\ seen[w] = bits["valid"]
    BY <1>0, <1>4 DEF WriteBits, Locked
  <2>2. \A v \in Writers : pc'[v] # "write"
    BY <1>4, <2>1 DEF WriteBits, Locked, Goes
  <2>3. bits'["valid"] = IF good[w] THEN bits["valid"] \cup {BitOf[w]} ELSE bits["valid"] \ {BitOf[w]}
    BY <1>4, <2>1 DEF WriteBits, Mask, Words
  <2>4. \A v \in Writers : outcome'[v] = IF v = w THEN good[w] ELSE outcome[v]
    BY <1>4 DEF WriteBits
  <2>5. \A v \in Writers : v # w => BitOf[v] # BitOf[w]
    BY RegistersAssumption
  <2>6. good[w] \in BOOLEAN
    OBVIOUS
  <2>7. \A v \in Writers : BitOf[v] \in bits'["valid"] <=> outcome'[v]
    BY <1>0, <2>3, <2>4, <2>5, <2>6
  <2> QED BY <2>2, <2>7
<1>5. CASE ReadCoil
  BY <1>0, <1>5 DEF ReadCoil, writerVars
<1>6. CASE WriteCoil
  <2>1. bits'["valid"] = bits["valid"]
    BY <1>6 DEF WriteCoil, Words
  <2> QED BY <1>0, <1>6, <2>1 DEF WriteCoil, writerVars
<1>7. CASE UNCHANGED vars
  BY <1>0, <1>7 DEF vars, writerVars
<1> QED BY <1>1, <1>2, <1>3, <1>4, <1>5, <1>6, <1>7 DEF Next, Access, Store

\* What a writer is at does not change by what others do.
LEMMA Untouched ==
  ASSUME NEW v \in Writers, Progress(v),
         pc'[v] = pc[v], index'[v] = index[v], good'[v] = good[v], outcome'[v] = outcome[v],
         \A k \in 1 .. Len(PairsOf[v]) : low'[PairsOf[v][k]] = low[PairsOf[v][k]]
  PROVE  Progress(v)'
BY DEF Progress, Midway, Around, Fresh, Blank

\* A step keeps how far every round has come.
LEMMA RoundsKept ==
  ASSUME Typed, Rounds, [Next]_vars
  PROVE  Rounds'
<1> USE DEF Typed, TypeOK
<1>1. ASSUME NEW w \in Writers, Measure(w) PROVE Rounds'
  <2>1. \A k \in 1 .. Len(PairsOf[w]) : low'[PairsOf[w][k]] = Aged(low[PairsOf[w][k]])
    BY <1>1, PairsKnown DEF Measure, AgedIn
  <2>2. Around(w) /\ pc[w] = "idle"
    BY <1>1 DEF Measure, Rounds, Progress
  <2>3. good'[w] /\ index'[w] = 1 /\ pc'[w] = "store" /\ outcome' = outcome
    BY <1>1, <2>2 DEF Measure, Around, Goes, FirstStep
  <2>4. Midway(w)'
    BY <2>1, <2>2, <2>3 DEF Midway, Around, Fresh, Blank, Aged
  <2>5. outcome'[w] => \A k \in 1 .. Len(PairsOf[w]) : low'[PairsOf[w][k]] # "none"
    BY <2>1, <2>2, <2>3 DEF Rounds, Progress, Around, Fresh, Blank, Aged
  <2>6. Progress(w)'
    BY <2>3, <2>4, <2>5 DEF Progress
  <2>7. ASSUME NEW v \in Writers, v # w PROVE Progress(v)'
    <3>1. \A k \in 1 .. Len(PairsOf[v]) : low'[PairsOf[v][k]] = low[PairsOf[v][k]]
      <4> TAKE k \in 1 .. Len(PairsOf[v])
      <4>1. PairsOf[v][k] \in Pairs /\ PairsOf[v][k] \notin PairSet(w)
        BY <2>7, PairsKnown, PairsApart
      <4> QED BY <1>1, <4>1 DEF Measure, AgedIn
    <3>2. /\ pc'[v] = pc[v] /\ index'[v] = index[v] /\ good'[v] = good[v]
          /\ outcome'[v] = outcome[v] /\ Progress(v)
      BY <1>1, <2>7 DEF Measure, Goes, Rounds
    <3> QED BY <3>1, <3>2, Untouched
  <2> QED BY <2>6, <2>7 DEF Rounds
<1>2. ASSUME NEW w \in Writers, Fail(w) PROVE Rounds'
  <2>1. Progress(w)'
    BY <1>2 DEF Fail, Goes, Rounds, Progress, Around, Fresh, Blank
  <2>2. ASSUME NEW v \in Writers, v # w PROVE Progress(v)'
    BY <1>2, <2>2, Untouched DEF Fail, Goes, Rounds
  <2> QED BY <2>1, <2>2 DEF Rounds
<1>3. ASSUME NEW w \in Writers, StoreHigh(w) PROVE Rounds'
  <2>1. Progress(w)'
    BY <1>3 DEF StoreHigh, Goes, Rounds, Progress, Midway
  <2>2. ASSUME NEW v \in Writers, v # w PROVE Progress(v)'
    BY <1>3, <2>2, Untouched DEF StoreHigh, Goes, Rounds
  <2> QED BY <2>1, <2>2 DEF Rounds
<1>4. ASSUME NEW w \in Writers, StoreLow(w) PROVE Rounds'
  <2>1. index[w] \in 1 .. Len(PairsOf[w]) /\ Midway(w) /\ Len(PairsOf[w]) \in Nat
    BY <1>4, PairsKnown DEF StoreLow, Rounds, Progress
  <2>2. \A i, j \in 1 .. Len(PairsOf[w]) : i # j => PairsOf[w][i] # PairsOf[w][j]
    BY RegistersAssumption
  <2>3. \A k \in 1 .. Len(PairsOf[w]) :
          low'[PairsOf[w][k]] = IF k = index[w] THEN "latest" ELSE low[PairsOf[w][k]]
    BY <1>4, <2>1, <2>2, PairsKnown DEF StoreLow, Pair
  <2>4. outcome'[w] => \A k \in 1 .. Len(PairsOf[w]) : low'[PairsOf[w][k]] # "none"
    BY <1>4, <2>3 DEF StoreLow, Rounds, Progress
  <2>5. ASSUME index[w] < Len(PairsOf[w]) PROVE Progress(w)'
    <3>1. index'[w] = index[w] + 1 /\ pc'[w] = "store" /\ good' = good
      BY <1>4, <2>1, <2>5 DEF StoreLow, Goes
    <3>2. Midway(w)'
      <4>1. good'[w]
        BY <2>1, <3>1 DEF Midway
      <4>2. ASSUME NEW k \in 1 .. Len(PairsOf[w])
            PROVE  IF k < index[w] + 1 THEN low'[PairsOf[w][k]] = "latest"
                                       ELSE low'[PairsOf[w][k]] \in {"none", "previous"}
        <5>1. k < index[w] + 1 <=> k < index[w] \/ k = index[w]
          BY <2>1
        <5> QED BY <2>1, <2>3, <5>1 DEF Midway
      <4> QED BY <3>1, <4>1, <4>2 DEF Midway
    <3> QED BY <2>4, <3>1, <3>2 DEF Progress
  <2>6. ASSUME index[w] = Len(PairsOf[w]) PROVE Progress(w)'
    <3>1. index'[w] = 1 /\ pc'[w] = "bit"
      BY <1>4, <2>1, <2>6 DEF StoreLow, Goes
    <3>2. Fresh(w)'
      <4> SUFFICES ASSUME NEW k \in 1 .. Len(PairsOf[w]) PROVE low'[PairsOf[w][k]] = "latest"
        BY DEF Fresh
      <4>1. k < index[w] \/ k = index[w]
        BY <2>1, <2>6
      <4> QED BY <2>1, <2>3, <4>1 DEF Midway
    <3> QED BY <2>4, <3>1, <3>2 DEF Progress, Around
  <2>7. Progress(w)'
    <3>1. index[w] < Len(PairsOf[w]) \/ index[w] = Len(PairsOf[w])
      BY <2>1
    <3> QED BY <2>5, <2>6, <3>1
  <2>8. ASSUME NEW v \in Writers, v # w PROVE Progress(v)'
    <3>1. \A k \in 1 .. Len(PairsOf[v]) : low'[PairsOf[v][k]] = low[PairsOf[v][k]]
      <4> TAKE k \in 1 .. Len(PairsOf[v])
      <4>1. PairsOf[v][k] \in Pairs /\ PairsOf[v][k] # Pair(w)
        BY <2>8, PairsKnown, PairsApart, PairKnown
      <4> QED BY <1>4, <4>1 DEF StoreLow
    <3>2. /\ pc'[v] = pc[v] /\ index'[v] = index[v] /\ good'[v] = good[v]
          /\ outcome'[v] = outcome[v] /\ Progress(v)
      BY <1>4, <2>8 DEF StoreLow, Goes, Rounds
    <3> QED BY <3>1, <3>2, Untouched
  <2> QED BY <2>7, <2>8 DEF Rounds
<1>5. ASSUME NEW w \in Writers, ReadBits(w) PROVE Rounds'
  <2>1. Progress(w)'
    BY <1>5 DEF ReadBits, Goes, Rounds, Progress, Around, Fresh, Blank
  <2>2. ASSUME NEW v \in Writers, v # w PROVE Progress(v)'
    BY <1>5, <2>2, Untouched DEF ReadBits, Goes, Rounds
  <2> QED BY <2>1, <2>2 DEF Rounds
<1>6. ASSUME NEW w \in Writers, WriteBits(w) PROVE Rounds'
  <2>1. Around(w) /\ (good[w] => Fresh(w))
    BY <1>6 DEF WriteBits, Rounds, Progress, Around
  <2>2. pc'[w] = "idle" /\ outcome'[w] = good[w] /\ UNCHANGED <<index, good, low>>
    BY <1>6 DEF WriteBits, Goes
  <2>3. Progress(w)'
    BY <2>1, <2>2 DEF Progress, Around, Fresh, Blank
  <2>4. ASSUME NEW v \in Writers, v # w PROVE Progress(v)'
    BY <1>6, <2>4, Untouched DEF WriteBits, Goes, Rounds
  <2> QED BY <2>3, <2>4 DEF Rounds
<1>7. CASE ReadCoil \/ WriteCoil \/ UNCHANGED vars
  BY <1>7, Untouched DEF ReadCoil, WriteCoil, vars, writerVars, Rounds
<1> QED BY <1>1, <1>2, <1>3, <1>4, <1>5, <1>6, <1>7 DEF Next, Access, Store

(***************************************************************************)
(* The theorems.                                                           *)
(***************************************************************************)

\* The invariant holds in every state of every behaviour.
THEOREM Inductive == Spec => []IInv
<1>1. Init => IInv
  BY InitHolds
<1>2. IInv /\ [Next]_vars => IInv'
  BY TypedKept, LockedKept, HalfKept, WordKept, RoundsKept DEF IInv
<1> QED BY <1>1, <1>2, PTL DEF Spec

\* Type correctness: no bit but those of the tasks in their word.
THEOREM TypeCorrect == Spec => []TypeOK
<1>1. IInv => TypeOK
  BY DEF IInv, Typed
<1> QED BY <1>1, Inductive, PTL

\* A report never packs half of a pair, whatever the writers' registers are
\* (mb_reg_write_u32, mb_reg_write_float, mb_reg_read_multi_u16).
THEOREM ReportsWholePairs == Spec => []PairsWhole
<1>1. ASSUME IInv PROVE PairsWhole
  <2> SUFFICES ASSUME mutex = Free PROVE high = low
    BY DEF PairsWhole, Readable
  <2>1. \A w \in Writers : pc[w] # "low"
    BY <1>1, RegistersAssumption DEF IInv, Locked
  <2>2. \A p \in Pairs : high[p] = low[p]
    BY <1>1, <2>1 DEF IInv, HalfOnlyInside
  <2> QED BY <1>1, <2>2 DEF IInv, Typed, TypeOK
<1> QED BY <1>1, Inductive, PTL

\* A report mixes at most two frames, the newer one in front (eth_udp_recv).
THEOREM ReportsOrderedFrames == Spec => []FramesInOrder
<1>1. ASSUME IInv PROVE FramesInOrder
  <2> SUFFICES ASSUME NEW w \in Writers
               PROVE  /\ \A p \in PairSet(w) : low[p] # "older"
                      /\ \A i, j \in 1 .. Len(PairsOf[w]) :
                           i < j /\ low[PairsOf[w][j]] = "latest" => low[PairsOf[w][i]] = "latest"
    BY DEF FramesInOrder
  <2>1. Midway(w) \/ Fresh(w) \/ Blank(w)
    BY <1>1 DEF IInv, Rounds, Progress, Around
  <2>2. \A k \in 1 .. Len(PairsOf[w]) : low[PairsOf[w][k]] # "older"
    BY <2>1 DEF Midway, Fresh, Blank
  <2>3. index[w] \in Nat /\ Len(PairsOf[w]) \in Nat
    BY <1>1, PairsKnown DEF IInv, Typed
  <2>4. \A i, j \in 1 .. Len(PairsOf[w]) :
          i < j /\ low[PairsOf[w][j]] = "latest" => low[PairsOf[w][i]] = "latest"
    BY <2>1, <2>3 DEF Midway, Fresh, Blank
  <2> QED BY <2>2, <2>4 DEF PairSet
<1> QED BY <1>1, Inductive, PTL

\* No update of a validity bit is lost while the Modbus master writes coils
\* of other words only (mb_reg_write_bit).
THEOREM BitsCorrect ==
  ASSUME CoilWord = "spare"
  PROVE  Spec => []BitsAgree
<1>1. IInv => BitsAgree
  BY DEF IInv, WordAgrees
<1> QED BY <1>1, Inductive, PTL

\* Under the same condition no register is called valid before it was written.
THEOREM ValidCorrect ==
  ASSUME CoilWord = "spare"
  PROVE  Spec => []ValidIsStored
<1>1. ASSUME IInv PROVE ValidIsStored
  <2> SUFFICES ASSUME NEW w \in Writers, BitOf[w] \in bits["valid"], NEW p \in PairSet(w)
               PROVE  low[p] # "none"
    BY DEF ValidIsStored
  <2>1. outcome[w]
    BY <1>1 DEF IInv, WordAgrees, BitsAgree
  <2>2. \A k \in 1 .. Len(PairsOf[w]) : low[PairsOf[w][k]] # "none"
    BY <1>1, <2>1 DEF IInv, Rounds, Progress
  <2> QED BY <2>2 DEF PairSet
<1> QED BY <1>1, Inductive, PTL

===============================================================================
