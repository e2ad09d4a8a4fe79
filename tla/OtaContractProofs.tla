-------------------------- MODULE OtaContractProofs --------------------------
(***************************************************************************)
(* OtaService implements UpdateService: every step of the consumer, of an  *)
(* interrupt and of a restart is one of the abstract service or none.      *)
(***************************************************************************)
EXTENDS OtaServiceProofs

\* Nothing is folded into the CRC before a transfer.
Fresh ==
  ym = "WAIT_HEADER" \/ svc \in {"IDLE", "WAIT_START"} \/ (svc = "FAILED" /\ ym # "ABORTED")
    => crc32 = <<>>

\* During one, and at its end, the CRC is of what the area holds.
Collected ==
  /\ svc = "RECEIVING" /\ pc # "erase_temp" /\ ym # "ABORTED" => crc32 = temp
  /\ svc \in {"VERIFYING", "WRITING_META"} => crc32 \in {temp, <<>>}

\* Only a command to an idle service overtakes a failure.
Overtaken == pc = "error" /\ ym = "WAIT_HEADER" => svc \in {"IDLE", "WAIT_START"}

CInv == IInv /\ Fresh /\ Collected /\ Overtaken

LEMMA ContractStep ==
  ASSUME CInv, [Next]_vars
  PROVE  Fresh' /\ Collected' /\ Overtaken'
<1> USE DEF CInv, Fresh, Collected, Overtaken, IInv, PcAgrees, HeaderExpected
<1>m. /\ pc \notin {"verify", "error"} => (svc = "RECEIVING" <=> Transferring \/ pc = "start_data")
      /\ pc = "erase_temp" => crc32 = <<>>
  BY DEF ModesAgree, StreamAgrees
<1>1. CASE Dequeue
  BY <1>1 DEF Dequeue, imageVars, ymodemVars, flashVars
<1>2. CASE RequestStart
  BY <1>2 DEF RequestStart, imageVars, ymodemVars, flashVars
<1>3. CASE HandleNoise
  BY <1>3 DEF HandleNoise, Feeding, Reply, imageVars, ymodemVars, flashVars
<1>4. CASE HandleEot
  BY <1>m, <1>4 DEF HandleEot, Feeding, Reply, Transferring, imageVars, ymodemVars, flashVars
<1>5. CASE HandleCan
  BY <1>5 DEF HandleCan, Feeding, Abort, imageVars, ymodemVars, flashVars
<1>6. CASE HandleLateHeader
  BY <1>6 DEF HandleLateHeader, Feeding, Reply, imageVars, ymodemVars, flashVars
<1>7. CASE ReadHeader
  BY <1>7 DEF ReadHeader, Feeding, imageVars, ymodemVars, flashVars
<1>8. CASE BeginImage
  BY <1>8 DEF BeginImage, Abort, StartImage, imageVars, ymodemVars, flashVars
<1>9. CASE EraseTemp
  BY <1>m, <1>9 DEF EraseTemp, Abort, imageVars, ymodemVars, flashVars
<1>10. CASE StoreBlock
  <2>1. svc = "RECEIVING" /\ ym = "RECV_DATA" /\ pc = "feed"
    BY <1>m, <1>10 DEF StoreBlock, Feeding, ExpectedData, Transferring
  <2>2. ~(image_size = 0 /\ received_size = 0)
    BY <1>10, NothingLeft DEF StoreBlock
  <2>3. crc32 = temp
    BY <2>1
  <2> QED
    BY <1>10, <2>1, <2>3 DEF StoreBlock, StreamCrc, imageVars, ymodemVars, flashVars
<1>11. CASE StoreFails
  BY <1>11 DEF StoreFails, Feeding, ExpectedData, Abort, imageVars, ymodemVars, flashVars
<1>12. CASE HandleOtherData
  BY <1>12 DEF HandleOtherData, Feeding, Reply, imageVars, ymodemVars, flashVars
<1>13. CASE HandleStrayData
  BY <1>13 DEF HandleStrayData, Feeding, Abort, imageVars, ymodemVars, flashVars
<1>14. CASE BeginFinish
  BY <1>m, <1>14 DEF BeginFinish, Feeding, Abort, imageVars, ymodemVars, flashVars
<1>15. CASE Verify
  BY <1>15 DEF Verify, imageVars, ymodemVars, flashVars
<1>16. CASE FlushCache
  BY <1>16 DEF FlushCache, Abort, imageVars, ymodemVars, flashVars
<1>17. CASE EraseMeta
  BY <1>17 DEF EraseMeta, Abort, imageVars, ymodemVars, flashVars
<1>18. CASE ProgramMeta
  BY <1>18 DEF ProgramMeta, Complete, Abort, imageVars, ymodemVars, flashVars
<1>19. CASE NotifyError
  BY <1>19 DEF NotifyError, imageVars, ymodemVars, flashVars
<1>20. CASE AtStart
  BY <1>20 DEF AtStart, HaltInIsr, StartImage, imageVars, ymodemVars, flashVars
<1>21. CASE AtReset
  BY <1>21 DEF AtReset, HaltInIsr, StartImage, imageVars, ymodemVars, flashVars
<1>22. CASE \E c \in Chunk : RxChunk(c)
  BY <1>22 DEF RxChunk, imageVars, ymodemVars, flashVars
<1>23. CASE RebootIntoImage \/ WatchdogReset \/ OtherReset
  BY <1>23 DEF RebootIntoImage, WatchdogReset, OtherReset, Restart, StartImage
<1>24. CASE UNCHANGED vars
  BY <1>24 DEF vars, imageVars, ymodemVars, flashVars
<1>25. CASE StartData
  BY <1>25 DEF StartData, imageVars, flashVars
<1> QED
  BY <1>1, <1>2, <1>3, <1>4, <1>5, <1>6, <1>7, <1>8, <1>9, <1>10, <1>11, <1>12, <1>13, <1>14, <1>15, <1>16, <1>17, <1>18, <1>19, <1>20, <1>21, <1>22, <1>23, <1>24, <1>25 DEF Next, Isr, Consumer

LEMMA ContractHolds == Spec => []CInv
<1>1. Init => CInv /\ IInv
  <2> SUFFICES ASSUME Init PROVE CInv
    BY DEF CInv
  <2>1. IInv
    BY InitIInv
  <2> QED
    BY <2>1 DEF CInv, Fresh, Collected, Overtaken, Init, RamInit
<1> QED
  BY <1>1, ContractStep, IInvInductive, PTL DEF Spec, CInv
-------------------------------------------------------------------------------
(***************************************************************************)
(* The steps of the abstract service.                                      *)
(***************************************************************************)

uvars == <<Phase, temp, Told>>

\* Without a completed update the bootloader is told of nothing.
Untold == svc # "COMPLETED" => Told = {} /\ meta = NoMeta

LEMMA ToldNothing == ASSUME BootClears PROVE IInv => Untold
BY DEF Untold, Told, IInv, MetaAgrees

LEMMA ToldNothingYet == ASSUME BootClears PROVE CInv /\ CInv' => Untold /\ Untold'
<1>1. IInv => Untold
  BY ToldNothing
<1> QED
  BY <1>1, PTL DEF CInv

\* Steps that change what Phase looks at to the same effect.
LEMMA Unseen ==
  ASSUME Phase' = Phase, temp' = temp, meta' = meta
  PROVE  UNCHANGED uvars
BY DEF uvars, Told

\* A step that ends in ABORTED is unseen, or the failure itself.
LEMMA AbortIsFail ==
  ASSUME CInv, ym' = "ABORTED", svc' = svc, temp' = temp, Told' = Told,
         crc32' = crc32 \/ svc \notin {"VERIFYING", "WRITING_META"},
         svc # "COMPLETED"
  PROVE  Update!Fail \/ UNCHANGED uvars
<1>1. CASE svc = "FAILED"
  <2>1. Phase' = "failed" /\ Phase # "done"
    BY <1>1 DEF Phase
  <2> QED
    BY <2>1 DEF Update!Fail
<1>2. CASE svc # "FAILED"
  <2>1. Phase' = Phase
    BY <1>2 DEF Phase
  <2> QED
    BY <2>1 DEF uvars
<1> QED
  BY <1>1, <1>2

LEMMA Refines ==
  ASSUME BootClears, CInv, CInv', [Next]_vars
  PROVE  Update!Next \/ UNCHANGED uvars
<1> USE DEF CInv, IInv, PcAgrees, HeaderExpected
<1>m. /\ pc \notin {"verify", "error"} => (svc = "RECEIVING" <=> Transferring \/ pc = "start_data")
      /\ pc = "erase_temp" => crc32 = <<>>
      /\ pc # "poll" => svc # "COMPLETED"
      /\ svc # "COMPLETED" => Told = {} /\ meta = NoMeta
      /\ svc' # "COMPLETED" => Told' = {} /\ meta' = NoMeta
  <2>1. Untold /\ Untold'
    BY ToldNothingYet
  <2> QED
    BY <2>1 DEF Untold, ModesAgree, StreamAgrees
<1>1. CASE Dequeue \/ RequestStart \/ \E c \in Chunk : RxChunk(c)
  BY <1>1, Unseen DEF Dequeue, RequestStart, RxChunk, Phase, imageVars, ymodemVars, flashVars
<1>2. CASE HandleNoise \/ HandleLateHeader \/ HandleOtherData
  BY <1>2, Unseen DEF HandleNoise, HandleLateHeader, HandleOtherData, Reply, Phase, ymodemVars, flashVars
<1>3. CASE HandleEot
  <2>1. svc = "RECEIVING" /\ svc' = svc /\ temp' = temp /\ meta' = meta
    BY <1>m, <1>3 DEF HandleEot, Feeding, Reply, Transferring, flashVars
  <2> QED
    BY <2>1, Unseen DEF Phase
<1>4. CASE HandleCan \/ HandleStrayData
  BY <1>m, <1>4, AbortIsFail DEF HandleCan, HandleStrayData, Feeding, Abort, imageVars, Update!Next
<1>5. CASE ReadHeader
  BY <1>5, Unseen DEF ReadHeader, Phase, imageVars, flashVars
<1>6. CASE BeginImage
  <2>1. svc \notin {"VERIFYING", "WRITING_META"} /\ svc # "COMPLETED"
    BY <1>6 DEF BeginImage
  <2>2. CASE ym' = ym
    BY <1>6, <2>1, <2>2, Unseen DEF BeginImage, Abort, Phase, ymodemVars, flashVars
  <2>3. CASE ym' # ym
    BY <1>m, <1>6, <2>1, <2>3, AbortIsFail DEF BeginImage, Abort, ymodemVars, imageVars, Update!Next
  <2> QED
    BY <2>2, <2>3
<1>7. CASE EraseTemp
  <2>1. svc \notin {"VERIFYING", "WRITING_META", "COMPLETED"} /\ ym # "ABORTED"
    BY <1>7 DEF EraseTemp
  <2>2. CASE svc' = "RECEIVING" /\ temp' = <<>> /\ meta' = meta
    <3>1. Phase \in {"idle", "open"} /\ Phase' = "open"
      BY <2>1, <2>2 DEF Phase
    <3> QED
      BY <2>2, <3>1 DEF Update!Next, Update!Open, Told
  <2>3. CASE Abort(CanCan) /\ UNCHANGED <<file_size, imageVars, meta>>
    BY <1>m, <2>1, <2>3, AbortIsFail DEF Abort, imageVars, Update!Next
  <2> QED
    BY <1>7, <2>2, <2>3 DEF EraseTemp
<1>8. CASE StoreBlock
  <2>1. svc = "RECEIVING" /\ svc' = svc /\ meta' = meta
    BY <1>m, <1>8 DEF StoreBlock, Feeding, ExpectedData, Transferring
  <2>2. Phase = "open" /\ Phase' = "open"
    BY <2>1 DEF Phase
  <2>3. <<cur.pay, WriteLen>> \in Piece /\ temp \in Seq(Piece)
    <3>1. cur.pay \in Payloads /\ WriteLen \in Nat
      BY <1>8, BlockFields, WriteLenBound
         DEF StoreBlock, Feeding, ExpectedData, IsData, TypeOK, DataTyped, SizesTyped
    <3> QED
      BY <3>1 DEF Piece, TypeOK, DataTyped
  <2>4. temp' = Append(temp, <<cur.pay, WriteLen>>)
    BY <1>8 DEF StoreBlock
  <2>5. /\ Len(temp') = Len(temp) + 1 /\ temp'[Len(temp')] = <<cur.pay, WriteLen>>
    BY <2>3, <2>4
  <2> QED
    BY <2>1, <2>2, <2>3, <2>4, <2>5 DEF Update!Next, Update!Accept, Told
<1>9. CASE StoreFails
  <2>1. svc = "RECEIVING"
    BY <1>m, <1>9 DEF StoreFails, Feeding, ExpectedData, Transferring
  <2> QED
    BY <1>m, <1>9, <2>1, AbortIsFail DEF StoreFails, Abort, Update!Next
<1>10. CASE BeginFinish
  <2>1. svc \notin {"VERIFYING", "WRITING_META", "COMPLETED"} /\ ym # "ABORTED"
    BY <1>10 DEF BeginFinish, Feeding
  <2>2. CASE ym' = "DONE" /\ svc' = svc /\ temp' = temp /\ meta' = meta
    BY <2>1, <2>2, Unseen DEF Phase
  <2>3. CASE Abort(CanCan) /\ UNCHANGED <<file_size, imageVars, meta>>
    BY <1>m, <2>1, <2>3, AbortIsFail DEF Abort, imageVars, Update!Next
  <2> QED
    BY <1>10, <2>2, <2>3 DEF BeginFinish, flashVars
<1>11. CASE Verify
  <2>1. /\ pc = "verify" /\ svc' = "VERIFYING"
        /\ UNCHANGED <<ym, crc32, temp, meta>>
    BY <1>11 DEF Verify, ymodemVars, imageVars, flashVars
  <2>2. Told' = Told
    BY <2>1 DEF Told
  <2>3. CASE svc = "RECEIVING"
    <3>1. crc32 = temp
      BY <2>1, <2>3 DEF Collected
    <3>2. Phase = "open" /\ Phase' = "open"
      BY <2>1, <2>3, <3>1 DEF Phase
    <3> QED
      BY <2>1, <3>2, Unseen
  <2>4. CASE svc # "RECEIVING"
    <3>1. crc32 = <<>> /\ Phase = "idle"
      BY <2>1, <2>4 DEF Fresh, Phase
    <3>2. CASE temp = <<>>
      <4>1. Phase' = "open"
        BY <2>1, <3>1, <3>2 DEF Phase
      <4> QED
        BY <2>1, <2>2, <3>1, <3>2, <4>1 DEF Update!Next, Update!Open
    <3>3. CASE temp # <<>>
      <4>1. Phase' = "idle"
        BY <2>1, <3>1, <3>3 DEF Phase
      <4> QED
        BY <2>1, <3>1, <4>1, Unseen
    <3> QED
      BY <3>2, <3>3
  <2> QED
    BY <2>3, <2>4
<1>12. CASE FlushCache
  <2>1. /\ svc = "VERIFYING" /\ svc' \in {"VERIFYING", "WRITING_META"}
        /\ UNCHANGED <<crc32, temp, meta>>
    BY <1>12 DEF FlushCache, Abort, imageVars, flashVars
  <2>2. Phase' = Phase
    BY <2>1 DEF Phase
  <2> QED
    BY <2>1, <2>2, Unseen
<1>13. CASE EraseMeta
  <2>1. svc = "WRITING_META" /\ UNCHANGED <<svc, crc32, temp>>
    BY <1>13 DEF EraseMeta, Abort, imageVars
  <2>2. Phase' = Phase /\ meta' = meta
    BY <1>m, <2>1 DEF Phase
  <2> QED
    BY <2>1, <2>2, Unseen
<1>14. CASE ProgramMeta
  <2>1. svc = "WRITING_META" /\ temp' = temp /\ crc32' = crc32 /\ crc32 \in {temp, <<>>}
    BY <1>14 DEF ProgramMeta, Abort, imageVars, Collected
  <2>2. CASE Complete /\ meta' = [size |-> image_size, crc |-> crc32]
    <3>1. meta' # NoMeta
      <4>1. image_size \in Nat /\ meta'.size = image_size
        BY <2>2 DEF TypeOK, SizesTyped
      <4> QED
        BY <4>1 DEF NoMeta
    <3>2. Told' = {crc32}
      BY <2>2, <3>1 DEF Told
    <3>3. Phase' = "done" /\ Phase = IF crc32 = temp THEN "open" ELSE "idle"
      BY <2>1, <2>2 DEF Phase, Complete
    <3> QED
      BY <2>1, <3>2, <3>3 DEF Update!Next, Update!Commit
  <2>3. CASE Abort(CanCan) /\ UNCHANGED <<file_size, imageVars, meta>>
    BY <1>m, <2>1, <2>3, AbortIsFail DEF Abort, imageVars, Update!Next
  <2> QED
    BY <1>14, <2>2, <2>3 DEF ProgramMeta
<1>15. CASE NotifyError
  <2>1. /\ pc = "error" /\ svc # "COMPLETED" /\ svc' = "FAILED" /\ ym' = ym
        /\ temp' \in {<<>>, temp} /\ meta' = meta
    BY <1>m, <1>15 DEF NotifyError, ymodemVars
  <2>2. Phase # "done" /\ Told' = Told
    BY <2>1 DEF Phase, Told
  <2>3. CASE ym = "ABORTED"
    <3>1. Phase' = "failed"
      BY <2>1, <2>3 DEF Phase
    <3> QED
      BY <2>1, <2>2, <3>1 DEF Update!Next, Update!Fail
  <2>4. CASE ym = "WAIT_HEADER"
    <3>1. Phase = "idle" /\ Phase' = "idle"
      BY <2>1, <2>4 DEF Phase, Overtaken
    <3> QED
      BY <2>1, <2>2, <3>1 DEF Update!Next, Update!Fail
  <2> QED
    BY <2>1, <2>3, <2>4
<1>16. CASE AtStart \/ AtReset
  <2>1. CASE svc = "IDLE"
    <3>1. svc' \in {"IDLE", "WAIT_START"} /\ temp' = temp /\ meta' = meta
      BY <1>16, <2>1 DEF AtStart, AtReset, flashVars
    <3>2. Phase = "idle" /\ Phase' = "idle"
      BY <2>1, <3>1 DEF Phase
    <3> QED
      BY <3>1, <3>2, Unseen
  <2>2. CASE svc # "IDLE"
    BY <1>16, <2>2, Unseen DEF AtStart, AtReset, HaltInIsr, Phase, ymodemVars, imageVars, flashVars
  <2> QED
    BY <2>1, <2>2
<1>17. CASE RebootIntoImage \/ WatchdogReset \/ OtherReset
  <2>1. svc' = "IDLE" /\ temp' = temp
    BY <1>17 DEF RebootIntoImage, WatchdogReset, OtherReset, Restart
  <2>2. Phase' = "idle" /\ Told' = {}
    BY <1>m, <2>1 DEF Phase
  <2> QED
    BY <2>1, <2>2 DEF Update!Next, Update!Restart
<1>18. CASE UNCHANGED vars
  BY <1>18, Unseen DEF vars, Phase, imageVars, ymodemVars, flashVars
<1>19. CASE StartData
  <2>1. svc = "RECEIVING" /\ svc' = svc /\ temp' = temp /\ meta' = meta
    BY <1>19 DEF StartData, flashVars
  <2> QED
    BY <2>1, Unseen DEF Phase
<1> QED
  BY <1>1, <1>2, <1>3, <1>4, <1>5, <1>6, <1>7, <1>8, <1>9, <1>10, <1>11, <1>12, <1>13, <1>14,
     <1>15, <1>16, <1>17, <1>18, <1>19
  DEF Next, Isr, Consumer

\* The update service implements the abstract one, for every size of the area
\* and the queue, every width of the block number and every set of payloads,
\* given a bootloader that consumes the metadata.
THEOREM ContractKept == ASSUME BootClears PROVE Spec => KeepsContract
<1>1. Init => Update!Init
  BY DEF Init, RamInit, Update!Init, Phase, Told
<1>2. CInv /\ CInv' /\ [Next]_vars => [Update!Next]_uvars
  BY Refines
<1> QED
  BY <1>1, <1>2, ContractHolds, PTL DEF Spec, KeepsContract, Update!Spec, uvars
==============================================================================
