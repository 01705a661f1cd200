--------------------------- MODULE StreamingProofs ---------------------------
(***************************************************************************)
(* Proofs about the producer/consumer handshake of module Streaming, for    *)
(* every width of the sequence numbers.                                     *)
(***************************************************************************)
EXTENDS Streaming, ProducerProofs

(* Both processes down, a freshly initialized segment: everything is typed. *)
LEMMA TypeInit == Init => TypeOK /\ ConsumesAwaitedSlot
<1> SUFFICES ASSUME Init PROVE TypeOK /\ ConsumesAwaitedSlot
  OBVIOUS
<1>1. SegmentTypeOK /\ sequence_waiters = {}
  BY ConstantFacts DEF Init, SegmentInit, SegmentTypeOK
<1>2. ProducerTypeOK
  BY ConstantFacts, SequenceFacts DEF Init, ProducerInit, ProducerTypeOK, ProducerPc
<1>3. ConsumerTypeOK
  BY ConstantFacts DEF Init, SegmentInit, ConsumerInit, ConsumerTypeOK, ConsumerPc
<1>4. ConsumesAwaitedSlot
  BY DEF Init, ConsumerInit, ConsumesAwaitedSlot
<1> QED BY <1>1, <1>2, <1>3, <1>4 DEF TypeOK

(* Types and the awaited slot survive every step of the producer ...        *)
LEMMA TypeProducer ==
    ASSUME TypeOK, ConsumesAwaitedSlot, ProducerStep, UNCHANGED consumerVars
    PROVE  TypeOK' /\ ConsumesAwaitedSlot'
<1>1. SegmentTypeOK' /\ ProducerTypeOK' /\ sequence_waiters' = {}
  BY ProducerKeepsTypes DEF TypeOK
<1>2. ConsumerTypeOK'
  BY ProducerKeepsTypes DEF TypeOK, ConsumerTypeOK, consumerVars
<1>3. ConsumesAwaitedSlot'
  BY DEF ConsumesAwaitedSlot, consumerVars
<1> QED BY <1>1, <1>2, <1>3 DEF TypeOK

(* ... and every step of the consumer.                                      *)
LEMMA TypeConsumer ==
    ASSUME TypeOK, ConsumesAwaitedSlot, ConsumerStep, UNCHANGED producerVars
    PROVE  TypeOK' /\ ConsumesAwaitedSlot'
<1> USE ConstantFacts, SequenceFacts
    DEF TypeOK, SegmentTypeOK, ProducerTypeOK, ConsumerTypeOK, ConsumesAwaitedSlot,
        producerVars, ConsumerGoto,
        segmentVars, indices, metadata, contents, history, queues, ConsumerPc
<1>1. CASE ResetReadIndex
  BY <1>1 DEF ResetReadIndex
<1>2. CASE ConsumerLoop
  BY <1>2 DEF ConsumerLoop
<1>3. CASE ConsumerLoopEnds
  BY <1>3 DEF ConsumerLoopEnds, ConsumerReturns
<1>4. CASE LoadLastRead
  BY <1>4 DEF LoadLastRead
<1>5. CASE StoreReadIndex
  BY <1>5 DEF StoreReadIndex
<1>6. CASE ConsumerLoadWriteIndex
  BY <1>6 DEF ConsumerLoadWriteIndex
<1>7. CASE CheckWrite
  BY <1>7 DEF CheckWrite, AfterWait
<1>8. CASE FutexWait
  BY <1>8 DEF FutexWait
<1>9. CASE FutexWaitAgain
  BY <1>9 DEF FutexWaitAgain
<1>10. CASE FutexWoken
  BY <1>10 DEF FutexWoken
<1>11. CASE BeginConsume
  BY <1>11 DEF BeginConsume
<1>12. CASE ConsumeStopped
  BY <1>12 DEF ConsumeStopped, ConsumerReturns
<1>13. CASE EndConsume
  BY <1>13 DEF EndConsume, ConsumerReturns
<1>14. CASE FutexTimeout
  BY <1>14 DEF FutexTimeout, ConsumerReturns
<1>15. CASE FutexInterrupted
  BY <1>15 DEF FutexInterrupted, ConsumerReturns
<1>16. CASE ConsumerStart
  BY <1>16 DEF ConsumerStart
<1>17. CASE ConsumerCrash
  BY <1>17 DEF ConsumerCrash
<1>18. CASE ConsumerStop
  BY <1>18 DEF ConsumerStop
<1>19. CASE ConsumerReset
  BY <1>19 DEF ConsumerReset
<1>20. CASE CallConsumerRun
  BY <1>20 DEF CallConsumerRun, MayCall
<1>21. CASE CallConsumeSingle
  BY <1>21 DEF CallConsumeSingle, MayCall
<1> QED
  BY <1>1, <1>2, <1>3, <1>4, <1>5, <1>6, <1>7, <1>8, <1>9, <1>10, <1>11, <1>12, <1>13, <1>14, <1>15, <1>16, <1>17, <1>18, <1>19, <1>20, <1>21 DEF ConsumerStep, ConsumerWork

(* The two are proved together, since the callback indexes the buffers with *)
(* the slot it was given.                                                   *)
LEMMA TypeInvariant == Spec => [](TypeOK /\ ConsumesAwaitedSlot)
<1>1. TypeOK /\ ConsumesAwaitedSlot /\ [Next]_vars => (TypeOK /\ ConsumesAwaitedSlot)'
  <2> SUFFICES ASSUME TypeOK, ConsumesAwaitedSlot, [Next]_vars
               PROVE  TypeOK' /\ ConsumesAwaitedSlot'
    OBVIOUS
  <2>1. CASE Next
    BY <2>1, TypeProducer, TypeConsumer DEF Next
  <2>2. CASE UNCHANGED vars
    BY <2>2
    DEF vars, segmentVars, indices, metadata, contents, history, queues, producerVars,
        consumerVars, TypeOK, SegmentTypeOK, ProducerTypeOK, ConsumerTypeOK,
        ConsumesAwaitedSlot
  <2> QED BY <2>1, <2>2
<1> QED BY TypeInit, <1>1, PTL DEF Spec

(* Every variable keeps its range, whatever the constants are.              *)
THEOREM TypeCorrect == Spec => []TypeOK
BY TypeInvariant, PTL

(* The callback gets the slot that was asked for, whatever the constants    *)
(* are: ToBufferIndex is never called with Unavailable.                     *)
THEOREM ConsumedSlotIsAwaited == Spec => []ConsumesAwaitedSlot
BY TypeInvariant, PTL

-----------------------------------------------------------------------------
(* The handshake.                                                           *)

(* The two sides agree after every step of the producer ...                 *)
LEMMA AgreementProducer ==
    ASSUME OnlyRuns, TypeOK, AgreementInv, ProducerStep, UNCHANGED consumerVars
    PROVE  AgreementInv'
<1> USE ConstantFacts
    DEF OnlyRuns, TypeOK, SegmentTypeOK, ProducerTypeOK, ConsumerTypeOK, consumerVars,
        segmentVars, indices, metadata, contents, history, queues,
        AgreementInv, ConsumesAwaitedSlot, LoadedIsCurrent, TargetIsChosen, TargetIsWritten,
        OwnedByConsumer, ResetIsQuiet, PublishedIsUnseen, ConsumerKnows, Resetting,
        WritingPc, CommittedPc, WrittenPc, WaitPc, Slot, BufferA, BufferB, Unavailable,
        OtherSlot, ChooseNextWrite, Goto, producerLocals, InitializePc
<1>1. CASE InitializeWriteIndex
  BY <1>1 DEF InitializeWriteIndex
<1>2. CASE InitializeReadIndex
  BY <1>2 DEF InitializeReadIndex
<1>3. CASE InitializeLastWritten
  BY <1>3 DEF InitializeLastWritten
<1>4. CASE InitializeSequence
  BY <1>4 DEF InitializeSequence
<1>5. CASE InitializeSlots
  BY <1>5 DEF InitializeSlots
<1>6. CASE InitializeBuffers
  BY <1>6 DEF InitializeBuffers
<1>7. CASE InitializeWake
  BY <1>7 DEF InitializeWake
<1>8. CASE RunIteration
  BY <1>8 DEF RunIteration
<1>9. CASE RunReturns
  BY <1>9 DEF RunReturns
<1>10. CASE LoadWriteIndex
  BY <1>10 DEF LoadWriteIndex
<1>11. CASE LoadReadIndex
  BY <1>11 DEF LoadReadIndex
<1>12. CASE MarkSequenceWriting
  BY <1>12 DEF MarkSequenceWriting
<1>13. CASE MarkSlotWriting
  BY <1>13 DEF MarkSlotWriting
<1>14. CASE BeginWrite
  BY <1>14 DEF BeginWrite, Frame
<1>15. CASE EndWrite
  BY <1>15 DEF EndWrite, Frame
<1>16. CASE ClearSlotWriting
  BY <1>16 DEF ClearSlotWriting
<1>17. CASE StoreLastWritten
  BY <1>17 DEF StoreLastWritten
<1>18. CASE StoreSequence
  BY <1>18 DEF StoreSequence
<1>19. CASE WakeMonitors
  BY <1>19 DEF WakeMonitors
<1>20. CASE ResetWriteIndex
  BY <1>20 DEF ResetWriteIndex
<1>21. CASE ReloadReadIndex
  BY <1>21 DEF ReloadReadIndex, Publishable
<1>22. CASE Publish
  BY <1>22 DEF Publish
<1>23. CASE WakeConsumer
  BY <1>23 DEF WakeConsumer, FrameReturns
<1>24. CASE WakeConsumerFails
  BY <1>24 DEF WakeConsumerFails, FrameReturns
<1>25. CASE ProducerStart
  BY <1>25 DEF ProducerStart
<1>26. CASE ProducerCrash
  BY <1>26 DEF ProducerCrash
<1>27. CASE ProducerStop
  BY <1>27 DEF ProducerStop
<1>28. CASE ProducerReset
  BY <1>28 DEF ProducerReset
<1>29. CASE CallRun
  BY <1>29 DEF CallRun
<1>30. CASE CallProduceSingle
  BY <1>30 DEF CallProduceSingle
<1> QED
  BY <1>1, <1>2, <1>3, <1>4, <1>5, <1>6, <1>7, <1>8, <1>9, <1>10, <1>11, <1>12, <1>13, <1>14, <1>15, <1>16, <1>17, <1>18, <1>19, <1>20, <1>21, <1>22, <1>23, <1>24, <1>25, <1>26, <1>27, <1>28, <1>29, <1>30
  DEF ProducerStep, ProducerWork, InitializeBuffer, ProduceFrame

(* ... and every step of the consumer, but for the one that overtakes a     *)
(* publication ...                                                          *)
LEMMA AgreementConsumer ==
    ASSUME OnlyRuns, TypeOK, AgreementInv, ConsumerStep, UNCHANGED producerVars,
           ~OvertakesPublication
    PROVE  AgreementInv'
<1> USE ConstantFacts
    DEF OnlyRuns, TypeOK, SegmentTypeOK, ProducerTypeOK, ConsumerTypeOK, producerVars,
        segmentVars, indices, metadata, contents, history, queues,
        AgreementInv, ConsumesAwaitedSlot, LoadedIsCurrent, TargetIsChosen, TargetIsWritten,
        OwnedByConsumer, ResetIsQuiet, PublishedIsUnseen, ConsumerKnows, Resetting,
        WritingPc, CommittedPc, WrittenPc, WaitPc, Slot, BufferA, BufferB, Unavailable,
        OtherSlot, ChooseNextWrite, ConsumerGoto
<1>1. CASE ResetReadIndex
  BY <1>1 DEF ResetReadIndex, OvertakesPublication
<1>2. CASE ConsumerLoop
  BY <1>2 DEF ConsumerLoop
<1>3. CASE ConsumerLoopEnds
  BY <1>3 DEF ConsumerLoopEnds, ConsumerReturns
<1>4. CASE LoadLastRead
  BY <1>4 DEF LoadLastRead
<1>5. CASE StoreReadIndex
  BY <1>5 DEF StoreReadIndex
<1>6. CASE ConsumerLoadWriteIndex
  BY <1>6 DEF ConsumerLoadWriteIndex
<1>7. CASE CheckWrite
  BY <1>7 DEF CheckWrite, AfterWait
<1>8. CASE FutexWait
  BY <1>8 DEF FutexWait
<1>9. CASE FutexWaitAgain
  BY <1>9 DEF FutexWaitAgain
<1>10. CASE FutexWoken
  BY <1>10 DEF FutexWoken
<1>11. CASE BeginConsume
  BY <1>11 DEF BeginConsume
<1>12. CASE ConsumeStopped
  BY <1>12 DEF ConsumeStopped, ConsumerReturns
<1>13. CASE EndConsume
  BY <1>13 DEF EndConsume, ConsumerReturns
<1>14. CASE FutexTimeout
  BY <1>14 DEF FutexTimeout, ConsumerReturns
<1>15. CASE FutexInterrupted
  BY <1>15 DEF FutexInterrupted, ConsumerReturns
<1>16. CASE ConsumerStart
  BY <1>16 DEF ConsumerStart
<1>17. CASE ConsumerCrash
  BY <1>17 DEF ConsumerCrash
<1>18. CASE ConsumerStop
  BY <1>18 DEF ConsumerStop
<1>19. CASE ConsumerReset
  BY <1>19 DEF ConsumerReset
<1>20. CASE CallConsumerRun
  BY <1>20 DEF CallConsumerRun
<1>21. CASE CallConsumeSingle
  BY <1>21 DEF CallConsumeSingle, MayCall
<1> QED
  BY <1>1, <1>2, <1>3, <1>4, <1>5, <1>6, <1>7, <1>8, <1>9, <1>10, <1>11, <1>12, <1>13, <1>14, <1>15, <1>16, <1>17, <1>18, <1>19, <1>20, <1>21
  DEF ConsumerStep, ConsumerWork

(* ... and when nobody is attached yet.                                     *)
LEMMA AgreementInit == OnlyRuns /\ Init => AgreementInv /\ CallsWhenServed
BY ConstantFacts
DEF OnlyRuns, Init, SegmentInit, ProducerInit, ConsumerInit, AgreementInv,
    InitializePc, ConsumesAwaitedSlot, LoadedIsCurrent, TargetIsChosen, TargetIsWritten,
    OwnedByConsumer, ResetIsQuiet, PublishedIsUnseen, ConsumerKnows, Resetting,
    WritingPc, CommittedPc, WrittenPc, WaitPc, CallsWhenServed

LEMMA AgreementStep ==
    ASSUME OnlyRuns, TypeOK, AgreementInv, [Next]_vars, ~OvertakesPublication
    PROVE  AgreementInv'
<1>1. CASE Next
  BY <1>1, AgreementProducer, AgreementConsumer DEF Next
<1>2. CASE UNCHANGED vars
  BY <1>2
  DEF vars, segmentVars, indices, metadata, contents, history, queues, producerVars,
      consumerVars, AgreementInv, ConsumesAwaitedSlot, LoadedIsCurrent, TargetIsChosen,
      TargetIsWritten, OwnedByConsumer, ResetIsQuiet, PublishedIsUnseen, ConsumerKnows,
      Resetting
<1> QED BY <1>1, <1>2

(* Producer and consumer agree as long as no Run overtakes a publication:   *)
(* the inductive invariant for every consumer that only uses Run, whether   *)
(* it retries over unserved requests or not.                                *)
THEOREM AgreementHolds ==
    ASSUME OnlyRuns
    PROVE  Spec /\ [][~OvertakesPublication]_vars => []AgreementInv
<1>1. Init => AgreementInv
  BY OnlyRuns, AgreementInit
<1>2. TypeOK /\ AgreementInv /\ [Next]_vars /\ [~OvertakesPublication]_vars => AgreementInv'
  <2> SUFFICES ASSUME TypeOK, AgreementInv, [Next]_vars, [~OvertakesPublication]_vars
               PROVE  AgreementInv'
    OBVIOUS
  <2>1. ~OvertakesPublication \/ UNCHANGED vars
    OBVIOUS
  <2>2. UNCHANGED vars => ~OvertakesPublication
    BY DEF vars, consumerVars, OvertakesPublication, ResetReadIndex, ConsumerGoto
  <2> QED BY <2>1, <2>2, OnlyRuns, AgreementStep
<1> QED BY <1>1, <1>2, TypeCorrect, PTL DEF Spec

(* Whoever does not call over an unserved request overtakes nothing.        *)
LEMMA ServedStep ==
    ASSUME HandshakeRespected, TypeOK, HandshakeInv, [Next]_vars
    PROVE  ~OvertakesPublication /\ CallsWhenServed'
<1> USE DEF HandshakeInv, CallsWhenServed
<1>1. ~OvertakesPublication
  BY DEF OvertakesPublication, ResetReadIndex, ConsumerGoto, AgreementInv, ResetIsQuiet
<1> SUFFICES CallsWhenServed'
  BY <1>1
<1>2. CASE UNCHANGED vars
  BY <1>2 DEF vars, segmentVars, indices, consumerVars
<1>3. CASE ProducerStep /\ UNCHANGED consumerVars
  <2>1. CASE ResetWriteIndex
    BY <1>3, <2>1
    DEF ResetWriteIndex, Goto, consumerVars, AgreementInv, TargetIsChosen, ResetIsQuiet, Resetting
  <2>2. CASE Publish
    BY <1>3, <2>2, ConstantFacts
    DEF Publish, TypeOK, ProducerTypeOK, consumerVars
  <2>3. CASE ~ResetWriteIndex /\ ~Publish
    <3>1. p_pc \notin InitializePc
      BY DEF AgreementInv
    <3>2. UNCHANGED indices
      BY <1>3, <2>3, <3>1
      DEF ProducerStep, ProducerWork, InitializeBuffer, InitializeWriteIndex, InitializeReadIndex,
          InitializeLastWritten, InitializeSequence, InitializeSlots, InitializeBuffers,
          InitializeWake, InitializePc, RunIteration, RunReturns, ProduceFrame, LoadWriteIndex,
          LoadReadIndex, MarkSequenceWriting, MarkSlotWriting, BeginWrite, EndWrite,
          ClearSlotWriting, StoreLastWritten, StoreSequence, WakeMonitors, ReloadReadIndex,
          WakeConsumer, WakeConsumerFails, ProducerStart, ProducerCrash, ProducerStop,
          ProducerReset, CallRun, CallProduceSingle, Goto, segmentVars
    <3> QED BY <1>3, <3>2 DEF indices, consumerVars
  <2> QED BY <2>1, <2>2, <2>3
<1>4. CASE ConsumerStep
  <2>1. CASE CallConsumerRun
    BY <2>1 DEF CallConsumerRun, MayCall, Unserved, HandshakeRespected, segmentVars, indices
  <2>2. CASE ~CallConsumerRun
    <3>1. c_pc' = "reset_read_index" => c_pc = "reset_read_index" /\ UNCHANGED indices
      BY <1>4, <2>2
      DEF ConsumerStep, ConsumerWork, ResetReadIndex, ConsumerLoop, ConsumerLoopEnds,
          LoadLastRead, StoreReadIndex, ConsumerLoadWriteIndex, CheckWrite, AfterWait, FutexWait,
          FutexWaitAgain, FutexWoken, BeginConsume, ConsumeStopped, EndConsume, FutexTimeout,
          FutexInterrupted, ConsumerStart, ConsumerCrash, ConsumerStop, ConsumerReset,
          CallConsumeSingle, ConsumerReturns, ConsumerGoto, segmentVars
    <3> QED BY <3>1 DEF indices
  <2> QED BY <2>1, <2>2
<1> QED BY <1>2, <1>3, <1>4 DEF Next

(* The inductive invariant: when the consumer only uses Run, never calls it *)
(* over an unserved first request, and the producer only opens the segment, *)
(* the handshake keeps the two out of each other's slot.                    *)
THEOREM HandshakeHolds ==
    ASSUME HandshakeRespected
    PROVE  Spec => []HandshakeInv
<1>1. OnlyRuns
  BY HandshakeRespected DEF HandshakeRespected
<1>2. Init => HandshakeInv
  BY <1>1, AgreementInit DEF HandshakeInv
<1>3. TypeOK /\ HandshakeInv /\ [Next]_vars => HandshakeInv'
  BY <1>1, HandshakeRespected, ServedStep, AgreementStep DEF HandshakeInv
<1> QED BY <1>2, <1>3, TypeCorrect, PTL DEF Spec

(* It respects what the theorems below ask for.                             *)
LEMMA NothingOvertakes ==
    ASSUME HandshakeRespected
    PROVE  OnlyRuns /\ (Spec => [][~OvertakesPublication]_vars)
<1>1. OnlyRuns
  BY HandshakeRespected DEF HandshakeRespected
<1>2. TypeOK /\ HandshakeInv /\ [Next]_vars => [~OvertakesPublication]_vars
  BY HandshakeRespected, ServedStep
<1>3. Spec => [][~OvertakesPublication]_vars
  BY <1>2, HandshakeRespected, HandshakeHolds, TypeCorrect, PTL DEF Spec
<1> QED BY <1>1, <1>3

(* A torn frame takes a Run that overtakes a publication: without that step *)
(* the callback only ever sees a whole frame that stays put, through all    *)
(* crashes, time-outs and retries (what the run RunRetryTears leaves true). *)
THEOREM OnlyOvertakingTears ==
    ASSUME OnlyRuns
    PROVE  Spec /\ [][~OvertakesPublication]_vars => []NeverTorn
<1>1. TypeOK /\ AgreementInv => NeverTorn
  BY ConstantFacts
  DEF AgreementInv, ConsumesAwaitedSlot, OwnedByConsumer, ConsumerKnows, NeverTorn
<1> QED BY <1>1, OnlyRuns, AgreementHolds, TypeCorrect, PTL

(* The consume callback only ever sees a whole frame that stays put.        *)
THEOREM NoTornFrame ==
    ASSUME HandshakeRespected
    PROVE  Spec => []NeverTorn
BY HandshakeRespected, NothingOvertakes, OnlyOvertakingTears, PTL

(* Only the produce callback and InitializeBuffer write to the buffers.     *)
LEMMA WritersOfBuffers ==
    Next => BeginWrite \/ EndWrite \/ InitializeBuffers \/ UNCHANGED buffers
<1> USE DEF segmentVars, contents
<1>1. ASSUME ProducerWork PROVE BeginWrite \/ EndWrite \/ InitializeBuffers \/ UNCHANGED buffers
  BY <1>1
  DEF ProducerWork, InitializeBuffer, InitializeWriteIndex, InitializeReadIndex,
      InitializeLastWritten, InitializeSequence, InitializeSlots, InitializeWake,
      RunIteration, RunReturns, ProduceFrame, LoadWriteIndex, LoadReadIndex,
      MarkSequenceWriting, MarkSlotWriting, ClearSlotWriting, StoreLastWritten,
      StoreSequence, WakeMonitors, ResetWriteIndex, ReloadReadIndex, Publish, WakeConsumer
<1>2. ASSUME ProducerStep, ~ProducerWork PROVE UNCHANGED buffers
  BY <1>2
  DEF ProducerStep, WakeConsumerFails, ProducerStart, ProducerCrash, ProducerStop,
      ProducerReset, CallRun, CallProduceSingle
<1>3. ASSUME ConsumerWork PROVE UNCHANGED buffers
  BY <1>3
  DEF ConsumerWork, ResetReadIndex, ConsumerLoop, ConsumerLoopEnds, LoadLastRead,
      StoreReadIndex, ConsumerLoadWriteIndex, CheckWrite, FutexWait, FutexWaitAgain,
      FutexWoken, BeginConsume, ConsumeStopped, EndConsume
<1>4. ASSUME ConsumerStep, ~ConsumerWork PROVE UNCHANGED buffers
  BY <1>4
  DEF ConsumerStep, FutexTimeout, FutexInterrupted, ConsumerStart, ConsumerCrash,
      ConsumerStop, ConsumerReset, CallConsumerRun, CallConsumeSingle
<1> QED BY <1>1, <1>2, <1>3, <1>4 DEF Next

(* A torn frame would need a write to a slot that is asked for and          *)
(* published: without overtaking there is none.                             *)
THEOREM OnlyOvertakingWrites ==
    ASSUME OnlyRuns
    PROVE  Spec /\ [][~OvertakesPublication]_vars => HandedOverSlotIsFrozen
<1> DEFINE Frozen == \A slot \in Slot :
             read_index = slot /\ write_index = slot => buffers'[slot] = buffers[slot]
<1>1. ASSUME TypeOK, AgreementInv, Next PROVE Frozen
  <2>1. CASE BeginWrite \/ EndWrite
    BY <1>1, <2>1
    DEF AgreementInv, OwnedByConsumer, CommittedPc, WritingPc, BeginWrite, EndWrite, Goto,
        TypeOK, SegmentTypeOK, ProducerTypeOK
  <2>2. CASE ~(BeginWrite \/ EndWrite)
    <3>1. ~InitializeBuffers
      BY <1>1 DEF AgreementInv, InitializeBuffers, Goto, InitializePc
    <3>2. UNCHANGED buffers
      BY <1>1, <2>2, <3>1, WritersOfBuffers
    <3> QED BY <3>2
  <2> QED BY <2>1, <2>2
<1>2. TypeOK /\ AgreementInv /\ [Next]_vars => [Frozen]_vars
  BY <1>1
<1> QED BY <1>2, OnlyRuns, AgreementHolds, TypeCorrect, PTL DEF Spec, HandedOverSlotIsFrozen

(* Nobody touches a slot that is asked for and published.                   *)
THEOREM HandedOverStaysFrozen ==
    ASSUME HandshakeRespected
    PROVE  Spec => HandedOverSlotIsFrozen
BY HandshakeRespected, NothingOvertakes, OnlyOvertakingWrites, PTL

(* Without overtaking no frame comes twice or late, retries or not.         *)
THEOREM OnlyOvertakingRepeats ==
    ASSUME OnlyRuns
    PROVE  Spec /\ [][~OvertakesPublication]_vars => FreshDelivery
<1>1. TypeOK /\ AgreementInv /\ [Next]_vars => [BeginConsume => current_write \in unseen]_vars
  BY ConstantFacts
  DEF AgreementInv, ConsumesAwaitedSlot, PublishedIsUnseen, ConsumerKnows, BeginConsume,
      ConsumerGoto
<1> QED BY <1>1, OnlyRuns, AgreementHolds, TypeCorrect, PTL DEF Spec, FreshDelivery

(* Every frame the consumer gets is newer than every one it got before.     *)
THEOREM DeliveryIsFresh ==
    ASSUME HandshakeRespected
    PROVE  Spec => FreshDelivery
BY HandshakeRespected, NothingOvertakes, OnlyOvertakingRepeats, PTL

-----------------------------------------------------------------------------
(* Refinement.                                                              *)

(* What the handoff can see of a step that is not one of the eight below.   *)
LEMMA OtherStepsStutter ==
    ASSUME AgreementInv, Next,
           ~BeginWrite, ~EndWrite, ~ResetWriteIndex, ~Publish,
           ~ResetReadIndex, ~StoreReadIndex, ~BeginConsume,
           ~EndConsume, ~ConsumerCrash
    PROVE  UNCHANGED <<indices, buffers, unseen>> /\ (c_pc' = "consume" <=> c_pc = "consume")
<1> USE DEF segmentVars, indices, contents, history, consumerVars, Goto, ConsumerGoto
<1>1. ~InitializeBuffer /\ ~(p_pc \in InitializePc)
  BY DEF AgreementInv, InitializeBuffer, InitializeWriteIndex, InitializeReadIndex,
      InitializeLastWritten, InitializeSequence, InitializeSlots, InitializeBuffers,
      InitializeWake, InitializePc
<1>2. CASE ProducerWork /\ UNCHANGED consumerVars
  BY <1>1, <1>2
  DEF ProducerWork, RunIteration, RunReturns, ProduceFrame, LoadWriteIndex, LoadReadIndex,
      MarkSequenceWriting, MarkSlotWriting, ClearSlotWriting, StoreLastWritten,
      StoreSequence, WakeMonitors, ReloadReadIndex, WakeConsumer
<1>3. CASE ProducerStep /\ ~ProducerWork /\ UNCHANGED consumerVars
  BY <1>3
  DEF ProducerStep, WakeConsumerFails, ProducerStart, ProducerCrash, ProducerStop,
      ProducerReset, CallRun, CallProduceSingle
<1>4. CASE ConsumerWork
  BY <1>4
  DEF ConsumerWork, ConsumerLoop, ConsumerLoopEnds, LoadLastRead, ConsumerLoadWriteIndex,
      CheckWrite, AfterWait, FutexWait, FutexWaitAgain, FutexWoken, ConsumeStopped,
      ConsumerReturns
<1>5. CASE ConsumerStep /\ ~ConsumerWork
  BY <1>5
  DEF ConsumerStep, FutexTimeout, FutexInterrupted, ConsumerStart, ConsumerStop,
      ConsumerReset, CallConsumerRun, CallConsumeSingle, ConsumerReturns
<1> QED BY <1>2, <1>3, <1>4, <1>5 DEF Next

(* A step of the producer leaves the consumer alone.                        *)
LEMMA ProducerMovesAlone ==
    ASSUME Next, p_pc' # p_pc
    PROVE  UNCHANGED consumerVars
BY DEF Next, producerVars

(* Each step of the handshake is a step of the handoff, or none.            *)
LEMMA AgreementStepIsHandoffStep ==
    ASSUME TypeOK, AgreementInv, AgreementInv', Next
    PROVE  Handoff!HandoffNext \/ UNCHANGED Handoff!handoffVars
<1> USE ConstantFacts
    DEF TypeOK, SegmentTypeOK, ProducerTypeOK, ConsumerTypeOK, Handoff!handoffVars,
        OfferedSlot, indices, contents, history, consumerVars, Goto, ConsumerGoto
<1>1. CASE BeginWrite
  <2>1. next_write # OfferedSlot
    BY <1>1 DEF BeginWrite, AgreementInv, OwnedByConsumer, CommittedPc, WritingPc
  <2>2. UNCHANGED <<c_pc, OfferedSlot>>
    BY <1>1, ProducerMovesAlone DEF BeginWrite
  <2>3. [sequence |-> monitor_sequence, complete |-> FALSE] \in Frame
    BY DEF Frame, monitor_sequence
  <2>4. Handoff!Write(next_write)
    BY <1>1, <2>1, <2>2, <2>3 DEF Handoff!Write, BeginWrite
  <2> QED BY <2>4 DEF Handoff!HandoffNext
<1>2. CASE EndWrite
  <2>1. next_write # OfferedSlot
    BY <1>2 DEF EndWrite, AgreementInv, OwnedByConsumer, CommittedPc, WritingPc
  <2>2. UNCHANGED <<c_pc, OfferedSlot>>
    BY <1>2, ProducerMovesAlone DEF EndWrite
  <2> DEFINE frame == [buffers[next_write] EXCEPT !.complete = TRUE]
  <2>3. frame \in Frame /\ frame.complete
    BY DEF Frame
  <2>4. buffers' = [buffers EXCEPT ![next_write] = frame]
    BY <1>2 DEF EndWrite
  <2>5. unseen' = unseen \cup {next_write}
    BY <1>2 DEF EndWrite
  <2>6. Handoff!Write(next_write)
    BY <2>1, <2>2, <2>3, <2>4, <2>5 DEF Handoff!Write
  <2> QED BY <2>6 DEF Handoff!HandoffNext
<1>3. CASE ResetWriteIndex
  <2>1. OfferedSlot = Unavailable /\ OfferedSlot' = Unavailable
    BY <1>3
    DEF ResetWriteIndex, AgreementInv, TargetIsChosen, ResetIsQuiet, Resetting
  <2>2. UNCHANGED <<c_pc, buffers, unseen>>
    BY <1>3, ProducerMovesAlone DEF ResetWriteIndex
  <2> QED BY <2>1, <2>2
<1>4. CASE Publish
  <2>1. UNCHANGED <<c_pc, buffers, unseen, read_index>> /\ write_index' = next_write
    BY <1>4, ProducerMovesAlone DEF Publish
  <2>2. /\ buffers[next_write].complete
        /\ next_write \in unseen
        /\ next_write # write_index
        /\ read_index \in {next_write, Unavailable}
        /\ read_index = Unavailable => write_index # Unavailable
    BY <1>4
    DEF Publish, AgreementInv, TargetIsWritten, TargetIsChosen, PublishedIsUnseen,
        ResetIsQuiet, WrittenPc
  <2>3. CASE read_index = next_write
    <3>1. Handoff!Offer(next_write)
      BY <2>1, <2>2, <2>3 DEF Handoff!Offer
    <3> QED BY <3>1 DEF Handoff!HandoffNext
  <2>4. CASE read_index = Unavailable
    BY <2>1, <2>2, <2>4
  <2> QED BY <2>2, <2>3, <2>4
<1>5. CASE ResetReadIndex \/ StoreReadIndex
  <2>1. UNCHANGED <<write_index, buffers, unseen>> /\ c_pc # "consume" /\ c_pc' # "consume"
    BY <1>5 DEF ResetReadIndex, StoreReadIndex
  <2>2. OfferedSlot' = Unavailable
    BY <1>5
    DEF ResetReadIndex, StoreReadIndex, AgreementInv, ConsumerKnows, OtherSlot
  <2>3. Handoff!Withdraw
    BY <2>1, <2>2 DEF Handoff!Withdraw
  <2> QED BY <2>3 DEF Handoff!HandoffNext
<1>6. CASE BeginConsume
  <2>1. UNCHANGED <<indices, buffers>> /\ c_pc = "ready" /\ c_pc' = "consume"
    BY <1>6 DEF BeginConsume
  <2>2. OfferedSlot = current_write /\ current_write \in unseen
    BY <1>6
    DEF BeginConsume, AgreementInv, ConsumesAwaitedSlot, ConsumerKnows, PublishedIsUnseen
  <2>3. unseen' \in SUBSET (unseen \ {current_write})
    BY <1>6 DEF BeginConsume
  <2>4. Handoff!Take
    BY <2>1, <2>2, <2>3 DEF Handoff!Take
  <2> QED BY <2>4 DEF Handoff!HandoffNext
<1>7. CASE EndConsume \/ ConsumerCrash
  <2>1. UNCHANGED <<indices, buffers, unseen>> /\ c_pc' # "consume"
    BY <1>7 DEF EndConsume, ConsumerCrash, ConsumerReturns, segmentVars
  <2>2. CASE c_pc = "consume"
    <3>1. Handoff!Finish
      BY <2>1, <2>2 DEF Handoff!Finish
    <3> QED BY <3>1 DEF Handoff!HandoffNext
  <2>3. CASE c_pc # "consume"
    BY <2>1, <2>3
  <2> QED BY <2>2, <2>3
<1>8. CASE /\ ~BeginWrite /\ ~EndWrite /\ ~ResetWriteIndex /\ ~Publish
           /\ ~ResetReadIndex /\ ~StoreReadIndex /\ ~BeginConsume
           /\ ~EndConsume /\ ~ConsumerCrash
  BY <1>8, OtherStepsStutter
<1> QED BY <1>1, <1>2, <1>3, <1>4, <1>5, <1>6, <1>7, <1>8

(* Without overtaking the implementation is a snapshot handoff, retries or  *)
(* not.                                                                     *)
THEOREM OnlyOvertakingBreaksHandoff ==
    ASSUME OnlyRuns
    PROVE  Spec /\ [][~OvertakesPublication]_vars => ImplementsHandoff
<1>1. Init => Handoff!HandoffInit
  BY ConstantFacts
  DEF Init, SegmentInit, ConsumerInit, Handoff!HandoffInit, OfferedSlot
<1>2. TypeOK /\ AgreementInv /\ AgreementInv' /\ [Next]_vars
        => [Handoff!HandoffNext]_Handoff!handoffVars
  <2> SUFFICES ASSUME TypeOK, AgreementInv, AgreementInv', [Next]_vars
               PROVE  Handoff!HandoffNext \/ UNCHANGED Handoff!handoffVars
    OBVIOUS
  <2>1. CASE Next
    BY <2>1, AgreementStepIsHandoffStep
  <2>2. CASE UNCHANGED vars
    BY <2>2
    DEF vars, segmentVars, indices, contents, history, consumerVars,
        Handoff!handoffVars, OfferedSlot
  <2> QED BY <2>1, <2>2
<1> QED BY <1>1, <1>2, OnlyRuns, AgreementHolds, TypeCorrect, PTL
        DEF Spec, ImplementsHandoff, Handoff!HandoffSpec

(* The handshake implements the snapshot handoff.                           *)
THEOREM StreamingImplementsHandoff ==
    ASSUME HandshakeRespected
    PROVE  Spec => ImplementsHandoff
BY HandshakeRespected, NothingOvertakes, OnlyOvertakingBreaksHandoff, PTL

=============================================================================
