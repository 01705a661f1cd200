------------------------- MODULE BoundedWaitingProofs -------------------------
(***************************************************************************)
(* Proofs about module BoundedWaiting: how long a consumer can wait, for    *)
(* every use of the library and every width of the sequence numbers.        *)
(***************************************************************************)
EXTENDS BoundedWaiting, StreamingProofs

(* What the other proofs say of every state that the counting starts from.  *)
StateKnown == TypeOK /\ (HandshakeRespected => HandshakeInv)

-----------------------------------------------------------------------------
(* The request.                                                             *)

RequestInv == QueuedIsAsleep /\ RequestStands /\ FirstIsBufferA

(* What a wait rests on survives every step of the producer ...             *)
LEMMA RequestProducer ==
    ASSUME StateKnown, RequestInv, ProducerStep, UNCHANGED consumerVars
    PROVE  RequestInv'
<1> USE ConstantFacts
    DEF StateKnown, TypeOK, SegmentTypeOK, ProducerTypeOK, ConsumerTypeOK, consumerVars,
        segmentVars, indices, queues, producerLocals, RequestInv, QueuedIsAsleep,
        RequestStands, FirstIsBufferA, HandshakeInv, AgreementInv, CallsWhenServed,
        TargetIsChosen, ResetIsQuiet, ConsumerKnows, Resetting, HandshakeRespected, OnlyRuns,
        WaitPc, WritingPc, CommittedPc, Goto, InitializePc
<1>1. CASE InitializeWriteIndex
  BY <1>1 DEF InitializeWriteIndex
<1>2. CASE InitializeReadIndex
  BY <1>2 DEF InitializeReadIndex
<1>3. CASE InitializeLastWritten
  BY <1>3 DEF InitializeLastWritten
<1>4. CASE InitializeSequence
  BY <1>4 DEF InitializeSequence
<1>5. CASE InitializeSlots
  BY <1>5 DEF InitializeSlots
<1>6. CASE InitializeBuffers
  BY <1>6 DEF InitializeBuffers
<1>7. CASE InitializeWake
  BY <1>7 DEF InitializeWake
<1>8. CASE RunIteration
  BY <1>8 DEF RunIteration
<1>9. CASE RunReturns
  BY <1>9 DEF RunReturns
<1>10. CASE LoadWriteIndex
  BY <1>10 DEF LoadWriteIndex
<1>11. CASE LoadReadIndex
  BY <1>11 DEF LoadReadIndex
<1>12. CASE MarkSequenceWriting
  BY <1>12 DEF MarkSequenceWriting
<1>13. CASE MarkSlotWriting
  BY <1>13 DEF MarkSlotWriting
<1>14. CASE BeginWrite
  BY <1>14 DEF BeginWrite
<1>15. CASE EndWrite
  BY <1>15 DEF EndWrite
<1>16. CASE ClearSlotWriting
  BY <1>16 DEF ClearSlotWriting
<1>17. CASE StoreLastWritten
  BY <1>17 DEF StoreLastWritten
<1>18. CASE StoreSequence
  BY <1>18 DEF StoreSequence
<1>19. CASE WakeMonitors
  BY <1>19 DEF WakeMonitors
<1>20. CASE ResetWriteIndex
  BY <1>20 DEF ResetWriteIndex, OtherSlot
<1>21. CASE ReloadReadIndex
  BY <1>21 DEF ReloadReadIndex, Publishable
<1>22. CASE Publish
  BY <1>22 DEF Publish
<1>23. CASE WakeConsumer
  BY <1>23 DEF WakeConsumer, FrameReturns, WakeOne
<1>24. CASE WakeConsumerFails
  BY <1>24 DEF WakeConsumerFails, FrameReturns
<1>25. CASE ProducerStart
  BY <1>25 DEF ProducerStart
<1>26. CASE ProducerCrash
  BY <1>26 DEF ProducerCrash
<1>27. CASE ProducerStop
  BY <1>27 DEF ProducerStop
<1>28. CASE ProducerReset
  BY <1>28 DEF ProducerReset
<1>29. CASE CallRun
  BY <1>29 DEF CallRun
<1>30. CASE CallProduceSingle
  BY <1>30 DEF CallProduceSingle
<1> QED
  BY <1>1, <1>2, <1>3, <1>4, <1>5, <1>6, <1>7, <1>8, <1>9, <1>10, <1>11, <1>12, <1>13, <1>14, <1>15, <1>16, <1>17, <1>18, <1>19, <1>20, <1>21, <1>22, <1>23, <1>24, <1>25, <1>26, <1>27, <1>28, <1>29, <1>30
  DEF ProducerStep, ProducerWork, InitializeBuffer, ProduceFrame

(* ... and every step of the consumer.                                      *)
LEMMA RequestConsumer ==
    ASSUME StateKnown, RequestInv, ConsumerStep, UNCHANGED producerVars
    PROVE  RequestInv'
<1> USE ConstantFacts
    DEF StateKnown, TypeOK, SegmentTypeOK, ProducerTypeOK, ConsumerTypeOK, producerVars,
        segmentVars, indices, queues, RequestInv, QueuedIsAsleep,
        RequestStands, FirstIsBufferA, HandshakeInv, AgreementInv, CallsWhenServed,
        ConsumerKnows, HandshakeRespected, OnlyRuns, WaitPc, ConsumerGoto
<1>1. CASE ResetReadIndex
  BY <1>1 DEF ResetReadIndex
<1>2. CASE ConsumerLoop
  BY <1>2 DEF ConsumerLoop
<1>3. CASE ConsumerLoopEnds
  BY <1>3 DEF ConsumerLoopEnds, ConsumerReturns
<1>4. CASE LoadLastRead
  BY <1>4 DEF LoadLastRead, OtherSlot
<1>5. CASE StoreReadIndex
  BY <1>5 DEF StoreReadIndex
<1>6. CASE ConsumerLoadWriteIndex
  BY <1>6 DEF ConsumerLoadWriteIndex
<1>7. CASE CheckWrite
  BY <1>7 DEF CheckWrite, AfterWait
<1>8. CASE FutexWait
  BY <1>8 DEF FutexWait
<1>9. CASE FutexWaitAgain
  BY <1>9 DEF FutexWaitAgain
<1>10. CASE FutexWoken
  BY <1>10 DEF FutexWoken
<1>11. CASE BeginConsume
  BY <1>11 DEF BeginConsume
<1>12. CASE ConsumeStopped
  BY <1>12 DEF ConsumeStopped, ConsumerReturns
<1>13. CASE EndConsume
  BY <1>13 DEF EndConsume, ConsumerReturns
<1>14. CASE FutexTimeout
  BY <1>14 DEF FutexTimeout, ConsumerReturns
<1>15. CASE FutexInterrupted
  BY <1>15 DEF FutexInterrupted, ConsumerReturns
<1>16. CASE ConsumerStart
  BY <1>16 DEF ConsumerStart
<1>17. CASE ConsumerCrash
  BY <1>17 DEF ConsumerCrash
<1>18. CASE ConsumerStop
  BY <1>18 DEF ConsumerStop
<1>19. CASE ConsumerReset
  BY <1>19 DEF ConsumerReset
<1>20. CASE CallConsumerRun
  BY <1>20 DEF CallConsumerRun
<1>21. CASE CallConsumeSingle
  BY <1>21 DEF CallConsumeSingle
<1> QED
  BY <1>1, <1>2, <1>3, <1>4, <1>5, <1>6, <1>7, <1>8, <1>9, <1>10, <1>11, <1>12, <1>13, <1>14, <1>15, <1>16, <1>17, <1>18, <1>19, <1>20, <1>21
  DEF ConsumerStep, ConsumerWork

-----------------------------------------------------------------------------
(* The count.                                                               *)

CountInv ==
    /\ frames_waited \in 0 .. 2
    /\ frames_waited > 0 => AnswerDue
    /\ SecondFrameAnswers
    /\ AnsweredInTime

(* Where an answer is certain, the segment shows the request that is waited *)
(* for.                                                                     *)
LEMMA DueIsAsked ==
    ASSUME StateKnown, RequestInv, AnswerDue
    PROVE  read_index = awaited
BY DEF StateKnown, RequestInv, RequestStands, AnswerDue, HandshakeInv, AgreementInv, ConsumerKnows

(* A frame that knows the request either went to the slot that is asked     *)
(* for, or finds that slot published already.                               *)
LEMMA FrameFits ==
    ASSUME StateKnown, RequestInv, AnswerDue, p_pc = "reload_read_index", next_read = awaited
    PROVE  awaited \in Slot /\ (next_write = awaited \/ write_index = awaited)
<1>1. awaited # Unavailable /\ HandshakeInv
  BY DEF StateKnown, RequestInv, RequestStands, AnswerDue
<1>2. awaited \in Slot /\ write_index \in BufferState
  BY <1>1 DEF StateKnown, TypeOK, SegmentTypeOK, ConsumerTypeOK, BufferState, Slot
<1>3. next_write = OtherSlot(write_index)
  BY <1>1 DEF HandshakeInv, AgreementInv, TargetIsChosen
<1>4. write_index = Unavailable => awaited = BufferA
  BY <1>1, DueIsAsked DEF RequestInv, FirstIsBufferA, AnswerDue
<1> QED
  BY <1>2, <1>3, <1>4, ConstantFacts DEF OtherSlot, BufferState, Slot

(* The count is right after every step of the producer ...                  *)
LEMMA CountProducer ==
    ASSUME StateKnown, RequestInv, CountInv, ProducerStep, UNCHANGED consumerVars, CountFrames
    PROVE  CountInv'
<1>1. AnswerDue' = AnswerDue /\ awaited' = awaited
  BY DEF AnswerDue, consumerVars
<1>2. CASE ~AnswerDue
  BY <1>1, <1>2 DEF CountFrames, CountInv, SecondFrameAnswers, AnsweredInTime
<1>3. CASE AnswerDue /\ WakeConsumer
  <2>1. p_pc' \notin CommittedPc /\ p_pc' # "wake_consumer"
    BY <1>3 DEF WakeConsumer, FrameReturns, CommittedPc, WritingPc
  <2>2. frames_waited' = 2 => write_index' = awaited
    BY <1>1, <1>3 DEF WakeConsumer, CountFrames, CountInv, SecondFrameAnswers, indices
  <2>3. ConsumerThread \notin write_index_waiters'
    <3>1. write_index_waiters = {} \/ write_index_waiters = {ConsumerThread}
      BY DEF StateKnown, TypeOK, ConsumerTypeOK
    <3>2. write_index_waiters' \in WakeOne(write_index_waiters)
      BY <1>3 DEF WakeConsumer
    <3>3. WakeOne({}) = {{}}
      BY DEF WakeOne
    <3>4. \A waiters \in WakeOne({ConsumerThread}) : waiters = {}
      BY DEF WakeOne
    <3>5. write_index_waiters' = {}
      BY <3>1, <3>2, <3>3, <3>4
    <3> QED BY <3>5
  <2> QED
    BY <1>1, <1>3, <2>1, <2>2, <2>3
    DEF CountFrames, CountInv, SecondFrameAnswers, AnsweredInTime
<1>4. CASE AnswerDue /\ ~WakeConsumer
  <2>1. frames_waited' = frames_waited
    BY <1>1, <1>4 DEF CountFrames
  <2>2. read_index = awaited
    BY <1>4, DueIsAsked
  <2>3. p_pc = "reload_read_index" /\ next_read = awaited
        => awaited \in Slot /\ (next_write = awaited \/ write_index = awaited)
    BY <1>4, FrameFits
  <2> USE ConstantFacts, <1>1, <1>4, <2>1, <2>2
      DEF StateKnown, TypeOK, RequestInv, RequestStands, CountInv, SecondFrameAnswers,
          AnsweredInTime, CommittedPc, WritingPc, Goto, producerLocals, segmentVars, indices,
          queues
  <2>4. CASE InitializeWriteIndex
    <3>1. p_pc \in InitializePc => awaited = Unavailable
      BY DEF AnswerDue, HandshakeInv, AgreementInv
    <3> QED BY <2>4, <3>1 DEF InitializeWriteIndex, InitializePc
  <2>5. CASE InitializeReadIndex
    BY <2>5 DEF InitializeReadIndex
  <2>6. CASE InitializeLastWritten
    BY <2>6 DEF InitializeLastWritten
  <2>7. CASE InitializeSequence
    BY <2>7 DEF InitializeSequence
  <2>8. CASE InitializeSlots
    BY <2>8 DEF InitializeSlots
  <2>9. CASE InitializeBuffers
    BY <2>9 DEF InitializeBuffers
  <2>10. CASE InitializeWake
    BY <2>10 DEF InitializeWake
  <2>11. CASE RunIteration
    BY <2>11 DEF RunIteration
  <2>12. CASE RunReturns
    BY <2>12 DEF RunReturns
  <2>13. CASE LoadWriteIndex
    BY <2>13 DEF LoadWriteIndex
  <2>14. CASE LoadReadIndex
    BY <2>14 DEF LoadReadIndex, ChooseNextWrite
  <2>15. CASE MarkSequenceWriting
    BY <2>15 DEF MarkSequenceWriting
  <2>16. CASE MarkSlotWriting
    BY <2>16 DEF MarkSlotWriting
  <2>17. CASE BeginWrite
    BY <2>17 DEF BeginWrite
  <2>18. CASE EndWrite
    BY <2>18 DEF EndWrite
  <2>19. CASE ClearSlotWriting
    BY <2>19 DEF ClearSlotWriting
  <2>20. CASE StoreLastWritten
    BY <2>20 DEF StoreLastWritten
  <2>21. CASE StoreSequence
    BY <2>21 DEF StoreSequence
  <2>22. CASE WakeMonitors
    BY <2>22 DEF WakeMonitors
  <2>23. CASE ResetWriteIndex
    BY <2>23 DEF ResetWriteIndex
  <2>24. CASE ReloadReadIndex
    BY <2>24, <2>3 DEF ReloadReadIndex, Publishable, OtherSlot
  <2>25. CASE Publish
    BY <2>25 DEF Publish
  <2>26. CASE WakeConsumerFails
    BY <2>26 DEF WakeConsumerFails, FrameReturns
  <2>27. CASE ProducerStart
    BY <2>27 DEF ProducerStart
  <2>28. CASE ProducerCrash
    BY <2>28 DEF ProducerCrash
  <2>29. CASE ProducerStop
    BY <2>29 DEF ProducerStop
  <2>30. CASE ProducerReset
    BY <2>30 DEF ProducerReset
  <2>31. CASE CallRun
    BY <2>31 DEF CallRun
  <2>32. CASE CallProduceSingle
    BY <2>32 DEF CallProduceSingle
  <2> QED
    BY <1>4, <2>4, <2>5, <2>6, <2>7, <2>8, <2>9, <2>10, <2>11, <2>12, <2>13, <2>14, <2>15, <2>16, <2>17, <2>18, <2>19, <2>20, <2>21, <2>22, <2>23, <2>24, <2>25, <2>26, <2>27, <2>28, <2>29, <2>30, <2>31, <2>32
    DEF ProducerStep, ProducerWork, InitializeBuffer, ProduceFrame
<1> QED BY <1>2, <1>3, <1>4

(* ... and every step of the consumer: a wait begins at nought, and whoever  *)
(* still waits asks for the same.                                           *)
LEMMA CountConsumer ==
    ASSUME StateKnown, RequestInv, CountInv, ConsumerStep, UNCHANGED producerVars, CountFrames
    PROVE  CountInv'
<1>1. ~WakeConsumer
  BY DEF WakeConsumer, FrameReturns, producerVars
<1>2. CASE frames_waited = 0
  <2>1. frames_waited' = 0
    BY <1>1, <1>2 DEF CountFrames
  <2> QED BY <2>1 DEF CountInv, SecondFrameAnswers, AnsweredInTime
<1>3. CASE frames_waited > 0
  <2>1. AnswerDue
    BY <1>3 DEF CountInv
  <2>2. CASE ~AnswerDue'
    BY <2>2 DEF CountFrames, CountInv, SecondFrameAnswers, AnsweredInTime
  <2>3. CASE AnswerDue'
    <3>1. awaited' = awaited /\ UNCHANGED indices
          /\ (frames_waited = 2 => ConsumerThread \notin write_index_waiters')
      <4> USE <1>3, <2>1, <2>3, ConstantFacts
          DEF AnswerDue, WaitPc, CountInv, AnsweredInTime, RequestInv, QueuedIsAsleep,
              ConsumerGoto, segmentVars, indices, queues
      <4>1. CASE ResetReadIndex
        BY <4>1 DEF ResetReadIndex
      <4>2. CASE ConsumerLoop
        BY <4>2 DEF ConsumerLoop
      <4>3. CASE ConsumerLoopEnds
        BY <4>3 DEF ConsumerLoopEnds, ConsumerReturns
      <4>4. CASE LoadLastRead
        BY <4>4 DEF LoadLastRead
      <4>5. CASE StoreReadIndex
        BY <4>5 DEF StoreReadIndex
      <4>6. CASE ConsumerLoadWriteIndex
        BY <4>6 DEF ConsumerLoadWriteIndex
      <4>7. CASE CheckWrite
        BY <4>7 DEF CheckWrite, AfterWait
      <4>8. CASE FutexWait
        BY <4>8 DEF FutexWait
      <4>9. CASE FutexWaitAgain
        BY <4>9 DEF FutexWaitAgain
      <4>10. CASE FutexWoken
        BY <4>10 DEF FutexWoken
      <4>11. CASE BeginConsume
        BY <4>11 DEF BeginConsume
      <4>12. CASE ConsumeStopped
        BY <4>12 DEF ConsumeStopped, ConsumerReturns
      <4>13. CASE EndConsume
        BY <4>13 DEF EndConsume, ConsumerReturns
      <4>14. CASE FutexTimeout
        BY <4>14 DEF FutexTimeout, ConsumerReturns
      <4>15. CASE FutexInterrupted
        BY <4>15 DEF FutexInterrupted, ConsumerReturns
      <4>16. CASE ConsumerStart
        BY <4>16 DEF ConsumerStart
      <4>17. CASE ConsumerCrash
        BY <4>17 DEF ConsumerCrash
      <4>18. CASE ConsumerStop
        BY <4>18 DEF ConsumerStop
      <4>19. CASE ConsumerReset
        BY <4>19 DEF ConsumerReset
      <4>20. CASE CallConsumerRun
        BY <4>20 DEF CallConsumerRun
      <4>21. CASE CallConsumeSingle
        BY <4>21 DEF CallConsumeSingle
      <4> QED
        BY <4>1, <4>2, <4>3, <4>4, <4>5, <4>6, <4>7, <4>8, <4>9, <4>10, <4>11, <4>12, <4>13, <4>14, <4>15, <4>16, <4>17, <4>18, <4>19, <4>20, <4>21
        DEF ConsumerStep, ConsumerWork
    <3>2. frames_waited' = frames_waited
      BY <1>1, <2>3 DEF CountFrames
    <3> QED
      BY <2>1, <2>3, <3>1, <3>2
      DEF CountInv, SecondFrameAnswers, AnsweredInTime, producerVars, indices
  <2> QED BY <2>2, <2>3
<1> QED BY <1>2, <1>3 DEF CountInv

-----------------------------------------------------------------------------
(* The results.                                                             *)

(* The history variable only watches: every behaviour with the count is one *)
(* of module Streaming, to which its theorems apply.                        *)
THEOREM CountingIsStreaming == CountedSpec => Spec
<1>1. CountedInit => Init
  BY DEF CountedInit
<1>2. [CountedNext]_countedVars => [Next]_vars
  BY DEF CountedNext, countedVars
<1> QED BY <1>1, <1>2, PTL DEF CountedSpec, Spec

LEMMA WaitInit == CountedInit => RequestInv /\ CountInv
BY ConstantFacts
DEF CountedInit, Init, SegmentInit, ProducerInit, ConsumerInit, RequestInv, QueuedIsAsleep, RequestStands,
    FirstIsBufferA, WaitPc, CountInv, SecondFrameAnswers, AnsweredInTime

LEMMA WaitStep ==
    ASSUME StateKnown, RequestInv, CountInv, [CountedNext]_countedVars
    PROVE  RequestInv' /\ CountInv'
<1>1. CASE CountedNext
  BY <1>1, RequestProducer, RequestConsumer, CountProducer, CountConsumer DEF CountedNext, Next
<1>2. CASE UNCHANGED countedVars
  BY <1>2
  DEF countedVars, vars, segmentVars, indices, queues, producerVars, consumerVars,
      RequestInv, QueuedIsAsleep, RequestStands, FirstIsBufferA, CountInv,
      SecondFrameAnswers, AnsweredInTime, AnswerDue
<1> QED BY <1>1, <1>2

(* What the producer is about to answer and what the consumer waits for     *)
(* agree: the inductive invariant, in every use of the library.             *)
THEOREM WaitInvHolds == CountedSpec => []WaitInv
<1>1. Spec => []StateKnown
  <2>1. CASE HandshakeRespected
    <3>1. Spec => []HandshakeInv
      BY <2>1, HandshakeHolds
    <3>2. TypeOK /\ HandshakeInv => StateKnown
      BY DEF StateKnown
    <3> QED BY <3>1, <3>2, TypeCorrect, PTL
  <2>2. CASE ~HandshakeRespected
    <3>1. TypeOK => StateKnown
      BY <2>2 DEF StateKnown
    <3> QED BY <3>1, TypeCorrect, PTL
  <2> QED BY <2>1, <2>2
<1>2. StateKnown /\ RequestInv /\ CountInv /\ [CountedNext]_countedVars
        => (RequestInv /\ CountInv)'
  BY WaitStep
<1>3. RequestInv /\ CountInv => WaitInv
  BY DEF RequestInv, CountInv, WaitInv
<1> QED BY <1>1, <1>2, <1>3, WaitInit, CountingIsStreaming, PTL DEF CountedSpec

(* README.md:9.  However the library is used, the second frame that ends    *)
(* while a consumer waits in the handshake of Run answers it and finds it   *)
(* awake; while the handshake is respected, the same holds of every wait    *)
(* for a frame.                                                             *)
THEOREM WaitIsBounded == CountedSpec => []AnsweredInTime
<1>1. WaitInv => AnsweredInTime
  BY DEF WaitInv
<1> QED BY <1>1, WaitInvHolds, PTL

=============================================================================
