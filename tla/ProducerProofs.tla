--------------------------- MODULE ProducerProofs ---------------------------
(***************************************************************************)
(* Facts about the segment and the producer alone, for the proofs of the    *)
(* modules that compose the producer with a consumer or with a monitor.     *)
(***************************************************************************)
EXTENDS Producer, TLAPS

(* Sequence numbers start at 0 and stay in range when they advance.         *)
LEMMA SequenceFacts ==
    /\ 0 \in Sequence
    /\ \A s \in Sequence : (s + 1) % SequenceModulus \in Sequence
    /\ \A s \in Sequence, w \in BOOLEAN : PackSequenceAndWriting(s, w) \in PackedWord
<1>1. SequenceModulus \in Nat /\ SequenceModulus > 0
  BY SequenceModulusAssumption
<1>2. \A s \in Nat : s % SequenceModulus \in Sequence
  BY <1>1 DEF Sequence
<1>3. \A s \in Sequence : s \in Nat /\ s + 1 \in Nat
  BY DEF Sequence
<1> QED BY <1>1, <1>2, <1>3 DEF Sequence, PackSequenceAndWriting, PackedWord

(* The slots and buffer states as sets, and the range of the slot choices.   *)
LEMMA ConstantFacts ==
    /\ NoCompletedMonitorSequence \in PackedWord
    /\ ZeroedFrame \in Frame
    /\ BufferState = Slot \cup {Unavailable} /\ Unavailable \notin Slot
    /\ BufferA \in Slot
    /\ \A state : OtherSlot(state) \in Slot /\ OtherSlot(state) # state
    /\ \A last, read : ChooseNextWrite(last, read) \in Slot
<1>1. NoCompletedMonitorSequence \in PackedWord /\ ZeroedFrame \in Frame
  BY SequenceFacts DEF NoCompletedMonitorSequence, ZeroedFrame, Frame
<1>2. /\ BufferState = Slot \cup {Unavailable} /\ Unavailable \notin Slot
      /\ BufferA \in Slot
      /\ \A state : OtherSlot(state) \in Slot /\ OtherSlot(state) # state
  BY DEF Slot, BufferState, Unavailable, BufferA, BufferB, OtherSlot
<1>3. \A last, read : ChooseNextWrite(last, read) \in Slot
  BY <1>2 DEF ChooseNextWrite
<1> QED BY <1>1, <1>2, <1>3

(* Every step of the producer keeps the types, and it only ever wakes others. *)
LEMMA ProducerKeepsTypes ==
    ASSUME SegmentTypeOK, ProducerTypeOK, ProducerStep
    PROVE  /\ SegmentTypeOK'
           /\ ProducerTypeOK'
           /\ write_index_waiters' \subseteq write_index_waiters
           /\ sequence_waiters' \subseteq sequence_waiters
<1> USE ConstantFacts, SequenceFacts
    DEF SegmentTypeOK, ProducerTypeOK, Goto,
        producerLocals, segmentVars, indices, metadata, contents, history, queues,
        ProducerPc, InitializePc, FramePc
<1>1. CASE InitializeWriteIndex
  BY <1>1 DEF InitializeWriteIndex
<1>2. CASE InitializeReadIndex
  BY <1>2 DEF InitializeReadIndex
<1>3. CASE InitializeLastWritten
  BY <1>3 DEF InitializeLastWritten
<1>4. CASE InitializeSequence
  BY <1>4 DEF InitializeSequence
<1>5. CASE InitializeSlots
  BY <1>5 DEF InitializeSlots
<1>6. CASE InitializeBuffers
  BY <1>6 DEF InitializeBuffers
<1>7. CASE InitializeWake
  BY <1>7 DEF InitializeWake
<1>8. CASE RunIteration
  BY <1>8 DEF RunIteration
<1>9. CASE RunReturns
  BY <1>9 DEF RunReturns
<1>10. CASE LoadWriteIndex
  BY <1>10 DEF LoadWriteIndex
<1>11. CASE LoadReadIndex
  BY <1>11 DEF LoadReadIndex
<1>12. CASE MarkSequenceWriting
  BY <1>12 DEF MarkSequenceWriting, PackedWord
<1>13. CASE MarkSlotWriting
  BY <1>13 DEF MarkSlotWriting, monitor_sequence
<1>14. CASE BeginWrite
  BY <1>14 DEF BeginWrite, Frame, monitor_sequence
<1>15. CASE EndWrite
  BY <1>15 DEF EndWrite, Frame
<1>16. CASE ClearSlotWriting
  BY <1>16 DEF ClearSlotWriting, monitor_sequence
<1>17. CASE StoreLastWritten
  BY <1>17 DEF StoreLastWritten
<1>18. CASE StoreSequence
  BY <1>18 DEF StoreSequence, monitor_sequence
<1>19. CASE WakeMonitors
  BY <1>19 DEF WakeMonitors
<1>20. CASE ResetWriteIndex
  BY <1>20 DEF ResetWriteIndex
<1>21. CASE ReloadReadIndex
  BY <1>21 DEF ReloadReadIndex
<1>22. CASE Publish
  BY <1>22 DEF Publish
<1>23. CASE WakeConsumer
  BY <1>23 DEF WakeConsumer, WakeOne, FrameReturns
<1>24. CASE WakeConsumerFails
  BY <1>24 DEF WakeConsumerFails, FrameReturns
<1>25. CASE ProducerStart
  BY <1>25 DEF ProducerStart
<1>26. CASE ProducerCrash
  BY <1>26 DEF ProducerCrash
<1>27. CASE ProducerStop
  BY <1>27 DEF ProducerStop
<1>28. CASE ProducerReset
  BY <1>28 DEF ProducerReset
<1>29. CASE CallRun
  BY <1>29 DEF CallRun
<1>30. CASE CallProduceSingle
  BY <1>30 DEF CallProduceSingle
<1> QED
  BY <1>1, <1>2, <1>3, <1>4, <1>5, <1>6, <1>7, <1>8, <1>9, <1>10, <1>11, <1>12, <1>13, <1>14, <1>15, <1>16, <1>17, <1>18, <1>19, <1>20, <1>21, <1>22, <1>23, <1>24, <1>25, <1>26, <1>27, <1>28, <1>29, <1>30 DEF ProducerStep, ProducerWork, InitializeBuffer, ProduceFrame

=============================================================================
