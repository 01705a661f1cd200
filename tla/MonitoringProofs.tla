-------------------------- MODULE MonitoringProofs --------------------------
(***************************************************************************)
(* Proofs about the copies a monitor takes (module Monitoring), for every   *)
(* read mode, bound on attempts, width of the sequence numbers and consumer. *)
(***************************************************************************)
EXTENDS Monitoring, ProducerProofs

(* Packing loses nothing of a sequence number in range.                     *)
LEMMA PackingIsExact ==
    \A s \in Sequence, w \in BOOLEAN :
        PackSequenceAndWriting(s, w) = [sequence |-> s, writing |-> w]
<1>1. \A s \in Sequence : s % SequenceModulus = s
  BY SequenceModulusAssumption DEF Sequence
<1> QED BY <1>1 DEF PackSequenceAndWriting

(* A frame is known by its two fields.                                      *)
LEMMA FrameFields ==
    \A frame \in Frame : \A s : frame.sequence = s /\ frame.complete =>
        frame = [sequence |-> s, complete |-> TRUE]
BY DEF Frame

(* The writing flag tells two words apart.                                  *)
LEMMA WordFields ==
    \A word, s : ~word.writing => word # PackSequenceAndWriting(s, TRUE)
<1>1. \A s : PackSequenceAndWriting(s, TRUE).writing
  BY DEF PackSequenceAndWriting
<1> QED BY <1>1

(* The values dead locals are reset to.                                     *)
LEMMA MonitorConstants ==
    /\ 0 \in 0 .. MaxValidationAttempts
    /\ NoCompletedMonitorSequence.sequence = 0
    /\ \A n \in 0 .. MaxValidationAttempts :
          n < MaxValidationAttempts => n + 1 \in 0 .. MaxValidationAttempts
<1>1. /\ 0 \in 0 .. MaxValidationAttempts
      /\ \A n \in 0 .. MaxValidationAttempts :
            n < MaxValidationAttempts => n + 1 \in 0 .. MaxValidationAttempts
  BY MaxValidationAttemptsAssumption
<1>2. NoCompletedMonitorSequence.sequence = 0
  BY SequenceModulusAssumption DEF NoCompletedMonitorSequence, PackSequenceAndWriting
<1> QED BY <1>1, <1>2

(* Nobody attached, a freshly initialized segment: everything is typed.     *)
LEMMA MonitoringTypeInit == Init => MonitoringTypeOK
<1> SUFFICES ASSUME Init PROVE MonitoringTypeOK
  OBVIOUS
<1>1. SegmentTypeOK /\ write_index_waiters = {}
  BY ConstantFacts DEF Init, SegmentInit, SegmentTypeOK
<1>2. ProducerTypeOK
  BY ConstantFacts, SequenceFacts DEF Init, ProducerInit, ProducerTypeOK, ProducerPc
<1>3. MonitorTypeOK
  BY ConstantFacts, SequenceFacts, MonitorConstants
  DEF Init, SegmentInit, MonitorInit, MonitorTypeOK, MonitorPc
<1> QED BY <1>1, <1>2, <1>3 DEF MonitoringTypeOK

(* What the history records of the producer is typed.                       *)
LEMMA MonitoringTypeProducer ==
    ASSUME MonitoringTypeOK, ProducerFrameByFrame, MonitorSees
    PROVE  MonitoringTypeOK'
<1>1. ProducerStep
  BY DEF ProducerFrameByFrame, ProducerStep, ProducerWork
<1>2. SegmentTypeOK' /\ ProducerTypeOK' /\ write_index_waiters' = {}
  BY <1>1, ProducerKeepsTypes DEF MonitoringTypeOK
<1>3. snapshot' \in Frame
  BY DEF MonitorSees, MonitoringTypeOK, MonitorTypeOK, Frame
<1>4. sequence_waiters' \subseteq {MonitorThread}
  BY <1>1, ProducerKeepsTypes DEF MonitoringTypeOK, MonitorTypeOK
<1>5. reused' \in BOOLEAN
  BY DEF MonitorSees
<1>6. MonitorTypeOK'
  BY <1>3, <1>4, <1>5 DEF MonitorSees, MonitoringTypeOK, MonitorTypeOK, monitorControl, monitorLocals
<1> QED BY <1>2, <1>6 DEF MonitoringTypeOK

(* Every step of the monitor keeps the types, its own and the segment's.    *)
LEMMA MonitoringTypeMonitor ==
    ASSUME MonitoringTypeOK, MonitorStep, UNCHANGED producerVars
    PROVE  MonitoringTypeOK'
<1> USE ConstantFacts, SequenceFacts, MonitorConstants
    DEF MonitoringTypeOK, SegmentTypeOK, ProducerTypeOK, MonitorTypeOK, producerVars, MonitorGoto,
        monitorControl, monitorLocals, monitorHistory, segmentVars, indices, metadata, contents,
        history, queues, MonitorPc
<1>1. CASE RunLoads
  BY <1>1 DEF RunLoads
<1>2. CASE RunEnds
  BY <1>2 DEF RunEnds, MonitorReturns
<1>3. CASE RunSleeps
  BY <1>3 DEF RunSleeps, FallsAsleep
<1>4. CASE RunWaitSucceeds
  BY <1>4 DEF RunWaitSucceeds, WaitSucceeds
<1>5. CASE RunWaitTimesOut
  BY <1>5 DEF RunWaitTimesOut, LeavesQueue
<1>6. CASE ChangeSleeps
  BY <1>6 DEF ChangeSleeps, FallsAsleep
<1>7. CASE ChangeWaitSucceeds
  BY <1>7 DEF ChangeWaitSucceeds, WaitSucceeds
<1>8. CASE ChangeWaitFails
  BY <1>8 DEF ChangeWaitFails, LeavesQueue, CopyReturns, MonitorReturns, ForgetAttempt
<1>9. CASE AttemptsEnd
  BY <1>9 DEF AttemptsEnd, CopyReturns, MonitorReturns, ForgetAttempt
<1>10. CASE SkipBusy
  BY <1>10 DEF SkipBusy, CopyReturns, MonitorReturns, ForgetAttempt
<1>11. CASE BeginAttempt
  BY <1>11 DEF BeginAttempt, MayAttempt
<1>12. CASE NothingWritten
  BY <1>12 DEF NothingWritten, CopyReturns, MonitorReturns, ForgetAttempt
<1>13. CASE LoadLastWritten
  BY <1>13 DEF LoadLastWritten
<1>14. CASE WaitForSlot
  BY <1>14 DEF WaitForSlot
<1>15. CASE SkipSlot
  BY <1>15 DEF SkipSlot, CopyReturns, MonitorReturns, ForgetAttempt
<1>16. CASE LoadSlot
  BY <1>16 DEF LoadSlot
<1>17. CASE BeginCopy
  BY <1>17 DEF BeginCopy
<1>18. CASE EndCopy
  BY <1>18 DEF EndCopy
<1>19. CASE SlotChanged
  BY <1>19 DEF SlotChanged, Discard, CopyReturns, MonitorReturns, ForgetAttempt
<1>20. CASE SlotUnchanged
  BY <1>20 DEF SlotUnchanged
<1>21. CASE LastWrittenChanged
  BY <1>21 DEF LastWrittenChanged, Discard, CopyReturns, MonitorReturns, ForgetAttempt
<1>22. CASE LastWrittenUnchanged
  BY <1>22 DEF LastWrittenUnchanged
<1>23. CASE ReloadSequence
  BY <1>23 DEF ReloadSequence, PackedWord
<1>24. CASE ReloadNothing
  BY <1>24 DEF ReloadNothing, CopyReturns, MonitorReturns, ForgetAttempt
<1>25. CASE Deliver
  BY <1>25 DEF Deliver, MonitorReturns, ForgetAttempt
<1>26. CASE RunWaitFails
  BY <1>26 DEF RunWaitFails, MonitorReturns, LeavesQueue
<1>27. CASE MonitorStop
  BY <1>27 DEF MonitorStop
<1>28. CASE MonitorReset
  BY <1>28 DEF MonitorReset
<1>29. CASE CallMonitorRun
  BY <1>29 DEF CallMonitorRun
<1>30. CASE CallReadInto
  BY <1>30 DEF CallReadInto
<1> QED
  BY <1>1, <1>2, <1>3, <1>4, <1>5, <1>6, <1>7, <1>8, <1>9, <1>10, <1>11, <1>12, <1>13, <1>14,
     <1>15, <1>16, <1>17, <1>18, <1>19, <1>20, <1>21, <1>22, <1>23, <1>24, <1>25, <1>26, <1>27,
     <1>28, <1>29, <1>30
  DEF MonitorStep, MonitorWork

(* Every variable keeps its range.                                          *)
THEOREM MonitoringTypeCorrect == Spec => []MonitoringTypeOK
<1>1. MonitoringTypeOK /\ [Next]_vars => MonitoringTypeOK'
  <2> SUFFICES ASSUME MonitoringTypeOK, [Next]_vars PROVE MonitoringTypeOK'
    OBVIOUS
  <2>1. CASE ProducerFrameByFrame /\ MonitorSees
    BY <2>1, MonitoringTypeProducer
  <2>2. CASE MonitorStep /\ UNCHANGED producerVars
    BY <2>2, MonitoringTypeMonitor
  <2>3. CASE ConsumerRequests /\ UNCHANGED <<producerVars, monitorVars>>
    BY <2>3, ReadRequestsAssumption
    DEF ConsumerRequests, MonitoringTypeOK, SegmentTypeOK, ProducerTypeOK, MonitorTypeOK,
        producerVars, monitorVars, monitorControl, monitorLocals, monitorHistory,
        metadata, contents, history, queues
  <2>4. CASE UNCHANGED vars
    BY <2>4
    DEF vars, MonitoringTypeOK, SegmentTypeOK, ProducerTypeOK, MonitorTypeOK, producerVars,
        monitorVars, monitorControl, monitorLocals, monitorHistory, segmentVars, indices,
        metadata, contents, history, queues
  <2> QED BY <2>1, <2>2, <2>3, <2>4 DEF Next
<1> QED BY MonitoringTypeInit, <1>1, PTL DEF Spec

-----------------------------------------------------------------------------
(* Validation.                                                              *)

(* The producer keeps its labels true: it marks a slot before it touches it *)
(* and clears the mark when the frame is whole.                             *)
LEMMA LabelsProducer ==
    ASSUME MonitoringTypeOK, SlotsAreLabelled, ProducerFrameByFrame
    PROVE  SlotsAreLabelled'
<1> USE ConstantFacts, SequenceFacts, MonitorConstants
    DEF MonitoringTypeOK, SegmentTypeOK, ProducerTypeOK, SlotsAreLabelled, SlotIsUnavailable,
        Goto, monitor_sequence, PackedWord,
        producerLocals, segmentVars, indices, metadata, contents, history, queues
<1>1. CASE InitializeWriteIndex
  BY <1>1 DEF InitializeWriteIndex
<1>2. CASE InitializeReadIndex
  BY <1>2 DEF InitializeReadIndex
<1>3. CASE InitializeLastWritten
  BY <1>3 DEF InitializeLastWritten
<1>4. CASE InitializeSequence
  BY <1>4 DEF InitializeSequence
<1>5. CASE InitializeSlots
  BY <1>5 DEF InitializeSlots, NoCompletedMonitorSequence, PackSequenceAndWriting
<1>6. CASE InitializeBuffers
  BY <1>6 DEF InitializeBuffers
<1>7. CASE InitializeWake
  BY <1>7 DEF InitializeWake
<1>8. CASE LoadWriteIndex
  BY <1>8 DEF LoadWriteIndex
<1>9. CASE LoadReadIndex
  BY <1>9 DEF LoadReadIndex
<1>10. CASE MarkSequenceWriting
  BY <1>10 DEF MarkSequenceWriting
<1>11. CASE MarkSlotWriting
  <2>1. /\ slot_sequence_and_writing' =
              [slot_sequence_and_writing EXCEPT
                 ![next_write] = [sequence |-> current_frame_count, writing |-> TRUE]]
        /\ UNCHANGED <<buffers, next_write, current_frame_count>>
        /\ p_pc' = "begin_write"
    BY <1>11, PackingIsExact DEF MarkSlotWriting
  <2> QED BY <2>1, PackingIsExact
<1>12. CASE BeginWrite
  <2>1. p_pc = "begin_write"
    BY <1>12 DEF BeginWrite
  <2>2. slot_sequence_and_writing[next_write] = [sequence |-> current_frame_count, writing |-> TRUE]
    BY <2>1, PackingIsExact
  <2>3. buffers' = [buffers EXCEPT
                      ![next_write] = [sequence |-> current_frame_count, complete |-> FALSE]]
    BY <1>12 DEF BeginWrite
  <2>4. UNCHANGED <<slot_sequence_and_writing, next_write, current_frame_count>>
    BY <1>12 DEF BeginWrite
  <2>5. p_pc' = "end_write"
    BY <1>12 DEF BeginWrite
  <2>6. buffers'[next_write].sequence = current_frame_count
    BY <2>3
  <2>7. \A slot \in Slot :
          ~SlotIsUnavailable(slot_sequence_and_writing'[slot]) => buffers'[slot] = buffers[slot]
    BY <2>2, <2>3, <2>4
  <2>8. slot_sequence_and_writing'[next_write] = PackSequenceAndWriting(current_frame_count, TRUE)
    BY <2>2, <2>4, PackingIsExact
  <2> QED BY <2>4, <2>5, <2>6, <2>7, <2>8
<1>13. CASE EndWrite
  <2>1. p_pc = "end_write"
    BY <1>13 DEF EndWrite
  <2>2. slot_sequence_and_writing[next_write] = [sequence |-> current_frame_count, writing |-> TRUE]
    BY <2>1, PackingIsExact
  <2>3. buffers' = [buffers EXCEPT
                      ![next_write] = [sequence |-> current_frame_count, complete |-> TRUE]]
    <3>1. buffers[next_write] \in Frame /\ buffers[next_write].sequence = current_frame_count
      BY <2>1
    <3>2. /\ buffers' \in [Slot -> Frame]
          /\ buffers'[next_write].sequence = current_frame_count
          /\ buffers'[next_write].complete
          /\ \A slot \in Slot \ {next_write} : buffers'[slot] = buffers[slot]
      BY <1>13, <3>1 DEF EndWrite, Frame
    <3>3. buffers'[next_write] = [sequence |-> current_frame_count, complete |-> TRUE]
      BY <3>2, FrameFields
    <3> QED BY <3>2, <3>3
  <2>4. UNCHANGED <<slot_sequence_and_writing, next_write, current_frame_count>>
    BY <1>13 DEF EndWrite
  <2>5. p_pc' = "clear_slot"
    BY <1>13 DEF EndWrite
  <2>6. buffers'[next_write] = [sequence |-> current_frame_count, complete |-> TRUE]
    BY <2>3
  <2>7. \A slot \in Slot :
          ~SlotIsUnavailable(slot_sequence_and_writing'[slot]) => buffers'[slot] = buffers[slot]
    BY <2>2, <2>3, <2>4
  <2>8. slot_sequence_and_writing'[next_write] = PackSequenceAndWriting(current_frame_count, TRUE)
    BY <2>2, <2>4, PackingIsExact
  <2> QED BY <2>4, <2>5, <2>6, <2>7, <2>8
<1>14. CASE ClearSlotWriting
  <2>1. /\ p_pc = "clear_slot"
        /\ slot_sequence_and_writing' =
              [slot_sequence_and_writing EXCEPT
                 ![next_write] = [sequence |-> current_frame_count, writing |-> FALSE]]
        /\ UNCHANGED <<buffers, next_write, current_frame_count>>
        /\ p_pc' = "store_last_written"
    BY <1>14, PackingIsExact DEF ClearSlotWriting
  <2> QED BY <2>1
<1>15. CASE StoreLastWritten
  BY <1>15 DEF StoreLastWritten
<1>16. CASE StoreSequence
  BY <1>16 DEF StoreSequence
<1>17. CASE WakeMonitors
  BY <1>17 DEF WakeMonitors
<1>18. CASE ResetWriteIndex
  BY <1>18 DEF ResetWriteIndex
<1>19. CASE ReloadReadIndex
  BY <1>19 DEF ReloadReadIndex, Publishable
<1>20. CASE Publish
  BY <1>20 DEF Publish
<1>21. CASE WakeConsumer
  BY <1>21 DEF WakeConsumer, FrameReturns
<1>22. CASE ProducerStart
  BY <1>22 DEF ProducerStart
<1>23. CASE ProducerCrash
  BY <1>23 DEF ProducerCrash
<1>24. CASE CallProduceSingle
  BY <1>24 DEF CallProduceSingle
<1> QED
  BY <1>1, <1>2, <1>3, <1>4, <1>5, <1>6, <1>7, <1>8, <1>9, <1>10, <1>11, <1>12, <1>13, <1>14,
     <1>15, <1>16, <1>17, <1>18, <1>19, <1>20, <1>21, <1>22, <1>23, <1>24
  DEF ProducerFrameByFrame, InitializeBuffer, ProduceFrame

(* What a step of the producer may do to a slot: mark its word, clear the   *)
(* mark it set, zero the word, or touch the frame under a word that already *)
(* says so.                                                                 *)
LEMMA StepsOnASlot ==
    ASSUME MonitoringTypeOK, SlotsAreLabelled, ProducerFrameByFrame, NEW slot \in Slot
    PROVE  LET old == slot_sequence_and_writing[slot]
               new == slot_sequence_and_writing'[slot]
           IN  /\ \/ new = old
                  \/ new.writing
                  \/ /\ old = PackSequenceAndWriting(new.sequence, TRUE)
                     /\ new.sequence \in Sequence
                  \/ new = NoCompletedMonitorSequence
               /\ buffers'[slot] = buffers[slot] \/ (SlotIsUnavailable(old) /\ new = old)
<1> USE ConstantFacts, SequenceFacts, PackingIsExact
    DEF MonitoringTypeOK, SegmentTypeOK, ProducerTypeOK, SlotsAreLabelled, SlotIsUnavailable,
        Goto, monitor_sequence,
        segmentVars, indices, metadata, contents, history, queues
<1>1. CASE InitializeWriteIndex
  BY <1>1 DEF InitializeWriteIndex
<1>2. CASE InitializeReadIndex
  BY <1>2 DEF InitializeReadIndex
<1>3. CASE InitializeLastWritten
  BY <1>3 DEF InitializeLastWritten
<1>4. CASE InitializeSequence
  BY <1>4 DEF InitializeSequence
<1>5. CASE InitializeSlots
  BY <1>5 DEF InitializeSlots, NoCompletedMonitorSequence
<1>6. CASE InitializeBuffers
  BY <1>6 DEF InitializeBuffers
<1>7. CASE InitializeWake
  BY <1>7 DEF InitializeWake
<1>8. CASE LoadWriteIndex
  BY <1>8 DEF LoadWriteIndex
<1>9. CASE LoadReadIndex
  BY <1>9 DEF LoadReadIndex
<1>10. CASE MarkSequenceWriting
  BY <1>10 DEF MarkSequenceWriting
<1>11. CASE MarkSlotWriting
  <2>1. /\ slot_sequence_and_writing' =
              [slot_sequence_and_writing EXCEPT
                 ![next_write] = [sequence |-> current_frame_count, writing |-> TRUE]]
        /\ UNCHANGED buffers
    BY <1>11 DEF MarkSlotWriting
  <2>2. \/ slot = next_write /\ slot_sequence_and_writing'[slot].writing
        \/ slot_sequence_and_writing'[slot] = slot_sequence_and_writing[slot]
    BY <2>1
  <2> QED BY <2>1, <2>2
<1>12. CASE BeginWrite
  <2>1. /\ slot_sequence_and_writing[next_write] =
              [sequence |-> current_frame_count, writing |-> TRUE]
        /\ UNCHANGED slot_sequence_and_writing
    BY <1>12 DEF BeginWrite
  <2>2. buffers' = [buffers EXCEPT
                      ![next_write] = [sequence |-> current_frame_count, complete |-> FALSE]]
    BY <1>12 DEF BeginWrite
  <2> QED BY <2>1, <2>2
<1>13. CASE EndWrite
  BY <1>13 DEF EndWrite
<1>14. CASE ClearSlotWriting
  <2>1. /\ slot_sequence_and_writing' =
              [slot_sequence_and_writing EXCEPT
                 ![next_write] = [sequence |-> current_frame_count, writing |-> FALSE]]
        /\ slot_sequence_and_writing[next_write] =
              PackSequenceAndWriting(current_frame_count, TRUE)
        /\ UNCHANGED buffers
    BY <1>14 DEF ClearSlotWriting
  <2>2. \/ /\ slot = next_write
           /\ slot_sequence_and_writing'[slot].sequence = current_frame_count
        \/ slot_sequence_and_writing'[slot] = slot_sequence_and_writing[slot]
    BY <2>1
  <2> QED BY <2>1, <2>2
<1>15. CASE StoreLastWritten
  BY <1>15 DEF StoreLastWritten
<1>16. CASE StoreSequence
  BY <1>16 DEF StoreSequence
<1>17. CASE WakeMonitors
  BY <1>17 DEF WakeMonitors
<1>18. CASE ResetWriteIndex
  BY <1>18 DEF ResetWriteIndex
<1>19. CASE ReloadReadIndex
  BY <1>19 DEF ReloadReadIndex
<1>20. CASE Publish
  BY <1>20 DEF Publish
<1>21. CASE WakeConsumer
  BY <1>21 DEF WakeConsumer
<1>22. CASE ProducerStart
  BY <1>22 DEF ProducerStart
<1>23. CASE ProducerCrash
  BY <1>23 DEF ProducerCrash
<1>24. CASE CallProduceSingle
  BY <1>24 DEF CallProduceSingle
<1> QED
  BY <1>1, <1>2, <1>3, <1>4, <1>5, <1>6, <1>7, <1>8, <1>9, <1>10, <1>11, <1>12, <1>13, <1>14,
     <1>15, <1>16, <1>17, <1>18, <1>19, <1>20, <1>21, <1>22, <1>23, <1>24
  DEF ProducerFrameByFrame, InitializeBuffer, ProduceFrame

(* A word that no longer vouches for the copy does not start to again.      *)
LEMMA CandidateProducer ==
    ASSUME MonitoringTypeOK, SlotsAreLabelled, CandidateIsChecked, ProducerFrameByFrame,
           MonitorSees
    PROVE  CandidateIsChecked'
<1> SUFFICES ASSUME m_pc \in CandidatePc, ~reused'
             PROVE  CandidateIsChecked'
  BY DEF CandidateIsChecked, MonitorSees, monitorControl
<1> DEFINE old == slot_sequence_and_writing[candidate]
           new == slot_sequence_and_writing'[candidate]
           whole == [sequence |-> pre_slot_packed.sequence, complete |-> TRUE]
<1>1. /\ candidate \in Slot /\ pre_slot_packed \in PackedWord /\ old \in PackedWord
      /\ new \in PackedWord
  BY MonitoringTypeProducer DEF MonitoringTypeOK, SegmentTypeOK, MonitorTypeOK, MonitorSees, monitorLocals
<1>2. UNCHANGED <<m_pc, candidate, pre_slot_packed>>
  BY DEF MonitorSees, monitorControl, monitorLocals
<1>3. /\ ~SlotIsUnavailable(pre_slot_packed)
      /\ old # PackSequenceAndWriting(pre_slot_packed.sequence, TRUE)
      /\ \/ m_pc = "begin_copy"
         \/ m_pc \in {"end_copy", "post_slot"} /\ old # pre_slot_packed
         \/ snapshot = whole
  BY DEF CandidateIsChecked, MonitorSees
<1>4. new # PackSequenceAndWriting(pre_slot_packed.sequence, TRUE)
  BY <1>3 DEF MonitorSees
<1>5. old # pre_slot_packed => new # pre_slot_packed
  BY <1>1, <1>3, StepsOnASlot, MonitorConstants DEF SlotIsUnavailable
<1>6. m_pc = "end_copy" /\ snapshot = whole => new # pre_slot_packed \/ snapshot' = whole
  BY <1>1, <1>3, StepsOnASlot DEF MonitorSees
<1>7. m_pc # "end_copy" /\ snapshot = whole => snapshot' = whole
  BY DEF MonitorSees
<1> HIDE DEF old, new, whole
<1>8. \/ m_pc = "begin_copy"
      \/ m_pc \in {"end_copy", "post_slot"} /\ new # pre_slot_packed
      \/ snapshot' = whole
  BY <1>3, <1>5, <1>6, <1>7
<1> USE DEF old, new, whole
<1> QED BY <1>2, <1>3, <1>4, <1>8 DEF CandidateIsChecked, SlotIsUnavailable

(* The monitor changes no label and no frame, and it never believes more    *)
(* than what it loaded.                                                     *)
LEMMA ValidationMonitor ==
    ASSUME MonitoringTypeOK, ValidationInv, MonitorStep, UNCHANGED producerVars
    PROVE  ValidationInv'
<1> USE PackingIsExact
    DEF ValidationInv, CandidateIsChecked, CandidatePc, SlotIsUnavailable, MonitoringTypeOK,
        SegmentTypeOK, MonitorTypeOK, MonitorGoto,
        monitorLocals, monitorHistory, segmentVars, indices, metadata, contents, history, queues
<1> HIDE DEF SlotsAreLabelled
<1>a. (UNCHANGED <<slot_sequence_and_writing, buffers>>) => SlotsAreLabelled'
  BY DEF SlotsAreLabelled, producerVars, producerLocals, monitor_sequence
<1>b. ~SlotIsUnavailable(slot_sequence_and_writing[candidate]) =>
         buffers[candidate] = [sequence |-> slot_sequence_and_writing[candidate].sequence,
                               complete |-> TRUE]
  BY DEF SlotsAreLabelled
<1>1. CASE RunLoads
  BY <1>a, <1>1 DEF RunLoads
<1>2. CASE RunEnds
  BY <1>a, <1>2 DEF RunEnds, MonitorReturns
<1>3. CASE RunSleeps
  BY <1>a, <1>3 DEF RunSleeps, FallsAsleep
<1>4. CASE RunWaitSucceeds
  BY <1>a, <1>4 DEF RunWaitSucceeds, WaitSucceeds
<1>5. CASE RunWaitTimesOut
  BY <1>a, <1>5 DEF RunWaitTimesOut, LeavesQueue
<1>6. CASE ChangeSleeps
  BY <1>a, <1>6 DEF ChangeSleeps, FallsAsleep
<1>7. CASE ChangeWaitSucceeds
  BY <1>a, <1>7 DEF ChangeWaitSucceeds, WaitSucceeds
<1>8. CASE ChangeWaitFails
  BY <1>a, <1>8 DEF ChangeWaitFails, LeavesQueue, CopyReturns, MonitorReturns
<1>9. CASE AttemptsEnd
  BY <1>a, <1>9 DEF AttemptsEnd, CopyReturns, MonitorReturns
<1>10. CASE SkipBusy
  BY <1>a, <1>10 DEF SkipBusy, CopyReturns, MonitorReturns
<1>11. CASE BeginAttempt
  BY <1>a, <1>11 DEF BeginAttempt
<1>12. CASE NothingWritten
  BY <1>a, <1>12 DEF NothingWritten, CopyReturns, MonitorReturns
<1>13. CASE LoadLastWritten
  BY <1>a, <1>13 DEF LoadLastWritten
<1>14. CASE WaitForSlot
  BY <1>a, <1>14 DEF WaitForSlot
<1>15. CASE SkipSlot
  BY <1>a, <1>15 DEF SkipSlot, CopyReturns, MonitorReturns
<1>16. CASE LoadSlot
  <2>1. /\ m_pc' = "begin_copy"
        /\ pre_slot_packed' = slot_sequence_and_writing[candidate]
        /\ UNCHANGED <<candidate, slot_sequence_and_writing, buffers>>
        /\ ~SlotIsUnavailable(pre_slot_packed')
    BY <1>16 DEF LoadSlot
  <2>2. ~pre_slot_packed'.writing
    BY <2>1
  <2>3. pre_slot_packed' # PackSequenceAndWriting(pre_slot_packed'.sequence, TRUE)
    BY <2>2, WordFields
  <2>4. SlotsAreLabelled'
    BY <1>a, <2>1
  <2>5. slot_sequence_and_writing'[candidate'] = pre_slot_packed'
    BY <2>1
  <2> QED BY <2>1, <2>3, <2>4, <2>5
<1>17. CASE BeginCopy
  <2>1. /\ m_pc = "begin_copy" /\ m_pc' = "end_copy"
        /\ snapshot' = buffers[candidate]
        /\ UNCHANGED <<candidate, pre_slot_packed, slot_sequence_and_writing, buffers, reused>>
    BY <1>17 DEF BeginCopy
  <2> QED BY <1>a, <1>b, <2>1
<1>18. CASE EndCopy
  BY <1>a, <1>18 DEF EndCopy
<1>19. CASE SlotChanged
  BY <1>a, <1>19 DEF SlotChanged, Discard, CopyReturns, MonitorReturns
<1>20. CASE SlotUnchanged
  BY <1>a, <1>20 DEF SlotUnchanged
<1>21. CASE LastWrittenChanged
  BY <1>a, <1>21 DEF LastWrittenChanged, Discard, CopyReturns, MonitorReturns
<1>22. CASE LastWrittenUnchanged
  BY <1>a, <1>22 DEF LastWrittenUnchanged
<1>23. CASE ReloadSequence
  BY <1>a, <1>23 DEF ReloadSequence
<1>24. CASE ReloadNothing
  BY <1>a, <1>24 DEF ReloadNothing, CopyReturns, MonitorReturns
<1>25. CASE Deliver
  BY <1>a, <1>25 DEF Deliver, MonitorReturns
<1>26. CASE RunWaitFails
  BY <1>a, <1>26 DEF RunWaitFails, MonitorReturns, LeavesQueue
<1>27. CASE MonitorStop
  BY <1>a, <1>27 DEF MonitorStop
<1>28. CASE MonitorReset
  BY <1>a, <1>28 DEF MonitorReset
<1>29. CASE CallMonitorRun
  BY <1>a, <1>29 DEF CallMonitorRun
<1>30. CASE CallReadInto
  BY <1>a, <1>30 DEF CallReadInto
<1> QED
  BY <1>1, <1>2, <1>3, <1>4, <1>5, <1>6, <1>7, <1>8, <1>9, <1>10, <1>11, <1>12, <1>13, <1>14,
     <1>15, <1>16, <1>17, <1>18, <1>19, <1>20, <1>21, <1>22, <1>23, <1>24, <1>25, <1>26, <1>27,
     <1>28, <1>29, <1>30
  DEF MonitorStep, MonitorWork

(* The inductive invariant: words vouch for frames, and a word that is      *)
(* still what it was before the copy vouches for the copy.                  *)
THEOREM ValidationHolds == Spec => []ValidationInv
<1>1. Init => ValidationInv
  BY ConstantFacts
  DEF Init, SegmentInit, ProducerInit, MonitorInit, ValidationInv, SlotsAreLabelled,
      CandidateIsChecked, CandidatePc, SlotIsUnavailable
<1>2. MonitoringTypeOK /\ ValidationInv /\ [Next]_vars => ValidationInv'
  <2> SUFFICES ASSUME MonitoringTypeOK, ValidationInv, [Next]_vars PROVE ValidationInv'
    OBVIOUS
  <2>1. CASE ProducerFrameByFrame /\ MonitorSees
    BY <2>1, LabelsProducer, CandidateProducer DEF ValidationInv
  <2>2. CASE MonitorStep /\ UNCHANGED producerVars
    BY <2>2, ValidationMonitor
  <2>3. CASE ConsumerRequests /\ UNCHANGED <<producerVars, monitorVars>>
    BY <2>3
    DEF ConsumerRequests, ValidationInv, SlotsAreLabelled, CandidateIsChecked, producerVars,
        monitorVars, monitorControl, monitorLocals, monitorHistory, metadata, contents,
        monitor_sequence
  <2>4. CASE UNCHANGED vars
    BY <2>4
    DEF vars, ValidationInv, SlotsAreLabelled, CandidateIsChecked, producerVars, monitorVars,
        monitorControl, monitorLocals, monitorHistory, segmentVars, metadata, contents,
        monitor_sequence
  <2> QED BY <2>1, <2>2, <2>3, <2>4 DEF Next
<1> QED BY <1>1, <1>2, MonitoringTypeCorrect, PTL DEF Spec

(* Whatever the producer does, crashes and re-initializes, an accepted      *)
(* snapshot is the whole frame its slot was labelled with, unless the slot  *)
(* was written again under the same sequence number during the attempt.     *)
THEOREM AcceptedSnapshotsAreWhole == Spec => []AcceptedIsWhole
<1>1. ValidationInv => AcceptedIsWhole
  BY DEF ValidationInv, CandidateIsChecked, CandidatePc, AcceptedIsWhole, Accepted
<1> QED BY <1>1, ValidationHolds, PTL

-----------------------------------------------------------------------------
(* Reads in one moment.                                                     *)

(* No store of the producer changes a label and a frame at once.            *)
LEMMA LabelsOrFrames ==
    ASSUME ProducerFrameByFrame
    PROVE  UNCHANGED slot_sequence_and_writing \/ UNCHANGED buffers
<1> USE DEF segmentVars, metadata, contents
<1>1. CASE ProducerStart \/ ProducerCrash \/ CallProduceSingle
  BY <1>1 DEF ProducerStart, ProducerCrash, CallProduceSingle
<1>2. CASE InitializeBuffer
  BY <1>2
  DEF InitializeBuffer, InitializeWriteIndex, InitializeReadIndex, InitializeLastWritten,
      InitializeSequence, InitializeSlots, InitializeBuffers, InitializeWake
<1>3. CASE ProduceFrame
  BY <1>3
  DEF ProduceFrame, LoadWriteIndex, LoadReadIndex, MarkSequenceWriting, MarkSlotWriting,
      BeginWrite, EndWrite, ClearSlotWriting, StoreLastWritten, StoreSequence, WakeMonitors,
      ResetWriteIndex, ReloadReadIndex, Publish, WakeConsumer
<1> QED BY <1>1, <1>2, <1>3 DEF ProducerFrameByFrame

(* What the producer does is a write, or the end of a read that does not    *)
(* count.                                                                   *)
LEMMA ProducerStepIsAtomic ==
    ASSUME MonitoringTypeOK, MonitoringTypeOK', ProducerFrameByFrame, MonitorSees
    PROVE  Atomic!SnapshotNext \/ UNCHANGED Atomic!snapshotVars
<1>1. UNCHANGED <<m_pc, pre_slot_packed>>
  BY DEF MonitorSees, monitorControl, monitorLocals
<1>2. Accepted => UNCHANGED snapshot
  BY DEF Accepted, MonitorSees
<1>3. CASE reused' = reused
  <2>1. UNCHANGED <<HeldFrame, GivenFrame>>
    BY <1>1, <1>2, <1>3 DEF HeldFrame, GivenFrame, Accepted
  <2>2. buffers' \in [Slot -> Frame]
    BY DEF MonitoringTypeOK, SegmentTypeOK
  <2> QED BY <2>1, <2>2 DEF Atomic!SnapshotNext, Atomic!Write
<1>4. CASE reused' # reused
  <2>1. reused' /\ slot_sequence_and_writing' # slot_sequence_and_writing
    BY <1>4 DEF MonitorSees, MonitoringTypeOK, MonitorTypeOK
  <2>2. UNCHANGED buffers
    BY <2>1, LabelsOrFrames
  <2>3. HeldFrame' = {} /\ GivenFrame' = {}
    BY <2>1 DEF HeldFrame, GivenFrame
  <2> QED BY <2>2, <2>3 DEF Atomic!SnapshotNext, Atomic!EndRead
<1> QED BY <1>3, <1>4

(* The steps that keep an attempt going once its word is loaded.            *)
LEMMA StepsOfAnAttempt ==
    ASSUME MonitorStep, m_pc' \in CandidatePc
    PROVE  \/ LoadSlot \/ BeginCopy \/ EndCopy \/ SlotUnchanged \/ LastWrittenUnchanged
           \/ ReloadSequence
           \/ UNCHANGED <<m_pc, monitorLocals, monitorHistory, segmentVars>>
<1> USE DEF CandidatePc, MonitorGoto, MonitorReturns, CopyReturns, Discard
<1>1. CASE MonitorWork
  <2>1. ~(RunLoads \/ RunEnds \/ RunSleeps \/ RunWaitSucceeds \/ RunWaitTimesOut \/ ChangeSleeps
          \/ ChangeWaitSucceeds \/ ChangeWaitFails)
    BY DEF RunLoads, RunEnds, RunSleeps, RunWaitSucceeds, RunWaitTimesOut, ChangeSleeps,
       ChangeWaitSucceeds, ChangeWaitFails, FallsAsleep, WaitSucceeds
  <2>2. ~(AttemptsEnd \/ SkipBusy \/ BeginAttempt \/ NothingWritten \/ LoadLastWritten \/ WaitForSlot
          \/ SkipSlot)
    BY DEF AttemptsEnd, SkipBusy, BeginAttempt, NothingWritten, LoadLastWritten, WaitForSlot,
       SkipSlot
  <2>3. ~(SlotChanged \/ LastWrittenChanged \/ ReloadNothing \/ Deliver)
    BY DEF SlotChanged, LastWrittenChanged, ReloadNothing, Deliver
  <2> QED
    BY <1>1, <2>1, <2>2, <2>3 DEF MonitorWork
<1>2. CASE MonitorStop
  BY <1>2 DEF MonitorStop
<1>3. CASE RunWaitFails \/ MonitorReset \/ CallMonitorRun \/ CallReadInto
  BY <1>3 DEF RunWaitFails, MonitorReset, CallMonitorRun, CallReadInto
<1> QED
  BY <1>1, <1>2, <1>3 DEF MonitorStep

(* A monitor writes to no slot.                                             *)
LEMMA MonitorLeavesFrames ==
    ASSUME MonitorStep
    PROVE  UNCHANGED buffers
<1> USE DEF segmentVars, contents
<1>1. CASE MonitorWork
  BY <1>1
  DEF MonitorWork, RunLoads, RunEnds, RunSleeps, RunWaitSucceeds, RunWaitTimesOut, ChangeSleeps,
      ChangeWaitSucceeds, ChangeWaitFails, FallsAsleep, WaitSucceeds, LeavesQueue, AttemptsEnd,
      SkipBusy, BeginAttempt, NothingWritten, LoadLastWritten, WaitForSlot, SkipSlot, LoadSlot,
      BeginCopy, EndCopy, SlotChanged, Discard, SlotUnchanged, LastWrittenChanged,
      LastWrittenUnchanged, ReloadSequence, ReloadNothing, Deliver
<1>2. CASE RunWaitFails \/ MonitorStop \/ MonitorReset \/ CallMonitorRun \/ CallReadInto
  BY <1>2
  DEF RunWaitFails, LeavesQueue, MonitorStop, MonitorReset, CallMonitorRun, CallReadInto
<1> QED
  BY <1>1, <1>2 DEF MonitorStep

(* The load of the slot's word is the moment of the read, the end of the    *)
(* validation is when it gives the frame, and every other step is nothing   *)
(* to who sees only frames.                                                 *)
LEMMA MonitorStepIsAtomic ==
    ASSUME MonitoringTypeOK, ValidationInv, MonitorStep
    PROVE  Atomic!SnapshotNext \/ UNCHANGED Atomic!snapshotVars
<1>1. UNCHANGED buffers
  BY MonitorLeavesFrames
<1>2. CASE m_pc' \notin CandidatePc
  <2>1. HeldFrame' = {} /\ GivenFrame' = {}
    BY <1>2 DEF HeldFrame, GivenFrame, Accepted, CandidatePc
  <2> QED BY <1>1, <2>1 DEF Atomic!SnapshotNext, Atomic!EndRead
<1>3. CASE LoadSlot
  <2>1. /\ m_pc = "load_slot" /\ m_pc' = "begin_copy"
        /\ pre_slot_packed' = slot_sequence_and_writing[candidate]
        /\ ~SlotIsUnavailable(slot_sequence_and_writing[candidate])
        /\ reused' = reused
    BY <1>3 DEF LoadSlot, MonitorGoto, monitorHistory
  <2>2. candidate \in Slot
    BY DEF MonitoringTypeOK, MonitorTypeOK
  <2>3. buffers[candidate] = [sequence |-> pre_slot_packed'.sequence, complete |-> TRUE]
    BY <2>1, <2>2 DEF ValidationInv, SlotsAreLabelled
  <2>4. GivenFrame = {} /\ GivenFrame' = {} /\ HeldFrame = {}
    BY <2>1 DEF GivenFrame, HeldFrame, Accepted, CandidatePc
  <2>5. CASE reused
    <3>1. HeldFrame' = {}
      BY <2>1, <2>5 DEF HeldFrame
    <3> QED BY <1>1, <2>4, <3>1 DEF Atomic!snapshotVars
  <2>6. CASE ~reused
    <3>1. HeldFrame' = {buffers[candidate]}
      BY <2>1, <2>3, <2>6 DEF HeldFrame, CandidatePc
    <3>2. buffers[candidate].complete
      BY <2>3
    <3>3. Atomic!TakeFrom(candidate)
      BY <1>1, <2>4, <3>1, <3>2 DEF Atomic!TakeFrom
    <3> QED BY <2>2, <3>3 DEF Atomic!SnapshotNext
  <2> QED BY <2>5, <2>6
<1>4. CASE BeginCopy \/ EndCopy \/ SlotUnchanged
  <2>1. /\ m_pc \in CandidatePc \ {"reload", "deliver"} /\ m_pc' \in CandidatePc \ {"reload", "deliver"}
        /\ UNCHANGED <<pre_slot_packed, reused>>
    BY <1>4
    DEF BeginCopy, EndCopy, SlotUnchanged, MonitorGoto, CandidatePc, monitorLocals, monitorHistory
  <2>2. UNCHANGED <<HeldFrame, GivenFrame>>
    BY <2>1 DEF HeldFrame, GivenFrame, Accepted
  <2> QED BY <1>1, <2>2 DEF Atomic!snapshotVars
<1>5. CASE LastWrittenUnchanged
  <2>1. /\ m_pc = "post_id" /\ m_pc' = "reload"
        /\ UNCHANGED <<pre_slot_packed, reused, snapshot>>
    BY <1>5 DEF LastWrittenUnchanged, MonitorGoto, monitorLocals, monitorHistory
  <2>2. CASE reused
    <3>1. HeldFrame = {} /\ HeldFrame' = {} /\ GivenFrame = {} /\ GivenFrame' = {}
      BY <2>1, <2>2 DEF HeldFrame, GivenFrame
    <3> QED BY <1>1, <3>1 DEF Atomic!snapshotVars
  <2>3. CASE ~reused
    <3>1. snapshot = [sequence |-> pre_slot_packed.sequence, complete |-> TRUE]
      BY <2>1, <2>3 DEF ValidationInv, CandidateIsChecked, CandidatePc
    <3>2. HeldFrame = {snapshot} /\ HeldFrame' = HeldFrame
      BY <2>1, <2>3, <3>1 DEF HeldFrame, CandidatePc
    <3>3. GivenFrame = {} /\ GivenFrame' = {snapshot}
      BY <2>1, <2>3 DEF GivenFrame, Accepted
    <3> QED BY <1>1, <3>2, <3>3 DEF Atomic!SnapshotNext, Atomic!Give
  <2> QED BY <2>2, <2>3
<1>6. CASE ReloadSequence
  <2>1. /\ m_pc = "reload" /\ m_pc' = "deliver"
        /\ UNCHANGED <<pre_slot_packed, reused, snapshot>>
    BY <1>6 DEF ReloadSequence, MonitorGoto, monitorHistory
  <2>2. UNCHANGED <<HeldFrame, GivenFrame>>
    BY <2>1 DEF HeldFrame, GivenFrame, Accepted, CandidatePc
  <2> QED BY <1>1, <2>2 DEF Atomic!snapshotVars
<1>7. CASE UNCHANGED <<m_pc, monitorLocals, monitorHistory, segmentVars>>
  <2>1. UNCHANGED <<HeldFrame, GivenFrame>>
    BY <1>7 DEF HeldFrame, GivenFrame, Accepted, monitorLocals, monitorHistory
  <2> QED BY <1>1, <2>1 DEF Atomic!snapshotVars
<1> QED BY <1>2, <1>3, <1>4, <1>5, <1>6, <1>7, StepsOfAnAttempt

(* The sequence lock implements a read in one moment: every attempt that is *)
(* accepted gives the frame which the slot held, whole, when its word was   *)
(* first loaded, unless the slot was written again under the same number    *)
(* meanwhile (shared_memory_monitor_impl.h:99-153).                         *)
THEOREM MonitoringImplementsAtomicReads == Spec => ReadsAreAtomic
<1>1. Init => Atomic!SnapshotInit
  <2> SUFFICES ASSUME Init PROVE Atomic!SnapshotInit
    OBVIOUS
  <2>1. buffers \in [Slot -> Frame]
    BY MonitoringTypeInit DEF MonitoringTypeOK, SegmentTypeOK
  <2>2. HeldFrame = {} /\ GivenFrame = {}
    BY DEF Init, MonitorInit, HeldFrame, GivenFrame, Accepted, CandidatePc
  <2> QED BY <2>1, <2>2 DEF Atomic!SnapshotInit
<1>2. MonitoringTypeOK /\ MonitoringTypeOK' /\ ValidationInv /\ [Next]_vars
        => [Atomic!SnapshotNext]_Atomic!snapshotVars
  <2> SUFFICES ASSUME MonitoringTypeOK, MonitoringTypeOK', ValidationInv, [Next]_vars
               PROVE  Atomic!SnapshotNext \/ UNCHANGED Atomic!snapshotVars
    OBVIOUS
  <2>1. CASE ProducerFrameByFrame /\ MonitorSees
    BY <2>1, ProducerStepIsAtomic
  <2>2. CASE MonitorStep /\ UNCHANGED producerVars
    BY <2>2, MonitorStepIsAtomic
  <2>3. CASE \/ ConsumerRequests /\ UNCHANGED <<producerVars, monitorVars>>
             \/ UNCHANGED vars
    BY <2>3
    DEF ConsumerRequests, vars, segmentVars, contents, monitorVars, monitorControl,
        monitorLocals, monitorHistory, HeldFrame, GivenFrame, Accepted, Atomic!snapshotVars
  <2> QED BY <2>1, <2>2, <2>3 DEF Next
<1> QED
  BY <1>1, <1>2, MonitoringTypeCorrect, ValidationHolds, PTL
  DEF Spec, ReadsAreAtomic, Atomic!SnapshotSpec

-----------------------------------------------------------------------------
(* The number reported.                                                     *)

(* A slot that no longer is what was copied does not become it again.       *)
LEMMA ChangedStaysChanged ==
    ASSUME MonitoringTypeOK, ValidationInv, ProducerFrameByFrame, MonitorSees,
           m_pc \in CandidatePc, ~reused',
           slot_sequence_and_writing[candidate] # pre_slot_packed
    PROVE  slot_sequence_and_writing'[candidate] # pre_slot_packed
<1>1. /\ candidate \in Slot /\ pre_slot_packed \in PackedWord
      /\ slot_sequence_and_writing'[candidate] \in PackedWord
  BY MonitoringTypeProducer DEF MonitoringTypeOK, SegmentTypeOK, MonitorTypeOK, MonitorSees, monitorLocals
<1>2. /\ ~SlotIsUnavailable(pre_slot_packed)
      /\ slot_sequence_and_writing[candidate] #
           PackSequenceAndWriting(pre_slot_packed.sequence, TRUE)
  BY DEF ValidationInv, CandidateIsChecked, MonitorSees
<1> QED
  BY <1>1, <1>2, StepsOnASlot, MonitorConstants DEF SlotIsUnavailable, ValidationInv

(* Only the last load leads to the report.                                  *)
LEMMA ReportFollowsReload ==
    ASSUME MonitorStep, m_pc' = "deliver"
    PROVE  \/ ReloadSequence
           \/ UNCHANGED <<m_pc, monitorLocals, monitorHistory, segmentVars>>
<1> USE DEF MonitorGoto, MonitorReturns, CopyReturns, Discard
<1>1. CASE MonitorWork
  <2>1. ~(RunLoads \/ RunEnds \/ RunSleeps \/ RunWaitSucceeds \/ RunWaitTimesOut \/ ChangeSleeps
          \/ ChangeWaitSucceeds \/ ChangeWaitFails)
    BY DEF RunLoads, RunEnds, RunSleeps, RunWaitSucceeds, RunWaitTimesOut, ChangeSleeps,
       ChangeWaitSucceeds, ChangeWaitFails, FallsAsleep, WaitSucceeds
  <2>2. ~(AttemptsEnd \/ SkipBusy \/ BeginAttempt \/ NothingWritten \/ LoadLastWritten \/ WaitForSlot
          \/ SkipSlot \/ LoadSlot)
    BY DEF AttemptsEnd, SkipBusy, BeginAttempt, NothingWritten, LoadLastWritten, WaitForSlot,
       SkipSlot, LoadSlot
  <2>3. ~(BeginCopy \/ EndCopy \/ SlotChanged \/ SlotUnchanged \/ LastWrittenChanged
          \/ LastWrittenUnchanged \/ ReloadNothing \/ Deliver)
    BY DEF BeginCopy, EndCopy, SlotChanged, SlotUnchanged, LastWrittenChanged,
       LastWrittenUnchanged, ReloadNothing, Deliver
  <2> QED
    BY <1>1, <2>1, <2>2, <2>3 DEF MonitorWork
<1>2. CASE MonitorStop
  BY <1>2 DEF MonitorStop
<1>3. CASE RunWaitFails \/ MonitorReset \/ CallMonitorRun \/ CallReadInto
  BY <1>3 DEF RunWaitFails, MonitorReset, CallMonitorRun, CallReadInto
<1> QED
  BY <1>1, <1>2, <1>3 DEF MonitorStep

(* A number that is not the frame's is reported only if the producer has    *)
(* begun to write the slot again (shared_memory_monitor_impl.h:194-202).    *)
THEOREM WrongNumberMeansOverwrittenTheorem == Spec => []WrongNumberMeansOverwritten
<1>1. Init => WrongNumberMeansOverwritten
  BY DEF Init, MonitorInit, WrongNumberMeansOverwritten
<1>2. MonitoringTypeOK /\ ValidationInv /\ WrongNumberMeansOverwritten /\ [Next]_vars
        => WrongNumberMeansOverwritten'
  <2> SUFFICES ASSUME MonitoringTypeOK, ValidationInv, WrongNumberMeansOverwritten, [Next]_vars
               PROVE  WrongNumberMeansOverwritten'
    OBVIOUS
  <2>1. CASE ProducerFrameByFrame /\ MonitorSees
    <3> SUFFICES ASSUME m_pc' = "deliver", ~reused', accepted_sequence' # snapshot'.sequence
                 PROVE  slot_sequence_and_writing'[candidate'] # pre_slot_packed'
      BY DEF WrongNumberMeansOverwritten
    <3>1. /\ m_pc = "deliver" /\ ~reused
          /\ UNCHANGED <<candidate, pre_slot_packed, accepted_sequence, snapshot>>
      BY <2>1 DEF MonitorSees, monitorControl, monitorLocals
    <3>2. slot_sequence_and_writing[candidate] # pre_slot_packed
      BY <3>1 DEF WrongNumberMeansOverwritten
    <3> QED
      BY <2>1, <3>1, <3>2, ChangedStaysChanged DEF CandidatePc
  <2>2. CASE MonitorStep /\ UNCHANGED producerVars
    <3> SUFFICES ASSUME m_pc' = "deliver"
                 PROVE  WrongNumberMeansOverwritten'
      BY DEF WrongNumberMeansOverwritten
    <3>1. CASE ReloadSequence
      <4>1. /\ m_pc = "reload"
            /\ accepted_sequence' = slot_sequence_and_writing[candidate].sequence
            /\ UNCHANGED <<reused, snapshot, candidate, pre_slot_packed, slot_sequence_and_writing>>
        BY <3>1 DEF ReloadSequence, MonitorGoto, monitorHistory, segmentVars, metadata
      <4>2. ~reused => snapshot.sequence = pre_slot_packed.sequence
        BY <4>1 DEF ValidationInv, CandidateIsChecked, CandidatePc
      <4> QED
        BY <4>1, <4>2 DEF WrongNumberMeansOverwritten
    <3>2. CASE UNCHANGED <<m_pc, monitorLocals, monitorHistory, segmentVars>>
      BY <3>2 DEF WrongNumberMeansOverwritten, monitorLocals, monitorHistory, segmentVars, metadata
    <3> QED
      BY <2>2, <3>1, <3>2, ReportFollowsReload
  <2>3. CASE \/ ConsumerRequests /\ UNCHANGED <<producerVars, monitorVars>>
             \/ UNCHANGED vars
    BY <2>3
    DEF ConsumerRequests, vars, WrongNumberMeansOverwritten, monitorVars, monitorControl,
        monitorLocals, monitorHistory, segmentVars, metadata
  <2> QED BY <2>1, <2>2, <2>3 DEF Next
<1> QED BY <1>1, <1>2, MonitoringTypeCorrect, ValidationHolds, PTL DEF Spec

-----------------------------------------------------------------------------
(* Bounded calls.                                                           *)

LEMMA PositionsLeft ==
    /\ StepsLeftAt("idle") = 0 /\ StepsLeftAt("run_loop") = 1
    /\ StepsLeftAt("run_asleep") = 2 /\ StepsLeftAt("run_wait") = 3
    /\ StepsLeftAt("attempt") = 2 /\ StepsLeftAt("deliver") = 2
    /\ StepsLeftAt("change_asleep") = 3 /\ StepsLeftAt("wait_change") = 4
    /\ StepsLeftAt("reload") = 3 /\ StepsLeftAt("post_id") = 4 /\ StepsLeftAt("post_slot") = 5
    /\ StepsLeftAt("end_copy") = 6 /\ StepsLeftAt("begin_copy") = 7
    /\ StepsLeftAt("load_slot") = 8 /\ StepsLeftAt("select") = 9
  BY DEF StepsLeftAt

(* A return from CopyLatestSnapshotInto is nearer to the end than any step  *)
(* inside it.                                                               *)
LEMMA ReturnsWindDown ==
    ASSUME MonitoringTypeOK, m_pc' \in {"idle", "run_loop"},
           m_pc \notin {"idle", "run_loop", "run_wait", "run_asleep"}
    PROVE  StepsLeft' \in 0 .. StepsLeft - 1
<1>1. attempts \in Nat /\ MaxValidationAttempts \in Nat /\ attempts <= MaxValidationAttempts
  BY MaxValidationAttemptsAssumption DEF MonitoringTypeOK, MonitorTypeOK
<1>2. m_pc \in MonitorPc
  BY DEF MonitoringTypeOK, MonitorTypeOK
<1>3. StepsLeft' \in {0, 1}
  BY PositionsLeft DEF StepsLeft
<1>4. StepsLeft \in Int /\ StepsLeft >= 2
  BY <1>1, <1>2, PositionsLeft DEF StepsLeft, MonitorPc
<1> QED
  BY <1>3, <1>4

(* Steps within an attempt.                                                 *)
LEMMA AttemptWindsDown ==
    ASSUME MonitoringTypeOK, UNCHANGED attempts,
           NEW from \in MonitorPc \ {"idle", "run_loop", "run_wait", "run_asleep"}, m_pc = from,
           NEW to \in MonitorPc \ {"idle", "run_loop", "run_wait", "run_asleep"}, m_pc' = to,
           StepsLeftAt(to) < StepsLeftAt(from)
    PROVE  StepsLeft' \in 0 .. StepsLeft - 1
<1>1. attempts \in Nat /\ MaxValidationAttempts \in Nat /\ attempts <= MaxValidationAttempts
  BY MaxValidationAttemptsAssumption DEF MonitoringTypeOK, MonitorTypeOK
<1>2. StepsLeftAt(to) \in Nat /\ StepsLeftAt(from) \in Nat
  BY PositionsLeft DEF MonitorPc
<1>3. /\ StepsLeft = StepsLeftAt(from) + 8 * (MaxValidationAttempts - attempts)
      /\ StepsLeft' = StepsLeftAt(to) + 8 * (MaxValidationAttempts - attempts)
  BY DEF StepsLeft
<1> QED
  BY <1>1, <1>2, <1>3

(* Between the calls the monitor is idle, and only Run is in its loop.      *)
CallsInv ==
    /\ m_pc = "idle" => m_call = "None"
    /\ m_pc \in {"run_loop", "run_wait", "run_asleep"} => m_call = "Run"

LEMMA MonitorKeepsCalls ==
    ASSUME CallsInv, MonitorStep
    PROVE  CallsInv'
<1> USE DEF CallsInv, MonitorGoto, MonitorReturns, CopyReturns, Discard
<1>1. CASE RunLoads \/ RunEnds \/ RunSleeps \/ RunWaitSucceeds \/ RunWaitTimesOut \/ RunWaitFails
  BY <1>1 DEF RunLoads, RunEnds, RunSleeps, RunWaitSucceeds, RunWaitTimesOut, RunWaitFails,
     FallsAsleep, WaitSucceeds
<1>2. CASE ChangeSleeps \/ ChangeWaitSucceeds \/ ChangeWaitFails
  BY <1>2 DEF ChangeSleeps, ChangeWaitSucceeds, ChangeWaitFails, FallsAsleep, WaitSucceeds
<1>3. CASE AttemptsEnd \/ SkipBusy \/ BeginAttempt \/ NothingWritten \/ LoadLastWritten
           \/ WaitForSlot \/ SkipSlot \/ LoadSlot
  BY <1>3 DEF AttemptsEnd, SkipBusy, BeginAttempt, NothingWritten, LoadLastWritten, WaitForSlot,
     SkipSlot, LoadSlot
<1>4. CASE BeginCopy \/ EndCopy \/ SlotChanged \/ SlotUnchanged \/ LastWrittenChanged
           \/ LastWrittenUnchanged
  BY <1>4 DEF BeginCopy, EndCopy, SlotChanged, SlotUnchanged, LastWrittenChanged,
     LastWrittenUnchanged
<1>5. CASE ReloadSequence \/ ReloadNothing \/ Deliver
  BY <1>5 DEF ReloadSequence, ReloadNothing, Deliver
<1>6. CASE MonitorStop \/ MonitorReset \/ CallMonitorRun \/ CallReadInto
  BY <1>6 DEF MonitorStop, MonitorReset, CallMonitorRun, CallReadInto
<1> QED
  BY <1>1, <1>2, <1>3, <1>4, <1>5, <1>6 DEF MonitorStep, MonitorWork

LEMMA CallsInvariant == Spec => []CallsInv
<1>1. Init => CallsInv
  BY DEF Init, MonitorInit, CallsInv
<1>2. CallsInv /\ [Next]_vars => CallsInv'
  <2> SUFFICES ASSUME CallsInv, [Next]_vars PROVE CallsInv'
    OBVIOUS
  <2>1. CASE MonitorStep
    BY <2>1, MonitorKeepsCalls
  <2>2. CASE UNCHANGED <<m_pc, m_call>>
    BY <2>2 DEF CallsInv
  <2> QED
    BY <2>1, <2>2 DEF Next, MonitorSees, ConsumerRequests, vars, monitorVars, monitorControl
<1> QED BY <1>1, <1>2, PTL DEF Spec

(* Each attempt that begins is one less.                                    *)
LEMMA BeginWindsDown ==
    ASSUME MonitoringTypeOK, BeginAttempt
    PROVE  StepsLeft' \in 0 .. StepsLeft - 1
<1>1. attempts \in Nat /\ MaxValidationAttempts \in Nat /\ attempts < MaxValidationAttempts
  BY MaxValidationAttemptsAssumption DEF MonitoringTypeOK, MonitorTypeOK, BeginAttempt, MayAttempt
<1>2. StepsLeft = 2 + 8 * (MaxValidationAttempts - attempts)
  BY PositionsLeft DEF StepsLeft, BeginAttempt, MonitorGoto
<1>3. m_pc' \in {"select", "wait_change"} /\ attempts' = attempts + 1
  BY DEF BeginAttempt, MonitorGoto
<1>4. StepsLeft' \in {n + 8 * (MaxValidationAttempts - (attempts + 1)) : n \in {4, 9}}
  BY <1>3, PositionsLeft DEF StepsLeft
<1> QED
  BY <1>1, <1>2, <1>4

LEMMA MonitorWindsDown ==
    ASSUME MonitoringTypeOK, CallsInv, MonitorStep, m_pc' # m_pc,
           m_call = "ReadInto" \/ (m_call = "Run" /\ ~m_running)
    PROVE  StepsLeft' \in 0 .. StepsLeft - 1
<1> USE DEF MonitorGoto, MonitorPc, monitorLocals
<1>1. CASE RunLoads \/ RunEnds \/ RunSleeps \/ RunWaitSucceeds \/ RunWaitTimesOut \/ RunWaitFails
  <2>1. \/ m_pc = "run_loop" /\ m_pc' = "idle"
        \/ m_pc = "run_wait" /\ m_pc' \in {"run_asleep", "run_loop"}
        \/ m_pc = "run_asleep" /\ m_pc' \in {"run_loop", "idle"}
    BY <1>1 DEF RunLoads, RunEnds, RunSleeps, RunWaitSucceeds, RunWaitTimesOut, RunWaitFails,
       FallsAsleep, WaitSucceeds, MonitorReturns, CallsInv
  <2> QED
    BY <2>1, PositionsLeft DEF StepsLeft
<1>2. CASE ChangeWaitFails \/ AttemptsEnd \/ SkipBusy \/ NothingWritten \/ SkipSlot \/ ReloadNothing
           \/ Deliver
  <2>1. /\ m_pc' \in {"idle", "run_loop"}
        /\ m_pc \in {"wait_change", "change_asleep", "attempt", "select", "load_slot", "reload",
                     "deliver"}
    BY <1>2 DEF ChangeWaitFails, AttemptsEnd, SkipBusy, NothingWritten, SkipSlot, ReloadNothing,
       Deliver, CopyReturns, MonitorReturns
  <2> QED
    BY <2>1, ReturnsWindDown
<1>3. CASE ChangeSleeps
  BY <1>3, AttemptWindsDown, PositionsLeft DEF ChangeSleeps, FallsAsleep
<1>4. CASE ChangeWaitSucceeds
  BY <1>4, AttemptWindsDown, PositionsLeft DEF ChangeWaitSucceeds, WaitSucceeds
<1>5. CASE BeginAttempt
  BY <1>5, BeginWindsDown
<1>6. CASE LoadLastWritten
  BY <1>6, AttemptWindsDown, PositionsLeft DEF LoadLastWritten
<1>7. CASE WaitForSlot
  BY <1>7, AttemptWindsDown, PositionsLeft DEF WaitForSlot
<1>8. CASE LoadSlot
  BY <1>8, AttemptWindsDown, PositionsLeft DEF LoadSlot
<1>9. CASE BeginCopy
  BY <1>9, AttemptWindsDown, PositionsLeft DEF BeginCopy
<1>10. CASE EndCopy
  BY <1>10, AttemptWindsDown, PositionsLeft DEF EndCopy
<1>11. CASE SlotUnchanged
  BY <1>11, AttemptWindsDown, PositionsLeft DEF SlotUnchanged
<1>12. CASE LastWrittenUnchanged
  BY <1>12, AttemptWindsDown, PositionsLeft DEF LastWrittenUnchanged
<1>13. CASE ReloadSequence
  BY <1>13, AttemptWindsDown, PositionsLeft DEF ReloadSequence
<1>14. CASE SlotChanged \/ LastWrittenChanged
  <2>1. m_pc \in {"post_slot", "post_id"}
    BY <1>14 DEF SlotChanged, LastWrittenChanged
  <2>2. CASE CopyReturns
    BY <2>1, <2>2, ReturnsWindDown DEF CopyReturns, MonitorReturns
  <2>3. CASE m_pc' = "attempt" /\ UNCHANGED attempts
    BY <2>1, <2>3, AttemptWindsDown, PositionsLeft
  <2> QED
    BY <1>14, <2>2, <2>3 DEF SlotChanged, LastWrittenChanged, Discard
<1>15. CASE MonitorStop \/ MonitorReset \/ CallMonitorRun \/ CallReadInto
  BY <1>15 DEF MonitorStop, MonitorReset, CallMonitorRun, CallReadInto, CallsInv
<1> QED
  BY <1>1, <1>2, <1>3, <1>4, <1>5, <1>6, <1>7, <1>8, <1>9, <1>10, <1>11, <1>12, <1>13, <1>14, <1>15
  DEF MonitorStep, MonitorWork

(* The number of steps of a ReadInto, and of a Run that was stopped, is     *)
(* bounded, for every bound on the attempts, every read mode and whatever   *)
(* the producer does (shared_memory_monitor_impl.h:166-240, 257).           *)
THEOREM CallsWindDownTheorem == Spec => CallsWindDown
<1> DEFINE WindsDown == /\ m_call = "ReadInto" \/ (m_call = "Run" /\ ~m_running)
                        /\ m_pc' # m_pc
                        => StepsLeft' \in 0 .. StepsLeft - 1
<1>1. MonitoringTypeOK /\ CallsInv /\ [Next]_vars => [WindsDown]_vars
  <2> SUFFICES ASSUME MonitoringTypeOK, CallsInv, Next PROVE WindsDown
    OBVIOUS
  <2>1. CASE MonitorStep
    BY <2>1, MonitorWindsDown
  <2>2. CASE UNCHANGED m_pc
    BY <2>2
  <2> QED
    BY <2>1, <2>2 DEF Next, MonitorSees, ConsumerRequests, monitorVars, monitorControl
<1> QED BY <1>1, MonitoringTypeCorrect, CallsInvariant, PTL DEF Spec, CallsWindDown
=============================================================================
