----------------------------- MODULE Monitoring -----------------------------
(***************************************************************************)
(* A monitor that watches a producer process.  The consumer matters to them *)
(* only through read_index, which decides which slot the producer writes    *)
(* to; it is replaced by an environment that asks for any slot at any time, *)
(* which allows all that Consumer does and more.                            *)
(***************************************************************************)
EXTENDS Producer, Monitor

CONSTANT
    ReadRequests   \* what a consumer may store in read_index, {} without a consumer

ASSUME ReadRequestsAssumption == ReadRequests \subseteq BufferState

vars == <<segmentVars, producerVars, monitorVars>>

Init == SegmentInit /\ ProducerInit /\ MonitorInit

ConsumerRequests ==
    /\ read_index' \in ReadRequests \ {read_index}
    /\ UNCHANGED <<write_index, metadata, contents, queues>>

(* The producer, called frame by frame: a frame of Run is one of            *)
(* ProduceSingle for who watches, and stopping the producer's own loop only *)
(* keeps it from the next frame.                                            *)
ProducerFrameByFrame ==
    \/ ProducerStart
    \/ ProducerCrash
    \/ InitializeBuffer
    \/ CallProduceSingle
    \/ ProduceFrame

Next ==
    \/ ProducerFrameByFrame /\ MonitorSees
    \/ MonitorStep /\ UNCHANGED producerVars
    \/ ConsumerRequests /\ UNCHANGED <<producerVars, monitorVars>>

Spec == Init /\ [][Next]_vars

(* The scheduler runs the monitor thread and its timed waits end.  Nothing  *)
(* is asked of the producer, which may have crashed anywhere.               *)
FairSpec == Spec /\ WF_vars(MonitorWork /\ UNCHANGED producerVars)

MonitoringTypeOK ==
    /\ SegmentTypeOK
    /\ ProducerTypeOK
    /\ MonitorTypeOK
    /\ write_index_waiters = {}

-----------------------------------------------------------------------------
(* Safety.                                                                  *)

(* The copy passed IsAcceptedSnapshot.                                      *)
Accepted == m_pc \in {"reload", "deliver"}

(* shared_memory/README.md:277 "validated snapshots only".  An accepted     *)
(* snapshot is one whole frame, and the one its slot was labelled with when *)
(* the attempt began, whatever the producer did during the copy, crashes    *)
(* and re-initialization included; the only way out is that the slot was    *)
(* meanwhile written again under the very same sequence number.             *)
AcceptedIsWhole ==
    Accepted /\ ~reused =>
        snapshot = [sequence |-> pre_slot_packed.sequence, complete |-> TRUE]

(* The invariant behind it.  A slot whose word names a completed frame      *)
(* holds that frame, and the word is marked before the frame is touched ... *)
SlotsAreLabelled ==
    /\ \A slot \in Slot :
         ~SlotIsUnavailable(slot_sequence_and_writing[slot]) =>
            buffers[slot] = [sequence |-> slot_sequence_and_writing[slot].sequence,
                             complete |-> TRUE]
    /\ p_pc \in {"begin_write", "end_write", "clear_slot"} =>
         slot_sequence_and_writing[next_write] = PackSequenceAndWriting(monitor_sequence, TRUE)
    /\ p_pc = "end_write" => buffers[next_write].sequence = monitor_sequence
    /\ p_pc = "clear_slot" =>
         buffers[next_write] = [sequence |-> monitor_sequence, complete |-> TRUE]
    /\ p_pc = "init_buffers" =>
         \A slot \in Slot : SlotIsUnavailable(slot_sequence_and_writing[slot])

(* ... so that a word which is still what it was before the copy vouches    *)
(* for the copy, and one that changed cannot change back unnoticed.         *)
CandidateIsChecked ==
    m_pc \in CandidatePc /\ ~reused =>
        /\ ~SlotIsUnavailable(pre_slot_packed)
        /\ slot_sequence_and_writing[candidate] #
             PackSequenceAndWriting(pre_slot_packed.sequence, TRUE)
        /\ \/ m_pc = "begin_copy"
           \/ /\ m_pc \in {"end_copy", "post_slot"}
              /\ slot_sequence_and_writing[candidate] # pre_slot_packed
           \/ snapshot = [sequence |-> pre_slot_packed.sequence, complete |-> TRUE]

(* Why validation after the copy is enough                                  *)
(* (shared_memory_monitor_impl.h:99-153 against                             *)
(* shared_memory_streaming_impl.h:123-140), at every step of either side.   *)
ValidationInv == SlotsAreLabelled /\ CandidateIsChecked

(* shared_memory/README.md:278 "sequence numbers returned to callbacks      *)
(* match the accepted snapshot".                                            *)
SequenceMatches ==
    m_pc = "deliver" /\ ~reused => accepted_sequence = snapshot.sequence

(* What the code does keep of it.  A wrong number is reported only for a    *)
(* slot that the producer has begun to write again since its snapshot was   *)
(* accepted: while the slot is what was copied, the number is the frame's   *)
(* (shared_memory_monitor_impl.h:194-202).                                  *)
WrongNumberMeansOverwritten ==
    m_pc = "deliver" /\ ~reused /\ accepted_sequence # snapshot.sequence =>
        slot_sequence_and_writing[candidate] # pre_slot_packed

(* shared_memory_monitor_impl.h:203 "Reject if we already delivered this    *)
(* exact sequence (duplicate read)."                                        *)
NoDuplicateDelivery ==
    m_pc = "deliver" /\ m_call = "Run" => accepted_sequence # last_observed_sequence

-----------------------------------------------------------------------------
(* Refinement: an attempt holds a frame from the load of the slot's word    *)
(* on, and gives it once it is accepted.  An attempt during which the slot  *)
(* is written again under the same number does not count.                   *)

HeldFrame ==
    IF m_pc \in CandidatePc /\ ~reused
    THEN {[sequence |-> pre_slot_packed.sequence, complete |-> TRUE]}
    ELSE {}

GivenFrame == IF Accepted /\ ~reused THEN {snapshot} ELSE {}

Atomic == INSTANCE AtomicSnapshot WITH
    Slots   <- Slot,
    Frames  <- Frame,
    content <- buffers,
    taken   <- HeldFrame,
    given   <- GivenFrame

(* shared_memory/README.md:275-277.  The copy between two loads of the      *)
(* slot's word implements a read in one moment: what the monitor accepts is *)
(* what the slot held, whole, when the word was first loaded                *)
(* (shared_memory_monitor_impl.h:99-153).                                   *)
ReadsAreAtomic == Atomic!SnapshotSpec

-----------------------------------------------------------------------------
(* Liveness.                                                                *)

(* shared_memory/README.md:276 "bounded waiting".  Every ReadInto returns,  *)
(* even if the producer overwrites every copy, or died while writing.       *)
ReadIntoReturns == []<>(m_call # "ReadInto")

(* Once its process is stopped for good, the loop of Run ends, even with a  *)
(* producer that died while writing or that never lets a copy pass.         *)
StopEndsRun == <>[]~m_running => []<>(m_call # "Run")

(* The steps a call has left, from where it is in an attempt and for each   *)
(* attempt it may still make.                                               *)
StepsLeftAt(at) ==
    CASE at = "select" -> 9
      [] at = "load_slot" -> 8
      [] at = "begin_copy" -> 7
      [] at = "end_copy" -> 6
      [] at = "post_slot" -> 5
      [] at \in {"post_id", "wait_change"} -> 4
      [] at \in {"reload", "change_asleep", "run_wait"} -> 3
      [] at \in {"attempt", "deliver", "run_asleep"} -> 2
      [] at = "run_loop" -> 1
      [] at = "idle" -> 0

StepsLeft ==
    StepsLeftAt(m_pc) +
    IF m_pc \in {"idle", "run_loop", "run_wait", "run_asleep"} THEN 0
    ELSE 8 * (MaxValidationAttempts - attempts)

(* What makes both so.  A ReadInto, and a Run whose process was stopped,    *)
(* are nearer to their end after each of their steps, whatever the producer *)
(* does in between: 2 + 8 * MaxValidationAttempts steps are enough for a    *)
(* ReadInto, waits included (shared_memory_monitor_impl.h:166-240, 257).    *)
CallsWindDown ==
    [][/\ m_call = "ReadInto" \/ (m_call = "Run" /\ ~m_running)
       /\ m_pc' # m_pc
       => StepsLeft' \in 0 .. StepsLeft - 1]_vars

=============================================================================
