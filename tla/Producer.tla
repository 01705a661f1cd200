------------------------------ MODULE Producer ------------------------------
(***************************************************************************)
(* The producer process: Producer::Run, ProduceSingle and ProduceFrame      *)
(* (shared_memory_streaming_impl.h:85-179), one action per access to the    *)
(* segment, plus InitializeBuffer (48-79), which the sample producers call   *)
(* each time they start.  The process may crash between any two steps and   *)
(* start again; the segment survives it.                                    *)
(***************************************************************************)
EXTENDS SharedMemoryBuffer

CONSTANT
    RestartInitializes  \* does a starting producer run Create(InitializeBuffer)
                        \* on the segment, or only open it?

ASSUME RestartInitializesAssumption == RestartInitializes \in BOOLEAN

VARIABLES
    p_pc,                 \* the next step of the producer thread
    p_call,               \* the API call in progress
    p_running,            \* StreamingControl::IsRunning in this process
    current_frame_count,  \* Producer::current_frame_count_, as its sequence number
    last_write,           \* locals of ProduceFrame
    next_write,
    next_read

producerVars ==
    <<p_pc, p_call, p_running, current_frame_count, last_write, next_write, next_read>>
producerLocals == <<current_frame_count, last_write, next_write, next_read>>

InitializePc == {"init_write_index", "init_read_index", "init_last_written",
                 "init_sequence", "init_slots", "init_buffers", "init_wake"}
FramePc == {"load_write_index", "load_read_index", "mark_sequence", "mark_slot",
            "begin_write", "end_write", "clear_slot", "store_last_written",
            "store_sequence", "wake_monitors", "reset_write_index",
            "reload_read_index", "publish", "wake_consumer"}
ProducerPc == {"down", "idle", "loop"} \cup InitializePc \cup FramePc

ProducerTypeOK ==
    /\ p_pc \in ProducerPc
    /\ p_call \in {"None", "Run", "ProduceSingle"}
    /\ p_running \in BOOLEAN
    /\ current_frame_count \in Sequence
    /\ last_write \in BufferState
    /\ next_write \in Slot
    /\ next_read \in BufferState

ProducerInit ==
    /\ p_pc = "down"
    /\ p_call = "None"
    /\ p_running = FALSE
    /\ current_frame_count = 0
    /\ last_write = Unavailable
    /\ next_write = BufferA
    /\ next_read = Unavailable

(* A step of the thread from one pc to another inside a call.               *)
Goto(from, to) ==
    /\ p_pc = from
    /\ p_pc' = to

-----------------------------------------------------------------------------
(* The life of the process.                                                 *)

(* The process starts: StreamingControl runs, the Producer object opens the *)
(* segment, after the application re-created it when it does that.          *)
ProducerStart ==
    /\ Goto("down", IF RestartInitializes THEN "init_write_index" ELSE "idle")
    /\ p_running' = TRUE
    /\ current_frame_count' = 0
    /\ UNCHANGED <<p_call, last_write, next_write, next_read, segmentVars>>

(* The process dies, wherever it is; only the segment keeps its state.      *)
ProducerCrash ==
    /\ p_pc # "down"
    /\ p_pc' = "down"
    /\ p_call' = "None"
    /\ p_running' = FALSE
    /\ current_frame_count' = 0
    /\ last_write' = Unavailable
    /\ next_write' = BufferA
    /\ next_read' = Unavailable
    /\ UNCHANGED segmentVars

(* StreamingControl::Stop, or a handled signal, at any time.                *)
ProducerStop ==
    /\ p_pc # "down"
    /\ p_running
    /\ p_running' = FALSE
    /\ UNCHANGED <<p_pc, p_call, producerLocals, segmentVars>>

(* StreamingControl::Reset by the application between two calls.            *)
ProducerReset ==
    /\ p_pc = "idle"
    /\ ~p_running
    /\ p_running' = TRUE
    /\ UNCHANGED <<p_pc, p_call, producerLocals, segmentVars>>

-----------------------------------------------------------------------------
(* InitializeBuffer, store by store.  Its one wake-up is on                 *)
(* sequence_and_writing, and its result is ignored.                         *)

InitializeWriteIndex ==
    /\ Goto("init_write_index", "init_read_index")
    /\ write_index' = Unavailable
    /\ UNCHANGED <<read_index, metadata, contents, queues, p_call, p_running, producerLocals>>

InitializeReadIndex ==
    /\ Goto("init_read_index", "init_last_written")
    /\ read_index' = Unavailable
    /\ UNCHANGED <<write_index, metadata, contents, queues, p_call, p_running, producerLocals>>

InitializeLastWritten ==
    /\ Goto("init_last_written", "init_sequence")
    /\ last_written_buffer' = Unavailable
    /\ UNCHANGED <<indices, sequence_and_writing, slot_sequence_and_writing, contents, queues,
                   p_call, p_running, producerLocals>>

InitializeSequence ==
    /\ Goto("init_sequence", "init_slots")
    /\ sequence_and_writing' = NoCompletedMonitorSequence
    /\ UNCHANGED <<indices, last_written_buffer, slot_sequence_and_writing, contents, queues,
                   p_call, p_running, producerLocals>>

InitializeSlots ==
    /\ Goto("init_slots", "init_buffers")
    /\ slot_sequence_and_writing' = [slot \in Slot |-> NoCompletedMonitorSequence]
    /\ UNCHANGED <<indices, last_written_buffer, sequence_and_writing, contents, queues,
                   p_call, p_running, producerLocals>>

InitializeBuffers ==
    /\ Goto("init_buffers", "init_wake")
    /\ buffers' = [slot \in Slot |-> ZeroedFrame]
    /\ unseen' = {}
    /\ newest' = Unavailable
    /\ UNCHANGED <<indices, metadata, queues, p_call, p_running, producerLocals>>

InitializeWake ==
    /\ Goto("init_wake", "idle")
    /\ sequence_waiters' \in {{}, sequence_waiters}
    /\ UNCHANGED <<indices, metadata, contents, write_index_waiters,
                   p_call, p_running, producerLocals>>

InitializeBuffer ==
    \/ InitializeWriteIndex
    \/ InitializeReadIndex
    \/ InitializeLastWritten
    \/ InitializeSequence
    \/ InitializeSlots
    \/ InitializeBuffers
    \/ InitializeWake

-----------------------------------------------------------------------------
(* Run and ProduceSingle.                                                   *)

CallRun ==
    /\ Goto("idle", "loop")
    /\ p_call' = "Run"
    /\ UNCHANGED <<p_running, producerLocals, segmentVars>>

(* ProduceSingle does not look at the streaming control.                    *)
CallProduceSingle ==
    /\ Goto("idle", "load_write_index")
    /\ p_call' = "ProduceSingle"
    /\ current_frame_count' = (current_frame_count + 1) % SequenceModulus
    /\ UNCHANGED <<p_running, last_write, next_write, next_read, segmentVars>>

RunIteration ==
    /\ p_running
    /\ Goto("loop", "load_write_index")
    /\ current_frame_count' = (current_frame_count + 1) % SequenceModulus
    /\ UNCHANGED <<p_call, p_running, last_write, next_write, next_read, segmentVars>>

RunReturns ==
    /\ ~p_running
    /\ Goto("loop", "idle")
    /\ p_call' = "None"
    /\ UNCHANGED <<p_running, producerLocals, segmentVars>>

(* ProduceFrame returns to the loop of Run, or to the caller.               *)
FrameReturns ==
    /\ p_pc' = IF p_call = "Run" THEN "loop" ELSE "idle"
    /\ p_call' = IF p_call = "Run" THEN "Run" ELSE "None"

-----------------------------------------------------------------------------
(* ProduceFrame.                                                            *)

(* current_frame_count was incremented when the call began, so it is now    *)
(* (frame_count + 1U) & kSequenceMask.                                      *)
monitor_sequence == current_frame_count

(* Mutant: write where the consumer asks for a frame.                       *)
ChooseRequestedSlot(last, read) ==
    IF read = Unavailable THEN BufferA ELSE read

(* The slot the frame goes to: the one that is not published, but BufferA   *)
(* whenever the consumer is asking for a reset.                             *)
ChooseNextWrite(last, read) ==
    IF read = Unavailable THEN BufferA ELSE OtherSlot(last)

(* Mutant: publish every frame.                                             *)
AlwaysPublishable(read, write) == TRUE

(* A completed frame is published only in the slot the consumer asks for.   *)
Publishable(read, write) == read = write

LoadWriteIndex ==
    /\ Goto("load_write_index", "load_read_index")
    /\ last_write' = write_index
    /\ UNCHANGED <<p_call, p_running, current_frame_count, next_write, next_read, segmentVars>>

LoadReadIndex ==
    /\ Goto("load_read_index", "mark_sequence")
    /\ next_read' = read_index
    /\ next_write' = ChooseNextWrite(last_write, read_index)
    /\ UNCHANGED <<p_call, p_running, current_frame_count, last_write, segmentVars>>

MarkSequenceWriting ==
    /\ Goto("mark_sequence", "mark_slot")
    /\ sequence_and_writing' = [sequence_and_writing EXCEPT !.writing = TRUE]
    /\ UNCHANGED <<indices, last_written_buffer, slot_sequence_and_writing, contents, queues,
                   p_call, p_running, producerLocals>>

(* Mutant: the slot keeps the word of the frame that is overwritten.        *)
MarkSlotNever ==
    /\ Goto("mark_slot", "begin_write")
    /\ UNCHANGED <<segmentVars, p_call, p_running, producerLocals>>

MarkSlotWriting ==
    /\ Goto("mark_slot", "begin_write")
    /\ slot_sequence_and_writing' =
         [slot_sequence_and_writing EXCEPT
            ![next_write] = PackSequenceAndWriting(monitor_sequence, TRUE)]
    /\ UNCHANGED <<indices, last_written_buffer, sequence_and_writing, contents, queues,
                   p_call, p_running, producerLocals>>

(* The produce callback changes the first byte of the buffer ...            *)
BeginWrite ==
    /\ Goto("begin_write", "end_write")
    /\ buffers' = [buffers EXCEPT
                     ![next_write] = [sequence |-> monitor_sequence, complete |-> FALSE]]
    /\ unseen' = unseen \ {next_write}
    /\ UNCHANGED newest
    /\ UNCHANGED <<indices, metadata, queues, p_call, p_running, producerLocals>>

(* ... and returns once the frame is whole.                                 *)
EndWrite ==
    /\ Goto("end_write", "clear_slot")
    /\ buffers' = [buffers EXCEPT ![next_write].complete = TRUE]
    /\ unseen' = unseen \cup {next_write}
    /\ newest' = next_write
    /\ UNCHANGED <<indices, metadata, queues, p_call, p_running, producerLocals>>

ClearSlotWriting ==
    /\ Goto("clear_slot", "store_last_written")
    /\ slot_sequence_and_writing' =
         [slot_sequence_and_writing EXCEPT
            ![next_write] = PackSequenceAndWriting(monitor_sequence, FALSE)]
    /\ UNCHANGED <<indices, last_written_buffer, sequence_and_writing, contents, queues,
                   p_call, p_running, producerLocals>>

StoreLastWritten ==
    /\ Goto("store_last_written", "store_sequence")
    /\ last_written_buffer' = next_write
    /\ UNCHANGED <<indices, sequence_and_writing, slot_sequence_and_writing, contents, queues,
                   p_call, p_running, producerLocals>>

StoreSequence ==
    /\ Goto("store_sequence", "wake_monitors")
    /\ sequence_and_writing' = PackSequenceAndWriting(monitor_sequence, FALSE)
    /\ UNCHANGED <<indices, last_written_buffer, slot_sequence_and_writing, contents, queues,
                   p_call, p_running, producerLocals>>

(* Mutant: the reset request is not answered.                               *)
WakeMonitorsThenReload ==
    /\ Goto("wake_monitors", "reload_read_index")
    /\ sequence_waiters' \in {{}, sequence_waiters}
    /\ UNCHANGED <<indices, metadata, contents, write_index_waiters,
                   p_call, p_running, producerLocals>>

(* Wake(sequence_and_writing, INT_MAX); its failure is logged and ignored.  *)
WakeMonitors ==
    /\ Goto("wake_monitors",
            IF next_read = Unavailable THEN "reset_write_index" ELSE "reload_read_index")
    /\ sequence_waiters' \in {{}, sequence_waiters}
    /\ UNCHANGED <<indices, metadata, contents, write_index_waiters,
                   p_call, p_running, producerLocals>>

(* "publisher reset": the answer to a consumer that starts.                 *)
ResetWriteIndex ==
    /\ Goto("reset_write_index", "wake_consumer")
    /\ write_index' = Unavailable
    /\ UNCHANGED <<read_index, metadata, contents, queues, p_call, p_running, producerLocals>>

(* Mutant: the consumer is woken only for a frame that is published now.    *)
ReloadAndWakeOnlyPublished ==
    /\ p_pc = "reload_read_index"
    /\ IF Publishable(read_index, next_write)
       THEN p_pc' = "publish" /\ p_call' = p_call
       ELSE FrameReturns
    /\ next_read' = read_index
    /\ UNCHANGED <<p_running, current_frame_count, last_write, next_write, segmentVars>>

ReloadReadIndex ==
    /\ Goto("reload_read_index",
            IF Publishable(read_index, next_write) THEN "publish" ELSE "wake_consumer")
    /\ next_read' = read_index
    /\ UNCHANGED <<p_call, p_running, current_frame_count, last_write, next_write, segmentVars>>

Publish ==
    /\ Goto("publish", "wake_consumer")
    /\ write_index' = next_write
    /\ UNCHANGED <<read_index, metadata, contents, queues, p_call, p_running, producerLocals>>

(* Wake(write_index, 1), after the reset as after the publication.          *)
WakeConsumer ==
    /\ p_pc = "wake_consumer"
    /\ FrameReturns
    /\ write_index_waiters' \in WakeOne(write_index_waiters)
    /\ UNCHANGED <<indices, metadata, contents, sequence_waiters, p_running, producerLocals>>

(* The same when the system call fails: the producer stops itself.          *)
WakeConsumerFails ==
    /\ p_pc = "wake_consumer"
    /\ FrameReturns
    /\ p_running' = FALSE
    /\ UNCHANGED <<segmentVars, producerLocals>>

ProduceFrame ==
    \/ LoadWriteIndex
    \/ LoadReadIndex
    \/ MarkSequenceWriting
    \/ MarkSlotWriting
    \/ BeginWrite
    \/ EndWrite
    \/ ClearSlotWriting
    \/ StoreLastWritten
    \/ StoreSequence
    \/ WakeMonitors
    \/ ResetWriteIndex
    \/ ReloadReadIndex
    \/ Publish
    \/ WakeConsumer

(* What the thread does by itself once it was called.                       *)
ProducerWork ==
    \/ InitializeBuffer
    \/ RunIteration
    \/ RunReturns
    \/ ProduceFrame

ProducerStep ==
    \/ ProducerWork
    \/ WakeConsumerFails
    \/ ProducerStart
    \/ ProducerCrash
    \/ ProducerStop
    \/ ProducerReset
    \/ CallRun
    \/ CallProduceSingle

=============================================================================
