------------------------- MODULE SharedMemoryBuffer -------------------------
(***************************************************************************)
(* The shared-memory segment LockFreeSharedMemoryBuffer of samosa           *)
(* (src/dex/infrastructure/shared_memory/shared_memory_streaming.h:89-99),  *)
(* and the two kernel futex queues that the processes attached to it use.   *)
(* Every field is one variable; the modules of the producer, the consumer   *)
(* and the monitor EXTEND this module and act on the same variables.        *)
(*                                                                         *)
(* A buffer is abstracted to the sequence number of the frame last begun in *)
(* it and to whether that frame is complete: a buffer that is being written *)
(* (or was abandoned by a crash, or was just zeroed) is not.  Atomic        *)
(* accesses interleave (sequential consistency).                            *)
(***************************************************************************)
EXTENDS Integers

CONSTANT
    SequenceModulus   \* kSequenceMask + 1, which is 2^31 in the code

ASSUME SequenceModulusAssumption ==
    SequenceModulus \in Nat \ {0}

(***************************************************************************)
(* enum class BufferState, with the values ToInt stores in the segment.     *)
(***************************************************************************)
Unavailable == 0
BufferA == 1
BufferB == 2

BufferState == {Unavailable, BufferA, BufferB}
Slot == {BufferA, BufferB}

(* Mutant: the next index, without coming back to the first.               *)
NextSlot(state) == state + 1

(* The slot both sides go to when `state' is the one they used last: the    *)
(* other slot, and BufferA when there was none.                            *)
OtherSlot(state) == IF state = BufferA THEN BufferB ELSE BufferA

Sequence == 0 .. SequenceModulus - 1

(* A sequence number and the writing flag packed in one atomic word.        *)
PackSequenceAndWriting(sequence, writing) ==
    [sequence |-> sequence % SequenceModulus, writing |-> writing]

PackedWord == [sequence : Sequence, writing : BOOLEAN]

NoCompletedMonitorSequence == PackSequenceAndWriting(0, FALSE)

Frame == [sequence : Sequence, complete : BOOLEAN]
ZeroedFrame == [sequence |-> 0, complete |-> FALSE]

VARIABLES
    write_index,                \* slot the consumer may read
    read_index,                 \* slot the consumer asks for
    last_written_buffer,        \* slot completed last, for monitors
    sequence_and_writing,       \* monitor metadata of the stream
    slot_sequence_and_writing,  \* monitor metadata of each slot
    buffers,                    \* the two frames
    write_index_waiters,        \* threads asleep in FUTEX_WAIT(write_index)
    sequence_waiters,           \* threads asleep in FUTEX_WAIT(sequence_and_writing)
    unseen,                     \* history: slots whose frame is complete and
                                \* newer than every frame consumed so far
    newest                      \* history: the slot whose frame completed last

indices  == <<write_index, read_index>>
metadata == <<last_written_buffer, sequence_and_writing, slot_sequence_and_writing>>
history  == <<unseen, newest>>
contents == <<buffers, history>>
queues   == <<write_index_waiters, sequence_waiters>>

segmentVars == <<indices, metadata, contents, queues>>

SegmentTypeOK ==
    /\ write_index \in BufferState
    /\ read_index \in BufferState
    /\ last_written_buffer \in BufferState
    /\ sequence_and_writing \in PackedWord
    /\ slot_sequence_and_writing \in [Slot -> PackedWord]
    /\ buffers \in [Slot -> Frame]
    /\ unseen \in SUBSET Slot
    /\ newest \in BufferState

(* The segment as InitializeBuffer leaves it, with nobody attached.         *)
SegmentInit ==
    /\ write_index = Unavailable
    /\ read_index = Unavailable
    /\ last_written_buffer = Unavailable
    /\ sequence_and_writing = NoCompletedMonitorSequence
    /\ slot_sequence_and_writing = [slot \in Slot |-> NoCompletedMonitorSequence]
    /\ buffers = [slot \in Slot |-> ZeroedFrame]
    /\ write_index_waiters = {}
    /\ sequence_waiters = {}
    /\ unseen = {}
    /\ newest = Unavailable

(* Mutant: the wake-up is lost.                                             *)
WakeNone(waiters) == {waiters}

(* FUTEX_WAKE of at most one thread: the queues it may leave.               *)
WakeOne(waiters) ==
    IF waiters = {} THEN {{}} ELSE {waiters \ {thread} : thread \in waiters}

=============================================================================
