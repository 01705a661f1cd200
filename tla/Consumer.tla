------------------------------ MODULE Consumer ------------------------------
(***************************************************************************)
(* The consumer process: Consumer::Run, ConsumeSingle and ConsumeFrame      *)
(* (shared_memory_streaming_impl.h:190-287) with HandleWaitResult and       *)
(* FutexWait (futex.cc:17-45), one action per access to the segment.  The   *)
(* process may crash between any two steps and start again; between two     *)
(* calls its application may reset the streaming control and call again,    *)
(* as the sample consumers do after a timeout.                              *)
(***************************************************************************)
EXTENDS SharedMemoryBuffer

CONSTANTS
    ConsumerCalls,    \* the entry points the application uses
    RetriesUnserved   \* may the application call again while the first request
                      \* of an abandoned call was never served?

ASSUME ConsumerCallsAssumption == ConsumerCalls \subseteq {"Run", "ConsumeSingle"}
ASSUME RetriesUnservedAssumption == RetriesUnserved \in BOOLEAN

VARIABLES
    c_pc,           \* the next step of the consumer thread
    c_call,         \* the API call in progress
    c_running,      \* StreamingControl::IsRunning in this process
    awaited,        \* value of write_index the current wait loop ends with:
                    \* next_read in ConsumeFrame, Unavailable in Run's handshake
    current_write,  \* write_index as last loaded
    reading         \* history: the frame found when the callback began

consumerVars == <<c_pc, c_call, c_running, awaited, current_write, reading>>

ConsumerThread == "consumer"

ConsumerPc == {"down", "idle", "reset_read_index", "loop", "load_last_read",
               "store_read_index", "load_write_index", "check", "wait", "asleep",
               "ready", "consume"}

ConsumerTypeOK ==
    /\ c_pc \in ConsumerPc
    /\ c_call \in {"None"} \cup ConsumerCalls
    /\ c_running \in BOOLEAN
    /\ awaited \in BufferState
    /\ current_write \in BufferState
    /\ reading \in Frame
    /\ write_index_waiters \subseteq {ConsumerThread}

ConsumerInit ==
    /\ c_pc = "down"
    /\ c_call = "None"
    /\ c_running = FALSE
    /\ awaited = Unavailable
    /\ current_write = Unavailable
    /\ reading = ZeroedFrame

ConsumerGoto(from, to) ==
    /\ c_pc = from
    /\ c_pc' = to

-----------------------------------------------------------------------------
(* The life of the process.                                                 *)

ConsumerStart ==
    /\ ConsumerGoto("down", "idle")
    /\ c_running' = TRUE
    /\ UNCHANGED <<c_call, awaited, current_write, reading, segmentVars>>

(* The process dies; the kernel takes its thread off the futex queue.       *)
ConsumerCrash ==
    /\ c_pc # "down"
    /\ c_pc' = "down"
    /\ c_call' = "None"
    /\ c_running' = FALSE
    /\ awaited' = Unavailable
    /\ current_write' = Unavailable
    /\ reading' = ZeroedFrame
    /\ write_index_waiters' = write_index_waiters \ {ConsumerThread}
    /\ UNCHANGED <<indices, metadata, contents, sequence_waiters>>

(* StreamingControl::Stop, or a handled signal, at any time.                *)
ConsumerStop ==
    /\ c_pc # "down"
    /\ c_running
    /\ c_running' = FALSE
    /\ UNCHANGED <<c_pc, c_call, awaited, current_write, reading, segmentVars>>

(* StreamingControl::Reset by the application between two calls.            *)
ConsumerReset ==
    /\ c_pc = "idle"
    /\ ~c_running
    /\ c_running' = TRUE
    /\ UNCHANGED <<c_pc, c_call, awaited, current_write, reading, segmentVars>>

(* A call returns to the application.                                       *)
ConsumerReturns ==
    /\ c_pc' = "idle"
    /\ c_call' = "None"

(* A first request that nobody served yet: read_index asks for a frame and  *)
(* write_index offers none.                                                 *)
Unserved == write_index = Unavailable /\ read_index # Unavailable

(* When the application calls: at any time, or never over such a request.   *)
MayCall(call) == call \in ConsumerCalls /\ (RetriesUnserved \/ ~Unserved)

-----------------------------------------------------------------------------
(* Run.  Its handshake asks the producer for a reset and waits for it.      *)

CallConsumerRun ==
    /\ MayCall("Run")
    /\ ConsumerGoto("idle", "reset_read_index")
    /\ c_call' = "Run"
    /\ UNCHANGED <<c_running, awaited, current_write, reading, segmentVars>>

ResetReadIndex ==
    /\ ConsumerGoto("reset_read_index", "load_write_index")
    /\ read_index' = Unavailable
    /\ awaited' = Unavailable
    /\ UNCHANGED <<write_index, metadata, contents, queues, c_call, c_running, current_write, reading>>

ConsumerLoop ==
    /\ c_running
    /\ ConsumerGoto("loop", "load_last_read")
    /\ UNCHANGED <<c_call, c_running, awaited, current_write, reading, segmentVars>>

ConsumerLoopEnds ==
    /\ ~c_running
    /\ c_pc = "loop"
    /\ ConsumerReturns
    /\ UNCHANGED <<c_running, awaited, current_write, reading, segmentVars>>

-----------------------------------------------------------------------------
(* ConsumeSingle and ConsumeFrame.                                          *)

CallConsumeSingle ==
    /\ MayCall("ConsumeSingle")
    /\ ConsumerGoto("idle", "load_last_read")
    /\ c_call' = "ConsumeSingle"
    /\ UNCHANGED <<c_running, awaited, current_write, reading, segmentVars>>

(* Mutant: ask for the same slot again.                                     *)
LoadLastReadAgain ==
    /\ ConsumerGoto("load_last_read", "store_read_index")
    /\ awaited' = IF read_index = Unavailable THEN BufferA ELSE read_index
    /\ UNCHANGED <<c_call, c_running, current_write, reading, segmentVars>>

LoadLastRead ==
    /\ ConsumerGoto("load_last_read", "store_read_index")
    /\ awaited' = OtherSlot(read_index)
    /\ UNCHANGED <<c_call, c_running, current_write, reading, segmentVars>>

StoreReadIndex ==
    /\ ConsumerGoto("store_read_index", "load_write_index")
    /\ read_index' = awaited
    /\ UNCHANGED <<write_index, metadata, contents, queues,
                   c_call, c_running, awaited, current_write, reading>>

(* What follows the wait loop of the handshake, and of ConsumeFrame.        *)
AfterWait == IF awaited = Unavailable THEN "loop" ELSE "ready"

ConsumerLoadWriteIndex ==
    /\ ConsumerGoto("load_write_index", "check")
    /\ current_write' = write_index
    /\ UNCHANGED <<c_call, c_running, awaited, reading, segmentVars>>

CheckWrite ==
    /\ ConsumerGoto("check", IF c_running /\ current_write # awaited THEN "wait" ELSE AfterWait)
    /\ UNCHANGED <<c_call, c_running, awaited, current_write, reading, segmentVars>>

(* FUTEX_WAIT compares and goes to sleep in one step.                       *)
FutexWait ==
    /\ write_index = current_write
    /\ ConsumerGoto("wait", "asleep")
    /\ write_index_waiters' = write_index_waiters \cup {ConsumerThread}
    /\ UNCHANGED <<indices, metadata, contents, sequence_waiters,
                   c_call, c_running, awaited, current_write, reading>>

(* EAGAIN is a success: the loop loads the index again.                     *)
FutexWaitAgain ==
    /\ write_index # current_write
    /\ ConsumerGoto("wait", "load_write_index")
    /\ UNCHANGED <<c_call, c_running, awaited, current_write, reading, segmentVars>>

FutexWoken ==
    /\ ConsumerThread \notin write_index_waiters
    /\ ConsumerGoto("asleep", "load_write_index")
    /\ UNCHANGED <<c_call, c_running, awaited, current_write, reading, segmentVars>>

(* ETIMEDOUT and the errors: HandleWaitResult stops the whole process.      *)
FutexTimeout ==
    /\ c_pc = "asleep"
    /\ ConsumerThread \in write_index_waiters
    /\ ConsumerReturns
    /\ c_running' = FALSE
    /\ write_index_waiters' = write_index_waiters \ {ConsumerThread}
    /\ UNCHANGED <<indices, metadata, contents, sequence_waiters, awaited, current_write, reading>>

(* EINTR: the call returns Stopped and leaves the control alone.            *)
FutexInterrupted ==
    /\ c_pc = "asleep"
    /\ ConsumerThread \in write_index_waiters
    /\ ConsumerReturns
    /\ write_index_waiters' = write_index_waiters \ {ConsumerThread}
    /\ UNCHANGED <<indices, metadata, contents, sequence_waiters,
                   c_running, awaited, current_write, reading>>

(* Mutant: consume without the second test of IsRunning.                    *)
BeginConsumeUnchecked ==
    /\ ConsumerGoto("ready", "consume")
    /\ reading' = IF current_write = Unavailable THEN ZeroedFrame ELSE buffers[current_write]
    /\ unseen' = unseen \ {current_write}
    /\ UNCHANGED <<indices, metadata, buffers, newest, queues,
                   c_call, c_running, awaited, current_write>>

(* The consume callback begins: `unseen' keeps the slots with newer frames. *)
BeginConsume ==
    /\ c_running
    /\ ConsumerGoto("ready", "consume")
    /\ reading' = buffers[current_write]
    /\ unseen' = IF newest = current_write THEN {} ELSE unseen \ {current_write}
    /\ UNCHANGED <<indices, metadata, buffers, newest, queues, c_call, c_running, awaited, current_write>>

ConsumeStopped ==
    /\ ~c_running
    /\ c_pc = "ready"
    /\ ConsumerReturns
    /\ UNCHANGED <<c_running, awaited, current_write, reading, segmentVars>>

(* The callback returns; Run goes on, ConsumeSingle returns Success.        *)
EndConsume ==
    /\ c_pc = "consume"
    /\ IF c_call = "Run"
       THEN c_pc' = "loop" /\ c_call' = "Run"
       ELSE ConsumerReturns
    /\ UNCHANGED <<c_running, awaited, current_write, reading, segmentVars>>

(* What the thread does by itself once it was called.                       *)
ConsumerWork ==
    \/ ResetReadIndex
    \/ ConsumerLoop
    \/ ConsumerLoopEnds
    \/ LoadLastRead
    \/ StoreReadIndex
    \/ ConsumerLoadWriteIndex
    \/ CheckWrite
    \/ FutexWait
    \/ FutexWaitAgain
    \/ FutexWoken
    \/ BeginConsume
    \/ ConsumeStopped
    \/ EndConsume

ConsumerStep ==
    \/ ConsumerWork
    \/ FutexTimeout
    \/ FutexInterrupted
    \/ ConsumerStart
    \/ ConsumerCrash
    \/ ConsumerStop
    \/ ConsumerReset
    \/ CallConsumerRun
    \/ CallConsumeSingle

=============================================================================
