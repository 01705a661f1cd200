--------------------------- MODULE BoundedWaiting ---------------------------
(***************************************************************************)
(* How long a consumer can wait.  Streaming, with a history variable that   *)
(* counts the frames which the producer ends, wake-up included, while one   *)
(* wait loop of the consumer lasts (shared_memory_streaming_impl.h:217-225, *)
(* 263-274): the bound behind the liveness properties, which only say that  *)
(* the answer comes.                                                        *)
(***************************************************************************)
EXTENDS Streaming

VARIABLE
    frames_waited   \* history: frames that ended in this wait, 2 for more

countedVars == <<vars, frames_waited>>

(* Where an answer is certain: in the handshake of Run in any use of the    *)
(* library, and for a frame as long as the handshake is respected.          *)
AnswerDue == c_pc \in WaitPc /\ (awaited = Unavailable \/ HandshakeRespected)

CountFrames ==
    frames_waited' = IF ~AnswerDue' THEN 0
                     ELSE IF WakeConsumer /\ frames_waited < 2 THEN frames_waited + 1
                     ELSE frames_waited

CountedInit == Init /\ frames_waited = 0

CountedNext == Next /\ CountFrames

CountedSpec == CountedInit /\ [][CountedNext]_countedVars

CountedFairSpec == CountedSpec /\ Fairness

-----------------------------------------------------------------------------
(* README.md:9.  A wait outlasts two frames of the producer at most: the    *)
(* first may have been chosen before the request was made, but the second   *)
(* answers it, and the consumer is awake then.  However either process was  *)
(* restarted, stopped or timed out before, and also while it waits, a       *)
(* time-out of two frames is enough (shared_memory_streaming_impl.h:        *)
(* 109-117, 155-177, 217-225, 263-274).                                     *)
AnsweredInTime ==
    frames_waited = 2 =>
        write_index = awaited /\ ConsumerThread \notin write_index_waiters

(* The invariant behind it.  Who is queued is asleep, and who is about to   *)
(* sleep has not seen what it waits for ...                                 *)
QueuedIsAsleep ==
    /\ write_index_waiters # {} => c_pc = "asleep"
    /\ c_pc \in {"wait", "asleep"} => current_write # awaited

(* ... a frame that was begun for a request is about that request to its    *)
(* end ...                                                                  *)
RequestStands ==
    /\ c_pc \in WaitPc /\ awaited = Unavailable => read_index = Unavailable
    /\ p_pc = "reset_write_index" => next_read = Unavailable
    /\ p_pc = "reload_read_index" => next_read # Unavailable
    /\ p_pc = "publish" => next_read = next_write

(* ... the first frame that is asked for goes to BufferA, the slot that a   *)
(* producer which published nothing chooses ...                             *)
FirstIsBufferA ==
    HandshakeRespected /\ write_index = Unavailable =>
        /\ read_index \in {Unavailable, BufferA}
        /\ c_pc = "store_read_index" => awaited = BufferA

(* ... and after the first frame, every other knows the request.            *)
SecondFrameAnswers ==
    frames_waited > 0 =>
        /\ p_pc \in CommittedPc => next_read = awaited
        /\ p_pc = "wake_consumer" => write_index = awaited

WaitInv ==
    /\ frames_waited \in 0 .. 2
    /\ frames_waited > 0 => AnswerDue
    /\ QueuedIsAsleep
    /\ RequestStands
    /\ FirstIsBufferA
    /\ SecondFrameAnswers
    /\ AnsweredInTime

=============================================================================
