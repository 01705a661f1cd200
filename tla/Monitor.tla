------------------------------- MODULE Monitor -------------------------------
(***************************************************************************)
(* A monitor thread (shared_memory_monitor_impl.h:53-294): Monitor::Run and *)
(* ReadInto (which GetLatestBuffer wraps), both over CopyLatestSnapshotInto, *)
(* which copies the slot written last and afterwards validates that nobody  *)
(* wrote to it meanwhile.  One action per load of the segment.  A monitor   *)
(* stores nothing in the segment: it only reads, and sleeps on              *)
(* sequence_and_writing.  A monitor process that dies and starts again is   *)
(* one whose call returns and who calls again.                              *)
(***************************************************************************)
EXTENDS SharedMemoryBuffer

CONSTANTS
    ReadModes,               \* the values of MonitorReadMode its application uses
    MaxValidationAttempts    \* kMaxValidationAttempts, which is 8 in the code

ASSUME ReadModesAssumption ==
    ReadModes \subseteq {"SkipIfBusy", "WaitForStableSnapshot", "Opportunistic"}

ASSUME MaxValidationAttemptsAssumption == MaxValidationAttempts \in Nat \ {0}

VARIABLES
    m_pc,                     \* the next step of the monitor thread
    m_call,                   \* the API call in progress
    m_running,                \* StreamingControl::IsRunning in this process
    read_mode,                \* argument of the call
    last_observed_sequence,   \* local of Run
    attempts,                 \* locals of CopyLatestSnapshotInto: its counter,
    packed,                   \* sequence_and_writing as Run or it loaded it last,
    candidate,                \* CandidateSlot, in two parts,
    pre_slot_packed,
    accepted_sequence,
    snapshot,                 \* history: the copied frame, complete when no write overlapped
    reused                    \* history: since pre_slot_packed was loaded, the slot was
                              \* written again under the sequence number it holds

monitorControl == <<m_pc, m_call, m_running, read_mode>>
monitorLocals ==
    <<last_observed_sequence, attempts, packed, candidate, pre_slot_packed, accepted_sequence>>
monitorHistory == <<snapshot, reused>>
monitorVars == <<monitorControl, monitorLocals, monitorHistory>>

MonitorThread == "monitor"

MonitorPc == {"idle", "run_loop", "run_wait", "run_asleep", "attempt", "wait_change",
              "change_asleep", "select", "load_slot", "begin_copy", "end_copy",
              "post_slot", "post_id", "reload", "deliver"}

MonitorTypeOK ==
    /\ m_pc \in MonitorPc
    /\ m_call \in {"None", "Run", "ReadInto"}
    /\ m_running \in BOOLEAN
    /\ read_mode \in ReadModes
    /\ last_observed_sequence \in Sequence
    /\ attempts \in 0 .. MaxValidationAttempts
    /\ packed \in PackedWord
    /\ candidate \in Slot
    /\ pre_slot_packed \in PackedWord
    /\ accepted_sequence \in Sequence
    /\ snapshot \in Frame
    /\ reused \in BOOLEAN
    /\ sequence_waiters \subseteq {MonitorThread}

MonitorInit ==
    /\ m_pc = "idle"
    /\ m_call = "None"
    /\ m_running = TRUE
    /\ read_mode \in ReadModes
    /\ last_observed_sequence = 0
    /\ attempts = 0
    /\ packed = NoCompletedMonitorSequence
    /\ candidate = BufferA
    /\ pre_slot_packed = NoCompletedMonitorSequence
    /\ accepted_sequence = 0
    /\ snapshot = ZeroedFrame
    /\ reused = FALSE

MonitorGoto(from, to) ==
    /\ m_pc = from
    /\ m_pc' = to

(* Locals that die when an attempt, or a wait, is over.                     *)
ForgetAttempt ==
    /\ packed' = NoCompletedMonitorSequence
    /\ candidate' = BufferA
    /\ pre_slot_packed' = NoCompletedMonitorSequence
    /\ accepted_sequence' = 0
    /\ snapshot' = ZeroedFrame
    /\ reused' = FALSE

-----------------------------------------------------------------------------
(* The streaming control of the process.                                    *)

MonitorStop ==
    /\ m_running
    /\ m_running' = FALSE
    /\ UNCHANGED <<m_pc, m_call, read_mode, monitorLocals, monitorHistory, segmentVars>>

MonitorReset ==
    /\ m_pc = "idle"
    /\ ~m_running
    /\ m_running' = TRUE
    /\ UNCHANGED <<m_pc, m_call, read_mode, monitorLocals, monitorHistory, segmentVars>>

-----------------------------------------------------------------------------
(* Calls and their returns.                                                 *)

CallMonitorRun ==
    /\ MonitorGoto("idle", "run_loop")
    /\ m_call' = "Run"
    /\ read_mode' \in ReadModes
    /\ last_observed_sequence' = NoCompletedMonitorSequence.sequence
    /\ UNCHANGED <<m_running, attempts, packed, candidate, pre_slot_packed, accepted_sequence,
                   monitorHistory, segmentVars>>

CallReadInto ==
    /\ MonitorGoto("idle", "attempt")
    /\ m_call' = "ReadInto"
    /\ read_mode' \in ReadModes
    /\ attempts' = 0
    /\ UNCHANGED <<m_running, last_observed_sequence, packed, candidate, pre_slot_packed,
                   accepted_sequence, monitorHistory, segmentVars>>

MonitorReturns ==
    /\ m_pc' = "idle"
    /\ m_call' = "None"
    /\ last_observed_sequence' = 0

(* CopyLatestSnapshotInto returns to Run's loop, or ReadInto returns.       *)
CopyReturns ==
    /\ attempts' = 0
    /\ ForgetAttempt
    /\ IF m_call = "Run"
       THEN m_pc' = "run_loop" /\ UNCHANGED <<m_call, last_observed_sequence>>
       ELSE MonitorReturns

-----------------------------------------------------------------------------
(* Run.                                                                     *)

(* Is there something the callback was not given yet?                       *)
IsNewData(word) ==
    /\ word.sequence # NoCompletedMonitorSequence.sequence
    /\ word.sequence # last_observed_sequence

(* Mutant: the loop does not look at the streaming control.                 *)
RunLoadsUnchecked ==
    /\ m_pc = "run_loop"
    /\ IF IsNewData(sequence_and_writing)
       THEN m_pc' = "attempt" /\ UNCHANGED packed
       ELSE m_pc' = "run_wait" /\ packed' = sequence_and_writing
    /\ UNCHANGED <<m_call, m_running, read_mode, last_observed_sequence, attempts, candidate,
                   pre_slot_packed, accepted_sequence, monitorHistory, segmentVars>>

RunLoads ==
    /\ m_running
    /\ m_pc = "run_loop"
    /\ IF IsNewData(sequence_and_writing)
       THEN m_pc' = "attempt" /\ UNCHANGED packed
       ELSE m_pc' = "run_wait" /\ packed' = sequence_and_writing
    /\ UNCHANGED <<m_call, m_running, read_mode, last_observed_sequence, attempts, candidate,
                   pre_slot_packed, accepted_sequence, monitorHistory, segmentVars>>

RunEnds ==
    /\ ~m_running
    /\ m_pc = "run_loop"
    /\ MonitorReturns
    /\ UNCHANGED <<m_running, read_mode, attempts, packed, candidate, pre_slot_packed,
                   accepted_sequence, monitorHistory, segmentVars>>

-----------------------------------------------------------------------------
(* FUTEX_WAIT(sequence_and_writing, packed), from the loop of Run and from  *)
(* WaitForMonitorStateChange.                                               *)

FallsAsleep(from, to) ==
    /\ sequence_and_writing = packed
    /\ MonitorGoto(from, to)
    /\ sequence_waiters' = sequence_waiters \cup {MonitorThread}
    /\ UNCHANGED <<indices, metadata, contents, write_index_waiters, m_call, m_running, read_mode,
                   monitorLocals, monitorHistory>>

(* The word has changed already, or the producer woke the thread.           *)
WaitSucceeds(wait, asleep, to) ==
    /\ \/ m_pc = wait /\ sequence_and_writing # packed
       \/ m_pc = asleep /\ MonitorThread \notin sequence_waiters
    /\ m_pc' = to
    /\ packed' = NoCompletedMonitorSequence
    /\ UNCHANGED <<m_call, m_running, read_mode, last_observed_sequence, attempts, candidate,
                   pre_slot_packed, accepted_sequence, monitorHistory, segmentVars>>

LeavesQueue ==
    /\ sequence_waiters' = sequence_waiters \ {MonitorThread}
    /\ UNCHANGED <<indices, metadata, contents, write_index_waiters>>

RunSleeps == FallsAsleep("run_wait", "run_asleep")
RunWaitSucceeds == WaitSucceeds("run_wait", "run_asleep", "run_loop")

(* A time-out is only logged.                                               *)
RunWaitTimesOut ==
    /\ MonitorThread \in sequence_waiters
    /\ MonitorGoto("run_asleep", "run_loop")
    /\ packed' = NoCompletedMonitorSequence
    /\ LeavesQueue
    /\ UNCHANGED <<m_call, m_running, read_mode, last_observed_sequence, attempts, candidate,
                   pre_slot_packed, accepted_sequence, monitorHistory>>

(* EINTR, or an error.                                                      *)
RunWaitFails ==
    /\ MonitorThread \in sequence_waiters
    /\ m_pc = "run_asleep"
    /\ MonitorReturns
    /\ packed' = NoCompletedMonitorSequence
    /\ LeavesQueue
    /\ UNCHANGED <<m_running, read_mode, attempts, candidate, pre_slot_packed, accepted_sequence,
                   monitorHistory>>

ChangeSleeps == FallsAsleep("wait_change", "change_asleep")
ChangeWaitSucceeds == WaitSucceeds("wait_change", "change_asleep", "attempt")

(* The deadline has passed, or the wait times out, is interrupted or fails. *)
ChangeWaitFails ==
    /\ \/ m_pc = "wait_change"
       \/ m_pc = "change_asleep" /\ MonitorThread \in sequence_waiters
    /\ CopyReturns
    /\ LeavesQueue
    /\ UNCHANGED <<m_running, read_mode>>

-----------------------------------------------------------------------------
(* CopyLatestSnapshotInto.                                                  *)

(* Mutant: nothing bounds the attempts.                                     *)
MayAttemptForever == m_running

(* The while loop: eight attempts at most, as long as the process runs.     *)
MayAttempt == m_running /\ attempts < MaxValidationAttempts

AttemptsEnd ==
    /\ ~MayAttempt
    /\ m_pc = "attempt"
    /\ CopyReturns
    /\ UNCHANGED <<m_running, read_mode, segmentVars>>

(* HandleInitialState: while a frame is being written SkipIfBusy gives up,  *)
(* WaitForStableSnapshot waits, and Opportunistic goes on.                  *)
SkipBusy ==
    /\ MayAttempt
    /\ m_pc = "attempt"
    /\ sequence_and_writing.writing
    /\ read_mode = "SkipIfBusy"
    /\ CopyReturns
    /\ UNCHANGED <<m_running, read_mode, segmentVars>>

(* Mutant: the attempt is not counted.                                      *)
BeginAttemptUncounted ==
    /\ MayAttempt
    /\ ~(sequence_and_writing.writing /\ read_mode = "SkipIfBusy")
    /\ MonitorGoto("attempt",
                   IF sequence_and_writing.writing /\ read_mode = "WaitForStableSnapshot"
                   THEN "wait_change" ELSE "select")
    /\ packed' = sequence_and_writing
    /\ UNCHANGED <<m_call, m_running, read_mode, last_observed_sequence, attempts, candidate,
                   pre_slot_packed, accepted_sequence, monitorHistory, segmentVars>>

BeginAttempt ==
    /\ MayAttempt
    /\ ~(sequence_and_writing.writing /\ read_mode = "SkipIfBusy")
    /\ MonitorGoto("attempt",
                   IF sequence_and_writing.writing /\ read_mode = "WaitForStableSnapshot"
                   THEN "wait_change" ELSE "select")
    /\ attempts' = attempts + 1
    /\ packed' = sequence_and_writing
    /\ UNCHANGED <<m_call, m_running, read_mode, last_observed_sequence, candidate,
                   pre_slot_packed, accepted_sequence, monitorHistory, segmentVars>>

(* SelectCandidateSlot.                                                     *)
NothingWritten ==
    /\ m_pc = "select"
    /\ last_written_buffer = Unavailable
    /\ CopyReturns
    /\ UNCHANGED <<m_running, read_mode, segmentVars>>

LoadLastWritten ==
    /\ last_written_buffer # Unavailable
    /\ MonitorGoto("select", "load_slot")
    /\ candidate' = last_written_buffer
    /\ UNCHANGED <<m_call, m_running, read_mode, last_observed_sequence, attempts, packed,
                   pre_slot_packed, accepted_sequence, monitorHistory, segmentVars>>

SlotIsUnavailable(word) ==
    word.writing \/ word.sequence = NoCompletedMonitorSequence.sequence

WaitForSlot ==
    /\ SlotIsUnavailable(slot_sequence_and_writing[candidate])
    /\ read_mode = "WaitForStableSnapshot"
    /\ MonitorGoto("load_slot", "wait_change")
    /\ candidate' = BufferA
    /\ UNCHANGED <<m_call, m_running, read_mode, last_observed_sequence, attempts, packed,
                   pre_slot_packed, accepted_sequence, monitorHistory, segmentVars>>

SkipSlot ==
    /\ SlotIsUnavailable(slot_sequence_and_writing[candidate])
    /\ read_mode # "WaitForStableSnapshot"
    /\ m_pc = "load_slot"
    /\ CopyReturns
    /\ UNCHANGED <<m_running, read_mode, segmentVars>>

(* Mutant: the slot is copied though it is being written.                   *)
LoadSlotUnchecked ==
    /\ MonitorGoto("load_slot", "begin_copy")
    /\ packed' = NoCompletedMonitorSequence
    /\ pre_slot_packed' = slot_sequence_and_writing[candidate]
    /\ UNCHANGED <<m_call, m_running, read_mode, last_observed_sequence, attempts, candidate,
                   accepted_sequence, monitorHistory, segmentVars>>

LoadSlot ==
    /\ ~SlotIsUnavailable(slot_sequence_and_writing[candidate])
    /\ MonitorGoto("load_slot", "begin_copy")
    /\ packed' = NoCompletedMonitorSequence
    /\ pre_slot_packed' = slot_sequence_and_writing[candidate]
    /\ UNCHANGED <<m_call, m_running, read_mode, last_observed_sequence, attempts, candidate,
                   accepted_sequence, monitorHistory, segmentVars>>

(* The copy reads the first byte of the slot ...                            *)
BeginCopy ==
    /\ MonitorGoto("begin_copy", "end_copy")
    /\ snapshot' = buffers[candidate]
    /\ UNCHANGED <<m_call, m_running, read_mode, monitorLocals, reused, segmentVars>>

(* ... and the last one.                                                    *)
EndCopy ==
    /\ MonitorGoto("end_copy", "post_slot")
    /\ UNCHANGED <<m_call, m_running, read_mode, monitorLocals, monitorHistory, segmentVars>>

(* A suspicious snapshot is discarded: try again, unless the time is over.  *)
Discard ==
    /\ UNCHANGED <<m_running, read_mode, segmentVars>>
    /\ \/ /\ m_pc' = "attempt"
          /\ ForgetAttempt
          /\ UNCHANGED <<m_call, last_observed_sequence, attempts>>
       \/ CopyReturns

(* IsAcceptedSnapshot.  A valid pre_slot_packed makes its other two tests   *)
(* of the word redundant.                                                   *)
SlotChanged ==
    /\ m_pc = "post_slot"
    /\ slot_sequence_and_writing[candidate] # pre_slot_packed
    /\ Discard

(* Mutant: after the copy only the writing flag is looked at.               *)
SlotNotWriting ==
    /\ ~slot_sequence_and_writing[candidate].writing
    /\ MonitorGoto("post_slot", "post_id")
    /\ UNCHANGED <<m_call, m_running, read_mode, monitorLocals, monitorHistory, segmentVars>>

SlotUnchanged ==
    /\ slot_sequence_and_writing[candidate] = pre_slot_packed
    /\ MonitorGoto("post_slot", "post_id")
    /\ UNCHANGED <<m_call, m_running, read_mode, monitorLocals, monitorHistory, segmentVars>>

LastWrittenChanged ==
    /\ m_pc = "post_id"
    /\ last_written_buffer # candidate
    /\ Discard

LastWrittenUnchanged ==
    /\ last_written_buffer = candidate
    /\ MonitorGoto("post_id", "reload")
    /\ UNCHANGED <<m_call, m_running, read_mode, monitorLocals, monitorHistory, segmentVars>>

(* Mutant: the number reported is that of the global word.                  *)
ReloadGlobalSequence ==
    /\ sequence_and_writing.sequence # NoCompletedMonitorSequence.sequence
    /\ MonitorGoto("reload", "deliver")
    /\ accepted_sequence' = sequence_and_writing.sequence
    /\ UNCHANGED <<m_call, m_running, read_mode, last_observed_sequence, attempts, packed,
                   candidate, pre_slot_packed, monitorHistory, segmentVars>>

(* The sequence number is loaded once more to be reported.  It is compared  *)
(* with minimum_sequence, for which no caller passes anything but 0.        *)
ReloadSequence ==
    /\ slot_sequence_and_writing[candidate].sequence # NoCompletedMonitorSequence.sequence
    /\ MonitorGoto("reload", "deliver")
    /\ accepted_sequence' = slot_sequence_and_writing[candidate].sequence
    /\ UNCHANGED <<m_call, m_running, read_mode, last_observed_sequence, attempts, packed,
                   candidate, pre_slot_packed, monitorHistory, segmentVars>>

ReloadNothing ==
    /\ slot_sequence_and_writing[candidate].sequence = NoCompletedMonitorSequence.sequence
    /\ m_pc = "reload"
    /\ CopyReturns
    /\ UNCHANGED <<m_running, read_mode, segmentVars>>

(* The monitor callback is given the snapshot, or ReadInto returns it.  Run *)
(* ends here when it has made max_iterations deliveries.                    *)
Deliver ==
    /\ m_pc = "deliver"
    /\ attempts' = 0
    /\ ForgetAttempt
    /\ \/ /\ m_call = "Run"
          /\ m_pc' = "run_loop"
          /\ last_observed_sequence' = accepted_sequence
          /\ UNCHANGED m_call
       \/ MonitorReturns
    /\ UNCHANGED <<m_running, read_mode, segmentVars>>

-----------------------------------------------------------------------------
(* What the history records of a step of the producer.                      *)

CandidatePc == {"begin_copy", "end_copy", "post_slot", "post_id", "reload", "deliver"}

MonitorSees ==
    /\ snapshot' = IF m_pc = "end_copy" /\ buffers'[candidate] # buffers[candidate]
                   THEN [sequence |-> snapshot.sequence, complete |-> FALSE]
                   ELSE snapshot
    /\ reused' = (reused \/ /\ m_pc \in CandidatePc
                            /\ slot_sequence_and_writing' # slot_sequence_and_writing
                            /\ slot_sequence_and_writing'[candidate] =
                                 PackSequenceAndWriting(pre_slot_packed.sequence, TRUE))
    /\ UNCHANGED <<monitorControl, monitorLocals>>

(* What the thread does by itself once it was called; every wait is timed.  *)
MonitorWork ==
    \/ RunLoads
    \/ RunEnds
    \/ RunSleeps
    \/ RunWaitSucceeds
    \/ RunWaitTimesOut
    \/ ChangeSleeps
    \/ ChangeWaitSucceeds
    \/ ChangeWaitFails
    \/ AttemptsEnd
    \/ SkipBusy
    \/ BeginAttempt
    \/ NothingWritten
    \/ LoadLastWritten
    \/ WaitForSlot
    \/ SkipSlot
    \/ LoadSlot
    \/ BeginCopy
    \/ EndCopy
    \/ SlotChanged
    \/ SlotUnchanged
    \/ LastWrittenChanged
    \/ LastWrittenUnchanged
    \/ ReloadSequence
    \/ ReloadNothing
    \/ Deliver

MonitorStep ==
    \/ MonitorWork
    \/ RunWaitFails
    \/ MonitorStop
    \/ MonitorReset
    \/ CallMonitorRun
    \/ CallReadInto

=============================================================================
