------------------------------ MODULE Streaming ------------------------------
(***************************************************************************)
(* The dataflow path of samosa: one producer process and one consumer       *)
(* process that share a segment and interleave access by access.            *)
(***************************************************************************)
EXTENDS Producer, Consumer

vars == <<segmentVars, producerVars, consumerVars>>

Init == SegmentInit /\ ProducerInit /\ ConsumerInit

Next ==
    \/ ProducerStep /\ UNCHANGED consumerVars
    \/ ConsumerStep /\ UNCHANGED producerVars

Spec == Init /\ [][Next]_vars

(* The scheduler runs both threads, callbacks return, and FUTEX_WAKE works; *)
(* nothing obliges a process to start, to call, to stop or to crash.        *)
Fairness ==
    /\ WF_vars(ProducerWork /\ UNCHANGED consumerVars)
    /\ WF_vars(ConsumerWork /\ UNCHANGED producerVars)

FairSpec == Spec /\ Fairness

TypeOK ==
    /\ SegmentTypeOK
    /\ ProducerTypeOK
    /\ ConsumerTypeOK
    /\ sequence_waiters = {}

-----------------------------------------------------------------------------
(* The ownership handshake.  The invariant below explains why the consumer  *)
(* never meets the producer in a slot as long as it uses Run, does not give *)
(* up its first request, and nobody re-initializes the segment under it.    *)

(* The way of using the library that the handshake supports.                *)
OnlyRuns == ~RestartInitializes /\ ConsumerCalls \subseteq {"Run"}
HandshakeRespected == OnlyRuns /\ ~RetriesUnserved

(* The one step by which a retry over an unserved request goes wrong: the   *)
(* request of the first call is withdrawn when the producer is about to     *)
(* publish for it, and write_index, still Unavailable, looks like a reset.  *)
OvertakesPublication ==
    ResetReadIndex /\ p_pc = "publish" /\ write_index = Unavailable

(* A frame is under way and its slot is chosen.                             *)
WritingPc == {"mark_sequence", "mark_slot", "begin_write", "end_write", "clear_slot",
              "store_last_written", "store_sequence", "wake_monitors"}
CommittedPc == WritingPc \cup {"reset_write_index", "reload_read_index", "publish"}
WrittenPc == {"clear_slot", "store_last_written", "store_sequence", "wake_monitors",
              "reset_write_index", "reload_read_index", "publish"}

WaitPc == {"load_write_index", "check", "wait", "asleep"}

(* The frame under way answers a reset request with a reset.                *)
Resetting == p_pc \in WritingPc \cup {"reset_write_index"} /\ next_read = Unavailable

(* The producer alone writes write_index, so what it loaded stays true ...  *)
LoadedIsCurrent ==
    p_pc \in CommittedPc \cup {"load_read_index"} => last_write = write_index

(* ... and the slot it chose is never the published one, but for a reset.   *)
TargetIsChosen ==
    /\ p_pc \in WritingPc => next_write = ChooseNextWrite(write_index, next_read)
    /\ p_pc = "reset_write_index" => next_read = Unavailable
    /\ p_pc \in {"reload_read_index", "publish"} => next_write = OtherSlot(write_index)

TargetIsWritten == p_pc \in WrittenPc => buffers[next_write].complete

(* A slot that was published and is still asked for belongs to the consumer. *)
OwnedByConsumer ==
    \A slot \in Slot :
        read_index = slot /\ write_index = slot =>
            /\ buffers[slot].complete
            /\ ~(p_pc \in CommittedPc /\ next_write = slot)

(* Between a reset request and its answer the producer publishes nothing.   *)
ResetIsQuiet ==
    /\ Resetting /\ read_index # Unavailable => write_index = Unavailable
    /\ read_index = Unavailable /\ write_index = Unavailable => p_pc # "publish"
    /\ p_pc = "publish" => read_index \in {next_write, Unavailable}

(* The frame under way is the newest one, and a frame that is published and *)
(* waited for was not consumed yet.                                         *)
PublishedIsUnseen ==
    /\ p_pc \in WrittenPc => newest = next_write /\ next_write \in unseen
    /\ c_pc \in WaitPc \cup {"ready"} /\ awaited \in Slot /\ write_index = awaited
         => awaited \in unseen

(* What the consumer knows at each of its steps.                            *)
ConsumerKnows ==
    /\ c_pc \in WaitPc \cup {"loop", "load_last_read", "ready", "consume"}
         => read_index = awaited
    /\ c_pc = "store_read_index" => awaited = OtherSlot(read_index)
    /\ c_pc \in {"loop", "ready"} /\ c_running => write_index = read_index
    /\ c_pc \in {"load_last_read", "store_read_index", "consume"} => write_index = read_index
    /\ c_pc \in {"check", "ready"} /\ current_write = awaited => write_index = awaited
    /\ c_pc = "consume" => reading = buffers[current_write]

(* ConsumeFrame tests IsRunning once to wait and once to consume, and a     *)
(* stop may fall between: the callback still gets the slot that was asked   *)
(* for and published, and ToBufferIndex never gets Unavailable, on which it *)
(* throws.  This holds whatever the constants are.                          *)
ConsumesAwaitedSlot ==
    c_pc = "consume" \/ (c_pc = "ready" /\ c_running)
        => current_write = awaited /\ awaited \in Slot

(* Run is not called over a request that was never served.                  *)
CallsWhenServed ==
    c_pc = "reset_read_index" /\ write_index = Unavailable => read_index = Unavailable

(* Why Run is safe: the producer's plan and the consumer's knowledge always *)
(* agree with the two indices (shared_memory_streaming_impl.h:109-117,       *)
(* 155-172 and 213-260), at every point where one can overtake the other.    *)
AgreementInv ==
    /\ p_pc \notin InitializePc
    /\ ConsumesAwaitedSlot
    /\ LoadedIsCurrent
    /\ TargetIsChosen
    /\ TargetIsWritten
    /\ OwnedByConsumer
    /\ ResetIsQuiet
    /\ PublishedIsUnseen
    /\ ConsumerKnows

HandshakeInv == AgreementInv /\ CallsWhenServed

-----------------------------------------------------------------------------
(* Safety.                                                                  *)

(* README.md:11.  While the consume callback runs, the frame it was given   *)
(* is whole and does not change under it.                                   *)
NeverTorn ==
    c_pc = "consume" => reading.complete /\ buffers[current_write] = reading

(* From the moment a slot is both asked for and published until the         *)
(* consumer asks for something else, no step of anybody changes the frame   *)
(* in it, whether the consumer has noticed the publication or not.          *)
HandedOverSlotIsFrozen ==
    [][\A slot \in Slot :
         read_index = slot /\ write_index = slot => buffers'[slot] = buffers[slot]]_vars

(* README.md:8.  Every frame handed to the consumer was completed after     *)
(* every frame handed to it before, across restarts of either side: no      *)
(* frame comes twice and none comes late.                                   *)
FreshDelivery ==
    [][BeginConsume => current_write \in unseen]_vars

-----------------------------------------------------------------------------
(* Refinement: a slot is on offer while it is both asked for and published. *)

OfferedSlot == IF read_index = write_index THEN read_index ELSE Unavailable

Handoff == INSTANCE SnapshotHandoff WITH
    Slots   <- Slot,
    Frames  <- Frame,
    NoSlot  <- Unavailable,
    content <- buffers,
    fresh   <- unseen,
    offered <- OfferedSlot,
    taken   <- c_pc = "consume"

(* README.md:7-11.  The two indices, the two slots and the two wait loops   *)
(* implement the snapshot handoff.                                          *)
ImplementsHandoff == Handoff!HandoffSpec

-----------------------------------------------------------------------------
(* Liveness.                                                                *)

ProducerServes == p_call = "Run" /\ p_running

(* README.md:9.  Once both sides stay inside Run, frames keep reaching the  *)
(* consumer, whatever crashed, timed out or was stopped before.             *)
StreamKeepsFlowing ==
    <>[](ProducerServes /\ c_call = "Run" /\ c_running) => []<>(c_pc = "consume")

(* Once the producer stays inside Run, no handshake of a consumer waits for *)
(* ever.                                                                    *)
HandshakeCompletes ==
    <>[]ProducerServes => []<>~(c_pc \in WaitPc /\ awaited = Unavailable)

(* Once the producer stays inside Run, every call of ConsumeSingle returns. *)
ConsumeSingleReturns ==
    <>[]ProducerServes => []<>(c_call # "ConsumeSingle")

=============================================================================
