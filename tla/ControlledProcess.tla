------------------------- MODULE ControlledProcess -------------------------
(***************************************************************************)
(* A process whose threads stream under one StreamingControl: the loops of  *)
(* Producer and Consumer as far as they test IsRunning, wait, and call Stop *)
(* (shared_memory_streaming_impl.h:90-93, 190-287), and the programs that   *)
(* run, stop, reset and reconfigure them.                                   *)
(*                                                                          *)
(* The frames and the uses are choices at each step: whether the awaited    *)
(* frame is there, whether a loop produces or consumes, whether a wait has  *)
(* a time-out.  The waits of the handshake (217) and of a frame (263) are   *)
(* one loop.                                                                *)
(***************************************************************************)
EXTENDS StreamingControl

CONSTANT Programs

ASSUME ProgramsAssumption ==
    Programs \subseteq {"application", "camera_consumer", "interrupted_consumer"}

VARIABLES
    program,    \* what main runs
    stage       \* how far it got, and the RunResult of its last call

programVars == <<program, stage>>
vars == <<controlVars, callVars, signalVars, pc, stopping, programVars>>

Stage == {"None", "Configured", "Ready", "Stopped", "Timeout", "Error"}

TypeOK ==
    /\ ControlTypeOK
    /\ program \in Programs
    /\ stage \in Stage

Init ==
    /\ InitControl
    /\ program \in Programs
    /\ stage = "None"

HandleSignals == [handle_signals |-> TRUE, chain_handlers |-> TRUE, signals |-> Catchable]

-----------------------------------------------------------------------------
(* The loops.                                                               *)

Stream(t, from, to) ==
    /\ At(t, from)
    /\ Goto(t, to)
    /\ UNCHANGED <<controlVars, callVars, signalVars, stopping>>

MainStage(t, s) == stage' = IF t = Main THEN s ELSE stage

(* The call returns Stopped.                                                *)
Stopped(t, from) ==
    /\ Stream(t, from, "outside")
    /\ MainStage(t, "Stopped")
    /\ UNCHANGED program

(* Stop(), and then the call returns another failure.                       *)
StopsAll(t, from, s) ==
    /\ At(t, from)
    /\ ClearRunning(t)
    /\ MainStage(t, s)
    /\ UNCHANGED program

(* Producer::Run goes on to produce, Consumer::Run to ConsumeFrame.         *)
TestLoop(t) ==
    \/ /\ IsRunning
       /\ Stream(t, "loop", "work") \/ Stream(t, "loop", "check")
       /\ UNCHANGED programVars
    \/ ~IsRunning /\ Stopped(t, "loop")

(* Mutant: it waits as long as the frame is not there.                      *)
TestWaitUnchecked(t) ==
    /\ Stream(t, "check", "wait") \/ Stream(t, "check", "loop") \/ Stream(t, "check", "final")
    /\ UNCHANGED programVars

(* To wait, or not to: the frame is there, or the stream was stopped; the   *)
(* handshake of Run goes on to its loop, ConsumeFrame to the last test.     *)
TestWait(t) ==
    /\ \/ IsRunning /\ Stream(t, "check", "wait")
       \/ Stream(t, "check", "loop")
       \/ Stream(t, "check", "final")
    /\ UNCHANGED programVars

(* FUTEX_WAIT finds another value, sleeps, or fails.                        *)
CallWait(t) ==
    \/ /\ Stream(t, "wait", "check") \/ Stream(t, "wait", "asleep")
       /\ UNCHANGED programVars
    \/ StopsAll(t, "wait", "Error")

Woken(t) == Stream(t, "asleep", "check") /\ UNCHANGED programVars

TimesOut(t) == program # "interrupted_consumer" /\ StopsAll(t, "asleep", "Timeout")

TestFinal(t) ==
    \/ IsRunning /\ Stream(t, "final", "work") /\ UNCHANGED programVars
    \/ ~IsRunning /\ Stopped(t, "final")

(* The callback, after which a loop goes on and a single call returns.      *)
Work(t) ==
    /\ \/ Stream(t, "work", "loop")
       \/ program = "application" /\ Stream(t, "work", "outside")
    /\ UNCHANGED programVars

StreamStep(t) ==
    \/ TestLoop(t)
    \/ TestWait(t)
    \/ CallWait(t)
    \/ Stopped(t, "interrupted")
    \/ TestFinal(t)
    \/ Work(t)
    \/ RequestStop(t) /\ UNCHANGED programVars

-----------------------------------------------------------------------------
(* The programs.                                                            *)

(* Run of a Producer, or Run or ConsumeSingle of a Consumer.                *)
BeginStream(t) ==
    /\ Stream(t, "outside", "loop") \/ Stream(t, "outside", "check")
    /\ UNCHANGED programVars

(* Any use of the API, a thread of its own for each stream; only main       *)
(* resets and reconfigures, but any thread may stop.                        *)
Application ==
    /\ program = "application"
    /\ \/ /\ pc[Main] = "outside" /\ Free(Main)
          /\ \/ Reset
             \/ \E c \in Configurations : ReconfigureAndReset(c)
             \/ Destruct
             \/ \E s \in Signal, d \in Applications : SetDisposition(s, d)
          /\ UNCHANGED programVars
       \/ /\ op # "Construct"
          /\ \E t \in Thread :
                 \/ At(t, "outside") /\ ClearRunning(t) /\ UNCHANGED programVars
                 \/ BeginStream(t)

(* main of a program at a stage of it.                                      *)
MainAt(p, s) ==
    /\ program = p
    /\ stage = s
    /\ At(Main, "outside")

(* camera_consumer: a time-out is reset and retried.                        *)
CameraConsumer ==
    \/ /\ MainAt("camera_consumer", "None")
       /\ ReconfigureAndReset(HandleSignals)
       /\ stage' = "Configured"
       /\ UNCHANGED program
    \/ /\ MainAt("camera_consumer", "Configured")
       /\ stage' \in {"Ready", "Error"}
       /\ UNCHANGED <<controlVars, callVars, signalVars, pc, stopping, program>>
    \/ MainAt("camera_consumer", "Ready") /\ IsRunning /\ BeginStream(Main)
    \/ MainAt("camera_consumer", "Ready") /\ ~IsRunning /\ Destruct /\ UNCHANGED programVars
    \/ /\ MainAt("camera_consumer", "Timeout")
       /\ Reset
       /\ stage' = "Ready"
       /\ UNCHANGED program
    \/ /\ MainAt("camera_consumer", "Stopped") \/ MainAt("camera_consumer", "Error")
       /\ Destruct
       /\ UNCHANGED programVars

(* The consumer that the signal tests interrupt.                            *)
InterruptedConsumer ==
    \/ /\ MainAt("interrupted_consumer", "None")
       /\ ReconfigureAndReset(HandleSignals)
       /\ stage' = "Ready"
       /\ UNCHANGED program
    \/ MainAt("interrupted_consumer", "Ready") /\ BeginStream(Main)
    \/ /\ MainAt("interrupted_consumer", "Stopped") \/ MainAt("interrupted_consumer", "Error")
       /\ Destruct
       /\ UNCHANGED programVars

(* Anybody sends a signal; the test does it once it sees a request.         *)
Send(s) ==
    /\ program = "interrupted_consumer" => pc[Main] \in {"check", "wait", "asleep"}
    /\ SendSignal(s)
    /\ UNCHANGED programVars

Control == (ControlStep \/ Exit) /\ UNCHANGED programVars
Handler == HandlerStep /\ UNCHANGED programVars
Delivery == \E s \in Signal : Deliver(s) /\ UNCHANGED programVars

Next ==
    \/ Control
    \/ Handler
    \/ Delivery
    \/ \E s \in Signal : Send(s)
    \/ \E t \in Thread : StreamStep(t) \/ Woken(t) \/ TimesOut(t)
    \/ Application
    \/ CameraConsumer
    \/ InterruptedConsumer

Spec == Init /\ [][Next]_vars

(* The scheduler runs the threads and the handlers; callbacks return.       *)
FairSpec ==
    /\ Spec
    /\ WF_vars(Control)
    /\ WF_vars(Handler)
    /\ WF_vars(InterruptedConsumer)
    /\ \A t \in Thread : WF_vars(StreamStep(t))

(* And another process publishes again and again.                           *)
FedSpec == FairSpec /\ \A t \in Thread : WF_vars(Woken(t))

-----------------------------------------------------------------------------
(* The sample consumer ends only if a signal was handled or a call failed:  *)
(* its own time-outs stop the control of its process, and its Reset         *)
(* undoes all of that (camera_consumer.cc:40-66).                           *)
OnlySignalsEndIt ==
    program = "camera_consumer" /\ pc[Main] = "ended" => handled \/ stage = "Error"

(* A Stop, or a signal, that no Reset follows ends every loop of the        *)
(* process, in whatever step of whichever thread it falls, as long as       *)
(* frames keep coming (shared_memory_streaming_impl.h:217-284).             *)
StopEndsEveryLoop ==
    \A t \in Thread :
        (stopping /\ pc[t] \in StreamPc) ~> (~stopping \/ pc[t] \notin StreamPc)

(* What makes it so.  A stop that no Reset follows keeps IsRunning false,   *)
(* whichever flag it set, whichever configuration was in force, and however *)
(* its two stores interleave with the calls (streaming_control.cc:20-48).   *)
StopIsKept == stopping => ~IsRunning

(* The steps a loop has left once its process was stopped.                  *)
LoopStepsLeft(at) ==
    CASE at = "wait" -> 4
      [] at = "asleep" -> 3
      [] at \in {"check", "work"} -> 2
      [] at \in {"loop", "final", "interrupted"} -> 1
      [] OTHER -> 0

(* From then on every step of a thread in a loop brings it nearer to its    *)
(* end: no step back, no frame produced or consumed that was not begun, and *)
(* no wait but the one it was about to enter                                *)
(* (shared_memory_streaming_impl.h:90-93, 217-284).                         *)
StoppedLoopsWindDown ==
    [][stopping /\ stopping' =>
         \A t \in Thread : pc[t] \in StreamPc /\ pc'[t] # pc[t] =>
             LoopStepsLeft(pc'[t]) < LoopStepsLeft(pc[t])]_vars

(* Once the StreamingControl is constructed, every handler that begins      *)
(* returns, or a signal kills the process: it waits for no lock and no      *)
(* thread, and does not chain to itself (streaming_control.cc:71-83).       *)
HandlersReturn == frames # <<>> ~> (frames = <<>> \/ op = "Construct")

(* The steps a handler has left.                                            *)
HandlerStepsLeft(at) ==
    CASE at = "Instance" -> 4
      [] at = "stop" -> 3
      [] at = "chain" -> 2
      [] at = "Application" -> 1

(* What makes it so.  Each step of the innermost handler returns from it or *)
(* brings it nearer to its return: never does it chain to SignalHandler     *)
(* again, not even while a call is replacing the handlers it looks up       *)
(* (streaming_control.cc:50-83).                                            *)
HandlersWindDown ==
    [][HandlerStep =>
         \/ Len(frames') < Len(frames)
         \/ /\ Len(frames') = Len(frames)
            /\ HandlerStepsLeft(frames'[1].at) < HandlerStepsLeft(frames[1].at)]_vars

(* What the tests of signal handling expect (shared_memory_streaming_       *)
(* test.cc:700-704): a consumer that handles the signal exits.              *)
HandledSignalEndsConsumer == handled ~> pc[Main] \in {"ended", "killed"}
=============================================================================
