---------------------- MODULE ControlledProcessProofs ----------------------
(***************************************************************************)
(* The safety properties of ControlledProcess, for every number of threads  *)
(* and signals and all configurations.                                      *)
(***************************************************************************)
EXTENDS ControlledProcess, TLAPS

USE MainAssumption, CatchableAssumption, ConfigurationAssumption, MaxSignalsAssumption,
    ProgramsAssumption

(* Which call of the main thread can be where; between the calls it is in   *)
(* the application or in a stream.                                          *)
Between == {"outside", "request_stop"} \cup StreamPc

CallInv ==
    /\ pc[Main] \in Between => op = "None"
    /\ op = "None" => pc[Main] \in Between \cup {"killed"}
    /\ pc[Main] = "restore" =>
           /\ op \in {"ReconfigureAndReset", "Destruct"}
           /\ \A s \in todo : previous_handlers[s] # "None"
    /\ pc[Main] = "configure" => op = "ReconfigureAndReset"
    /\ pc[Main] = "set_running" => op \in {"Construct", "Reset", "ReconfigureAndReset"}
    /\ pc[Main] = "clear_stop" => op \in {"Reset", "ReconfigureAndReset"}
    /\ pc[Main] \in {"clear_previous", "sigaction", "record"}
           => op \in {"Construct", "ReconfigureAndReset"}
    /\ op = "Reset" => pc[Main] \in {"set_running", "clear_stop", "killed"}
    /\ pc[Main] \in {"exit", "ended"} => op = "Destruct"

TypeInv == TypeOK /\ CallInv

LEMMA InitTypes == Init => TypeInv
<1> SUFFICES ASSUME Init
             PROVE  TypeInv
  OBVIOUS
<1>1. configuration \in Configuration /\ next_configuration \in Configuration
  BY DEF Init, InitControl
<1>2. frames \in Seq(Frame) /\ sent \in 0 .. MaxSignals /\ pending \subseteq Signal
  BY DEF Init, InitControl
<1>3. /\ application \in [Signal -> Applications]
      /\ disposition \in [Signal -> Disposition]
  BY DEF Init, InitControl, Disposition, Applications
<1>4. pc \in [Thread -> Pc] /\ pc[Main] = "set_running" /\ op = "Construct"
  BY DEF Init, InitControl, Pc, ControlPc, Resetting
<1>5. CallInv
  BY <1>4 DEF CallInv, Between, StreamPc
<1> QED
  BY <1>1, <1>2, <1>3, <1>4, <1>5 DEF Init, InitControl, TypeInv, TypeOK, ControlTypeOK, Op, Stage

(* A step that only moves a thread, and perhaps the flags and the stage.    *)
LEMMA MoveTypes ==
    ASSUME TypeInv, NEW t \in Thread, NEW x \in Between,
           pc[t] \in Between, pc' = [pc EXCEPT ![t] = x],
           UNCHANGED <<configuration, previous_handlers, callVars, signalVars, program>>,
           running' \in BOOLEAN, stop_requested' \in BOOLEAN, stopping' \in BOOLEAN,
           stage' \in Stage
    PROVE  TypeInv'
  BY DEF TypeInv, TypeOK, ControlTypeOK, CallInv, Between, Pc, ControlPc, StreamPc,
     callVars, signalVars

LEMMA StreamTypes ==
    ASSUME TypeInv, NEW t \in Thread, StreamStep(t) \/ Woken(t) \/ TimesOut(t)
    PROVE  TypeInv'
<1> USE DEF At, Goto, Stream, Stopped, StopsAll, MainStage, ClearRunning, programVars,
            controlVars, Between, StreamPc, Stage
<1>1. /\ stage \in Stage /\ running \in BOOLEAN /\ stop_requested \in BOOLEAN
      /\ stopping \in BOOLEAN
  BY DEF TypeInv, TypeOK, ControlTypeOK
<1>2. CASE TestLoop(t)
  BY <1>1, <1>2, MoveTypes DEF TestLoop
<1>3. CASE TestWait(t)
  BY <1>1, <1>3, MoveTypes DEF TestWait
<1>4. CASE CallWait(t)
  BY <1>1, <1>4, MoveTypes DEF CallWait
<1>5. CASE Stopped(t, "interrupted")
  BY <1>1, <1>5, MoveTypes
<1>6. CASE TestFinal(t)
  BY <1>1, <1>6, MoveTypes DEF TestFinal
<1>7. CASE Work(t)
  BY <1>1, <1>7, MoveTypes DEF Work
<1>8. CASE RequestStop(t) /\ UNCHANGED programVars
  BY <1>1, <1>8, MoveTypes DEF RequestStop
<1>9. CASE Woken(t)
  BY <1>1, <1>9, MoveTypes DEF Woken
<1>10. CASE TimesOut(t)
  BY <1>1, <1>10, MoveTypes DEF TimesOut
<1> QED
  BY <1>2, <1>3, <1>4, <1>5, <1>6, <1>7, <1>8, <1>9, <1>10 DEF StreamStep

LEMMA ControlTypes ==
    ASSUME TypeInv, Control
    PROVE  TypeInv'
<1> USE DEF TypeInv, TypeOK, ControlTypeOK, CallInv, Between, Pc, ControlPc, StreamPc,
            Resetting, At, Goto, Free, Returns, InstallIfHandling, controlVars, callVars,
            signalVars, programVars, Configuration, Disposition, Op
<1>1. CASE RestoreEnds
  BY <1>1 DEF Control, RestoreEnds
<1>2. CASE Configure
  BY <1>2 DEF Control, Configure
<1>3. CASE SetRunning
  BY <1>3 DEF Control, SetRunning
<1>4. CASE ClearStop
  <2>1. \/ pc' = [pc EXCEPT ![Main] = "outside"] /\ op' = "None"
        \/ pc' = [pc EXCEPT ![Main] = "clear_previous"] /\ op' = op /\ op # "Reset"
    BY <1>4 DEF ClearStop
  <2>2. /\ op = "Reset" \/ op = "ReconfigureAndReset"
        /\ stop_requested' = FALSE
        /\ UNCHANGED <<configuration, previous_handlers, running, next_configuration, todo,
                       saved, signalVars, stopping, programVars>>
    BY <1>4 DEF Control, ClearStop
  <2>3. pc' \in [Thread -> Pc]
    BY <2>1
  <2>4. CallInv'
    BY <2>1, <2>2
  <2>5. op' \in Op
    BY <2>1
  <2>6. TypeOK'
    BY <2>2, <2>3, <2>5
  <2> QED
    BY <2>4, <2>6
<1>5. CASE ClearPrevious
  BY <1>5 DEF Control, ClearPrevious
<1>6. CASE InstallEnds
  BY <1>6 DEF Control, InstallEnds
<1>7. CASE \E s \in Signal : RestoreOne(s)
  BY <1>7 DEF Control, RestoreOne
<1>8. CASE \E s \in Signal : InstallOne(s)
  BY <1>8 DEF Control, InstallOne
<1>9. CASE \E s \in Signal : RecordPrevious(s)
  BY <1>9 DEF Control, RecordPrevious
<1>10. CASE Exit
  BY <1>10 DEF Control, Exit
<1> QED
  BY <1>1, <1>2, <1>3, <1>4, <1>5, <1>6, <1>7, <1>8, <1>9, <1>10 DEF Control, ControlStep

(* The stack of handlers stays a stack of frames.                           *)
LEMMA FrameStack ==
    ASSUME frames \in Seq(Frame)
    PROVE  /\ \A s \in Signal :
                  <<[signal |-> s, at |-> "Instance"]>> \o frames \in Seq(Frame)
           /\ frames # <<>> =>
                  /\ frames[1] \in Frame
                  /\ Tail(frames) \in Seq(Frame)
                  /\ \A at \in {"Instance", "stop", "chain", "Application"} :
                         [frames EXCEPT ![1].at = at] \in Seq(Frame)
<1>1. \A s \in Signal : <<[signal |-> s, at |-> "Instance"]>> \in Seq(Frame)
  BY DEF Frame
<1>2. ASSUME frames # <<>>
      PROVE  /\ frames[1] \in Frame
             /\ Tail(frames) \in Seq(Frame)
  BY <1>2
<1>3. ASSUME frames # <<>>, NEW at \in {"Instance", "stop", "chain", "Application"}
      PROVE  [frames EXCEPT ![1].at = at] \in Seq(Frame)
  <2>1. [frames[1] EXCEPT !.at = at] \in Frame
    BY <1>2, <1>3 DEF Frame
  <2> QED
    BY <1>3, <2>1
<1> QED
  BY <1>1, <1>2, <1>3

LEMMA SignalTypes ==
    ASSUME TypeInv, Handler \/ Delivery \/ \E s \in Signal : Send(s)
    PROVE  TypeInv'
<1> USE DEF TypeInv, TypeOK, ControlTypeOK, CallInv, Between, Pc, ControlPc, StreamPc,
            Resetting, controlVars, callVars, programVars
<1>0. frames \in Seq(Frame)
  OBVIOUS
<1>1. CASE Handler
  <2>1. /\ frames # <<>>
        /\ \/ frames' = Tail(frames)
           \/ \E at \in {"Instance", "stop", "chain", "Application"} :
                  frames' = [frames EXCEPT ![1].at = at]
    BY <1>1 DEF Handler, HandlerStep, HandlerGetsInstance, HandlerStops, HandlerChains,
       ChainedReturns, HandlerAt, HandlerGoto, HandlerReturns
  <2>2. frames' \in Seq(Frame)
    BY <1>0, <2>1, FrameStack
  <2>3. /\ UNCHANGED <<configuration, previous_handlers, running, callVars, pc, disposition,
                       application, pending, sent, programVars>>
        /\ stop_requested' \in BOOLEAN /\ stopping' \in BOOLEAN /\ handled' \in BOOLEAN
    BY <1>1 DEF Handler, HandlerStep, HandlerGetsInstance, HandlerStops, HandlerChains,
       ChainedReturns
  <2> QED
    BY <2>2, <2>3
<1>2. CASE Delivery
  <2> PICK s \in Signal : Deliver(s) /\ UNCHANGED programVars
    BY <1>2 DEF Delivery
  <2>1. /\ pending' \subseteq Signal
        /\ UNCHANGED <<controlVars, callVars, disposition, application, sent, stopping,
                       handled, programVars>>
    BY DEF Deliver, IgnoreSignal, KilledBySignal, ApplicationHandles, HandlerBegins, Deliverable
  <2>2. frames' \in Seq(Frame)
    <3>1. \/ frames' = frames
          \/ frames' = <<>>
          \/ frames' = <<[signal |-> s, at |-> "Instance"]>> \o frames
      BY DEF Deliver, IgnoreSignal, KilledBySignal, ApplicationHandles, HandlerBegins
    <3>2. <<>> \in Seq(Frame)
      OBVIOUS
    <3> QED
      BY <1>0, <3>1, <3>2, FrameStack
  <2>3. \/ pc' = pc
        \/ pc' = [t \in Thread |-> "killed"]
        \/ pc[Main] = "asleep" /\ pc' = [pc EXCEPT ![Main] = "interrupted"]
    BY DEF Deliver, IgnoreSignal, KilledBySignal, ApplicationHandles, HandlerBegins,
       InterruptsWait
  <2>4. pc' \in [Thread -> Pc]
    BY <2>3
  <2>5. CallInv'
    BY <2>1, <2>3
  <2> QED
    BY <2>1, <2>2, <2>4, <2>5
<1>3. CASE \E s \in Signal : Send(s)
  BY <1>3 DEF Send, SendSignal
<1> QED
  BY <1>1, <1>2, <1>3

LEMMA CallTypes ==
    ASSUME TypeInv, pc[Main] = "outside", stage' \in Stage, UNCHANGED program,
           \/ Reset
           \/ \E c \in Configuration : ReconfigureAndReset(c)
           \/ Destruct
    PROVE  TypeInv'
<1> USE DEF TypeInv, TypeOK, ControlTypeOK, CallInv, Between, Pc, ControlPc, StreamPc,
            Resetting, Op, Calls, Goto, controlVars, signalVars
<1>1. CASE Reset
  BY <1>1 DEF Reset
<1>2. CASE \E c \in Configuration : ReconfigureAndReset(c)
  <2>1. PICK c \in Configuration : ReconfigureAndReset(c)
    BY <1>2
  <2>2. CASE configuration.handle_signals
    BY <2>1, <2>2 DEF ReconfigureAndReset, RestoresFirst
  <2>3. CASE ~configuration.handle_signals
    BY <2>1, <2>3 DEF ReconfigureAndReset, RestoresFirst
  <2> QED
    BY <2>2, <2>3
<1>3. CASE Destruct
  <2>1. CASE configuration.handle_signals
    BY <1>3, <2>1 DEF Destruct, RestoresFirst
  <2>2. CASE ~configuration.handle_signals
    BY <1>3, <2>2 DEF Destruct, RestoresFirst
  <2> QED
    BY <2>1, <2>2
<1> QED
  BY <1>1, <1>2, <1>3

LEMMA ProgramTypes ==
    ASSUME TypeInv, Application \/ CameraConsumer \/ InterruptedConsumer
    PROVE  TypeInv'
<1>1. /\ HandleSignals \in Configuration
      /\ stage \in Stage /\ running \in BOOLEAN /\ stop_requested \in BOOLEAN
      /\ stopping \in BOOLEAN
  BY DEF HandleSignals, Configuration, TypeInv, TypeOK, ControlTypeOK
<1>2. ASSUME NEW t \in Thread, BeginStream(t)
      PROVE  TypeInv'
  BY <1>1, <1>2, MoveTypes DEF BeginStream, Stream, At, Goto, programVars, controlVars,
     Between, StreamPc
<1>3. CASE Application
  <2>1. CASE pc[Main] = "outside" /\ UNCHANGED programVars
             /\ (Reset \/ (\E c \in Configurations : ReconfigureAndReset(c)) \/ Destruct)
    BY <1>1, <2>1, CallTypes DEF programVars
  <2>2. CASE /\ UNCHANGED programVars
             /\ \E s \in Signal, d \in Applications : SetDisposition(s, d)
    BY <2>2 DEF SetDisposition, TypeInv, TypeOK, ControlTypeOK, CallInv, Disposition,
       controlVars, callVars, programVars
  <2>3. CASE \E t \in Thread : At(t, "outside") /\ ClearRunning(t) /\ UNCHANGED programVars
    BY <1>1, <2>3, MoveTypes DEF At, ClearRunning, Goto, programVars, Between
  <2>4. CASE \E t \in Thread : BeginStream(t)
    BY <1>2, <2>4
  <2> QED
    BY <1>3, <2>1, <2>2, <2>3, <2>4 DEF Application
<1>4. CASE CameraConsumer
  <2>1. CASE pc[Main] = "outside" /\ UNCHANGED program /\ stage' \in Stage
             /\ (Reset \/ ReconfigureAndReset(HandleSignals) \/ Destruct)
    BY <1>1, <2>1, CallTypes
  <2>2. CASE BeginStream(Main)
    BY <1>2, <2>2
  <2>3. CASE /\ stage' \in {"Ready", "Error"}
             /\ UNCHANGED <<controlVars, callVars, signalVars, pc, stopping, program>>
    BY <2>3 DEF TypeInv, TypeOK, ControlTypeOK, CallInv, controlVars, callVars, signalVars, Stage
  <2> QED
    BY <1>1, <1>4, <2>1, <2>2, <2>3 DEF CameraConsumer, MainAt, At, programVars, Stage
<1>5. CASE InterruptedConsumer
  <2>1. CASE pc[Main] = "outside" /\ UNCHANGED program /\ stage' \in Stage
             /\ (ReconfigureAndReset(HandleSignals) \/ Destruct)
    BY <1>1, <2>1, CallTypes
  <2>2. CASE BeginStream(Main)
    BY <1>2, <2>2
  <2> QED
    BY <1>1, <1>5, <2>1, <2>2 DEF InterruptedConsumer, MainAt, At, programVars, Stage
<1> QED
  BY <1>3, <1>4, <1>5

LEMMA TypesInvariant == Spec => []TypeInv
<1>1. TypeInv /\ [Next]_vars => TypeInv'
  <2> SUFFICES ASSUME TypeInv, [Next]_vars
               PROVE  TypeInv'
    OBVIOUS
  <2>1. CASE UNCHANGED vars
    BY <2>1 DEF vars, controlVars, callVars, signalVars, programVars, TypeInv, TypeOK,
       ControlTypeOK, CallInv
  <2> QED
    BY <2>1, ControlTypes, SignalTypes, StreamTypes, ProgramTypes DEF Next
<1> QED
  BY <1>1, InitTypes, PTL DEF Spec

(* Types, for all threads, signals and configurations.  That only saved     *)
(* handlers are restored (streaming_control.cc:56-68) is part of it.        *)
THEOREM TypeCorrect == Spec => []TypeOK
  BY TypesInvariant, PTL DEF TypeInv

-----------------------------------------------------------------------------
(* What the calls leave behind, and where each stands with each signal.     *)

Serves(s) == configuration.handle_signals /\ s \in configuration.signals \cap Catchable

(* A signal that goes to SignalHandler, and whose old handler is saved.     *)
Installed(s) == disposition[s] = "SignalHandler" /\ previous_handlers[s] = application[s]

(* A signal that is the application's.                                      *)
Untouched(s) == disposition[s] = application[s]

Nothing(s) == saved[s] = "None"

Settled ==
    op \in {"None", "Reset"} =>
        \A s \in Signal :
            /\ Nothing(s)
            /\ Serves(s) => Installed(s)
            /\ ~Serves(s) => /\ Untouched(s)
                             /\ configuration.handle_signals => previous_handlers[s] = "None"

Restoring ==
    pc[Main] = "restore" =>
        \A s \in Signal :
            /\ Nothing(s)
            /\ s \in todo => previous_handlers[s] = application[s]
            /\ s \notin todo => Untouched(s)

Restored ==
    /\ op \notin {"None", "Reset"}
    /\ pc[Main] \in {"configure", "set_running", "clear_stop", "clear_previous", "exit", "ended"}
    => \A s \in Signal : Nothing(s) /\ Untouched(s)

Installing ==
    pc[Main] \in {"clear_previous", "sigaction", "record"} => configuration.handle_signals

InstallingOne ==
    pc[Main] \in {"sigaction", "record"} =>
        /\ \A s \in Signal :
               IF s \in todo
               THEN Nothing(s) /\ Untouched(s) /\ previous_handlers[s] = "None"
               ELSE IF Nothing(s)
               THEN /\ Serves(s) => Installed(s)
                    /\ ~Serves(s) => Untouched(s) /\ previous_handlers[s] = "None"
               ELSE /\ pc[Main] = "record" /\ Serves(s)
                    /\ disposition[s] = "SignalHandler" /\ saved[s] = application[s]
        /\ \A r, s \in Signal : ~Nothing(r) /\ ~Nothing(s) => r = s
        /\ todo \subseteq configuration.signals

DispInv == Settled /\ Restoring /\ Restored /\ Installing /\ InstallingOne

LEMMA InitDisp == Init => DispInv
  BY DEF Init, InitControl, DispInv, Settled, Restoring, Restored, Installing, InstallingOne,
     Nothing, Untouched

(* Steps that are no step of a control call.                                *)
LEMMA MoveDisp ==
    ASSUME TypeInv, TypeInv', DispInv,
           UNCHANGED <<configuration, previous_handlers, callVars, disposition, application>>,
           \/ pc'[Main] = pc[Main]
           \/ pc'[Main] \in Between \cup {"killed"}
    PROVE  DispInv'
  BY DEF DispInv, Settled, Restoring, Restored, Installing, InstallingOne, Nothing, Untouched,
     Installed, Serves, Between, StreamPc, callVars

LEMMA StreamDisp ==
    ASSUME TypeInv, TypeInv', DispInv, NEW t \in Thread, StreamStep(t) \/ Woken(t) \/ TimesOut(t)
    PROVE  DispInv'
<1>1. /\ UNCHANGED <<configuration, previous_handlers, callVars, disposition, application>>
      /\ \E x \in Between : pc' = [pc EXCEPT ![t] = x]
  BY DEF StreamStep, TestLoop, TestWait, CallWait, Stopped, StopsAll, TestFinal, Work,
     RequestStop, Woken, TimesOut, Stream, ClearRunning, At, Goto, controlVars, callVars,
     signalVars, Between, StreamPc
<1>2. pc'[Main] = pc[Main] \/ pc'[Main] \in Between
  BY <1>1 DEF TypeInv, TypeOK, ControlTypeOK
<1> QED
  BY <1>1, <1>2, MoveDisp

LEMMA SignalDisp ==
    ASSUME TypeInv, TypeInv', DispInv, Handler \/ Delivery \/ \E s \in Signal : Send(s)
    PROVE  DispInv'
<1>1. /\ UNCHANGED <<configuration, previous_handlers, callVars, disposition, application>>
      /\ \/ pc' = pc
         \/ pc' = [t \in Thread |-> "killed"]
         \/ pc' = [pc EXCEPT ![Main] = IF @ = "asleep" THEN "interrupted" ELSE @]
  BY DEF Handler, HandlerStep, HandlerGetsInstance, HandlerStops, HandlerChains,
     ChainedReturns, Delivery, Deliver, IgnoreSignal, KilledBySignal, ApplicationHandles,
     HandlerBegins, InterruptsWait, Send, SendSignal, controlVars, callVars
<1>2. pc'[Main] = pc[Main] \/ pc'[Main] \in {"killed", "interrupted"}
  BY <1>1 DEF TypeInv, TypeOK, ControlTypeOK
<1> QED
  BY <1>1, <1>2, MoveDisp DEF Between, StreamPc

LEMMA ControlDisp ==
    ASSUME TypeInv, TypeInv', DispInv, Control
    PROVE  DispInv'
<1> USE DEF TypeInv, TypeOK, ControlTypeOK, CallInv, At, Goto, Free, Returns, InstallIfHandling,
            controlVars, callVars, signalVars, Nothing, Untouched, Installed, Serves
<1>1. CASE RestoreEnds
  BY <1>1 DEF RestoreEnds, DispInv, Settled, Restoring, Restored, Installing, InstallingOne
<1>2. CASE Configure
  BY <1>2 DEF Configure, DispInv, Settled, Restoring, Restored, Installing, InstallingOne
<1>3. CASE SetRunning
  BY <1>3 DEF SetRunning, DispInv, Settled, Restoring, Restored, Installing, InstallingOne
<1>4. CASE ClearStop
  BY <1>4 DEF ClearStop, DispInv, Settled, Restoring, Restored, Installing, InstallingOne
<1>5. CASE ClearPrevious
  BY <1>5 DEF ClearPrevious, DispInv, Settled, Restoring, Restored, Installing, InstallingOne
<1>6. CASE InstallEnds
  BY <1>6 DEF InstallEnds, DispInv, Settled, Restoring, Restored, Installing, InstallingOne
<1>7. CASE \E s \in Signal : RestoreOne(s)
  BY <1>7 DEF RestoreOne, DispInv, Settled, Restoring, Restored, Installing, InstallingOne
<1>8. CASE \E s \in Signal : InstallOne(s)
  BY <1>8 DEF InstallOne, DispInv, Settled, Restoring, Restored, Installing, InstallingOne
<1>9. CASE \E s \in Signal : RecordPrevious(s)
  BY <1>9 DEF RecordPrevious, DispInv, Settled, Restoring, Restored, Installing, InstallingOne
<1>10. CASE Exit
  BY <1>10 DEF Exit, DispInv, Settled, Restoring, Restored, Installing, InstallingOne
<1> QED
  BY <1>1, <1>2, <1>3, <1>4, <1>5, <1>6, <1>7, <1>8, <1>9, <1>10 DEF Control, ControlStep

LEMMA CallDisp ==
    ASSUME TypeInv, TypeInv', DispInv, pc[Main] = "outside",
           \/ Reset
           \/ \E c \in Configuration : ReconfigureAndReset(c)
           \/ Destruct
    PROVE  DispInv'
<1> USE DEF TypeInv, TypeOK, ControlTypeOK, CallInv, Calls, Goto, Between, controlVars,
            signalVars, Nothing, Untouched, Installed, Serves, Applications,
            DispInv, Settled, Restoring, Restored, Installing, InstallingOne
<1>1. CASE Reset
  BY <1>1 DEF Reset
<1>2. CASE \E c \in Configuration : ReconfigureAndReset(c)
  BY <1>2 DEF ReconfigureAndReset, RestoresFirst
<1>3. CASE Destruct
  BY <1>3 DEF Destruct, RestoresFirst
<1> QED
  BY <1>1, <1>2, <1>3

LEMMA ProgramDisp ==
    ASSUME TypeInv, TypeInv', DispInv, Application \/ CameraConsumer \/ InterruptedConsumer
    PROVE  DispInv'
<1>1. HandleSignals \in Configuration
  BY DEF HandleSignals, Configuration
<1>2. CASE /\ pc[Main] = "outside"
           /\ Reset \/ (\E c \in Configuration : ReconfigureAndReset(c)) \/ Destruct
  BY <1>2, CallDisp
<1>3. CASE pc[Main] = "outside" /\ \E s \in Signal, d \in Applications : SetDisposition(s, d)
  BY <1>3 DEF SetDisposition, TypeInv, TypeOK, ControlTypeOK, CallInv, Between, callVars,
     controlVars, Nothing, Untouched, Installed, Serves,
     DispInv, Settled, Restoring, Restored, Installing, InstallingOne
<1>4. CASE \E t \in Thread : (At(t, "outside") /\ ClearRunning(t)) \/ BeginStream(t)
  <2>1. PICK t \in Thread : (At(t, "outside") /\ ClearRunning(t)) \/ BeginStream(t)
    BY <1>4
  <2>2. /\ UNCHANGED <<configuration, previous_handlers, callVars, disposition, application>>
        /\ \E x \in Between : pc' = [pc EXCEPT ![t] = x]
    BY <2>1 DEF ClearRunning, BeginStream, Stream, Goto, controlVars, callVars, signalVars,
       Between, StreamPc
  <2>3. pc'[Main] = pc[Main] \/ pc'[Main] \in Between
    BY <2>2 DEF TypeInv, TypeOK, ControlTypeOK
  <2> QED
    BY <2>2, <2>3, MoveDisp
<1>5. CASE UNCHANGED <<controlVars, callVars, signalVars, pc>>
  BY <1>5, MoveDisp DEF controlVars, callVars, signalVars
<1> QED
  <2>1. CASE Application
    BY <2>1, <1>2, <1>3, <1>4 DEF Application
  <2>2. CASE CameraConsumer
    BY <2>2, <1>1, <1>2, <1>4, <1>5 DEF CameraConsumer, MainAt, At
  <2>3. CASE InterruptedConsumer
    BY <2>3, <1>1, <1>2, <1>4 DEF InterruptedConsumer, MainAt, At
  <2> QED
    BY <2>1, <2>2, <2>3

LEMMA DispInvariant == Spec => []DispInv
<1>1. TypeInv /\ TypeInv' /\ DispInv /\ [Next]_vars => DispInv'
  <2> SUFFICES ASSUME TypeInv, TypeInv', DispInv, [Next]_vars
               PROVE  DispInv'
    OBVIOUS
  <2>1. CASE UNCHANGED vars
    BY <2>1, MoveDisp DEF vars, controlVars, callVars, signalVars
  <2> QED
    BY <2>1, ControlDisp, SignalDisp, StreamDisp, ProgramDisp DEF Next
<1> QED
  BY <1>1, InitDisp, TypesInvariant, PTL DEF Spec

(* Between the control calls, and once the destructor has run, the signals  *)
(* configured and no others go to SignalHandler, and the rest to what the   *)
(* application chose (streaming_control.cc:33-36, 50-69).                   *)
THEOREM DispositionsRestoredTheorem == Spec => []DispositionsRestored
<1>1. TypeInv /\ DispInv => DispositionsRestored
  BY DEF TypeInv, CallInv, DispInv, Settled, Restored, DispositionsRestored, Handled, Serves,
     Installed, Untouched
<1> QED
  BY <1>1, TypesInvariant, DispInvariant, PTL

(* Between the control calls the handler saved for each handled signal is   *)
(* the application's (streaming_control.cc:56-60, 74-81).                   *)
THEOREM ChainReachesApplicationTheorem == Spec => []ChainReachesApplication
<1>1. DispInv => ChainReachesApplication
  BY DEF DispInv, Settled, ChainReachesApplication, Handled, Serves, Installed
<1> QED
  BY <1>1, DispInvariant, PTL

-----------------------------------------------------------------------------
(* The sample consumer, as long as no signal has been handled: nothing but  *)
(* its own time-outs and failures stops it, and it resets after the former. *)

ConfigurationKnown ==
    /\ stage # "None"
    /\ op = "ReconfigureAndReset" => pc[Main] \notin {"restore", "configure", "killed"}

(* Where each stage of the program can be.                                  *)
CameraStages ==
    /\ \A t \in Thread \ {Main} : pc[t] \notin StreamPc \cup {"request_stop"}
    /\ pc[Main] \in StreamPc => stage = "Ready"
    /\ pc[Main] = "request_stop" => stage \in {"Timeout", "Error"}
    /\ op = "Construct" => stage = "None"
    /\ op = "ReconfigureAndReset" => stage = "Configured" /\ next_configuration = HandleSignals
    /\ op = "Reset" => stage = "Ready"
    /\ ConfigurationKnown => configuration = HandleSignals

(* The flags are set again, or were never cleared.                          *)
FlagsSet ==
    \/ pc[Main] \in {"clear_previous", "sigaction", "record"} /\ op # "Construct"
    \/ op = "None" /\ stage \in {"Configured", "Ready"} /\ pc[Main] # "killed"

CameraRuns ==
    ~handled =>
        /\ \A i \in DOMAIN frames : frames[i].at \in {"Instance", "stop"}
        /\ pc[Main] = "interrupted" => frames # <<>>
        /\ stage # "Stopped"
        /\ op = "Destruct" => stage = "Error"
        /\ pc[Main] = "clear_stop" => running
        /\ FlagsSet => running /\ ~stop_requested

CameraInv ==
    /\ pending \subseteq Catchable
    /\ program = "camera_consumer" => CameraStages /\ CameraRuns

LEMMA InitCamera == Init => CameraInv
  BY DEF Init, InitControl, CameraInv, CameraStages, CameraRuns,
     ConfigurationKnown, FlagsSet, StreamPc

LEMMA StreamCamera ==
    ASSUME TypeInv, CameraInv, NEW t \in Thread, StreamStep(t) \/ Woken(t) \/ TimesOut(t)
    PROVE  CameraInv'
<1> USE DEF TypeInv, TypeOK, ControlTypeOK, CallInv, CameraInv, CameraStages, CameraRuns,
            ConfigurationKnown, FlagsSet, StreamPc, Between, At, Goto, Free, Stream, controlVars, callVars, signalVars,
            programVars
<1>1. CASE program # "camera_consumer"
  <2>1. UNCHANGED <<pending, program>>
    BY DEF StreamStep, TestLoop, TestWait, CallWait, Stopped, StopsAll, TestFinal, Work,
       RequestStop, Woken, TimesOut, ClearRunning
  <2> QED
    BY <1>1, <2>1
<1>2. CASE program = "camera_consumer" /\ t = Main
  <2>1. CASE TestLoop(Main) \/ TestFinal(Main)
    BY <1>2, <2>1 DEF TestLoop, TestFinal, Stopped, MainStage, IsRunning
  <2>2. CASE TestWait(Main) \/ Work(Main) \/ Woken(Main)
    BY <1>2, <2>2 DEF TestWait, Work, Woken
  <2>3. CASE CallWait(Main) \/ TimesOut(Main)
    BY <1>2, <2>3 DEF CallWait, TimesOut, StopsAll, ClearRunning, MainStage
  <2>4. CASE Stopped(Main, "interrupted")
    BY <1>2, <2>4 DEF Stopped, MainStage
  <2>5. CASE RequestStop(Main) /\ UNCHANGED programVars
    BY <1>2, <2>5 DEF RequestStop
  <2> QED
    BY <1>2, <2>1, <2>2, <2>3, <2>4, <2>5 DEF StreamStep
<1>3. CASE program = "camera_consumer" /\ t # Main
  BY <1>3 DEF StreamStep, TestLoop, TestWait, CallWait, Stopped, StopsAll, TestFinal, Work,
     RequestStop, Woken, TimesOut
<1> QED
  BY <1>1, <1>2, <1>3

LEMMA ControlCamera ==
    ASSUME TypeInv, CameraInv, Control
    PROVE  CameraInv'
<1> USE DEF TypeInv, TypeOK, ControlTypeOK, CallInv, CameraInv, CameraStages, CameraRuns,
            ConfigurationKnown, FlagsSet, StreamPc, Between, At, Goto, Free, Returns, InstallIfHandling, controlVars,
            callVars, signalVars, programVars
<1>1. CASE RestoreEnds
  BY <1>1 DEF Control, RestoreEnds
<1>2. CASE Configure
  BY <1>2 DEF Control, Configure
<1>3. CASE SetRunning
  BY <1>3 DEF Control, SetRunning
<1>4. CASE ClearStop
  BY <1>4 DEF Control, ClearStop
<1>5. CASE ClearPrevious
  BY <1>5 DEF Control, ClearPrevious
<1>6. CASE InstallEnds
  BY <1>6 DEF Control, InstallEnds
<1>7. CASE \E s \in Signal : RestoreOne(s)
  BY <1>7 DEF Control, RestoreOne
<1>8. CASE \E s \in Signal : InstallOne(s)
  BY <1>8 DEF Control, InstallOne
<1>9. CASE \E s \in Signal : RecordPrevious(s)
  BY <1>9 DEF Control, RecordPrevious
<1>10. CASE Exit
  BY <1>10 DEF Control, Exit
<1> QED
  BY <1>1, <1>2, <1>3, <1>4, <1>5, <1>6, <1>7, <1>8, <1>9, <1>10 DEF Control, ControlStep

LEMMA SignalCamera ==
    ASSUME TypeInv, DispInv, CameraInv, Handler \/ Delivery \/ \E s \in Signal : Send(s)
    PROVE  CameraInv'
<1> USE DEF TypeInv, TypeOK, ControlTypeOK, CallInv, CameraInv, CameraStages, CameraRuns,
            ConfigurationKnown, FlagsSet, StreamPc, Between, controlVars, callVars, programVars
<1>0. frames \in Seq(Frame)
  OBVIOUS
<1>1. CASE Handler
  <2>1. UNCHANGED <<pending, program, stage, pc, op, next_configuration, configuration, running>>
    BY <1>1 DEF Handler, HandlerStep, HandlerGetsInstance, HandlerStops, HandlerChains,
       ChainedReturns
  <2>2. handled => handled'
    BY <1>1 DEF Handler, HandlerStep, HandlerGetsInstance, HandlerStops, HandlerChains,
       ChainedReturns
  <2>3. ASSUME program = "camera_consumer", ~handled'
        PROVE  /\ ~handled
               /\ UNCHANGED stop_requested
               /\ frames # <<>> /\ frames' = [frames EXCEPT ![1].at = "stop"]
    <3>1. ~handled /\ frames # <<>> /\ frames[1].at \in {"Instance", "stop"}
      BY <1>0, <1>1, <2>2, <2>3 DEF Handler, HandlerStep, HandlerGetsInstance, HandlerStops,
         HandlerChains, ChainedReturns, HandlerAt
    <3> QED
      BY <1>1, <2>3, <3>1 DEF Handler, HandlerStep, HandlerGetsInstance, HandlerStops,
         HandlerChains, ChainedReturns, HandlerAt, HandlerGoto
  <2>4. ASSUME program = "camera_consumer", ~handled'
        PROVE  frames' # <<>> /\ \A i \in DOMAIN frames' : frames'[i].at \in {"Instance", "stop"}
    <3>1. /\ DOMAIN frames' = DOMAIN frames
          /\ 1 \in DOMAIN frames
          /\ \A i \in DOMAIN frames : frames[i] \in Frame
      BY <1>0, <2>3, <2>4
    <3>2. \A i \in DOMAIN frames : frames[i].at \in {"Instance", "stop"}
      BY <2>3, <2>4
    <3>3. frames' = [frames EXCEPT ![1].at = "stop"]
      BY <2>3, <2>4
    <3>4. frames'[1].at = "stop"
      BY <3>1, <3>3 DEF Frame
    <3>5. \A i \in DOMAIN frames : i # 1 => frames'[i] = frames[i]
      BY <3>3
    <3> QED
      BY <2>3, <2>4, <3>1, <3>2, <3>4, <3>5
  <2>5. CASE program # "camera_consumer"
    BY <2>1, <2>5
  <2>6. CASE program = "camera_consumer"
    <3>1. CameraStages'
      BY <2>1, <2>6
    <3>2. CameraRuns'
      BY <2>1, <2>3, <2>4, <2>6
    <3> QED
      BY <2>1, <3>1, <3>2
  <2> QED
    BY <2>5, <2>6
<1>2. CASE Delivery
  <2>1. PICK s \in Signal : Deliver(s) /\ UNCHANGED programVars
    BY <1>2 DEF Delivery
  <2>2. /\ s \in pending /\ pending' = pending \ {s} /\ s \in Catchable
        /\ UNCHANGED <<controlVars, callVars, disposition, application, sent, stopping,
                       handled, programVars>>
    BY <2>1 DEF Deliver, IgnoreSignal, KilledBySignal, ApplicationHandles, HandlerBegins,
       Deliverable
  <2>3. CASE IgnoreSignal(s)
    BY <2>2, <2>3 DEF IgnoreSignal
  <2>4. CASE KilledBySignal(s)
    BY <2>2, <2>4 DEF KilledBySignal
  <2>5. CASE ApplicationHandles(s)
    <3>1. program = "camera_consumer" => pc[Main] # "asleep"
      <4> SUFFICES ASSUME program = "camera_consumer", pc[Main] = "asleep"
                   PROVE  FALSE
        OBVIOUS
      <4>1. op = "None" /\ stage = "Ready" /\ configuration = HandleSignals
        OBVIOUS
      <4>2. disposition[s] = "SignalHandler"
        BY <2>2, <4>1 DEF DispInv, Settled, Serves, Installed, HandleSignals
      <4> QED
        BY <2>5, <4>2 DEF ApplicationHandles
    <3>2. program = "camera_consumer" => pc' = pc
      BY <2>5, <3>1 DEF ApplicationHandles, InterruptsWait
    <3> QED
      BY <2>2, <2>5, <3>2 DEF ApplicationHandles
  <2>6. CASE HandlerBegins(s)
    <3>1. frames' = <<[signal |-> s, at |-> "Instance"]>> \o frames
      BY <2>6 DEF HandlerBegins
    <3>2. /\ frames' # <<>>
          /\ (\A i \in DOMAIN frames : frames[i].at \in {"Instance", "stop"})
                 => \A i \in DOMAIN frames' : frames'[i].at \in {"Instance", "stop"}
      BY <1>0, <3>1
    <3>3. \/ pc' = pc
          \/ pc[Main] = "asleep" /\ pc' = [pc EXCEPT ![Main] = "interrupted"]
      BY <2>6 DEF HandlerBegins, InterruptsWait
    <3> QED
      BY <2>2, <3>2, <3>3
  <2> QED
    BY <2>1, <2>3, <2>4, <2>5, <2>6 DEF Deliver
<1>3. CASE \E s \in Signal : Send(s)
  BY <1>3 DEF Send, SendSignal
<1> QED
  BY <1>1, <1>2, <1>3

LEMMA ProgramCamera ==
    ASSUME TypeInv, CameraInv, Application \/ CameraConsumer \/ InterruptedConsumer
    PROVE  CameraInv'
<1> USE DEF TypeInv, TypeOK, ControlTypeOK, CallInv, CameraInv, CameraStages, CameraRuns,
            ConfigurationKnown, FlagsSet, StreamPc, Between, controlVars, callVars,
            programVars, signalVars, Calls, Goto, At, Free
<1>1. CASE program # "camera_consumer"
  <2>1. UNCHANGED <<pending, program>>
    BY <1>1 DEF Application, CameraConsumer, InterruptedConsumer, MainAt, Reset,
       ReconfigureAndReset, Destruct, RestoresFirst, SetDisposition, ClearRunning, BeginStream,
       Stream
  <2> QED
    BY <1>1, <2>1
<1>2. CASE CameraConsumer /\ program = "camera_consumer"
  <2>1. CASE /\ MainAt("camera_consumer", "None") /\ ReconfigureAndReset(HandleSignals)
             /\ stage' = "Configured" /\ UNCHANGED program
    BY <1>2, <2>1 DEF MainAt, ReconfigureAndReset, RestoresFirst
  <2>2. CASE /\ MainAt("camera_consumer", "Configured") /\ stage' \in {"Ready", "Error"}
             /\ UNCHANGED <<controlVars, callVars, signalVars, pc, stopping, program>>
    BY <1>2, <2>2 DEF MainAt
  <2>3. CASE MainAt("camera_consumer", "Ready") /\ BeginStream(Main)
    BY <1>2, <2>3 DEF MainAt, BeginStream, Stream
  <2>4. CASE /\ MainAt("camera_consumer", "Ready") /\ ~IsRunning
             /\ Destruct /\ UNCHANGED programVars
    BY <1>2, <2>4 DEF MainAt, IsRunning, Destruct, RestoresFirst
  <2>5. CASE /\ MainAt("camera_consumer", "Timeout") /\ Reset
             /\ stage' = "Ready" /\ UNCHANGED program
    BY <1>2, <2>5 DEF MainAt, Reset
  <2>6. CASE /\ MainAt("camera_consumer", "Stopped") \/ MainAt("camera_consumer", "Error")
             /\ Destruct /\ UNCHANGED programVars
    BY <1>2, <2>6 DEF MainAt, Destruct, RestoresFirst
  <2> QED
    BY <1>2, <2>1, <2>2, <2>3, <2>4, <2>5, <2>6 DEF CameraConsumer
<1> QED
  BY <1>1, <1>2 DEF Application, InterruptedConsumer, MainAt

LEMMA CameraInvariant == Spec => []CameraInv
<1>1. TypeInv /\ DispInv /\ CameraInv /\ [Next]_vars => CameraInv'
  <2> SUFFICES ASSUME TypeInv, DispInv, CameraInv, [Next]_vars
               PROVE  CameraInv'
    OBVIOUS
  <2>1. CASE UNCHANGED vars
    BY <2>1 DEF vars, controlVars, callVars, signalVars, programVars, CameraInv, CameraStages,
       CameraRuns, ConfigurationKnown, FlagsSet
  <2> QED
    BY <2>1, ControlCamera, SignalCamera, StreamCamera, ProgramCamera DEF Next
<1> QED
  BY <1>1, InitCamera, TypesInvariant, DispInvariant, PTL DEF Spec

(* No number of time-outs ends the sample consumer (camera_consumer.cc:     *)
(* 40-66).                                                                  *)
THEOREM OnlySignalsEndItTheorem == Spec => []OnlySignalsEndIt
<1>1. TypeInv /\ CameraInv => OnlySignalsEndIt
  BY DEF TypeInv, CallInv, CameraInv, CameraRuns, OnlySignalsEndIt
<1> QED
  BY <1>1, TypesInvariant, CameraInvariant, PTL

-----------------------------------------------------------------------------
(* Stops.  A handler that runs finds a configuration that handles signals,  *)
(* since the calls that replace it wait for the handler, not the reverse.   *)
StopInv ==
    /\ StopIsKept
    /\ frames # <<>> => configuration.handle_signals
    /\ pc[Main] = "restore" => configuration.handle_signals
    /\ stopping /\ pc[Main] \in Resetting => op = "Destruct"

LEMMA InitStop == Init => StopInv
  BY DEF Init, InitControl, StopInv, StopIsKept

(* Steps that change neither the flags nor the configuration.               *)
LEMMA MoveStop ==
    ASSUME StopInv, UNCHANGED <<controlVars, callVars, stopping>>,
           frames' # <<>> => frames # <<>>,
           pc'[Main] = pc[Main] \/ pc'[Main] \in Between \cup {"exit", "ended", "killed"}
    PROVE  StopInv'
  BY DEF StopInv, StopIsKept, IsRunning, Resetting, Between, StreamPc, controlVars, callVars

(* Stop clears running, and then sets stop_requested.                       *)
LEMMA StopStops ==
    ASSUME TypeInv, StopInv, NEW t \in Thread, ClearRunning(t) \/ RequestStop(t)
    PROVE  StopInv'
<1> USE DEF StopInv, StopIsKept, IsRunning, Goto, callVars, signalVars, Resetting,
            TypeInv, TypeOK, ControlTypeOK
<1>1. CASE ClearRunning(t)
  BY <1>1 DEF ClearRunning
<1>2. CASE RequestStop(t)
  BY <1>2 DEF RequestStop
<1> QED
  BY <1>1, <1>2

LEMMA StreamStop ==
    ASSUME TypeInv, StopInv, NEW t \in Thread, StreamStep(t) \/ Woken(t) \/ TimesOut(t)
    PROVE  StopInv'
<1>1. \/ ClearRunning(t) \/ RequestStop(t)
      \/ /\ UNCHANGED <<controlVars, callVars, signalVars, stopping>>
         /\ \E x \in Between : pc' = [pc EXCEPT ![t] = x]
  BY DEF StreamStep, TestLoop, TestWait, CallWait, Stopped, StopsAll, TestFinal, Work, Woken,
     TimesOut, Stream, Goto, Between, StreamPc
<1>2. CASE ClearRunning(t) \/ RequestStop(t)
  BY <1>2, StopStops
<1>3. CASE /\ UNCHANGED <<controlVars, callVars, signalVars, stopping>>
           /\ \E x \in Between : pc' = [pc EXCEPT ![t] = x]
  <2>1. pc'[Main] = pc[Main] \/ pc'[Main] \in Between
    BY <1>3 DEF TypeInv, TypeOK, ControlTypeOK
  <2> QED
    BY <1>3, <2>1, MoveStop DEF signalVars
<1> QED
  BY <1>1, <1>2, <1>3

(* The calls of the control reset the flags only where a stop is overruled. *)
LEMMA ControlStop ==
    ASSUME TypeInv, StopInv, Control
    PROVE  StopInv'
<1> USE DEF StopInv, StopIsKept, IsRunning, Resetting, At, Goto, Free, Returns, InstallIfHandling,
            controlVars, callVars, signalVars, TypeInv, TypeOK, ControlTypeOK, CallInv
<1>1. CASE RestoreEnds
  BY <1>1 DEF RestoreEnds
<1>2. CASE Configure
  BY <1>2 DEF Configure
<1>3. CASE SetRunning
  BY <1>3 DEF SetRunning
<1>4. CASE ClearStop
  BY <1>4 DEF ClearStop
<1>5. CASE ClearPrevious
  BY <1>5 DEF ClearPrevious
<1>6. CASE InstallEnds
  BY <1>6 DEF InstallEnds
<1>7. CASE \E s \in Signal : RestoreOne(s)
  BY <1>7 DEF RestoreOne
<1>8. CASE \E s \in Signal : InstallOne(s)
  BY <1>8 DEF InstallOne
<1>9. CASE \E s \in Signal : RecordPrevious(s)
  BY <1>9 DEF RecordPrevious
<1>10. CASE Exit
  BY <1>10 DEF Exit
<1> QED
  BY <1>1, <1>2, <1>3, <1>4, <1>5, <1>6, <1>7, <1>8, <1>9, <1>10 DEF Control, ControlStep

(* A signal that goes to SignalHandler is one the configuration handles.    *)
LEMMA HandledIsConfigured ==
    ASSUME TypeInv, DispInv, StopInv, Alive, NEW s \in Signal, disposition[s] = "SignalHandler"
    PROVE  configuration.handle_signals
<1>1. application[s] # "SignalHandler"
  BY DEF TypeInv, TypeOK, ControlTypeOK, Applications
<1>2. CASE op \in {"None", "Reset"}
  BY <1>1, <1>2 DEF DispInv, Settled, Serves, Untouched
<1>3. CASE pc[Main] = "restore"
  BY <1>3 DEF StopInv
<1>4. CASE /\ op \notin {"None", "Reset"}
           /\ pc[Main] \in {"configure", "set_running", "clear_stop", "exit"}
  BY <1>1, <1>4 DEF DispInv, Restored, Untouched
<1>5. CASE pc[Main] \in {"clear_previous", "sigaction", "record"}
  BY <1>5 DEF DispInv, Installing
<1>6. \/ op \in {"None", "Reset"}
      \/ pc[Main] \in {"restore", "configure", "set_running", "clear_stop", "exit",
                       "clear_previous", "sigaction", "record"}
  BY MainAssumption DEF Alive, TypeInv, TypeOK, ControlTypeOK, CallInv, Pc, ControlPc, Resetting, Between
<1> QED
  BY <1>2, <1>3, <1>4, <1>5, <1>6

LEMMA SignalStop ==
    ASSUME TypeInv, DispInv, StopInv, Handler \/ Delivery \/ \E s \in Signal : Send(s)
    PROVE  StopInv'
<1>1. CASE Handler
  <2>1. CASE HandlerStops
    BY <2>1 DEF HandlerStops, HandlerAt, HandlerGoto, StopInv, StopIsKept, IsRunning, Resetting,
       callVars, TypeInv, CallInv, Between, StreamPc
  <2>2. CASE HandlerGetsInstance \/ HandlerChains \/ ChainedReturns
    BY <2>2, MoveStop DEF HandlerGetsInstance, HandlerChains, ChainedReturns, HandlerAt
  <2> QED
    BY <1>1, <2>1, <2>2 DEF Handler, HandlerStep
<1>2. CASE Delivery
  <2> PICK s \in Signal : Deliver(s)
    BY <1>2 DEF Delivery
  <2>1. UNCHANGED <<controlVars, callVars, stopping>>
    BY DEF Deliver, IgnoreSignal, KilledBySignal, ApplicationHandles, HandlerBegins
  <2>2. pc'[Main] = pc[Main] \/ pc'[Main] \in {"killed", "interrupted"}
    BY DEF Deliver, IgnoreSignal, KilledBySignal, ApplicationHandles, HandlerBegins,
       InterruptsWait, TypeInv, TypeOK, ControlTypeOK
  <2>3. CASE HandlerBegins(s)
    <3>1. configuration.handle_signals
      BY <2>3, HandledIsConfigured DEF HandlerBegins, Deliverable
    <3> QED
      BY <2>1, <2>2, <3>1 DEF StopInv, StopIsKept, IsRunning, Resetting, controlVars, callVars
  <2>4. CASE IgnoreSignal(s) \/ KilledBySignal(s) \/ ApplicationHandles(s)
    <3>1. frames' # <<>> => frames # <<>>
      BY <2>4 DEF IgnoreSignal, KilledBySignal, ApplicationHandles
    <3> QED
      BY <2>1, <2>2, <3>1, MoveStop DEF Between, StreamPc
  <2> QED
    BY <2>3, <2>4 DEF Deliver
<1>3. CASE \E s \in Signal : Send(s)
  BY <1>3, MoveStop DEF Send, SendSignal
<1> QED
  BY <1>1, <1>2, <1>3

(* A call is made where no handler runs: what it resets is not reset under  *)
(* one.                                                                     *)
LEMMA CallStop ==
    ASSUME TypeInv, StopInv, pc[Main] = "outside", frames = <<>>,
           \/ Reset
           \/ \E c \in Configuration : ReconfigureAndReset(c)
           \/ Destruct
    PROVE  StopInv'
<1> USE DEF StopInv, StopIsKept, IsRunning, Resetting, Calls, Goto, controlVars, signalVars,
            TypeInv, TypeOK, ControlTypeOK, RestoresFirst
<1>1. CASE Reset
  BY <1>1 DEF Reset
<1>2. CASE \E c \in Configuration : ReconfigureAndReset(c)
  BY <1>2 DEF ReconfigureAndReset
<1>3. CASE Destruct
  BY <1>3 DEF Destruct
<1> QED
  BY <1>1, <1>2, <1>3

LEMMA BeginStop ==
    ASSUME TypeInv, StopInv, NEW t \in Thread, BeginStream(t)
    PROVE  StopInv'
<1>1. pc'[Main] = pc[Main] \/ pc'[Main] \in Between
  BY DEF BeginStream, Stream, Goto, Between, StreamPc, TypeInv, TypeOK, ControlTypeOK
<1> QED
  BY <1>1, MoveStop DEF BeginStream, Stream, signalVars

LEMMA ProgramStop ==
    ASSUME TypeInv, StopInv, Application \/ CameraConsumer \/ InterruptedConsumer
    PROVE  StopInv'
<1>1. HandleSignals \in Configuration
  BY DEF HandleSignals, Configuration
<1>2. CASE Application
  <2>1. CASE /\ pc[Main] = "outside" /\ Free(Main)
             /\ Reset \/ (\E c \in Configurations : ReconfigureAndReset(c)) \/ Destruct
    BY <2>1, CallStop DEF Free
  <2>2. CASE \E s \in Signal, d \in Applications : SetDisposition(s, d)
    BY <2>2, MoveStop DEF SetDisposition
  <2>3. CASE \E t \in Thread : ClearRunning(t)
    BY <2>3, StopStops
  <2>4. CASE \E t \in Thread : BeginStream(t)
    BY <2>4, BeginStop
  <2> QED
    BY <1>2, <2>1, <2>2, <2>3, <2>4 DEF Application
<1>3. CASE CameraConsumer
  <2>1. CASE /\ At(Main, "outside")
             /\ Reset \/ ReconfigureAndReset(HandleSignals) \/ Destruct
    BY <1>1, <2>1, CallStop DEF At, Free
  <2>2. CASE BeginStream(Main)
    BY <2>2, BeginStop
  <2>3. CASE UNCHANGED <<controlVars, callVars, signalVars, pc, stopping, program>>
    BY <2>3, MoveStop DEF signalVars
  <2> QED
    BY <1>3, <2>1, <2>2, <2>3 DEF CameraConsumer, MainAt
<1>4. CASE InterruptedConsumer
  <2>1. CASE At(Main, "outside") /\ (ReconfigureAndReset(HandleSignals) \/ Destruct)
    BY <1>1, <2>1, CallStop DEF At, Free
  <2>2. CASE BeginStream(Main)
    BY <2>2, BeginStop
  <2> QED
    BY <1>4, <2>1, <2>2 DEF InterruptedConsumer, MainAt
<1> QED
  BY <1>2, <1>3, <1>4

LEMMA StopInvariant == Spec => []StopInv
<1>1. TypeInv /\ DispInv /\ StopInv /\ [Next]_vars => StopInv'
  <2> SUFFICES ASSUME TypeInv, DispInv, StopInv, [Next]_vars
               PROVE  StopInv'
    OBVIOUS
  <2>1. CASE UNCHANGED vars
    BY <2>1, MoveStop DEF vars, signalVars
  <2> QED
    BY <2>1, ControlStop, SignalStop, StreamStop, ProgramStop DEF Next
<1> QED
  BY <1>1, InitStop, TypesInvariant, DispInvariant, PTL DEF Spec

(* No store of a call undoes a stop that came after it, and no change of    *)
(* the configuration hides one (streaming_control.cc:20-48).                *)
THEOREM StopIsKeptTheorem == Spec => []StopIsKept
<1>1. StopInv => StopIsKept
  BY DEF StopInv
<1> QED
  BY <1>1, StopInvariant, PTL

LEMMA LoopSteps ==
    /\ LoopStepsLeft("wait") = 4
    /\ LoopStepsLeft("asleep") = 3
    /\ LoopStepsLeft("check") = 2 /\ LoopStepsLeft("work") = 2
    /\ LoopStepsLeft("loop") = 1 /\ LoopStepsLeft("final") = 1
    /\ LoopStepsLeft("interrupted") = 1
    /\ \A at \in {"outside", "request_stop", "ended", "killed"} : LoopStepsLeft(at) = 0
  BY DEF LoopStepsLeft

(* A step of a stopped loop.                                                *)
LEMMA StreamWindsDown ==
    ASSUME TypeInv, ~IsRunning, NEW u \in Thread, StreamStep(u) \/ Woken(u) \/ TimesOut(u),
           NEW t \in Thread, pc[t] \in StreamPc, pc'[t] # pc[t]
    PROVE  LoopStepsLeft(pc'[t]) < LoopStepsLeft(pc[t])
<1>1. ASSUME NEW x, pc' = [pc EXCEPT ![u] = x]
      PROVE  u = t /\ pc'[t] = x
  BY <1>1 DEF TypeInv, TypeOK, ControlTypeOK
<1>2. CASE TestLoop(u)
  BY <1>1, <1>2, LoopSteps DEF TestLoop, Stopped, Stream, At, Goto
<1>3. CASE TestWait(u)
  BY <1>1, <1>3, LoopSteps DEF TestWait, Stream, At, Goto
<1>4. CASE CallWait(u)
  BY <1>1, <1>4, LoopSteps DEF CallWait, StopsAll, ClearRunning, Stream, At, Goto
<1>5. CASE Stopped(u, "interrupted")
  BY <1>1, <1>5, LoopSteps DEF Stopped, Stream, At, Goto
<1>6. CASE TestFinal(u)
  BY <1>1, <1>6, LoopSteps DEF TestFinal, Stopped, Stream, At, Goto
<1>7. CASE Work(u)
  BY <1>1, <1>7, LoopSteps DEF Work, Stream, At, Goto
<1>8. CASE RequestStop(u)
  BY <1>1, <1>8 DEF RequestStop, At, Goto, StreamPc
<1>9. CASE Woken(u)
  BY <1>1, <1>9, LoopSteps DEF Woken, Stream, At, Goto
<1>10. CASE TimesOut(u)
  BY <1>1, <1>10, LoopSteps DEF TimesOut, StopsAll, ClearRunning, At, Goto
<1> QED
  BY <1>2, <1>3, <1>4, <1>5, <1>6, <1>7, <1>8, <1>9, <1>10 DEF StreamStep

(* Outside of its loops, only the end of the process and an interrupt move  *)
(* a thread that is in one.                                                 *)
LEMMA OthersWindDown ==
    ASSUME TypeInv, Control \/ Handler \/ Delivery \/ (\E s \in Signal : Send(s))
                        \/ Application \/ CameraConsumer \/ InterruptedConsumer,
           NEW t \in Thread, pc[t] \in StreamPc, pc'[t] # pc[t]
    PROVE  LoopStepsLeft(pc'[t]) < LoopStepsLeft(pc[t])
<1> USE DEF TypeInv, TypeOK, ControlTypeOK
<1>1. LoopStepsLeft(pc[t]) \in 1 .. 4
  BY LoopSteps DEF StreamPc
<1>2. CASE ControlStep
  <2>1. pc[Main] \notin StreamPc /\ \A u \in Thread : u # Main => pc'[u] = pc[u]
    BY <1>2 DEF ControlStep, RestoreEnds, Configure, SetRunning, ClearStop, ClearPrevious,
       InstallEnds, RestoreOne, InstallOne, RecordPrevious, At, Goto, Returns, InstallIfHandling,
       StreamPc
  <2> QED
    BY <2>1
<1>3. CASE Exit
  BY <1>1, <1>3, LoopSteps DEF Exit
<1>4. CASE Handler \/ \E s \in Signal : Send(s)
  BY <1>4 DEF Handler, HandlerStep, HandlerGetsInstance, HandlerStops, HandlerChains,
     ChainedReturns, Send, SendSignal
<1>5. CASE Delivery
  <2>1. \/ pc' = pc
        \/ pc' = [u \in Thread |-> "killed"]
        \/ pc[Main] = "asleep" /\ pc' = [pc EXCEPT ![Main] = "interrupted"]
    BY <1>5 DEF Delivery, Deliver, IgnoreSignal, KilledBySignal, ApplicationHandles,
       HandlerBegins, InterruptsWait
  <2> QED
    BY <1>1, <2>1, LoopSteps
<1>6. CASE Application \/ CameraConsumer \/ InterruptedConsumer
  <2>1. \/ pc' = pc
        \/ \E u \in Thread : pc[u] = "outside" /\ \E x : pc' = [pc EXCEPT ![u] = x]
    BY <1>6, MainAssumption DEF Application, CameraConsumer, InterruptedConsumer, MainAt, At, Goto, Reset,
       ReconfigureAndReset, Destruct, RestoresFirst, Calls, SetDisposition, ClearRunning,
       BeginStream, Stream
  <2> QED
    BY <2>1 DEF StreamPc
<1> QED
  BY <1>2, <1>3, <1>4, <1>5, <1>6 DEF Control

(* A stopped process ends its loops in a bounded number of their own steps, *)
(* and none of those begins a wait but for a thread that was about to       *)
(* (shared_memory_streaming_impl.h:90-93, 217-284).                         *)
THEOREM StoppedLoopsWindDownTheorem == Spec => StoppedLoopsWindDown
<1>1. TypeInv /\ StopInv /\ [Next]_vars =>
        [stopping /\ stopping' =>
          \A t \in Thread : pc[t] \in StreamPc /\ pc'[t] # pc[t] =>
              LoopStepsLeft(pc'[t]) < LoopStepsLeft(pc[t])]_vars
  <2> SUFFICES ASSUME TypeInv, StopInv, [Next]_vars, stopping,
                      NEW t \in Thread, pc[t] \in StreamPc, pc'[t] # pc[t]
               PROVE  LoopStepsLeft(pc'[t]) < LoopStepsLeft(pc[t])
    OBVIOUS
  <2>1. ~IsRunning
    BY DEF StopInv, StopIsKept
  <2>2. Next
    BY DEF vars
  <2>3. CASE \E u \in Thread : StreamStep(u) \/ Woken(u) \/ TimesOut(u)
    BY <2>1, <2>3, StreamWindsDown
  <2>4. CASE ~\E u \in Thread : StreamStep(u) \/ Woken(u) \/ TimesOut(u)
    BY <2>2, <2>4, OthersWindDown DEF Next
  <2> QED
    BY <2>3, <2>4
<1> QED
  BY <1>1, TypesInvariant, StopInvariant, PTL DEF Spec, StoppedLoopsWindDown

-----------------------------------------------------------------------------
(* Handlers.  What is saved of a signal is never SignalHandler itself, in   *)
(* the middle of a call either.                                             *)
PreviousInv == \A s \in Signal : previous_handlers[s] # "SignalHandler"

LEMMA PreviousInvariant == Spec => []PreviousInv
<1>1. Init => PreviousInv
  BY DEF Init, InitControl, PreviousInv
<1>2. TypeInv /\ DispInv /\ PreviousInv /\ [Next]_vars => PreviousInv'
  <2> SUFFICES ASSUME TypeInv, DispInv, PreviousInv, [Next]_vars
               PROVE  PreviousInv'
    OBVIOUS
  <2> USE DEF PreviousInv
  <2>1. CASE ClearPrevious
    BY <2>1 DEF ClearPrevious
  <2>2. CASE \E s \in Signal : RecordPrevious(s)
    <3> PICK s \in Signal : RecordPrevious(s)
      BY <2>2
    <3>1. saved[s] = application[s]
      BY DEF RecordPrevious, At, DispInv, InstallingOne, Nothing
    <3>2. saved[s] # "SignalHandler"
      BY <3>1 DEF TypeInv, TypeOK, ControlTypeOK, Applications
    <3> QED
      BY <3>2 DEF RecordPrevious, TypeInv, TypeOK, ControlTypeOK
  <2>3. CASE Next /\ ~ClearPrevious /\ ~\E s \in Signal : RecordPrevious(s)
    <3>1. UNCHANGED previous_handlers
      <4>1. CASE Control
        BY <2>3, <4>1 DEF Control, ControlStep, RestoreEnds, Configure, SetRunning, ClearStop,
           InstallEnds, RestoreOne, InstallOne, Exit, controlVars
      <4>2. CASE Handler \/ Delivery \/ \E s \in Signal : Send(s)
        BY <4>2 DEF Handler, HandlerStep, HandlerGetsInstance, HandlerStops, HandlerChains,
           ChainedReturns, Delivery, Deliver, IgnoreSignal, KilledBySignal, ApplicationHandles,
           HandlerBegins, Send, SendSignal, controlVars
      <4>3. CASE \E t \in Thread : StreamStep(t) \/ Woken(t) \/ TimesOut(t)
        BY <4>3 DEF StreamStep, TestLoop, TestWait, CallWait, Stopped, StopsAll, TestFinal, Work,
           RequestStop, Woken, TimesOut, ClearRunning, Stream, controlVars
      <4>4. CASE Application \/ CameraConsumer \/ InterruptedConsumer
        BY <4>4 DEF Application, CameraConsumer, InterruptedConsumer, Reset,
           ReconfigureAndReset, Destruct, RestoresFirst, Calls, SetDisposition, ClearRunning,
           BeginStream, Stream, controlVars
      <4> QED
        BY <2>3, <4>1, <4>2, <4>3, <4>4 DEF Next
    <3> QED
      BY <3>1
  <2>4. CASE UNCHANGED vars
    BY <2>4 DEF vars, controlVars
  <2> QED
    BY <2>1, <2>2, <2>3, <2>4
<1> QED
  BY <1>1, <1>2, TypesInvariant, DispInvariant, PTL DEF Spec

LEMMA HandlerSteps ==
    /\ HandlerStepsLeft("Instance") = 4
    /\ HandlerStepsLeft("stop") = 3
    /\ HandlerStepsLeft("chain") = 2
    /\ HandlerStepsLeft("Application") = 1
  BY DEF HandlerStepsLeft

(* Every handler returns after at most four steps of its own and one of the *)
(* application's, or for as many as the handlers that interrupt it take     *)
(* (streaming_control.cc:50-83).                                            *)
THEOREM HandlersWindDownTheorem == Spec => HandlersWindDown
<1> DEFINE WindsDown == \/ Len(frames') < Len(frames)
                        \/ /\ Len(frames') = Len(frames)
                           /\ HandlerStepsLeft(frames'[1].at) < HandlerStepsLeft(frames[1].at)
<1>1. TypeInv /\ PreviousInv /\ HandlerStep => WindsDown
  <2> SUFFICES ASSUME TypeInv, PreviousInv, HandlerStep
               PROVE  WindsDown
    OBVIOUS
  <2>1. frames \in Seq(Frame) /\ frames # <<>> /\ frames[1] \in Frame
    BY FrameStack DEF TypeInv, TypeOK, ControlTypeOK, HandlerStep, HandlerGetsInstance, HandlerStops,
       HandlerChains, ChainedReturns, HandlerAt
  <2>2. ASSUME HandlerReturns
        PROVE  Len(frames') < Len(frames)
    BY <2>1, <2>2 DEF HandlerReturns
  <2>3. ASSUME NEW at, HandlerGoto(at)
        PROVE  Len(frames') = Len(frames) /\ frames'[1].at = at
    <3>1. 1 \in DOMAIN frames
      BY <2>1
    <3>2. Len(frames') = Len(frames)
      BY <2>1, <2>3 DEF HandlerGoto
    <3> QED
      BY <2>1, <2>3, <3>1, <3>2 DEF HandlerGoto, Frame
  <2>4. CASE HandlerGetsInstance
    BY <2>3, <2>4, HandlerSteps DEF HandlerGetsInstance, HandlerAt
  <2>5. CASE HandlerStops
    BY <2>3, <2>5, HandlerSteps DEF HandlerStops, HandlerAt
  <2>6. CASE HandlerChains
    <3> DEFINE previous == previous_handlers[frames[1].signal]
    <3>1. previous \in {"None", "Default", "Ignore", "Application"}
      BY <2>1 DEF TypeInv, TypeOK, ControlTypeOK, PreviousInv, Disposition, Applications, Frame
    <3>2. CASE ~configuration.chain_handlers \/ previous \in {"None", "Default", "Ignore"}
      BY <2>2, <2>6, <3>2 DEF HandlerChains
    <3>3. CASE configuration.chain_handlers /\ previous = "Application"
      <4>1. HandlerGoto("Application")
        BY <2>6, <3>3 DEF HandlerChains
      <4> QED
        BY <2>3, <2>6, <4>1, HandlerSteps DEF HandlerChains, HandlerAt
    <3> QED
      BY <3>1, <3>2, <3>3
  <2>7. CASE ChainedReturns
    BY <2>2, <2>7 DEF ChainedReturns
  <2> QED
    BY <2>4, <2>5, <2>6, <2>7 DEF HandlerStep
<1>2. TypeInv /\ PreviousInv /\ [Next]_vars => [HandlerStep => WindsDown]_vars
  BY <1>1
<1> QED
  BY <1>2, TypesInvariant, PreviousInvariant, PTL DEF Spec, HandlersWindDown
=============================================================================
