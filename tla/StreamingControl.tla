-------------------------- MODULE StreamingControl --------------------------
(***************************************************************************)
(* The one StreamingControl of a process (streaming_control.h:23-120,       *)
(* streaming_control.cc): its flags, its configuration, the signal handlers *)
(* it installs, saves and restores, and the signals that interrupt it.      *)
(*                                                                          *)
(* Constructor, destructor, Reset and ReconfigureAndReset are called by the *)
(* main thread, Stop by any thread; each of their stores and system calls   *)
(* is a step.  Signals are handled on the main thread, as the kernel        *)
(* prefers, and interrupt it between any two steps.                         *)
(***************************************************************************)
EXTENDS Naturals, Sequences

CONSTANTS
    Thread,
    Main,
    Signal,
    Catchable,          \* the signals that sigaction accepts
    Configurations,     \* what the program passes to ReconfigureAndReset
    Defaults,           \* or to SetDefaultConfiguration, before the first use
    MaxSignals          \* bounds the signals sent to the process

Configuration ==
    [handle_signals : BOOLEAN, chain_handlers : BOOLEAN, signals : SUBSET Signal]

ASSUME MainAssumption == Main \in Thread
ASSUME CatchableAssumption == Catchable \subseteq Signal
ASSUME ConfigurationAssumption ==
    /\ Configurations \subseteq Configuration
    /\ Defaults \subseteq Configuration
ASSUME MaxSignalsAssumption == MaxSignals \in Nat

VARIABLES
    configuration,      \* configuration_
    previous_handlers,  \* previous_handlers_, "None" for a signal not in it
    running,            \* running_
    stop_requested,     \* stop_requested_
    disposition,        \* what the kernel does with each signal
    op,                 \* the call the main thread has made
    next_configuration, \* and the configuration it passed
    pc,                 \* where each thread is
    todo,               \* the signals left in a loop of that call
    saved,              \* what sigaction has returned and nobody recorded
    frames,             \* the SignalHandlers on the main thread, innermost first
    pending,            \* the signals not yet delivered
    sent,               \* counts the signals sent
    application,        \* history: what the application set for each signal
    stopping,           \* history: a stop no Reset has followed
    handled             \* history: a signal has been handled

controlVars == <<configuration, previous_handlers, running, stop_requested>>
callVars == <<op, next_configuration, todo, saved>>
signalVars == <<disposition, application, frames, pending, sent, handled>>

Applications == {"Default", "Ignore", "Application"}
Disposition == Applications \cup {"SignalHandler"}
Op == {"None", "Construct", "Destruct", "Reset", "ReconfigureAndReset"}
Frame == [signal : Signal, at : {"Instance", "stop", "chain", "Application"}]

(* Where a stop is overruled by the call in progress.                       *)
Resetting == {"restore", "configure", "set_running", "clear_stop"}

ControlPc == Resetting \cup {"clear_previous", "sigaction", "record", "request_stop"}
StreamPc == {"loop", "check", "wait", "asleep", "interrupted", "final", "work"}
Pc == ControlPc \cup StreamPc \cup {"outside", "exit", "ended", "killed"}
Alive == pc[Main] \notin {"ended", "killed"}

(* A thread proceeds by itself while no handler interrupts it.              *)
Free(t) == t = Main => frames = <<>>

At(t, from) == pc[t] = from /\ Free(t)
Goto(t, to) == pc' = [pc EXCEPT ![t] = to]

IsRunning == running /\ (configuration.handle_signals => ~stop_requested)

(* The main thread makes a call.                                            *)
Calls(o, from) ==
    /\ op' = o
    /\ Goto(Main, from)
    /\ UNCHANGED <<controlVars, saved, signalVars>>

(* It returns.                                                              *)
Returns ==
    /\ op' = "None"
    /\ Goto(Main, "outside")

(* Where ReconfigureAndReset and the destructor begin: in                   *)
(* RestoreSignalHandlers only if the old configuration handled signals.     *)

(* Mutant: it restores every signal configured, saved or not.               *)
RestoresConfigured(o, otherwise) ==
    /\ Calls(o, IF configuration.handle_signals THEN "restore" ELSE otherwise)
    /\ todo' = IF configuration.handle_signals THEN configuration.signals ELSE {}

RestoresFirst(o, otherwise) ==
    /\ Calls(o, IF configuration.handle_signals THEN "restore" ELSE otherwise)
    /\ todo' = {s \in Signal : configuration.handle_signals /\ previous_handlers[s] # "None"}

InitControl ==
    /\ configuration \in Defaults
    /\ previous_handlers = [s \in Signal |-> "None"]
    /\ running = FALSE
    /\ stop_requested = FALSE
    /\ application \in [Signal -> Applications]
    /\ \A s \in Signal \ Catchable : application[s] = "Default"
    /\ disposition = application
    /\ op = "Construct"
    /\ next_configuration = configuration
    /\ pc = [t \in Thread |-> IF t = Main THEN "set_running" ELSE "outside"]
    /\ todo = {}
    /\ saved = [s \in Signal |-> "None"]
    /\ frames = <<>>
    /\ pending = {}
    /\ sent = 0
    /\ stopping = FALSE
    /\ handled = FALSE

-----------------------------------------------------------------------------
(* RestoreSignalHandlers.                                                   *)
RestoreOne(s) ==
    /\ At(Main, "restore")
    /\ s \in todo
    /\ disposition' = [disposition EXCEPT ![s] = previous_handlers[s]]
    /\ todo' = todo \ {s}
    /\ UNCHANGED <<controlVars, op, next_configuration, pc, saved, application, frames, pending, sent,
                   stopping, handled>>

RestoreEnds ==
    /\ At(Main, "restore")
    /\ todo = {}
    /\ Goto(Main, IF op = "Destruct" THEN "exit" ELSE "configure")
    /\ UNCHANGED <<controlVars, callVars, signalVars, stopping>>

Configure ==
    /\ At(Main, "configure")
    /\ configuration' = next_configuration
    /\ Goto(Main, "set_running")
    /\ UNCHANGED <<previous_handlers, running, stop_requested, callVars, signalVars, stopping>>

(* InstallSignalHandlers, or the return.                                    *)
InstallIfHandling ==
    IF configuration.handle_signals
    THEN Goto(Main, "clear_previous") /\ UNCHANGED op
    ELSE Returns

SetRunning ==
    /\ At(Main, "set_running")
    /\ running' = TRUE
    /\ IF op = "Construct" THEN InstallIfHandling
       ELSE Goto(Main, "clear_stop") /\ UNCHANGED op
    /\ UNCHANGED <<configuration, previous_handlers, stop_requested, next_configuration, todo, saved,
                   signalVars, stopping>>

(* Mutant: Reset leaves the request of the signal handler, and of Stop.     *)
ClearStopNever ==
    /\ At(Main, "clear_stop")
    /\ IF op = "Reset" THEN Returns ELSE InstallIfHandling
    /\ UNCHANGED <<controlVars, next_configuration, todo, saved, signalVars, stopping>>

ClearStop ==
    /\ At(Main, "clear_stop")
    /\ stop_requested' = FALSE
    /\ IF op = "Reset" THEN Returns ELSE InstallIfHandling
    /\ UNCHANGED <<configuration, previous_handlers, running, next_configuration, todo, saved, signalVars,
                   stopping>>

(* Mutant: the handlers of an earlier configuration are kept.               *)
ClearPreviousNever ==
    /\ At(Main, "clear_previous")
    /\ todo' = configuration.signals
    /\ Goto(Main, "sigaction")
    /\ UNCHANGED <<controlVars, op, next_configuration, saved, signalVars, stopping>>

ClearPrevious ==
    /\ At(Main, "clear_previous")
    /\ previous_handlers' = [s \in Signal |-> "None"]
    /\ todo' = configuration.signals
    /\ Goto(Main, "sigaction")
    /\ UNCHANGED <<configuration, running, stop_requested, op, next_configuration, saved, signalVars, stopping>>

(* What an uncatchable signal fails is not saved.                           *)
InstallOne(s) ==
    /\ At(Main, "sigaction")
    /\ s \in todo
    /\ todo' = todo \ {s}
    /\ IF s \in Catchable
       THEN /\ saved' = [saved EXCEPT ![s] = disposition[s]]
            /\ disposition' = [disposition EXCEPT ![s] = "SignalHandler"]
            /\ Goto(Main, "record")
       ELSE UNCHANGED <<saved, disposition, pc>>
    /\ UNCHANGED <<controlVars, op, next_configuration, application, frames, pending, sent, stopping, handled>>

RecordPrevious(s) ==
    /\ At(Main, "record")
    /\ saved[s] # "None"
    /\ previous_handlers' = [previous_handlers EXCEPT ![s] = saved[s]]
    /\ saved' = [saved EXCEPT ![s] = "None"]
    /\ Goto(Main, "sigaction")
    /\ UNCHANGED <<configuration, running, stop_requested, op, next_configuration, todo, signalVars, stopping>>

(* Mutant: the flags are reset last, after the handlers are installed.      *)
InstallEndsWithReset ==
    /\ At(Main, "sigaction")
    /\ todo = {}
    /\ Returns
    /\ stop_requested' = FALSE
    /\ UNCHANGED <<configuration, previous_handlers, running, next_configuration, todo, saved, signalVars, stopping>>

InstallEnds ==
    /\ At(Main, "sigaction")
    /\ todo = {}
    /\ Returns
    /\ UNCHANGED <<controlVars, next_configuration, todo, saved, signalVars, stopping>>

ControlStep ==
    \/ RestoreEnds \/ Configure \/ SetRunning \/ ClearStop \/ ClearPrevious \/ InstallEnds
    \/ \E s \in Signal : RestoreOne(s) \/ InstallOne(s) \/ RecordPrevious(s)

(* Reset.                                                                   *)
Reset ==
    /\ Calls("Reset", "set_running")
    /\ stopping' = FALSE
    /\ UNCHANGED <<next_configuration, todo>>

(* ReconfigureAndReset, which first restores what an earlier configuration  *)
(* installed.                                                               *)

(* Mutant: it does not.                                                     *)
ReconfigureOnly(c) ==
    /\ Calls("ReconfigureAndReset", "configure")
    /\ next_configuration' = c
    /\ stopping' = FALSE
    /\ UNCHANGED todo

ReconfigureAndReset(c) ==
    /\ RestoresFirst("ReconfigureAndReset", "configure")
    /\ next_configuration' = c
    /\ stopping' = FALSE

(* main returns: the destructor runs, and then the process ends.            *)
Destruct ==
    /\ RestoresFirst("Destruct", "exit")
    /\ UNCHANGED <<next_configuration, stopping>>

Exit ==
    /\ At(Main, "exit")
    /\ pc' = [t \in Thread |-> "ended"]
    /\ UNCHANGED <<controlVars, callVars, signalVars, stopping>>

(* Stop, by any thread: its two stores.                                     *)
ClearRunning(t) ==
    /\ running' = FALSE
    /\ Goto(t, "request_stop")
    /\ stopping' = (stopping \/ pc[Main] \notin Resetting)
    /\ UNCHANGED <<configuration, previous_handlers, stop_requested, callVars, signalVars>>

RequestStop(t) ==
    /\ At(t, "request_stop")
    /\ stop_requested' = (stop_requested \/ configuration.handle_signals)
    /\ Goto(t, "outside")
    /\ UNCHANGED <<configuration, previous_handlers, running, callVars, signalVars, stopping>>

-----------------------------------------------------------------------------
(* Signals.                                                                 *)

SendSignal(s) ==
    /\ Alive
    /\ s \in Catchable
    /\ sent < MaxSignals
    /\ sent' = sent + 1
    /\ pending' = pending \cup {s}
    /\ UNCHANGED <<controlVars, callVars, pc, disposition, application, frames, stopping, handled>>

(* A signal is blocked while its own handler runs.                          *)
Deliverable(s) ==
    /\ Alive
    /\ s \in pending
    /\ \A i \in DOMAIN frames : frames[i].signal # s
    /\ pending' = pending \ {s}

(* A handler interrupts FUTEX_WAIT, which is not restarted.                 *)
InterruptsWait == pc' = [pc EXCEPT ![Main] = IF @ = "asleep" THEN "interrupted" ELSE @]

IgnoreSignal(s) ==
    /\ disposition[s] = "Ignore"
    /\ Deliverable(s)
    /\ UNCHANGED <<controlVars, callVars, pc, disposition, application, frames, sent, stopping,
                   handled>>

KilledBySignal(s) ==
    /\ disposition[s] = "Default"
    /\ Deliverable(s)
    /\ pc' = [t \in Thread |-> "killed"]
    /\ frames' = <<>>
    /\ UNCHANGED <<controlVars, callVars, disposition, application, sent, stopping, handled>>

ApplicationHandles(s) ==
    /\ disposition[s] = "Application"
    /\ Deliverable(s)
    /\ InterruptsWait
    /\ UNCHANGED <<controlVars, callVars, disposition, application, frames, sent, stopping, handled>>

HandlerBegins(s) ==
    /\ disposition[s] = "SignalHandler"
    /\ Deliverable(s)
    /\ InterruptsWait
    /\ frames' = <<[signal |-> s, at |-> "Instance"]>> \o frames
    /\ UNCHANGED <<controlVars, callVars, disposition, application, sent, stopping, handled>>

Deliver(s) ==
    IgnoreSignal(s) \/ KilledBySignal(s) \/ ApplicationHandles(s) \/ HandlerBegins(s)

(* SignalHandler, from step to step.                                        *)
HandlerAt(at) == frames # <<>> /\ frames[1].at = at
HandlerGoto(to) == frames' = [frames EXCEPT ![1].at = to]
HandlerReturns == frames' = Tail(frames)

(* Instance() waits for the constructor, and the interrupted main thread    *)
(* may be what runs it.                                                     *)

(* Mutant: it takes a lock that the calls hold.                             *)
HandlerTakesLock ==
    /\ HandlerAt("Instance")
    /\ op = "None"
    /\ HandlerGoto("stop")
    /\ UNCHANGED <<controlVars, callVars, pc, disposition, application, pending, sent, stopping,
                   handled>>

HandlerGetsInstance ==
    /\ HandlerAt("Instance")
    /\ op # "Construct"
    /\ HandlerGoto("stop")
    /\ UNCHANGED <<controlVars, callVars, pc, disposition, application, pending, sent, stopping,
                   handled>>

(* Mutant: the handler only chains.                                         *)
HandlerStopsNothing ==
    /\ HandlerAt("stop")
    /\ HandlerGoto("chain")
    /\ handled' = TRUE
    /\ stopping' = (stopping \/ pc[Main] \notin Resetting)
    /\ UNCHANGED <<controlVars, callVars, pc, disposition, application, pending, sent>>

HandlerStops ==
    /\ HandlerAt("stop")
    /\ stop_requested' = TRUE
    /\ HandlerGoto("chain")
    /\ handled' = TRUE
    /\ stopping' = (stopping \/ pc[Main] \notin Resetting)
    /\ UNCHANGED <<configuration, previous_handlers, running, callVars, pc, disposition,
                   application, pending, sent>>

(* Calling itself, the handler begins again and its caller never returns.   *)
HandlerChains ==
    /\ HandlerAt("chain")
    /\ LET previous == previous_handlers[frames[1].signal]
       IN IF ~configuration.chain_handlers \/ previous \in {"None", "Default", "Ignore"}
          THEN HandlerReturns
          ELSE HandlerGoto(IF previous = "Application" THEN "Application" ELSE "Instance")
    /\ UNCHANGED <<controlVars, callVars, pc, disposition, application, pending, sent, stopping,
                   handled>>

ChainedReturns ==
    /\ HandlerAt("Application")
    /\ HandlerReturns
    /\ UNCHANGED <<controlVars, callVars, pc, disposition, application, pending, sent, stopping,
                   handled>>

HandlerStep == HandlerGetsInstance \/ HandlerStops \/ HandlerChains \/ ChainedReturns

(* The application calls sigaction, only while nobody else handles signals. *)
SetDisposition(s, d) ==
    /\ pc[Main] = "outside" /\ Free(Main)
    /\ ~configuration.handle_signals
    /\ s \in Catchable
    /\ application' = [application EXCEPT ![s] = d]
    /\ disposition' = application'
    /\ UNCHANGED <<controlVars, callVars, pc, frames, pending, sent, stopping, handled>>

-----------------------------------------------------------------------------
ControlTypeOK ==
    /\ configuration \in Configuration
    /\ previous_handlers \in [Signal -> Disposition \cup {"None"}]
    /\ running \in BOOLEAN
    /\ stop_requested \in BOOLEAN
    /\ disposition \in [Signal -> Disposition]
    /\ op \in Op
    /\ next_configuration \in Configuration
    /\ pc \in [Thread -> Pc]
    /\ todo \subseteq Signal
    /\ saved \in [Signal -> Disposition \cup {"None"}]
    /\ frames \in Seq(Frame)
    /\ pending \subseteq Signal
    /\ sent \in 0 .. MaxSignals
    /\ application \in [Signal -> Applications]
    /\ stopping \in BOOLEAN
    /\ handled \in BOOLEAN

(* Between the calls of the StreamingControl, and after its destructor,     *)
(* exactly the signals it is to handle go to it, and every other one to     *)
(* what the application chose, through any sequence of configurations       *)
(* (streaming_control.cc:33-36, 50-69).                                     *)
Handled ==
    IF configuration.handle_signals /\ op # "Destruct"
    THEN configuration.signals \cap Catchable ELSE {}

DispositionsRestored ==
    (op = "None" \/ pc[Main] \in {"exit", "ended"}) =>
        \A s \in Signal :
            disposition[s] = IF s \in Handled THEN "SignalHandler" ELSE application[s]

(* Between those calls the handler that a handled signal is passed on to is *)
(* the application's, and never SignalHandler itself, which would not come  *)
(* back (streaming_control.cc:56-60, 74-81).                                *)
ChainReachesApplication ==
    op = "None" => \A s \in Handled : previous_handlers[s] = application[s]
=============================================================================
