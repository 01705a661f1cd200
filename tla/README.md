# Verification of samosa's shared-memory streaming

This directory holds TLA+ specifications of samosa's snapshot streaming
(`src/dex/infrastructure/shared_memory`), the TLC configurations that check
them on small instances, and TLAPS proofs of the main results for every value
of the constants. Paths below are relative to the repository's root; `impl.h`
stands for `shared_memory_streaming_impl.h` and `monitor_impl.h` for
`shared_memory_monitor_impl.h`.

    tlc -config Handshake.cfg BoundedWaiting       # one of the runs below
    tlc -config Lifecycle.cfg MCSegmentLifecycle   # one with an MC module
    tlapm StreamingProofs.tla                      # one of the proof modules

## 1. Inventory

| Component | State | Operations | Talks to the others by |
|---|---|---|---|
| Shared segment (`shared_memory_streaming.h:89-99`) | `write_index`, `read_index`, `last_written_buffer`, `sequence_and_writing`, a word per slot, two frames | `InitializeBuffer` | shared memory |
| `Producer` (`impl.h:85-179`) | frame count; locals of a frame | `Run`, `ProduceSingle` | stores frames, words and `write_index`; loads `read_index`; wakes sleepers |
| `Consumer` (`impl.h:190-287`) | locals of a call | `Run`, `ConsumeSingle` | stores `read_index`; loads `write_index` and sleeps on it |
| `Monitor` (`monitor_impl.h:53-294`) | last sequence number delivered; locals of a copy | `Run`, `ReadInto`, `GetLatestBuffer` | only loads; sleeps on `sequence_and_writing` |
| Futex (`futex.cc`) | kernel queues | `FutexWait`, `FutexWake` | queue per word |
| `StreamingControl` (`streaming_control.cc`) | running flag, signal flag, configuration, saved handlers | `IsRunning`, `Stop`, `Reset`, `ReconfigureAndReset`, signal handler | read by every loop of its process; the kernel's table of handlers |
| Segment lifecycle (`shared_memory_impl.h`) | name, descriptor, mapping, `initialized` | `Create`, `Open`, `Destroy`, destructor | the name in `/dev/shm` and the object's size |
| Python bindings, examples, benchmarks, tests, tools | - | call the above | - |

The protocol has two halves. *Dataflow*: one producer and one consumer own the
slots through two indices. The consumer stores in `read_index` the slot it wants
next; the producer writes to the slot that is not published and, if the consumer
asks for exactly that one, stores it in `write_index`. `Unavailable` in
`read_index` asks for a reset, `Unavailable` in `write_index` answers it.
*Observation*: a monitor copies the slot written last without taking part in
the handshake, and believes the copy only if the slot's word did not change.

What is hard: every access of one side interleaves with those of the others;
each process can die between any two accesses while the segment survives; waits
time out and are retried; stops arrive between two tests of the running flag;
wake-ups are separate from the stores they announce; a signal handler runs
between any two steps of the thread it interrupts; creating, opening and
destroying a segment are sequences of system calls that several processes run
over one name at once. `PROJECT.json` lists each
hazard at its line with the properties about it.

What makes each component correct:

- segment and producer: a slot's word names a completed frame only while the
  slot holds that frame; a slot is published only when it is whole and asked for;
- producer with consumer: no frame changes while it is read; frames are
  delivered once and in order; while both stay in `Run`, frames keep coming;
- monitor: an accepted copy is one whole frame; calls return; the number
  reported is the copy's; no frame is delivered twice;
- control: a stop is not lost; signals go to the handler while it is configured
  and back to the application afterwards; the handler always returns;
- lifecycle: whoever holds a valid object has an initialized segment of its own
  format; failed calls leave nothing behind; a usable segment can be opened.

## 2. Modules

| Module | Models | Lines of the code |
|---|---|---|
| `SharedMemoryBuffer` | the segment, the packed words, the futex queues; constant `SequenceModulus` | `shared_memory_streaming.h:25-99`, `shared_memory_impl.h:24-50`, `futex.cc` |
| `Producer` | the producer process and `InitializeBuffer`; constant `RestartInitializes` | `impl.h:48-179` |
| `Consumer` | the consumer process; constants `ConsumerCalls`, `RetriesUnserved` | `impl.h:190-287` |
| `Monitor` | a monitor thread; constants `ReadModes`, `MaxValidationAttempts` | `monitor_impl.h` |
| `Streaming` | producer, consumer and segment together, with their properties | |
| `BoundedWaiting` | `Streaming` with a count of the frames that end while the consumer waits | `impl.h:217-225, 263-274` |
| `Monitoring` | producer, monitor and a consumer that asks for anything; constant `ReadRequests` | |
| `SnapshotHandoff` | what the dataflow promises, without indices | `README.md:7-11` |
| `AtomicSnapshot` | what observing promises, without words or validation | `shared_memory/README.md:275-277` |
| `SegmentLifecycle` | the constructor of `SharedMemory`, `Destroy`, the destructor, and the programs that call them; constants `Process`, `Object`, `Build`, `Size`, `Version` | `shared_memory_impl.h:81-220`, `shared_memory.h:77-143`, `main` of the examples, `_bindings.cc:199-211` |
| `StreamingControl` | the control of one process, its signal handlers and the signals; constants `Thread`, `Signal`, `Catchable`, `Configurations`, `Defaults`, `MaxSignals` | `streaming_control.cc`, `streaming_control.h` |
| `ControlledProcess` | threads that stream under that control, and three programs around them; constant `Programs` | `impl.h:90-93, 190-287`, `camera_consumer.cc:24-71`, `_bindings.cc:32-39` |
| `MCSegmentLifecycle`, `MCControlledProcess` | values of the constants, view and symmetry for TLC | |
| `SequenceWord` | packed words and the frame count as numbers, with the proofs that records and a shorter count stand for them | `shared_memory_streaming.h:50-62`, `impl.h:95-108` |
| `ProducerProofs` | facts shared by the proofs: constants, sequence numbers, types of the producer | |
| `StreamingProofs` | proofs about `Streaming` | |
| `BoundedWaitingProofs` | proofs about `BoundedWaiting` | |
| `MonitoringProofs` | proofs about `Monitoring` | |
| `SegmentLifecycleProofs` | proofs about `SegmentLifecycle` | |
| `ControlledProcessProofs` | proofs about `ControlledProcess` | |

`Producer`, `Consumer` and `Monitor` extend `SharedMemoryBuffer` and act on its
variables; `Streaming` and `Monitoring` extend two of them and interleave their
steps. `ControlledProcess` extends `StreamingControl` in the same way.
`SegmentLifecycle` stands alone: what a segment holds matters to it only through
the version field.

**Atomicity.** Each atomic load or store of the segment and each system call is
one action, and a program counter (`p_pc`, `c_pc`, `m_pc`) says which comes
next. A step on locals is merged into the access before it. Two loops are one
action each: the stores of the two slot words in `InitializeBuffer`, and its
`memset` of the frames. The callbacks that
write and read frames, and the monitor's copy, take two actions, at the first
and the last byte, so every overlap of two of them is a state. `FUTEX_WAIT` is
compare-and-sleep in one action, as the kernel guarantees; it returns at once if
the value differs, when it is woken, on a time-out, a signal or an error.

**Processes.** A process starts, calls, returns, is stopped and dies whenever it
likes. Death keeps the segment and loses locals, the frame count, and the place
in a queue. `Stop` happens at any time, `Reset` between calls of the process
that owns the flag, as in all callers in the repository.

**Data.** A slot holds the sequence number of the frame last begun in it and
whether that is complete; payloads are nothing else to the protocol. Sequence
numbers are modulo `SequenceModulus`, 2^31 in the code, and so is the frame
count, which in the code wraps at 2^32; a packed word is a record. `SequenceWord`
proves both to be the same as the code's arithmetic. A monitor's deadline is
a choice: at each point where the code compares the clock, or a timed wait
ends, time may be over. `max_iterations` is likewise a choice to end after a
delivery.

**History variables.** `unseen` and `newest` (which slots hold frames newer than
all consumed), `reading` (the frame a callback found), `snapshot` (what a copy
holds), `reused`, and in `BoundedWaiting` `frames_waited` feed properties and no
guard.

**Uses of the library.** The segment's protocol does not protect against every
use, so the use is a parameter. `RestartInitializes`: a starting producer runs
`Create(..., InitializeBuffer)` on the live segment, as the sample producers do,
or opens it. `ConsumerCalls`: `Run`, `ConsumeSingle` or both. `RetriesUnserved`:
the application calls again although its first request was never answered, or
does not. `HandshakeRespected` names the use under which the handshake is safe:
`Run` only, no such retry, no re-initialization under a consumer. `OnlyRuns` is
the same with the retry, and `OvertakesPublication` the one step by which the
retry does harm.

### The lifecycle

Each process runs one program after another: the four modes of
`shared_memory_streaming_example.cc`, `camera_producer`, and a Python program,
which makes any call of the bindings at any time. Each has a build, which fixes
the size and the version it expects. `call` and `pc` say which constructor call
is under way and at which system call it is; `fd` and `mapping` are
`state_.file_descriptor` and `state_.buffer` of that call; `held` is the set of
objects whose `initialized` is true. The error path of `Create` closes and
unmaps in one action and unlinks the name in the next, since another process can
act in between. Any system call may fail, any process may end at any step, and
the name survives.

The contents of a segment are its version field. A new object is zeroed, and
zero is what `InitializeBuffer` stores in every other field; its stores one by
one, under a running consumer or monitor, are in `Producer`.

Two history variables serve the properties: `creators` (the builds that ever
opened an object to create it) and `steady` (a segment this process can use has
had the name since its `Open` began).

### The control and its process

`StreamingControl` has one action per store and per `sigaction`, so a signal or
another thread's `Stop` falls between any two. `frames` is the stack of handlers
on the main thread; while it is not empty the main thread stands still. A signal
is blocked while its own handler runs, other signals nest. A delivered signal
does what `disposition` says: nothing, death, the application's handler (which
does nothing but interrupt a wait), or `SignalHandler`, step by step, with the
chained call at its end.

What is abstracted: `IsRunning` is one read of both flags; assigning the map of
saved handlers or the configuration is one step; the signals of a configuration
are a set (the same signal twice in the vector would make the handler save
itself). Signals are handled on the main thread, as the kernel prefers, so the
handler never runs against another thread's `ReconfigureAndReset`. Only the main
thread resets, reconfigures and destroys, as in every program of the repository;
any thread may stop. The application changes a disposition only while the
control handles no signals.

`ControlledProcess` keeps of `Producer::Run`, `Consumer::Run` and `ConsumeSingle`
the tests of `IsRunning`, the waits and the calls of `Stop`. Whether the frame is
there, whether a wait times out or fails, and whether the loop produces or
consumes are choices at each step. The two waiting loops, of the handshake
(`impl.h:217`) and of a frame (263), are one. The programs are `application` (any
use of the control and of streams, in any thread), `camera_consumer` (the sample,
with its loop over time-outs) and `interrupted_consumer` (the child of the test
`ConsumerInterrupted`). `stopping` records a stop that no reset has followed; a
stop between the first and the last store of `Reset` or `ReconfigureAndReset`
(pc in `Resetting`) is overruled by it and not recorded.

## 3. Runs

| Run | Module | Expect | Question |
|---|---|---|---|
| `Handshake` | `BoundedWaiting` | pass | Under `HandshakeRespected`, is every frame delivered whole, once, in order, does the stream resume after any crash, and how long does a consumer wait? |
| `AnyUse` | `BoundedWaiting` | pass | What holds for every use: no callback on a slot nobody asked for, no endless first handshake, and one that the second frame answers |
| `MonitorSnapshots` | `Monitoring` | pass | Is an accepted copy always one whole frame, taken in one moment, and when can its number be another's? |
| `MonitorCalls` | `Monitoring` | pass | Do reads return and does a stop end `Run`, with a producer that may be dead, and in how many steps? |
| `Lifecycle` | `MCSegmentLifecycle` | pass | Is whoever holds a valid object on an initialized segment of its format, is nothing leaked, and is a usable segment always opened, whatever processes create, destroy, fail and die around it? |
| `Control` | `MCControlledProcess` | pass | Do signals go where they should between calls, is a stop kept, does it end every loop of the process and in how many steps, does the sample consumer end only for a signal or an error, do handlers return? |
| `RunRetryTears` | `Streaming` | violation of `NeverTorn` | Is the frame still whole when `Run` is retried? |
| `SingleRetryStarves` | `Streaming` | violation of `ConsumeSingleReturns` | Is a retried `ConsumeSingle` served? |
| `InitializeStarves` | `Streaming` | violation of `StreamKeepsFlowing` | Does the stream resume after a producer re-created the segment? |
| `MonitorSequence` | `Monitoring` | violation of `SequenceMatches` | Is the reported number the copy's? |
| `MonitorDuplicates` | `Monitoring` | violation of `NoDuplicateDelivery` | Is a delivered frame rejected? |
| `SignalMissesWait` | `MCControlledProcess` | violation of `HandledSignalEndsConsumer` | Does a consumer without frames end when its signal is handled? |

What the two runs of the surroundings show beyond their invariants: a `Create`
that fails unlinks a live segment, and the model contains it, but those attached
keep a good one; a producer that starts again and re-creates the segment does
not make a concurrent `Open` fail (`AvailableIsOpened`), because `shm_open`
neither excludes nor truncates and the size and version stay the same; and
`Reset` after a time-out must clear both flags, or the sample consumer would end
by itself (`OnlySignalsEndIt`).

Each liveness property has a safety property beside it that bounds what the
liveness property only promises, and that needs no fairness: `AnsweredInTime`
(two frames of the producer answer any wait), `CallsWindDown` (a `ReadInto`, or
a stopped `Run` of a monitor, has at most `2 + 8 * MaxValidationAttempts` steps
left and each step leaves fewer), `StoppedLoopsWindDown` (a stopped loop has at
most four steps, with no wait but the one it was about to enter), `HandlersWindDown` (so has a signal
handler) and `StopIsKept` (a stop that comes after the stores of a reset is
seen by every later test of `IsRunning` until the next reset).

### What the violations show

1. **`RunRetryTears`.** A first request is abandoned (time-out, or the consumer
   dies) while a producer has just compared it with its slot. `Run` is called
   again, as `camera_consumer.cc:40-61` does: it asks for a reset and takes the
   `write_index` that is still `Unavailable` for the answer. The late
   publication of `BufferA` arrives, the producer's next frame, which read the
   reset request, goes to `BufferA`, and the consumer, which asks for `BufferA`
   and finds it published, reads it meanwhile.
2. **`SingleRetryStarves`.** The first `ConsumeSingle` asks for `BufferA` and
   gives up; the second asks for `BufferB`. With `write_index` still
   `Unavailable` the producer writes `BufferA` for ever and never publishes.
3. **`InitializeStarves`.** A restarted producer zeroes `read_index` under a
   consumer that stored its request once and now waits. The producer answers
   resets, the consumer waits for a frame.
4. **`MonitorSequence`.** After validation the slot's word is loaded once more
   (`monitor_impl.h:200`), when the next write may have begun.
5. **`MonitorDuplicates`.** A monitor sent by frame n copies n+1, whose slot is
   finished before the global word is stored; it then takes the word that still
   says n for news and delivers n+1 again. The test at `monitor_impl.h:204`
   compares with a number no caller passes.
6. **`SignalMissesWait`.** The consumer finds `IsRunning` true and is about to
   call `FUTEX_WAIT` when the signal is handled. The flag is set, there is no
   sleep to interrupt, and the wait that follows ends only with the next frame.
   The test behind the expectation sends the signal as soon as the request is
   stored, which is before the test of `IsRunning`. With a time-out the wait
   ends, but a caller that resets and retries, as the sample consumer does,
   then forgets the signal.

### Bounds

- `SequenceModulus = 1` in the `Streaming` runs: no guard of producer or consumer
  reads a sequence number, and a torn frame shows in `complete`, which is false
  from the first byte to the last. `RunRetryTears` uses 2 to show the numbers.
- `SequenceModulus = 2 .. 4` in the `Monitoring` runs: 3 gives two valid numbers
  besides the reserved 0, so a slot can be overwritten under another number and,
  after a wrap or restart, under the same one (`reused`). 2 is enough for the
  liveness run, where only the success of comparisons matters.
- `MaxValidationAttempts = 2` in the passing runs (8 in the code): a first
  attempt, a retry, and giving up all occur. Attempts share no state but their
  counter.
- One producer, one consumer, one monitor. The code allows exactly one of each
  of the first two (`shared_memory/README.md:18`). Monitors change nothing but
  their own place in a queue, and the producer wakes all of them, so one stands
  for any number.
- `MonitorSnapshots` checks mode `Opportunistic` only, the mode that copies most
  boldly; the others do the same copy after more waiting, and are in
  `MonitorCalls` with the same invariant. `ReadRequests = {1}` lets the producer
  be steered to either slot.
- In `Monitoring` the producer is called frame by frame (`CallProduceSingle`):
  what `Run` adds is only whether the next frame comes, and the model may stop
  after any.

- `Lifecycle`: two processes, two objects, two builds that differ in size and
  version. Two processes suffice for every pair of overlapping calls; with two
  objects one can be unlinked and still be held while the other has the name.
  The view leaves out the attributes of objects nobody refers to: they are
  overwritten before anyone reads them. Processes and objects are symmetric.
  The proofs cover any number of each.
- `Control`: two threads, `INT` and the uncatchable `KILL`, `MaxSignals = 2`:
  one signal to be handled and one more while its handler runs, after a reset,
  or in another window. Three configurations: not handling, handling, and
  handling only what cannot be caught, without chaining. Handlers of two
  different signals nested in each other are in `SignalMissesWait`'s constants
  and in the proofs only; with two threads they cost millions of states.

### Fairness

`FairSpec` of `Streaming` has weak fairness of `ProducerWork` and of
`ConsumerWork`, what a thread does by itself inside a call: the scheduler runs
both threads and callbacks return. `FairSpec` of `Monitoring` has weak fairness
of the monitor's own steps alone, with the end of its timed waits, since the
kernel ends them; nothing is asked of the producer. Never fair: starting,
calling, stopping, resetting, crashing, time-outs of the consumer (its default
is none), failures of system calls. The liveness properties therefore have the
form "if both sides stay inside `Run` from some time on, then ...".

`FairSpec` of `ControlledProcess` has weak fairness of what each thread does by
itself: the calls of the control, the handler, the steps of the loops, the main
function of the interrupted consumer; callbacks and chained handlers return.
`FedSpec` adds that a sleeping thread is woken again and again, which is what a
live producer does. Signals, stops, calls and time-outs are never fair.
`StopEndsEveryLoop` needs `FedSpec`; `SignalMissesWait` shows what `FairSpec`
alone does not give.

## 4. Proofs

All are theorems about `Spec`, for every `SequenceModulus`, bound, read mode and
environment that the constants' assumptions allow.

| Theorem | Says | Assumes |
|---|---|---|
| `TypeCorrect` | `[]TypeOK` | - |
| `ConsumedSlotIsAwaited` | `[]ConsumesAwaitedSlot` | - |
| `HandshakeHolds` | `[]HandshakeInv` | `HandshakeRespected` |
| `AgreementHolds` | `[]AgreementInv` | `OnlyRuns`, nothing overtakes |
| `OnlyOvertakingTears` | `[]NeverTorn` | `OnlyRuns`, nothing overtakes |
| `OnlyOvertakingWrites` | `HandedOverSlotIsFrozen` | `OnlyRuns`, nothing overtakes |
| `OnlyOvertakingRepeats` | `FreshDelivery` | `OnlyRuns`, nothing overtakes |
| `OnlyOvertakingBreaksHandoff` | `ImplementsHandoff` | `OnlyRuns`, nothing overtakes |
| `NoTornFrame` | `[]NeverTorn` | `HandshakeRespected` |
| `HandedOverStaysFrozen` | `HandedOverSlotIsFrozen` | `HandshakeRespected` |
| `DeliveryIsFresh` | `FreshDelivery` | `HandshakeRespected` |
| `StreamingImplementsHandoff` | `ImplementsHandoff` | `HandshakeRespected` |
| `CountingIsStreaming` | `CountedSpec` implies `Spec` of `Streaming` | - |
| `WaitIsBounded` | `[]AnsweredInTime` | - |
| `MonitoringTypeCorrect` | `[]MonitoringTypeOK` | - |
| `ValidationHolds` | `[]ValidationInv` | - |
| `AcceptedSnapshotsAreWhole` | `[]AcceptedIsWhole` | - |
| `MonitoringImplementsAtomicReads` | `ReadsAreAtomic` | - |
| `WrongNumberMeansOverwrittenTheorem` | `[]WrongNumberMeansOverwritten` | - |
| `CallsWindDownTheorem` | `CallsWindDown` | - |
| `SegmentLifecycleProofs!TypeCorrect` | `[]TypeOK` | - |
| `NothingLeaksTheorem` | `[]NothingLeaks` | - |
| `AttachedIsInitializedTheorem` | `[]AttachedIsInitialized` | - |
| `AvailableIsOpenedTheorem` | `[]AvailableIsOpened` | - |
| `ControlledProcessProofs!TypeCorrect` | `[]TypeOK` | - |
| `DispositionsRestoredTheorem` | `[]DispositionsRestored` | - |
| `ChainReachesApplicationTheorem` | `[]ChainReachesApplication` | - |
| `OnlySignalsEndItTheorem` | `[]OnlySignalsEndIt` | - |
| `StopIsKeptTheorem` | `[]StopIsKept` | - |
| `StoppedLoopsWindDownTheorem` | `StoppedLoopsWindDown` | - |
| `HandlersWindDownTheorem` | `HandlersWindDown` | - |
| `WordIsRecord`, `WordsCompareAsRecords` | a packed word and its record determine each other | - |
| `FrameCountWraps` | the masked frame count goes round modulo `SequenceModulus` | - |

These are for all processes, objects, builds, threads, signals and
configurations that the assumptions on the constants admit; rows that name no
module and precede the lifecycle's are of `Streaming`, `BoundedWaiting` and
`Monitoring`. "Nothing overtakes" stands for `[][~OvertakesPublication]_vars`.

**The handshake.** `NeverTorn` is not inductive: it says nothing of a producer
that is about to write. `HandshakeInv` adds what each side knows at each step.
The producer alone writes `write_index`, so what it loaded is current
(`LoadedIsCurrent`), and the slot it chose is the other one, or `BufferA` for a
reset (`TargetIsChosen`); a slot that is both asked for and published is whole
and is not the producer's target (`OwnedByConsumer`); between a reset request
and its answer nothing is published (`ResetIsQuiet`) - the part that a retried
first request breaks; what is published and waited for has not been consumed
(`PublishedIsUnseen`); and the consumer's locals agree with the indices
(`ConsumerKnows`). All but the last conjunct, `CallsWhenServed`, is `AgreementInv`. Each action of
either side preserves it, one case per action. The other theorems of the dataflow follow step by step, the refinement by
mapping "on offer" to `read_index = write_index`.

**What a retried `Run` leaves true.** `AgreementInv` needs of the application
only that it uses `Run`; of all steps only one can break it, a reset request
that is stored when the producer has compared the old one and is about to
publish the first frame for it (`OvertakesPublication`). The theorems on
"overtaking" say that without that step everything holds which
`HandshakeRespected` gives, through any number of retries, time-outs and crashes:
the one interleaving that `RunRetryTears` exhibits is the only kind there is.
Conversely `CallsWhenServed` keeps the step from happening, so `HandshakeHolds`
and the theorems under `HandshakeRespected` follow from those on overtaking.

**Bounded waiting.** `AnsweredInTime` is about the second frame; `WaitInv` says
what the first leaves behind. A frame that loads `read_index` after the wait
began knows the request to its end (`SecondFrameAnswers`): a request of the
handshake is not taken back while the consumer waits (`RequestStands`), and is
answered with a reset; a request for a slot is answered because the producer's
slot is either the one asked for, or that one is published already, for which
the first request must meet a producer's first choice (`FirstIsBufferA`). The
wake-up reaches the consumer because one who is queued has not seen the answer
(`QueuedIsAsleep`) and it is alone in the queue. The proof distinguishes whether
the handshake is respected: if it is, it rests on `HandshakeInv`; if not, only
waits of the handshake count.

**Validation.** `SlotsAreLabelled`: a word that names a completed frame vouches
for its slot, because the producer marks the word before the first byte and
clears it after the last, through crashes and `InitializeBuffer`.
`CandidateIsChecked`: from the load of the word to the delivery, either the copy
is still whole or the word has changed, and a changed word cannot change back
unless the slot is marked again with the very same number, which `reused`
records. Its kernel is `StepsOnASlot`: what one producer step can do to a word
and to the frame under it. `AcceptedIsWhole` follows.

**Reads in one moment.** `AcceptedIsWhole` compares the copy with the word that
was loaded first; that this word told the truth is the other half. Together they
refine `AtomicSnapshot`, in which a read takes one whole frame out of one slot in
a single step: that step is the load of the slot's word (`LoadSlot`), the end of
the validation gives the frame, and all loads and stores between are stutters or
writes (`MonitorStepIsAtomic`, `ProducerStepIsAtomic`). An attempt that a reuse
of its number spoils is mapped to a read that ends without a frame.

**What `reused` concedes.** A producer that restarts (frame count 0) or wraps
after 2^31 frames can rewrite the slot under the same number during one copy,
and the comparison of words cannot see it. The theorem says that this is the
only way to a torn snapshot.

**What the late number leaves true.** The validated word can differ from the
number reported only if the slot's word changed in between, that is, if the
producer had begun the slot's next frame: `WrongNumberMeansOverwritten`, from
`CandidateIsChecked` and the fact that nothing else changes a word.

**Monitors' calls.** `CallsWindDown` rests on the type invariant, in which
`attempts` stays within its bound, and on `CallsInv` (only `Run` is ever in its
loop): one case per step of the monitor, with a measure that counts the steps
left in this attempt and in those that remain.

**The lifecycle.** `CallInv` says what a call has in its hands at each step: a
descriptor exactly from `shm_open` to `mmap`, a mapping exactly until it is
handed over or dropped. `NothingLeaks` follows. `AttachedIsInitialized` speaks
only of finished calls; `AttachInv` adds what unfinished ones will need: an
object whose creators agree has their size and version, or none yet
(`FormatInv`); a `Create` under way is among the creators of its object
(`CreatorInv`); and from the size check or `ftruncate` on, the size is the
call's own if the creators agree (`SizeInv`). `SteadyInv` says that while `steady` is true the call is on the
object that has the name and that this object is usable, whoever re-creates or
re-initializes it: the same format is stored again. Hence no check refuses it.

**The arithmetic.** `MaskedWord`, from the uniqueness of remainders: masking a
word takes the flag off it, if it is there. The rest are cases.

**The control.** Types need a stage invariant first: only handlers that were
saved are restored, so a disposition is never "None". `DispInv` follows the
table of handlers through the calls: `Settled` between them, `Restoring` while
the old ones are put back (what is left in `todo` has the application's handler
saved, everything else is the application's again), `Restored` until installation begins, `Installing` and
`InstallingOne` while the new ones are saved and recorded one by one. The two
theorems about signals are its first part. `CameraInv` gives the sample
consumer's flags at each stage of its `main`: without a handled signal, both
flags say "running" except after a time-out or an error, and the stage says so.
`StopIsKept` needs, besides where a reset is among its stores, that a handler
only ever runs under a configuration that handles signals (`StopInv`): otherwise
`SignalHandler` would set a flag that `IsRunning` does not read. The measure of
the loops rests on it; that of the handlers on `PreviousInv`, that the handler
saved for a signal is never `SignalHandler`, in the middle of a call either.

Only model-checked, since it is out of the prover's reach: every liveness
property (`StreamKeepsFlowing`, `HandshakeCompletes`, `ReadIntoReturns`,
`StopEndsRun`, `StopEndsEveryLoop`, `HandlersReturn`). Their safety parts, the
bounds of section 3, are proved. The violations need no proof.

## 5. Not modelled

- Weak memory: accesses interleave sequentially. That the release stores and
  acquire loads order the plain accesses to a frame is taken from the code; for
  the monitor's copy, whose plain reads are followed by an acquire load, the
  language gives no such order (a hazard of `PROJECT.json`).
- `Reset`, `ReconfigureAndReset` or destruction of the control by one thread
  while another streams or handles a signal: `configuration_`, its vector and the
  map of handlers are plain data, no caller in the repository does it, and what a
  race on them yields is not bounded by the source. The same holds for a handler
  that searches the map while it is assigned.
- The two tests of `IsRunning` in `Producer`, `Consumer` and `Monitor` use a
  flag of their own (`p_running`, `c_running`, `m_running`): a process with
  several objects is in `ControlledProcess`, without frames.
- Reading pages that another build has truncated (a fault in the kernel), and the
  null pointer that the example's publisher uses after a failed open: the model
  says who holds what, not what a fault does.
- Several names: each call is about one segment, and segments share nothing.
- Spurious success of `FUTEX_WAIT`: each wait is in a loop that loads the word
  again.
- `Consumer::current_frame_count_`, validation of the indices' range:
  nothing in the modelled processes stores anything out of range.
- Payloads, Python accessors, examples' rendering, benchmarks, tools.

## 6. Plan

Done, in this order: segment, producer, consumer, `Streaming` with its runs,
`SnapshotHandoff`, proofs of the handshake, monitor, `Monitoring`, proofs of
validation, `SegmentLifecycle` with its proofs, `StreamingControl` and
`ControlledProcess` with their proofs, the arithmetic of `SequenceWord`.

What could follow:

1. The Python side beyond the bindings: the supervision of the fan-out
   demonstration (`rerun_fanout_demo.py`: start, wait for an endpoint, stop and
   join workers) and the one-place queue of `camera_consumer.py`'s visualization
   worker, against "every started worker is joined" and "a full queue drops
   frames and never blocks the consumer".
2. The benchmark's parent and children, and their second segment of
   measurements.
3. An abstract specification of the named segment that `SegmentLifecycle`
   implements, and one of the table of handlers for `StreamingControl`.
