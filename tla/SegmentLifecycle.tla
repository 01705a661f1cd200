-------------------------- MODULE SegmentLifecycle --------------------------
(***************************************************************************)
(* How processes create, open, validate and destroy the one named segment  *)
(* they share: the constructor of SharedMemory and what it calls            *)
(* (shared_memory_impl.h:81-220), one action per system call, and the       *)
(* programs of the repository that use it.  Any system call may fail and    *)
(* any process may die between two steps.  Programs of different builds may *)
(* meet, which disagree on the size or the version of the segment.          *)
(*                                                                          *)
(* The contents are abstracted to the version field: a new object is all    *)
(* zeros, which is what InitializeBuffer stores in every other field.       *)
(***************************************************************************)
EXTENDS Integers

CONSTANTS
    Process,    \* slots, each of which runs one program after another
    Object,     \* the shared memory objects that may exist at a time
    NoObject,
    Build,      \* the builds of the programs
    Size,       \* sizeof(SharedMemoryBuffer) in each build
    Version     \* kSharedMemVersion in each build

ProgramName == {"create", "publisher", "consumer", "camera_producer", "python"}

ASSUME NoObjectAssumption == NoObject \notin Object
ASSUME BuildAssumption == Build # {}
ASSUME SizeAssumption == Size \in [Build -> Nat \ {0}]
ASSUME VersionAssumption == Version \in [Build -> Nat \ {0}]

VARIABLES
    name,       \* the object the name refers to in the kernel
    size,       \* of each object, 0 until ftruncate
    version,    \* the version field of each object, 0 until InitializeBuffer
    program,    \* the program each process runs
    build,      \* and the build it is of
    pc,         \* the next step of its constructor call, or how the call ended
    call,       \* the kind of SharedMemory it constructs
    fd,         \* state_.file_descriptor of that call: the object it refers to
    mapping,    \* state_.buffer of that call: the object mapped
    held,       \* the valid SharedMemory objects of the process
    creators,   \* history: the builds that opened each object to create it
    steady      \* history: a usable segment was there for the whole Open

kernelVars == <<name, size, version, creators>>
callVars == <<call, fd, mapping>>
programVars == <<program, build>>
processVars == <<programVars, pc, callVars, held>>
vars == <<kernelVars, processVars, steady>>

CallKind == {"Create", "OpenValidated", "OpenUnvalidated"}
ObjectOrNone == Object \cup {NoObject}
Handle == [object : Object, call : CallKind]

Returned == {"valid", "refused", "failed"}
Pc == {"down", "idle", "open", "fstat", "ftruncate", "mmap", "init", "validate",
       "unlink"} \cup Returned

TypeOK ==
    /\ name \in ObjectOrNone
    /\ size \in [Object -> Nat]
    /\ version \in [Object -> Nat]
    /\ program \in [Process -> ProgramName \cup {"None"}]
    /\ build \in [Process -> Build]
    /\ pc \in [Process -> Pc]
    /\ call \in [Process -> CallKind \cup {"None"}]
    /\ fd \in [Process -> ObjectOrNone]
    /\ mapping \in [Process -> ObjectOrNone]
    /\ held \in [Process -> SUBSET Handle]
    /\ creators \in [Object -> SUBSET Build]
    /\ steady \in [Process -> BOOLEAN]

Init ==
    /\ name = NoObject
    /\ size = [o \in Object |-> 0]
    /\ version = [o \in Object |-> 0]
    /\ program = [p \in Process |-> "None"]
    /\ build = [p \in Process |-> CHOOSE b \in Build : TRUE]
    /\ pc = [p \in Process |-> "down"]
    /\ call = [p \in Process |-> "None"]
    /\ fd = [p \in Process |-> NoObject]
    /\ mapping = [p \in Process |-> NoObject]
    /\ held = [p \in Process |-> {}]
    /\ creators = [o \in Object |-> {}]
    /\ steady = [p \in Process |-> FALSE]

Goto(p, from, to) ==
    /\ pc[p] = from
    /\ pc' = [pc EXCEPT ![p] = to]

(* The kernel keeps an object while the name, a descriptor or a mapping     *)
(* refers to it.                                                            *)
InUse(o) ==
    \/ o = name
    \/ \E p \in Process : o \in {fd[p], mapping[p]} \cup {h.object : h \in held[p]}

-----------------------------------------------------------------------------
(* Cleanup: munmap and close.                                               *)
Cleanup(p) ==
    /\ fd' = [fd EXCEPT ![p] = NoObject]
    /\ mapping' = [mapping EXCEPT ![p] = NoObject]

(* The program calls a constructor: Create, Open with ValidateBuffer, or    *)
(* Open with the null callback; most programs do so at once.                *)
Begin(p, kind) ==
    /\ pc' = [pc EXCEPT ![p] = "open"]
    /\ call' = [call EXCEPT ![p] = kind]
    /\ UNCHANGED <<kernelVars, programVars, fd, mapping, held>>

Starts(p, g) ==
    /\ pc[p] = "down"
    /\ program' = [program EXCEPT ![p] = g]
    /\ \E b \in Build : build' = [build EXCEPT ![p] = b]

StartsWith(p, g, kind) ==
    /\ Starts(p, g)
    /\ pc' = [pc EXCEPT ![p] = "open"]
    /\ call' = [call EXCEPT ![p] = kind]
    /\ UNCHANGED <<kernelVars, fd, mapping, held>>

(* OpenFile of Create, O_CREAT without O_EXCL nor O_TRUNC: what the name    *)
(* refers to is adopted as it is ...                                        *)

(* Mutant: O_TRUNC.                                                         *)
AdoptTruncated(p) ==
    /\ call[p] = "Create"
    /\ name # NoObject
    /\ Goto(p, "open", "ftruncate")
    /\ fd' = [fd EXCEPT ![p] = name]
    /\ size' = [size EXCEPT ![name] = 0]
    /\ version' = [version EXCEPT ![name] = 0]
    /\ creators' = [creators EXCEPT ![name] = @ \cup {build[p]}]
    /\ UNCHANGED <<name, programVars, call, mapping, held>>

AdoptObject(p) ==
    /\ call[p] = "Create"
    /\ name # NoObject
    /\ Goto(p, "open", "ftruncate")
    /\ fd' = [fd EXCEPT ![p] = name]
    /\ creators' = [creators EXCEPT ![name] = @ \cup {build[p]}]
    /\ UNCHANGED <<name, size, version, programVars, call, mapping, held>>

(* ... and an unused name gets a new object, empty and zeroed.              *)
CreateObject(p) ==
    /\ call[p] = "Create"
    /\ name = NoObject
    /\ Goto(p, "open", "ftruncate")
    /\ \E o \in Object :
           /\ ~InUse(o)
           /\ name' = o
           /\ fd' = [fd EXCEPT ![p] = o]
           /\ size' = [size EXCEPT ![o] = 0]
           /\ version' = [version EXCEPT ![o] = 0]
           /\ creators' = [creators EXCEPT ![o] = {build[p]}]
    /\ UNCHANGED <<programVars, call, mapping, held>>

(* OpenFile of Open.                                                        *)
OpenObject(p) ==
    /\ call[p] # "Create"
    /\ name # NoObject
    /\ Goto(p, "open", "fstat")
    /\ fd' = [fd EXCEPT ![p] = name]
    /\ UNCHANGED <<kernelVars, programVars, call, mapping, held>>

OpenFindsNothing(p) ==
    /\ call[p] # "Create"
    /\ name = NoObject
    /\ Goto(p, "open", "refused")
    /\ UNCHANGED <<kernelVars, programVars, callVars, held>>

(* Open compares the size of the file with its own.                         *)

(* Mutant: a file that is large enough will do.                             *)
SizeFits(p) ==
    /\ Goto(p, "fstat", "mmap")
    /\ size[fd[p]] >= Size[build[p]]
    /\ UNCHANGED <<kernelVars, programVars, callVars, held>>

SizeMatches(p) ==
    /\ Goto(p, "fstat", "mmap")
    /\ size[fd[p]] = Size[build[p]]
    /\ UNCHANGED <<kernelVars, programVars, callVars, held>>

SizeDiffers(p) ==
    /\ Goto(p, "fstat", "refused")
    /\ size[fd[p]] # Size[build[p]]
    /\ Cleanup(p)
    /\ UNCHANGED <<kernelVars, programVars, call, held>>

(* InitializeSize: ftruncate to this build's size, whatever it was; the     *)
(* version field lies in the part that remains.                             *)
InitializeSize(p) ==
    /\ Goto(p, "ftruncate", "mmap")
    /\ size' = [size EXCEPT ![fd[p]] = Size[build[p]]]
    /\ UNCHANGED <<name, version, creators, programVars, callVars, held>>

(* MapMemory, after which the descriptor is closed.                         *)
MapMemory(p) ==
    /\ Goto(p, "mmap", IF call[p] = "Create" THEN "init" ELSE "validate")
    /\ mapping' = [mapping EXCEPT ![p] = fd[p]]
    /\ fd' = [fd EXCEPT ![p] = NoObject]
    /\ UNCHANGED <<kernelVars, programVars, call, held>>

(* The call returns an object that is valid: state_.initialized.            *)

(* Mutant: the descriptor, closed by now, is taken for what was mapped.     *)
ReturnsDescriptor(p) ==
    /\ held' = [held EXCEPT ![p] = @ \cup {[object |-> fd[p], call |-> call[p]]}]
    /\ mapping' = [mapping EXCEPT ![p] = NoObject]
    /\ UNCHANGED <<name, size, creators, programVars, call, fd>>

ReturnsValid(p) ==
    /\ held' = [held EXCEPT ![p] = @ \cup {[object |-> mapping[p], call |-> call[p]]}]
    /\ mapping' = [mapping EXCEPT ![p] = NoObject]
    /\ UNCHANGED <<name, size, creators, programVars, call, fd>>

(* InitializeBuffer: of its stores only the first is visible here.          *)
InitializeBuffer(p) ==
    /\ Goto(p, "init", "valid")
    /\ version' = [version EXCEPT ![mapping[p]] = Version[build[p]]]
    /\ ReturnsValid(p)

(* ValidateBuffer, or the null callback.                                    *)

(* Mutant: nothing is validated.                                            *)
AnyVersionMatches(p) ==
    /\ Goto(p, "validate", "valid")
    /\ ReturnsValid(p)
    /\ UNCHANGED version

VersionMatches(p) ==
    /\ Goto(p, "validate", "valid")
    /\ call[p] = "OpenUnvalidated" \/ version[mapping[p]] = Version[build[p]]
    /\ ReturnsValid(p)
    /\ UNCHANGED version

(* Mutant: the mapping is kept.                                             *)
VersionDiffersKeepsMapping(p) ==
    /\ Goto(p, "validate", "refused")
    /\ call[p] = "OpenValidated" /\ version[mapping[p]] # Version[build[p]]
    /\ UNCHANGED <<kernelVars, programVars, callVars, held>>

VersionDiffers(p) ==
    /\ Goto(p, "validate", "refused")
    /\ call[p] = "OpenValidated" /\ version[mapping[p]] # Version[build[p]]
    /\ Cleanup(p)
    /\ UNCHANGED <<kernelVars, programVars, call, held>>

(* A system call, or a callback of Create that stores nothing (as in the    *)
(* tests; InitializeBuffer itself never does), fails.  Create then unlinks   *)
(* the name, in a step of its own, unless shm_open was what failed.         *)
CallFails(p) ==
    /\ pc[p] \in {"open", "fstat", "ftruncate", "mmap", "init"}
    /\ pc' = [pc EXCEPT ![p] =
                 IF call[p] = "Create" /\ pc[p] # "open" THEN "unlink" ELSE "failed"]
    /\ Cleanup(p)
    /\ UNCHANGED <<kernelVars, programVars, call, held>>

UnlinkAfterFailure(p) ==
    /\ Goto(p, "unlink", "failed")
    /\ name' = NoObject
    /\ UNCHANGED <<size, version, creators, programVars, callVars, held>>

-----------------------------------------------------------------------------
(* The programs.                                                            *)

(* The process returns from main, and the destructors clean up, or it dies  *)
(* at any point, and the kernel does; the name stays.                       *)
Ends(p) ==
    /\ pc[p] # "down"
    /\ pc' = [pc EXCEPT ![p] = "down"]
    /\ program' = [program EXCEPT ![p] = "None"]
    /\ build' = [build EXCEPT ![p] = CHOOSE b \in Build : TRUE]
    /\ call' = [call EXCEPT ![p] = "None"]
    /\ Cleanup(p)
    /\ held' = [held EXCEPT ![p] = {}]
    /\ UNCHANGED kernelVars

(* The example's "create": create, and exit.                                *)
CreateTool(p) == StartsWith(p, "create", "Create")

(* Its "destroy", a program of one call.                                    *)
DestroyTool(p) ==
    /\ pc[p] = "down"
    /\ name' = NoObject
    /\ UNCHANGED <<size, version, creators, processVars>>

(* Its "publisher": a Producer, tested by nobody, and a second object,      *)
(* opened without validation, through which it names the slots.             *)
PublisherTool(p) ==
    \/ StartsWith(p, "publisher", "OpenValidated")
    \/ /\ program[p] = "publisher"
       /\ pc[p] \in Returned /\ call[p] = "OpenValidated"
       /\ Begin(p, "OpenUnvalidated")

(* Its "consumer": a Consumer, tested by nobody.                            *)
ConsumerTool(p) == StartsWith(p, "consumer", "OpenValidated")

(* camera_producer: create, keep the object, and open it as a Producer; it  *)
(* exits when either is invalid.                                            *)
CameraProducer(p) ==
    \/ StartsWith(p, "camera_producer", "Create")
    \/ /\ program[p] = "camera_producer"
       /\ pc[p] = "valid" /\ call[p] = "Create"
       /\ Begin(p, "OpenValidated")

(* A Python program makes any call at any time.                             *)
PythonProgram(p) ==
    /\ Starts(p, "python")
    /\ pc' = [pc EXCEPT ![p] = "idle"]
    /\ UNCHANGED <<kernelVars, callVars, held>>

PythonReturns(p, kind) ==
    /\ call[p] = kind
    /\ pc[p] \in Returned
    /\ pc' = [pc EXCEPT ![p] = "idle"]
    /\ call' = [call EXCEPT ![p] = "None"]
    /\ UNCHANGED <<kernelVars, programVars, fd, mapping>>

(* The function drops the object it created before it returns.              *)
InitializeSharedMemory(p) ==
    /\ program[p] = "python"
    /\ \/ pc[p] = "idle" /\ Begin(p, "Create")
       \/ /\ PythonReturns(p, "Create")
          /\ held' = [held EXCEPT ![p] = {h \in @ : h.call # "Create"}]

DestroySharedMemory(p) ==
    /\ program[p] = "python"
    /\ pc[p] = "idle"
    /\ name' = NoObject
    /\ UNCHANGED <<size, version, creators, processVars>>

(* A Producer, Consumer or Monitor lives until it is collected.             *)
StreamObject(p) ==
    /\ program[p] = "python"
    /\ \/ pc[p] = "idle" /\ Begin(p, "OpenValidated")
       \/ PythonReturns(p, "OpenValidated") /\ UNCHANGED held

CollectObject(p) ==
    /\ program[p] = "python"
    /\ pc[p] = "idle"
    /\ \E h \in held[p] : held' = [held EXCEPT ![p] = @ \ {h}]
    /\ UNCHANGED <<kernelVars, programVars, pc, callVars>>

-----------------------------------------------------------------------------
(* What the history variable steady observes of a step: a segment this      *)
(* process can use had the name when its Open was called, keeps it, and     *)
(* nobody of another build has opened it to create it.                      *)

SameFormat(b, c) == Size[b] = Size[c] /\ Version[b] = Version[c]

Usable(p) ==
    /\ name # NoObject
    /\ size[name] = Size[build[p]] /\ version[name] = Version[build[p]]
    /\ \A b \in creators[name] : SameFormat(b, build[p])

Undisturbed(p) ==
    /\ name' = name
    /\ name # NoObject
    /\ \A b \in creators'[name] : SameFormat(b, build[p])

Opening == {"fstat", "mmap", "validate", "refused"}

Observe ==
    steady' = [p \in Process |->
        /\ call'[p] \in {"OpenValidated", "OpenUnvalidated"}
        /\ \/ pc'[p] = "open" /\ Usable(p)'
           \/ pc'[p] \in Opening /\ steady[p] /\ Undisturbed(p)]

ConstructorStep(p) ==
    \/ AdoptObject(p)
    \/ CreateObject(p)
    \/ OpenObject(p)
    \/ OpenFindsNothing(p)
    \/ SizeMatches(p)
    \/ SizeDiffers(p)
    \/ InitializeSize(p)
    \/ MapMemory(p)
    \/ InitializeBuffer(p)
    \/ VersionMatches(p)
    \/ VersionDiffers(p)
    \/ CallFails(p)
    \/ UnlinkAfterFailure(p)

ProgramStep(p) ==
    \/ Ends(p)
    \/ CreateTool(p)
    \/ DestroyTool(p)
    \/ PublisherTool(p)
    \/ ConsumerTool(p)
    \/ CameraProducer(p)
    \/ PythonProgram(p)
    \/ InitializeSharedMemory(p)
    \/ DestroySharedMemory(p)
    \/ StreamObject(p)
    \/ CollectObject(p)

Next == \E p \in Process : (ConstructorStep(p) \/ ProgramStep(p)) /\ Observe

Spec == Init /\ [][Next]_vars

-----------------------------------------------------------------------------
(* As long as the creators of a segment agree on its format, a process that *)
(* holds a valid SharedMemory on it has that format: the pages it maps are  *)
(* there, and InitializeBuffer has run unless it opened without validation. *)
(* This is what the constructor's size check, its callbacks and their order *)
(* (shared_memory_impl.h:90-138) are for.                                   *)
AttachedIsInitialized ==
    \A p \in Process : \A h \in held[p] :
        (\A b, c \in creators[h.object] : SameFormat(b, c))
            => /\ size[h.object] = Size[build[p]]
               /\ h.call # "OpenUnvalidated" => version[h.object] = Version[build[p]]

(* Outside a constructor call nothing is open or mapped but what the valid  *)
(* objects hold: every way out of the constructor and every error path of   *)
(* it has cleaned up (shared_memory_impl.h:85-136).                         *)
NothingLeaks ==
    \A p \in Process :
        pc[p] \in {"down", "idle", "unlink"} \cup Returned
            => fd[p] = NoObject /\ mapping[p] = NoObject

(* An Open is refused, rather than failed by a system call, only if the     *)
(* segment was not there and usable all along.  In particular a producer    *)
(* that starts again and re-creates the live segment (camera_producer.cc:   *)
(* 65-68) goes unnoticed by whoever opens it at that moment.                *)
AvailableIsOpened == \A p \in Process : pc[p] = "refused" => ~steady[p]
=============================================================================
