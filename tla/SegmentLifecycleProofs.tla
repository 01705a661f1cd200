----------------------- MODULE SegmentLifecycleProofs -----------------------
(***************************************************************************)
(* The safety properties of SegmentLifecycle, for every number of           *)
(* processes, objects and builds.                                           *)
(***************************************************************************)
EXTENDS SegmentLifecycle, TLAPS

USE NoObjectAssumption, BuildAssumption, SizeAssumption, VersionAssumption

(* What a call in progress has in its hands at each step.                   *)
CallInv ==
    \A p \in Process :
        /\ pc[p] \in {"fstat", "ftruncate", "mmap"} <=> fd[p] # NoObject
        /\ pc[p] \in {"init", "validate"} <=> mapping[p] # NoObject
        /\ pc[p] = "down" => held[p] = {}
        /\ pc[p] \notin {"down", "idle"} => call[p] \in CallKind
        /\ pc[p] \in {"ftruncate", "init", "unlink"} => call[p] = "Create"
        /\ pc[p] \in {"fstat", "validate", "refused"} => call[p] # "Create"

LEMMA InitCalls == Init => TypeOK /\ CallInv
<1>1. (CHOOSE b \in Build : TRUE) \in Build
  OBVIOUS
<1> QED
  BY <1>1 DEF Init, TypeOK, CallInv, ObjectOrNone, Handle, CallKind, ProgramName, Pc, Returned

(* A step of a constructor call keeps the types and the stages of the calls. *)
LEMMA ConstructorCalls ==
    ASSUME TypeOK, CallInv, NEW p \in Process, ConstructorStep(p), Observe
    PROVE  TypeOK' /\ CallInv'
<1> USE DEF TypeOK, CallInv, ObjectOrNone, Handle, CallKind, Pc, Returned, Goto, Cleanup,
            Observe, kernelVars, callVars, programVars
<1>1. CASE AdoptObject(p)
  BY <1>1 DEF AdoptObject
<1>2. CASE CreateObject(p)
  BY <1>2 DEF CreateObject
<1>3. CASE OpenObject(p)
  BY <1>3 DEF OpenObject
<1>4. CASE OpenFindsNothing(p)
  BY <1>4 DEF OpenFindsNothing
<1>5. CASE SizeMatches(p)
  BY <1>5 DEF SizeMatches
<1>6. CASE SizeDiffers(p)
  BY <1>6 DEF SizeDiffers
<1>7. CASE InitializeSize(p)
  BY <1>7 DEF InitializeSize
<1>8. CASE MapMemory(p)
  BY <1>8 DEF MapMemory
<1>9. CASE InitializeBuffer(p)
  BY <1>9 DEF InitializeBuffer, ReturnsValid
<1>10. CASE VersionMatches(p)
  BY <1>10 DEF VersionMatches, ReturnsValid
<1>11. CASE VersionDiffers(p)
  BY <1>11 DEF VersionDiffers
<1>12. CASE CallFails(p)
  BY <1>12 DEF CallFails
<1>13. CASE UnlinkAfterFailure(p)
  BY <1>13 DEF UnlinkAfterFailure
<1> QED
  BY <1>1, <1>2, <1>3, <1>4, <1>5, <1>6, <1>7, <1>8, <1>9, <1>10, <1>11, <1>12, <1>13
     DEF ConstructorStep

(* So does a step of a program around its calls.                            *)
LEMMA ProgramCalls ==
    ASSUME TypeOK, CallInv, NEW p \in Process, ProgramStep(p), Observe
    PROVE  TypeOK' /\ CallInv'
<1> USE DEF TypeOK, CallInv, ObjectOrNone, Handle, CallKind, Pc, Returned, Goto, Cleanup,
            Observe, kernelVars, callVars, programVars, processVars, ProgramName,
            Begin, Starts, StartsWith, PythonReturns
<1>0. (CHOOSE b \in Build : TRUE) \in Build
  OBVIOUS
<1>1. CASE Ends(p)
  BY <1>0, <1>1 DEF Ends
<1>2. CASE CreateTool(p)
  BY <1>2 DEF CreateTool
<1>3. CASE DestroyTool(p)
  BY <1>3 DEF DestroyTool
<1>4. CASE PublisherTool(p)
  <2>1. CASE StartsWith(p, "publisher", "OpenValidated")
    BY <2>1
  <2>2. CASE pc[p] \in Returned /\ Begin(p, "OpenUnvalidated")
    BY <2>2
  <2> QED
    BY <1>4, <2>1, <2>2 DEF PublisherTool
<1>5. CASE ConsumerTool(p)
  BY <1>5 DEF ConsumerTool
<1>6. CASE CameraProducer(p)
  <2>1. CASE StartsWith(p, "camera_producer", "Create")
    BY <2>1
  <2>2. CASE pc[p] \in Returned /\ Begin(p, "OpenValidated")
    BY <2>2
  <2> QED
    BY <1>6, <2>1, <2>2 DEF CameraProducer
<1>7. CASE PythonProgram(p)
  BY <1>7 DEF PythonProgram
<1>8. CASE InitializeSharedMemory(p)
  BY <1>8 DEF InitializeSharedMemory
<1>9. CASE DestroySharedMemory(p)
  BY <1>9 DEF DestroySharedMemory
<1>10. CASE StreamObject(p)
  <2>1. CASE Begin(p, "OpenValidated") /\ pc[p] = "idle"
    BY <2>1
  <2>2. CASE PythonReturns(p, "OpenValidated") /\ UNCHANGED held
    BY <2>2
  <2> QED
    BY <1>10, <2>1, <2>2 DEF StreamObject
<1>11. CASE CollectObject(p)
  BY <1>11 DEF CollectObject
<1> QED
  BY <1>1, <1>2, <1>3, <1>4, <1>5, <1>6, <1>7, <1>8, <1>9, <1>10, <1>11 DEF ProgramStep

LEMMA UnchangedCalls == TypeOK /\ CallInv /\ UNCHANGED vars => TypeOK' /\ CallInv'
  BY DEF TypeOK, CallInv, vars, kernelVars, processVars, callVars, programVars

LEMMA CallsInvariant == Spec => [](TypeOK /\ CallInv)
<1>1. TypeOK /\ CallInv /\ [Next]_vars => TypeOK' /\ CallInv'
  BY ConstructorCalls, ProgramCalls, UnchangedCalls DEF Next
<1> QED
  BY <1>1, InitCalls, PTL DEF Spec

(* Every variable keeps its type.                                           *)
THEOREM TypeCorrect == Spec => []TypeOK
  BY CallsInvariant, PTL

(* A call that is not in the middle of the constructor holds no descriptor  *)
(* and no mapping, whichever way it left (shared_memory_impl.h:85-136).      *)
THEOREM NothingLeaksTheorem == Spec => []NothingLeaks
<1>1. TypeOK /\ CallInv => NothingLeaks
  BY DEF TypeOK, CallInv, NothingLeaks, Returned
<1> QED
  BY <1>1, CallsInvariant, PTL

-----------------------------------------------------------------------------
(* The format of a segment.  An object that creators of one format have     *)
(* opened has that size and that version, or none yet; and a call knows     *)
(* that the size is its own from the time it compared or set it.            *)

Agreed(o) == \A b, c \in creators[o] : SameFormat(b, c)

FormatInv ==
    \A o \in Object :
        /\ creators[o] = {} => size[o] = 0 /\ version[o] = 0
        /\ Agreed(o) => \A b \in creators[o] :
               size[o] \in {0, Size[b]} /\ version[o] \in {0, Version[b]}

CreatorInv ==
    \A p \in Process :
        call[p] = "Create" =>
            /\ pc[p] \in {"ftruncate", "mmap"} => build[p] \in creators[fd[p]]
            /\ pc[p] = "init" => build[p] \in creators[mapping[p]]

SizeKnown(p, o) == Agreed(o) => size[o] = Size[build[p]]

SizeInv ==
    \A p \in Process :
        /\ pc[p] = "mmap" => SizeKnown(p, fd[p])
        /\ pc[p] \in {"init", "validate"} => SizeKnown(p, mapping[p])

CallsOK == TypeOK /\ CallInv
AttachInv == CallsOK /\ FormatInv /\ CreatorInv /\ SizeInv /\ AttachedIsInitialized

LEMMA InitAttach == Init => AttachInv
  BY InitCalls DEF Init, AttachInv, CallsOK, FormatInv, CreatorInv, SizeInv,
     AttachedIsInitialized, Agreed

(* A step that leaves the objects alone and advances only its own call.     *)
LEMMA LocalStepAttach ==
    ASSUME AttachInv, CallsOK', NEW p \in Process,
           UNCHANGED <<size, version, creators>>,
           \A q \in Process \ {p} :
               UNCHANGED <<build[q], pc[q], call[q], fd[q], mapping[q], held[q]>>,
           call'[p] = "Create" /\ pc'[p] \in {"ftruncate", "mmap"}
               => build'[p] \in creators[fd'[p]],
           call'[p] = "Create" /\ pc'[p] = "init" => build'[p] \in creators[mapping'[p]],
           pc'[p] = "mmap" => SizeKnown(p, fd[p])',
           pc'[p] \in {"init", "validate"} => SizeKnown(p, mapping[p])',
           \A h \in held'[p] :
               Agreed(h.object) =>
                   /\ size[h.object] = Size[build'[p]]
                   /\ h.call # "OpenUnvalidated" => version[h.object] = Version[build'[p]]
    PROVE  AttachInv'
<1>1. FormatInv'
  BY DEF AttachInv, FormatInv, Agreed
<1>2. CreatorInv'
  BY DEF AttachInv, CreatorInv, CallsOK, TypeOK
<1>3. SizeInv'
  BY DEF AttachInv, SizeInv, SizeKnown, Agreed
<1>4. AttachedIsInitialized'
  BY DEF AttachInv, AttachedIsInitialized, Agreed
<1> QED
  BY <1>1, <1>2, <1>3, <1>4 DEF AttachInv

(* Adopting a live object adds a creator: if all still agree, what the      *)
(* others stored is what the newcomer expects.                              *)
LEMMA AdoptAttach ==
    ASSUME AttachInv, CallsOK', NEW p \in Process, AdoptObject(p)
    PROVE  AttachInv'
<1> USE DEF CallsOK, TypeOK, Goto, AdoptObject, ObjectOrNone, programVars
<1>1. \A o \in Object : Agreed(o)' => Agreed(o)
  BY DEF AttachInv, Agreed
<1>2. FormatInv'
  <2> SUFFICES ASSUME NEW o \in Object
               PROVE  /\ creators'[o] = {} => size'[o] = 0 /\ version'[o] = 0
                      /\ Agreed(o)' => \A b \in creators'[o] :
                             size'[o] \in {0, Size[b]} /\ version'[o] \in {0, Version[b]}
    BY DEF FormatInv
  <2>1. CASE o # name
    BY <2>1 DEF AttachInv, FormatInv, Agreed
  <2>2. CASE o = name
    <3>1. creators'[o] = creators[o] \cup {build[p]}
      BY <2>2 DEF AttachInv
    <3>2. ASSUME Agreed(o)', NEW b \in creators'[o], NEW c \in creators[o]
          PROVE  size[o] \in {0, Size[b]} /\ version[o] \in {0, Version[b]}
      BY <1>1, <3>1, <3>2 DEF AttachInv, FormatInv, Agreed, SameFormat
    <3> QED
      BY <3>1, <3>2 DEF AttachInv, FormatInv
  <2> QED
    BY <2>1, <2>2
<1>3. CreatorInv'
  BY DEF AttachInv, CreatorInv, CallInv
<1>4. SizeInv'
  BY <1>1 DEF AttachInv, SizeInv, SizeKnown, CallInv
<1>5. AttachedIsInitialized'
  BY <1>1 DEF AttachInv, AttachedIsInitialized, Agreed, Handle
<1> QED
  BY <1>2, <1>3, <1>4, <1>5 DEF AttachInv

(* A new object replaces one that nobody refers to.                         *)
LEMMA CreateAttach ==
    ASSUME AttachInv, CallsOK', NEW p \in Process, CreateObject(p)
    PROVE  AttachInv'
<1> USE DEF CallsOK, TypeOK, Goto, ObjectOrNone
<1>1. PICK o \in Object :
          /\ ~InUse(o)
          /\ fd' = [fd EXCEPT ![p] = o]
          /\ size' = [size EXCEPT ![o] = 0]
          /\ version' = [version EXCEPT ![o] = 0]
          /\ creators' = [creators EXCEPT ![o] = {build[p]}]
  BY DEF CreateObject
<1>2. /\ pc' = [pc EXCEPT ![p] = "ftruncate"]
      /\ UNCHANGED <<build, call, mapping, held>>
  BY DEF CreateObject, programVars
<1>3. \A q \in Process :
          fd[q] # o /\ mapping[q] # o /\ \A h \in held[q] : h.object # o
  BY <1>1 DEF InUse
<1>4. FormatInv'
  BY <1>1 DEF AttachInv, FormatInv, Agreed, SameFormat
<1>5. CreatorInv'
  BY <1>1, <1>2, <1>3 DEF AttachInv, CreatorInv, CallInv
<1>6. SizeInv'
  BY <1>1, <1>2, <1>3 DEF AttachInv, SizeInv, SizeKnown, CallInv, Agreed
<1>7. AttachedIsInitialized'
  BY <1>1, <1>2, <1>3 DEF AttachInv, AttachedIsInitialized, Handle
<1> QED
  BY <1>4, <1>5, <1>6, <1>7 DEF AttachInv

(* ftruncate changes nothing for those who agree with the creator.          *)
LEMMA InitializeSizeAttach ==
    ASSUME AttachInv, CallsOK', NEW p \in Process, InitializeSize(p)
    PROVE  AttachInv'
<1> USE DEF CallsOK, TypeOK, Goto, InitializeSize, ObjectOrNone, programVars, callVars
<1>1. fd[p] \in Object /\ build[p] \in creators[fd[p]] /\ call[p] = "Create"
  BY DEF AttachInv, CallInv, CreatorInv
<1>2. size' = [size EXCEPT ![fd[p]] = Size[build[p]]] /\ size'[fd[p]] = Size[build[p]]
  BY <1>1 DEF AttachInv
<1>3. ASSUME NEW o \in Object, Agreed(o), size[o] # 0
      PROVE  size'[o] = size[o]
  BY <1>1, <1>2, <1>3 DEF AttachInv, FormatInv
<1>4. FormatInv'
  BY <1>1, <1>2 DEF AttachInv, FormatInv, Agreed, SameFormat
<1>5. CreatorInv'
  BY DEF AttachInv, CreatorInv
<1>6. SizeInv'
  BY <1>1, <1>2, <1>3 DEF AttachInv, SizeInv, SizeKnown, CallInv, Agreed
<1>7. AttachedIsInitialized'
  BY <1>1, <1>2, <1>3 DEF AttachInv, AttachedIsInitialized, Agreed, Handle
<1> QED
  BY <1>4, <1>5, <1>6, <1>7 DEF AttachInv

(* Nor does InitializeBuffer.                                               *)
LEMMA InitializeBufferAttach ==
    ASSUME AttachInv, CallsOK', NEW p \in Process, InitializeBuffer(p)
    PROVE  AttachInv'
<1> USE DEF CallsOK, TypeOK, Goto, InitializeBuffer, ReturnsValid, ObjectOrNone, programVars
<1>1. mapping[p] \in Object /\ build[p] \in creators[mapping[p]] /\ call[p] = "Create"
  BY DEF AttachInv, CallInv, CreatorInv
<1>2. version' = [version EXCEPT ![mapping[p]] = Version[build[p]]]
  BY DEF AttachInv
<1>3. ASSUME NEW o \in Object, Agreed(o), version[o] # 0
      PROVE  version'[o] = version[o]
  BY <1>1, <1>2, <1>3 DEF AttachInv, FormatInv
<1>4. FormatInv'
  BY <1>1, <1>2 DEF AttachInv, FormatInv, Agreed, SameFormat
<1>5. CreatorInv'
  BY DEF AttachInv, CreatorInv
<1>6. SizeInv'
  BY DEF AttachInv, SizeInv, SizeKnown, Agreed
<1>7. AttachedIsInitialized'
  BY <1>1, <1>2, <1>3 DEF AttachInv, AttachedIsInitialized, Agreed, Handle, SizeInv, SizeKnown
<1> QED
  BY <1>4, <1>5, <1>6, <1>7 DEF AttachInv

LEMMA ConstructorAttach ==
    ASSUME AttachInv, CallsOK', NEW p \in Process, ConstructorStep(p)
    PROVE  AttachInv'
<1> USE DEF CallsOK, TypeOK, CallInv, Goto, Cleanup, kernelVars, callVars, programVars,
            SizeKnown, Agreed, ObjectOrNone
<1> DEFINE Others == \A q \in Process \ {p} :
               UNCHANGED <<build[q], pc[q], call[q], fd[q], mapping[q], held[q]>>
           Kept == \A h \in held[p] :
               Agreed(h.object) =>
                   /\ size[h.object] = Size[build[p]]
                   /\ h.call # "OpenUnvalidated" => version[h.object] = Version[build[p]]
<1>0. Kept
  BY DEF AttachInv, AttachedIsInitialized
<1>1. CASE OpenObject(p)
  BY <1>0, <1>1, LocalStepAttach DEF OpenObject, AttachInv
<1>2. CASE OpenFindsNothing(p)
  BY <1>0, <1>2, LocalStepAttach DEF OpenFindsNothing, AttachInv
<1>3. CASE SizeMatches(p)
  BY <1>0, <1>3, LocalStepAttach DEF SizeMatches, AttachInv
<1>4. CASE SizeDiffers(p)
  BY <1>0, <1>4, LocalStepAttach DEF SizeDiffers, AttachInv
<1>5. CASE MapMemory(p)
  BY <1>0, <1>5, LocalStepAttach DEF MapMemory, AttachInv, SizeInv, CreatorInv
<1>6. CASE VersionMatches(p)
  BY <1>0, <1>6, LocalStepAttach DEF VersionMatches, ReturnsValid, AttachInv, SizeInv
<1>7. CASE VersionDiffers(p)
  BY <1>0, <1>7, LocalStepAttach DEF VersionDiffers, AttachInv
<1>8. CASE CallFails(p)
  BY <1>0, <1>8, LocalStepAttach DEF CallFails, AttachInv
<1>9. CASE UnlinkAfterFailure(p)
  BY <1>0, <1>9, LocalStepAttach DEF UnlinkAfterFailure, AttachInv
<1> QED
  BY <1>1, <1>2, <1>3, <1>4, <1>5, <1>6, <1>7, <1>8, <1>9,
     AdoptAttach, CreateAttach, InitializeSizeAttach, InitializeBufferAttach
     DEF ConstructorStep

(* The programs change neither the objects nor a call on its way; what they *)
(* drop needs no argument.                                                  *)
LEMMA ProgramAttach ==
    ASSUME AttachInv, CallsOK', NEW p \in Process, ProgramStep(p)
    PROVE  AttachInv'
<1> USE DEF CallsOK, TypeOK, CallInv, Goto, Cleanup, kernelVars, callVars, programVars,
            processVars, SizeKnown, Agreed, Begin, Starts, StartsWith, PythonReturns
<1>0. \A h \in held[p] :
          Agreed(h.object) =>
              /\ size[h.object] = Size[build[p]]
              /\ h.call # "OpenUnvalidated" => version[h.object] = Version[build[p]]
  BY DEF AttachInv, AttachedIsInitialized
<1>1. CASE Ends(p)
  BY <1>0, <1>1, LocalStepAttach DEF Ends, AttachInv
<1>2. CASE CreateTool(p)
  BY <1>0, <1>2, LocalStepAttach DEF CreateTool, AttachInv
<1>3. CASE DestroyTool(p)
  BY <1>0, <1>3, LocalStepAttach DEF DestroyTool, AttachInv
<1>4. CASE PublisherTool(p)
  <2>1. CASE StartsWith(p, "publisher", "OpenValidated")
    BY <1>0, <2>1, LocalStepAttach DEF AttachInv
  <2>2. CASE pc[p] \in Returned /\ Begin(p, "OpenUnvalidated")
    BY <1>0, <2>2, LocalStepAttach DEF AttachInv, Returned
  <2> QED
    BY <1>4, <2>1, <2>2 DEF PublisherTool
<1>5. CASE ConsumerTool(p)
  BY <1>0, <1>5, LocalStepAttach DEF ConsumerTool, AttachInv
<1>6. CASE CameraProducer(p)
  <2>1. CASE StartsWith(p, "camera_producer", "Create")
    BY <1>0, <2>1, LocalStepAttach DEF AttachInv
  <2>2. CASE pc[p] \in Returned /\ Begin(p, "OpenValidated")
    BY <1>0, <2>2, LocalStepAttach DEF AttachInv
  <2> QED
    BY <1>6, <2>1, <2>2 DEF CameraProducer, Returned
<1>7. CASE PythonProgram(p)
  BY <1>0, <1>7, LocalStepAttach DEF PythonProgram, AttachInv
<1>8. CASE InitializeSharedMemory(p)
  <2>1. CASE Begin(p, "Create")
    BY <1>0, <2>1, LocalStepAttach DEF AttachInv
  <2>2. CASE /\ PythonReturns(p, "Create")
             /\ held' = [held EXCEPT ![p] = {h \in @ : h.call # "Create"}]
    BY <1>0, <2>2, LocalStepAttach DEF AttachInv
  <2> QED
    BY <1>8, <2>1, <2>2 DEF InitializeSharedMemory
<1>9. CASE DestroySharedMemory(p)
  BY <1>0, <1>9, LocalStepAttach DEF DestroySharedMemory, AttachInv
<1>10. CASE StreamObject(p)
  <2>1. CASE Begin(p, "OpenValidated")
    BY <1>0, <2>1, LocalStepAttach DEF AttachInv
  <2>2. CASE PythonReturns(p, "OpenValidated") /\ UNCHANGED held
    BY <1>0, <2>2, LocalStepAttach DEF AttachInv
  <2> QED
    BY <1>10, <2>1, <2>2 DEF StreamObject
<1>11. CASE CollectObject(p)
  BY <1>0, <1>11, LocalStepAttach DEF CollectObject, AttachInv
<1> QED
  BY <1>1, <1>2, <1>3, <1>4, <1>5, <1>6, <1>7, <1>8, <1>9, <1>10, <1>11 DEF ProgramStep

LEMMA UnchangedAttach == AttachInv /\ UNCHANGED vars => AttachInv'
<1> SUFFICES ASSUME AttachInv, UNCHANGED vars
             PROVE  AttachInv'
  OBVIOUS
<1>1. CallsOK'
  BY UnchangedCalls DEF AttachInv, CallsOK
<1>2. UNCHANGED <<size, version, creators, build, pc, call, fd, mapping, held>>
  BY DEF vars, kernelVars, processVars, callVars, programVars
<1> QED
  BY <1>1, <1>2 DEF AttachInv, FormatInv, CreatorInv, SizeInv, SizeKnown, Agreed,
     AttachedIsInitialized

LEMMA AttachInvariant == Spec => []AttachInv
<1>1. AttachInv /\ [Next]_vars => CallsOK'
  BY ConstructorCalls, ProgramCalls, UnchangedCalls DEF Next, AttachInv, CallsOK
<1>2. AttachInv /\ [Next]_vars => AttachInv'
  BY <1>1, ConstructorAttach, ProgramAttach, UnchangedAttach DEF Next
<1> QED
  BY <1>2, InitAttach, PTL DEF Spec

(* Whoever holds a valid SharedMemory on a segment whose creators agree has *)
(* their format, and finds it initialized (shared_memory_impl.h:90-138).     *)
THEOREM AttachedIsInitializedTheorem == Spec => []AttachedIsInitialized
  BY AttachInvariant, PTL DEF AttachInv

-----------------------------------------------------------------------------
(* An Open that found a usable segment keeps hold of it: while nobody of    *)
(* another build creates it and nobody unlinks it, it stays usable.         *)

SteadyInv ==
    \A p \in Process :
        steady[p] =>
            /\ call[p] \in {"OpenValidated", "OpenUnvalidated"}
            /\ Usable(p)
            /\ pc[p] \in {"open"} \cup Opening
            /\ pc[p] \in {"fstat", "mmap"} => fd[p] = name
            /\ pc[p] = "validate" => mapping[p] = name
            /\ pc[p] # "refused"

LEMMA InitSteady == Init => SteadyInv
  BY DEF Init, SteadyInv

(* A usable segment stays usable under whatever leaves the name and its     *)
(* creators' format alone.                                                  *)
LEMMA UsableStays ==
    ASSUME AttachInv, AttachInv', NEW p \in Process, NEW q \in Process,
           ConstructorStep(q) \/ ProgramStep(q),
           Usable(p), Undisturbed(p), build'[p] = build[p]
    PROVE  Usable(p)'
<1> USE DEF AttachInv, CallsOK, TypeOK, CallInv, CreatorInv, ObjectOrNone,
            Usable, Undisturbed, SameFormat, Goto
<1>1. name \in Object /\ name' = name
  OBVIOUS
<1>2. /\ \A b \in creators'[name'] : SameFormat(b, build'[p])
      /\ \A b \in creators[name] : SameFormat(b, build[p])
  OBVIOUS
<1>3. size'[name] = size[name] /\ version'[name] = version[name]
  <2>1. CASE CreateObject(q)
    BY <1>1, <2>1 DEF CreateObject, InUse
  <2>2. CASE InitializeSize(q)
    BY <1>1, <1>2, <2>2 DEF InitializeSize
  <2>3. CASE InitializeBuffer(q)
    BY <1>1, <1>2, <2>3 DEF InitializeBuffer, ReturnsValid
  <2>4. CASE UNCHANGED <<size, version>>
    BY <1>1, <2>4
  <2> QED
    BY <2>1, <2>2, <2>3, <2>4
       DEF ConstructorStep, ProgramStep, AdoptObject, OpenObject, OpenFindsNothing,
           SizeMatches, SizeDiffers, MapMemory, VersionMatches, VersionDiffers, CallFails,
           UnlinkAfterFailure, ReturnsValid, Ends, CreateTool, DestroyTool, PublisherTool,
           ConsumerTool, CameraProducer, PythonProgram, InitializeSharedMemory,
           DestroySharedMemory, StreamObject, CollectObject, Begin, Starts, StartsWith,
           PythonReturns, kernelVars
<1> QED
  BY <1>1, <1>2, <1>3

(* The step of a process whose Open a usable segment has been there for.    *)
LEMMA OwnStepSteady ==
    ASSUME AttachInv, AttachInv', SteadyInv, NEW p \in Process,
           ConstructorStep(p) \/ ProgramStep(p),
           steady[p], Undisturbed(p), Usable(p)',
           call'[p] \in {"OpenValidated", "OpenUnvalidated"}, pc'[p] \in Opening
    PROVE  /\ pc'[p] \in {"fstat", "mmap"} => fd'[p] = name'
           /\ pc'[p] = "validate" => mapping'[p] = name'
           /\ pc'[p] # "refused"
<1> USE DEF AttachInv, CallsOK, TypeOK, CallInv, ObjectOrNone, Goto, Cleanup, Opening,
            Returned, kernelVars, callVars, programVars, processVars
<1>1. /\ pc[p] \in {"open"} \cup Opening
      /\ call[p] # "Create"
      /\ pc[p] \in {"fstat", "mmap"} => fd[p] = name
      /\ pc[p] = "validate" => mapping[p] = name
      /\ pc[p] # "refused"
      /\ name # NoObject /\ size[name] = Size[build[p]] /\ version[name] = Version[build[p]]
      /\ name' = name
  BY DEF SteadyInv, Usable, Undisturbed
<1>2. CASE ConstructorStep(p)
  <2>1. CASE OpenObject(p)
    BY <1>1, <2>1 DEF OpenObject
  <2>2. CASE SizeMatches(p)
    BY <1>1, <2>2 DEF SizeMatches
  <2>3. CASE MapMemory(p)
    BY <1>1, <2>3 DEF MapMemory
  <2>4. CASE OpenFindsNothing(p) \/ SizeDiffers(p) \/ VersionDiffers(p)
    BY <1>1, <2>4 DEF OpenFindsNothing, SizeDiffers, VersionDiffers
  <2>5. CASE VersionMatches(p) \/ CallFails(p)
    BY <2>5 DEF VersionMatches, CallFails
  <2>6. CASE AdoptObject(p) \/ CreateObject(p) \/ InitializeSize(p)
             \/ InitializeBuffer(p) \/ UnlinkAfterFailure(p)
    BY <1>1, <2>6 DEF AdoptObject, CreateObject, InitializeSize, InitializeBuffer,
       UnlinkAfterFailure
  <2> QED
    BY <1>2, <2>1, <2>2, <2>3, <2>4, <2>5, <2>6 DEF ConstructorStep
<1>3. CASE ProgramStep(p)
  BY <1>1, <1>3 DEF ProgramStep, Ends, CreateTool, DestroyTool, PublisherTool, ConsumerTool,
     CameraProducer, PythonProgram, InitializeSharedMemory, DestroySharedMemory,
     StreamObject, CollectObject, Begin, Starts, StartsWith, PythonReturns
<1> QED
  BY <1>2, <1>3

(* A process keeps its build as long as it is in a call.                    *)
LEMMA BuildStays ==
    ASSUME AttachInv, NEW p \in Process, NEW q \in Process,
           ConstructorStep(q) \/ ProgramStep(q),
           steady[p], SteadyInv, pc'[p] \in Opening
    PROVE  build'[p] = build[p]
  BY DEF AttachInv, CallsOK, TypeOK, SteadyInv, Opening, ConstructorStep, ProgramStep, Goto,
     kernelVars, callVars, programVars, processVars,
     AdoptObject, CreateObject, OpenObject, OpenFindsNothing, SizeMatches, SizeDiffers,
     InitializeSize, MapMemory, InitializeBuffer, VersionMatches, VersionDiffers, CallFails,
     UnlinkAfterFailure, ReturnsValid, Ends, CreateTool, DestroyTool, PublisherTool,
     ConsumerTool, CameraProducer, PythonProgram, InitializeSharedMemory,
     DestroySharedMemory, StreamObject, CollectObject, Begin, Starts, StartsWith,
     PythonReturns

(* A step of one process leaves the call of another alone.                  *)
LEMMA OtherCallStays ==
    ASSUME AttachInv, NEW p \in Process, NEW q \in Process, p # q,
           ConstructorStep(q) \/ ProgramStep(q)
    PROVE  UNCHANGED <<pc[p], fd[p], mapping[p]>>
<1> USE DEF AttachInv, CallsOK, TypeOK, Goto, Cleanup, kernelVars, callVars, programVars,
            processVars
<1>1. CASE ConstructorStep(q)
  BY <1>1 DEF ConstructorStep,
     AdoptObject, CreateObject, OpenObject, OpenFindsNothing, SizeMatches, SizeDiffers,
     InitializeSize, MapMemory, InitializeBuffer, VersionMatches, VersionDiffers, CallFails,
     UnlinkAfterFailure, ReturnsValid
<1>2. CASE ProgramStep(q)
  BY <1>2 DEF ProgramStep, Ends, CreateTool, DestroyTool, PublisherTool,
     ConsumerTool, CameraProducer, PythonProgram, InitializeSharedMemory,
     DestroySharedMemory, StreamObject, CollectObject, Begin, Starts, StartsWith,
     PythonReturns
<1> QED
  BY <1>1, <1>2

LEMMA StepSteady ==
    ASSUME AttachInv, AttachInv', SteadyInv, Observe,
           NEW q \in Process, ConstructorStep(q) \/ ProgramStep(q)
    PROVE  SteadyInv'
<1> SUFFICES ASSUME NEW p \in Process, steady'[p]
             PROVE  /\ call'[p] \in {"OpenValidated", "OpenUnvalidated"}
                    /\ Usable(p)'
                    /\ pc'[p] \in {"open"} \cup Opening
                    /\ pc'[p] \in {"fstat", "mmap"} => fd'[p] = name'
                    /\ pc'[p] = "validate" => mapping'[p] = name'
                    /\ pc'[p] # "refused"
  BY DEF SteadyInv, Opening
<1>1. /\ call'[p] \in {"OpenValidated", "OpenUnvalidated"}
      /\ \/ pc'[p] = "open" /\ Usable(p)'
         \/ pc'[p] \in Opening /\ steady[p] /\ Undisturbed(p)
  BY DEF Observe
<1>2. CASE pc'[p] = "open" /\ Usable(p)'
  BY <1>1, <1>2
<1>3. CASE pc'[p] \in Opening /\ steady[p] /\ Undisturbed(p)
  <2>1. Usable(p)'
    <3>1. Usable(p)
      BY <1>3 DEF SteadyInv
    <3> QED
      BY <1>3, <3>1, BuildStays, UsableStays
  <2>2. CASE p = q
    BY <1>1, <1>3, <2>1, <2>2, OwnStepSteady
  <2>3. CASE p # q
    <3>1. UNCHANGED <<pc[p], fd[p], mapping[p]>>
      BY <2>3, OtherCallStays
    <3>2. name' = name
      BY <1>3 DEF Undisturbed
    <3> QED
      BY <1>1, <1>3, <2>1, <3>1, <3>2 DEF SteadyInv
  <2> QED
    BY <2>2, <2>3
<1> QED
  BY <1>1, <1>2, <1>3

LEMMA SteadyInvariant == Spec => []SteadyInv
<1>1. ASSUME AttachInv, AttachInv', SteadyInv, [Next]_vars
      PROVE  SteadyInv'
  <2>1. CASE Next
    BY <1>1, <2>1, StepSteady DEF Next
  <2>2. CASE UNCHANGED vars
    BY <1>1, <2>2 DEF SteadyInv, Usable, vars, kernelVars, processVars, callVars, programVars
  <2> QED
    BY <1>1, <2>1, <2>2
<1> QED
  BY <1>1, InitSteady, AttachInvariant, PTL DEF Spec

(* Whoever opens a segment that stays there and usable is not refused, even *)
(* while a process of the same format creates it again (camera_producer.cc: *)
(* 65-68).                                                                  *)
THEOREM AvailableIsOpenedTheorem == Spec => []AvailableIsOpened
<1>1. SteadyInv => AvailableIsOpened
  BY DEF SteadyInv, AvailableIsOpened
<1> QED
  BY <1>1, SteadyInvariant, PTL
=============================================================================
