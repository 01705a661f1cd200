---------------------------- MODULE SequenceWord ----------------------------
(***************************************************************************)
(* The packed words as the numbers they are in the segment, unsigned words  *)
(* whose highest bit is the writing flag (shared_memory_streaming.h:50-62), *)
(* and the frame count that feeds them, which wraps at the width of the     *)
(* word and not at that of the sequence number.  The theorems justify what  *)
(* the other modules use instead: records, and a count modulo               *)
(* SequenceModulus.                                                         *)
(***************************************************************************)
EXTENDS SharedMemoryBuffer, TLAPS

WordModulus == 2 * SequenceModulus      \* 2^32
Word == 0 .. WordModulus - 1

(* SequenceModulus is the mask of the flag, and what it leaves the mask of  *)
(* the sequence.                                                            *)
kWritingBitMask == SequenceModulus
GetSequence(packed_value) == packed_value % SequenceModulus
IsWriting(packed_value) == packed_value >= kWritingBitMask

PackWord(sequence, is_writing) ==
    GetSequence(sequence) + (IF is_writing THEN kWritingBitMask ELSE 0)

(* The record that stands for a word.                                       *)
Unpack(packed_value) ==
    [sequence |-> GetSequence(packed_value), writing |-> IsWriting(packed_value)]

NextFrameCount(frame_count) == (frame_count + 1) % WordModulus
MonitorSequence(frame_count) == GetSequence((frame_count + 1) % WordModulus)

-----------------------------------------------------------------------------
USE SequenceModulusAssumption

(* The remainder is the only number in its range a multiple away.           *)
LEMMA RemainderUnique ==
    ASSUME NEW m \in Nat \ {0}, NEW r \in 0 .. m - 1, NEW q \in {0, 1}
    PROVE  (m * q + r) % m = r
<1> DEFINE x == m * q + r
<1> DEFINE d == x \div m
<1> DEFINE e == x % m
<1>1. x \in Nat /\ d \in Int /\ e \in 0 .. m - 1 /\ x = m * d + e
  OBVIOUS
<1> HIDE DEF d, e
<1>2. m * q \in Int /\ m * d \in Int /\ m * q + r = m * d + e
  BY <1>1
<1>3. m * (d - q) = m * d - m * q
  BY <1>1
<1>4. m * (d - q) = r - e
  BY <1>1, <1>2, <1>3
<1>5. d - q >= 1 => m * (d - q) >= m
  BY <1>1
<1>6. d - q <= -1 => m * (d - q) <= -m
  BY <1>1
<1>7. d = q
  BY <1>1, <1>4, <1>5, <1>6
<1>8. e = r
  BY <1>1, <1>2, <1>7
<1> QED
  BY <1>8 DEF e

(* What masking does to a word: it takes off the flag, if it is there.      *)
LEMMA MaskedWord ==
    ASSUME NEW w \in Word
    PROVE  GetSequence(w) = IF IsWriting(w) THEN w - SequenceModulus ELSE w
<1>1. CASE IsWriting(w)
  <2>1. w - SequenceModulus \in 0 .. SequenceModulus - 1
    BY <1>1 DEF Word, WordModulus, IsWriting, kWritingBitMask
  <2>2. w = SequenceModulus * 1 + (w - SequenceModulus)
    BY DEF Word, WordModulus
  <2> QED
    BY <1>1, <2>1, <2>2, RemainderUnique DEF GetSequence
<1>2. CASE ~IsWriting(w)
  <2>1. w \in 0 .. SequenceModulus - 1
    BY <1>2 DEF Word, WordModulus, IsWriting, kWritingBitMask
  <2>2. w = SequenceModulus * 0 + w
    BY <2>1
  <2> QED
    BY <1>2, <2>1, <2>2, RemainderUnique DEF GetSequence
<1> QED
  BY <1>1, <1>2

(* So a masked word is a sequence number.                                   *)
LEMMA SequenceRange ==
    ASSUME NEW w \in Word
    PROVE  GetSequence(w) \in Sequence
BY MaskedWord DEF Word, WordModulus, Sequence, IsWriting, kWritingBitMask

(* What is packed fits the word, and unpacks to the masked sequence number  *)
(* and the flag: the record that the other modules pack instead             *)
(* (shared_memory_streaming.h:53-62).                                       *)
THEOREM WordIsRecord ==
    ASSUME NEW sequence \in Word, NEW is_writing \in BOOLEAN
    PROVE  /\ PackWord(sequence, is_writing) \in Word
           /\ Unpack(PackWord(sequence, is_writing))
                  = PackSequenceAndWriting(sequence, is_writing)
<1> DEFINE s == GetSequence(sequence)
           w == PackWord(sequence, is_writing)
<1>1. s \in 0 .. SequenceModulus - 1
  BY SequenceRange DEF Sequence
<1>2. w = IF is_writing THEN s + SequenceModulus ELSE s
  BY <1>1 DEF PackWord, kWritingBitMask
<1> HIDE DEF s, w
<1>3. w \in Word
  BY <1>1, <1>2 DEF Word, WordModulus
<1>4. IsWriting(w) = is_writing
  BY <1>1, <1>2 DEF IsWriting, kWritingBitMask
<1>5. GetSequence(w) = s
  BY <1>1, <1>2, <1>3, <1>4, MaskedWord
<1> QED
  BY <1>3, <1>4, <1>5 DEF s, w, Unpack, PackSequenceAndWriting, GetSequence

(* Two words are equal exactly if their records are: what FUTEX_WAIT and    *)
(* the monitor's validation compare (shared_memory_monitor_impl.h:143-153). *)
THEOREM WordsCompareAsRecords ==
    ASSUME NEW v \in Word, NEW w \in Word
    PROVE  v = w <=> Unpack(v) = Unpack(w)
<1> SUFFICES ASSUME Unpack(v) = Unpack(w)
             PROVE  v = w
  OBVIOUS
<1>1. GetSequence(v) = GetSequence(w) /\ (IsWriting(v) <=> IsWriting(w))
  BY DEF Unpack, IsWriting
<1> QED
  BY <1>1, MaskedWord DEF Word, WordModulus

(* The frame count wraps at twice the sequence numbers' modulus, and its    *)
(* masked value goes round with them all the same: the number of the frame  *)
(* after one with number s is s + 1 modulo SequenceModulus, through the     *)
(* wrap of the mask and through that of the word                            *)
(* (shared_memory_streaming_impl.h:98-108).                                 *)
THEOREM FrameCountWraps ==
    ASSUME NEW frame_count \in Word
    PROVE  /\ NextFrameCount(frame_count) \in Word
           /\ MonitorSequence(frame_count)
                  = (GetSequence(frame_count) + 1) % SequenceModulus
<1> DEFINE s == GetSequence(frame_count)
           n == NextFrameCount(frame_count)
<1>1. s \in 0 .. SequenceModulus - 1
  BY SequenceRange DEF Sequence
<1>2. frame_count = IF IsWriting(frame_count) THEN s + SequenceModulus ELSE s
  BY MaskedWord DEF Word, WordModulus
<1>3. WordModulus \in Nat \ {0}
  BY DEF WordModulus
<1>4. n = IF frame_count = WordModulus - 1 THEN 0 ELSE frame_count + 1
  <2>1. CASE frame_count = WordModulus - 1
    <3>1. frame_count + 1 = WordModulus * 1 + 0
      BY <1>3, <2>1
    <3> QED
      BY <1>3, <2>1, <3>1, RemainderUnique DEF NextFrameCount
  <2>2. CASE frame_count # WordModulus - 1
    <3>1. frame_count + 1 = WordModulus * 0 + (frame_count + 1)
      BY <1>3 DEF Word
    <3>2. frame_count + 1 \in 0 .. WordModulus - 1
      BY <1>3, <2>2 DEF Word
    <3> QED
      BY <1>3, <2>2, <3>1, <3>2, RemainderUnique DEF NextFrameCount
  <2> QED
    BY <2>1, <2>2
<1>5. n \in Word
  BY <1>3, <1>4 DEF Word
<1>6. (s + 1) % SequenceModulus = IF s = SequenceModulus - 1 THEN 0 ELSE s + 1
  <2>1. CASE s = SequenceModulus - 1
    <3>1. s + 1 = SequenceModulus * 1 + 0
      BY <2>1
    <3> QED
      BY <2>1, <3>1, RemainderUnique
  <2>2. CASE s # SequenceModulus - 1
    <3>1. s + 1 = SequenceModulus * 0 + (s + 1)
      BY <1>1
    <3>2. s + 1 \in 0 .. SequenceModulus - 1
      BY <1>1, <2>2
    <3> QED
      BY <2>2, <3>1, <3>2, RemainderUnique
  <2> QED
    BY <2>1, <2>2
<1>7. GetSequence(n) = IF s = SequenceModulus - 1 THEN 0 ELSE s + 1
  <2>1. GetSequence(n) = IF n >= SequenceModulus THEN n - SequenceModulus ELSE n
    BY <1>5, MaskedWord DEF IsWriting, kWritingBitMask
  <2> HIDE DEF s, n
  <2> QED
    BY <1>1, <1>2, <1>4, <2>1 DEF WordModulus, IsWriting, kWritingBitMask
<1> QED
  BY <1>5, <1>6, <1>7 DEF MonitorSequence, NextFrameCount
=============================================================================
