---------------------------- MODULE AtomicSnapshot ----------------------------
(***************************************************************************)
(* What observing promises, without saying how: whatever writers do to the  *)
(* slots, a read takes one whole frame out of one slot in a single moment,  *)
(* and the frame it gives is that one; or it takes, or gives, nothing.      *)
(***************************************************************************)
CONSTANTS
    Slots,    \* places a frame can be in
    Frames    \* records with a Boolean field `complete'

VARIABLES
    content,  \* the frame in each slot
    taken,    \* the frame the read under way has taken, if any
    given     \* the frame it gives, if any

snapshotVars == <<content, taken, given>>

SnapshotInit ==
    /\ content \in [Slots -> Frames]
    /\ taken = {}
    /\ given = {}

(* Writers owe a reader nothing.                                            *)
Write ==
    /\ content' \in [Slots -> Frames]
    /\ UNCHANGED <<taken, given>>

TakeFrom(slot) ==
    /\ taken = {}
    /\ content[slot].complete
    /\ taken' = {content[slot]}
    /\ UNCHANGED <<content, given>>

Give ==
    /\ taken # {}
    /\ given = {}
    /\ given' = taken
    /\ UNCHANGED <<content, taken>>

(* With the frame given, or without it.                                     *)
EndRead ==
    /\ taken' = {}
    /\ given' = {}
    /\ UNCHANGED content

SnapshotNext ==
    \/ Write
    \/ \E slot \in Slots : TakeFrom(slot)
    \/ Give
    \/ EndRead

SnapshotSpec == SnapshotInit /\ [][SnapshotNext]_snapshotVars
=============================================================================
