--------------------------- MODULE SnapshotHandoff ---------------------------
(***************************************************************************)
(* What the producer/consumer path of samosa promises, without saying how:  *)
(* frames are written in slots; one slot at a time may be offered to the    *)
(* consumer, only with a whole frame it has not had yet; an offered slot is *)
(* left alone until the offer is withdrawn; the consumer takes the frame of *)
(* the slot on offer, once, and never after a newer one.                    *)
(***************************************************************************)
CONSTANTS
    Slots,    \* places a frame can be in
    Frames,   \* records with a Boolean field `complete'
    NoSlot    \* the value of `offered' when nothing is on offer

VARIABLES
    content,  \* the frame in each slot
    fresh,    \* slots whose frame is newer than every frame taken
    offered,  \* the slot on offer
    taken     \* is the consumer working on the offered frame?

handoffVars == <<content, fresh, offered, taken>>

HandoffInit ==
    /\ content \in [Slots -> Frames]
    /\ fresh = {}
    /\ offered = NoSlot
    /\ taken = FALSE

(* The frame of a slot that is not on offer is begun, or completed.         *)
Write(slot) ==
    /\ slot # offered
    /\ \E frame \in Frames :
         /\ content' = [content EXCEPT ![slot] = frame]
         /\ fresh' = IF frame.complete THEN fresh \cup {slot} ELSE fresh \ {slot}
    /\ UNCHANGED <<offered, taken>>

Offer(slot) ==
    /\ offered = NoSlot
    /\ content[slot].complete
    /\ slot \in fresh
    /\ offered' = slot
    /\ UNCHANGED <<content, fresh, taken>>

Withdraw ==
    /\ ~taken
    /\ offered' = NoSlot
    /\ UNCHANGED <<content, fresh, taken>>

(* Taking a frame makes the older ones stale.                               *)
Take ==
    /\ ~taken
    /\ offered \in fresh
    /\ taken' = TRUE
    /\ fresh' \in SUBSET (fresh \ {offered})
    /\ UNCHANGED <<content, offered>>

Finish ==
    /\ taken
    /\ taken' = FALSE
    /\ UNCHANGED <<content, fresh, offered>>

HandoffNext ==
    \/ \E slot \in Slots : Write(slot) \/ Offer(slot)
    \/ Withdraw
    \/ Take
    \/ Finish

HandoffSpec == HandoffInit /\ [][HandoffNext]_handoffVars
=============================================================================
