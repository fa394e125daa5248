------------------------------ MODULE SlotStore ------------------------------
(* What the single Resume Slot promises, without files, handles or callers:   *)
(* at most one interrupted operation; its record moves only along the legal   *)
(* transitions; an image gets its completed name only from a commit-ready     *)
(* record; and once it has it, the record goes only while the completed image *)
(* is intact.  A record that is made or replaced is on its disk at once; that *)
(* it goes, and that an image gets its name, reaches the disks later and in   *)
(* any order, and a power loss takes back what has not.  ResumeSlot           *)
(* implements this specification.                                             *)
EXTENDS Checkpoint

VARIABLES slot,       \* the one record, or NoSlot
          published,  \* operations whose image was given its completed name
          spoiled,    \* published images that others then changed or removed
          mSlot,      \* slot and published as they are on their disks
          mPublished

storeVars == <<slot, published, spoiled, mSlot, mPublished>>

StoreInit ==
  /\ slot = NoSlot /\ published = {} /\ spoiled = {}
  /\ mSlot = NoSlot /\ mPublished = {}

Create ==
  /\ slot = NoSlot
  /\ \E op \in Ops \ (published \cup mPublished), owned \in BOOLEAN :
       slot' = FirstRecord(op, owned)
  /\ mSlot' = slot'
  /\ UNCHANGED <<published, spoiled, mPublished>>

Replace ==
  /\ slot # NoSlot
  /\ slot.op \notin published
  /\ slot' \in Successors(slot)
  /\ mSlot' = slot'
  /\ UNCHANGED <<published, spoiled, mPublished>>

Publish ==
  /\ slot # NoSlot
  /\ slot.owned /\ slot.phase = "commit_ready"
  /\ slot.op \notin published
  /\ published' = published \cup {slot.op}
  /\ UNCHANGED <<slot, spoiled, mSlot, mPublished>>

Retire ==
  /\ slot # NoSlot
  /\ slot.op \in published \ spoiled
  /\ slot' = NoSlot
  /\ UNCHANGED <<published, spoiled, mSlot, mPublished>>

Drop ==
  /\ slot # NoSlot
  /\ slot.op \notin published
  /\ slot' = NoSlot
  /\ UNCHANGED <<published, spoiled, mSlot, mPublished>>

Spoil ==
  /\ \E op \in published : spoiled' = spoiled \cup {op}
  /\ UNCHANGED <<slot, published, mSlot, mPublished>>

Settle ==
  /\ \/ mSlot' = slot /\ UNCHANGED mPublished
     \/ /\ \E op \in Ops :
             mPublished' = (mPublished \ {op}) \cup (published \cap {op})
        /\ UNCHANGED mSlot
  /\ UNCHANGED <<slot, published, spoiled>>

\* A record that stands is on its disk: only one that was removed can come back.
PowerLoss ==
  /\ slot # NoSlot => mSlot = slot
  /\ slot' = mSlot /\ published' = mPublished
  /\ spoiled' \subseteq spoiled
  /\ UNCHANGED <<mSlot, mPublished>>

StoreNext == Create \/ Replace \/ Publish \/ Retire \/ Drop \/ Spoil \/ Settle
               \/ PowerLoss

StoreSpec == StoreInit /\ [][StoreNext]_storeVars
==============================================================================
