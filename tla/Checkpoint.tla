----------------------------- MODULE Checkpoint ------------------------------
(* The record kept by the single Resume Slot and the transitions              *)
(* validate_checkpoint_transition admits between two of them.  Hashes,        *)
(* identities and the continuity token, which a replacement must not change,  *)
(* are the operation `op' itself.  Schema 1 (phases executing and verifying), *)
(* which no current operation creates, is left out.                           *)
EXTENDS Naturals

CONSTANTS MaxOps,     \* operations that are ever started
          MaxWork,    \* expected_work_bytes of every operation, in verified chunks
          MaxRev,     \* the largest revision (2^64 - 1 in the code)
          NoSlot      \* "no record": an absent active.checkpoint

ASSUME BoundsAssumption ==
  /\ MaxOps \in Nat \ {0}
  /\ MaxWork \in Nat \ {0}
  /\ MaxRev \in Nat \ {0}

Ops == 1 .. MaxOps

Phases == {"preparing", "prepared", "commit_ready"}

\* `owned' tells an image creation, which owns an image partial and a resume
\* journal (capability 8), from a restore, which owns no file.
SlotRecord == [op : Ops, owned : BOOLEAN, revision : 1 .. MaxRev,
               phase : Phases, work : 0 .. MaxWork]

ASSUME NoSlotAssumption == NoSlot \notin SlotRecord

FirstRecord(op, owned) ==
  [op |-> op, owned |-> owned, revision |-> 1, phase |-> "preparing", work |-> 0]

\* validate_checkpoint: what a phase says of the verified work.
ValidCheckpoint(r) ==
  /\ r.phase = "preparing" => r.work = 0
  /\ r.phase = "commit_ready" => r.work = MaxWork

\* The phases a record may move between, and with what progress.
AllowedPhaseTransition(r, n) ==
  \/ r.phase = "preparing" /\ n.phase = "prepared" /\ n.work = r.work
  \/ r.phase = "prepared" /\ n.phase = "prepared" /\ n.work > r.work
  \/ r.phase = "prepared" /\ n.phase = "commit_ready" /\ n.work = r.work

\* validate_checkpoint_transition; a record at the last revision has no
\* successor.
ValidTransition(r, n) ==
  /\ n.op = r.op /\ n.owned = r.owned
  /\ r.revision < MaxRev
  /\ n.revision = r.revision + 1
  /\ ValidCheckpoint(r) /\ ValidCheckpoint(n)
  /\ AllowedPhaseTransition(r, n)

\* The records that may replace r.
Successors(r) == {n \in SlotRecord : ValidTransition(r, n)}
==============================================================================
