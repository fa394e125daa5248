----------------------------- MODULE ResumeSlot ------------------------------
(* The single Resume Slot: data\active.checkpoint, its stage file and the     *)
(* files it owns, used by several controllers at once (nothing stops a second *)
(* instance of the program from running).  A controller is one call of the    *)
(* program at a time: it creates an operation's slot, replaces it at every    *)
(* verified boundary, and finally commits the completed image or discards the *)
(* slot.  An action is what the code does between two points where another    *)
(* process, a crash or a power loss can come in.                              *)
(*                                                                            *)
(* Windows file semantics, as the code relies on them: CREATE_NEW and the     *)
(* renames without replacement are exclusive; a handle opened with DELETE and *)
(* FILE_SHARE_READ only keeps every other opener for reading or deleting out; *)
(* a file marked for deletion goes when its handle is closed, also by the     *)
(* death of the process, and stays when the power is lost before that.        *)
(*                                                                            *)
(* The record and the image's files are on two disks, which the program       *)
(* demands.  A record is moved into place write-through; its removal, and the *)
(* creation, the rename and the removal of the image's files, are not         *)
(* flushed: each reaches its disk in its own time, and a power loss leaves    *)
(* what had.  The flush of a file makes its name durable as well.             *)
EXTENDS Checkpoint

CONSTANTS Controllers,     \* concurrent callers of the slot
          Torn,            \* the contents of a stage file written in part
          MaxFaults        \* bound on user interferences and failed rollbacks

ASSUME TornAssumption == Torn \notin SlotRecord \cup {NoSlot}
ASSUME FaultsAssumption == MaxFaults \in Nat

VARIABLES
  checkpoint,  \* the record in data\active.checkpoint, NoSlot when absent
  stage,       \* the contents of active.checkpoint.new, NoSlot when absent
  partials,    \* operations whose image partial exists
  journals,    \* operations whose resume journal exists
  finals,      \* operations whose image exists under its completed name
  occupied,    \* operations whose completed name belongs to another file
  damaged,     \* published images whose content a user then changed
  gone,        \* published images a user then removed
  mCheckpoint, \* the record on its disk: what a power loss leaves of it
  mPartials,   \* the operations' image partials, resume journals and completed
  mJournals,   \* images on their own disk: what a power loss leaves of them
  mFinals,
  nextOp,      \* the id of the next new operation
  slotted,     \* history: operations whose record has been in the slot
  faults,      \* number of user interferences and failed rollbacks so far
  pc,          \* where each controller is
  mem,         \* the record each controller is bound to (its reviewed binding)
  nxt          \* the record each controller is writing

files == <<partials, journals, finals, occupied, damaged, gone>>
medium == <<mCheckpoint, mPartials, mJournals, mFinals>>
vars == <<checkpoint, stage, partials, journals, finals, occupied, damaged, gone,
          mCheckpoint, mPartials, mJournals, mFinals, nextOp, slotted, faults,
          pc, mem, nxt>>

CreateSteps == {"create_load", "create_stage", "create_check", "create_move",
                "create_readback"}
ReplaceSteps == {"replace_stage", "replace_check", "replace_swap",
                 "replace_readback"}
CommitSteps == {"commit_open", "commit_publish", "commit_relock",
                "commit_verify", "commit_journal", "commit_retire",
                "commit_end"}
DiscardSteps == {"discard_open", "discard_mark", "discard_mark_image",
                 "discard_mark_journal", "discard_close",
                 "discard_close_objects"}
Steps == {"idle", "reviewed", "run"} \cup CreateSteps \cup ReplaceSteps
           \cup CommitSteps \cup DiscardSteps

\* Steps with a written stage file that is not yet in place.
StagedSteps == {"create_check", "create_move", "replace_check", "replace_swap"}

\* Steps that hold the checkpoint's DELETE handle.
HoldSteps == {"commit_publish", "commit_relock", "commit_verify",
              "commit_journal", "commit_retire", "discard_mark",
              "discard_mark_image", "discard_mark_journal", "discard_close"}

\* Steps that hold handles of the partial or the journal: a worker writes
\* them, a commit and a discard have them open for deletion.
WorkSteps == {"run"} \cup CreateSteps \cup ReplaceSteps
ObjectSteps == WorkSteps \cup HoldSteps \cup {"discard_close_objects"}

\* Mutant of LockSteps: the read lock is released once the image is verified.
LockStepsUntilVerified == {"commit_verify"}

\* Steps that hold the read lock of the published image.
LockSteps == {"commit_verify", "commit_journal", "commit_retire", "commit_end"}

Owned(r) == r # NoSlot /\ r.owned

SlotFree(c) == \A d \in Controllers \ {c} : pc[d] \notin HoldSteps

InUse(op, S, steps) == \E d \in S : pc[d] \in steps /\ mem[d].op = op
ObjectsFree(c, op) == ~InUse(op, Controllers \ {c}, ObjectSteps)

\* The files a record owns are all in place under their working names.
ObjectsPresent(r) == Owned(r) => r.op \in partials \cap journals

\* Mutant of IsPublished: a commit interrupted after its rename is not recognised.
IsPublishedNever(r) == FALSE

\* The image of r already has its completed name: a commit was interrupted.
IsPublished(r) ==
  /\ Owned(r) /\ r.phase = "commit_ready"
  /\ r.op \in finals \ partials

\* load_state: the checkpoint can be opened and what it owns is observed.
LoadOk(c) == SlotFree(c) /\ ObjectsPresent(checkpoint)

Init ==
  /\ checkpoint = NoSlot /\ stage = NoSlot
  /\ partials = {} /\ journals = {} /\ finals = {}
  /\ occupied = {} /\ damaged = {} /\ gone = {}
  /\ mCheckpoint = NoSlot /\ mPartials = {} /\ mJournals = {} /\ mFinals = {}
  /\ nextOp = 1 /\ slotted = {} /\ faults = 0
  /\ pc = [c \in Controllers |-> "idle"]
  /\ mem = [c \in Controllers |-> NoSlot]
  /\ nxt = [c \in Controllers |-> NoSlot]

Goto(c, from, to) == pc[c] = from /\ pc' = [pc EXCEPT ![c] = to]

\* The call of c is over, whatever its result: it forgets what it knew.
Leave(c) ==
  /\ pc' = [pc EXCEPT ![c] = "idle"]
  /\ mem' = [mem EXCEPT ![c] = NoSlot]
  /\ nxt' = [nxt EXCEPT ![c] = NoSlot]

-------------------------------------------------------------------------------
(* Starting an operation.  The start gate saw an empty slot; an image         *)
(* creation makes its partial and journal (CREATE_NEW) before the slot.       *)
Begin(c) ==
  /\ Goto(c, "idle", "create_load")
  /\ SlotFree(c) /\ checkpoint = NoSlot
  /\ nextOp <= MaxOps
  /\ \E owned \in BOOLEAN :
       LET r == FirstRecord(nextOp, owned)
           mine == IF owned THEN {nextOp} ELSE {}
       IN /\ mem' = [mem EXCEPT ![c] = r]
          /\ nxt' = [nxt EXCEPT ![c] = r]
          /\ partials' = partials \cup mine
          /\ journals' = journals \cup mine
  /\ nextOp' = nextOp + 1
  /\ UNCHANGED <<checkpoint, stage, finals, occupied, damaged, gone, medium, slotted, faults>>

\* A failure before the slot is asked for removes the files just created.
AbandonBegin(c) ==
  /\ pc[c] = "create_load"
  /\ partials' = partials \ {mem[c].op}
  /\ journals' = journals \ {mem[c].op}
  /\ Leave(c)
  /\ UNCHANGED <<checkpoint, stage, finals, occupied, damaged, gone, medium, nextOp, slotted, faults>>

\* SingleResumeSlot::create and create_fixed_slot up to the stage file.
CreateLoad(c) ==
  /\ Goto(c, "create_load", "create_stage")
  /\ LoadOk(c) /\ checkpoint = NoSlot /\ ObjectsPresent(mem[c])
  /\ UNCHANGED <<checkpoint, stage, files, medium, nextOp, slotted, faults, mem, nxt>>

\* Mutant of WriteStage: CREATE_ALWAYS instead of CREATE_NEW.
WriteStageAlways(c) ==
  /\ \/ Goto(c, "create_stage", "create_check")
     \/ Goto(c, "replace_stage", "replace_check")
  /\ stage' = nxt[c]
  /\ UNCHANGED <<checkpoint, files, medium, nextOp, slotted, faults, mem, nxt>>

\* write_verified_stage: CREATE_NEW, write, flush, read back, close.
WriteStage(c) ==
  /\ \/ Goto(c, "create_stage", "create_check")
     \/ Goto(c, "replace_stage", "replace_check")
  /\ stage = NoSlot
  /\ stage' = nxt[c]
  /\ UNCHANGED <<checkpoint, files, medium, nextOp, slotted, faults, mem, nxt>>

\* The write stops half way and the file cannot be deleted, or the process or
\* the machine dies with the file still open.
TearStage(c) ==
  /\ pc[c] \in {"create_stage", "replace_stage"}
  /\ stage = NoSlot
  /\ stage' = Torn
  /\ Leave(c)
  /\ UNCHANGED <<checkpoint, files, medium, nextOp, slotted, faults>>

CreateCheck(c) ==
  /\ Goto(c, "create_check", "create_move")
  /\ LoadOk(c) /\ checkpoint = NoSlot /\ ObjectsPresent(mem[c])
  /\ UNCHANGED <<checkpoint, stage, files, medium, nextOp, slotted, faults, mem, nxt>>

\* MoveFileExW without MOVEFILE_REPLACE_EXISTING moves whatever is staged; with
\* MOVEFILE_WRITE_THROUGH it returns when the move is on the disk.
CreateMove(c) ==
  /\ Goto(c, "create_move", "create_readback")
  /\ stage # NoSlot /\ checkpoint = NoSlot
  /\ checkpoint' = stage /\ mCheckpoint' = stage
  /\ stage' = NoSlot
  /\ slotted' = slotted \cup {mem[c].op}
  /\ UNCHANGED <<files, mPartials, mJournals, mFinals, nextOp, faults, mem, nxt>>

CreateReadback(c) ==
  /\ Goto(c, "create_readback", "run")
  /\ LoadOk(c) /\ checkpoint = nxt[c]
  /\ UNCHANGED <<checkpoint, stage, files, medium, nextOp, slotted, faults, mem, nxt>>

-------------------------------------------------------------------------------
(* A verified boundary: SingleResumeSlot::replace and replace_fixed_slot.     *)

\* Mutant of ReplaceLoad: the files are not flushed before a record counts them.
ReplaceLoadUnflushed(c) ==
  /\ Goto(c, "run", "replace_stage")
  /\ LoadOk(c) /\ checkpoint = mem[c]
  /\ \E n \in Successors(mem[c]) : nxt' = [nxt EXCEPT ![c] = n]
  /\ UNCHANGED <<checkpoint, stage, files, medium, nextOp, slotted, faults, mem>>

\* The worker flushes what it wrote to the partial and the journal, then asks
\* for the next record.
ReplaceLoad(c) ==
  /\ Goto(c, "run", "replace_stage")
  /\ LoadOk(c) /\ checkpoint = mem[c]
  /\ \E n \in Successors(mem[c]) : nxt' = [nxt EXCEPT ![c] = n]
  /\ LET mine == IF Owned(mem[c]) THEN {mem[c].op} ELSE {}
     IN mPartials' = mPartials \cup mine /\ mJournals' = mJournals \cup mine
  /\ UNCHANGED <<checkpoint, stage, files, mCheckpoint, mFinals, nextOp, slotted,
                 faults, mem>>

\* Mutant of ReplaceCheck: the slot is loaded but not compared again.
ReplaceCheckLoadOnly(c) ==
  /\ Goto(c, "replace_check", "replace_swap")
  /\ LoadOk(c)
  /\ UNCHANGED <<checkpoint, stage, files, medium, nextOp, slotted, faults, mem, nxt>>

ReplaceCheck(c) ==
  /\ Goto(c, "replace_check", "replace_swap")
  /\ LoadOk(c) /\ checkpoint = mem[c]
  /\ UNCHANGED <<checkpoint, stage, files, medium, nextOp, slotted, faults, mem, nxt>>

\* ReplaceFileW needs an existing checkpoint that nobody holds for deletion;
\* it looks at neither file's contents, and writes through like CreateMove.
ReplaceSwap(c) ==
  /\ Goto(c, "replace_swap", "replace_readback")
  /\ SlotFree(c) /\ checkpoint # NoSlot /\ stage # NoSlot
  /\ checkpoint' = stage /\ mCheckpoint' = stage
  /\ stage' = NoSlot
  /\ UNCHANGED <<files, mPartials, mJournals, mFinals, nextOp, slotted, faults, mem, nxt>>

ReplaceReadback(c) ==
  /\ Goto(c, "replace_readback", "run")
  /\ LoadOk(c) /\ checkpoint = nxt[c]
  /\ mem' = [mem EXCEPT ![c] = nxt[c]]
  /\ UNCHANGED <<checkpoint, stage, files, medium, nextOp, slotted, faults, nxt>>

\* A failure with a staged file removes that file, or fails to.
AbandonStage(c) ==
  /\ pc[c] \in StagedSteps
  /\ stage' \in {NoSlot, stage}
  /\ Leave(c)
  /\ UNCHANGED <<checkpoint, files, medium, nextOp, slotted, faults>>

-------------------------------------------------------------------------------
(* The startup review of an existing slot and what the user may choose.       *)

\* Mutant of Review: the reviewed record is not remembered.
ReviewUnbound(c) ==
  /\ Goto(c, "idle", "reviewed")
  /\ SlotFree(c) /\ checkpoint # NoSlot
  /\ ObjectsPresent(checkpoint) \/ IsPublished(checkpoint)
  /\ UNCHANGED <<checkpoint, stage, files, medium, nextOp, slotted, faults, mem, nxt>>

Review(c) ==
  /\ Goto(c, "idle", "reviewed")
  /\ SlotFree(c) /\ checkpoint # NoSlot
  /\ ObjectsPresent(checkpoint) \/ IsPublished(checkpoint)
  /\ mem' = [mem EXCEPT ![c] = checkpoint]
  /\ UNCHANGED <<checkpoint, stage, files, medium, nextOp, slotted, faults, nxt>>

\* Resuming opens the partial and the journal for writing and proves that the
\* slot is still the reviewed one.
Resume(c) ==
  /\ Goto(c, "reviewed", "run")
  /\ LoadOk(c) /\ checkpoint = mem[c]
  /\ Owned(mem[c]) => ObjectsFree(c, mem[c].op)
  /\ UNCHANGED <<checkpoint, stage, files, medium, nextOp, slotted, faults, mem, nxt>>

ChooseDiscard(c) ==
  /\ Goto(c, "reviewed", "discard_open")
  /\ ObjectsPresent(mem[c])
  /\ UNCHANGED <<checkpoint, stage, files, medium, nextOp, slotted, faults, mem, nxt>>

\* A restore that is commit-ready and done discards its own slot.
FinishRestore(c) ==
  /\ Goto(c, "run", "discard_open")
  /\ ~Owned(mem[c]) /\ mem[c].phase = "commit_ready"
  /\ UNCHANGED <<checkpoint, stage, files, medium, nextOp, slotted, faults, mem, nxt>>

\* Mutant of BeginCommit: the phase is not looked at.
BeginCommitAnyPhase(c) ==
  /\ \/ Goto(c, "run", "commit_open")
     \/ Goto(c, "reviewed", "commit_open") /\ IsPublished(mem[c])
  /\ Owned(mem[c])
  /\ UNCHANGED <<checkpoint, stage, files, medium, nextOp, slotted, faults, mem, nxt>>

\* The worker has released its handles, or an interrupted commit is taken up.
BeginCommit(c) ==
  /\ \/ Goto(c, "run", "commit_open")
     \/ Goto(c, "reviewed", "commit_open") /\ IsPublished(mem[c])
  /\ Owned(mem[c]) /\ mem[c].phase = "commit_ready"
  /\ UNCHANGED <<checkpoint, stage, files, medium, nextOp, slotted, faults, mem, nxt>>

-------------------------------------------------------------------------------
(* commit_persistent_pe_exact_image_create.                                   *)

\* Load, compare with the reviewed binding and open every file exactly.
CommitOpen(c) ==
  /\ pc[c] = "commit_open"
  /\ SlotFree(c) /\ checkpoint = mem[c]
  /\ ObjectsFree(c, mem[c].op)
  /\ \/ /\ ObjectsPresent(mem[c])
        /\ mem[c].op \notin finals \cup occupied
        /\ Goto(c, "commit_open", "commit_publish")
     \/ /\ IsPublished(mem[c])
        /\ Goto(c, "commit_open", "commit_relock")
  /\ UNCHANGED <<checkpoint, stage, files, medium, nextOp, slotted, faults, mem, nxt>>

\* Mutant of CommitPublish: a rename that replaces what has the completed name.
CommitPublishReplacing(c) ==
  /\ Goto(c, "commit_publish", "commit_relock")
  /\ partials' = partials \ {mem[c].op}
  /\ finals' = finals \cup {mem[c].op}
  /\ UNCHANGED <<checkpoint, stage, journals, occupied, damaged, gone, medium, nextOp, slotted,
                 faults, mem, nxt>>

\* The last proofs, then the rename of the open handle without replacement.
CommitPublish(c) ==
  /\ Goto(c, "commit_publish", "commit_relock")
  /\ mem[c].op \notin finals \cup occupied
  /\ partials' = partials \ {mem[c].op}
  /\ finals' = finals \cup {mem[c].op}
  /\ UNCHANGED <<checkpoint, stage, journals, occupied, damaged, gone, medium, nextOp, slotted,
                 faults, mem, nxt>>

\* The rename handle was dropped; a read lock is taken and the File ID compared.
CommitRelock(c) ==
  /\ Goto(c, "commit_relock", "commit_verify")
  /\ mem[c].op \in finals
  /\ UNCHANGED <<checkpoint, stage, files, medium, nextOp, slotted, faults, mem, nxt>>

\* Mutant of CommitVerify: only the presence of the image is checked.
CommitVerifyPresence(c) ==
  /\ Goto(c, "commit_verify", "commit_journal")
  /\ mem[c].op \in finals
  /\ UNCHANGED <<checkpoint, stage, files, medium, nextOp, slotted, faults, mem, nxt>>

\* The complete image is read and verified against the checkpoint.
CommitVerify(c) ==
  /\ Goto(c, "commit_verify", "commit_journal")
  /\ mem[c].op \in finals \ damaged
  /\ UNCHANGED <<checkpoint, stage, files, medium, nextOp, slotted, faults, mem, nxt>>

CommitJournal(c) ==
  /\ Goto(c, "commit_journal", "commit_retire")
  /\ journals' = journals \ {mem[c].op}
  /\ UNCHANGED <<checkpoint, stage, partials, finals, occupied, damaged, gone, medium, nextOp,
                 slotted, faults, mem, nxt>>

CommitRetire(c) ==
  /\ Goto(c, "commit_retire", "commit_end")
  /\ checkpoint' = NoSlot
  /\ UNCHANGED <<stage, files, medium, nextOp, slotted, faults, mem, nxt>>

CommitEnd(c) ==
  /\ pc[c] = "commit_end"
  /\ Leave(c)
  /\ UNCHANGED <<checkpoint, stage, files, medium, nextOp, slotted, faults>>

-------------------------------------------------------------------------------
(* discard_fixed_slot_and_owned_partial.                                      *)

\* Mutant of DiscardOpen: the record found at deletion time is not compared
\* with the reviewed one.
DiscardOpenUnreviewed(c) ==
  /\ Goto(c, "discard_open", "discard_mark")
  /\ LoadOk(c) /\ checkpoint # NoSlot
  /\ Owned(mem[c]) => ObjectsFree(c, mem[c].op)
  /\ UNCHANGED <<checkpoint, stage, files, medium, nextOp, slotted, faults, mem, nxt>>

DiscardOpen(c) ==
  /\ Goto(c, "discard_open", "discard_mark")
  /\ LoadOk(c) /\ checkpoint = mem[c]
  /\ Owned(mem[c]) => ObjectsFree(c, mem[c].op)
  /\ UNCHANGED <<checkpoint, stage, files, medium, nextOp, slotted, faults, mem, nxt>>

\* Delete marks: the checkpoint first, then the partial and the journal.
DiscardMark(c) ==
  /\ \/ Goto(c, "discard_mark", "discard_mark_image") /\ Owned(mem[c])
     \/ Goto(c, "discard_mark", "discard_close") /\ ~Owned(mem[c])
     \/ Goto(c, "discard_mark_image", "discard_mark_journal")
     \/ Goto(c, "discard_mark_journal", "discard_close")
  /\ UNCHANGED <<checkpoint, stage, files, medium, nextOp, slotted, faults, mem, nxt>>

\* The files c has marked for deletion and not closed yet.
Pending(c) ==
  CASE pc[c] = "discard_mark_image" -> {"checkpoint"}
    [] pc[c] = "discard_mark_journal" -> {"checkpoint", "partial"}
    [] pc[c] = "discard_close" ->
         IF Owned(mem[c]) THEN {"checkpoint", "partial", "journal"}
                          ELSE {"checkpoint"}
    [] pc[c] = "discard_close_objects" -> {"partial", "journal"}
    [] OTHER -> {}

\* The handles of c are closed: the files of `marks' disappear.
Vanish(c, marks) ==
  /\ checkpoint' = IF "checkpoint" \in marks THEN NoSlot ELSE checkpoint
  /\ partials' = IF "partial" \in marks THEN partials \ {mem[c].op} ELSE partials
  /\ journals' = IF "journal" \in marks THEN journals \ {mem[c].op} ELSE journals

\* A mark is refused: the marks already set are cleared, each of them if the
\* system lets it, and the handles are closed.
DiscardRollback(c) ==
  /\ pc[c] \in {"discard_mark_image", "discard_mark_journal"}
  /\ \/ Vanish(c, {}) /\ UNCHANGED faults
     \/ /\ faults < MaxFaults
        /\ faults' = faults + 1
        /\ \E stuck \in SUBSET Pending(c) : Vanish(c, stuck)
  /\ Leave(c)
  /\ UNCHANGED <<stage, finals, occupied, damaged, gone, medium, nextOp, slotted>>

\* The checkpoint's handle is closed first, the objects' handles after it.
DiscardClose(c) ==
  /\ pc[c] = "discard_close"
  /\ Vanish(c, {"checkpoint"})
  /\ IF Owned(mem[c])
       THEN /\ Goto(c, "discard_close", "discard_close_objects")
            /\ UNCHANGED <<mem, nxt>>
       ELSE Leave(c)
  /\ UNCHANGED <<stage, finals, occupied, damaged, gone, medium, nextOp, slotted, faults>>

DiscardCloseObjects(c) ==
  /\ pc[c] = "discard_close_objects"
  /\ Vanish(c, {"partial", "journal"})
  /\ Leave(c)
  /\ UNCHANGED <<stage, finals, occupied, damaged, gone, medium, nextOp, slotted, faults>>

-------------------------------------------------------------------------------
(* A refused check, an I/O error, a cancellation: the call ends and leaves    *)
(* the files as they are.                                                     *)
Abandon(c) ==
  /\ pc[c] \in {"reviewed", "run"} \cup CreateSteps \cup ReplaceSteps
                 \cup (CommitSteps \ {"commit_end"})
                 \cup {"discard_open", "discard_mark"}
  /\ pc[c] \notin StagedSteps
  /\ Leave(c)
  /\ UNCHANGED <<checkpoint, stage, files, medium, nextOp, slotted, faults>>

\* The process dies: Windows closes its handles, so what it had marked goes.
Crash(c) ==
  /\ pc[c] # "idle"
  /\ Vanish(c, Pending(c))
  /\ Leave(c)
  /\ UNCHANGED <<stage, finals, occupied, damaged, gone, medium, nextOp, slotted, faults>>

\* A change of the image's name, of its journal or of the record reaches its
\* disk, in any order: the rename of the image moves both its names at once.
WriteBack ==
  /\ \/ mCheckpoint' = checkpoint /\ UNCHANGED <<mPartials, mJournals, mFinals>>
     \/ \E op \in Ops :
          /\ mPartials' = (mPartials \ {op}) \cup (partials \cap {op})
          /\ mFinals' = (mFinals \ {op}) \cup (finals \cap {op})
          /\ UNCHANGED <<mCheckpoint, mJournals>>
     \/ \E op \in Ops :
          /\ mJournals' = (mJournals \ {op}) \cup (journals \cap {op})
          /\ UNCHANGED <<mCheckpoint, mPartials, mFinals>>
  /\ UNCHANGED <<checkpoint, stage, files, nextOp, slotted, faults, pc, mem, nxt>>

\* The power goes: every process is gone, no pending deletion happens, and the
\* record and the files are what their disks hold of them.
PowerLoss ==
  /\ pc' = [c \in Controllers |-> "idle"]
  /\ mem' = [c \in Controllers |-> NoSlot]
  /\ nxt' = [c \in Controllers |-> NoSlot]
  /\ checkpoint' = mCheckpoint
  /\ partials' = mPartials /\ journals' = mJournals /\ finals' = mFinals
  /\ gone' = gone \ (mPartials \cup mFinals)
  /\ UNCHANGED <<stage, occupied, damaged, medium, nextOp, slotted, faults>>

\* Users see the image's folder (not the program's data folder): they may
\* remove a working file, take the completed name, or remove or change a
\* completed image, unless the program holds the file.
Touch(op) ==
  /\ faults < MaxFaults
  /\ faults' = faults + 1
  /\ \/ /\ op \in partials /\ ~InUse(op, Controllers, ObjectSteps)
        /\ partials' = partials \ {op}
        /\ UNCHANGED <<journals, finals, occupied, damaged, gone>>
     \/ /\ op \in journals /\ ~InUse(op, Controllers, ObjectSteps)
        /\ journals' = journals \ {op}
        /\ UNCHANGED <<partials, finals, occupied, damaged, gone>>
     \/ /\ op \in partials /\ op \notin finals \cup occupied
        /\ occupied' = occupied \cup {op}
        /\ UNCHANGED <<partials, journals, finals, damaged, gone>>
     \/ /\ op \in finals /\ ~InUse(op, Controllers, LockSteps)
        /\ damaged' = damaged \cup {op}
        /\ UNCHANGED <<partials, journals, finals, occupied, gone>>
     \/ /\ op \in finals /\ ~InUse(op, Controllers, LockSteps)
        /\ finals' = finals \ {op} /\ gone' = gone \cup {op}
        /\ UNCHANGED <<partials, journals, occupied, damaged>>
  /\ UNCHANGED <<checkpoint, stage, medium, nextOp, slotted, pc, mem, nxt>>

Create(c) == Begin(c) \/ AbandonBegin(c) \/ CreateLoad(c) \/ CreateCheck(c)
               \/ CreateMove(c) \/ CreateReadback(c)
Replace(c) == ReplaceLoad(c) \/ ReplaceCheck(c) \/ ReplaceSwap(c)
                \/ ReplaceReadback(c)
Stage(c) == WriteStage(c) \/ TearStage(c) \/ AbandonStage(c)
Choose(c) == Review(c) \/ Resume(c) \/ ChooseDiscard(c) \/ FinishRestore(c)
               \/ BeginCommit(c)
Commit(c) == CommitOpen(c) \/ CommitPublish(c) \/ CommitRelock(c)
               \/ CommitVerify(c) \/ CommitJournal(c) \/ CommitRetire(c)
               \/ CommitEnd(c)
Discard(c) == DiscardOpen(c) \/ DiscardMark(c) \/ DiscardRollback(c)
                \/ DiscardClose(c) \/ DiscardCloseObjects(c)

CallStep(c) == Create(c) \/ Replace(c) \/ Stage(c) \/ Choose(c) \/ Commit(c)
                 \/ Discard(c) \/ Abandon(c) \/ Crash(c)

Next ==
  \/ \E c \in Controllers : CallStep(c)
  \/ WriteBack \/ PowerLoss
  \/ \E op \in Ops : Touch(op)

Spec == Init /\ [][Next]_vars

-------------------------------------------------------------------------------
(* Properties                                                                 *)

\* Every variable has its type; a controller in a call is bound to a record.
TypeOK ==
  /\ checkpoint \in SlotRecord \cup {NoSlot}
  /\ stage \in SlotRecord \cup {NoSlot, Torn}
  /\ partials \subseteq Ops /\ journals \subseteq Ops /\ finals \subseteq Ops
  /\ occupied \subseteq Ops /\ damaged \subseteq Ops /\ gone \subseteq Ops
  /\ mCheckpoint \in SlotRecord \cup {NoSlot}
  /\ mPartials \subseteq Ops /\ mJournals \subseteq Ops /\ mFinals \subseteq Ops
  /\ slotted \subseteq Ops
  /\ nextOp \in 1 .. MaxOps + 1
  /\ faults \in 0 .. MaxFaults
  /\ pc \in [Controllers -> Steps]
  /\ mem \in [Controllers -> SlotRecord \cup {NoSlot}]
  /\ nxt \in [Controllers -> SlotRecord \cup {NoSlot}]
  /\ \A c \in Controllers : pc[c] # "idle" => mem[c] \in SlotRecord

\* The stage file works as a lock: between writing it and moving it, a
\* controller finds its own record there, and no other controller has one.
StageIsMine ==
  /\ \A c \in Controllers : pc[c] \in StagedSteps => stage = nxt[c]
  /\ \A c, d \in Controllers :
       pc[c] \in StagedSteps /\ pc[d] \in StagedSteps => c = d

\* ReplaceFileW looks at no contents, yet the record it overwrites is the one
\* the caller is bound to: nobody can have put another one there meanwhile.
ReplaceHitsReviewed ==
  \A c \in Controllers :
    pc[c] = "replace_swap" => checkpoint \in {mem[c], NoSlot}

\* From the exact-open until its handle is closed, a commit or a discard works
\* on the slot the user reviewed, and on it alone.
HeldSlotIsReviewed ==
  /\ \A c \in Controllers : pc[c] \in HoldSteps => checkpoint = mem[c]
  /\ \A c, d \in Controllers :
       pc[c] \in HoldSteps /\ pc[d] \in HoldSteps => c = d

\* An active record of an image leads nowhere: neither to both working files
\* nor, once it is commit-ready, to the completed image.
Astray ==
  /\ Owned(checkpoint)
  /\ ~ \/ checkpoint.op \in partials \cap journals
       \/ checkpoint.op \in finals /\ checkpoint.phase = "commit_ready"

\* A record keeps its image through crashes and power losses, unless a user
\* removes a file or a rollback fails.  What a power loss may part from its
\* files is a record that counts nothing yet, one whose removal it undoes, and
\* one whose published image had lost its journal already: never a record of
\* verified work that is still to be done or to be published.
RecordLeadsToImage ==
  [][Astray' /\ ~Astray /\ faults' = 0 =>
       /\ PowerLoss
       /\ \/ checkpoint = NoSlot
          \/ checkpoint.phase = "preparing"
          \/ checkpoint.op \in finals \ journals]_vars

\* A completed name that belongs to another file is never taken over.
NoOverwrite == finals \cap occupied = {}

\* A commit that reports success has left the intact image under its completed
\* name and neither working files nor a slot.
SuccessMeansDone ==
  \A c \in Controllers : pc[c] = "commit_end" =>
    /\ mem[c].op \in finals \ damaged
    /\ mem[c].op \notin partials \cup journals
    /\ checkpoint # NoSlot => checkpoint.op # mem[c].op

\* The journal and the record of a published image are what recovery needs:
\* the program removes them only while the image is there and intact.
RetireOnlyIntact ==
  [][\A op \in finals :
       \/ op \in journals /\ op \notin journals' /\ faults' = faults
       \/ Owned(checkpoint) /\ checkpoint.op = op /\ checkpoint' # checkpoint
       => op \in finals' /\ op \notin damaged']_vars

\* The detailed slot implements the abstract one.
Store == INSTANCE SlotStore WITH
           slot <- checkpoint,
           published <- finals \cup gone,
           spoiled <- damaged \cup gone,
           mSlot <- mCheckpoint,
           mPublished <- mFinals \cup (gone \ mPartials)
ImplementsStore == Store!StoreSpec

\* What the header of SingleResumeSlot::inspect says: it reports an empty slot
\* only when the files the slot owned are absent too.  (Files of a discard or a
\* commit whose handles are about to be closed are not counted.)
EmptyMeansNoOrphan ==
  checkpoint = NoSlot =>
    \A op \in slotted \cap (partials \cup journals) :
      InUse(op, Controllers, ObjectSteps)

-------------------------------------------------------------------------------
(* Liveness.  One user u comes back: a slot that is there is reviewed again   *)
(* and again, and finished by a commit when its image is published or else by *)
(* a discard.  A step of such a call may fail or crash any number of times,   *)
(* but when its chance comes again and again it succeeds once.  Nothing of    *)
(* the kind is asked of the other controllers, except that no call lasts for  *)
(* ever.                                                                      *)
FinishingSteps ==
  {{"idle"}, {"reviewed"}, {"commit_open"}, {"discard_open"},
   {"commit_relock", "discard_mark"}, {"commit_verify", "discard_mark_image"},
   {"commit_journal", "discard_mark_journal"}, {"commit_retire", "discard_close"}}

Finishing(u, steps) ==
  /\ pc[u] \in steps
  /\ Choose(u) \/ Commit(u) \/ Discard(u)
  /\ pc'[u] \notin {"idle", "run"} \/ checkpoint' = NoSlot

Fairness(u) ==
  /\ \A c \in Controllers :
       WF_vars(Abandon(c) \/ AbandonStage(c) \/ CommitEnd(c) \/ Discard(c))
  /\ \A steps \in FinishingSteps : SF_vars(Finishing(u, steps))

\* Once the other instances of the program are closed, no earlier race, crash,
\* failure or leftover stage file traps the user: the interrupted operation can
\* be brought to an end and the slot becomes empty again, unless a power loss has
\* parted the record from its files (see RecordLeadsToImage for when it may).
SlotRecoverable(u) ==
  <>[](\A c \in Controllers \ {u} : pc[c] = "idle")
    => (checkpoint # NoSlot ~> checkpoint = NoSlot \/ Astray)
==============================================================================
