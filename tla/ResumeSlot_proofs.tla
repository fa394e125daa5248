-------------------------- MODULE ResumeSlot_proofs --------------------------
(* Theorems about ResumeSlot for every number of controllers and operations.  *)
EXTENDS ResumeSlot, TLAPS

\* A record being written is a legal successor of the one its writer is bound
\* to, or the first record of a new operation.
WritesSuccessor ==
  \A c \in Controllers :
    /\ pc[c] \in CreateSteps =>
         /\ mem[c] = nxt[c]
         /\ mem[c] = FirstRecord(mem[c].op, mem[c].owned)
    /\ pc[c] \in ReplaceSteps => nxt[c] \in Successors(mem[c])

\* Operation ids are fresh: before its first move into the slot, an operation
\* belongs to one controller alone.
PreMove == {"create_load", "create_stage", "create_check", "create_move"}
FreshOps ==
  /\ \A op \in slotted \cup partials \cup journals \cup mPartials \cup mJournals : op < nextOp
  /\ checkpoint # NoSlot => checkpoint.op \in slotted
  /\ mCheckpoint # NoSlot => mCheckpoint.op \in slotted
  /\ finals \cup gone \subseteq slotted
  /\ \A c \in Controllers : pc[c] # "idle" => mem[c].op < nextOp
  /\ \A c \in Controllers :
       pc[c] \in PreMove => mem[c].op \notin slotted
  /\ \A c \in Controllers :
       pc[c] \notin PreMove \cup {"idle"} => mem[c].op \in slotted
  /\ \A c, d \in Controllers :
       pc[c] \in PreMove /\ pc[d] \in PreMove /\ mem[c].op = mem[d].op => c = d

\* How far a commit or a discard has come, file by file.
CommitProgress ==
  \A c \in Controllers :
    /\ pc[c] \in CommitSteps => Owned(mem[c]) /\ mem[c].phase = "commit_ready"
    /\ pc[c] \in LockSteps => mem[c].op \in finals
    /\ pc[c] \in {"commit_journal", "commit_retire", "commit_end"} =>
         mem[c].op \notin damaged
    /\ pc[c] \in LockSteps \cup {"commit_relock"} => mem[c].op \notin partials
    /\ pc[c] \in {"commit_retire", "commit_end"} => mem[c].op \notin journals
    /\ pc[c] = "commit_end" => checkpoint = NoSlot \/ checkpoint.op # mem[c].op
    /\ pc[c] \in {"discard_mark_image", "discard_mark_journal", "discard_close_objects"} =>
         Owned(mem[c])
    /\ pc[c] = "discard_close_objects" =>
         checkpoint = NoSlot \/ checkpoint.op # mem[c].op

\* An image is under its working name, under its completed name or removed.
OneName == partials \cap (finals \cup gone) = {} /\ finals \cap gone = {}

\* The files of an image are open for writing or deletion at one controller.
OneHolder ==
  \A c, d \in Controllers :
    /\ pc[c] \in ObjectSteps /\ pc[d] \in ObjectSteps
    /\ Owned(mem[c]) /\ Owned(mem[d]) /\ mem[c].op = mem[d].op
    => c = d

\* Files held for a new slot, for a discard or for the rename do not disappear.
HoldsFiles ==
  \A c \in Controllers :
    /\ pc[c] \in PreMove \cup (DiscardSteps \ {"discard_open"}) \cup {"commit_publish"}
    /\ Owned(mem[c])
    => mem[c].op \in partials \cap journals

\* Only a commit-ready image is ever given its completed name.
PublishedIsReady ==
  mCheckpoint # NoSlot /\ mCheckpoint.op \in finals \cup gone =>
    Owned(mCheckpoint) /\ mCheckpoint.phase = "commit_ready"

\* A record that stands is on its disk; there an image has one name as well, the
\* completed one only if it was given to it.
MediumFollows ==
  /\ checkpoint # NoSlot => mCheckpoint = checkpoint
  /\ mFinals \subseteq finals \cup gone
  /\ (mPartials \cup partials) \cap mFinals = {}
  /\ mFinals \cap occupied = {}

\* The files of op that are there are on their disk too, under some name.
Settled(op) ==
  /\ op \in journals => op \in mJournals
  /\ op \in partials \cup finals => op \in mPartials \cup mFinals

\* The files were flushed before a record counted what they hold.
CountedAreSettled ==
  /\ Owned(checkpoint) /\ checkpoint.phase # "preparing" => Settled(checkpoint.op)
  /\ \A c \in Controllers :
       pc[c] \in ReplaceSteps /\ Owned(mem[c]) => Settled(mem[c].op)
  /\ \A op \in finals : Settled(op)

\* The inductive invariant.
IInv == /\ TypeOK /\ StageIsMine /\ HeldSlotIsReviewed /\ ReplaceHitsReviewed
        /\ WritesSuccessor /\ FreshOps /\ CommitProgress /\ OneName /\ NoOverwrite
        /\ OneHolder /\ HoldsFiles /\ PublishedIsReady /\ MediumFollows
        /\ CountedAreSettled

\* A replacement stays an image's or a restore's.
LEMMA SuccessorFacts ==
  ASSUME NEW r \in SlotRecord, NEW n \in Successors(r)
  PROVE  /\ n \in SlotRecord /\ n.op = r.op /\ n.owned = r.owned
         /\ Owned(n) <=> Owned(r)
  BY NoSlotAssumption DEF Successors, ValidTransition, Owned

\* Every step keeps the types.
LEMMA TypeNext == ASSUME IInv, [Next]_vars PROVE TypeOK'
<1>. USE BoundsAssumption, TornAssumption, NoSlotAssumption, FaultsAssumption
     DEF IInv, TypeOK, Goto, Leave, files, medium, Steps, CreateSteps, ReplaceSteps,
         CommitSteps, DiscardSteps
<1>1. ASSUME NEW c \in Controllers, CallStep(c) PROVE TypeOK'
  <2>1. CASE Begin(c)
    BY <2>1 DEF Begin, FirstRecord, SlotRecord, Ops, Phases
  <2>2. CASE AbandonBegin(c)
    BY <2>2 DEF AbandonBegin
  <2>3. CASE CreateLoad(c)
    BY <2>3 DEF CreateLoad
  <2>4. CASE CreateCheck(c)
    BY <2>4 DEF CreateCheck
  <2>5. CASE CreateMove(c)
    BY <2>5 DEF CreateMove, StageIsMine, StagedSteps, SlotRecord
  <2>6. CASE CreateReadback(c)
    BY <2>6 DEF CreateReadback
  <2>7. CASE ReplaceLoad(c)
    BY <2>7 DEF ReplaceLoad, Successors, Owned, SlotRecord
  <2>8. CASE ReplaceCheck(c)
    BY <2>8 DEF ReplaceCheck
  <2>9. CASE ReplaceSwap(c)
    BY <2>9 DEF ReplaceSwap, StageIsMine, StagedSteps
  <2>10. CASE ReplaceReadback(c)
    BY <2>10 DEF ReplaceReadback, Successors, WritesSuccessor
  <2>11. CASE WriteStage(c)
    BY <2>11 DEF WriteStage
  <2>12. CASE TearStage(c)
    BY <2>12 DEF TearStage
  <2>13. CASE AbandonStage(c)
    BY <2>13 DEF AbandonStage
  <2>14. CASE Review(c)
    BY <2>14 DEF Review
  <2>15. CASE Resume(c)
    BY <2>15 DEF Resume
  <2>16. CASE ChooseDiscard(c)
    BY <2>16 DEF ChooseDiscard
  <2>17. CASE FinishRestore(c)
    BY <2>17 DEF FinishRestore
  <2>18. CASE BeginCommit(c)
    BY <2>18 DEF BeginCommit
  <2>19. CASE CommitOpen(c)
    BY <2>19 DEF CommitOpen
  <2>20. CASE CommitPublish(c)
    BY <2>20 DEF CommitPublish, SlotRecord
  <2>21. CASE CommitRelock(c)
    BY <2>21 DEF CommitRelock
  <2>22. CASE CommitVerify(c)
    BY <2>22 DEF CommitVerify
  <2>23. CASE CommitJournal(c)
    BY <2>23 DEF CommitJournal
  <2>24. CASE CommitRetire(c)
    BY <2>24 DEF CommitRetire
  <2>25. CASE CommitEnd(c)
    BY <2>25 DEF CommitEnd
  <2>26. CASE DiscardOpen(c)
    BY <2>26 DEF DiscardOpen
  <2>27. CASE DiscardMark(c)
    BY <2>27 DEF DiscardMark
  <2>28. CASE DiscardRollback(c)
    BY <2>28 DEF DiscardRollback, Vanish
  <2>29. CASE DiscardClose(c)
    BY <2>29 DEF DiscardClose, Vanish
  <2>30. CASE DiscardCloseObjects(c)
    BY <2>30 DEF DiscardCloseObjects, Vanish
  <2>31. CASE Abandon(c)
    BY <2>31 DEF Abandon
  <2>32. CASE Crash(c)
    BY <2>32 DEF Crash, Vanish, Pending
  <2>. QED BY <1>1, <2>1, <2>2, <2>3, <2>4, <2>5, <2>6, <2>7, <2>8, <2>9,
      <2>10, <2>11, <2>12, <2>13, <2>14, <2>15, <2>16, <2>17, <2>18, <2>19,
      <2>20, <2>21, <2>22, <2>23, <2>24, <2>25, <2>26, <2>27, <2>28, <2>29,
      <2>30, <2>31, <2>32 DEF CallStep, Create, Replace, Stage, Choose,
      Commit, Discard
<1>2. CASE PowerLoss
  BY <1>2 DEF PowerLoss
<1>3. ASSUME NEW op \in Ops, Touch(op) PROVE TypeOK'
  BY <1>3 DEF Touch, InUse
<1>4. CASE UNCHANGED vars
  BY <1>4 DEF vars
<1>5. CASE WriteBack
  BY <1>5 DEF WriteBack
<1>. QED BY <1>1, <1>2, <1>3, <1>4, <1>5 DEF Next


\* CREATE_NEW makes the stage file a lock.
LEMMA StageNext == ASSUME IInv, [Next]_vars PROVE StageIsMine'
<1>. USE BoundsAssumption, TornAssumption, NoSlotAssumption, FaultsAssumption
     DEF IInv, TypeOK, Goto, Leave, files, medium, Steps, CreateSteps, ReplaceSteps,
         CommitSteps, DiscardSteps, StageIsMine, StagedSteps
<1>1. ASSUME NEW c \in Controllers, CallStep(c) PROVE StageIsMine'
  <2>1. CASE Begin(c)
    BY <2>1 DEF Begin
  <2>2. CASE AbandonBegin(c)
    BY <2>2 DEF AbandonBegin
  <2>3. CASE CreateLoad(c)
    BY <2>3 DEF CreateLoad
  <2>4. CASE CreateCheck(c)
    BY <2>4 DEF CreateCheck
  <2>5. CASE CreateMove(c)
    BY <2>5 DEF CreateMove
  <2>6. CASE CreateReadback(c)
    BY <2>6 DEF CreateReadback
  <2>7. CASE ReplaceLoad(c)
    BY <2>7 DEF ReplaceLoad
  <2>8. CASE ReplaceCheck(c)
    BY <2>8 DEF ReplaceCheck
  <2>9. CASE ReplaceSwap(c)
    BY <2>9 DEF ReplaceSwap
  <2>10. CASE ReplaceReadback(c)
    BY <2>10 DEF ReplaceReadback
  <2>11. CASE WriteStage(c)
    BY <2>11 DEF WriteStage, WritesSuccessor, Successors
  <2>12. CASE TearStage(c)
    BY <2>12 DEF TearStage, WritesSuccessor, Successors
  <2>13. CASE AbandonStage(c)
    BY <2>13 DEF AbandonStage
  <2>14. CASE Review(c)
    BY <2>14 DEF Review
  <2>15. CASE Resume(c)
    BY <2>15 DEF Resume
  <2>16. CASE ChooseDiscard(c)
    BY <2>16 DEF ChooseDiscard
  <2>17. CASE FinishRestore(c)
    BY <2>17 DEF FinishRestore
  <2>18. CASE BeginCommit(c)
    BY <2>18 DEF BeginCommit
  <2>19. CASE CommitOpen(c)
    BY <2>19 DEF CommitOpen
  <2>20. CASE CommitPublish(c)
    BY <2>20 DEF CommitPublish
  <2>21. CASE CommitRelock(c)
    BY <2>21 DEF CommitRelock
  <2>22. CASE CommitVerify(c)
    BY <2>22 DEF CommitVerify
  <2>23. CASE CommitJournal(c)
    BY <2>23 DEF CommitJournal
  <2>24. CASE CommitRetire(c)
    BY <2>24 DEF CommitRetire
  <2>25. CASE CommitEnd(c)
    BY <2>25 DEF CommitEnd
  <2>26. CASE DiscardOpen(c)
    BY <2>26 DEF DiscardOpen
  <2>27. CASE DiscardMark(c)
    BY <2>27 DEF DiscardMark
  <2>28. CASE DiscardRollback(c)
    BY <2>28 DEF DiscardRollback, Vanish
  <2>29. CASE DiscardClose(c)
    BY <2>29 DEF DiscardClose, Vanish
  <2>30. CASE DiscardCloseObjects(c)
    BY <2>30 DEF DiscardCloseObjects, Vanish
  <2>31. CASE Abandon(c)
    BY <2>31 DEF Abandon
  <2>32. CASE Crash(c)
    BY <2>32 DEF Crash, Vanish, Pending
  <2>. QED BY <1>1, <2>1, <2>2, <2>3, <2>4, <2>5, <2>6, <2>7, <2>8, <2>9,
      <2>10, <2>11, <2>12, <2>13, <2>14, <2>15, <2>16, <2>17, <2>18, <2>19,
      <2>20, <2>21, <2>22, <2>23, <2>24, <2>25, <2>26, <2>27, <2>28, <2>29,
      <2>30, <2>31, <2>32 DEF CallStep, Create, Replace, Stage, Choose,
      Commit, Discard
<1>2. CASE PowerLoss
  BY <1>2 DEF PowerLoss
<1>3. ASSUME NEW op \in Ops, Touch(op) PROVE StageIsMine'
  BY <1>3 DEF Touch, InUse
<1>4. CASE UNCHANGED vars
  BY <1>4 DEF vars
<1>5. CASE WriteBack
  BY <1>5 DEF WriteBack
<1>. QED BY <1>1, <1>2, <1>3, <1>4, <1>5 DEF Next


\* The exact-opened checkpoint cannot be replaced or removed by another.
LEMMA HoldNext == ASSUME IInv, [Next]_vars PROVE HeldSlotIsReviewed'
<1>. USE BoundsAssumption, TornAssumption, NoSlotAssumption, FaultsAssumption
     DEF IInv, TypeOK, Goto, Leave, files, medium, Steps, CreateSteps, ReplaceSteps,
         CommitSteps, DiscardSteps, HeldSlotIsReviewed, HoldSteps, SlotFree,
         LoadOk
<1>1. ASSUME NEW c \in Controllers, CallStep(c) PROVE HeldSlotIsReviewed'
  <2>1. CASE Begin(c)
    BY <2>1 DEF Begin
  <2>2. CASE AbandonBegin(c)
    BY <2>2 DEF AbandonBegin
  <2>3. CASE CreateLoad(c)
    BY <2>3 DEF CreateLoad
  <2>4. CASE CreateCheck(c)
    BY <2>4 DEF CreateCheck
  <2>5. CASE CreateMove(c)
    BY <2>5 DEF CreateMove
  <2>6. CASE CreateReadback(c)
    BY <2>6 DEF CreateReadback
  <2>7. CASE ReplaceLoad(c)
    BY <2>7 DEF ReplaceLoad
  <2>8. CASE ReplaceCheck(c)
    BY <2>8 DEF ReplaceCheck
  <2>9. CASE ReplaceSwap(c)
    BY <2>9 DEF ReplaceSwap
  <2>10. CASE ReplaceReadback(c)
    BY <2>10 DEF ReplaceReadback
  <2>11. CASE WriteStage(c)
    BY <2>11 DEF WriteStage
  <2>12. CASE TearStage(c)
    BY <2>12 DEF TearStage
  <2>13. CASE AbandonStage(c)
    BY <2>13 DEF AbandonStage
  <2>14. CASE Review(c)
    BY <2>14 DEF Review
  <2>15. CASE Resume(c)
    BY <2>15 DEF Resume
  <2>16. CASE ChooseDiscard(c)
    BY <2>16 DEF ChooseDiscard
  <2>17. CASE FinishRestore(c)
    BY <2>17 DEF FinishRestore
  <2>18. CASE BeginCommit(c)
    BY <2>18 DEF BeginCommit
  <2>19. CASE CommitOpen(c)
    BY <2>19 DEF CommitOpen
  <2>20. CASE CommitPublish(c)
    BY <2>20 DEF CommitPublish
  <2>21. CASE CommitRelock(c)
    BY <2>21 DEF CommitRelock
  <2>22. CASE CommitVerify(c)
    BY <2>22 DEF CommitVerify
  <2>23. CASE CommitJournal(c)
    BY <2>23 DEF CommitJournal
  <2>24. CASE CommitRetire(c)
    BY <2>24 DEF CommitRetire
  <2>25. CASE CommitEnd(c)
    BY <2>25 DEF CommitEnd
  <2>26. CASE DiscardOpen(c)
    BY <2>26 DEF DiscardOpen
  <2>27. CASE DiscardMark(c)
    BY <2>27 DEF DiscardMark
  <2>28. CASE DiscardRollback(c)
    BY <2>28 DEF DiscardRollback, Vanish
  <2>29. CASE DiscardClose(c)
    BY <2>29 DEF DiscardClose, Vanish
  <2>30. CASE DiscardCloseObjects(c)
    BY <2>30 DEF DiscardCloseObjects, Vanish
  <2>31. CASE Abandon(c)
    BY <2>31 DEF Abandon
  <2>32. CASE Crash(c)
    BY <2>32 DEF Crash, Vanish, Pending
  <2>. QED BY <1>1, <2>1, <2>2, <2>3, <2>4, <2>5, <2>6, <2>7, <2>8, <2>9,
      <2>10, <2>11, <2>12, <2>13, <2>14, <2>15, <2>16, <2>17, <2>18, <2>19,
      <2>20, <2>21, <2>22, <2>23, <2>24, <2>25, <2>26, <2>27, <2>28, <2>29,
      <2>30, <2>31, <2>32 DEF CallStep, Create, Replace, Stage, Choose,
      Commit, Discard
<1>2. CASE PowerLoss
  BY <1>2 DEF PowerLoss
<1>3. ASSUME NEW op \in Ops, Touch(op) PROVE HeldSlotIsReviewed'
  BY <1>3 DEF Touch, InUse
<1>4. CASE UNCHANGED vars
  BY <1>4 DEF vars
<1>5. CASE WriteBack
  BY <1>5 DEF WriteBack
<1>. QED BY <1>1, <1>2, <1>3, <1>4, <1>5 DEF Next


\* While a record is staged nobody else can put one into the slot.
LEMMA ReplaceNext == ASSUME IInv, [Next]_vars PROVE ReplaceHitsReviewed'
<1>. USE BoundsAssumption, TornAssumption, NoSlotAssumption, FaultsAssumption
     DEF IInv, TypeOK, Goto, Leave, files, medium, Steps, CreateSteps, ReplaceSteps,
         CommitSteps, DiscardSteps, StageIsMine, StagedSteps,
         HeldSlotIsReviewed, HoldSteps, ReplaceHitsReviewed
<1>1. ASSUME NEW c \in Controllers, CallStep(c) PROVE ReplaceHitsReviewed'
  <2>1. CASE Begin(c)
    BY <2>1 DEF Begin
  <2>2. CASE AbandonBegin(c)
    BY <2>2 DEF AbandonBegin
  <2>3. CASE CreateLoad(c)
    BY <2>3 DEF CreateLoad
  <2>4. CASE CreateCheck(c)
    BY <2>4 DEF CreateCheck
  <2>5. CASE CreateMove(c)
    BY <2>5 DEF CreateMove
  <2>6. CASE CreateReadback(c)
    BY <2>6 DEF CreateReadback
  <2>7. CASE ReplaceLoad(c)
    BY <2>7 DEF ReplaceLoad
  <2>8. CASE ReplaceCheck(c)
    BY <2>8 DEF ReplaceCheck
  <2>9. CASE ReplaceSwap(c)
    BY <2>9 DEF ReplaceSwap
  <2>10. CASE ReplaceReadback(c)
    BY <2>10 DEF ReplaceReadback
  <2>11. CASE WriteStage(c)
    BY <2>11 DEF WriteStage
  <2>12. CASE TearStage(c)
    BY <2>12 DEF TearStage
  <2>13. CASE AbandonStage(c)
    BY <2>13 DEF AbandonStage
  <2>14. CASE Review(c)
    BY <2>14 DEF Review
  <2>15. CASE Resume(c)
    BY <2>15 DEF Resume
  <2>16. CASE ChooseDiscard(c)
    BY <2>16 DEF ChooseDiscard
  <2>17. CASE FinishRestore(c)
    BY <2>17 DEF FinishRestore
  <2>18. CASE BeginCommit(c)
    BY <2>18 DEF BeginCommit
  <2>19. CASE CommitOpen(c)
    BY <2>19 DEF CommitOpen
  <2>20. CASE CommitPublish(c)
    BY <2>20 DEF CommitPublish
  <2>21. CASE CommitRelock(c)
    BY <2>21 DEF CommitRelock
  <2>22. CASE CommitVerify(c)
    BY <2>22 DEF CommitVerify
  <2>23. CASE CommitJournal(c)
    BY <2>23 DEF CommitJournal
  <2>24. CASE CommitRetire(c)
    BY <2>24 DEF CommitRetire
  <2>25. CASE CommitEnd(c)
    BY <2>25 DEF CommitEnd
  <2>26. CASE DiscardOpen(c)
    BY <2>26 DEF DiscardOpen
  <2>27. CASE DiscardMark(c)
    BY <2>27 DEF DiscardMark
  <2>28. CASE DiscardRollback(c)
    BY <2>28 DEF DiscardRollback, Vanish
  <2>29. CASE DiscardClose(c)
    BY <2>29 DEF DiscardClose, Vanish
  <2>30. CASE DiscardCloseObjects(c)
    BY <2>30 DEF DiscardCloseObjects, Vanish
  <2>31. CASE Abandon(c)
    BY <2>31 DEF Abandon
  <2>32. CASE Crash(c)
    BY <2>32 DEF Crash, Vanish, Pending
  <2>. QED BY <1>1, <2>1, <2>2, <2>3, <2>4, <2>5, <2>6, <2>7, <2>8, <2>9,
      <2>10, <2>11, <2>12, <2>13, <2>14, <2>15, <2>16, <2>17, <2>18, <2>19,
      <2>20, <2>21, <2>22, <2>23, <2>24, <2>25, <2>26, <2>27, <2>28, <2>29,
      <2>30, <2>31, <2>32 DEF CallStep, Create, Replace, Stage, Choose,
      Commit, Discard
<1>2. CASE PowerLoss
  BY <1>2 DEF PowerLoss
<1>3. ASSUME NEW op \in Ops, Touch(op) PROVE ReplaceHitsReviewed'
  BY <1>3 DEF Touch, InUse
<1>4. CASE UNCHANGED vars
  BY <1>4 DEF vars
<1>5. CASE WriteBack
  BY <1>5 DEF WriteBack
<1>. QED BY <1>1, <1>2, <1>3, <1>4, <1>5 DEF Next


\* What a controller writes follows from what it is bound to.
LEMMA WritesNext == ASSUME IInv, [Next]_vars PROVE WritesSuccessor'
<1>. USE BoundsAssumption, TornAssumption, NoSlotAssumption, FaultsAssumption
     DEF IInv, TypeOK, Goto, Leave, files, medium, Steps, CreateSteps, ReplaceSteps,
         CommitSteps, DiscardSteps, WritesSuccessor
<1>1. ASSUME NEW c \in Controllers, CallStep(c) PROVE WritesSuccessor'
  <2>1. CASE Begin(c)
    BY <2>1 DEF Begin, FirstRecord
  <2>2. CASE AbandonBegin(c)
    BY <2>2 DEF AbandonBegin
  <2>3. CASE CreateLoad(c)
    BY <2>3 DEF CreateLoad
  <2>4. CASE CreateCheck(c)
    BY <2>4 DEF CreateCheck
  <2>5. CASE CreateMove(c)
    BY <2>5 DEF CreateMove
  <2>6. CASE CreateReadback(c)
    BY <2>6 DEF CreateReadback
  <2>7. CASE ReplaceLoad(c)
    BY <2>7 DEF ReplaceLoad, Successors
  <2>8. CASE ReplaceCheck(c)
    BY <2>8 DEF ReplaceCheck
  <2>9. CASE ReplaceSwap(c)
    BY <2>9 DEF ReplaceSwap
  <2>10. CASE ReplaceReadback(c)
    BY <2>10 DEF ReplaceReadback
  <2>11. CASE WriteStage(c)
    BY <2>11 DEF WriteStage
  <2>12. CASE TearStage(c)
    BY <2>12 DEF TearStage
  <2>13. CASE AbandonStage(c)
    BY <2>13 DEF AbandonStage
  <2>14. CASE Review(c)
    BY <2>14 DEF Review
  <2>15. CASE Resume(c)
    BY <2>15 DEF Resume
  <2>16. CASE ChooseDiscard(c)
    BY <2>16 DEF ChooseDiscard
  <2>17. CASE FinishRestore(c)
    BY <2>17 DEF FinishRestore
  <2>18. CASE BeginCommit(c)
    BY <2>18 DEF BeginCommit
  <2>19. CASE CommitOpen(c)
    BY <2>19 DEF CommitOpen
  <2>20. CASE CommitPublish(c)
    BY <2>20 DEF CommitPublish
  <2>21. CASE CommitRelock(c)
    BY <2>21 DEF CommitRelock
  <2>22. CASE CommitVerify(c)
    BY <2>22 DEF CommitVerify
  <2>23. CASE CommitJournal(c)
    BY <2>23 DEF CommitJournal
  <2>24. CASE CommitRetire(c)
    BY <2>24 DEF CommitRetire
  <2>25. CASE CommitEnd(c)
    BY <2>25 DEF CommitEnd
  <2>26. CASE DiscardOpen(c)
    BY <2>26 DEF DiscardOpen
  <2>27. CASE DiscardMark(c)
    BY <2>27 DEF DiscardMark
  <2>28. CASE DiscardRollback(c)
    BY <2>28 DEF DiscardRollback, Vanish
  <2>29. CASE DiscardClose(c)
    BY <2>29 DEF DiscardClose, Vanish
  <2>30. CASE DiscardCloseObjects(c)
    BY <2>30 DEF DiscardCloseObjects, Vanish
  <2>31. CASE Abandon(c)
    BY <2>31 DEF Abandon
  <2>32. CASE Crash(c)
    BY <2>32 DEF Crash, Vanish, Pending
  <2>. QED BY <1>1, <2>1, <2>2, <2>3, <2>4, <2>5, <2>6, <2>7, <2>8, <2>9,
      <2>10, <2>11, <2>12, <2>13, <2>14, <2>15, <2>16, <2>17, <2>18, <2>19,
      <2>20, <2>21, <2>22, <2>23, <2>24, <2>25, <2>26, <2>27, <2>28, <2>29,
      <2>30, <2>31, <2>32 DEF CallStep, Create, Replace, Stage, Choose,
      Commit, Discard
<1>2. CASE PowerLoss
  BY <1>2 DEF PowerLoss
<1>3. ASSUME NEW op \in Ops, Touch(op) PROVE WritesSuccessor'
  BY <1>3 DEF Touch, InUse
<1>4. CASE UNCHANGED vars
  BY <1>4 DEF vars
<1>5. CASE WriteBack
  BY <1>5 DEF WriteBack
<1>. QED BY <1>1, <1>2, <1>3, <1>4, <1>5 DEF Next


\* Ids given to operations are fresh.
LEMMA FreshNext == ASSUME IInv, [Next]_vars PROVE FreshOps'
<1>. USE BoundsAssumption, TornAssumption, NoSlotAssumption, FaultsAssumption
     DEF IInv, TypeOK, Goto, Leave, files, medium, Steps, CreateSteps, ReplaceSteps,
         CommitSteps, DiscardSteps, FreshOps, PreMove
<1>1. ASSUME NEW c \in Controllers, CallStep(c) PROVE FreshOps'
  <2>1. CASE Begin(c)
    BY <2>1 DEF Begin, FirstRecord, Ops, SlotRecord
  <2>2. CASE AbandonBegin(c)
    BY <2>2 DEF AbandonBegin
  <2>3. CASE CreateLoad(c)
    BY <2>3 DEF CreateLoad
  <2>4. CASE CreateCheck(c)
    BY <2>4 DEF CreateCheck
  <2>5. CASE CreateMove(c)
    BY <2>5 DEF CreateMove, StageIsMine, StagedSteps, WritesSuccessor
  <2>6. CASE CreateReadback(c)
    BY <2>6 DEF CreateReadback
  <2>7. CASE ReplaceLoad(c)
    BY <2>7 DEF ReplaceLoad
  <2>8. CASE ReplaceCheck(c)
    BY <2>8 DEF ReplaceCheck
  <2>9. CASE ReplaceSwap(c)
    BY <2>9 DEF ReplaceSwap, StageIsMine, StagedSteps, WritesSuccessor,
      Successors, ValidTransition, ReplaceHitsReviewed
  <2>10. CASE ReplaceReadback(c)
    BY <2>10 DEF ReplaceReadback, WritesSuccessor, Successors, ValidTransition
  <2>11. CASE WriteStage(c)
    BY <2>11 DEF WriteStage
  <2>12. CASE TearStage(c)
    BY <2>12 DEF TearStage
  <2>13. CASE AbandonStage(c)
    BY <2>13 DEF AbandonStage
  <2>14. CASE Review(c)
    BY <2>14 DEF Review
  <2>15. CASE Resume(c)
    BY <2>15 DEF Resume
  <2>16. CASE ChooseDiscard(c)
    BY <2>16 DEF ChooseDiscard
  <2>17. CASE FinishRestore(c)
    BY <2>17 DEF FinishRestore
  <2>18. CASE BeginCommit(c)
    BY <2>18 DEF BeginCommit
  <2>19. CASE CommitOpen(c)
    BY <2>19 DEF CommitOpen
  <2>20. CASE CommitPublish(c)
    BY <2>20 DEF CommitPublish
  <2>21. CASE CommitRelock(c)
    BY <2>21 DEF CommitRelock
  <2>22. CASE CommitVerify(c)
    BY <2>22 DEF CommitVerify
  <2>23. CASE CommitJournal(c)
    BY <2>23 DEF CommitJournal
  <2>24. CASE CommitRetire(c)
    BY <2>24 DEF CommitRetire
  <2>25. CASE CommitEnd(c)
    BY <2>25 DEF CommitEnd
  <2>26. CASE DiscardOpen(c)
    BY <2>26 DEF DiscardOpen
  <2>27. CASE DiscardMark(c)
    BY <2>27 DEF DiscardMark
  <2>28. CASE DiscardRollback(c)
    BY <2>28 DEF DiscardRollback, Vanish
  <2>29. CASE DiscardClose(c)
    BY <2>29 DEF DiscardClose, Vanish
  <2>30. CASE DiscardCloseObjects(c)
    BY <2>30 DEF DiscardCloseObjects, Vanish
  <2>31. CASE Abandon(c)
    BY <2>31 DEF Abandon
  <2>32. CASE Crash(c)
    BY <2>32 DEF Crash, Vanish, Pending
  <2>. QED BY <1>1, <2>1, <2>2, <2>3, <2>4, <2>5, <2>6, <2>7, <2>8, <2>9,
      <2>10, <2>11, <2>12, <2>13, <2>14, <2>15, <2>16, <2>17, <2>18, <2>19,
      <2>20, <2>21, <2>22, <2>23, <2>24, <2>25, <2>26, <2>27, <2>28, <2>29,
      <2>30, <2>31, <2>32 DEF CallStep, Create, Replace, Stage, Choose,
      Commit, Discard
<1>2. CASE PowerLoss
  BY <1>2 DEF PowerLoss, MediumFollows
<1>3. ASSUME NEW op \in Ops, Touch(op) PROVE FreshOps'
  BY <1>3 DEF Touch, InUse
<1>4. CASE UNCHANGED vars
  BY <1>4 DEF vars
<1>5. CASE WriteBack
  BY <1>5 DEF WriteBack
<1>. QED BY <1>1, <1>2, <1>3, <1>4, <1>5 DEF Next


\* A commit and a discard make progress file by file, undisturbed.
LEMMA CommitNext == ASSUME IInv, [Next]_vars PROVE CommitProgress'
<1>. USE BoundsAssumption, TornAssumption, NoSlotAssumption, FaultsAssumption
     DEF IInv, TypeOK, Goto, Leave, files, medium, Steps, CreateSteps, ReplaceSteps,
         CommitSteps, DiscardSteps, CommitProgress, LockSteps, FreshOps,
         PreMove, Owned
<1>1. ASSUME NEW c \in Controllers, CallStep(c) PROVE CommitProgress'
  <2>1. CASE Begin(c)
    BY <2>1 DEF Begin
  <2>2. CASE AbandonBegin(c)
    BY <2>2 DEF AbandonBegin
  <2>3. CASE CreateLoad(c)
    BY <2>3 DEF CreateLoad
  <2>4. CASE CreateCheck(c)
    BY <2>4 DEF CreateCheck
  <2>5. CASE CreateMove(c)
    BY <2>5 DEF CreateMove, StageIsMine, StagedSteps, WritesSuccessor
  <2>6. CASE CreateReadback(c)
    BY <2>6 DEF CreateReadback
  <2>7. CASE ReplaceLoad(c)
    BY <2>7 DEF ReplaceLoad
  <2>8. CASE ReplaceCheck(c)
    BY <2>8 DEF ReplaceCheck
  <2>9. CASE ReplaceSwap(c)
    BY <2>9 DEF ReplaceSwap, StageIsMine, StagedSteps, WritesSuccessor,
      Successors, ValidTransition, ReplaceHitsReviewed
  <2>10. CASE ReplaceReadback(c)
    BY <2>10 DEF ReplaceReadback
  <2>11. CASE WriteStage(c)
    BY <2>11 DEF WriteStage
  <2>12. CASE TearStage(c)
    BY <2>12 DEF TearStage
  <2>13. CASE AbandonStage(c)
    BY <2>13 DEF AbandonStage
  <2>14. CASE Review(c)
    BY <2>14 DEF Review
  <2>15. CASE Resume(c)
    BY <2>15 DEF Resume
  <2>16. CASE ChooseDiscard(c)
    BY <2>16 DEF ChooseDiscard
  <2>17. CASE FinishRestore(c)
    BY <2>17 DEF FinishRestore
  <2>18. CASE BeginCommit(c)
    BY <2>18 DEF BeginCommit
  <2>19. CASE CommitOpen(c)
    BY <2>19 DEF CommitOpen, IsPublished
  <2>20. CASE CommitPublish(c)
    BY <2>20 DEF CommitPublish, HeldSlotIsReviewed, HoldSteps
  <2>21. CASE CommitRelock(c)
    BY <2>21 DEF CommitRelock
  <2>22. CASE CommitVerify(c)
    BY <2>22 DEF CommitVerify
  <2>23. CASE CommitJournal(c)
    BY <2>23 DEF CommitJournal, HeldSlotIsReviewed, HoldSteps
  <2>24. CASE CommitRetire(c)
    BY <2>24 DEF CommitRetire
  <2>25. CASE CommitEnd(c)
    BY <2>25 DEF CommitEnd
  <2>26. CASE DiscardOpen(c)
    BY <2>26 DEF DiscardOpen
  <2>27. CASE DiscardMark(c)
    BY <2>27 DEF DiscardMark
  <2>28. CASE DiscardRollback(c)
    BY <2>28 DEF DiscardRollback, Vanish
  <2>29. CASE DiscardClose(c)
    BY <2>29 DEF DiscardClose, Vanish
  <2>30. CASE DiscardCloseObjects(c)
    BY <2>30 DEF DiscardCloseObjects, Vanish
  <2>31. CASE Abandon(c)
    BY <2>31 DEF Abandon
  <2>32. CASE Crash(c)
    BY <2>32 DEF Crash, Vanish, Pending
  <2>. QED BY <1>1, <2>1, <2>2, <2>3, <2>4, <2>5, <2>6, <2>7, <2>8, <2>9,
      <2>10, <2>11, <2>12, <2>13, <2>14, <2>15, <2>16, <2>17, <2>18, <2>19,
      <2>20, <2>21, <2>22, <2>23, <2>24, <2>25, <2>26, <2>27, <2>28, <2>29,
      <2>30, <2>31, <2>32 DEF CallStep, Create, Replace, Stage, Choose,
      Commit, Discard
<1>2. CASE PowerLoss
  BY <1>2 DEF PowerLoss
<1>3. ASSUME NEW op \in Ops, Touch(op) PROVE CommitProgress'
  BY <1>3 DEF Touch, InUse
<1>4. CASE UNCHANGED vars
  BY <1>4 DEF vars
<1>5. CASE WriteBack
  BY <1>5 DEF WriteBack
<1>. QED BY <1>1, <1>2, <1>3, <1>4, <1>5 DEF Next


\* The rename to the completed name replaces nothing.
LEMMA NameNext == ASSUME IInv, [Next]_vars PROVE (OneName /\ NoOverwrite)'
<1>. USE BoundsAssumption, TornAssumption, NoSlotAssumption, FaultsAssumption
     DEF IInv, TypeOK, OneName, NoOverwrite, FreshOps, PreMove,
         CommitProgress, files, medium, Goto
<1>1. ASSUME NEW c \in Controllers, CallStep(c) PROVE (OneName /\ NoOverwrite)'
  <2>1. CASE Begin(c)
    BY <2>1 DEF Begin
  <2>2. CASE AbandonBegin(c)
    BY <2>2 DEF AbandonBegin
  <2>3. CASE CreateLoad(c)
    BY <2>3 DEF CreateLoad
  <2>4. CASE CreateCheck(c)
    BY <2>4 DEF CreateCheck
  <2>5. CASE CreateMove(c)
    BY <2>5 DEF CreateMove
  <2>6. CASE CreateReadback(c)
    BY <2>6 DEF CreateReadback
  <2>7. CASE ReplaceLoad(c)
    BY <2>7 DEF ReplaceLoad
  <2>8. CASE ReplaceCheck(c)
    BY <2>8 DEF ReplaceCheck
  <2>9. CASE ReplaceSwap(c)
    BY <2>9 DEF ReplaceSwap
  <2>10. CASE ReplaceReadback(c)
    BY <2>10 DEF ReplaceReadback
  <2>11. CASE WriteStage(c)
    BY <2>11 DEF WriteStage
  <2>12. CASE TearStage(c)
    BY <2>12 DEF TearStage
  <2>13. CASE AbandonStage(c)
    BY <2>13 DEF AbandonStage
  <2>14. CASE Review(c)
    BY <2>14 DEF Review
  <2>15. CASE Resume(c)
    BY <2>15 DEF Resume
  <2>16. CASE ChooseDiscard(c)
    BY <2>16 DEF ChooseDiscard
  <2>17. CASE FinishRestore(c)
    BY <2>17 DEF FinishRestore
  <2>18. CASE BeginCommit(c)
    BY <2>18 DEF BeginCommit
  <2>19. CASE CommitOpen(c)
    BY <2>19 DEF CommitOpen
  <2>20. CASE CommitPublish(c)
    BY <2>20 DEF CommitPublish, HoldsFiles, CommitSteps
  <2>21. CASE CommitRelock(c)
    BY <2>21 DEF CommitRelock
  <2>22. CASE CommitVerify(c)
    BY <2>22 DEF CommitVerify
  <2>23. CASE CommitJournal(c)
    BY <2>23 DEF CommitJournal
  <2>24. CASE CommitRetire(c)
    BY <2>24 DEF CommitRetire
  <2>25. CASE CommitEnd(c)
    BY <2>25 DEF CommitEnd
  <2>26. CASE DiscardOpen(c)
    BY <2>26 DEF DiscardOpen
  <2>27. CASE DiscardMark(c)
    BY <2>27 DEF DiscardMark
  <2>28. CASE DiscardRollback(c)
    BY <2>28 DEF DiscardRollback, Vanish
  <2>29. CASE DiscardClose(c)
    BY <2>29 DEF DiscardClose, Vanish
  <2>30. CASE DiscardCloseObjects(c)
    BY <2>30 DEF DiscardCloseObjects, Vanish
  <2>31. CASE Abandon(c)
    BY <2>31 DEF Abandon
  <2>32. CASE Crash(c)
    BY <2>32 DEF Crash, Vanish, Pending
  <2>. QED BY <1>1, <2>1, <2>2, <2>3, <2>4, <2>5, <2>6, <2>7, <2>8, <2>9,
      <2>10, <2>11, <2>12, <2>13, <2>14, <2>15, <2>16, <2>17, <2>18, <2>19,
      <2>20, <2>21, <2>22, <2>23, <2>24, <2>25, <2>26, <2>27, <2>28, <2>29,
      <2>30, <2>31, <2>32 DEF CallStep, Create, Replace, Stage, Choose,
      Commit, Discard
<1>2. CASE PowerLoss
  BY <1>2 DEF PowerLoss, MediumFollows
<1>3. ASSUME NEW op \in Ops, Touch(op) PROVE (OneName /\ NoOverwrite)'
  BY <1>3 DEF Touch, InUse
<1>4. CASE UNCHANGED vars
  BY <1>4 DEF vars
<1>5. CASE WriteBack
  BY <1>5 DEF WriteBack
<1>. QED BY <1>1, <1>2, <1>3, <1>4, <1>5 DEF Next


\* Share modes keep a second holder of an image out.
LEMMA HolderNext == ASSUME IInv, [Next]_vars PROVE OneHolder'
<1>. USE BoundsAssumption, TornAssumption, NoSlotAssumption, FaultsAssumption
     DEF IInv, TypeOK, Goto, Leave, files, medium, Steps, CreateSteps, ReplaceSteps,
         CommitSteps, DiscardSteps, OneHolder, ObjectSteps, WorkSteps,
         HoldSteps, FreshOps, PreMove, ObjectsFree, InUse, Owned
<1>1. ASSUME NEW c \in Controllers, CallStep(c) PROVE OneHolder'
  <2>1. CASE Begin(c)
    BY <2>1 DEF Begin, FirstRecord
  <2>2. CASE AbandonBegin(c)
    BY <2>2 DEF AbandonBegin
  <2>3. CASE CreateLoad(c)
    BY <2>3 DEF CreateLoad
  <2>4. CASE CreateCheck(c)
    BY <2>4 DEF CreateCheck
  <2>5. CASE CreateMove(c)
    BY <2>5 DEF CreateMove
  <2>6. CASE CreateReadback(c)
    BY <2>6 DEF CreateReadback
  <2>7. CASE ReplaceLoad(c)
    BY <2>7 DEF ReplaceLoad
  <2>8. CASE ReplaceCheck(c)
    BY <2>8 DEF ReplaceCheck
  <2>9. CASE ReplaceSwap(c)
    BY <2>9 DEF ReplaceSwap
  <2>10. CASE ReplaceReadback(c)
    BY <2>10 DEF ReplaceReadback, WritesSuccessor, Successors, ValidTransition
  <2>11. CASE WriteStage(c)
    BY <2>11 DEF WriteStage
  <2>12. CASE TearStage(c)
    BY <2>12 DEF TearStage
  <2>13. CASE AbandonStage(c)
    BY <2>13 DEF AbandonStage
  <2>14. CASE Review(c)
    BY <2>14 DEF Review
  <2>15. CASE Resume(c)
    BY <2>15 DEF Resume
  <2>16. CASE ChooseDiscard(c)
    BY <2>16 DEF ChooseDiscard
  <2>17. CASE FinishRestore(c)
    BY <2>17 DEF FinishRestore
  <2>18. CASE BeginCommit(c)
    BY <2>18 DEF BeginCommit
  <2>19. CASE CommitOpen(c)
    BY <2>19 DEF CommitOpen
  <2>20. CASE CommitPublish(c)
    BY <2>20 DEF CommitPublish
  <2>21. CASE CommitRelock(c)
    BY <2>21 DEF CommitRelock
  <2>22. CASE CommitVerify(c)
    BY <2>22 DEF CommitVerify
  <2>23. CASE CommitJournal(c)
    BY <2>23 DEF CommitJournal
  <2>24. CASE CommitRetire(c)
    BY <2>24 DEF CommitRetire
  <2>25. CASE CommitEnd(c)
    BY <2>25 DEF CommitEnd
  <2>26. CASE DiscardOpen(c)
    BY <2>26 DEF DiscardOpen
  <2>27. CASE DiscardMark(c)
    BY <2>27 DEF DiscardMark
  <2>28. CASE DiscardRollback(c)
    BY <2>28 DEF DiscardRollback, Vanish
  <2>29. CASE DiscardClose(c)
    BY <2>29 DEF DiscardClose, Vanish
  <2>30. CASE DiscardCloseObjects(c)
    BY <2>30 DEF DiscardCloseObjects, Vanish
  <2>31. CASE Abandon(c)
    BY <2>31 DEF Abandon
  <2>32. CASE Crash(c)
    BY <2>32 DEF Crash, Vanish, Pending
  <2>. QED BY <1>1, <2>1, <2>2, <2>3, <2>4, <2>5, <2>6, <2>7, <2>8, <2>9,
      <2>10, <2>11, <2>12, <2>13, <2>14, <2>15, <2>16, <2>17, <2>18, <2>19,
      <2>20, <2>21, <2>22, <2>23, <2>24, <2>25, <2>26, <2>27, <2>28, <2>29,
      <2>30, <2>31, <2>32 DEF CallStep, Create, Replace, Stage, Choose,
      Commit, Discard
<1>2. CASE PowerLoss
  BY <1>2 DEF PowerLoss
<1>3. ASSUME NEW op \in Ops, Touch(op) PROVE OneHolder'
  BY <1>3 DEF Touch, InUse
<1>4. CASE UNCHANGED vars
  BY <1>4 DEF vars
<1>5. CASE WriteBack
  BY <1>5 DEF WriteBack
<1>. QED BY <1>1, <1>2, <1>3, <1>4, <1>5 DEF Next


\* Held files stay.
LEMMA HoldsNext == ASSUME IInv, [Next]_vars PROVE HoldsFiles'
<1>. USE BoundsAssumption, TornAssumption, NoSlotAssumption, FaultsAssumption
     DEF IInv, TypeOK, Goto, Leave, files, medium, Steps, CreateSteps, ReplaceSteps,
         CommitSteps, DiscardSteps, HoldsFiles, OneHolder, ObjectSteps,
         WorkSteps, HoldSteps, FreshOps, PreMove, Owned, LoadOk,
         ObjectsPresent
<1>1. ASSUME NEW c \in Controllers, CallStep(c) PROVE HoldsFiles'
  <2>1. CASE Begin(c)
    BY <2>1 DEF Begin, FirstRecord
  <2>2. CASE AbandonBegin(c)
    BY <2>2 DEF AbandonBegin
  <2>3. CASE CreateLoad(c)
    BY <2>3 DEF CreateLoad
  <2>4. CASE CreateCheck(c)
    BY <2>4 DEF CreateCheck
  <2>5. CASE CreateMove(c)
    BY <2>5 DEF CreateMove
  <2>6. CASE CreateReadback(c)
    BY <2>6 DEF CreateReadback
  <2>7. CASE ReplaceLoad(c)
    BY <2>7 DEF ReplaceLoad
  <2>8. CASE ReplaceCheck(c)
    BY <2>8 DEF ReplaceCheck
  <2>9. CASE ReplaceSwap(c)
    BY <2>9 DEF ReplaceSwap
  <2>10. CASE ReplaceReadback(c)
    BY <2>10 DEF ReplaceReadback
  <2>11. CASE WriteStage(c)
    BY <2>11 DEF WriteStage
  <2>12. CASE TearStage(c)
    BY <2>12 DEF TearStage
  <2>13. CASE AbandonStage(c)
    BY <2>13 DEF AbandonStage
  <2>14. CASE Review(c)
    BY <2>14 DEF Review
  <2>15. CASE Resume(c)
    BY <2>15 DEF Resume
  <2>16. CASE ChooseDiscard(c)
    BY <2>16 DEF ChooseDiscard
  <2>17. CASE FinishRestore(c)
    BY <2>17 DEF FinishRestore
  <2>18. CASE BeginCommit(c)
    BY <2>18 DEF BeginCommit
  <2>19. CASE CommitOpen(c)
    BY <2>19 DEF CommitOpen
  <2>20. CASE CommitPublish(c)
    BY <2>20 DEF CommitPublish, CommitProgress
  <2>21. CASE CommitRelock(c)
    BY <2>21 DEF CommitRelock
  <2>22. CASE CommitVerify(c)
    BY <2>22 DEF CommitVerify
  <2>23. CASE CommitJournal(c)
    BY <2>23 DEF CommitJournal, CommitProgress
  <2>24. CASE CommitRetire(c)
    BY <2>24 DEF CommitRetire
  <2>25. CASE CommitEnd(c)
    BY <2>25 DEF CommitEnd
  <2>26. CASE DiscardOpen(c)
    BY <2>26 DEF DiscardOpen
  <2>27. CASE DiscardMark(c)
    BY <2>27 DEF DiscardMark
  <2>28. CASE DiscardRollback(c)
    BY <2>28 DEF DiscardRollback, Vanish, CommitProgress, Pending
  <2>29. CASE DiscardClose(c)
    BY <2>29 DEF DiscardClose, Vanish
  <2>30. CASE DiscardCloseObjects(c)
    BY <2>30 DEF DiscardCloseObjects, Vanish, CommitProgress
  <2>31. CASE Abandon(c)
    BY <2>31 DEF Abandon
  <2>32. CASE Crash(c)
    BY <2>32 DEF Crash, Vanish, Pending, CommitProgress
  <2>. QED BY <1>1, <2>1, <2>2, <2>3, <2>4, <2>5, <2>6, <2>7, <2>8, <2>9,
      <2>10, <2>11, <2>12, <2>13, <2>14, <2>15, <2>16, <2>17, <2>18, <2>19,
      <2>20, <2>21, <2>22, <2>23, <2>24, <2>25, <2>26, <2>27, <2>28, <2>29,
      <2>30, <2>31, <2>32 DEF CallStep, Create, Replace, Stage, Choose,
      Commit, Discard
<1>2. CASE PowerLoss
  BY <1>2 DEF PowerLoss
<1>3. ASSUME NEW op \in Ops, Touch(op) PROVE HoldsFiles'
  BY <1>3 DEF Touch, InUse
<1>4. CASE UNCHANGED vars
  BY <1>4 DEF vars
<1>5. CASE WriteBack
  BY <1>5 DEF WriteBack
<1>. QED BY <1>1, <1>2, <1>3, <1>4, <1>5 DEF Next


\* Only commit_open of a commit-ready record leads to the rename.
LEMMA ReadyNext == ASSUME IInv, [Next]_vars PROVE PublishedIsReady'
<1>. USE BoundsAssumption, TornAssumption, NoSlotAssumption, FaultsAssumption
     DEF IInv, TypeOK, Goto, Leave, files, medium, Steps, CreateSteps, ReplaceSteps,
         CommitSteps, DiscardSteps, PublishedIsReady, HeldSlotIsReviewed,
         HoldSteps, FreshOps, PreMove, Owned
<1>1. ASSUME NEW c \in Controllers, CallStep(c) PROVE PublishedIsReady'
  <2>1. CASE Begin(c)
    BY <2>1 DEF Begin
  <2>2. CASE AbandonBegin(c)
    BY <2>2 DEF AbandonBegin
  <2>3. CASE CreateLoad(c)
    BY <2>3 DEF CreateLoad
  <2>4. CASE CreateCheck(c)
    BY <2>4 DEF CreateCheck
  <2>5. CASE CreateMove(c)
    BY <2>5 DEF CreateMove, StageIsMine, StagedSteps, WritesSuccessor
  <2>6. CASE CreateReadback(c)
    BY <2>6 DEF CreateReadback
  <2>7. CASE ReplaceLoad(c)
    BY <2>7 DEF ReplaceLoad
  <2>8. CASE ReplaceCheck(c)
    BY <2>8 DEF ReplaceCheck
  <2>9. CASE ReplaceSwap(c)
    BY <2>9 DEF ReplaceSwap, MediumFollows, StageIsMine, StagedSteps, WritesSuccessor,
      Successors, ValidTransition, ValidCheckpoint, AllowedPhaseTransition,
      ReplaceHitsReviewed
  <2>10. CASE ReplaceReadback(c)
    BY <2>10 DEF ReplaceReadback
  <2>11. CASE WriteStage(c)
    BY <2>11 DEF WriteStage
  <2>12. CASE TearStage(c)
    BY <2>12 DEF TearStage
  <2>13. CASE AbandonStage(c)
    BY <2>13 DEF AbandonStage
  <2>14. CASE Review(c)
    BY <2>14 DEF Review
  <2>15. CASE Resume(c)
    BY <2>15 DEF Resume
  <2>16. CASE ChooseDiscard(c)
    BY <2>16 DEF ChooseDiscard
  <2>17. CASE FinishRestore(c)
    BY <2>17 DEF FinishRestore
  <2>18. CASE BeginCommit(c)
    BY <2>18 DEF BeginCommit
  <2>19. CASE CommitOpen(c)
    BY <2>19 DEF CommitOpen
  <2>20. CASE CommitPublish(c)
    BY <2>20 DEF CommitPublish, CommitProgress, MediumFollows
  <2>21. CASE CommitRelock(c)
    BY <2>21 DEF CommitRelock
  <2>22. CASE CommitVerify(c)
    BY <2>22 DEF CommitVerify
  <2>23. CASE CommitJournal(c)
    BY <2>23 DEF CommitJournal
  <2>24. CASE CommitRetire(c)
    BY <2>24 DEF CommitRetire
  <2>25. CASE CommitEnd(c)
    BY <2>25 DEF CommitEnd
  <2>26. CASE DiscardOpen(c)
    BY <2>26 DEF DiscardOpen
  <2>27. CASE DiscardMark(c)
    BY <2>27 DEF DiscardMark
  <2>28. CASE DiscardRollback(c)
    BY <2>28 DEF DiscardRollback, Vanish
  <2>29. CASE DiscardClose(c)
    BY <2>29 DEF DiscardClose, Vanish
  <2>30. CASE DiscardCloseObjects(c)
    BY <2>30 DEF DiscardCloseObjects, Vanish
  <2>31. CASE Abandon(c)
    BY <2>31 DEF Abandon
  <2>32. CASE Crash(c)
    BY <2>32 DEF Crash, Vanish, Pending
  <2>. QED BY <1>1, <2>1, <2>2, <2>3, <2>4, <2>5, <2>6, <2>7, <2>8, <2>9,
      <2>10, <2>11, <2>12, <2>13, <2>14, <2>15, <2>16, <2>17, <2>18, <2>19,
      <2>20, <2>21, <2>22, <2>23, <2>24, <2>25, <2>26, <2>27, <2>28, <2>29,
      <2>30, <2>31, <2>32 DEF CallStep, Create, Replace, Stage, Choose,
      Commit, Discard
<1>2. CASE PowerLoss
  BY <1>2 DEF PowerLoss, MediumFollows
<1>3. ASSUME NEW op \in Ops, Touch(op) PROVE PublishedIsReady'
  BY <1>3 DEF Touch, InUse
<1>4. CASE UNCHANGED vars
  BY <1>4 DEF vars
<1>5. CASE WriteBack
  BY <1>5 DEF WriteBack, MediumFollows
<1>. QED BY <1>1, <1>2, <1>3, <1>4, <1>5 DEF Next


\* What is on the disks follows what the calls do.
LEMMA MediumNext == ASSUME IInv, [Next]_vars PROVE MediumFollows'
<1>. USE BoundsAssumption, TornAssumption, NoSlotAssumption, FaultsAssumption
     DEF IInv, TypeOK, Goto, Leave, files, medium, Steps, CreateSteps, ReplaceSteps,
         CommitSteps, DiscardSteps, MediumFollows, HeldSlotIsReviewed,
         HoldSteps, FreshOps, PreMove, Owned, OneName, NoOverwrite
<1>1. ASSUME NEW c \in Controllers, CallStep(c) PROVE MediumFollows'
  <2>1. CASE Begin(c)
    BY <2>1 DEF Begin
  <2>2. CASE AbandonBegin(c)
    BY <2>2 DEF AbandonBegin
  <2>3. CASE CreateLoad(c)
    BY <2>3 DEF CreateLoad
  <2>4. CASE CreateCheck(c)
    BY <2>4 DEF CreateCheck
  <2>5. CASE CreateMove(c)
    BY <2>5 DEF CreateMove, HoldsFiles, StageIsMine, StagedSteps,
      WritesSuccessor
  <2>6. CASE CreateReadback(c)
    BY <2>6 DEF CreateReadback
  <2>7. CASE ReplaceLoad(c)
    BY <2>7 DEF ReplaceLoad, LoadOk, ObjectsPresent
  <2>8. CASE ReplaceCheck(c)
    BY <2>8 DEF ReplaceCheck
  <2>9. CASE ReplaceSwap(c)
    BY <2>9 DEF ReplaceSwap, StageIsMine, StagedSteps, WritesSuccessor,
      Successors, ValidTransition, AllowedPhaseTransition, ReplaceHitsReviewed
  <2>10. CASE ReplaceReadback(c)
    BY <2>10 DEF ReplaceReadback
  <2>11. CASE WriteStage(c)
    BY <2>11 DEF WriteStage
  <2>12. CASE TearStage(c)
    BY <2>12 DEF TearStage
  <2>13. CASE AbandonStage(c)
    BY <2>13 DEF AbandonStage
  <2>14. CASE Review(c)
    BY <2>14 DEF Review
  <2>15. CASE Resume(c)
    BY <2>15 DEF Resume
  <2>16. CASE ChooseDiscard(c)
    BY <2>16 DEF ChooseDiscard
  <2>17. CASE FinishRestore(c)
    BY <2>17 DEF FinishRestore
  <2>18. CASE BeginCommit(c)
    BY <2>18 DEF BeginCommit
  <2>19. CASE CommitOpen(c)
    BY <2>19 DEF CommitOpen
  <2>20. CASE CommitPublish(c)
    BY <2>20 DEF CommitPublish, CommitProgress, CountedAreSettled, Settled, HoldsFiles
  <2>21. CASE CommitRelock(c)
    BY <2>21 DEF CommitRelock
  <2>22. CASE CommitVerify(c)
    BY <2>22 DEF CommitVerify
  <2>23. CASE CommitJournal(c)
    BY <2>23 DEF CommitJournal
  <2>24. CASE CommitRetire(c)
    BY <2>24 DEF CommitRetire
  <2>25. CASE CommitEnd(c)
    BY <2>25 DEF CommitEnd
  <2>26. CASE DiscardOpen(c)
    BY <2>26 DEF DiscardOpen
  <2>27. CASE DiscardMark(c)
    BY <2>27 DEF DiscardMark
  <2>28. CASE DiscardRollback(c)
    BY <2>28 DEF DiscardRollback, Vanish, Pending
  <2>29. CASE DiscardClose(c)
    BY <2>29 DEF DiscardClose, Vanish
  <2>30. CASE DiscardCloseObjects(c)
    BY <2>30 DEF DiscardCloseObjects, Vanish, CommitProgress
  <2>31. CASE Abandon(c)
    BY <2>31 DEF Abandon
  <2>32. CASE Crash(c)
    BY <2>32 DEF Crash, Vanish, Pending, CommitProgress
  <2>. QED BY <1>1, <2>1, <2>2, <2>3, <2>4, <2>5, <2>6, <2>7, <2>8, <2>9,
      <2>10, <2>11, <2>12, <2>13, <2>14, <2>15, <2>16, <2>17, <2>18, <2>19,
      <2>20, <2>21, <2>22, <2>23, <2>24, <2>25, <2>26, <2>27, <2>28, <2>29,
      <2>30, <2>31, <2>32 DEF CallStep, Create, Replace, Stage, Choose,
      Commit, Discard
<1>2. CASE PowerLoss
  BY <1>2 DEF PowerLoss
<1>3. ASSUME NEW op \in Ops, Touch(op) PROVE MediumFollows'
  BY <1>3 DEF Touch, InUse
<1>4. CASE UNCHANGED vars
  BY <1>4 DEF vars
<1>5. CASE WriteBack
  BY <1>5 DEF WriteBack
<1>. QED BY <1>1, <1>2, <1>3, <1>4, <1>5 DEF Next



\* What a record counts was flushed, and stays.
LEMMA SettledNext == ASSUME IInv, [Next]_vars PROVE CountedAreSettled'
<1>. USE BoundsAssumption, TornAssumption, NoSlotAssumption, FaultsAssumption
     DEF IInv, TypeOK, Goto, Leave, files, medium, Steps, CreateSteps, ReplaceSteps,
         CommitSteps, DiscardSteps, CountedAreSettled, Settled,
         HeldSlotIsReviewed, HoldSteps, FreshOps, PreMove, Owned
<1>1. ASSUME NEW c \in Controllers, CallStep(c) PROVE CountedAreSettled'
  <2>1. CASE Begin(c)
    BY <2>1 DEF Begin
  <2>2. CASE AbandonBegin(c)
    BY <2>2 DEF AbandonBegin
  <2>3. CASE CreateLoad(c)
    BY <2>3 DEF CreateLoad
  <2>4. CASE CreateCheck(c)
    BY <2>4 DEF CreateCheck
  <2>5. CASE CreateMove(c)
    BY <2>5 DEF CreateMove, FirstRecord, HoldsFiles, StageIsMine, StagedSteps,
      WritesSuccessor
  <2>6. CASE CreateReadback(c)
    BY <2>6 DEF CreateReadback
  <2>7. CASE ReplaceLoad(c)
    BY <2>7 DEF ReplaceLoad
  <2>8. CASE ReplaceCheck(c)
    BY <2>8 DEF ReplaceCheck
  <2>9. CASE ReplaceSwap(c)
    BY <2>9, SuccessorFacts DEF ReplaceSwap, StageIsMine, StagedSteps, WritesSuccessor,
      Successors, ValidTransition, AllowedPhaseTransition, ReplaceHitsReviewed
  <2>10. CASE ReplaceReadback(c)
    BY <2>10 DEF ReplaceReadback
  <2>11. CASE WriteStage(c)
    BY <2>11 DEF WriteStage
  <2>12. CASE TearStage(c)
    BY <2>12 DEF TearStage
  <2>13. CASE AbandonStage(c)
    BY <2>13 DEF AbandonStage
  <2>14. CASE Review(c)
    BY <2>14 DEF Review
  <2>15. CASE Resume(c)
    BY <2>15 DEF Resume
  <2>16. CASE ChooseDiscard(c)
    BY <2>16 DEF ChooseDiscard
  <2>17. CASE FinishRestore(c)
    BY <2>17 DEF FinishRestore
  <2>18. CASE BeginCommit(c)
    BY <2>18 DEF BeginCommit
  <2>19. CASE CommitOpen(c)
    BY <2>19 DEF CommitOpen
  <2>20. CASE CommitPublish(c)
    BY <2>20 DEF CommitPublish, HoldsFiles, CommitProgress
  <2>21. CASE CommitRelock(c)
    BY <2>21 DEF CommitRelock
  <2>22. CASE CommitVerify(c)
    BY <2>22 DEF CommitVerify
  <2>23. CASE CommitJournal(c)
    BY <2>23 DEF CommitJournal, CommitProgress, LockSteps
  <2>24. CASE CommitRetire(c)
    BY <2>24 DEF CommitRetire
  <2>25. CASE CommitEnd(c)
    BY <2>25 DEF CommitEnd
  <2>26. CASE DiscardOpen(c)
    BY <2>26 DEF DiscardOpen
  <2>27. CASE DiscardMark(c)
    BY <2>27 DEF DiscardMark
  <2>28. CASE DiscardRollback(c)
    BY <2>28 DEF DiscardRollback, Vanish, Pending
  <2>29. CASE DiscardClose(c)
    BY <2>29 DEF DiscardClose, Vanish
  <2>30. CASE DiscardCloseObjects(c)
    BY <2>30 DEF DiscardCloseObjects, Vanish, CommitProgress
  <2>31. CASE Abandon(c)
    BY <2>31 DEF Abandon
  <2>32. CASE Crash(c)
    BY <2>32 DEF Crash, Vanish, Pending, CommitProgress
  <2>. QED BY <1>1, <2>1, <2>2, <2>3, <2>4, <2>5, <2>6, <2>7, <2>8, <2>9,
      <2>10, <2>11, <2>12, <2>13, <2>14, <2>15, <2>16, <2>17, <2>18, <2>19,
      <2>20, <2>21, <2>22, <2>23, <2>24, <2>25, <2>26, <2>27, <2>28, <2>29,
      <2>30, <2>31, <2>32 DEF CallStep, Create, Replace, Stage, Choose,
      Commit, Discard
<1>2. CASE PowerLoss
  BY <1>2 DEF PowerLoss
<1>3. ASSUME NEW op \in Ops, Touch(op) PROVE CountedAreSettled'
  BY <1>3 DEF Touch, InUse
<1>4. CASE UNCHANGED vars
  BY <1>4 DEF vars
<1>5. CASE WriteBack
  BY <1>5 DEF WriteBack
<1>. QED BY <1>1, <1>2, <1>3, <1>4, <1>5 DEF Next



-------------------------------------------------------------------------------
\* The inductive invariant holds at first and every step keeps it.
LEMMA InitInv == Init => IInv
<1>. USE BoundsAssumption, TornAssumption, NoSlotAssumption, FaultsAssumption
<1>1. ASSUME Init
      PROVE TypeOK /\ StageIsMine /\ HeldSlotIsReviewed /\ ReplaceHitsReviewed
  BY <1>1 DEF Init, TypeOK, StageIsMine, HeldSlotIsReviewed, ReplaceHitsReviewed,
      Steps, StagedSteps, HoldSteps, Ops
<1>2. ASSUME Init
      PROVE WritesSuccessor /\ FreshOps /\ CommitProgress /\ OneName /\ NoOverwrite
  BY <1>2 DEF Init, WritesSuccessor, FreshOps, CommitProgress, OneName, NoOverwrite,
      CreateSteps, ReplaceSteps, PreMove, CommitSteps, LockSteps
<1>3. ASSUME Init
      PROVE /\ OneHolder /\ HoldsFiles /\ PublishedIsReady /\ MediumFollows
            /\ CountedAreSettled
  BY <1>3 DEF Init, OneHolder, HoldsFiles, PublishedIsReady, MediumFollows,
      CountedAreSettled, Settled,
      ObjectSteps, WorkSteps, HoldSteps, CreateSteps, ReplaceSteps, PreMove,
      DiscardSteps, Owned
<1>. QED BY <1>1, <1>2, <1>3 DEF IInv

LEMMA NextInv == IInv /\ [Next]_vars => IInv'
BY TypeNext, StageNext, HoldNext, ReplaceNext, WritesNext, FreshNext, CommitNext,
   NameNext, HolderNext, HoldsNext, ReadyNext, MediumNext, SettledNext DEF IInv

LEMMA Invariance == Spec => []IInv
BY InitInv, NextInv, PTL DEF Spec

-------------------------------------------------------------------------------
\* Variables have their types whatever the number of controllers, operations,
\* interferences and crashes.
THEOREM TypeCorrect == Spec => []TypeOK
<1>1. IInv => TypeOK BY DEF IInv
<1>. QED BY <1>1, Invariance, PTL

\* The stage file is a lock: what write_verified_stage left there is what
\* MoveFileExW or ReplaceFileW of the same call moves.
THEOREM StageMutex == Spec => []StageIsMine
<1>1. IInv => StageIsMine BY DEF IInv
<1>. QED BY <1>1, Invariance, PTL

\* ReplaceFileW overwrites the record its caller is bound to and no other.
THEOREM ReplaceExact == Spec => []ReplaceHitsReviewed
<1>1. IInv => ReplaceHitsReviewed BY DEF IInv
<1>. QED BY <1>1, Invariance, PTL

\* Commit and discard act on the reviewed slot alone.
THEOREM HeldSlotExact == Spec => []HeldSlotIsReviewed
<1>1. IInv => HeldSlotIsReviewed BY DEF IInv
<1>. QED BY <1>1, Invariance, PTL

\* The publishing rename never takes over a name that is in use.
THEOREM NothingOverwritten == Spec => []NoOverwrite
<1>1. IInv => NoOverwrite BY DEF IInv
<1>. QED BY <1>1, Invariance, PTL

\* A successful commit has left the intact image and nothing else.
THEOREM CommitComplete == Spec => []SuccessMeansDone
<1>1. IInv => SuccessMeansDone
  BY DEF IInv, CommitProgress, SuccessMeansDone, LockSteps
<1>. QED BY <1>1, Invariance, PTL

-------------------------------------------------------------------------------
\* A call, a crash of it included, does not part the record from its image.
LEMMA CallKeepsImage ==
  ASSUME IInv, NEW c \in Controllers, CallStep(c), faults' = 0, ~Astray
  PROVE  ~Astray'
<1>. USE NoSlotAssumption
     DEF IInv, TypeOK, Goto, Leave, files, medium, Astray, Owned
<1>1. CASE Create(c)
  <2>1. CASE Begin(c) BY <2>1 DEF Begin
  <2>2. CASE AbandonBegin(c)
    BY <2>2 DEF AbandonBegin, FreshOps, PreMove
  <2>3. CASE CreateLoad(c) \/ CreateCheck(c) \/ CreateReadback(c)
    BY <2>3 DEF CreateLoad, CreateCheck, CreateReadback
  <2>4. CASE CreateMove(c)
    BY <2>4 DEF CreateMove, HoldsFiles, PreMove, StageIsMine, StagedSteps,
       WritesSuccessor, CreateSteps
  <2>. QED BY <1>1, <2>1, <2>2, <2>3, <2>4 DEF Create
<1>2. CASE Replace(c)
  <2>1. CASE ReplaceLoad(c) \/ ReplaceCheck(c) \/ ReplaceReadback(c)
    BY <2>1 DEF ReplaceLoad, ReplaceCheck, ReplaceReadback
  <2>2. CASE ReplaceSwap(c)
    <3>1. checkpoint = mem[c] /\ mem[c] \in SlotRecord /\ checkpoint' \in Successors(mem[c])
      BY <2>2 DEF ReplaceSwap, ReplaceHitsReviewed, WritesSuccessor, ReplaceSteps,
         StageIsMine, StagedSteps
    <3>2. /\ checkpoint'.op = checkpoint.op /\ (Owned(checkpoint') <=> Owned(checkpoint))
          /\ checkpoint.phase # "commit_ready"
      BY <3>1, SuccessorFacts DEF Successors, ValidTransition, AllowedPhaseTransition
    <3>. QED BY <2>2, <3>2 DEF ReplaceSwap
  <2>. QED BY <1>2, <2>1, <2>2 DEF Replace
<1>3. CASE Stage(c) \/ Choose(c) \/ Abandon(c)
  BY <1>3 DEF Stage, WriteStage, TearStage, AbandonStage, Choose, Review, Resume,
     ChooseDiscard, FinishRestore, BeginCommit, Abandon
<1>4. CASE Commit(c)
  <2>1. CASE CommitPublish(c)
    BY <2>1 DEF CommitPublish, HeldSlotIsReviewed, HoldSteps, CommitProgress, CommitSteps
  <2>2. CASE CommitJournal(c)
    BY <2>2 DEF CommitJournal, HeldSlotIsReviewed, HoldSteps, CommitProgress,
       CommitSteps, LockSteps
  <2>3. CASE CommitRetire(c) BY <2>3 DEF CommitRetire
  <2>4. CASE CommitOpen(c) \/ CommitRelock(c) \/ CommitVerify(c) \/ CommitEnd(c)
    BY <2>4 DEF CommitOpen, CommitRelock, CommitVerify, CommitEnd
  <2>. QED BY <1>4, <2>1, <2>2, <2>3, <2>4 DEF Commit
<1>5. CASE DiscardOpen(c) \/ DiscardMark(c)
  BY <1>5 DEF DiscardOpen, DiscardMark
<1>6. CASE DiscardRollback(c)
  BY <1>6 DEF DiscardRollback, Vanish
<1>7. CASE DiscardClose(c)
  BY <1>7 DEF DiscardClose, Vanish
<1>8. CASE DiscardCloseObjects(c)
  BY <1>8 DEF DiscardCloseObjects, Vanish, CommitProgress
<1>9. CASE Crash(c)
  BY <1>9 DEF Crash, Vanish, Pending, CommitProgress
<1>. QED BY <1>1, <1>2, <1>3, <1>4, <1>5, <1>6, <1>7, <1>8, <1>9 DEF CallStep, Discard

\* A power loss keeps the image of a record that counts verified work, as long as
\* its journal is there.
LEMMA PowerLossKeepsImage ==
  ASSUME IInv, PowerLoss, ~Astray, checkpoint # NoSlot,
         checkpoint.phase # "preparing", checkpoint.op \notin finals \ journals
  PROVE  ~Astray'
<1>1. checkpoint' = checkpoint
  BY DEF PowerLoss, IInv, MediumFollows
<1>2. SUFFICES ASSUME Owned(checkpoint)
               PROVE  \/ checkpoint.op \in partials' \cap journals'
                      \/ checkpoint.op \in finals' /\ checkpoint.phase = "commit_ready"
  BY <1>1 DEF Astray
<1>3. checkpoint.op \in journals /\ checkpoint.op \in partials \cup finals
  BY <1>2 DEF Astray
<1>4. checkpoint.op \in mJournals /\ checkpoint.op \in mPartials \cup mFinals
  BY <1>2, <1>3 DEF IInv, CountedAreSettled, Settled
<1>5. checkpoint.op \in mFinals => checkpoint.phase = "commit_ready"
  BY DEF IInv, MediumFollows, PublishedIsReady
<1>. QED BY <1>4, <1>5 DEF PowerLoss

\* Whatever crashes, and whenever the power goes, the record of verified work
\* still to be done or to be published leads to its image.
THEOREM ImageKept == Spec => RecordLeadsToImage
<1>1. ASSUME IInv, Next, Astray', ~Astray, faults' = 0
      PROVE  /\ PowerLoss
             /\ \/ checkpoint = NoSlot
                \/ checkpoint.phase = "preparing"
                \/ checkpoint.op \in finals \ journals
  <2>1. CASE \E c \in Controllers : CallStep(c)
    BY <1>1, <2>1, CallKeepsImage
  <2>2. CASE WriteBack
    BY <1>1, <2>2 DEF WriteBack, files, Astray, Owned
  <2>3. CASE PowerLoss
    BY <1>1, <2>3, PowerLossKeepsImage
  <2>4. CASE \E op \in Ops : Touch(op)
    BY <1>1, <2>4, FaultsAssumption DEF Touch, IInv, TypeOK
  <2>. QED BY <1>1, <2>1, <2>2, <2>3, <2>4 DEF Next
<1>2. IInv /\ [Next]_vars =>
        [Astray' /\ ~Astray /\ faults' = 0 =>
           /\ PowerLoss
           /\ \/ checkpoint = NoSlot
              \/ checkpoint.phase = "preparing"
              \/ checkpoint.op \in finals \ journals]_vars
  BY <1>1
<1>. QED BY <1>2, Invariance, PTL DEF Spec, RecordLeadsToImage

\* A published image does not get lost: the program never removes it, and a power
\* loss takes back its completed name at most, not the image.
PublishedStays ==
  [][\A op \in finals : op \notin finals' /\ faults' = faults =>
       PowerLoss /\ op \in partials']_vars

THEOREM ImageSurvives == Spec => PublishedStays
<1>1. ASSUME IInv, Next, NEW op \in finals, op \notin finals', faults' = faults
      PROVE  PowerLoss /\ op \in partials'
  <2>1. ASSUME NEW c \in Controllers, CallStep(c) PROVE FALSE
    <3>. USE DEF files
    <3>1. CASE Create(c) \/ Replace(c) \/ Stage(c)
      BY <1>1, <3>1 DEF Create, Begin, AbandonBegin, CreateLoad, CreateCheck, CreateMove,
         CreateReadback, Replace, ReplaceLoad, ReplaceCheck, ReplaceSwap,
         ReplaceReadback, Stage, WriteStage, TearStage, AbandonStage
    <3>2. CASE Choose(c) \/ Commit(c)
      BY <1>1, <3>2 DEF Choose, Review, Resume, ChooseDiscard, FinishRestore, BeginCommit,
         Commit, CommitOpen, CommitPublish, CommitRelock, CommitVerify,
         CommitJournal, CommitRetire, CommitEnd
    <3>3. CASE Discard(c) \/ Abandon(c) \/ Crash(c)
      BY <1>1, <3>3 DEF Discard, DiscardOpen, DiscardMark, DiscardRollback, DiscardClose,
         DiscardCloseObjects, Abandon, Crash
    <3>. QED BY <2>1, <3>1, <3>2, <3>3 DEF CallStep
  <2>2. CASE PowerLoss
    BY <1>1, <2>2 DEF PowerLoss, IInv, CountedAreSettled, Settled
  <2>3. ~WriteBack
    BY <1>1 DEF WriteBack, files
  <2>4. ASSUME NEW o \in Ops, Touch(o) PROVE FALSE
    BY <1>1, <2>4 DEF Touch, IInv, TypeOK
  <2>. QED BY <1>1, <2>1, <2>2, <2>3, <2>4 DEF Next
<1>2. IInv /\ [Next]_vars =>
        [\A op \in finals : op \notin finals' /\ faults' = faults =>
           PowerLoss /\ op \in partials']_vars
  BY <1>1 DEF vars
<1>. QED BY <1>2, Invariance, PTL DEF Spec, PublishedStays

-------------------------------------------------------------------------------
\* The journal and the record of a published image are removed only by a commit
\* that has verified the image and still holds it.
THEOREM RetiredIntact == Spec => RetireOnlyIntact
<1>. DEFINE Lost(op) ==
       \/ op \in journals /\ op \notin journals' /\ faults' = faults
       \/ Owned(checkpoint) /\ checkpoint.op = op /\ checkpoint' # checkpoint
<1>1. ASSUME IInv, Next, NEW op \in finals, Lost(op)
      PROVE op \in finals' /\ op \notin damaged'
  <2>. USE <1>1, NoSlotAssumption
       DEF IInv, TypeOK, Goto, Leave, files, medium, OneName, FreshOps, PreMove, Owned
  <2>1. ASSUME NEW c \in Controllers, CallStep(c)
        PROVE op \in finals' /\ op \notin damaged'
    <3>1. CASE Begin(c) BY <3>1 DEF Begin
    <3>2. CASE AbandonBegin(c) BY <3>2 DEF AbandonBegin
    <3>3. CASE CreateLoad(c) BY <3>3 DEF CreateLoad
    <3>4. CASE CreateCheck(c) BY <3>4 DEF CreateCheck
    <3>5. CASE CreateMove(c) BY <3>5 DEF CreateMove
    <3>6. CASE CreateReadback(c) BY <3>6 DEF CreateReadback
    <3>7. CASE ReplaceLoad(c) BY <3>7 DEF ReplaceLoad
    <3>8. CASE ReplaceCheck(c) BY <3>8 DEF ReplaceCheck
    <3>9. CASE ReplaceSwap(c)
      <4>1. checkpoint = mem[c] /\ nxt[c] \in Successors(mem[c])
        BY <3>9 DEF ReplaceSwap, ReplaceHitsReviewed, WritesSuccessor, ReplaceSteps
      <4>2. mem[c].phase # "commit_ready"
        BY <4>1 DEF Successors, ValidTransition, AllowedPhaseTransition
      <4>. QED BY <3>9, <4>1, <4>2 DEF ReplaceSwap, PublishedIsReady, MediumFollows
    <3>10. CASE ReplaceReadback(c) BY <3>10 DEF ReplaceReadback
    <3>11. CASE WriteStage(c) BY <3>11 DEF WriteStage
    <3>12. CASE TearStage(c) BY <3>12 DEF TearStage
    <3>13. CASE AbandonStage(c) BY <3>13 DEF AbandonStage
    <3>14. CASE Choose(c)
      BY <3>14 DEF Choose, Review, Resume, ChooseDiscard, FinishRestore, BeginCommit
    <3>15. CASE CommitOpen(c) BY <3>15 DEF CommitOpen
    <3>16. CASE CommitPublish(c) BY <3>16 DEF CommitPublish
    <3>17. CASE CommitRelock(c) \/ CommitVerify(c) \/ CommitEnd(c)
      BY <3>17 DEF CommitRelock, CommitVerify, CommitEnd
    <3>18. CASE CommitJournal(c)
      BY <3>18 DEF CommitJournal, CommitProgress, LockSteps
    <3>19. CASE CommitRetire(c)
      BY <3>19 DEF CommitRetire, CommitProgress, LockSteps, HeldSlotIsReviewed, HoldSteps
    <3>20. CASE DiscardOpen(c) \/ DiscardMark(c)
      BY <3>20 DEF DiscardOpen, DiscardMark
    <3>21. CASE DiscardRollback(c)
      BY <3>21 DEF DiscardRollback, Vanish, Pending, HoldsFiles, DiscardSteps,
          HeldSlotIsReviewed, HoldSteps, CommitProgress
    <3>22. CASE DiscardClose(c)
      BY <3>22 DEF DiscardClose, Vanish, HoldsFiles, DiscardSteps,
          HeldSlotIsReviewed, HoldSteps
    <3>23. CASE DiscardCloseObjects(c)
      BY <3>23 DEF DiscardCloseObjects, Vanish, HoldsFiles, DiscardSteps, CommitProgress
    <3>24. CASE Abandon(c) BY <3>24 DEF Abandon
    <3>25. CASE Crash(c)
      BY <3>25 DEF Crash, Vanish, Pending, HoldsFiles, DiscardSteps,
          HeldSlotIsReviewed, HoldSteps, CommitProgress
    <3>. QED BY <2>1, <3>1, <3>2, <3>3, <3>4, <3>5, <3>6, <3>7, <3>8, <3>9, <3>10,
          <3>11, <3>12, <3>13, <3>14, <3>15, <3>16, <3>17, <3>18, <3>19, <3>20,
          <3>21, <3>22, <3>23, <3>24, <3>25
          DEF CallStep, Create, Replace, Stage, Commit, Discard
  <2>2. CASE PowerLoss
    <3>1. CASE checkpoint' # checkpoint /\ Owned(checkpoint)
      BY <2>2, <3>1 DEF PowerLoss, MediumFollows
    <3>2. CASE op \in journals /\ op \notin journals'
      <4>1. op \notin mJournals
        BY <2>2, <3>2 DEF PowerLoss
      <4>. QED BY <3>2, <4>1 DEF CountedAreSettled, Settled
    <3>. QED BY <3>1, <3>2
  <2>4. CASE WriteBack BY <2>4 DEF WriteBack
  <2>3. ASSUME NEW o \in Ops, Touch(o) PROVE op \in finals' /\ op \notin damaged'
    BY <2>3 DEF Touch
  <2>. QED BY <2>1, <2>2, <2>3, <2>4 DEF Next
<1>2. IInv /\ [Next]_vars =>
        [\A op \in finals : Lost(op) => op \in finals' /\ op \notin damaged']_vars
  BY <1>1
<1>. QED BY <1>2, Invariance, PTL DEF Spec, RetireOnlyIntact

-------------------------------------------------------------------------------
\* Every step of the detailed slot is a step of the abstract one or leaves the
\* abstract slot alone.
LEMMA StepImplements ==
  ASSUME IInv, Next PROVE [Store!StoreNext]_(Store!storeVars)
<1>. USE NoSlotAssumption
     DEF IInv, TypeOK, Goto, Leave, files, medium, Store!StoreNext, Store!storeVars
<1>1. ASSUME NEW c \in Controllers, CallStep(c)
      PROVE [Store!StoreNext]_(Store!storeVars)
  <2>1. CASE Begin(c) BY <2>1 DEF Begin
  <2>2. CASE AbandonBegin(c) BY <2>2 DEF AbandonBegin
  <2>3. CASE CreateLoad(c) \/ CreateCheck(c) \/ CreateReadback(c)
    BY <2>3 DEF CreateLoad, CreateCheck, CreateReadback
  <2>4. CASE CreateMove(c)
    <3>1. /\ checkpoint' = FirstRecord(mem[c].op, mem[c].owned)
          /\ mem[c].op \in Ops \ (finals \cup gone \cup mFinals) /\ mem[c].owned \in BOOLEAN
      BY <2>4 DEF CreateMove, StageIsMine, StagedSteps, WritesSuccessor, CreateSteps,
         FreshOps, PreMove, SlotRecord, MediumFollows
    <3>. QED BY <2>4, <3>1 DEF CreateMove, Store!Create, Store!Ops, Ops,
         Store!FirstRecord, FirstRecord
  <2>5. CASE ReplaceCheck(c) \/ ReplaceReadback(c)
    BY <2>5 DEF ReplaceCheck, ReplaceReadback
  <2>16. CASE ReplaceLoad(c)
    <3>1. /\ mPartials' = mPartials \/ mPartials' = mPartials \cup {mem[c].op}
          /\ Owned(mem[c]) => mem[c].op \notin gone
          /\ ~Owned(mem[c]) => mPartials' = mPartials
      BY <2>16 DEF ReplaceLoad, LoadOk, ObjectsPresent, OneName
    <3>2. gone \ mPartials' = gone \ mPartials
      BY <3>1
    <3>. QED BY <2>16, <3>2 DEF ReplaceLoad
  <2>6. CASE ReplaceSwap(c)
    <3>1. checkpoint = mem[c] /\ checkpoint' \in Successors(checkpoint)
      BY <2>6 DEF ReplaceSwap, ReplaceHitsReviewed, WritesSuccessor, ReplaceSteps,
         StageIsMine, StagedSteps
    <3>2. checkpoint.op \notin finals \cup gone
      BY <2>6, <3>1 DEF ReplaceSwap, PublishedIsReady, MediumFollows, Successors, ValidTransition,
         AllowedPhaseTransition
    <3>3. Store!Successors(checkpoint) = Successors(checkpoint)
      BY DEF Store!Successors, Successors, Store!SlotRecord, SlotRecord,
         Store!ValidTransition, ValidTransition, Store!ValidCheckpoint,
         ValidCheckpoint, Store!AllowedPhaseTransition, AllowedPhaseTransition,
         Store!Ops, Ops, Store!Phases, Phases
    <3>. QED BY <2>6, <3>1, <3>2, <3>3 DEF ReplaceSwap, Store!Replace
  <2>7. CASE Stage(c) BY <2>7 DEF Stage, WriteStage, TearStage, AbandonStage
  <2>8. CASE Choose(c)
    BY <2>8 DEF Choose, Review, Resume, ChooseDiscard, FinishRestore, BeginCommit
  <2>9. CASE CommitPublish(c)
    <3>1. checkpoint = mem[c] /\ Owned(checkpoint) /\ checkpoint.phase = "commit_ready"
      BY <2>9 DEF CommitPublish, HeldSlotIsReviewed, HoldSteps, CommitProgress, CommitSteps
    <3>2. checkpoint.op \notin finals \cup gone
      BY <2>9, <3>1 DEF CommitPublish, HoldsFiles, OneName
    <3>3. finals' \cup gone' = (finals \cup gone) \cup {checkpoint.op}
      BY <2>9, <3>1 DEF CommitPublish
    <3>4. checkpoint # NoSlot /\ checkpoint.owned
      BY <3>1 DEF Owned
    <3>5. UNCHANGED <<checkpoint, damaged, gone, medium>>
      BY <2>9 DEF CommitPublish
    <3>6. Store!Publish
      BY <3>1, <3>2, <3>3, <3>4, <3>5 DEF Store!Publish
    <3>. QED BY <3>6
  <2>10. CASE CommitRetire(c)
    BY <2>10 DEF CommitRetire, Store!Retire, HeldSlotIsReviewed, HoldSteps,
       CommitProgress, LockSteps, OneName
  <2>11. CASE \/ CommitOpen(c) \/ CommitRelock(c) \/ CommitVerify(c)
              \/ CommitJournal(c) \/ CommitEnd(c)
    BY <2>11 DEF CommitOpen, CommitRelock, CommitVerify, CommitJournal, CommitEnd
  <2>12. CASE DiscardOpen(c) \/ DiscardMark(c) \/ DiscardCloseObjects(c)
    BY <2>12 DEF DiscardOpen, DiscardMark, DiscardCloseObjects, Vanish
  <2>13. ASSUME checkpoint' = NoSlot, pc[c] \in HoldSteps \cap DiscardSteps,
                UNCHANGED <<finals, damaged, gone, medium>>
         PROVE Store!Drop
    <3>1. checkpoint = mem[c] /\ checkpoint # NoSlot
      BY <2>13 DEF HeldSlotIsReviewed, HoldSteps
    <3>2. checkpoint.op \notin finals \cup gone
      BY <2>13, <3>1 DEF HoldsFiles, HoldSteps, DiscardSteps, OneName, PublishedIsReady,
         MediumFollows
    <3>. QED BY <2>13, <3>1, <3>2 DEF Store!Drop
  <2>14. CASE DiscardRollback(c) \/ DiscardClose(c) \/ Crash(c)
    <3>1. CASE checkpoint' = checkpoint
      BY <2>14, <3>1 DEF DiscardRollback, DiscardClose, Crash
    <3>2. CASE checkpoint' # checkpoint
      BY <2>13, <2>14, <3>2 DEF DiscardRollback, DiscardClose, Crash, Vanish, Pending,
         HoldSteps, DiscardSteps
    <3>. QED BY <3>1, <3>2
  <2>15. CASE Abandon(c) BY <2>15 DEF Abandon
  <2>. QED BY <1>1, <2>1, <2>2, <2>3, <2>4, <2>5, <2>6, <2>7, <2>8, <2>9, <2>10,
        <2>11, <2>12, <2>14, <2>15, <2>16 DEF CallStep, Create, Replace, Commit, Discard
<1>2. CASE PowerLoss
  <2>1. checkpoint # NoSlot => mCheckpoint = checkpoint
    BY DEF MediumFollows
  <2>2. /\ finals' \cup gone' = mFinals \cup (gone \ mPartials)
        /\ mFinals' \cup (gone' \ mPartials') = mFinals \cup (gone \ mPartials)
        /\ damaged' \cup gone' \subseteq damaged \cup gone
    BY <1>2 DEF PowerLoss, medium
  <2>. QED BY <1>2, <2>1, <2>2 DEF PowerLoss, medium, Store!PowerLoss
<1>3. ASSUME NEW op \in Ops, Touch(op) PROVE [Store!StoreNext]_(Store!storeVars)
  <2>1. CASE UNCHANGED <<finals, damaged, gone>>
    BY <1>3, <2>1 DEF Touch, medium
  <2>2. CASE op \in finals /\ damaged' = damaged \cup {op} /\ UNCHANGED <<finals, gone>>
    BY <1>3, <2>2 DEF Touch, medium, Store!Spoil
  <2>3. CASE op \in finals /\ finals' = finals \ {op} /\ gone' = gone \cup {op} /\ damaged' = damaged
    <3>1. /\ finals' \cup gone' = finals \cup gone
          /\ damaged' \cup gone' = (damaged \cup gone) \cup {op}
          /\ op \in mPartials \cup mFinals
      BY <2>3 DEF CountedAreSettled, Settled
    <3>2. mFinals' \cup (gone' \ mPartials') = mFinals \cup (gone \ mPartials)
      BY <1>3, <2>3, <3>1 DEF Touch, medium
    <3>. QED BY <1>3, <2>3, <3>1, <3>2 DEF Touch, medium, Store!Spoil
  <2>. QED BY <1>3, <2>1, <2>2, <2>3 DEF Touch
<1>4. CASE WriteBack
  <2>1. CASE mCheckpoint' = checkpoint /\ UNCHANGED <<mPartials, mJournals, mFinals>>
    BY <1>4, <2>1 DEF WriteBack, Store!Settle
  <2>2. ASSUME NEW op \in Ops,
               mPartials' = (mPartials \ {op}) \cup (partials \cap {op}),
               mFinals' = (mFinals \ {op}) \cup (finals \cap {op}),
               UNCHANGED mCheckpoint
        PROVE  Store!Settle
    <3>1. mFinals' \cup (gone \ mPartials')
            = ((mFinals \cup (gone \ mPartials)) \ {op}) \cup ((finals \cup gone) \cap {op})
      BY <2>2 DEF OneName
    <3>. QED BY <1>4, <2>2, <3>1 DEF WriteBack, Store!Settle, Store!Ops, Ops
  <2>3. CASE UNCHANGED <<mCheckpoint, mPartials, mFinals>>
    BY <1>4, <2>3 DEF WriteBack
  <2>. QED BY <1>4, <2>1, <2>2, <2>3 DEF WriteBack
<1>. QED BY <1>1, <1>2, <1>3, <1>4 DEF Next

\* Through the mapping of checkpoint to slot, of the images that have or had
\* their completed name to published and of those changed by others to spoiled,
\* the files and calls of ResumeSlot implement SlotStore.
THEOREM Refinement == Spec => ImplementsStore
<1>1. Init => Store!StoreInit
  BY DEF Init, Store!StoreInit
<1>2. IInv /\ [Next]_vars => [Store!StoreNext]_(Store!storeVars)
  <2>1. CASE UNCHANGED vars
    BY <2>1 DEF vars, Store!storeVars
  <2>. QED BY <2>1, StepImplements
<1>. QED BY <1>1, <1>2, Invariance, PTL DEF Spec, ImplementsStore, Store!StoreSpec

-------------------------------------------------------------------------------
(* The life of a record.                                                      *)

\* A record goes only through a controller that holds it for deletion and that is
\* bound to this very record: by the two deletions, by the death of the process
\* after its mark, or by a rollback whose mark sticks.
LEMMA RecordRemoval ==
  ASSUME IInv, Next, checkpoint # NoSlot, checkpoint' = NoSlot
  PROVE  \E c \in Controllers :
           /\ pc[c] \in HoldSteps /\ mem[c] = checkpoint
           /\ \/ CommitRetire(c) \/ DiscardClose(c)
              \/ /\ pc[c] \in {"discard_mark_image", "discard_mark_journal", "discard_close"}
                 /\ Crash(c) \/ (DiscardRollback(c) /\ faults' # faults)
<1>. USE DEF IInv, TypeOK, Goto, Leave, files
<1>2. ASSUME NEW c \in Controllers, CallStep(c)
      PROVE  \/ CommitRetire(c) \/ DiscardClose(c)
             \/ /\ pc[c] \in {"discard_mark_image", "discard_mark_journal", "discard_close"}
                /\ Crash(c) \/ (DiscardRollback(c) /\ faults' # faults)
  <2>1. CASE Create(c)
    BY <2>1 DEF Create, Begin, AbandonBegin, CreateLoad, CreateCheck, CreateMove, CreateReadback
  <2>2. CASE Replace(c)
    BY <2>2 DEF Replace, ReplaceLoad, ReplaceCheck, ReplaceSwap, ReplaceReadback
  <2>3. CASE Stage(c) \/ Choose(c) \/ Abandon(c)
    BY <2>3 DEF Stage, WriteStage, TearStage, AbandonStage, Choose, Review, Resume,
       ChooseDiscard, FinishRestore, BeginCommit, Abandon
  <2>4. CASE Commit(c)
    BY <2>4 DEF Commit, CommitOpen, CommitPublish, CommitRelock, CommitVerify,
       CommitJournal, CommitEnd
  <2>5. CASE DiscardOpen(c) \/ DiscardMark(c) \/ DiscardCloseObjects(c)
    BY <2>5 DEF DiscardOpen, DiscardMark, DiscardCloseObjects, Vanish
  <2>6. CASE DiscardRollback(c)
    BY <2>6 DEF DiscardRollback, Vanish
  <2>7. CASE Crash(c)
    BY <2>7 DEF Crash, Vanish, Pending
  <2>. QED BY <1>2, <2>1, <2>2, <2>3, <2>4, <2>5, <2>6, <2>7 DEF CallStep, Discard
<1>3. PICK c \in Controllers : CallStep(c)
  BY DEF Next, WriteBack, PowerLoss, Touch, MediumFollows
<1>4. \/ CommitRetire(c) \/ DiscardClose(c)
      \/ /\ pc[c] \in {"discard_mark_image", "discard_mark_journal", "discard_close"}
         /\ Crash(c) \/ (DiscardRollback(c) /\ faults' # faults)
  BY <1>2, <1>3
<1>5. pc[c] \in HoldSteps
  BY <1>4 DEF CommitRetire, DiscardClose, HoldSteps
<1>. QED BY <1>4, <1>5 DEF HeldSlotIsReviewed

\* Nobody's record is removed but the one that was reviewed and is held: neither
\* a commit nor a discard, a crash or a power loss makes another one disappear.
OnlyReviewedIsRemoved ==
  [][checkpoint # NoSlot /\ checkpoint' = NoSlot
       => \E c \in Controllers : pc[c] \in HoldSteps /\ mem[c] = checkpoint]_vars

\* Whoever deletes the record deletes the one that was shown to its user.
THEOREM RemovedIsReviewed == Spec => OnlyReviewedIsRemoved
<1>1. IInv /\ [Next]_vars =>
        [checkpoint # NoSlot /\ checkpoint' = NoSlot
           => \E c \in Controllers : pc[c] \in HoldSteps /\ mem[c] = checkpoint]_vars
  BY RecordRemoval
<1>. QED BY <1>1, Invariance, PTL DEF Spec, OnlyReviewedIsRemoved

\* What follows from a record is one that validate_checkpoint_transition admits,
\* whoever else writes at the same time: the operation stays, its revision grows
\* by one, and no verified work is given back.
RecordMovesLegally ==
  [][checkpoint # NoSlot /\ checkpoint' \notin {checkpoint, NoSlot}
       => checkpoint' \in Successors(checkpoint)]_vars

LEMMA RecordStep ==
  ASSUME IInv, Next, checkpoint # NoSlot, checkpoint' \notin {checkpoint, NoSlot}
  PROVE  checkpoint' \in Successors(checkpoint)
<1>1. [Store!StoreNext]_(Store!storeVars)
  BY StepImplements
<1>2. checkpoint' \in Store!Successors(checkpoint)
  BY <1>1 DEF Store!StoreNext, Store!storeVars, Store!Create, Store!Replace, Store!Publish,
     Store!Retire, Store!Drop, Store!Spoil, Store!Settle, Store!PowerLoss
<1>3. Store!Successors(checkpoint) = Successors(checkpoint)
  BY DEF Store!Successors, Successors, Store!SlotRecord, SlotRecord,
     Store!ValidTransition, ValidTransition, Store!ValidCheckpoint,
     ValidCheckpoint, Store!AllowedPhaseTransition, AllowedPhaseTransition,
     Store!Ops, Ops, Store!Phases, Phases
<1>. QED BY <1>2, <1>3

\* MoveFileExW and ReplaceFileW look at no contents, and yet the slot's history is
\* one of legal transitions.
THEOREM RecordIsLegal == Spec => RecordMovesLegally
<1>1. IInv /\ [Next]_vars =>
        [checkpoint # NoSlot /\ checkpoint' \notin {checkpoint, NoSlot}
           => checkpoint' \in Successors(checkpoint)]_vars
  BY RecordStep
<1>. QED BY <1>1, Invariance, PTL DEF Spec, RecordMovesLegally

-------------------------------------------------------------------------------
(* Files without a record.                                                    *)

Recording == {"create_readback", "run"} \cup ReplaceSteps

\* A record whose operation has files is an image's, also one that a controller
\* remembers.
WithFiles == partials \cup journals \cup mPartials \cup mJournals

FilesAreOwned ==
  /\ mCheckpoint # NoSlot /\ mCheckpoint.op \in WithFiles => Owned(mCheckpoint)
  /\ \A c \in Controllers :
       pc[c] # "idle" /\ mem[c].op \in WithFiles => Owned(mem[c])

\* While a run works on an image, its record is in the slot.
RunHasRecord ==
  \A c \in Controllers :
    pc[c] \in Recording /\ Owned(mem[c]) => Owned(checkpoint) /\ checkpoint.op = mem[c].op

RInv == IInv /\ FilesAreOwned /\ RunHasRecord

LEMMA FirstRecordType ==
  ASSUME NEW op \in Ops, NEW owned \in BOOLEAN
  PROVE  FirstRecord(op, owned) \in SlotRecord /\ FirstRecord(op, owned) # NoSlot
<1>1. 1 \in 1 .. MaxRev /\ 0 \in 0 .. MaxWork /\ "preparing" \in Phases
  BY BoundsAssumption DEF Phases
<1>2. FirstRecord(op, owned) \in SlotRecord
  BY <1>1 DEF FirstRecord, SlotRecord
<1>. QED BY <1>2, NoSlotAssumption

LEMMA OwnedNext == ASSUME RInv, [Next]_vars PROVE FilesAreOwned'
<1>. USE NoSlotAssumption
     DEF RInv, IInv, TypeOK, Goto, Leave, files, medium, FilesAreOwned, WithFiles,
         MediumFollows
<1>1. ASSUME NEW c \in Controllers, CallStep(c) PROVE FilesAreOwned'
  <2>1. CASE Begin(c)
    <3>1. PICK owned \in BOOLEAN :
            /\ mem' = [mem EXCEPT ![c] = FirstRecord(nextOp, owned)]
            /\ partials' = partials \cup (IF owned THEN {nextOp} ELSE {})
            /\ journals' = journals \cup (IF owned THEN {nextOp} ELSE {})
      BY <2>1 DEF Begin
    <3>2. FirstRecord(nextOp, owned) # NoSlot
      <4>1. nextOp \in Ops
        BY <2>1, BoundsAssumption DEF Begin, Ops
      <4>. QED BY <4>1, FirstRecordType
    <3>3. /\ mem'[c].op = nextOp
          /\ nextOp \in WithFiles' => Owned(mem[c])'
      <4>1. UNCHANGED <<mPartials, mJournals>> /\ mem'[c] = FirstRecord(nextOp, owned)
        BY <2>1, <3>1 DEF Begin
      <4>2. nextOp \notin WithFiles
        BY DEF FreshOps
      <4>. QED BY <3>1, <3>2, <4>1, <4>2 DEF FirstRecord, Owned
    <3>4. \A d \in Controllers \ {c} :
            /\ pc'[d] = pc[d] /\ mem'[d] = mem[d]
            /\ pc[d] # "idle" => mem[d].op # nextOp
      BY <2>1, <3>1 DEF Begin, FreshOps
    <3>5. /\ mCheckpoint' = mCheckpoint
          /\ mCheckpoint # NoSlot => mCheckpoint.op # nextOp
      BY <2>1 DEF Begin, FreshOps
    <3>. QED BY <2>1, <3>1, <3>3, <3>4, <3>5 DEF Begin, Owned
  <2>2. CASE AbandonBegin(c)
    BY <2>2 DEF AbandonBegin, Owned
  <2>3. CASE CreateLoad(c) \/ CreateCheck(c) \/ CreateReadback(c)
    BY <2>3 DEF CreateLoad, CreateCheck, CreateReadback, Owned
  <2>4. CASE CreateMove(c)
    <3>1. checkpoint' = mem[c]
      BY <2>4 DEF CreateMove, StageIsMine, StagedSteps, WritesSuccessor, CreateSteps
    <3>. QED BY <2>4, <3>1 DEF CreateMove, Owned
  <2>5. CASE ReplaceLoad(c) \/ ReplaceCheck(c)
    BY <2>5 DEF ReplaceLoad, ReplaceCheck, LoadOk, ObjectsPresent, Owned
  <2>6. CASE ReplaceSwap(c)
    <3>1. checkpoint = mem[c] /\ checkpoint' \in Successors(mem[c]) /\ mem[c] \in SlotRecord
      BY <2>6 DEF ReplaceSwap, ReplaceHitsReviewed, WritesSuccessor, ReplaceSteps,
         StageIsMine, StagedSteps
    <3>2. checkpoint'.op = mem[c].op /\ (Owned(checkpoint') <=> Owned(mem[c]))
      BY <3>1, SuccessorFacts
    <3>3. /\ UNCHANGED <<partials, journals, mPartials, mJournals, mem>>
          /\ checkpoint # NoSlot /\ mCheckpoint' = checkpoint'
      BY <2>6 DEF ReplaceSwap
    <3>4. checkpoint'.op \in WithFiles => Owned(checkpoint')
      BY <3>1, <3>2, <3>3
    <3>5. \A d \in Controllers : pc'[d] # "idle" => pc[d] # "idle"
      BY <2>6 DEF ReplaceSwap
    <3>. QED BY <3>3, <3>4, <3>5 DEF Owned
  <2>7. CASE ReplaceReadback(c)
    <3>1. nxt[c] \in Successors(mem[c]) /\ mem[c] \in SlotRecord
      BY <2>7 DEF ReplaceReadback, WritesSuccessor, ReplaceSteps
    <3>2. nxt[c].op = mem[c].op /\ (Owned(nxt[c]) <=> Owned(mem[c]))
      BY <3>1, SuccessorFacts
    <3>. QED BY <2>7, <3>2 DEF ReplaceReadback, Owned
  <2>8. CASE Stage(c)
    BY <2>8 DEF Stage, WriteStage, TearStage, AbandonStage, Owned
  <2>9. CASE Choose(c)
    BY <2>9 DEF Choose, Review, Resume, ChooseDiscard, FinishRestore, BeginCommit, Owned
  <2>10. CASE Commit(c)
    BY <2>10 DEF Commit, CommitOpen, CommitPublish, CommitRelock, CommitVerify,
       CommitJournal, CommitRetire, CommitEnd, Owned
  <2>11. CASE Discard(c)
    BY <2>11 DEF Discard, DiscardOpen, DiscardMark, DiscardRollback, DiscardClose,
       DiscardCloseObjects, Vanish, Owned
  <2>12. CASE Abandon(c) \/ Crash(c)
    BY <2>12 DEF Abandon, Crash, Vanish, Owned
  <2>. QED BY <1>1, <2>1, <2>2, <2>3, <2>4, <2>5, <2>6, <2>7, <2>8, <2>9, <2>10, <2>11,
        <2>12 DEF CallStep, Create, Replace
<1>2. CASE PowerLoss
  BY <1>2 DEF PowerLoss, Owned
<1>3. ASSUME NEW op \in Ops, Touch(op) PROVE FilesAreOwned'
  BY <1>3 DEF Touch, Owned
<1>4. CASE UNCHANGED vars
  BY <1>4 DEF vars, Owned
<1>5. CASE WriteBack
  BY <1>5 DEF WriteBack
<1>. QED BY <1>1, <1>2, <1>3, <1>4, <1>5 DEF Next

\* A run starts with the record it has just put into the slot, or with the one it
\* has just found there.
LEMMA RunBegins ==
  ASSUME RInv, Next, NEW d \in Controllers, pc'[d] \in Recording
  PROVE  \/ /\ pc[d] \in Recording /\ mem[d] \in SlotRecord
            /\ mem'[d].op = mem[d].op /\ (Owned(mem'[d]) <=> Owned(mem[d]))
         \/ mem'[d] = checkpoint'
<1>. USE NoSlotAssumption
     DEF RInv, IInv, TypeOK, Goto, Leave, files, medium, Recording, CreateSteps, ReplaceSteps
<1>1. ASSUME NEW c \in Controllers, CallStep(c)
      PROVE  \/ /\ pc[d] \in Recording /\ mem[d] \in SlotRecord
                /\ mem'[d].op = mem[d].op /\ (Owned(mem'[d]) <=> Owned(mem[d]))
             \/ mem'[d] = checkpoint'
  <2>1. CASE d # c
    <3>1. pc'[d] = pc[d] /\ mem'[d] = mem[d]
      <4>1. CASE Create(c) \/ Replace(c) \/ Stage(c)
        BY <2>1, <4>1 DEF Create, Begin, AbandonBegin, CreateLoad, CreateCheck, CreateMove,
           CreateReadback, Replace, ReplaceLoad, ReplaceCheck, ReplaceSwap,
           ReplaceReadback, Stage, WriteStage, TearStage, AbandonStage
      <4>2. CASE Choose(c) \/ Commit(c)
        BY <2>1, <4>2 DEF Choose, Review, Resume, ChooseDiscard, FinishRestore, BeginCommit,
           Commit, CommitOpen, CommitPublish, CommitRelock, CommitVerify,
           CommitJournal, CommitRetire, CommitEnd
      <4>3. CASE Discard(c) \/ Abandon(c) \/ Crash(c)
        BY <2>1, <4>3 DEF Discard, DiscardOpen, DiscardMark, DiscardRollback,
           DiscardClose, DiscardCloseObjects, Abandon, Crash
      <4>. QED BY <1>1, <4>1, <4>2, <4>3 DEF CallStep
    <3>. QED BY <3>1
  <2>2. CASE d = c /\ Create(c)
    <3>1. CASE Begin(c) \/ AbandonBegin(c) \/ CreateLoad(c) \/ CreateCheck(c)
      BY <2>2, <3>1 DEF Begin, AbandonBegin, CreateLoad, CreateCheck
    <3>2. CASE CreateMove(c)
      BY <2>2, <3>2 DEF CreateMove, StageIsMine, StagedSteps, WritesSuccessor
    <3>3. CASE CreateReadback(c)
      BY <2>2, <3>3 DEF CreateReadback
    <3>. QED BY <2>2, <3>1, <3>2, <3>3 DEF Create
  <2>3. CASE d = c /\ Replace(c)
    <3>1. CASE ReplaceLoad(c) \/ ReplaceCheck(c) \/ ReplaceSwap(c)
      BY <2>3, <3>1 DEF ReplaceLoad, ReplaceCheck, ReplaceSwap
    <3>2. CASE ReplaceReadback(c)
      <4>1. nxt[c] \in Successors(mem[c]) /\ mem[c] \in SlotRecord /\ mem'[c] = nxt[c]
        BY <3>2 DEF ReplaceReadback, WritesSuccessor
      <4>2. mem'[c].op = mem[c].op /\ (Owned(mem'[c]) <=> Owned(mem[c]))
        BY <4>1, SuccessorFacts
      <4>. QED BY <2>3, <3>2, <4>1, <4>2 DEF ReplaceReadback
    <3>. QED BY <2>3, <3>1, <3>2 DEF Replace
  <2>4. CASE d = c /\ Stage(c)
    BY <2>4 DEF Stage, WriteStage, TearStage, AbandonStage
  <2>5. CASE d = c /\ Choose(c)
    BY <2>5 DEF Choose, Review, Resume, ChooseDiscard, FinishRestore, BeginCommit
  <2>6. CASE d = c /\ Commit(c)
    BY <2>6 DEF Commit, CommitOpen, CommitPublish, CommitRelock, CommitVerify,
       CommitJournal, CommitRetire, CommitEnd
  <2>7. CASE d = c /\ (Discard(c) \/ Abandon(c) \/ Crash(c))
    BY <2>7 DEF Discard, DiscardOpen, DiscardMark, DiscardRollback, DiscardClose,
       DiscardCloseObjects, Abandon, Crash
  <2>. QED BY <1>1, <2>1, <2>2, <2>3, <2>4, <2>5, <2>6, <2>7 DEF CallStep
<1>2. CASE PowerLoss BY <1>2 DEF PowerLoss
<1>3. ASSUME NEW op \in Ops, Touch(op)
      PROVE  /\ pc[d] \in Recording /\ mem[d] \in SlotRecord
             /\ mem'[d].op = mem[d].op /\ (Owned(mem'[d]) <=> Owned(mem[d]))
  BY <1>3 DEF Touch
<1>4. CASE WriteBack BY <1>4 DEF WriteBack
<1>. QED BY <1>1, <1>2, <1>3, <1>4 DEF Next

\* The record of a run stays: who would remove it has to hold the same files.
LEMMA RunNext == ASSUME RInv, [Next]_vars PROVE RunHasRecord'
<1>1. ASSUME Next, NEW d \in Controllers, pc[d] \in Recording, Owned(mem[d])
      PROVE  Owned(checkpoint') /\ checkpoint'.op = mem[d].op
  <2>1. Owned(checkpoint) /\ checkpoint.op = mem[d].op
    BY <1>1 DEF RInv, RunHasRecord
  <2>2. checkpoint # NoSlot /\ checkpoint \in SlotRecord
    BY <2>1 DEF RInv, IInv, TypeOK, Owned
  <2>3. checkpoint' # NoSlot
    <3>1. SUFFICES ASSUME checkpoint' = NoSlot PROVE FALSE
      OBVIOUS
    <3>2. PICK c \in Controllers : pc[c] \in HoldSteps /\ mem[c] = checkpoint
      BY <1>1, <2>2, <3>1, RecordRemoval DEF RInv
    <3>3. pc[c] \in ObjectSteps /\ pc[d] \in ObjectSteps
      BY <1>1, <3>2 DEF ObjectSteps, WorkSteps, Recording, CreateSteps
    <3>4. c # d
      BY <1>1, <3>2 DEF Recording, HoldSteps, ReplaceSteps
    <3>. QED BY <1>1, <2>1, <3>2, <3>3, <3>4 DEF RInv, IInv, OneHolder
  <2>4. CASE checkpoint' = checkpoint
    BY <2>1, <2>4
  <2>5. CASE checkpoint' # checkpoint
    <3>1. checkpoint' \in Successors(checkpoint)
      BY <1>1, <2>2, <2>3, <2>5, RecordStep DEF RInv
    <3>. QED BY <2>1, <2>2, <3>1, SuccessorFacts
  <2>. QED BY <2>4, <2>5
<1>2. ASSUME Next, NEW d \in Controllers, pc'[d] \in Recording, Owned(mem'[d])
      PROVE  Owned(checkpoint') /\ checkpoint'.op = mem'[d].op
  <2>1. CASE mem'[d] = checkpoint'
    BY <1>2, <2>1
  <2>2. CASE /\ pc[d] \in Recording /\ mem[d] \in SlotRecord
             /\ mem'[d].op = mem[d].op /\ (Owned(mem'[d]) <=> Owned(mem[d]))
    BY <1>1, <1>2, <2>2
  <2>. QED BY <1>2, <2>1, <2>2, RunBegins
<1>3. CASE UNCHANGED vars
  BY <1>3 DEF vars, RInv, RunHasRecord, Owned
<1>4. CASE Next
  BY <1>2, <1>4 DEF RunHasRecord, Owned
<1>. QED BY <1>3, <1>4

LEMMA RInvariance == Spec => []RInv
<1>1. Init => RInv
  <2>1. Init => FilesAreOwned /\ RunHasRecord
    BY DEF Init, FilesAreOwned, RunHasRecord, Recording, ReplaceSteps
  <2>. QED BY <2>1, InitInv DEF RInv
<1>2. RInv /\ [Next]_vars => RInv'
  BY NextInv, OwnedNext, RunNext DEF RInv
<1>. QED BY <1>1, <1>2, PTL DEF Spec

\* The files of an operation that was in the slot and whose record is gone, and
\* that nobody is about to close for good: nothing will look for them again.
Orphaned(op) ==
  /\ op \in slotted \cap (partials \cup journals)
  /\ checkpoint # NoSlot => checkpoint.op # op
  /\ ~InUse(op, Controllers, ObjectSteps)

\* A discard is broken off between its marks.
DiscardInterrupted(op) ==
  \E c \in Controllers :
    /\ pc[c] \in {"discard_mark_image", "discard_mark_journal"}
    /\ Crash(c) \/ (DiscardRollback(c) /\ faults' # faults)
    /\ mem[c].op = op

\* The record is gone, by a discard or a commit, and a power loss comes before the
\* handles marked for deletion are closed, or before the removal or the rename of
\* the files is on their disk, while the removal of the record is on its own.
RemovalUndone(op) ==
  /\ PowerLoss
  /\ checkpoint # NoSlot => checkpoint.op # op
  /\ mCheckpoint # NoSlot => mCheckpoint.op # op
  /\ \/ op \notin partials \cup journals
     \/ \E c \in Controllers : pc[c] = "discard_close_objects" /\ mem[c].op = op

\* Against EmptyMeansNoOrphan, which does not hold: what parts the image's files
\* from its record is an interruption of the discard of the image itself, or a
\* power loss after the record was removed.  Runs never do, however they end, nor
\* does the death of a process during a commit.
OrphansNeedInterruption ==
  [][\A op \in Ops : Orphaned(op)' /\ ~Orphaned(op) =>
       DiscardInterrupted(op) \/ RemovalUndone(op)]_vars

\* A file of an operation that was in the slot is an orphan, or the record names
\* it, or a discard is about to close it.
LEMMA FileOwners ==
  ASSUME RInv, NEW op \in slotted \cap (partials \cup journals), ~Orphaned(op)
  PROVE  \/ checkpoint # NoSlot /\ checkpoint.op = op
         \/ \E c \in Controllers : pc[c] = "discard_close_objects" /\ mem[c].op = op
<1>1. CASE checkpoint # NoSlot /\ checkpoint.op = op
  BY <1>1
<1>2. CASE InUse(op, Controllers, ObjectSteps)
  <2>1. PICK c \in Controllers : pc[c] \in ObjectSteps /\ mem[c].op = op
    BY <1>2 DEF InUse
  <2>2. pc[c] # "idle" /\ pc[c] \notin PreMove
    BY <2>1 DEF RInv, IInv, FreshOps, PreMove, ObjectSteps, WorkSteps, HoldSteps,
       CreateSteps, ReplaceSteps
  <2>3. Owned(mem[c])
    BY <2>1, <2>2 DEF RInv, FilesAreOwned, WithFiles
  <2>4. CASE pc[c] \in Recording
    BY <2>1, <2>3, <2>4 DEF RInv, RunHasRecord, Owned
  <2>5. CASE pc[c] \in HoldSteps
    BY <2>1, <2>3, <2>5 DEF RInv, IInv, HeldSlotIsReviewed, Owned
  <2>6. CASE pc[c] = "discard_close_objects"
    BY <2>1, <2>6
  <2>. QED BY <2>1, <2>2, <2>4, <2>5, <2>6
       DEF ObjectSteps, WorkSteps, PreMove, Recording, CreateSteps
<1>. QED BY <1>1, <1>2 DEF Orphaned

\* What becomes of the record when it goes, file by file.
LEMMA RemovalLeaves ==
  ASSUME RInv, Next, checkpoint # NoSlot, checkpoint' = NoSlot,
         NEW op, op = checkpoint.op, op \in slotted' \cap (partials' \cup journals'),
         ~InUse(op, Controllers, ObjectSteps)'
  PROVE  DiscardInterrupted(op)
<1>1. PICK c \in Controllers :
        /\ pc[c] \in HoldSteps /\ mem[c] = checkpoint
        /\ \/ CommitRetire(c) \/ DiscardClose(c)
           \/ /\ pc[c] \in {"discard_mark_image", "discard_mark_journal", "discard_close"}
              /\ Crash(c) \/ (DiscardRollback(c) /\ faults' # faults)
  BY RecordRemoval DEF RInv
<1>2. CASE CommitRetire(c)
  <2>1. UNCHANGED <<partials, journals>> /\ pc[c] = "commit_retire"
    BY <1>2 DEF CommitRetire, Goto, files
  <2>. QED BY <1>1, <2>1 DEF RInv, IInv, CommitProgress, LockSteps
<1>3. CASE DiscardClose(c)
  <2>1. pc[c] = "discard_close" /\ UNCHANGED <<partials, journals>>
    BY <1>3 DEF DiscardClose, Vanish
  <2>2. Owned(mem[c])
    BY <1>1, <2>1 DEF RInv, FilesAreOwned, WithFiles
  <2>3. mem' = mem /\ pc' = [pc EXCEPT ![c] = "discard_close_objects"]
    BY <1>3, <2>2 DEF DiscardClose, Goto
  <2>4. pc'[c] = "discard_close_objects"
    BY <2>3 DEF RInv, IInv, TypeOK
  <2>. QED BY <1>1, <2>3, <2>4 DEF InUse, ObjectSteps
<1>4. CASE /\ pc[c] \in {"discard_mark_image", "discard_mark_journal"}
           /\ Crash(c) \/ (DiscardRollback(c) /\ faults' # faults)
  BY <1>1, <1>4 DEF DiscardInterrupted
<1>5. CASE pc[c] = "discard_close" /\ Crash(c)
  <2>1. Owned(mem[c]) => op \notin partials' \cup journals'
    BY <1>1, <1>5 DEF Crash, Vanish, Pending
  <2>2. partials' \subseteq partials /\ journals' \subseteq journals
    BY <1>5 DEF Crash, Vanish
  <2>3. Owned(mem[c])
    BY <1>1, <1>5, <2>2 DEF RInv, FilesAreOwned, WithFiles
  <2>. QED BY <2>1, <2>3
<1>6. CASE pc[c] = "discard_close" /\ DiscardRollback(c)
  BY <1>6 DEF DiscardRollback
<1>. QED BY <1>1, <1>2, <1>3, <1>4, <1>5, <1>6

\* The handles a discard still has to close stay open, unless the power goes.
LEMMA ClosingLeaves ==
  ASSUME RInv, Next, NEW c \in Controllers, pc[c] = "discard_close_objects",
         NEW op, op = mem[c].op, op \in slotted' \cap (partials' \cup journals'),
         ~InUse(op, Controllers, ObjectSteps)'
  PROVE  PowerLoss
<1>. USE DEF RInv, IInv, TypeOK, Goto, Leave, files
<1>1. ~(pc'[c] = pc[c] /\ mem'[c] = mem[c])
  BY DEF InUse, ObjectSteps
<1>2. ASSUME NEW d \in Controllers, CallStep(d) PROVE FALSE
  <2>1. c = d
    <3>1. SUFFICES ASSUME c # d PROVE FALSE
      OBVIOUS
    <3>2. CASE Create(d) \/ Replace(d) \/ Stage(d)
      BY <1>1, <3>1, <3>2 DEF Create, Begin, AbandonBegin, CreateLoad, CreateCheck, CreateMove,
         CreateReadback, Replace, ReplaceLoad, ReplaceCheck, ReplaceSwap,
         ReplaceReadback, Stage, WriteStage, TearStage, AbandonStage
    <3>3. CASE Choose(d) \/ Commit(d)
      BY <1>1, <3>1, <3>3 DEF Choose, Review, Resume, ChooseDiscard, FinishRestore, BeginCommit,
         Commit, CommitOpen, CommitPublish, CommitRelock, CommitVerify,
         CommitJournal, CommitRetire, CommitEnd
    <3>4. CASE Discard(d) \/ Abandon(d) \/ Crash(d)
      BY <1>1, <3>1, <3>4 DEF Discard, DiscardOpen, DiscardMark, DiscardRollback,
         DiscardClose, DiscardCloseObjects, Abandon, Crash
    <3>. QED BY <1>2, <3>2, <3>3, <3>4 DEF CallStep
  <2>2. DiscardCloseObjects(c) \/ Crash(c)
    <3>1. CASE Create(c) \/ Replace(c) \/ Stage(c)
      BY <3>1 DEF Create, Begin, AbandonBegin, CreateLoad, CreateCheck, CreateMove,
         CreateReadback, Replace, ReplaceLoad, ReplaceCheck, ReplaceSwap,
         ReplaceReadback, Stage, WriteStage, TearStage, AbandonStage, StagedSteps
    <3>2. CASE Choose(c) \/ Commit(c)
      BY <3>2 DEF Choose, Review, Resume, ChooseDiscard, FinishRestore, BeginCommit,
         Commit, CommitOpen, CommitPublish, CommitRelock, CommitVerify,
         CommitJournal, CommitRetire, CommitEnd
    <3>3. CASE DiscardOpen(c) \/ DiscardMark(c) \/ DiscardRollback(c) \/ DiscardClose(c)
      BY <3>3 DEF DiscardOpen, DiscardMark, DiscardRollback, DiscardClose
    <3>4. CASE Abandon(c)
      BY <3>4 DEF Abandon, CreateSteps, ReplaceSteps, CommitSteps
    <3>. QED BY <1>2, <2>1, <3>1, <3>2, <3>3, <3>4 DEF CallStep, Discard
  <2>3. op \notin partials' \cup journals'
    BY <2>2 DEF DiscardCloseObjects, Crash, Vanish, Pending
  <2>. QED BY <2>3
<1>3. ASSUME NEW o \in Ops, Touch(o) PROVE FALSE
  BY <1>1, <1>3 DEF Touch
<1>4. ~WriteBack
  BY <1>1 DEF WriteBack
<1>. QED BY <1>2, <1>3, <1>4 DEF Next

\* No step makes a file for an operation whose record has been in the slot, and
\* none puts such a record into the slot for the first time but CreateMove.
LEMMA OldFiles ==
  ASSUME RInv, Next, ~PowerLoss, NEW op \in slotted' \cap (partials' \cup journals'),
         checkpoint' # NoSlot => checkpoint'.op # op
  PROVE  op \in slotted \cap (partials \cup journals)
<1>. USE DEF RInv, IInv, TypeOK, Goto, Leave, files
<1>1. ASSUME NEW c \in Controllers, CallStep(c)
      PROVE  op \in slotted \cap (partials \cup journals)
  <2>1. CASE Begin(c)
    BY <2>1 DEF Begin, FreshOps
  <2>2. CASE CreateMove(c)
    <3>1. checkpoint' = mem[c] /\ mem[c] # NoSlot
      BY <2>2, NoSlotAssumption
      DEF CreateMove, StageIsMine, StagedSteps, WritesSuccessor, CreateSteps
    <3>. QED BY <2>2, <3>1 DEF CreateMove
  <2>3. CASE AbandonBegin(c) \/ CreateLoad(c) \/ CreateCheck(c) \/ CreateReadback(c)
    BY <2>3 DEF AbandonBegin, CreateLoad, CreateCheck, CreateReadback
  <2>4. CASE Replace(c) \/ Stage(c)
    BY <2>4 DEF Replace, ReplaceLoad, ReplaceCheck, ReplaceSwap, ReplaceReadback,
       Stage, WriteStage, TearStage, AbandonStage
  <2>5. CASE Choose(c) \/ Commit(c)
    BY <2>5 DEF Choose, Review, Resume, ChooseDiscard, FinishRestore, BeginCommit,
       Commit, CommitOpen, CommitPublish, CommitRelock, CommitVerify,
       CommitJournal, CommitRetire, CommitEnd
  <2>6. CASE Discard(c) \/ Abandon(c) \/ Crash(c)
    BY <2>6 DEF Discard, DiscardOpen, DiscardMark, DiscardRollback, DiscardClose,
       DiscardCloseObjects, Vanish, Abandon, Crash
  <2>. QED BY <1>1, <2>1, <2>2, <2>3, <2>4, <2>5, <2>6 DEF CallStep, Create
<1>2. CASE WriteBack BY <1>2 DEF WriteBack
<1>3. ASSUME NEW o \in Ops, Touch(o) PROVE op \in slotted \cap (partials \cup journals)
  BY <1>3 DEF Touch
<1>. QED BY <1>1, <1>2, <1>3 DEF Next

\* The ways an image can lose its record: all of them in its own discard, or by a
\* power loss after its own discard or commit.
THEOREM OrphansAreInterrupted == Spec => OrphansNeedInterruption
<1>1. ASSUME RInv, Next, NEW op \in Ops, Orphaned(op)', ~Orphaned(op)
      PROVE  DiscardInterrupted(op) \/ RemovalUndone(op)
  <2>1. /\ op \in slotted' \cap (partials' \cup journals')
        /\ checkpoint' # NoSlot => checkpoint'.op # op
        /\ ~InUse(op, Controllers, ObjectSteps)'
    BY <1>1 DEF Orphaned
  <2>2. ~PowerLoss => op \in slotted \cap (partials \cup journals)
    BY <1>1, <2>1, OldFiles
  <2>3. CASE checkpoint # NoSlot /\ checkpoint.op = op
    <3>1. checkpoint' = NoSlot
      <4>1. checkpoint \in SlotRecord
        BY <1>1, <2>3 DEF RInv, IInv, TypeOK
      <4>2. CASE checkpoint' # NoSlot /\ checkpoint' # checkpoint
        <5>1. checkpoint' \in Successors(checkpoint)
          BY <1>1, <2>3, <4>2, RecordStep DEF RInv
        <5>. QED BY <2>1, <2>3, <4>1, <4>2, <5>1, SuccessorFacts
      <4>. QED BY <2>1, <2>3, <4>2
    <3>. QED BY <1>1, <2>1, <2>3, <3>1, RemovalLeaves
  <2>4. ASSUME NEW c \in Controllers, pc[c] = "discard_close_objects", mem[c].op = op
        PROVE  PowerLoss
    BY <1>1, <2>1, <2>4, ClosingLeaves
  <2>5. CASE ~PowerLoss
    BY <1>1, <2>2, <2>3, <2>4, <2>5, FileOwners
  <2>6. CASE PowerLoss
    <3>1. op \in slotted /\ checkpoint' = mCheckpoint
      BY <2>1, <2>6 DEF PowerLoss
    <3>2. checkpoint # NoSlot => checkpoint.op # op
      BY <1>1, <2>1, <3>1 DEF RInv, IInv, MediumFollows
    <3>3. CASE op \in partials \cup journals
      BY <1>1, <2>1, <2>6, <3>1, <3>2, <3>3, FileOwners DEF RemovalUndone
    <3>. QED BY <2>1, <2>6, <3>1, <3>2, <3>3 DEF RemovalUndone
  <2>. QED BY <2>5, <2>6
<1>2. RInv /\ [Next]_vars =>
        [\A op \in Ops : Orphaned(op)' /\ ~Orphaned(op) =>
           DiscardInterrupted(op) \/ RemovalUndone(op)]_vars
  BY <1>1
<1>. QED BY <1>2, RInvariance, PTL DEF Spec, OrphansNeedInterruption

==============================================================================
