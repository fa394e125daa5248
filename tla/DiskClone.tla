----------------------------- MODULE DiskClone -------------------------------
(* The offline clone engines (GPT and MBR) writing one target disk, run after *)
(* run: the first and the last MiB are wiped, with the old table and whatever *)
(* data a partition keeps there, the data is copied chunk by chunk, the new   *)
(* table written with the region that completes it last.  Every write is read *)
(* back, but only a flush makes it durable: until then the disk moves regions *)
(* to the medium in any order, and a power loss keeps those it has moved.     *)
EXTENDS Naturals, Sequences, FiniteSets

CONSTANTS Chunks,      \* data ranges the plan copies
          HeadChunks,  \* those that begin in the first MiB (a GPT partition
                       \* may start at LBA 34, an MBR one at 63 or before)
          TailChunks,  \* those that reach into the last MiB
          MaxRuns,     \* runs on the same target
          StyleOf,     \* "gpt" or "mbr" for each generation of the disk
          Zero,        \* a region a wipe has zeroed, a chunk perhaps in part
          Bad,         \* a region whose write went wrong
          NoTable      \* for TargetDisk

Generations == 0 .. MaxRuns  \* 0 is what the disk held before the first run
Styles == {"gpt", "mbr"}

ASSUME RunsAssumption == MaxRuns \in Nat /\ StyleOf \in [Generations -> Styles]
ASSUME ValuesAssumption ==
  /\ Zero \notin Generations /\ Bad \notin Generations /\ Zero # Bad
  /\ NoTable \notin Generations

HeadMeta == {"mbr", "primaryHeader", "primaryEntries"}
TailMeta == {"backupEntries", "backupHeader"}
Meta == HeadMeta \cup TailMeta
HeadArea == HeadMeta \cup HeadChunks  \* what zeroing the first MiB reaches
TailArea == TailMeta \cup TailChunks  \* and the last
EdgeChunks == HeadChunks \cup TailChunks
SingleSector == {"mbr", "primaryHeader", "backupHeader"}
Regions == Meta \cup Chunks
Values == Generations \cup {Zero, Bad}

\* Partitions lie between the tables, never over them.
ASSUME ChunksAssumption ==
  Chunks # {} /\ Meta \cap Chunks = {} /\ EdgeChunks \subseteq Chunks

VARIABLES
  cache,    \* what a read of the target returns
  durable,  \* what is left after a power loss
  run,      \* the generation being written, 0 before the first run
  wiped,    \* history: the latest run that has begun to wipe the disk
  phase,    \* where execute_offline_*_clone is
  todo,     \* chunks still to copy
  staged,   \* metadata writes done before the commit
  cancel,   \* the flag behind the cancellation probe
  asked,    \* history: the phase in which the user cancelled
  wrote,    \* history: the regions this run has written
  result

disk == <<cache, durable>>
progress == <<todo, staged>>
user == <<cancel, asked>>
vars == <<disk, run, wiped, phase, progress, user, wrote, result>>

Phases == {"plan", "armed", "head", "tail", "flushTable", "copy", "boundary",
           "flushData", "stage", "flushStaged", "lastPoll", "commit",
           "flushCommit", "cancelFlush", "ended"}
Results == {"none", "success", "failed", "cancelled", "lost"}

-------------------------------------------------------------------------------
(* The plan of a run.                                                         *)

StageOrder == <<"primaryEntries", "backupEntries", "backupHeader", "mbr">>

StagedWrites(g) == IF StyleOf[g] = "gpt" THEN Len(StageOrder) ELSE 0

CommitRegion(g) == IF StyleOf[g] = "gpt" THEN "primaryHeader" ELSE "mbr"

\* The sets of regions from each of which a reader makes out a table of g.
Tables(g) ==
  IF StyleOf[g] = "gpt"
    THEN {{"primaryHeader", "primaryEntries"}, {"backupHeader", "backupEntries"}}
    ELSE {{"mbr"}}

PlanRegions(g) == Chunks \cup (IF StyleOf[g] = "gpt" THEN Meta ELSE {"mbr"})

Readable(d, g) == \E T \in Tables(g) : \A r \in T : d[r] = g

-------------------------------------------------------------------------------
(* The disk.                                                                  *)

\* The first disk is complete and durable.
Init ==
  /\ cache = [r \in Regions |-> 0] /\ durable = cache
  /\ run = 0 /\ wiped = 0 /\ phase = "ended" /\ todo = {} /\ staged = 0
  /\ cancel = FALSE /\ asked = "ended" /\ wrote = {} /\ result = "none"

\* One region reaches the medium, the larger ones perhaps half of it at first.
WriteBack ==
  /\ \E r \in Regions :
       /\ durable[r] # cache[r]
       /\ \/ durable' = [durable EXCEPT ![r] = cache[r]]
          \/ r \notin SingleSector /\ durable' = [durable EXCEPT ![r] = Bad]
  /\ UNCHANGED <<cache, run, wiped, phase, progress, user, wrote, result>>

PowerLoss ==
  /\ cache' = durable
  /\ phase' = "ended"
  /\ result' = IF phase = "ended" THEN result ELSE "lost"
  /\ UNCHANGED <<durable, run, wiped, progress, user, wrote>>

\* write_target and read_back agree.
Verified(S, v) ==
  /\ cache' = [r \in Regions |-> IF r \in S THEN v ELSE cache[r]]
  /\ wrote' = wrote \cup S
  /\ UNCHANGED durable

End(outcome) == phase' = "ended" /\ result' = outcome

\* The source read, the write, the read-back or the digest fails: any part of
\* the regions may have been written, well or not, and nothing is flushed.
WriteFails(S, v) ==
  /\ \E new, wrong \in SUBSET S :
       cache' = [r \in Regions |-> IF r \in wrong THEN Bad
                                   ELSE IF r \in new THEN v ELSE cache[r]]
  /\ wrote' = wrote \cup S
  /\ End("failed")
  /\ UNCHANGED <<durable, progress>>

Flushed == \A r \in Regions : cache[r] = durable[r]

-------------------------------------------------------------------------------
(* The engine.                                                                *)

\* Mutant: the count of staged writes is left from the run before.
BeginKeepsStaged ==
  /\ phase = "ended" /\ run < MaxRuns
  /\ run' = run + 1
  /\ phase' = "plan" /\ todo' = Chunks
  /\ cancel' = FALSE /\ asked' = "ended" /\ wrote' = {} /\ result' = "none"
  /\ UNCHANGED <<disk, wiped, staged>>

Begin ==
  /\ phase = "ended" /\ run < MaxRuns
  /\ run' = run + 1
  /\ phase' = "plan" /\ todo' = Chunks /\ staged' = 0
  /\ cancel' = FALSE /\ asked' = "ended" /\ wrote' = {} /\ result' = "none"
  /\ UNCHANGED <<disk, wiped>>

RequestCancel ==
  /\ phase # "ended" /\ ~cancel
  /\ cancel' = TRUE /\ asked' = phase
  /\ UNCHANGED <<disk, run, wiped, phase, progress, wrote, result>>

\* Polls with nothing unflushed behind them return at once.
PlainPolls == {"plan", "armed", "lastPoll"}
\* The others flush first.
FlushingPolls == {"head", "tail", "copy", "boundary", "stage"}

\* Mutant: a poll in the middle of the work returns without the flush.
CancelSeenUnflushed ==
  /\ cancel /\ phase \in PlainPolls \cup FlushingPolls
  /\ End("cancelled")
  /\ UNCHANGED <<disk, run, wiped, progress, user, wrote>>

CancelSeen ==
  /\ cancel
  /\ \/ phase \in PlainPolls /\ End("cancelled")
     \/ phase \in FlushingPolls /\ phase' = "cancelFlush" /\ UNCHANGED result
  /\ UNCHANGED <<disk, run, wiped, progress, user, wrote>>

Plan ==
  /\ phase = "plan"
  /\ \/ ~cancel /\ phase' = "armed" /\ UNCHANGED result
     \/ End("failed")
  /\ UNCHANGED <<disk, run, wiped, progress, user, wrote>>

Arm ==
  /\ phase = "armed" /\ ~cancel
  /\ phase' = "head"
  /\ UNCHANGED <<disk, run, wiped, progress, user, wrote, result>>

InvalidateHead ==
  /\ phase = "head" /\ ~cancel
  /\ \/ Verified(HeadArea, Zero) /\ phase' = "tail" /\ UNCHANGED <<progress, result>>
     \/ WriteFails(HeadArea, Zero)
  /\ wiped' = run
  /\ UNCHANGED <<run, user>>

\* Mutant: the wiped table is not flushed before the data is rewritten.
InvalidateTailUnflushed ==
  /\ phase = "tail" /\ ~cancel
  /\ \/ Verified(TailArea, Zero) /\ phase' = "copy" /\ UNCHANGED <<progress, result>>
     \/ WriteFails(TailArea, Zero)
  /\ UNCHANGED <<run, wiped, user>>

InvalidateTail ==
  /\ phase = "tail" /\ ~cancel
  /\ \/ Verified(TailArea, Zero) /\ phase' = "flushTable" /\ UNCHANGED <<progress, result>>
     \/ WriteFails(TailArea, Zero)
  /\ UNCHANGED <<run, wiped, user>>

CopyChunk ==
  /\ phase = "copy" /\ ~cancel
  /\ \E c \in todo :
       \/ /\ Verified({c}, run)
          /\ todo' = todo \ {c} /\ phase' = "boundary"
          /\ UNCHANGED <<staged, result>>
       \/ WriteFails({c}, run)
  /\ UNCHANGED <<run, wiped, user>>

\* The safe boundary lets the copy go on.
Boundary ==
  /\ phase = "boundary" /\ ~cancel
  /\ phase' = IF todo = {} THEN "flushData" ELSE "copy"
  /\ UNCHANGED <<disk, run, wiped, progress, user, wrote, result>>

Stage ==
  /\ phase = "stage" /\ ~cancel
  /\ \/ /\ Verified({StageOrder[staged + 1]}, run)
        /\ staged' = staged + 1
        /\ phase' = IF staged + 1 = StagedWrites(run) THEN "flushStaged" ELSE "stage"
        /\ UNCHANGED <<todo, result>>
     \/ WriteFails({StageOrder[staged + 1]}, run)
  /\ UNCHANGED <<run, wiped, user>>

\* Mutant: the flag is not looked at again once the table is staged.
LastPollSkipped ==
  /\ phase = "lastPoll"
  /\ phase' = "commit"
  /\ UNCHANGED <<disk, run, wiped, progress, user, wrote, result>>

LastPoll ==
  /\ phase = "lastPoll" /\ ~cancel
  /\ phase' = "commit"
  /\ UNCHANGED <<disk, run, wiped, progress, user, wrote, result>>

\* Mutant: the verified commit is reported without waiting for its flush.
CommitUnflushed ==
  /\ phase = "commit"
  /\ \/ Verified({CommitRegion(run)}, run) /\ End("success") /\ UNCHANGED progress
     \/ WriteFails({CommitRegion(run)}, run)
  /\ UNCHANGED <<run, wiped, user>>

Commit ==
  /\ phase = "commit"
  /\ \/ /\ Verified({CommitRegion(run)}, run)
        /\ phase' = "flushCommit" /\ UNCHANGED <<progress, result>>
     \/ WriteFails({CommitRegion(run)}, run)
  /\ UNCHANGED <<run, wiped, user>>

Flushes == {"flushTable", "flushData", "flushStaged", "flushCommit", "cancelFlush"}

\* Where a flush that returned leads.
AfterFlush ==
  \/ phase = "flushTable" /\ phase' = "copy" /\ UNCHANGED result
  \/ /\ phase = "flushData"
     /\ phase' = IF StagedWrites(run) = 0 THEN "lastPoll" ELSE "stage"
     /\ UNCHANGED result
  \/ phase = "flushStaged" /\ phase' = "lastPoll" /\ UNCHANGED result
  \/ phase = "flushCommit" /\ End("success")
  \/ phase = "cancelFlush" /\ End("cancelled")

\* Mutant: the data is not flushed before the table is staged.
FlushDataSkipped ==
  /\ phase \in Flushes
  /\ \/ (Flushed \/ phase = "flushData") /\ AfterFlush
     \/ End("failed")
  /\ UNCHANGED <<disk, run, wiped, progress, user, wrote>>

\* A flush, or the digest after the last one, may fail whatever it has moved.
Flush ==
  /\ phase \in Flushes
  /\ \/ Flushed /\ AfterFlush
     \/ End("failed")
  /\ UNCHANGED <<disk, run, wiped, progress, user, wrote>>

Next ==
  \/ WriteBack \/ PowerLoss
  \/ Begin \/ RequestCancel \/ CancelSeen
  \/ Plan \/ Arm \/ InvalidateHead \/ InvalidateTail
  \/ CopyChunk \/ Boundary \/ Stage \/ LastPoll \/ Commit \/ Flush

Spec == Init /\ [][Next]_vars

-------------------------------------------------------------------------------
(* Properties.                                                                *)

TypeOK ==
  /\ cache \in [Regions -> Values] /\ durable \in [Regions -> Values]
  /\ run \in Generations /\ wiped \in Generations /\ phase \in Phases
  /\ todo \subseteq Chunks /\ staged \in 0 .. StagedWrites(run)
  /\ cancel \in BOOLEAN /\ asked \in Phases
  /\ wrote \subseteq Regions /\ result \in Results

\* A table that can be read, now or after a power loss, is the table of the
\* data that is there: never the old table over another run's data nor the new
\* one over chunks that are still on their way.  The one thing that may be
\* missing is what a later run has begun to wipe in the first and the last MiB
\* (offline_gpt_clone.cpp: the flushes after the invalidation and the copy).
TableImpliesData ==
  \A d \in {cache, durable} : \A g \in Generations : Readable(d, g) =>
    \A c \in Chunks :
      d[c] = g \/ (c \in EdgeChunks /\ g < wiped /\ d[c] \in {Zero, Bad})

\* A clone reported complete is on the medium, every region of it, and stays
\* there when the power goes (the flush after the commit).
SuccessIsDurable ==
  result = "success" => \A r \in PlanRegions(run) : durable[r] = run

\* A clone reported cancelled has left nothing in the cache that could change
\* the disk afterwards, and its completing region was never written
\* (docs/safety-model.md 5.2: what was written is flushed on a cancel, the
\* completing metadata is not committed).
CancelLeavesDiskSettled ==
  result = "cancelled" =>
    /\ \A r \in wrote : durable[r] = cache[r]
    /\ CommitRegion(run) \notin wrote \/ cache[CommitRegion(run)] # run

\* A cancel asked for before the last poll is never answered with a completed
\* clone.
CancelHonoured ==
  result = "success" => asked \in {"commit", "flushCommit", "ended"}

-------------------------------------------------------------------------------
(* The engines implement TargetDisk on the medium.                            *)

DurableTable ==
  IF \E g \in Generations : Readable(durable, g)
    THEN CHOOSE g \in Generations : Readable(durable, g)
    ELSE NoTable

Target == INSTANCE TargetDisk
  WITH Garbage <- Bad, table <- DurableTable, goal <- wiped,
       data <- [c \in Chunks |-> IF durable[c] = Zero THEN Bad ELSE durable[c]]

\* On the medium, old data gives way only after the old table, but for what the
\* wipe reaches in the first and the last MiB, and a new table comes only after
\* all of its data, across runs, cancels, failures and power losses.
ImplementsTarget == Target!TargetSpec
==============================================================================
