# Verification of ytec-disk-clone

TLA+ models of the parts of ytec-disk-clone whose correctness depends on the order of
events: several program instances at one file, a worker and a UI thread, crashes and
power losses between two file operations. TLC checks small instances, TLAPS proves the
main results for every value of the constants.

The C++ sources live in `src/src/<component>`; `PROJECT.json` maps every definition of
the modules to the lines it stands for.

## 1. The system

| part | state it keeps | operations | interacts with |
|---|---|---|---|
| **Single Resume Slot** (OperationCore: `resume_slot`, `windows_resume_slot_platform`) | `data\active.checkpoint`, its stage `active.checkpoint.new`, the image partial and resume journal it owns, the published image | create, replace at a verified boundary, commit of a finished image, discard, review | image creation and restore call it; files shared with other instances and users |
| **Interruption checkpoint** (`checkpoint`) | one record: operation, revision, phase, verified work | encode, validate, transition | content of the slot |
| **Operation runner** (`operation`) | one run: plan hash, gates, result | reidentify, validate, confirm, execute, verify | callbacks of every operation |
| **Manual pause controller** (CloneCore: `manual_pause`) | state, availability, last safe boundary | request pause, resume, cancel, complete, observe progress, wait at a boundary | worker thread, UI thread |
| **Clone engines** (`offline_gpt_clone`, `offline_mbr_clone`) | target disk, progress, digest | invalidate, copy and verify, flush, stage and commit metadata | pause controller, disk |
| **Direct clone services** (WindowsApp: `online_direct_clone`; WinPEApp: `clone_execution_service`) | offline attribute of the target, read-only attribute of the source, the result | guard the source, take the target offline, clone, bring it online, make it bootable, protect it again | runner, engines, VSS |
| **Rescue copy** (`rescue_copy`) | unreadable ranges, retry passes | read, split, retry | pause controller |
| **Power** (`completion_power_action`, `operation_power`) | bound countdown, sleep prevention | schedule, cancel, execute | UI timer |
| **VSS** (`workflow`, `diff_area_monitor`, `windows_backend`) | snapshot set, writers, difference area, the evidence of its polls | create, copy, complete, delete, watch, review | online image creation, online clone |
| **Tsumugi images** (ImageFormat: `tsumugi_stream`) | `.partial`, resume journal, the old image under a recovery name | write, flush, verify, publish, replace; append a chunk, resume, finalize | Resume Slot, VSS workflow |
| **WinPE operations** (`direct_image_create`, `direct_image_restore_resume`) | reviewed slot, worker | start, resume, discard, commit | Resume Slot, images |
| **Boot repair** (BootRepair) | BCD, EFI files, NVRAM, backups | plan, apply, verify, roll back | restored target |
| **Shrink migration** (MigrationCore, MigrationEngine, DirectShrinkTarget, WindowsApp) | temporary volume, target layout | capture, apply, roll back | target disk |
| **UI** (`main.cpp`, `gui_main.cpp`) | running flags, controllers, messages | start, pause, cancel, redraw | all of the above |
| disk model, media builder, ADK, DISM, logs, CLI | caches, downloads, log files | queries and wrappers | Windows |

What is hard to test here: nothing stops a second instance of the program, so every
check-then-act on the slot can be interleaved; a process can die between any two file
operations and Windows then closes its handles (executing pending deletes), while a
power loss executes none; users see the image folder; announcements of the pause
controller are made outside its lock; cancellation reaches a worker through two ways at
once. A call to Windows may fail after it has taken effect, and a VSS call given up on goes
on working; a snapshot may vanish at any time; a dialog is answered about a state that is
gone; a record on disk may promise bytes, or whole files, that are still in a cache.
`PROJECT.json` lists these hazards at their lines with the properties that cover them.

What makes each part correct, in a sentence: the *slot* never loses, mixes up or
overwrites an interrupted operation or an image, and can be emptied again unless a power
loss has taken files it names; the
*pause controller* pauses only at verified boundaries and never outlives a cancellation;
the *engines* leave a valid partition table only over complete, flushed data; the
*runner* never reports success without verification; the *clone services* leave no
unfinished target in use and give the source back as it was; the *VSS workflow* leaves no
snapshot set behind and publishes only what was read from a whole one; the *difference
area monitor* lets nobody write past a danger unasked; the *image writers* give the final
name to whole images only, lose no old image, and record only what is on the disk; *boot repair* and *shrink* transactions leave either the new or the
old state.

## 2. Modules

| module | models | proofs |
|---|---|---|
| `Checkpoint` | the slot's record and its legal transitions | used by both below |
| `SlotStore` | abstract specification of the slot | |
| `ResumeSlot` | the slot file operation by file operation, for several controllers | `ResumeSlot_proofs` |
| `MCResumeSlot` | `ResumeSlot` for TLC: symmetry, the user of the liveness run | |
| `ManualPause` | pause controller, worker and UI thread of one operation | `ManualPause_proofs` |
| `TargetDisk` | abstract specification of a clone's target: a table only over its own complete data | |
| `DiskClone` | the GPT and MBR engines, write by write, over a disk with a write cache | `DiskClone_proofs` |
| `MCDiskClone` | `DiskClone` for TLC: the partition styles of three runs | |
| `CloneTarget` | a direct clone around its engine: runner, Windows route, WinPE service | `CloneTarget_proofs` |
| `StagedFile` | abstract specification of a staged image file | |
| `StagedImage` | the image writer that does not resume, over the names of a directory | `StagedImage_proofs` |
| `ImageResume` | the resumable image writer: partial, journal, record, power losses | `ImageResume_proofs` |
| `VssBackup` | one online image backup: VSS workflow, backend, staged file | `VssBackup_proofs` |
| `DiffArea` | the watch over the difference areas, the questions and the evidence | `DiffArea_proofs` |

`StagedFile` stands between two components: `StagedImage` implements it, `VssBackup` is
built on it. In the same way `ImageResume` takes the replacement of the slot's record for
one durable step because `ResumeSlot` implements `SlotStore`.

### ResumeSlot

A *controller* is one program instance making one call at a time. Its `pc` names the
place between two file operations where others can come in; `mem` is the record its
caller is bound to (the reviewed binding), `nxt` the one it is writing. The files are
sets of operation ids: `partials`, `journals`, `finals` (image under its completed
name), `occupied` (the completed name belongs to another file), `damaged` and `gone`
(published and then changed or removed by a user).

The record and the image's files are on two disks: `direct_image_create.cpp:1724` refuses
anything else. `mCheckpoint`, `mPartials`, `mJournals` and `mFinals` are what the two
media hold. A record is moved into place write-through and durable when the call returns;
its removal, and the creation, the rename and the removal of the image's files, are not
flushed: `WriteBack` takes each to its medium in any order, or never, and `PowerLoss`
leaves what the media have. The first flush of a file makes its name durable with its
contents (`ReplaceLoad`: the worker flushes before it asks for a record that counts them).

| code | actions |
|---|---|
| `prepare_resumable_tsumugi_file_v1` up to the first checkpoint | `Begin`, `AbandonBegin` |
| `create_fixed_slot` | `CreateLoad`, `WriteStage`/`TearStage`, `CreateCheck`, `CreateMove`, `CreateReadback` |
| `replace_fixed_slot` | `ReplaceLoad`, `WriteStage`/`TearStage`, `ReplaceCheck`, `ReplaceSwap`, `ReplaceReadback` |
| `discard_exact_stage` | `AbandonStage` (it may fail) |
| review and the user's choice | `Review`, `Resume`, `ChooseDiscard`, `BeginCommit`, `FinishRestore` |
| `commit_persistent_pe_exact_image_create` | `CommitOpen` ... `CommitEnd` |
| `discard_fixed_slot_and_owned_partial` | `DiscardOpen`, `DiscardMark`, `DiscardRollback`, `DiscardClose`, `DiscardCloseObjects` |
| any refused check, I/O error, cancellation | `Abandon` |
| environment | `Crash`, `WriteBack`, `PowerLoss`, `Touch` (users in the image folder) |

Handles are not variables: they follow from `pc`. `HoldSteps` are the steps with the
checkpoint's DELETE handle, `ObjectSteps` those with handles of the partial and journal,
`LockSteps` those with the read lock of the published image.

Assumptions about Windows, which the code shares: `CREATE_NEW` and renames without
replacement are exclusive; `ReplaceFileW` and `MoveFileExW` are atomic and, with the
write-through flags the code gives them, durable when they return; `FlushFileBuffers` makes
a file's name durable too; a rename moves both names of a file at once, in the cache and on
the medium; a handle with DELETE access and read sharing keeps other
openers for deletion out; a marked file disappears with its handle, also when the
process dies, and survives a power loss before that.

Abstractions: hashes, paths, File IDs and identities are the operation id, so a missing
file stands for any mismatch; an operation's partial and journal are made in one step
and their handles closed in one step; every operation has a destination of its own; the
data directory is touched only by the program; the removal of a stage file that a power loss
undoes is the case of `AbandonStage` that fails to remove it; what a user has changed stays
changed. A record whose files are gone is refused by every call (the code fails closed, as
docs/operation-manual.md 5.2 wants), so that the user cannot empty such a slot from the
program: `Astray` names that state, `RecordLeadsToImage` says when a power loss may bring it
about, and `SlotRecoverable` promises the empty slot in all other cases. `SuccessMeansDone`
and `RetireOnlyIntact` speak of what a reader sees: a later power loss may take the name of
the published image back to the working name, never the image (`ImageSurvives`). Schema 1 phases and the legacy single owned partial are left out.

### ManualPause

Variables `state`, `available`, `boundary` are the controller's members; an action is
one lock acquisition (or a step between two). `event[t]` is the change thread `t` has
made and not announced yet: `Emit` is the callback of `make_ui_manual_pause_controller`,
which drops a key equal to `lastKey`. The worker polls, copies a chunk, reports it
(throttled or not), waits at the boundary, reports stages that cannot be paused, and
returns at any time (an error) or after the completed stage. The UI thread handles one
click or message at a time; `toggle_manual_pause` reads a snapshot under one lock and
acts under another. `pausable` remembers what the last report said.

Abstractions: `sequence` has no reader in the sources; exceptions of callbacks are
swallowed by the code; the exchange of `last_ui_state` and the post of the message are
one step; closing the window cancels in the same way as the button; the user stays on
the page of the operation.

### DiskClone

One disk, cloned onto again and again; a *generation* is what one run writes, 0 the disk
before. A *region* is one part of a table or a data chunk, and holds a generation, zeroes or
the remains of a bad write. The wipe zeroes the whole first and last MiB
(`offline_gpt_clone.cpp:16`), where a plan may have partition data as well, from LBA 34 of
a GPT (`gpt.cpp:510-522`), 63 of an MBR disk or before, and up to the backup entries:
`HeadArea` and `TailArea` are the table parts and the `EdgeChunks` there. `wiped` is the
latest run that has begun to wipe. `cache` is what a read (and so the read-back) returns,
`durable` what a power loss leaves; `WriteBack` moves one region, in any order, the
longer ones perhaps torn at first. `phase` follows `execute_offline_gpt_clone` and
`execute_offline_mbr_clone`, which differ in the table they write: the GPT engine stages
entries, backup header and protective MBR, flushes, and commits the primary header; the
MBR engine commits its one sector after the flush of the data.

| code | actions |
|---|---|
| planning and the polls before any write | `Plan`, `Arm` |
| zeroes over the first and last MiB, flush | `InvalidateHead`, `InvalidateTail`, `Flush` |
| `copy_range` | `CopyChunk`, `Boundary` |
| staged metadata, flush, last poll, commit, flush | `Stage`, `Flush`, `LastPoll`, `Commit`, `Flush` |
| a poll that sees the cancellation, with or without a flush | `CancelSeen` (then `Flush`) |
| a failing read, write, read-back or digest: any part written, no flush | `WriteFails` in each write |
| user, disk, power | `RequestCancel`, `WriteBack`, `PowerLoss`, `Begin` (next run) |

Assumptions: what a flush has acknowledged is on the medium and stays; one sector is
written whole or not at all; a read returns the last write; each run's table differs from
all others (new GUIDs or signature). A GPT is taken to be readable through either of its
copies and without the protective MBR, the most generous reader there is; `parse_gpt`
itself asks for all of them. Partitions lie beside the tables, not over them (`make_gpt_write_plan`
refuses a plan that has them there). While the wipe is under way the
old table may still be readable, in the cache or after a power loss, when data of an old
partition in the first or last MiB is already gone: this is what the code does, and
`TableImpliesData` and `TargetDisk!Wipe` allow exactly it, for a table older than the run
that wipes. Writes are opened write through, which the model does not
rely on. The order of chunks is left open, a pause is left to `ManualPause`.

### CloneTarget

`job` is what is asked for (route, whether the system must boot, whether the target stays
offline, VSS) with the source's attribute as found; `at` is the call that comes next.
`target` says how much of the clone is on the disk, `unsure` whether the returned error
speaks of a target that could not be put offline. Each attribute change is verified by a
fresh enumeration and so may fail before or after its effect.

| code | actions |
|---|---|
| `run_operation` | `CheckPlan`, `Reidentify`, `Confirm`, `AcceptEvidence`, `Verify` |
| `execute_online_direct_clone` and its copy callback | `PrepareCopy`, `TakeOffline`, `OpenTarget`, `WriteTarget`, `FinishEngine`, `BringOnline`, `FinalizeBoot`, `OfflineAgain`, `CompletionPoll`, `FinishWorkflow`, `Reprotect`, `Throw` |
| `WindowsCloneExecutionService::execute` | `GuardSource`, `OpenSource`, the shared calls above, `RestoreSource`, `DropGuard` |

Abstractions: plans, hashes, identities, locks and bitmaps are part of a step that may
fail; the engine is `DiskClone`'s, seen from outside; nobody else changes the attributes,
which are not persistent. `Throw` (an exception out of the workflow) is the Windows route's;
`Verify` ends with a verdict or an error, never as cancelled.

### StagedImage

`dir` says what the final name, the `.partial` name and the recovery name stand for: the
image of a run, a foreign file or nothing. `whole` are the images a reader finds complete,
`flushed` says whether the medium has all that the run has written.

| code | actions |
|---|---|
| `prepare_verified_tsumugi_file_v1` | `Begin`, `Create`, `WriteBody`, `FlushBody`, `WriteFooter`, `FlushFooter`, `Verify`, `BuildFails` |
| `commit_partial` | `CommitNew`, `BeginReplace`, `Retire`, `Publish`, `RollBack`, `Tidy`, `TidyRemove` |
| `abort_incomplete`, `OwnedPartial::cleanup` and destructor | `Abort`, `CleanUp`, `RemovePartial` |
| environment | `ProcessDies`, `PowerLoss`, `ForeignAppears`, `UserClears`, `UserRestores` |

A removal takes three steps of the code: the handle is closed, the name is looked at
(`CleanUp`, `Tidy`), and `DeleteFileW` removes what has the name by then (`RemovePartial`,
`TidyRemove`). Another program can come between any two. `late` remembers the names that
foreign files took after the look: such a file is lost, and `ForeignUntouched` says that no
other is.

`Verify` is the complete scan; the fast mode (`tsumugi_stream.cpp:3215-3229`) reads less of
the finished file again and rests on the read-back of each chunk.

Assumptions: the file system logs directory changes in order, as NTFS does (the code also
admits exFAT, `tsumugi_stream.cpp:581`, which has no such log and is not covered); a user of the folder clears
leftovers or gives a recovery file its name back, but does not remove the only whole image
with his own hand. File identities are the runs' numbers, and the bytes are whole or not.

### ImageResume

A file is what its *places* hold: the reserved area for header and metadata, one place
for each chunk, the footer; the journal's header and one frame for each chunk. `image`
and `journal` are what a read returns, `mImage` and `mJournal` what a power loss leaves;
`WriteBack` moves one place, perhaps torn. A length is the last place that is not absent,
and chunks of zeroes take no room. `names` and `mNames` say which of the two files exist, for
a reader and on the medium: they are created unflushed, before the record, and their first
flush makes them durable. `slot` is the record, which is on another disk and durable at
once. A file that is missing is never made anew (`open_existing`): the run is refused.

| code | actions |
|---|---|
| start, new or resumed | `Create`, `Reopen` |
| `initialize_resume_owned_files` and its record | `ResetImage`, `ResetJournal`, `Reserve`, `FlushReserved`, `WriteHeader`, `FlushHeader`, `RecordPrepared` |
| the cut behind the record | `CutImage`, `FlushCut`, `CutJournal`, `FlushCutJournal` |
| `append_verified_resume_chunk` and its loop | `StartChunk`, `WriteChunk`, `FlushChunk`, `WriteFrame`, `FlushFrame`, `RecordChunk` |
| `finalize_resume_partial` | `VerifyPrefix`, `Finalize`, `FlushFinal`, `WriteFooter`, `FlushFooter`, `RecordReady` |
| environment | `Leave` (error, cancellation, death), `WriteBack`, `PowerLoss`, `Damage` |

The read-back after a flush is in the guard of the next step. Assumptions: what a flush
has acknowledged stays, and the name of the file with it; the source and the plan are the same in every run (the binding's
hash is compared before); others change the files only while no run holds them, since
they are opened without sharing writes. Left out: hashes, encryption, lengths in bytes,
and the commit under the final name, which is `ResumeSlot`'s.

### VssBackup

`at` is the call that comes next; `doc`, `notified`, `created`, `cleaned`, `set` and
`added` are the backend's members; `shadows`, `late`, `told` and `lost` belong to the VSS
service; `reported` is what the returned error says about a failed clean-up.

| code | actions |
|---|---|
| `execute_backup_workflow` over `WindowsVssBackend` | `InitializeComponents` ... `StartSnapshotSet`, `AddVolume`, `PrepareForBackup`, `DoSnapshotSet`, `QueryWriterStatuses`, `QuerySnapshotDevices`, `CopySnapshotData`, `BackupComplete`, `DeleteSnapshotSet` |
| a call that fails | `FailingCall`, `CopyFails`; given up while it works on: `DoSnapshotSetGivenUp`, `BackupCompleteGivenUp` |
| `fail_after_snapshot_set`, `delete_exact_snapshot_set` | `CleanUp`, `SetDeleted`, `SetNotDeleted` |
| `execute_prepared_online_tsumugi_backup` | `RevalidateDestination`, `CommitVerified`, `AbortStaged` |
| destructors | `Release`, `ResetComponents`, `DropStaged` |
| the service | `LoseShadow`, `LateSnapshots` |

Assumptions about VSS: a deletion reports how many it removed; the shadows are not
persistent and go with the last reference; AbortBackup may release the set itself.
Writers are one writer, a wait ends at any time.

### DiffArea

`room` is what is left of each difference area, one measure for the counters the code
looks at (used, allocated, maximum, free room of the volume behind). `polls` and
`reviews` are the evidence, appended as the code does. The system uses and frees room
between any two steps, and drops a snapshot whose area runs over.

| code | actions |
|---|---|
| `poll_internal`, `publish`, `fail_closed` | `Poll`, `NotDue` |
| `resolve_review_loop`, `resolve_review` | `ChooseResume`, `ChooseCancel`, `Resume` |
| `callbacks`, `completion_poll` | `ReachBoundary`, `WriteChunk`, `CopyEnds`, `CopyDone` |
| `validate_completed_vss_diff_area_operation_evidence` | `Validate` |
| the system | `UseRoom`, `FreeRoom` |

Clocks, identities and serial numbers are part of an observation that may fail. An answer
is recorded with the sample that was on the screen (`ChooseResume`, `ChooseCancel`).

## 3. Runs

| run | question | bounds and result |
|---|---|---|
| `resume_slot_safety` | do all interleavings keep the slot's safety and implement `SlotStore`? | two controllers, two operations, one chunk of work, four revisions (a whole life: preparing, prepared, prepared, commit-ready), one fault; passes, about 1 614 000 states |
| `resume_slot_live` | can a user always empty the slot, unless a power loss has parted its record from the files? | two controllers, one operation, power losses, no user interference; passes |
| `resume_slot_orphan` | does an empty slot mean no orphan, as the header says? | violated: see findings |
| `manual_pause_safety` | does every interleaving of worker, UI and announcements keep the pause safe and the button honest, and does a cancelled operation end? | three chunks, four clicks, a cancellation at any time; passes, about 180 000 states |
| `manual_pause_label` | does a paused operation's button read "resume", as the manual says? | violated: see findings |
| `disk_clone_safety` | does the disk show a table only over its complete data, and are the reports true, whatever fails and whenever? | two runs (GPT over GPT, MBR over GPT), three chunks, one in the first and one in the last MiB; passes, about 430 000 states |
| `clone_target_safety` | is the target protected, the source given back and the verification made, whatever fails? | both routes, every job, every cancellation; no bound; passes, 1141 states |
| `clone_target_winpe` | does every route keep an unfinished target out of use, as the safety model says? | violated: see findings |
| `staged_image_safety` | does the final name ever stand for half an image, or an image get lost, and is the file the staged file the backup relies on? | three runs over one name, with crashes, power losses, users; passes, about 12 900 states |
| `image_resume_safety` | can every interrupted image be completed, and does its record tell the truth? | three chunks, the second of zeroes, two changes by others, any number of runs and power losses; passes, about 453 000 states |
| `vss_backup_safety` | what does a failing backup leave behind, and what may it publish? | two volumes, every call failing before or after its effect; passes, 360 states |
| `diff_area_safety` | is anything written past an unasked danger, or reported good after a lost snapshot, and when does a copy fail for nothing? | two snapshots, two chunks, two questions; passes, 241 000 states |

Two controllers suffice for the races of the slot since every exclusion is pairwise
(`StageIsMine`, `HeldSlotIsReviewed`, `OneHolder`); two operations let the slot be
emptied and reused under a stale controller. Three chunks and four clicks let a pause be
taken, undone and asked for again across two boundaries, which is what the overtaking of
announcements needs. One
fault spoils any one file at any moment; two of them only add pairs of independent losses, and
the proofs hold for any number. Two
runs put a GPT over a GPT and an MBR over a GPT that is whole, half written or half wiped; three
chunks give one in each wiped area and one between, and one that is flushed, one in the cache
and one to come. The same three chunks
let `ImageResume` have one behind the record, one of zeroes, at which the image's length
stands still, and one torn ahead of it; two changes by others spoil both files at once.
Three runs of `StagedImage` replace an image that itself replaced one. Two volumes let a
set lose part of itself; two snapshots let one area fill while the other drains. The proofs
remove the bounds from the safety results.

`CHECK_DEADLOCK FALSE`: a run of `ResumeSlot` ends when no operation is left to start,
a run of `ManualPause` when its operation is over, a run of `DiskClone` after the last clone,
those of `CloneTarget`, `VssBackup` and `DiffArea` when the operation is over, one of
`StagedImage` with the directory at rest. `ImageResume` is checked for deadlock: an
interrupted image can always be taken up again.
No liveness is claimed of these: their loops are bounded and every wait is a device call.
The type invariants of `CloneTarget`, `StagedImage`, `ImageResume`, `VssBackup` and
`DiffArea` are proved and not also run.

**Fairness.** `ResumeSlot`: every controller's call ends somehow (weak fairness of the
union of its ending steps: code is sequential and returns); one user `u` comes back again
and again, and each finishing step of that user's review, commit or discard succeeds when
its chance recurs (strong fairness, step by step: a retry of an I/O that is not broken for
ever). `UserRecoversSlot` assumes that other instances are eventually closed, as they
could otherwise hold the slot at each attempt. `ManualPause`: both threads are scheduled
and reads and writes return (weak fairness of each thread); the user need do nothing.

**Findings.**
1. *Orphans of an interrupted discard.* The checkpoint is marked first and its handle
   closed first, so a crash or power loss between the closes removes the record and keeps
   the image's files; nothing looks for them again. `RecordLeadsToImage` shows the benefit of
   the order (no death of a process leaves a record without its files); the header's "no value only when both are
   absent" does not hold.
2. *A stale pause label.* A pause announcement that is delivered only after the UI has
   resumed and asked again makes the next pause look like a repetition, and it is dropped.
   A paused operation then offers to take back the request. It needs the worker to be
   preempted between its unlock and its callback for two clicks; a click still resumes.
3. *An unfinished target online in WinPE.* `clone_execution_service.cpp:477` returns at once
   when the verification of the temporary online transition fails, also when the disk did
   go online; its boot files are not made. `docs/safety-model.md:105` wants a partial target
   protected after a failure, and the Windows route puts it offline again.

**An observation.** When the last poll of the difference areas is the first to see a danger and
the user answers "resume", the record ends with the answer to that review, and
`diff_area_monitor.cpp:1199` refuses evidence that does not end with the completion poll: a
finished copy fails though nobody spoke against it, where `docs/safety-model.md:113`
offers resuming as the alternative to cancelling. It fails closed. `FailureHasCause` shows
that this is the only way a copy fails without a cause.

## 4. Proofs

`ResumeSlot_proofs` proves every safety property of the run and the refinement, for any
number of controllers, operations, revisions, chunks and faults. The inductive invariant
`IInv` adds to the properties:
`WritesSuccessor` (what is staged is a legal successor of what its writer is bound to,
needed because `CreateMove` and `ReplaceSwap` move whatever is staged),
`FreshOps` (an operation that is not yet in the slot has one controller and no other
traces), `CommitProgress` (what a commit or discard has already done to each file),
`OneName`, `OneHolder`, `HoldsFiles` (files held open do not vanish),
`PublishedIsReady`, `MediumFollows` (a record that stands is on its disk, and a medium has
an image under one name) and `CountedAreSettled` (the files of a record that counts
something are on theirs). Each lemma `...Next` shows that a step keeps one group of conjuncts;
`StepImplements` maps each step to a step or stutter of `SlotStore`, with
`slot <- checkpoint`, `published <- finals \cup gone`, `spoiled <- damaged \cup gone`, and
the same of the media. `SlotStore` has the power losses too: it promises that a record that
stands is never lost, that one that was removed comes back at most as it was, and that a
completed name may be taken back.

`ImageKept` is as strong as the code allows: apart from users and failed rollbacks, only a
power loss parts a record from its files, and then the record counts nothing (`preparing`,
its files never flushed), or its removal is undone while theirs is not, or its image is
published and the journal already retired (the rename comes back, the journal does not).
A record of verified work still to be done or published is never parted from its image.

The key argument is that the stage file serves as a lock: CREATE_NEW lets one controller
through, it finds its own record when it moves the stage, and nobody can put another
record into the slot between its last check and its `ReplaceFileW`
(`ReplaceHitsReviewed`).

The life of a record is proved on top: no record goes but the one its remover holds and
has reviewed (`RemovedIsReviewed`), and what follows a record is a legal successor of it
(`RecordIsLegal`). `OrphansAreInterrupted` is the sharp form of the disagreement that
`resume_slot_orphan` finds: files lose their record only when a discard of their own is
cut short, by its process ending or its rollback failing between the two marks, or by a
power loss that comes when the record is gone for good and a removal of its files, or the
rename of its image, is not (`RemovalUndone`); no run and no death of a process in a commit
does it. It is about operations whose record was in the slot: a crash before the first
record (`tsumugi_stream.cpp:3373`) leaves the two empty files as well. Its
invariant `RInv` adds to `IInv` that every file has an owner (`FilesAreOwned`) and that a
run that uses files has the record (`RunHasRecord`).

`ManualPause_proofs` proves all safety and action properties for any number of chunks and
clicks. `IInv` adds `WorkerPlace`: the worker is at a boundary only after a report that
allows a pause, and nothing is completed before it returns.
`PausedOffered` and `ResumesOnClick` bound what the disagreement found by
`manual_pause_label` can do: the word on the button of a paused operation may be old, but
the button is enabled whenever the UI thread is free, and a click resumes. They need
`ToldBefore`, what the button and a click in progress still know of the state.
`CancelledWorkerEnds` counts the way of a cancelled worker: at most 13 steps, of which
nothing that the UI thread does takes any back.

`DiskClone_proofs` proves all properties and the refinement for any number of chunks and
runs, any of the chunks in the first and last MiB, and any styles. The inductive part is
`Agree(cache, durable, wiped)`: if some *mixture* of
cache and medium shows a table, then every mixture has its data, but for edge chunks that
`wiped`, a later run, has zeroed. It is stronger than
`TableImpliesData`, which is not inductive because a write-back may complete a table
from both; it is kept by wiping (`AgreeKept`), by copying once nothing of a table is left
in either (`AgreeWithout`, which needs the flush after the invalidation: `Wiped`) and by
staging once the data is in both (`AgreeNew`, which needs the flush after the copy:
`DataDone`). The refinement maps `table` to the table readable on the medium, `data`
to its chunks and `goal` to `wiped`; `WriteBack` moves table and data one region at a time,
the wipe moves `goal`.

`CloneTarget_proofs` proves the properties of both routes. The control is finite; `IInv`
says why they hold: where each route is (`Routes`, `Ends`), what is on the target at each
call (`Written`), that it is offline, or an error says otherwise, from the first write on
(`Protected`), what the evidence stands for (`Evidence`) and who has the source guarded
(`Guarded`). Around the disagreement that `clone_target_winpe` finds there are two more:
`PromiseOnWindows` shows that the Windows route keeps the promise of docs/safety-model.md,
`OneCallExposes` that in WinPE only the call that brings the target online for the boot
files breaks it. `ClonesEnd` gives a bound of 19 calls, whatever fails.

`StagedImage_proofs` proves the properties and the refinement of `StagedFile` for any
number of runs. `Dated` says that names only stand for images of runs so far, and that
the current run's is under at most one of them; `Holding` ties the handle and the
hand-over to `pc`; `Sound` is what a run has before it publishes (verified, and flushed
since its last write); `Swapping` follows the old image through `Retire`, `Publish` and
`RollBack`; `Looked` says that a foreign file under a name that is about to be removed is in
`late`. `ImageNeverLost` needs `Swapping`: between the two renames the old image is
under the recovery name.

`ImageResume_proofs` proves all properties for any number of chunks, any of zeroes
and any number of changes by others. `Kept` says that what the record counts and a read
still finds good is on the medium too, whoever changed the rest; `Sound` that all of it is
there while nobody has changed anything, which gives `CheckpointIsDurable`. Neither is
inductive alone: `Bounded` says that a run writes nowhere but behind its record, `Reread`
that what is about to be counted is already flushed when it is read back, and `Located`
ties the place of a run to the record's phase. `Existing` says that a file that is not there holds
nothing. `ResumeNotRefused` follows from `Sound` and
from the cut of both files (`Bounded`), with the one window it states: a power loss between
the first record and the first flush can take a file, and the run is refused; nothing was
saved by then. `SuccessIsWhole` holds also after changes by
others, because a ready record is not believed before the image is read again, and what
is then read is on the medium (`Kept`). `RecordsAreLegal` joins the writer to the slot:
it never asks for a replacement that `validate_checkpoint_transition`, as `Checkpoint`
has it, would refuse. `RunsEnd` is a rank: every step of a run lowers the number that is
left, at most six for each chunk and 13 more.

`VssBackup_proofs` works for any finite set of volumes. Its invariant says call by call
what is known: `Opening` up to the snapshots, `Holding` up to their deletion, `Undoing`
after a failure, `Settled` after the deletion, `Over` once the set is behind, with
`WritersKnow` and `ShadowsKnown` for the end. The argument
for `PublishedMeansHeld` is a count: `DeleteSnapshots` has to remove as many shadows as
were added, so none can have been lost before (`DeletedMeansWhole`). `CompletionIsStaged`
shows that the writers hear of a completion only when the image is staged, verified and
complete, `NoneIsContradicted` that they hear of an abort after it only when the wait for
the completion was given up, `BackupsEnd` that a backup is over after as many calls as
there are volumes, and 18. The proofs that follow one call (`ToldGrows`) are kept apart
from those of a state.

`DiffArea_proofs` works for any snapshots, room, length and number of questions.
`Licensed` says that between two polls the last sample lets the copy go on, and why;
`Answered` that the sample about to be taken belongs to the last review; `Witnessed`
that a poll after a chunk sees what was dropped before it. `FailureIsCaused` has an
invariant of its own, `Recorded`: `Paired` gives a pairing, in order, of the reviews with
the polls they answer, which each kind of poll keeps (`PairingKept`) or extends by one
(`PairingGrows`); `Begun` and `Finished` say how the record begins and ends. Only a review
of the last poll leaves the record with a pair that the check of the evidence does not
look for.

Assumptions: only the named `ASSUME`s on the constants (`BoundsAssumption`,
`NoSlotAssumption`, `TornAssumption`, `FaultsAssumption`, `ChunksAssumption`,
`NoEventAssumption`, `RunsAssumption`, `ValuesAssumption`, `FilesAssumption`,
`VolumesAssumption`, `RoomAssumption`, `DamagesAssumption`), which TLC evaluates in every
run.

Only model-checked: `UserRecoversSlot` and `CancelEnds` (liveness under fairness and
ENABLED are out of the prover's reach), and the three violations. `CancelledWorkerEnds`,
`RunsEnd`, `ClonesEnd` and `BackupsEnd` are the safety half of such claims: no step leads
back. Nothing is recursive; what a recursive function computes could not be proved here
either.

## 5. Not modelled

The components with status `not_modelled` in `PROJECT.json`, each with its reason: byte
formats, cryptography, Windows queries, wrappers of external tools, layout and wording of
the UI, third-party code, scripts. The planners and the two large user interface files are
mostly layout, formatting and validation of one call's arguments, with no state that
several steps share.

Of modelled components: the legacy single owned partial and the schema 1 phases of the
slot; the older `online_backup` route; the rescue image of WinPE; the restore's data phase;
writer components and the wait times of VSS; a source that changes between two runs of an
image, which the binding's hash is to find.

## 6. Plan

Done: `Checkpoint`, `SlotStore`, `ResumeSlot`; `ManualPause`; `TargetDisk`, `DiskClone`;
`CloneTarget` with the operation runner; `StagedFile`, `StagedImage`; `ImageResume`;
`VssBackup`; `DiffArea`; the proofs of all of them, with every safety property of the runs
among the theorems.

Left to prove: a rank for the engines of `DiskClone` and for the writer of `StagedImage`;
that the file stage of `VssBackup` is a run of `StagedFile`.

Left to model, in this order: the resume of an exact restore (its journal against the target disk,
as `ImageResume` for images); rescue copy (retries and splits of unreadable ranges); the
shrink-restore transaction; boot repair transactions (backup, apply, verify, roll back); the
completion power action's countdown; log retention and ADK acquisition; schema upgrade and
output evidence in `Checkpoint`.
