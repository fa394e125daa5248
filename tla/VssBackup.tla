------------------------------ MODULE VssBackup ------------------------------
(* One online image backup: execute_backup_workflow drives WindowsVssBackend  *)
(* through a snapshot set, the copy callback leaves a staged image, and       *)
(* execute_prepared_online_tsumugi_backup gives it its name only after the    *)
(* writers were told and the exact set was deleted.  Any call may fail, an    *)
(* asynchronous one after it has taken effect, and the service may drop a     *)
(* shadow copy whose difference area is full at any time.                     *)
EXTENDS FiniteSets

CONSTANT Volumes  \* the volumes of the plan

ASSUME VolumesAssumption == IsFiniteSet(Volumes) /\ Volumes # {}

VARIABLES
  at,        \* the call that comes next
  doc,       \* backup_document_initialized
  notified,  \* backup_complete_notified
  created,   \* snapshots_created
  cleaned,   \* step = cleaned
  set,       \* snapshot_set_id is not GUID_NULL
  added,     \* snapshots
  shadows,   \* VSS: the shadow copies of the set
  late,      \* VSS: a DoSnapshotSet given up on is still at work
  told,      \* VSS: what the writers were told
  lost,      \* history: VSS dropped a shadow before the set was deleted
  file,      \* the staged image
  made,      \* history: DoSnapshotSet was seen to finish
  reported,  \* clean-up failures the returned error speaks of
  result

\* The one run of the image file that belongs to this backup.
INSTANCE StagedFile WITH turn <- 1

backend == <<doc, notified, created, cleaned, set, added>>
service == <<shadows, late, told, lost>>
report == <<made, reported, result>>
vars == <<at, backend, service, report, file>>

Preparation == {"initialize", "backupState", "metadata", "start"}
Guarded == {"add", "prepare", "snapshot", "writers", "devices", "complete"}
Locations == Preparation \cup Guarded \cup
             {"copy", "delete", "cleanup", "revalidate", "commit", "abort", "release",
              "reset", "drop", "ended"}

Init ==
  /\ at = "initialize"
  /\ doc = FALSE /\ notified = FALSE /\ created = FALSE /\ cleaned = FALSE
  /\ set = FALSE /\ added = {}
  /\ shadows = {} /\ late = FALSE /\ told = {} /\ lost = FALSE
  /\ made = FALSE /\ reported = {} /\ result = "none"
  /\ FileInit

-------------------------------------------------------------------------------
(* The service on its own.                                                    *)

LoseShadow ==
  /\ \E v \in shadows : shadows' = shadows \ {v}
  /\ lost' = TRUE
  /\ UNCHANGED <<at, backend, late, told, report, file>>

LateSnapshots ==
  /\ late /\ late' = FALSE
  /\ shadows' = Volumes
  /\ UNCHANGED <<at, backend, told, lost, report, file>>

-------------------------------------------------------------------------------
(* Where a step goes.                                                         *)

Goto(next) == at' = next /\ UNCHANGED report

Fail(next) == at' = next /\ result' = "failed" /\ UNCHANGED <<made, reported>>

\* Before a set exists the workflow's error is returned as it is; after that
\* fail_after_snapshot_set comes first.
FailingCall ==
  /\ \/ at \in Preparation /\ Fail("release")
     \/ at \in Guarded /\ Fail("cleanup")
  /\ UNCHANGED <<backend, service, file>>

\* After the workflow: what was staged is aborted before the backend is released.
AfterWorkflow == IF file = "staged" THEN "abort" ELSE "release"

-------------------------------------------------------------------------------
(* The workflow.                                                              *)

\* SetContext may still fail once the document is there.
InitializeComponents ==
  /\ at = "initialize"
  /\ doc' = TRUE
  /\ Goto("backupState") \/ Fail("release")
  /\ UNCHANGED <<notified, created, cleaned, set, added, service, file>>

SetBackupState ==
  /\ at = "backupState"
  /\ Goto("metadata")
  /\ UNCHANGED <<backend, service, file>>

GatherWriterMetadata ==
  /\ at = "metadata"
  /\ Goto("start")
  /\ UNCHANGED <<backend, service, file>>

StartSnapshotSet ==
  /\ at = "start"
  /\ set' = TRUE
  /\ Goto("add")
  /\ UNCHANGED <<doc, notified, created, cleaned, added, service, file>>

AddVolume ==
  /\ at = "add"
  /\ \E v \in Volumes \ added : added' = added \cup {v}
  /\ Goto(IF added' = Volumes THEN "prepare" ELSE "add")
  /\ UNCHANGED <<doc, notified, created, cleaned, set, service, file>>

\* A wait that ends in a timeout or a cancellation may be of a call that works.
PrepareForBackup ==
  /\ at = "prepare"
  /\ told' = told \cup {"prepare"}
  /\ Goto("snapshot") \/ Fail("cleanup")
  /\ UNCHANGED <<backend, shadows, late, lost, file>>

DoSnapshotSet ==
  /\ at = "snapshot"
  /\ created' = TRUE /\ shadows' = added
  /\ made' = TRUE /\ at' = "writers"
  /\ UNCHANGED <<doc, notified, cleaned, set, added, late, told, lost,
                 reported, result, file>>

DoSnapshotSetGivenUp ==
  /\ at = "snapshot"
  /\ late' = TRUE
  /\ Fail("cleanup")
  /\ UNCHANGED <<backend, shadows, told, lost, file>>

QueryWriterStatuses ==
  /\ at = "writers"
  /\ Goto("devices")
  /\ UNCHANGED <<backend, service, file>>

\* GetSnapshotProperties knows every shadow that was added.
QuerySnapshotDevices ==
  /\ at = "devices" /\ shadows = added
  /\ Goto("copy")
  /\ UNCHANGED <<backend, service, file>>

\* The completion poll of the difference area observes every shadow.
CopySnapshotData ==
  /\ at = "copy" /\ shadows = added
  /\ FileStage
  /\ Goto("complete")
  /\ UNCHANGED <<backend, service>>

\* A partial file that cannot be removed is what the error speaks of.
CopyFails ==
  /\ at = "copy"
  /\ FileStageFails
  /\ reported' = IF file' = "left" THEN reported \cup {"file"} ELSE reported
  /\ at' = "cleanup" /\ result' = "failed"
  /\ UNCHANGED <<backend, service, made>>

BackupComplete ==
  /\ at = "complete"
  /\ told' = told \cup {"complete"}
  /\ notified' = TRUE
  /\ Goto("delete") \/ Fail("cleanup")  \* a writer that is not stable
  /\ UNCHANGED <<doc, created, cleaned, set, added, shadows, late, lost, file>>

BackupCompleteGivenUp ==
  /\ at = "complete"
  /\ told' = told \cup {"complete"}
  /\ Fail("cleanup")
  /\ UNCHANGED <<backend, shadows, late, lost, file>>

-------------------------------------------------------------------------------
(* delete_exact_snapshot_set.                                                 *)

\* Mutant: a set with fewer shadows than were added counts as deleted.
AllDeletedUnchecked == TRUE

\* DeleteSnapshots removes what is left of the set and says how many it was.
AllDeleted == created => Cardinality(shadows) = Cardinality(added)

\* The service refuses part of the set, or has lost part of it before.
DeleteRefused ==
  /\ created
  /\ \/ \E rest \in SUBSET shadows : shadows' = rest
     \/ ~AllDeleted /\ shadows' = {}
  /\ UNCHANGED <<backend, late, told, lost>>

Forgotten == set' = FALSE /\ added' = {} /\ created' = FALSE

\* AbortBackup may release the set by itself.
AbortSent ==
  /\ told' = told \cup {"abort"}
  /\ shadows' \in {{}, IF created THEN {} ELSE shadows}
  /\ late' \in {FALSE, late}
  /\ UNCHANGED lost

AbortDue == ~notified /\ ~cleaned

\* The set is deleted, but the writers cannot be told of it.
AbortRefused ==
  /\ AllDeleted /\ AbortDue
  /\ Forgotten
  /\ shadows' = IF created THEN {} ELSE shadows
  /\ UNCHANGED <<doc, notified, cleaned, late, told, lost>>

\* Mutant: the writers are told only of a set that was created.
SetDeletedQuietly ==
  /\ AllDeleted
  /\ Forgotten /\ doc' = FALSE /\ cleaned' = TRUE
  /\ \/ AbortDue /\ created /\ AbortSent
     \/ /\ ~AbortDue \/ ~created
        /\ shadows' = IF created THEN {} ELSE shadows
        /\ UNCHANGED <<late, told, lost>>
  /\ UNCHANGED notified

SetDeleted ==
  /\ AllDeleted
  /\ Forgotten /\ doc' = FALSE /\ cleaned' = TRUE
  /\ \/ AbortDue /\ AbortSent
     \/ /\ ~AbortDue
        /\ shadows' = IF created THEN {} ELSE shadows
        /\ UNCHANGED <<late, told, lost>>
  /\ UNCHANGED notified

SetNotDeleted == DeleteRefused \/ AbortRefused

\* The last call of the workflow.
DeleteSnapshotSet ==
  /\ at = "delete" /\ set
  /\ \/ SetDeleted /\ Goto("revalidate")
     \/ /\ SetNotDeleted
        /\ at' = AfterWorkflow /\ result' = "failed"
        /\ reported' = reported \cup {"delete"} /\ UNCHANGED made
  /\ UNCHANGED file

\* Mutant: a failure is returned with the set left to the destructor.
CleanUpLeftToRelease ==
  /\ at = "cleanup" /\ set
  /\ at' = AfterWorkflow
  /\ UNCHANGED <<backend, service, report, file>>

\* fail_after_snapshot_set
CleanUp ==
  /\ at = "cleanup" /\ set
  /\ at' = AfterWorkflow
  /\ \/ SetDeleted /\ UNCHANGED reported
     \/ SetNotDeleted /\ reported' = reported \cup {"delete"}
  /\ UNCHANGED <<made, result, file>>

-------------------------------------------------------------------------------
(* execute_prepared_online_tsumugi_backup after the workflow.                 *)

RevalidateDestination ==
  /\ at = "revalidate"
  /\ Goto("commit") \/ Fail("abort")
  /\ UNCHANGED <<backend, service, file>>

CommitVerified ==
  /\ at = "commit"
  /\ \/ FileCommit /\ at' = "release" /\ result' = "success"
     \/ UNCHANGED file /\ at' = "abort" /\ result' = "failed"
  /\ UNCHANGED <<backend, service, made, reported>>

\* Mutant: a file that cannot be removed goes unmentioned.
AbortStagedSilently ==
  /\ at = "abort" /\ at' = "release"
  /\ FileAbort \/ FileAbortFails
  /\ UNCHANGED <<backend, service, report>>

\* with_abort_failure
AbortStaged ==
  /\ at = "abort" /\ at' = "release"
  /\ \/ FileAbort /\ UNCHANGED reported
     \/ FileAbortFails /\ reported' = reported \cup {"file"}
  /\ UNCHANGED <<backend, service, made, result>>

\* cleanup_best_effort, whose failures are only logged.
Release ==
  /\ at = "release" /\ Goto("reset")
  /\ \/ set /\ (SetDeleted \/ SetNotDeleted)
     \/ /\ ~set /\ doc /\ AbortDue
        /\ doc' = FALSE
        /\ AbortSent \/ UNCHANGED service
        /\ UNCHANGED <<notified, created, cleaned, set, added>>
     \/ /\ ~set /\ ~(doc /\ AbortDue)
        /\ UNCHANGED <<backend, service>>
  /\ UNCHANGED file

\* The last reference goes, and with it the non-persistent shadows.
ResetComponents ==
  /\ at = "reset" /\ Goto("drop")
  /\ shadows' = {} /\ late' = FALSE
  /\ UNCHANGED <<backend, told, lost, file>>

\* The destructor of whatever still owns the file tries once more.
DropStaged ==
  /\ at = "drop" /\ Goto("ended")
  /\ \/ FileAbort \/ FileAbortFails
     \/ file \in {"none", "published"} /\ UNCHANGED file
  /\ UNCHANGED <<backend, service>>

-------------------------------------------------------------------------------
Preparing == InitializeComponents \/ SetBackupState \/ GatherWriterMetadata
             \/ StartSnapshotSet
InSet == AddVolume \/ PrepareForBackup \/ DoSnapshotSet \/ DoSnapshotSetGivenUp
         \/ QueryWriterStatuses \/ QuerySnapshotDevices \/ CopySnapshotData
         \/ CopyFails \/ BackupComplete \/ BackupCompleteGivenUp
Ending == DeleteSnapshotSet \/ CleanUp \/ RevalidateDestination \/ CommitVerified
          \/ AbortStaged \/ Release \/ ResetComponents \/ DropStaged

Program == FailingCall \/ Preparing \/ InSet \/ Ending
Next == Program \/ LoseShadow \/ LateSnapshots

Spec == Init /\ [][Next]_vars

-------------------------------------------------------------------------------
(* Properties.                                                                *)

\* The types, and the backend's record of shadows agreeing with its set.
TypeOK ==
  /\ at \in Locations
  /\ doc \in BOOLEAN /\ notified \in BOOLEAN /\ created \in BOOLEAN
  /\ cleaned \in BOOLEAN /\ set \in BOOLEAN /\ added \subseteq Volumes
  /\ created => set /\ added = Volumes
  /\ shadows \subseteq Volumes /\ late \in BOOLEAN
  /\ told \subseteq {"prepare", "complete", "abort"} /\ lost \in BOOLEAN
  /\ made \in BOOLEAN /\ reported \subseteq {"delete", "file"}
  /\ result \in {"none", "failed", "success"}
  /\ file \in FileStates

\* An image has its final name only if no shadow copy it was read from was lost
\* before the set was deleted, the writers were told that the backup is
\* complete and of nothing else after that, and the exact set is gone.
PublishedMeansHeld ==
  file = "published" =>
    ~lost /\ told = {"prepare", "complete"} /\ shadows = {} /\ ~set

\* A backup that failed leaves no image under the final name, and a partial
\* file only if the error says so.
FailureLeavesNothing ==
  at = "ended" /\ result = "failed" =>
    file = "none" \/ (file = "left" /\ "file" \in reported)

\* Writers that were made to prepare have been told how the backup ended by the
\* time it has, unless the error says that the clean-up failed.
WritersReleased ==
  at = "ended" /\ "prepare" \in told =>
    told \cap {"complete", "abort"} # {} \/ "delete" \in reported

\* Once the workflow is over no shadow of a set that was seen to be created is
\* left, unless the error says so: nothing hangs on the destructor.
ShadowsDeletedOrReported ==
  made /\ at \in {"revalidate", "commit", "abort", "release", "ended"} =>
    shadows = {} \/ "delete" \in reported
==============================================================================
