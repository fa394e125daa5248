--------------------------- MODULE VssBackup_proofs ---------------------------
(* Proofs about VssBackup for every finite set of volumes: every order in     *)
(* which a call fails, the service drops a shadow copy or finishes late.      *)
EXTENDS VssBackup, Integers, FiniteSetTheorems, TLAPS

-------------------------------------------------------------------------------
(* The inductive invariant: what is known at each call.                       *)

BeforeSnapshot == {"add", "prepare", "snapshot"}
AfterSnapshot == {"writers", "devices", "copy", "complete", "delete"}
Closing == {"revalidate", "commit"}
Closed == {"abort", "release", "reset", "drop", "ended"}

NothingYet ==
  /\ ~created /\ ~notified /\ ~cleaned
  /\ shadows = {} /\ ~late /\ ~lost /\ ~made
  /\ file = "none" /\ reported = {} /\ result = "none"

\* The way to the snapshots.
Opening ==
  /\ at \in Preparation => NothingYet /\ ~set /\ added = {} /\ told = {}
  /\ at \in BeforeSnapshot => NothingYet /\ set /\ told \subseteq {"prepare"}
  /\ at \in {"prepare", "snapshot"} => added = Volumes
  /\ at = "snapshot" => told = {"prepare"}

\* From the snapshots to their deletion.
Holding ==
  at \in AfterSnapshot =>
    /\ set /\ created /\ ~cleaned /\ made
    /\ reported = {} /\ result = "none"
    /\ lost => shadows # Volumes
    /\ told = IF at = "delete" THEN {"prepare", "complete"} ELSE {"prepare"}
    /\ at = "delete" => notified
    /\ file = IF at \in {"complete", "delete"} THEN "staged" ELSE "none"

\* A failure after the set was started.
Undoing ==
  at = "cleanup" =>
    /\ set /\ ~cleaned /\ result = "failed"
    /\ made => created
    /\ file \in {"none", "staged", "left"}

\* The set is deleted, and the file has no final name yet.
Settled ==
  at \in Closing =>
    /\ ~set /\ cleaned /\ notified
    /\ shadows = {} /\ ~late /\ ~lost /\ told = {"prepare", "complete"}
    /\ file = "staged" /\ reported = {} /\ result = "none"

\* What the end of the backup may still find.
Over ==
  /\ at \in Closed => result \in {"failed", "success"}
  /\ at = "abort" => file = "staged" /\ result = "failed"
  /\ at \in Closed \ {"abort"} => file # "staged"
  /\ result = "success" => file = "published" /\ at \in Closed \ {"abort"}
  /\ file = "left" => "file" \in reported /\ result = "failed"
  /\ file = "published" => result = "success" /\ cleaned /\ notified /\ ~late

\* Facts of every call.
Always ==
  /\ made => ~late
  /\ notified => "complete" \in told

\* The properties of the end, from the moment the set is given up on.
WritersKnow ==
  at \in Closing \cup Closed /\ "prepare" \in told =>
    told \cap {"complete", "abort"} # {} \/ "delete" \in reported

ShadowsKnown ==
  made /\ at \in Closing \cup Closed => shadows = {} \/ "delete" \in reported

IInv ==
  /\ TypeOK /\ Opening /\ Holding /\ Undoing /\ Settled /\ Over /\ Always
  /\ WritersKnow /\ ShadowsKnown /\ PublishedMeansHeld

-------------------------------------------------------------------------------
LEMMA FileFacts == FileStates = {"none", "staged", "left", "published"}
  BY DEF FileStates

\* A set counts as deleted only when every shadow that was added was still there.
LEMMA DeletedMeansWhole ==
  ASSUME TypeOK, created, AllDeleted
  PROVE  shadows = Volumes
<1>1. added = Volumes /\ IsFiniteSet(Volumes) /\ shadows \in SUBSET Volumes
  BY VolumesAssumption DEF TypeOK
<1>2. Cardinality(Volumes) = Cardinality(shadows)
  BY <1>1 DEF AllDeleted
<1> QED
  BY <1>1, <1>2, FS_Subset

\* What one attempt to delete the set may change.
LEMMA SetDeletedFacts ==
  ASSUME TypeOK, Always, SetDeleted
  PROVE  /\ ~set' /\ ~created' /\ added' = {} /\ cleaned' /\ ~doc'
         /\ notified' = notified /\ lost' = lost
         /\ shadows' \subseteq shadows /\ (created => shadows' = {})
         /\ late' \in BOOLEAN /\ (late' => late)
         /\ told \subseteq told' /\ told' \subseteq told \cup {"abort"}
         /\ notified \/ cleaned => told' = told
         /\ ~cleaned => told' \cap {"complete", "abort"} # {}
<1>1. /\ set' = FALSE /\ added' = {} /\ created' = FALSE /\ cleaned' = TRUE
      /\ doc' = FALSE /\ notified' = notified
  BY DEF SetDeleted, Forgotten
<1>2. CASE AbortDue /\ AbortSent
  <2>1. told' = told \cup {"abort"} /\ lost' = lost /\ ~notified /\ ~cleaned
    BY <1>2 DEF AbortDue, AbortSent
  <2>2. shadows' \in {{}, IF created THEN {} ELSE shadows} /\ late' \in {FALSE, late}
    BY <1>2 DEF AbortSent
  <2>3. told \subseteq told' /\ told' \cap {"complete", "abort"} # {}
    BY <2>1
  <2>4. late' \in BOOLEAN /\ (late' => late)
    <3>1. CASE late' = FALSE
      BY <3>1
    <3>2. CASE late' = late
      BY <3>2 DEF TypeOK
    <3> QED
      BY <2>2, <3>1, <3>2
  <2>5. shadows' \subseteq shadows /\ (created => shadows' = {})
    BY <2>2
  <2> QED
    BY <1>1, <2>1, <2>3, <2>4, <2>5
<1>3. CASE ~AbortDue /\ shadows' = (IF created THEN {} ELSE shadows)
           /\ UNCHANGED <<late, told, lost>>
  BY <1>1, <1>3 DEF AbortDue, TypeOK, Always
<1> QED
  BY <1>2, <1>3 DEF SetDeleted

LEMMA SetNotDeletedFacts ==
  ASSUME TypeOK, SetNotDeleted
  PROVE  /\ UNCHANGED <<doc, notified, cleaned, late, told, lost>>
         /\ shadows' \subseteq shadows
         /\ set' \in BOOLEAN /\ (created' => set' /\ added' = Volumes /\ created)
         /\ created' \in BOOLEAN /\ added' \subseteq Volumes
<1>1. CASE DeleteRefused
  BY <1>1 DEF DeleteRefused, TypeOK, backend
<1>2. CASE AbortRefused
  BY <1>2 DEF AbortRefused, Forgotten, TypeOK
<1> QED
  BY <1>1, <1>2 DEF SetNotDeleted

-------------------------------------------------------------------------------
LEMMA InitIInv == Init => IInv
  BY FileFacts DEF Init, FileInit, IInv, TypeOK, Opening, NothingYet, Holding, Undoing,
     Settled, Over, Always, WritersKnow, ShadowsKnown, PublishedMeansHeld, Preparation,
     BeforeSnapshot, AfterSnapshot, Closing, Closed, Locations, Guarded

-------------------------------------------------------------------------------
\* Snapshots that are finished after the wait was given up meet a backup that has
\* already failed.
LEMMA LateKeeps ==
  ASSUME IInv, LateSnapshots
  PROVE  IInv'
<1>1. /\ late /\ late' = FALSE /\ shadows' = Volumes
      /\ UNCHANGED <<at, doc, notified, created, cleaned, set, added, told, lost, made,
                     reported, result, file>>
  BY DEF LateSnapshots, backend, report
<1>2. ~made /\ file # "published"
  BY <1>1 DEF IInv, Always, Over
<1>3. at \notin Preparation \cup BeforeSnapshot
  BY <1>1 DEF IInv, Opening, NothingYet
<1>4. at \notin AfterSnapshot
  BY <1>2 DEF IInv, Holding
<1>5. at \notin Closing
  BY <1>1 DEF IInv, Settled
<1>6. TypeOK'
  BY <1>1 DEF IInv, TypeOK
<1>7. Opening'
  BY <1>1, <1>3 DEF Opening, Preparation, BeforeSnapshot
<1>8. Holding'
  BY <1>1, <1>4 DEF Holding
<1>9. Undoing' /\ Settled'
  BY <1>1, <1>5 DEF IInv, Undoing, Settled
<1>10. Over' /\ Always'
  BY <1>1, <1>2 DEF IInv, Over, Always
<1>11. WritersKnow' /\ ShadowsKnown' /\ PublishedMeansHeld'
  BY <1>1, <1>2 DEF IInv, WritersKnow, ShadowsKnown, PublishedMeansHeld
<1> QED
  BY <1>6, <1>7, <1>8, <1>9, <1>10, <1>11 DEF IInv

LEMMA StepIInv == IInv /\ [Next]_vars => IInv'
<1> SUFFICES ASSUME IInv, [Next]_vars PROVE IInv'
  OBVIOUS
<1>2. CASE LateSnapshots
  BY <1>2, LateKeeps
<1> USE FileFacts
<1> USE DEF IInv, TypeOK, Opening, NothingYet, Holding, Undoing, Settled, Over, Always,
        WritersKnow, ShadowsKnown, PublishedMeansHeld, Preparation, BeforeSnapshot,
        AfterSnapshot, Closing, Closed, Locations, Guarded
<1>1. CASE LoseShadow
  <2>1. /\ UNCHANGED <<at, doc, notified, created, cleaned, set, added, late, told, made, reported,
                       result, file>>
        /\ shadows' \subseteq shadows /\ shadows # {} /\ lost' \in BOOLEAN
        /\ shadows' # Volumes
    BY <1>1 DEF LoseShadow, backend, report
  <2>2. at \notin Preparation \cup BeforeSnapshot \cup Closing
    BY <2>1
  <2>3. TypeOK' /\ Opening' /\ Holding' /\ Undoing' /\ Settled'
    BY <2>1, <2>2
  <2>4. Over' /\ Always'
    BY <2>1
  <2>5. WritersKnow' /\ ShadowsKnown' /\ PublishedMeansHeld'
    BY <2>1
  <2> QED
    BY <2>3, <2>4, <2>5
<1>3. CASE FailingCall
  <2>1. UNCHANGED <<doc, notified, created, cleaned, set, added, shadows, late, told, lost,
                    made, reported, file>> /\ result' = "failed"
    BY <1>3 DEF FailingCall, backend, service, Fail
  <2>2. CASE at \in Preparation /\ at' = "release"
    BY <2>1, <2>2
  <2>3. CASE at \in Guarded /\ at' = "cleanup"
    <3>1. set /\ ~cleaned /\ (made => created) /\ file \in {"none", "staged"}
      BY <2>3
    <3> QED
      BY <2>1, <2>3, <3>1
  <2> QED
    BY <1>3, <2>2, <2>3 DEF FailingCall, Fail
<1>4. CASE InitializeComponents
  <2>1. at = "initialize" /\ doc'
        /\ UNCHANGED <<notified, created, cleaned, set, added, shadows, late, told, lost,
                       made, reported, file>>
    BY <1>4 DEF InitializeComponents, service, Goto, Fail, report
  <2>2. \/ at' = "backupState" /\ result' = result
        \/ at' = "release" /\ result' = "failed"
    BY <1>4 DEF InitializeComponents, Goto, Fail, report
  <2> QED
    BY <2>1, <2>2
<1>5. CASE SetBackupState
  BY <1>5 DEF SetBackupState, backend, service, Goto, report
<1>6. CASE GatherWriterMetadata
  BY <1>6 DEF GatherWriterMetadata, backend, service, Goto, report
<1>7. CASE StartSnapshotSet
  BY <1>7 DEF StartSnapshotSet, service, Goto, report
<1>8. CASE AddVolume
  BY <1>8 DEF AddVolume, service, Goto, report
<1>9. CASE PrepareForBackup
  <2>1. /\ at = "prepare" /\ told' = told \cup {"prepare"}
        /\ UNCHANGED <<doc, notified, created, cleaned, set, added, shadows, late, lost,
                       made, reported, file>>
    BY <1>9 DEF PrepareForBackup, backend, Goto, Fail, report
  <2>2. told' = {"prepare"}
    BY <2>1
  <2>3. \/ at' = "snapshot" /\ result' = result
        \/ at' = "cleanup" /\ result' = "failed"
    BY <1>9 DEF PrepareForBackup, Goto, Fail, report
  <2> QED
    BY <2>1, <2>2, <2>3
<1>10. CASE DoSnapshotSet
  BY <1>10 DEF DoSnapshotSet
<1>11. CASE DoSnapshotSetGivenUp
  BY <1>11 DEF DoSnapshotSetGivenUp, backend, Fail
<1>12. CASE QueryWriterStatuses
  BY <1>12 DEF QueryWriterStatuses, backend, service, Goto, report
<1>13. CASE QuerySnapshotDevices
  BY <1>13 DEF QuerySnapshotDevices, backend, service, Goto, report
<1>14. CASE CopySnapshotData
  BY <1>14 DEF CopySnapshotData, backend, service, Goto, report, FileStage
<1>15. CASE CopyFails
  BY <1>15 DEF CopyFails, backend, service, FileStageFails
<1>16. CASE BackupComplete
  BY <1>16 DEF BackupComplete, Goto, Fail, report
<1>17. CASE BackupCompleteGivenUp
  BY <1>17 DEF BackupCompleteGivenUp, backend, Fail
<1>18. CASE DeleteSnapshotSet
  <2>1. /\ at = "delete" /\ created /\ made /\ notified /\ ~cleaned /\ ~late
        /\ file = "staged" /\ file' = file /\ reported = {} /\ result = "none"
        /\ told = {"prepare", "complete"} /\ (lost => shadows # Volumes)
    BY <1>18 DEF DeleteSnapshotSet
  <2>2. CASE SetDeleted /\ Goto("revalidate")
    <3>1. at' = "revalidate" /\ UNCHANGED <<made, reported, result>>
      BY <2>2 DEF Goto, report
    <3>2. ~lost
      BY <2>1, <2>2, DeletedMeansWhole DEF SetDeleted
    <3>3. /\ ~set' /\ ~created' /\ added' = {} /\ cleaned' /\ ~doc' /\ notified'
          /\ lost' = lost /\ shadows' = {} /\ ~late' /\ told' = told
      BY <2>1, <2>2, SetDeletedFacts
    <3>4. /\ doc' \in BOOLEAN /\ notified' \in BOOLEAN /\ created' \in BOOLEAN
          /\ cleaned' \in BOOLEAN /\ set' \in BOOLEAN /\ late' \in BOOLEAN
      BY <2>2, <2>1 DEF SetDeleted, Forgotten, AbortDue
    <3> QED
      BY <2>1, <3>1, <3>2, <3>3, <3>4
  <2>3. CASE SetNotDeleted /\ at' = AfterWorkflow /\ result' = "failed"
             /\ reported' = reported \cup {"delete"} /\ UNCHANGED made
    <3>1. at' = "abort" /\ reported' = {"delete"}
      BY <2>1, <2>3 DEF AfterWorkflow
    <3>2. TypeOK'
      BY <2>1, <2>3, <3>1, SetNotDeletedFacts
    <3>3. Over'
      BY <2>1, <2>3, <3>1
    <3>5. Always'
      <4>1. late' = late /\ told' = told
        BY <2>3, SetNotDeletedFacts
      <4>2. told' = {"prepare", "complete"}
        BY <2>1, <4>1
      <4>3. ~late'
        BY <2>1, <4>1, Zenon
      <4> QED
        BY <4>2, <4>3
    <3>4. WritersKnow' /\ ShadowsKnown' /\ PublishedMeansHeld'
      BY <2>1, <2>3, <3>1, SetNotDeletedFacts
    <3> QED
      BY <3>1, <3>2, <3>3, <3>4, <3>5
  <2> QED
    BY <1>18, <2>2, <2>3 DEF DeleteSnapshotSet
<1>19. CASE CleanUp
  <2>1. /\ at = "cleanup" /\ set /\ ~cleaned /\ result = "failed" /\ (made => created)
        /\ file \in {"none", "staged", "left"} /\ UNCHANGED <<made, result, file>>
        /\ at' = IF file = "staged" THEN "abort" ELSE "release"
    BY <1>19 DEF CleanUp, AfterWorkflow
  <2>2. CASE SetDeleted /\ UNCHANGED reported
    <3>1. /\ ~set' /\ ~created' /\ added' = {} /\ cleaned' /\ ~doc'
          /\ notified' = notified /\ lost' = lost
          /\ shadows' \subseteq shadows /\ (created => shadows' = {})
          /\ late' \in BOOLEAN /\ (late' => late)
          /\ told \subseteq told' /\ told' \subseteq told \cup {"abort"}
          /\ told' \cap {"complete", "abort"} # {}
      BY <2>1, <2>2, SetDeletedFacts
    <3>2. /\ doc' \in BOOLEAN /\ created' \in BOOLEAN /\ cleaned' \in BOOLEAN
          /\ set' \in BOOLEAN
      BY <2>2 DEF SetDeleted, Forgotten
    <3>3. TypeOK' /\ Opening' /\ Holding' /\ Undoing' /\ Settled'
      BY <2>1, <2>2, <3>1, <3>2
    <3>4. Over' /\ Always' /\ WritersKnow' /\ ShadowsKnown' /\ PublishedMeansHeld'
      BY <2>1, <2>2, <3>1
    <3> QED
      BY <3>3, <3>4
  <2>3. CASE SetNotDeleted /\ reported' = reported \cup {"delete"}
    <3>1. "delete" \in reported' /\ reported' \subseteq {"delete", "file"}
          /\ ("file" \in reported => "file" \in reported')
      BY <2>3
    <3>2. TypeOK'
      BY <2>1, <2>3, <3>1, SetNotDeletedFacts
    <3>3. Over' /\ Always' /\ WritersKnow' /\ ShadowsKnown' /\ PublishedMeansHeld'
      BY <2>1, <2>3, <3>1, SetNotDeletedFacts
    <3> QED
      BY <2>1, <3>2, <3>3
  <2> QED
    BY <1>19, <2>2, <2>3 DEF CleanUp
<1>20. CASE RevalidateDestination
  BY <1>20 DEF RevalidateDestination, backend, service, Goto, Fail, report
<1>21. CASE CommitVerified
  BY <1>21 DEF CommitVerified, backend, service, FileCommit
<1>22. CASE AbortStaged
  <2>1. /\ at = "abort" /\ at' = "release" /\ result = "failed"
        /\ UNCHANGED <<doc, notified, created, cleaned, set, added, shadows, late, told, lost,
                       made, result>>
    BY <1>22 DEF AbortStaged, backend, service
  <2>2. /\ file' \in {"none", "left"} /\ (file' = "left" => "file" \in reported')
        /\ reported \subseteq reported' /\ reported' \subseteq {"delete", "file"}
    <3>1. CASE FileAbort /\ UNCHANGED reported
      BY <2>1, <3>1 DEF FileAbort
    <3>2. CASE FileAbortFails /\ reported' = reported \cup {"file"}
      BY <2>1, <3>2 DEF FileAbortFails
    <3> QED
      BY <1>22, <3>1, <3>2 DEF AbortStaged
  <2>3. TypeOK' /\ Opening' /\ Holding' /\ Undoing' /\ Settled'
    BY <2>1, <2>2
  <2>4. Over' /\ Always'
    BY <2>1, <2>2
  <2>5. WritersKnow' /\ ShadowsKnown' /\ PublishedMeansHeld'
    BY <2>1, <2>2
  <2> QED
    BY <2>3, <2>4, <2>5
<1>23. CASE Release
  <2>1. /\ at = "release" /\ at' = "reset" /\ UNCHANGED <<made, reported, result, file>>
    BY <1>23 DEF Release, Goto, report
  <2> DEFINE Facts ==
        /\ doc' \in BOOLEAN /\ notified' = notified /\ created' \in BOOLEAN
        /\ cleaned' \in BOOLEAN /\ set' \in BOOLEAN /\ added' \subseteq Volumes
        /\ (created' => set' /\ added' = Volumes)
        /\ (cleaned => cleaned') /\ lost' = lost /\ (~set => ~set')
        /\ shadows' \subseteq shadows /\ late' \in BOOLEAN /\ (late' => late)
        /\ told \subseteq told' /\ told' \subseteq told \cup {"abort"}
        /\ (cleaned => told' = told)
  <2>2. CASE set /\ SetDeleted
    <3>1. Facts
      BY <2>2, SetDeletedFacts DEF SetDeleted, Forgotten
    <3> QED
      BY <2>1, <3>1
  <2>3. CASE set /\ SetNotDeleted
    <3>1. Facts
      BY <2>3, SetNotDeletedFacts
    <3> QED
      BY <2>1, <3>1
  <2>4. CASE ~set /\ doc /\ AbortDue /\ doc' = FALSE
             /\ (AbortSent \/ UNCHANGED service)
             /\ UNCHANGED <<notified, created, cleaned, set, added>>
    <3>1. CASE AbortSent
      <4>1. told' = told \cup {"abort"} /\ lost' = lost /\ ~cleaned
            /\ late' \in {FALSE, late}
        BY <2>4, <3>1 DEF AbortSent, AbortDue
      <4>2. shadows' \subseteq shadows
        BY <3>1 DEF AbortSent
      <4>3. /\ told \subseteq told' /\ told' \subseteq told \cup {"abort"}
            /\ late' \in BOOLEAN /\ (late' => late)
        <5>1. CASE late' = FALSE
          BY <4>1, <5>1
        <5>2. CASE late' = late
          BY <4>1, <5>2
        <5> QED
          BY <4>1, <5>1, <5>2
      <4>4. Facts
        BY <2>4, <4>1, <4>2, <4>3
      <4> QED
        BY <2>1, <4>4
    <3>2. CASE UNCHANGED service
      <4>1. Facts
        BY <2>4, <3>2 DEF service
      <4> QED
        BY <2>1, <4>1
    <3> QED
      BY <2>4, <3>1, <3>2
  <2>5. CASE UNCHANGED <<backend, service>>
    <3>1. Facts
      BY <2>5 DEF backend, service
    <3> QED
      BY <2>1, <3>1
  <2> QED
    BY <1>23, <2>2, <2>3, <2>4, <2>5 DEF Release
<1>24. CASE ResetComponents
  <2>1. /\ at = "reset" /\ at' = "drop" /\ shadows' = {} /\ late' = FALSE
        /\ UNCHANGED <<doc, notified, created, cleaned, set, added, told, lost, made, reported,
                       result, file>>
    BY <1>24 DEF ResetComponents, backend, Goto, report
  <2>2. TypeOK' /\ Opening' /\ Holding' /\ Undoing' /\ Settled'
    BY <2>1
  <2>3. Over' /\ Always'
    BY <2>1
  <2>4. WritersKnow' /\ ShadowsKnown' /\ PublishedMeansHeld'
    BY <2>1
  <2> QED
    BY <2>2, <2>3, <2>4
<1>25. CASE DropStaged
  BY <1>25 DEF DropStaged, backend, service, Goto, report, FileAbort, FileAbortFails
<1>26. CASE UNCHANGED vars
  BY <1>26 DEF vars, backend, service, report
<1> QED
  BY <1>1, <1>2, <1>3, <1>4, <1>5, <1>6, <1>7, <1>8, <1>9, <1>10, <1>11, <1>12,
     <1>13, <1>14, <1>15, <1>16, <1>17, <1>18, <1>19, <1>20, <1>21, <1>22, <1>23,
     <1>24, <1>25, <1>26
     DEF Next, Program, Preparing, InSet, Ending

-------------------------------------------------------------------------------
(* The results.                                                               *)

\* IInv is an invariant of the backup.
THEOREM Invariant == Spec => []IInv
<1>1. IInv /\ [Next]_vars => IInv'
  BY StepIInv
<1> QED
  BY <1>1, InitIInv, PTL DEF Spec

\* Every reachable state has its type, and the backend says that shadows were
\* created only with a set in which every volume was added.
THEOREM TypeCorrect == Spec => []TypeOK
<1>1. IInv => TypeOK
  BY DEF IInv
<1> QED
  BY <1>1, Invariant, PTL

\* Whatever the service does, an image gets its final name only from a set that
\* was whole to the end, whose writers were told, and that is gone.
THEOREM OnlyHeldIsPublished == Spec => []PublishedMeansHeld
<1>1. IInv => PublishedMeansHeld
  BY DEF IInv
<1> QED
  BY <1>1, Invariant, PTL

\* A backup that failed leaves no image, and a partial file only with a word.
THEOREM NothingIsLeft == Spec => []FailureLeavesNothing
<1>1. IInv => FailureLeavesNothing
  BY FileFacts DEF IInv, FailureLeavesNothing, Over, TypeOK, Closed
<1> QED
  BY <1>1, Invariant, PTL

\* Writers that prepared hear how it ended, or the error says that they did not.
THEOREM WritersAreReleased == Spec => []WritersReleased
<1>1. IInv => WritersReleased
  BY DEF IInv, WritersReleased, WritersKnow, Closed
<1> QED
  BY <1>1, Invariant, PTL

\* After the workflow no shadow of a created set is left without a word.
THEOREM ShadowsAreDeleted == Spec => []ShadowsDeletedOrReported
<1>1. IInv => ShadowsDeletedOrReported
  BY DEF IInv, ShadowsDeletedOrReported, ShadowsKnown, Closed, Closing
<1> QED
  BY <1>1, Invariant, PTL

-------------------------------------------------------------------------------
(* What the writers hear.                                                     *)

\* How the list of what the writers were told grows.
LEMMA ToldGrows ==
  ASSUME IInv, Next
  PROVE  \/ told' = told /\ notified' = notified
         \/ told' = told \cup {"prepare"} /\ at = "prepare" /\ notified' = notified
         \/ told' = told \cup {"complete"} /\ at = "complete"
         \/ told' = told \cup {"abort"} /\ ~notified /\ ~notified'
<1> USE DEF backend, service
<1>1. CASE FailingCall \/ LoseShadow \/ LateSnapshots
  BY <1>1 DEF FailingCall, LoseShadow, LateSnapshots
<1>2. CASE Preparing
  BY <1>2 DEF Preparing, InitializeComponents, SetBackupState, GatherWriterMetadata,
     StartSnapshotSet
<1>3. CASE AddVolume \/ QueryWriterStatuses \/ QuerySnapshotDevices
           \/ CopySnapshotData \/ CopyFails
  BY <1>3 DEF AddVolume, QueryWriterStatuses, QuerySnapshotDevices, CopySnapshotData,
     CopyFails
<1>4. CASE PrepareForBackup
  BY <1>4 DEF PrepareForBackup
<1>5. CASE DoSnapshotSet \/ DoSnapshotSetGivenUp
  BY <1>5 DEF DoSnapshotSet, DoSnapshotSetGivenUp
<1>6. CASE BackupComplete \/ BackupCompleteGivenUp
  BY <1>6 DEF BackupComplete, BackupCompleteGivenUp
<1>7. ASSUME SetDeleted \/ SetNotDeleted
      PROVE  \/ told' = told /\ notified' = notified
             \/ told' = told \cup {"abort"} /\ ~notified /\ ~notified'
  <2>1. CASE SetDeleted
    BY <2>1 DEF SetDeleted, AbortDue, AbortSent
  <2>2. CASE SetNotDeleted
    BY <2>2 DEF SetNotDeleted, DeleteRefused, AbortRefused
  <2> QED
    BY <1>7, <2>1, <2>2
<1>8. CASE DeleteSnapshotSet \/ CleanUp
  BY <1>7, <1>8 DEF DeleteSnapshotSet, CleanUp
<1>9. CASE RevalidateDestination \/ CommitVerified \/ AbortStaged \/ ResetComponents
           \/ DropStaged
  BY <1>9 DEF RevalidateDestination, CommitVerified, AbortStaged, ResetComponents,
     DropStaged
<1>10. CASE Release
  <2>1. CASE SetDeleted \/ SetNotDeleted
    BY <1>7, <2>1
  <2>2. CASE AbortDue /\ (AbortSent \/ UNCHANGED service) /\ notified' = notified
    BY <2>2 DEF AbortDue, AbortSent
  <2>3. CASE UNCHANGED <<backend, service>>
    BY <2>3
  <2> QED
    BY <1>10, <2>1, <2>2, <2>3 DEF Release
<1> QED
  BY <1>1, <1>2, <1>3, <1>4, <1>5, <1>6, <1>8, <1>9, <1>10
  DEF Next, Program, InSet, Ending

\* BackupComplete lets the writers forget what the backup holds, a database its
\* log: it is called only when the image is complete, verified and staged, of
\* snapshots that were seen to finish, and once.
CompletedIsStaged ==
  []["complete" \in told' /\ "complete" \notin told =>
       made /\ file = "staged" /\ told = {"prepare"}]_vars

\* No writer hears of a completion before there is a copy of its data.
THEOREM CompletionIsStaged == Spec => CompletedIsStaged
<1>1. ASSUME IInv, Next, "complete" \in told', "complete" \notin told
      PROVE  made /\ file = "staged" /\ told = {"prepare"}
  <2>1. at = "complete"
    BY <1>1, ToldGrows
  <2> QED
    BY <1>1, <2>1 DEF IInv, Holding, AfterSnapshot
<1>2. IInv /\ [Next]_vars =>
        ["complete" \in told' /\ "complete" \notin told =>
           made /\ file = "staged" /\ told = {"prepare"}]_vars
  BY <1>1
<1> QED
  BY <1>2, Invariant, PTL DEF Spec, CompletedIsStaged

\* Writers hear of a completion and of an abort only when the wait for the
\* completion was given up, and never when the backup succeeds.
NoContradiction ==
  {"complete", "abort"} \subseteq told => ~notified /\ result # "success"

\* backup_complete_notified keeps abort_if_needed from taking back a completion
\* that the writers have confirmed.
THEOREM NoneIsContradicted == Spec => []NoContradiction
<1> DEFINE Kept == IInv /\ (notified => "abort" \notin told)
<1>1. Init => Kept
  BY InitIInv DEF Init
<1>2. Kept /\ [Next]_vars => Kept'
  <2> SUFFICES ASSUME Kept, [Next]_vars PROVE notified' => "abort" \notin told'
    BY StepIInv
  <2>1. CASE UNCHANGED vars
    BY <2>1 DEF vars, backend, service
  <2>2. CASE Next /\ at = "complete" /\ told' = told \cup {"complete"}
    <3>1. told = {"prepare"}
      BY <2>2 DEF IInv, Holding, AfterSnapshot
    <3> QED
      BY <2>2, <3>1
  <2>3. CASE Next /\ ~(at = "complete" /\ told' = told \cup {"complete"})
    <3>1. \/ told' = told /\ notified' = notified
          \/ told' = told \cup {"prepare"} /\ notified' = notified
          \/ ~notified'
      BY <2>3, ToldGrows
    <3>2. CASE told' = told /\ notified' = notified
      BY <3>2
    <3>3. CASE told' = told \cup {"prepare"} /\ notified' = notified
      <4>1. "abort" \in told' => "abort" \in told
        BY <3>3
      <4> QED
        BY <3>3, <4>1
    <3> QED
      BY <3>1, <3>2, <3>3
  <2> QED
    BY <2>1, <2>2, <2>3
<1>3. Kept => NoContradiction
  <2> SUFFICES ASSUME Kept, {"complete", "abort"} \subseteq told
               PROVE  ~notified /\ result # "success"
    BY DEF NoContradiction
  <2>1. result = "success" => file = "published"
    BY DEF IInv, Over
  <2> QED
    BY <2>1 DEF IInv, PublishedMeansHeld
<1> QED
  BY <1>1, <1>2, <1>3, PTL DEF Spec

-------------------------------------------------------------------------------
(* How long a backup lasts.                                                   *)

Ahead ==
  [initialize |-> 18, backupState |-> 17, metadata |-> 16, start |-> 15, add |-> 14,
   prepare |-> 13, snapshot |-> 12, writers |-> 11, devices |-> 10, copy |-> 9,
   complete |-> 8, delete |-> 7, revalidate |-> 6, commit |-> 5, cleanup |-> 5,
   abort |-> 4, release |-> 3, reset |-> 2, drop |-> 1, ended |-> 0]

\* Neither a failure nor what is done about it leads back to an earlier call; while
\* volumes are added, fewer of them are left each time.  A backup is over after at
\* most as many calls as there are volumes, and 18.
BackupAdvances ==
  [][Program =>
       \/ Ahead[at'] < Ahead[at]
       \/ /\ at = "add" /\ at' = "add"
          /\ Cardinality(Volumes \ added') < Cardinality(Volumes \ added)]_vars

\* No path through the error handling of the workflow, its clean-up and the
\* backend's destructor is a loop.
THEOREM BackupsEnd == Spec => BackupAdvances
<1>1. ASSUME IInv, Program
      PROVE  \/ Ahead[at'] < Ahead[at]
             \/ /\ at = "add" /\ at' = "add"
                /\ Cardinality(Volumes \ added') < Cardinality(Volumes \ added)
  <2>1. CASE FailingCall
    <3>1. at \in Preparation \cup Guarded /\ at' \in {"release", "cleanup"}
      BY <2>1 DEF FailingCall, Fail
    <3> QED
      BY <3>1 DEF Ahead, Preparation, Guarded
  <2>2. CASE Preparing
    <3>1. \/ at = "initialize" /\ at' \in {"backupState", "release"}
          \/ at = "backupState" /\ at' = "metadata"
          \/ at = "metadata" /\ at' = "start"
          \/ at = "start" /\ at' = "add"
      BY <2>2 DEF Preparing, InitializeComponents, SetBackupState, GatherWriterMetadata,
         StartSnapshotSet, Goto, Fail
    <3> QED
      BY <3>1 DEF Ahead, Preparation, Guarded
  <2>3. CASE PrepareForBackup
    <3>1. at = "prepare" /\ at' \in {"snapshot", "cleanup"}
      BY <2>3 DEF PrepareForBackup, Goto, Fail
    <3> QED
      BY <3>1 DEF Ahead, Preparation, Guarded
  <2>4. CASE DoSnapshotSet \/ DoSnapshotSetGivenUp
    <3>1. at = "snapshot" /\ at' \in {"writers", "cleanup"}
      BY <2>4 DEF DoSnapshotSet, DoSnapshotSetGivenUp, Fail
    <3> QED
      BY <3>1 DEF Ahead, Preparation, Guarded
  <2>5. CASE QueryWriterStatuses \/ QuerySnapshotDevices
    <3>1. \/ at = "writers" /\ at' = "devices"
          \/ at = "devices" /\ at' = "copy"
      BY <2>5 DEF QueryWriterStatuses, QuerySnapshotDevices, Goto
    <3> QED
      BY <3>1 DEF Ahead, Preparation, Guarded
  <2>6. CASE CopySnapshotData \/ CopyFails
    <3>1. at = "copy" /\ at' \in {"complete", "cleanup"}
      BY <2>6 DEF CopySnapshotData, CopyFails, Goto
    <3> QED
      BY <3>1 DEF Ahead, Preparation, Guarded
  <2>7. CASE BackupComplete \/ BackupCompleteGivenUp
    <3>1. at = "complete" /\ at' \in {"delete", "cleanup"}
      BY <2>7 DEF BackupComplete, BackupCompleteGivenUp, Goto, Fail
    <3> QED
      BY <3>1 DEF Ahead, Preparation, Guarded
  <2>8. CASE DeleteSnapshotSet
    <3>1. at = "delete" /\ at' \in {"revalidate", "abort", "release"}
      BY <2>8 DEF DeleteSnapshotSet, AfterWorkflow, Goto
    <3> QED
      BY <3>1 DEF Ahead, Preparation, Guarded
  <2>9. CASE CleanUp
    <3>1. at = "cleanup" /\ at' \in {"abort", "release"}
      BY <2>9 DEF CleanUp, AfterWorkflow
    <3> QED
      BY <3>1 DEF Ahead, Preparation, Guarded
  <2>10. CASE RevalidateDestination \/ CommitVerified
    <3>1. \/ at = "revalidate" /\ at' \in {"commit", "abort"}
          \/ at = "commit" /\ at' \in {"release", "abort"}
      BY <2>10 DEF RevalidateDestination, CommitVerified, Goto, Fail
    <3> QED
      BY <3>1 DEF Ahead, Preparation, Guarded
  <2>11. CASE AbortStaged \/ Release
    <3>1. \/ at = "abort" /\ at' = "release"
          \/ at = "release" /\ at' = "reset"
      BY <2>11 DEF AbortStaged, Release, Goto
    <3> QED
      BY <3>1 DEF Ahead, Preparation, Guarded
  <2>12. CASE ResetComponents \/ DropStaged
    <3>1. \/ at = "reset" /\ at' = "drop"
          \/ at = "drop" /\ at' = "ended"
      BY <2>12 DEF ResetComponents, DropStaged, Goto
    <3> QED
      BY <3>1 DEF Ahead, Preparation, Guarded
  <2>13. CASE AddVolume
    <3>1. PICK v \in Volumes \ added : added' = added \cup {v}
      BY <2>13 DEF AddVolume
    <3>2. at = "add" /\ at' \in {"prepare", "add"}
      BY <2>13 DEF AddVolume, Goto
    <3>3. CASE at' = "prepare"
      BY <3>2, <3>3 DEF Ahead
    <3>4. CASE at' = "add"
      <4>1. /\ IsFiniteSet(Volumes \ added)
            /\ Volumes \ added' \subseteq Volumes \ added
            /\ Volumes \ added' # Volumes \ added
        BY <3>1, VolumesAssumption, FS_Difference
      <4> QED
        BY <3>2, <3>4, <4>1, FS_Subset, FS_CardinalityType
    <3> QED
      BY <3>2, <3>3, <3>4
  <2> QED
    BY <1>1, <2>1, <2>2, <2>3, <2>4, <2>5, <2>6, <2>7, <2>8, <2>9, <2>10, <2>11, <2>12, <2>13
    DEF Program, InSet, Ending
<1>2. IInv /\ [Next]_vars =>
        [Program =>
           \/ Ahead[at'] < Ahead[at]
           \/ /\ at = "add" /\ at' = "add"
              /\ Cardinality(Volumes \ added') < Cardinality(Volumes \ added)]_vars
  BY <1>1
<1> QED
  BY <1>2, Invariant, PTL DEF Spec, BackupAdvances

===============================================================================
