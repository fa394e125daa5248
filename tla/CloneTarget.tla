----------------------------- MODULE CloneTarget -----------------------------
(* What a direct clone does to the attributes of the two disks.  On the       *)
(* Windows route run_operation confirms, executes and verifies, and           *)
(* execute_online_direct_clone takes the target offline, copies and protects  *)
(* it again after every failure.  On the WinPE route the service also makes   *)
(* the source read-only for the time of the copy.  Every attribute change is  *)
(* verified by a fresh enumeration, so it may fail before or after it has     *)
(* taken effect; a cancellation may be asked for at any time.                 *)

VARIABLES
  job,          \* what is asked for, and what the disks are like
  at,           \* the call that comes next
  target,       \* what is on the target
  offline,      \* its attribute
  readOnly,     \* the attribute of the source
  destructive,  \* destructive_phase_started
  cancel,       \* cancellation_requested
  evidence,     \* run_operation accepted what execute returned
  verdict,      \* of the verification
  unsure,       \* the error speaks of a target that could not be put offline
  mishap,       \* history: a change of the source's attribute failed
  outcome

disks == <<target, offline, readOnly>>
proof == <<evidence, verdict>>
vars == <<job, at, disks, destructive, cancel, proof, unsure, mishap, outcome>>

\* "boot": a Windows system, so the boot files are made once the data is there;
\* "keep": leave_target_offline; "vss": used_vss_snapshot.
Jobs == {j \in [route : {"windows", "winpe"}, boot : BOOLEAN, keep : BOOLEAN,
                vss : BOOLEAN, wasReadOnly : BOOLEAN] :
           IF j.route = "windows" THEN j.keep /\ ~j.wasReadOnly ELSE ~j.vss}

Windows == job.route = "windows"

Locations == {"plan", "reidentify", "confirm", "prepare", "guard", "openSource",
              "takeOffline", "open", "engine", "writing", "online", "boot",
              "offlineAgain", "poll", "workflow", "reprotect", "workflowFailed",
              "report", "verify", "restore", "drop", "ended"}
Contents == {"untouched", "partial", "cloned", "bootable"}
Outcomes == {"none", "failed", "cancelled", "completed"}

Init ==
  /\ job \in Jobs
  /\ at = IF job.route = "windows" THEN "plan" ELSE "guard"
  /\ target = "untouched" /\ offline \in BOOLEAN /\ readOnly = job.wasReadOnly
  /\ destructive = FALSE /\ cancel = FALSE
  /\ evidence = FALSE /\ verdict = "none"
  /\ unsure = FALSE /\ mishap = FALSE /\ outcome = "none"

-------------------------------------------------------------------------------
(* Attributes and ends.                                                       *)

\* set_verified_target_offline
SetOffline(want, done) ==
  IF done THEN offline' = want ELSE offline' \in {offline, want}

\* The same, with an error that says so when it fails.
Protect(done) ==
  /\ SetOffline(TRUE, done)
  /\ unsure' = (unsure \/ ~done)

\* set_verified_source_read_only
SetReadOnly(want, done) ==
  /\ IF done THEN readOnly' = want ELSE readOnly' \in {readOnly, want}
  /\ mishap' = (mishap \/ ~done)

Goto(next) == at' = next /\ UNCHANGED outcome

End(how) == at' = "ended" /\ outcome' = how

Fail(next) == at' = next /\ outcome' = "failed"

\* A step that looks at the cancellation, or asks about the difference areas.
Stop(next) ==
  \/ Fail(next)
  \/ (cancel \/ job.vss) /\ at' = next /\ outcome' = "cancelled"

\* Mutant: the guard of the source is not destroyed.
AfterFailureUnguarded(windows) == IF Windows THEN windows ELSE "ended"

\* Where a failure leads, and the destructor of TemporarySourceReadOnly in WinPE.
AfterFailure(windows) == IF Windows THEN windows ELSE "drop"

-------------------------------------------------------------------------------
(* run_operation up to the execution.                                         *)

RequestCancel ==
  /\ ~cancel /\ at # "ended" /\ cancel' = TRUE
  /\ UNCHANGED <<job, at, disks, destructive, proof, unsure, mishap, outcome>>

Operation(next) ==
  /\ at' = next
  /\ UNCHANGED <<job, disks, destructive, cancel, proof, unsure, mishap>>

CheckPlan ==
  /\ at = "plan"
  /\ \/ ~cancel /\ Operation("reidentify") /\ UNCHANGED outcome
     \/ cancel /\ Operation("ended") /\ outcome' = "cancelled"
     \/ Operation("ended") /\ outcome' = "failed"

Reidentify ==
  /\ at = "reidentify"
  /\ \/ Operation("confirm") /\ UNCHANGED outcome
     \/ Operation("ended") /\ outcome' = "failed"

Confirm ==
  /\ at = "confirm"
  /\ \/ ~cancel /\ Operation("prepare") /\ UNCHANGED outcome
     \/ cancel /\ Operation("ended") /\ outcome' = "cancelled"
     \/ Operation("ended") /\ outcome' = "failed"

-------------------------------------------------------------------------------
(* The copy.                                                                  *)

\* Snapshots or locks, readers, the last look at both disks and the first poll.
PrepareCopy ==
  /\ at = "prepare"
  /\ Goto("takeOffline") \/ Stop("workflowFailed")
  /\ UNCHANGED <<job, disks, destructive, cancel, proof, unsure, mishap>>

\* When the change fails there is no guard yet that would undo it.
GuardSource ==
  /\ at = "guard"
  /\ \/ job.wasReadOnly /\ Goto("openSource") /\ UNCHANGED <<readOnly, mishap>>
     \/ /\ ~job.wasReadOnly
        /\ \/ SetReadOnly(TRUE, TRUE) /\ Goto("openSource")
           \/ SetReadOnly(TRUE, FALSE) /\ End("failed")
     \/ End("failed") /\ UNCHANGED <<readOnly, mishap>>
  /\ UNCHANGED <<job, target, offline, destructive, cancel, proof, unsure>>

OpenSource ==
  /\ at = "openSource"
  /\ Goto("takeOffline") \/ Fail("drop")
  /\ UNCHANGED <<job, disks, destructive, cancel, proof, unsure, mishap>>

TakeOffline ==
  /\ at = "takeOffline"
  /\ \/ SetOffline(TRUE, TRUE) /\ Goto("open") /\ destructive' = Windows
     \/ /\ SetOffline(TRUE, FALSE) /\ Fail(AfterFailure("workflowFailed"))
        /\ UNCHANGED destructive
  /\ UNCHANGED <<job, target, readOnly, cancel, proof, unsure, mishap>>

OpenTarget ==
  /\ at = "open"
  /\ Goto("engine") \/ Fail(AfterFailure("reprotect"))
  /\ UNCHANGED <<job, disks, destructive, cancel, proof, unsure, mishap>>

WriteTarget ==
  /\ at = "engine"
  /\ \/ target' = "partial" /\ Goto("writing")
     \/ UNCHANGED target /\ Stop(AfterFailure("reprotect"))
  /\ UNCHANGED <<job, offline, readOnly, destructive, cancel, proof, unsure, mishap>>

AfterEngine ==
  IF job.boot \/ ~job.keep THEN "online"
  ELSE IF Windows THEN "offlineAgain" ELSE "restore"

\* A report that does not add up is a failure of a target with all its data.
FinishEngine ==
  /\ at = "writing"
  /\ \/ target' = "cloned" /\ Goto(AfterEngine)
     \/ target' \in {"partial", "cloned"} /\ Stop(AfterFailure("reprotect"))
  /\ UNCHANGED <<job, offline, readOnly, destructive, cancel, proof, unsure, mishap>>

\* The service returns at once when this fails.
BringOnline ==
  /\ at = "online"
  /\ \/ SetOffline(FALSE, TRUE) /\ Goto(IF job.boot THEN "boot" ELSE "restore")
     \/ SetOffline(FALSE, FALSE) /\ Fail(AfterFailure("reprotect"))
  /\ UNCHANGED <<job, target, readOnly, destructive, cancel, proof, unsure, mishap>>

\* Whether it worked or not, the target goes offline before the error is returned.
FinalizeBoot ==
  /\ at = "boot"
  /\ \/ target' = "bootable"
        /\ Goto(IF job.keep THEN "offlineAgain" ELSE "restore")
     \/ UNCHANGED target /\ Stop("offlineAgain")
  /\ UNCHANGED <<job, offline, readOnly, destructive, cancel, proof, unsure, mishap>>

OfflineAgain ==
  /\ at = "offlineAgain"
  /\ \E done \in BOOLEAN :
       /\ Protect(done)
       /\ \/ done /\ outcome = "none" /\ Goto(IF Windows THEN "poll" ELSE "restore")
          \/ ~done /\ outcome = "none"
             /\ at' = AfterFailure("workflowFailed") /\ outcome' = "failed"
          \/ outcome # "none" /\ Goto(AfterFailure("workflowFailed"))
  /\ UNCHANGED <<job, target, readOnly, destructive, cancel, proof, mishap>>

\* The difference areas had room to the end.
CompletionPoll ==
  /\ at = "poll"
  /\ Goto("workflow") \/ (job.vss /\ Stop("workflowFailed"))
  /\ UNCHANGED <<job, disks, destructive, cancel, proof, unsure, mishap>>

\* BackupComplete and the deletion of the set.
FinishWorkflow ==
  /\ at = "workflow"
  /\ Goto("report") \/ (job.vss /\ Stop("workflowFailed"))
  /\ UNCHANGED <<job, disks, destructive, cancel, proof, unsure, mishap>>

\* A dependency throws inside the copy callback, one that changes the attribute
\* before or after it has.
Throw ==
  /\ Windows
  /\ at \in {"prepare", "takeOffline", "open", "engine", "writing", "online",
             "boot", "offlineAgain", "poll"}
  /\ outcome' = "failed"
  /\ at' = IF destructive THEN "reprotect" ELSE "workflowFailed"
  /\ offline' \in IF at \in {"takeOffline", "online", "offlineAgain"}
                   THEN BOOLEAN ELSE {offline}
  /\ UNCHANGED <<job, target, readOnly, destructive, cancel, proof, unsure, mishap>>

\* Mutant: a target that cannot be put offline is not spoken of.
ReprotectSilently ==
  /\ at \in {"reprotect", "workflowFailed"}
  /\ \/ destructive /\ \E done \in BOOLEAN : SetOffline(TRUE, done)
     \/ ~destructive /\ UNCHANGED offline
  /\ Goto(IF at = "reprotect" THEN "workflowFailed" ELSE "ended")
  /\ UNCHANGED <<job, target, readOnly, destructive, cancel, proof, unsure, mishap>>

\* append_offline_failure, in the callback and once more after the workflow.
Reprotect ==
  /\ at \in {"reprotect", "workflowFailed"}
  /\ \/ destructive /\ \E done \in BOOLEAN : Protect(done)
     \/ ~destructive /\ UNCHANGED <<offline, unsure>>
  /\ Goto(IF at = "reprotect" THEN "workflowFailed" ELSE "ended")
  /\ UNCHANGED <<job, target, readOnly, destructive, cancel, proof, mishap>>

-------------------------------------------------------------------------------
(* The end of the WinPE route.                                                *)

Undo(done) == IF job.wasReadOnly THEN UNCHANGED <<readOnly, mishap>>
              ELSE SetReadOnly(FALSE, done)

\* restore, whose failure is the failure of the clone.
RestoreSource ==
  /\ at = "restore"
  /\ \/ Undo(TRUE) /\ End("completed")
     \/ ~job.wasReadOnly /\ Undo(FALSE) /\ at' = "drop" /\ outcome' = "failed"
  /\ UNCHANGED <<job, target, offline, destructive, cancel, proof, unsure>>

\* The destructor has nobody to tell.
DropGuard ==
  /\ at = "drop" /\ Goto("ended")
  /\ \E done \in BOOLEAN : Undo(done)
  /\ UNCHANGED <<job, target, offline, destructive, cancel, proof, unsure>>

-------------------------------------------------------------------------------
(* run_operation after the execution.                                         *)

\* validate_clone_report, and the amount and the hash of the evidence.
AcceptEvidence ==
  /\ at = "report"
  /\ \/ evidence' = TRUE /\ Goto("verify")
     \/ UNCHANGED evidence /\ End("failed")
  /\ UNCHANGED <<job, disks, destructive, cancel, verdict, unsure, mishap>>

\* Mutant: the cancellation is looked at once more.
VerifyUnlessCancelled ==
  /\ at = "verify"
  /\ \/ cancel /\ UNCHANGED verdict /\ End("cancelled")
     \/ ~cancel /\ \/ verdict' = "good" /\ End("completed")
                   \/ verdict' = "bad" /\ End("failed")
  /\ UNCHANGED <<job, disks, destructive, cancel, evidence, unsure, mishap>>

Verify ==
  /\ at = "verify"
  /\ \/ verdict' = "good" /\ End("completed")
     \/ verdict' = "bad" /\ End("failed")
  /\ UNCHANGED <<job, disks, destructive, cancel, evidence, unsure, mishap>>

-------------------------------------------------------------------------------
Run == CheckPlan \/ Reidentify \/ Confirm \/ AcceptEvidence \/ Verify
Copy == PrepareCopy \/ TakeOffline \/ OpenTarget \/ WriteTarget \/ FinishEngine
        \/ BringOnline \/ FinalizeBoot \/ OfflineAgain \/ CompletionPoll
        \/ FinishWorkflow \/ Throw \/ Reprotect
Source == GuardSource \/ OpenSource \/ RestoreSource \/ DropGuard

Next == RequestCancel \/ Run \/ Copy \/ Source

Spec == Init /\ [][Next]_vars

-------------------------------------------------------------------------------
(* Properties.                                                                *)

\* The types, and that the engine is given an offline target only.
TypeOK ==
  /\ job \in Jobs /\ at \in Locations
  /\ target \in Contents /\ offline \in BOOLEAN /\ readOnly \in BOOLEAN
  /\ destructive \in BOOLEAN /\ cancel \in BOOLEAN
  /\ evidence \in BOOLEAN /\ verdict \in {"none", "good", "bad"}
  /\ unsure \in BOOLEAN /\ mishap \in BOOLEAN /\ outcome \in Outcomes
  /\ at \in {"open", "engine", "writing"} => offline

\* A target with part of the data is offline when the clone is over, and on the
\* Windows route every target that was written to is, unless the error says that
\* this could not be made sure of; a clone that succeeded makes no exception.
TargetProtected ==
  at = "ended" /\ (target = "partial" \/ (Windows /\ target # "untouched")) =>
    offline \/ (unsure /\ outcome # "completed")

\* What is to be on the target of a clone that succeeds.
Whole == target = IF job.boot THEN "bootable" ELSE "cloned"

\* A cancellation that comes after the write boundary skips no verification, and
\* nothing counts as a clone that is not whole and was not found good.
MandatoryVerification ==
  at = "ended" =>
    /\ evidence => verdict # "none" /\ outcome # "cancelled"
    /\ outcome = "completed" => Whole /\ (Windows => evidence /\ verdict = "good")

\* While WinPE writes, the source is read-only, and afterwards it is as it was
\* before, unless a change of the attribute failed; then the clone failed too, or
\* failed before.
SourceGuarded ==
  ~Windows =>
    /\ at \in {"engine", "writing"} => readOnly
    /\ at = "ended" =>
         \/ readOnly = job.wasReadOnly
         \/ mishap /\ outcome # "completed"

\* What docs/safety-model.md asks for on every route: a clone that did not come to
\* its end leaves no target in ordinary use.
UnfinishedTargetProtected ==
  at = "ended" /\ outcome # "completed" /\ target # "untouched" /\ ~Whole =>
    offline \/ unsure
==============================================================================
