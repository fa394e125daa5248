-------------------------- MODULE CloneTarget_proofs --------------------------
(* Proofs about CloneTarget: for every job, every order of failures and every *)
(* moment of a cancellation.  The control is finite, but the proofs say why   *)
(* the properties hold: what is known of the target, of the two attributes    *)
(* and of the evidence at each call.                                          *)
EXTENDS CloneTarget, Naturals, TLAPS

-------------------------------------------------------------------------------
(* The inductive invariant.                                                   *)

OnlyWindows == {"plan", "reidentify", "confirm", "prepare", "poll", "workflow",
                "reprotect", "workflowFailed", "report", "verify"}
OnlyWinPE == {"guard", "openSource", "restore", "drop"}
BeforeWrite == {"plan", "reidentify", "confirm", "prepare", "guard", "openSource",
                "takeOffline", "open", "engine"}
AfterCopy == {"poll", "workflow", "report", "verify"}
Failing == {"reprotect", "workflowFailed", "drop"}

\* The two routes share only the calls around the engine.
Routes ==
  /\ Windows => at \notin OnlyWinPE /\ job.keep /\ ~job.wasReadOnly
  /\ ~Windows => at \notin OnlyWindows
  /\ at \in {"online", "boot"} => job.boot \/ ~job.keep
  /\ at = "boot" => job.boot

\* Which ends are possible where.
Ends ==
  /\ at \in Failing => outcome \in {"failed", "cancelled"}
  /\ at \notin Failing \cup {"offlineAgain", "ended"} => outcome = "none"
  /\ outcome = "completed" => at = "ended"

\* What has been written when.
Written ==
  /\ at \in BeforeWrite => target = "untouched"
  /\ at = "writing" => target = "partial"
  /\ at \in {"online", "boot"} => target = "cloned"
  /\ at \in AfterCopy \cup {"restore"} => Whole
  /\ at = "offlineAgain" /\ outcome = "none" => Whole
  /\ at = "ended" /\ outcome = "completed" => Whole

\* Who answers for a target that was written to.
Protected ==
  /\ destructive => Windows
  /\ Windows /\ at \in {"open", "engine"} => destructive
  /\ Windows /\ target # "untouched" => destructive
  /\ at \in AfterCopy => offline
  /\ ~Windows /\ target = "partial" =>
       offline /\ at \in {"writing", "drop", "ended"}

\* What is known of the evidence.
Evidence ==
  /\ evidence => at \in {"verify", "ended"}
  /\ at = "verify" => evidence
  /\ at # "ended" => verdict = "none"

\* The source under its guard.
Guarded ==
  ~Windows =>
    /\ job.wasReadOnly => readOnly
    /\ at = "guard" => readOnly = job.wasReadOnly
    /\ at \notin {"guard", "drop", "ended"} => readOnly

IInv ==
  /\ TypeOK /\ Routes /\ Ends /\ Written /\ Protected /\ Evidence /\ Guarded
  /\ TargetProtected /\ MandatoryVerification /\ SourceGuarded

-------------------------------------------------------------------------------
LEMMA JobFacts ==
  ASSUME job \in Jobs
  PROVE  /\ job.route \in {"windows", "winpe"} /\ job.boot \in BOOLEAN
         /\ job.keep \in BOOLEAN /\ job.vss \in BOOLEAN /\ job.wasReadOnly \in BOOLEAN
         /\ Windows => job.keep /\ ~job.wasReadOnly
         /\ ~Windows => ~job.vss
  BY DEF Jobs, Windows

LEMMA InitIInv == Init => IInv
<1> SUFFICES ASSUME Init PROVE IInv
  OBVIOUS
<1>1. /\ at \in {"plan", "guard"} /\ (at = "plan" <=> Windows)
      /\ job \in Jobs
  BY DEF Init, Windows
<1>2. TypeOK
  BY <1>1, JobFacts DEF Init, TypeOK, Locations, Contents, Outcomes
<1>3. Routes /\ Ends /\ Written
  BY <1>1, JobFacts DEF Init, Routes, Ends, Written, OnlyWindows, OnlyWinPE, Failing,
     BeforeWrite, AfterCopy
<1>4. Protected /\ Evidence /\ Guarded
  BY <1>1, JobFacts DEF Init, Protected, Evidence, Guarded, AfterCopy
<1>5. TargetProtected /\ MandatoryVerification /\ SourceGuarded
  BY <1>1 DEF Init, TargetProtected, MandatoryVerification, SourceGuarded
<1> QED
  BY <1>2, <1>3, <1>4, <1>5 DEF IInv

-------------------------------------------------------------------------------
LEMMA StepIInv == IInv /\ [Next]_vars => IInv'
<1> SUFFICES ASSUME IInv, [Next]_vars PROVE IInv'
  OBVIOUS
<1> USE JobFacts
<1> USE DEF IInv, TypeOK, Routes, Ends, Written, Protected, Evidence, Guarded,
        TargetProtected, MandatoryVerification, SourceGuarded, OnlyWindows, OnlyWinPE,
        BeforeWrite, AfterCopy, Failing, Whole, Windows, Locations, Contents, Outcomes
<1>1. CASE RequestCancel
  <2>1. cancel' = TRUE /\ UNCHANGED <<job, at, target, offline, readOnly, destructive, evidence,
                                     verdict, unsure, mishap, outcome>>
    BY <1>1 DEF RequestCancel, disks, proof
  <2> QED
    BY <2>1
<1>2. CASE CheckPlan
  BY <1>2 DEF CheckPlan, Operation, disks, proof
<1>3. CASE Reidentify
  BY <1>3 DEF Reidentify, Operation, disks, proof
<1>4. CASE Confirm
  BY <1>4 DEF Confirm, Operation, disks, proof
<1>5. CASE AcceptEvidence
  <2>1. /\ at = "report" /\ ~(at' = "ended" /\ outcome' = "completed")
        /\ \/ at' = "verify" /\ evidence' = TRUE /\ outcome' = outcome
           \/ at' = "ended" /\ evidence' = evidence /\ outcome' = "failed"
        /\ UNCHANGED <<job, target, offline, readOnly, destructive, cancel, verdict, unsure,
                       mishap>>
    BY <1>5 DEF AcceptEvidence, disks, Goto, End
  <2>2. Windows /\ Whole /\ offline /\ outcome = "none" /\ ~evidence
    <3>1. at \in AfterCopy /\ at \notin Failing /\ at \in OnlyWindows /\ at # "verify"
      BY <2>1
    <3> QED
      BY <2>1, <3>1
  <2>3. TypeOK' /\ Routes' /\ Ends'
    <3>1. CASE at' = "verify"
      BY <2>1, <2>2, <3>1
    <3>2. CASE at' = "ended"
      BY <2>1, <2>2, <3>2
    <3> QED
      BY <2>1, <3>1, <3>2
  <2>4. Written' /\ Protected' /\ Evidence' /\ Guarded'
    BY <2>1, <2>2
  <2>5. TargetProtected' /\ MandatoryVerification' /\ SourceGuarded'
    BY <2>1, <2>2
  <2> QED
    BY <2>3, <2>4, <2>5
<1>6. CASE Verify
  BY <1>6 DEF Verify, disks, End
<1>7. CASE PrepareCopy
  BY <1>7 DEF PrepareCopy, disks, proof, Goto, Stop, Fail
<1>8. CASE TakeOffline
  <2>1. CASE SetOffline(TRUE, TRUE) /\ Goto("open") /\ destructive' = Windows
    BY <1>8, <2>1 DEF TakeOffline, proof, Goto, SetOffline
  <2>2. CASE SetOffline(TRUE, FALSE) /\ Fail(AfterFailure("workflowFailed"))
             /\ UNCHANGED destructive
    <3>1. /\ at' = IF Windows THEN "workflowFailed" ELSE "drop"
          /\ outcome' = "failed" /\ offline' \in BOOLEAN
      BY <2>2 DEF SetOffline, Fail, AfterFailure
    <3> QED
      BY <1>8, <2>2, <3>1 DEF TakeOffline, proof
  <2> QED
    BY <1>8, <2>1, <2>2 DEF TakeOffline
<1>9. CASE OpenTarget
  BY <1>9 DEF OpenTarget, disks, proof, Goto, Fail, AfterFailure
<1>10. CASE WriteTarget
  BY <1>10 DEF WriteTarget, proof, Goto, Stop, AfterFailure, Fail
<1>11. CASE FinishEngine
  <2>1. CASE target' = "cloned" /\ Goto(AfterEngine)
    BY <1>11, <2>1 DEF FinishEngine, proof, Goto, AfterEngine
  <2>2. CASE target' \in {"partial", "cloned"} /\ Stop(AfterFailure("reprotect"))
    <3>1. /\ at' = IF Windows THEN "reprotect" ELSE "drop"
          /\ outcome' \in {"failed", "cancelled"}
      BY <2>2 DEF Stop, Fail, AfterFailure
    <3> QED
      BY <1>11, <2>2, <3>1 DEF FinishEngine, proof
  <2> QED
    BY <1>11, <2>1, <2>2 DEF FinishEngine
<1>12. CASE BringOnline
  <2>1. /\ at = "online"
        /\ UNCHANGED <<job, target, readOnly, destructive, cancel, evidence, verdict, unsure,
                       mishap>>
    BY <1>12 DEF BringOnline, proof
  <2>2. CASE SetOffline(FALSE, TRUE) /\ Goto(IF job.boot THEN "boot" ELSE "restore")
    <3>1. /\ offline' = FALSE /\ outcome' = outcome
          /\ at' = IF job.boot THEN "boot" ELSE "restore"
      BY <2>2 DEF SetOffline, Goto
    <3>2. TypeOK' /\ Routes' /\ Ends' /\ Written'
      BY <2>1, <3>1
    <3>3. Protected' /\ Evidence' /\ Guarded'
      BY <2>1, <3>1
    <3> QED
      BY <2>1, <3>1, <3>2, <3>3
  <2>3. CASE SetOffline(FALSE, FALSE) /\ Fail(AfterFailure("reprotect"))
    <3>1. /\ offline' \in BOOLEAN /\ outcome' = "failed"
          /\ at' = IF Windows THEN "reprotect" ELSE "drop"
      BY <2>3 DEF SetOffline, Fail, AfterFailure
    <3>2. TypeOK' /\ Routes' /\ Ends' /\ Written'
      BY <2>1, <3>1
    <3>3. Protected' /\ Evidence' /\ Guarded'
      BY <2>1, <3>1
    <3> QED
      BY <2>1, <3>1, <3>2, <3>3
  <2> QED
    BY <1>12, <2>2, <2>3 DEF BringOnline
<1>13. CASE FinalizeBoot
  BY <1>13 DEF FinalizeBoot, proof, Goto, Stop, Fail
<1>14. CASE OfflineAgain
  <2>1. PICK done \in BOOLEAN :
          /\ Protect(done)
          /\ \/ done /\ outcome = "none" /\ Goto(IF Windows THEN "poll" ELSE "restore")
             \/ ~done /\ outcome = "none"
                /\ at' = AfterFailure("workflowFailed") /\ outcome' = "failed"
             \/ outcome # "none" /\ Goto(AfterFailure("workflowFailed"))
    BY <1>14 DEF OfflineAgain
  <2>2. /\ at = "offlineAgain"
        /\ UNCHANGED <<job, target, readOnly, destructive, cancel, evidence, verdict, mishap>>
    BY <1>14 DEF OfflineAgain, proof
  <2>3. offline' \in BOOLEAN /\ unsure' \in BOOLEAN /\ (done => offline')
    BY <2>1 DEF Protect, SetOffline
  <2>4. CASE done /\ outcome = "none"
    BY <2>1, <2>2, <2>3, <2>4 DEF Goto
  <2>5. CASE ~(done /\ outcome = "none")
    <3>1. /\ at' = IF Windows THEN "workflowFailed" ELSE "drop"
          /\ outcome' \in {"failed", "cancelled"}
      BY <2>1, <2>2, <2>5 DEF Goto, AfterFailure
    <3> QED
      BY <2>2, <2>3, <3>1
  <2> QED
    BY <2>4, <2>5
<1>15. CASE CompletionPoll
  BY <1>15 DEF CompletionPoll, disks, proof, Goto, Stop, Fail
<1>16. CASE FinishWorkflow
  BY <1>16 DEF FinishWorkflow, disks, proof, Goto, Stop, Fail
<1>17. CASE Throw
  <2>1. /\ Windows /\ outcome' = "failed" /\ offline' \in BOOLEAN
        /\ at' = IF destructive THEN "reprotect" ELSE "workflowFailed"
        /\ UNCHANGED <<job, target, readOnly, destructive, cancel, evidence, verdict,
                       unsure, mishap>>
    BY <1>17 DEF Throw, proof
  <2>2. TypeOK' /\ Routes' /\ Ends'
    BY <2>1
  <2>3. ~evidence /\ verdict = "none"
    BY <1>17 DEF Throw
  <2> QED
    BY <2>1, <2>2, <2>3
<1>18. CASE Reprotect
  <2>1. /\ at \in {"reprotect", "workflowFailed"} /\ outcome' = outcome
        /\ at' = IF at = "reprotect" THEN "workflowFailed" ELSE "ended"
        /\ UNCHANGED <<job, target, readOnly, destructive, cancel, evidence, verdict, mishap>>
    BY <1>18 DEF Reprotect, proof, Goto
  <2>2. /\ offline' \in BOOLEAN /\ unsure' \in BOOLEAN
        /\ destructive => offline' \/ unsure'
    <3>1. CASE destructive /\ \E done \in BOOLEAN : Protect(done)
      BY <3>1 DEF Protect, SetOffline
    <3>2. CASE ~destructive /\ UNCHANGED <<offline, unsure>>
      BY <3>2
    <3> QED
      BY <1>18, <3>1, <3>2 DEF Reprotect
  <2>3. Windows /\ outcome \in {"failed", "cancelled"} /\ ~evidence /\ verdict = "none"
    BY <2>1
  <2>4. TypeOK' /\ Routes' /\ Ends'
    BY <2>1, <2>2, <2>3
  <2>5. Written' /\ Protected' /\ Evidence' /\ Guarded'
    BY <2>1, <2>2, <2>3
  <2>6. TargetProtected' /\ MandatoryVerification' /\ SourceGuarded'
    BY <2>1, <2>2, <2>3
  <2> QED
    BY <2>4, <2>5, <2>6
<1>19. CASE GuardSource
  <2>1. /\ at = "guard"
        /\ UNCHANGED <<job, target, offline, destructive, cancel, evidence, verdict, unsure>>
    BY <1>19 DEF GuardSource, proof
  <2>2. \/ at' = "openSource" /\ outcome' = outcome /\ readOnly' = TRUE /\ mishap' = mishap
        \/ /\ at' = "ended" /\ outcome' = "failed" /\ mishap' \in BOOLEAN
           /\ readOnly' \in BOOLEAN /\ (job.wasReadOnly => readOnly')
           /\ readOnly' = job.wasReadOnly \/ mishap'
    BY <1>19, <2>1 DEF GuardSource, Goto, End, SetReadOnly
  <2>3. /\ ~Windows /\ target = "untouched" /\ outcome = "none" /\ ~evidence
        /\ verdict = "none"
    BY <2>1
  <2>4. TypeOK' /\ Routes' /\ Ends'
    BY <2>1, <2>2, <2>3
  <2>5. Written' /\ Protected' /\ Evidence' /\ Guarded'
    BY <2>1, <2>2, <2>3
  <2>6. TargetProtected' /\ MandatoryVerification' /\ SourceGuarded'
    BY <2>1, <2>2, <2>3
  <2> QED
    BY <2>4, <2>5, <2>6
<1>20. CASE OpenSource
  BY <1>20 DEF OpenSource, disks, proof, Goto, Fail
<1>21. CASE RestoreSource
  <2>1. /\ at = "restore"
        /\ UNCHANGED <<job, target, offline, destructive, cancel, evidence, verdict, unsure>>
    BY <1>21 DEF RestoreSource, proof
  <2>2. ~Windows /\ Whole /\ readOnly /\ outcome = "none" /\ ~evidence /\ verdict = "none"
    BY <2>1
  <2>3. CASE Undo(TRUE) /\ End("completed")
    <3>1. /\ at' = "ended" /\ outcome' = "completed" /\ readOnly' = job.wasReadOnly
          /\ mishap' = mishap
      BY <2>2, <2>3 DEF Undo, End, SetReadOnly
    <3>2. TypeOK' /\ Routes' /\ Ends' /\ Written'
      BY <2>1, <2>2, <3>1
    <3>3. Protected' /\ Evidence' /\ Guarded'
      BY <2>1, <2>2, <3>1
    <3>4. TargetProtected' /\ MandatoryVerification' /\ SourceGuarded'
      BY <2>1, <2>2, <3>1
    <3> QED
      BY <3>2, <3>3, <3>4
  <2>4. CASE ~job.wasReadOnly /\ Undo(FALSE) /\ at' = "drop" /\ outcome' = "failed"
    <3>1. readOnly' \in BOOLEAN /\ mishap' = TRUE
      BY <2>2, <2>4 DEF Undo, SetReadOnly
    <3>2. TypeOK' /\ Routes' /\ Ends' /\ Written'
      BY <2>1, <2>2, <2>4, <3>1
    <3>3. Protected' /\ Evidence' /\ Guarded'
      BY <2>1, <2>2, <2>4, <3>1
    <3> QED
      BY <2>1, <2>4, <3>2, <3>3
  <2> QED
    BY <1>21, <2>3, <2>4 DEF RestoreSource
<1>22. CASE DropGuard
  <2>1. /\ at = "drop" /\ at' = "ended" /\ outcome' = outcome
        /\ UNCHANGED <<job, target, offline, destructive, cancel, evidence, verdict, unsure>>
    BY <1>22 DEF DropGuard, proof, Goto
  <2>2. /\ ~Windows /\ outcome \in {"failed", "cancelled"} /\ ~evidence /\ verdict = "none"
        /\ (target = "partial" => offline)
    BY <2>1
  <2>3. /\ readOnly' \in BOOLEAN /\ mishap' \in BOOLEAN
        /\ (job.wasReadOnly => readOnly') /\ (readOnly' = job.wasReadOnly \/ mishap')
    BY <1>22, <2>1, <2>2 DEF DropGuard, Undo, SetReadOnly
  <2>4. TypeOK' /\ Routes' /\ Ends' /\ Written'
    BY <2>1, <2>2, <2>3
  <2>5. Protected' /\ Evidence' /\ Guarded'
    BY <2>1, <2>2, <2>3
  <2>6. TargetProtected' /\ MandatoryVerification' /\ SourceGuarded'
    BY <2>1, <2>2, <2>3
  <2> QED
    BY <2>4, <2>5, <2>6
<1>23. CASE UNCHANGED vars
  BY <1>23 DEF vars, disks, proof
<1> QED
  BY <1>1, <1>2, <1>3, <1>4, <1>5, <1>6, <1>7, <1>8, <1>9, <1>10, <1>11, <1>12,
     <1>13, <1>14, <1>15, <1>16, <1>17, <1>18, <1>19, <1>20, <1>21, <1>22, <1>23
     DEF Next, Run, Copy, Source

-------------------------------------------------------------------------------
(* The results.                                                               *)

\* IInv is an invariant of both routes.
THEOREM Invariant == Spec => []IInv
<1>1. IInv /\ [Next]_vars => IInv'
  BY StepIInv
<1> QED
  BY <1>1, InitIInv, PTL DEF Spec

\* Every reachable state has its type, and the engine is given an offline
\* target only.
THEOREM TypeCorrect == Spec => []TypeOK
<1>1. IInv => TypeOK
  BY DEF IInv
<1> QED
  BY <1>1, Invariant, PTL

\* When a clone is over, a target with part of the data is offline, on the Windows
\* route every target that was written to, unless the error says otherwise.
THEOREM TargetIsProtected == Spec => []TargetProtected
<1>1. IInv => TargetProtected
  BY DEF IInv
<1> QED
  BY <1>1, Invariant, PTL

\* No cancellation skips the verification, and only a whole and verified clone
\* counts as completed.
THEOREM VerificationIsMandatory == Spec => []MandatoryVerification
<1>1. IInv => MandatoryVerification
  BY DEF IInv
<1> QED
  BY <1>1, Invariant, PTL

\* While WinPE writes, the source is read-only; it ends as it was, or the clone
\* failed.
THEOREM SourceIsGuarded == Spec => []SourceGuarded
<1>1. IInv => SourceGuarded
  BY DEF IInv
<1> QED
  BY <1>1, Invariant, PTL

-------------------------------------------------------------------------------
(* The promise of docs/safety-model.md, which WinPE does not keep.            *)

WindowsKeepsPromise == Windows => UnfinishedTargetProtected

\* On the Windows route no failure, no cancellation and nothing thrown leaves an
\* unfinished target in ordinary use without an error that says so.
THEOREM PromiseOnWindows == Spec => []WindowsKeepsPromise
<1>1. IInv => WindowsKeepsPromise
  BY DEF IInv, TargetProtected, WindowsKeepsPromise, UnfinishedTargetProtected
<1> QED
  BY <1>1, Invariant, PTL

\* A target with data that is not whole, on its way out or at the end, online, with
\* an error that does not say so.
Exposed ==
  /\ at \in {"drop", "ended"} /\ outcome # "completed"
  /\ target # "untouched" /\ ~Whole /\ ~offline /\ ~unsure

\* There is one call whose failure exposes the target, the temporary online
\* transition of the WinPE service before its boot files are made.
ExposedByOneCall ==
  [][~Exposed /\ Exposed' => BringOnline /\ ~Windows /\ job.boot /\ target = "cloned"]_vars

LEMMA ExposedStep ==
  ASSUME IInv, Next, ~Exposed, Exposed'
  PROVE  BringOnline /\ ~Windows /\ job.boot /\ target = "cloned"
<1> USE JobFacts
<1> USE DEF IInv, TypeOK, Routes, Ends, Written, Protected, Exposed, BeforeWrite,
        OnlyWindows, OnlyWinPE, AfterCopy, Failing, Whole, Windows, disks, proof
<1>1. CASE RequestCancel
  BY <1>1 DEF RequestCancel
<1>2. CASE CheckPlan \/ Reidentify \/ Confirm
  BY <1>2 DEF CheckPlan, Reidentify, Confirm, Operation
<1>3. CASE AcceptEvidence
  <2>1. UNCHANGED <<job, target>> /\ Whole
    BY <1>3 DEF AcceptEvidence
  <2> QED
    BY <2>1
<1>4. CASE Verify
  <2>1. UNCHANGED <<job, target>> /\ Whole
    BY <1>4 DEF Verify
  <2> QED
    BY <2>1
<1>5. CASE GuardSource \/ OpenSource
  BY <1>5 DEF GuardSource, OpenSource, End, Fail, Goto
<1>6. CASE RestoreSource
  <2>1. UNCHANGED <<job, target>> /\ Whole
    BY <1>6 DEF RestoreSource
  <2> QED
    BY <2>1
<1>7. CASE DropGuard
  BY <1>7 DEF DropGuard, Goto
<1>8. CASE PrepareCopy \/ CompletionPoll \/ FinishWorkflow
  BY <1>8 DEF PrepareCopy, CompletionPoll, FinishWorkflow, Goto, Stop, Fail
<1>9. CASE TakeOffline \/ OpenTarget
  BY <1>9 DEF TakeOffline, OpenTarget, Goto, Fail
<1>10. CASE WriteTarget
  BY <1>10 DEF WriteTarget, Goto, Stop, Fail
<1>11. CASE FinishEngine
  <2>1. offline' = TRUE
    BY <1>11 DEF FinishEngine
  <2> QED
    BY <2>1
<1>12. CASE BringOnline
  <2>1. target = "cloned" /\ at = "online" /\ UNCHANGED <<job, target>>
    BY <1>12 DEF BringOnline
  <2>2. job.boot /\ ~Windows
    <3>1. at' = AfterFailure("reprotect")
      BY <1>12 DEF BringOnline, Goto, Fail
    <3> QED
      BY <2>1, <3>1 DEF AfterFailure
  <2> QED
    BY <1>12, <2>1, <2>2
<1>13. CASE FinalizeBoot
  BY <1>13 DEF FinalizeBoot, Goto, Stop, Fail
<1>14. CASE OfflineAgain
  <2>1. offline' \/ unsure'
    BY <1>14 DEF OfflineAgain, Protect, SetOffline
  <2> QED
    BY <2>1
<1>15. CASE Throw
  BY <1>15 DEF Throw
<1>16. CASE Reprotect
  <2>1. UNCHANGED <<target, destructive, job>> /\ at' \in {"workflowFailed", "ended"}
    BY <1>16 DEF Reprotect, Goto
  <2>2. destructive => offline' \/ unsure'
    BY <1>16 DEF Reprotect, Protect, SetOffline
  <2>3. Windows
    BY <1>16 DEF Reprotect
  <2> QED
    BY <2>1, <2>2, <2>3
<1> QED
  BY <1>1, <1>2, <1>3, <1>4, <1>5, <1>6, <1>7, <1>8, <1>9, <1>10, <1>11, <1>12,
     <1>13, <1>14, <1>15, <1>16 DEF Next, Run, Copy, Source

\* clone_execution_service.cpp:477 is the only place where docs/safety-model.md:105
\* is not kept, and only when the boot files were still to be made.
THEOREM OneCallExposes == Spec => ExposedByOneCall
<1>1. IInv /\ [Next]_vars =>
        [~Exposed /\ Exposed' => BringOnline /\ ~Windows /\ job.boot /\ target = "cloned"]_vars
  BY ExposedStep
<1> QED
  BY <1>1, Invariant, PTL DEF Spec, ExposedByOneCall

-------------------------------------------------------------------------------
(* How long a clone lasts.                                                    *)

Ahead ==
  [plan |-> 19, reidentify |-> 18, confirm |-> 17, prepare |-> 16, guard |-> 17,
   openSource |-> 16, takeOffline |-> 15, open |-> 14, engine |-> 13, writing |-> 12,
   online |-> 11, boot |-> 10, offlineAgain |-> 9, poll |-> 8, workflow |-> 7,
   report |-> 6, verify |-> 5, reprotect |-> 4, workflowFailed |-> 3, restore |-> 2,
   drop |-> 1, ended |-> 0]

\* Neither a failure nor what is done about it leads back to an earlier call: a
\* clone is over after at most 19 calls, whichever of them fail.
CloneAdvances == [][Run \/ Copy \/ Source => Ahead[at'] < Ahead[at]]_vars

\* No path through the error handling of run_operation, the workflow and the two
\* services is a loop.
THEOREM ClonesEnd == Spec => CloneAdvances
<1>1. ASSUME IInv, Run \/ Copy \/ Source PROVE Ahead[at'] < Ahead[at]
  <2>1. CASE Run
    <3>1. \/ at = "plan" /\ at' \in {"reidentify", "ended"}
          \/ at = "reidentify" /\ at' \in {"confirm", "ended"}
          \/ at = "confirm" /\ at' \in {"prepare", "ended"}
          \/ at = "report" /\ at' \in {"verify", "ended"}
          \/ at = "verify" /\ at' = "ended"
      BY <2>1 DEF Run, CheckPlan, Reidentify, Confirm, Operation, AcceptEvidence, Verify, Goto, End
    <3> QED
      BY <3>1 DEF Ahead
  <2>2. CASE Source
    <3>1. \/ at = "guard" /\ at' \in {"openSource", "ended"}
          \/ at = "openSource" /\ at' \in {"takeOffline", "drop"}
          \/ at = "restore" /\ at' \in {"drop", "ended"}
          \/ at = "drop" /\ at' = "ended"
      BY <2>2 DEF Source, GuardSource, OpenSource, RestoreSource, DropGuard, Goto, Fail, End
    <3> QED
      BY <3>1 DEF Ahead
  <2>3. CASE PrepareCopy
    <3>1. at = "prepare" /\ at' \in {"takeOffline", "workflowFailed"}
      BY <2>3 DEF PrepareCopy, Goto, Stop, Fail
    <3> QED
      BY <3>1 DEF Ahead
  <2>4. CASE TakeOffline
    <3>1. at = "takeOffline" /\ at' \in {"open", "workflowFailed", "drop"}
      BY <2>4 DEF TakeOffline, Goto, Fail, AfterFailure, SetOffline
    <3> QED
      BY <3>1 DEF Ahead
  <2>5. CASE OpenTarget
    <3>1. at = "open" /\ at' \in {"engine", "reprotect", "drop"}
      BY <2>5 DEF OpenTarget, Goto, Fail, AfterFailure
    <3> QED
      BY <3>1 DEF Ahead
  <2>6. CASE WriteTarget
    <3>1. at = "engine" /\ at' \in {"writing", "reprotect", "drop"}
      BY <2>6 DEF WriteTarget, Goto, Stop, Fail, AfterFailure
    <3> QED
      BY <3>1 DEF Ahead
  <2>7. CASE FinishEngine
    <3>1. /\ at = "writing"
          /\ at' \in {"online", "offlineAgain", "restore", "reprotect", "drop"}
      BY <2>7 DEF FinishEngine, AfterEngine, Goto, Stop, Fail, AfterFailure
    <3> QED
      BY <3>1 DEF Ahead
  <2>8. CASE BringOnline
    <3>1. at = "online" /\ at' \in {"boot", "restore", "reprotect", "drop"}
      BY <2>8 DEF BringOnline, Goto, Fail, AfterFailure
    <3> QED
      BY <3>1 DEF Ahead
  <2>9. CASE FinalizeBoot
    <3>1. at = "boot" /\ at' \in {"offlineAgain", "restore"}
      BY <2>9 DEF FinalizeBoot, Goto, Stop, Fail
    <3> QED
      BY <3>1 DEF Ahead
  <2>10. CASE OfflineAgain
    <3>1. at = "offlineAgain" /\ at' \in {"poll", "restore", "workflowFailed", "drop"}
      BY <2>10 DEF OfflineAgain, Goto, AfterFailure
    <3> QED
      BY <3>1 DEF Ahead
  <2>11. CASE CompletionPoll
    <3>1. at = "poll" /\ at' \in {"workflow", "workflowFailed"}
      BY <2>11 DEF CompletionPoll, Goto, Stop, Fail
    <3> QED
      BY <3>1 DEF Ahead
  <2>12. CASE FinishWorkflow
    <3>1. at = "workflow" /\ at' \in {"report", "workflowFailed"}
      BY <2>12 DEF FinishWorkflow, Goto, Stop, Fail
    <3> QED
      BY <3>1 DEF Ahead
  <2>13. CASE Throw
    <3>1. /\ at \in {"prepare", "takeOffline", "open", "engine", "writing", "online",
                    "boot", "offlineAgain", "poll"}
          /\ at' \in {"reprotect", "workflowFailed"}
      BY <2>13 DEF Throw
    <3> QED
      BY <3>1 DEF Ahead
  <2>14. CASE Reprotect
    <3>1. \/ at = "reprotect" /\ at' = "workflowFailed"
          \/ at = "workflowFailed" /\ at' = "ended"
      BY <2>14 DEF Reprotect, Goto
    <3> QED
      BY <3>1 DEF Ahead
  <2> QED
    BY <1>1, <2>1, <2>2, <2>3, <2>4, <2>5, <2>6, <2>7, <2>8, <2>9, <2>10, <2>11, <2>12, <2>13, <2>14
    DEF Copy
<1>2. IInv /\ [Next]_vars => [Run \/ Copy \/ Source => Ahead[at'] < Ahead[at]]_vars
  BY <1>1
<1> QED
  BY <1>2, Invariant, PTL DEF Spec, CloneAdvances

==============================================================================
