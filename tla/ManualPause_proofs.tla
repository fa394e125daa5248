-------------------------- MODULE ManualPause_proofs --------------------------
(* Theorems about ManualPause for any number of chunks and clicks.            *)
EXTENDS ManualPause, TLAPS

\* What the worker's place says about the run: it is at a boundary only after
\* a report that allows a pause, nothing is completed before it returns, and no
\* pause is offered to a run that is ending.
WorkerPlace ==
  /\ worker \in {"boundary", "enter", "wait"} => pausable
  /\ worker = "copying" => chunks < MaxChunks
  /\ state = "completed" => worker \in {"returning", "done"}
  /\ state \in Ended => ~available

\* The inductive invariant.
IInv == /\ TypeOK /\ PausedAtBoundary /\ NoPauseWhenNotPausable
        /\ ButtonNeverReversed /\ WorkerPlace

\* An announcement is a state with its availability.
LEMMA NotifyType ==
  ASSUME TypeOK, NEW t \in Threads, state' \in States, available' \in BOOLEAN,
         Notify(t) \/ UNCHANGED event
  PROVE  event' \in [Threads -> Keys \cup {NoEvent}]
<1>1. <<state', available'>> \in Keys BY DEF Keys
<1>2. event \in [Threads -> Keys \cup {NoEvent}] BY DEF TypeOK
<1>. QED BY <1>1, <1>2 DEF Notify

\* What an operation under the lock may leave behind, whichever thread calls it.
LEMMA ControlType ==
  ASSUME TypeOK, NEW t \in Threads, NEW allowed \in BOOLEAN,
         \/ RequestPause(t) \/ ResumePause(t) \/ RequestCancel(t) \/ MarkCompleted(t)
         \/ ObserveProgress(allowed) /\ t = "worker"
         \/ EnterBoundary /\ t = "worker"
         \/ UNCHANGED control
  PROVE  /\ state' \in States /\ available' \in BOOLEAN /\ boundary' \in 0 .. MaxChunks
         /\ event' \in [Threads -> Keys \cup {NoEvent}]
<1>1. 0 \in 0 .. MaxChunks BY ChunksAssumption
<1>2. state' \in States
  BY DEF TypeOK, States, RequestPause, ResumePause, RequestCancel, MarkCompleted,
     ObserveProgress, EnterBoundary, control
<1>3. available' \in BOOLEAN
  BY DEF TypeOK, RequestPause, ResumePause, RequestCancel, MarkCompleted,
     ObserveProgress, EnterBoundary, control
<1>4. boundary' \in 0 .. MaxChunks
  BY <1>1 DEF TypeOK, RequestPause, ResumePause, RequestCancel, MarkCompleted,
     ObserveProgress, EnterBoundary, control
<1>5. Notify(t) \/ UNCHANGED event
  BY DEF RequestPause, ResumePause, RequestCancel, MarkCompleted, ObserveProgress,
     EnterBoundary, control
<1>. QED BY <1>2, <1>3, <1>4, <1>5, NotifyType

\* Every step keeps the types.
LEMMA TypeNext == ASSUME IInv, [Next]_vars PROVE TypeOK'
<1>. USE ChunksAssumption DEF IInv
<1>0. "worker" \in Threads /\ "ui" \in Threads BY DEF Threads
<1>1. CASE PollCancel
  BY <1>0, <1>1, ControlType DEF PollCancel, Work, TypeOK, screen, uiVars
<1>2. CASE VerifyChunk
  <2>1. chunks' \in 0 .. MaxChunks
    BY <1>2 DEF VerifyChunk, Work, TypeOK, WorkerPlace
  <2>2. ObserveProgress(TRUE) BY <1>2 DEF VerifyChunk
  <2>3. /\ state' \in States /\ available' \in BOOLEAN /\ boundary' \in 0 .. MaxChunks
        /\ event' \in [Threads -> Keys \cup {NoEvent}]
    BY <1>0, <2>2, ControlType
  <2>. QED BY <1>2, <2>1, <2>3 DEF VerifyChunk, Work, TypeOK, screen, uiVars
<1>3. CASE ReportNotPausable
  BY <1>0, <1>3, ControlType DEF ReportNotPausable, Work, TypeOK, screen, uiVars
<1>4. CASE PostProgress
  BY <1>0, <1>4, ControlType DEF PostProgress, Work, TypeOK, uiVars
<1>5. CASE BoundaryProbe
  BY <1>0, <1>5, ControlType DEF BoundaryProbe, Work, TypeOK, screen, uiVars
<1>6. CASE BoundaryLock
  BY <1>0, <1>6, ControlType DEF BoundaryLock, Work, TypeOK, screen, uiVars
<1>7. CASE BoundaryWait
  BY <1>0, <1>7, ControlType DEF BoundaryWait, Work, TypeOK, screen, uiVars
<1>8. CASE EngineReturn
  BY <1>0, <1>8, ControlType DEF EngineReturn, Work, TypeOK, screen, uiVars
<1>9. CASE Finish
  BY <1>0, <1>9, ControlType DEF Finish, Work, TypeOK, screen, uiVars
<1>10. ASSUME NEW t \in Threads, Emit(t) PROVE TypeOK'
  <2>1. event[t] \in Keys BY <1>10 DEF Emit, TypeOK
  <2>2. messages' \in Nat BY <1>10 DEF Emit, TypeOK
  <2>. QED BY <1>10, <2>1, <2>2 DEF Emit, TypeOK, uiVars
<1>11. CASE ClickPause
  BY <1>0, <1>11, ControlType DEF ClickPause, Ui, TypeOK, screen
<1>12. CASE Toggle
  BY <1>0, <1>12, ControlType DEF Toggle, Ui, TypeOK, screen
<1>13. CASE ClickCancel
  BY <1>0, <1>13, ControlType DEF ClickCancel, Ui, TypeOK, screen
<1>14. CASE Cancel
  BY <1>0, <1>14, ControlType DEF Cancel, Ui, TypeOK, screen
<1>15. CASE Refresh
  BY <1>0, <1>15, ControlType DEF Refresh, Ui, TypeOK, Keys
<1>16. CASE HandleMessage
  <2>1. messages' \in Nat BY <1>16 DEF HandleMessage, TypeOK
  <2>. QED BY <1>0, <1>16, <2>1, ControlType DEF HandleMessage, Ui, TypeOK, Keys
<1>17. CASE UNCHANGED vars
  BY <1>17 DEF vars, control, uiVars, screen, TypeOK
<1>. QED BY <1>0, <1>1, <1>2, <1>3, <1>4, <1>5, <1>6, <1>7, <1>8, <1>9, <1>10, <1>11,
       <1>12, <1>13, <1>14, <1>15, <1>16, <1>17
     DEF Next, WorkerStep, UiStep, User

\* Pauses begin at boundaries and stay out of the other intervals; the worker
\* stays where the reports allow it to be.
LEMMA PauseNext ==
  ASSUME IInv, [Next]_vars
  PROVE  PausedAtBoundary' /\ NoPauseWhenNotPausable' /\ WorkerPlace'
<1>. USE DEF IInv, PausedAtBoundary, NoPauseWhenNotPausable, WorkerPlace, Ended
<1>1. CASE PollCancel
  BY <1>1 DEF PollCancel, Work, RequestCancel, control, Notify
<1>2. CASE VerifyChunk
  BY <1>2 DEF VerifyChunk, Work, ObserveProgress, control, Notify
<1>3. CASE ReportNotPausable
  BY <1>3 DEF ReportNotPausable, Work, ObserveProgress, control, Notify, TypeOK, States
<1>4. CASE PostProgress
  BY <1>4 DEF PostProgress, Work, control
<1>5. CASE BoundaryProbe
  BY <1>5 DEF BoundaryProbe, Work, RequestCancel, control, Notify
<1>6. CASE BoundaryLock
  BY <1>6 DEF BoundaryLock, Work, EnterBoundary, control, Notify
<1>7. CASE BoundaryWait
  BY <1>7 DEF BoundaryWait, Work, RequestCancel, control, Notify
<1>8. CASE EngineReturn
  <2>1. CASE MarkCompleted("worker") /\ pausable' = FALSE
    BY <1>8, <2>1 DEF EngineReturn, Work, MarkCompleted
  <2>2. CASE UNCHANGED <<control, pausable>>
    <3>1. state' = state /\ available' = available /\ boundary' = boundary
      BY <2>2 DEF control
    <3>2. pausable' = pausable /\ chunks' = chunks /\ worker = "engine"
          /\ worker' = "returning"
      BY <1>8, <2>2 DEF EngineReturn, Work
    <3>. QED BY <3>1, <3>2
  <2>. QED BY <1>8, <2>1, <2>2 DEF EngineReturn
<1>9. CASE Finish
  BY <1>9 DEF Finish, Work, MarkCompleted, Notify
<1>10. ASSUME NEW t \in Threads, Emit(t)
       PROVE PausedAtBoundary' /\ NoPauseWhenNotPausable' /\ WorkerPlace'
  BY <1>10 DEF Emit
<1>11. CASE ClickPause BY <1>11 DEF ClickPause, Ui, control
<1>12. CASE Toggle
  BY <1>12 DEF Toggle, Ui, RequestPause, ResumePause, control, Notify
<1>13. CASE ClickCancel BY <1>13 DEF ClickCancel, Ui, control
<1>14. CASE Cancel BY <1>14 DEF Cancel, Ui, RequestCancel, control, Notify
<1>15. CASE Refresh BY <1>15 DEF Refresh, Ui, control
<1>16. CASE HandleMessage BY <1>16 DEF HandleMessage, Ui, control
<1>17. CASE UNCHANGED vars BY <1>17 DEF vars, control, uiVars, screen
<1>. QED BY <1>1, <1>2, <1>3, <1>4, <1>5, <1>6, <1>7, <1>8, <1>9, <1>10, <1>11,
       <1>12, <1>13, <1>14, <1>15, <1>16, <1>17
     DEF Next, WorkerStep, UiStep, User, Threads

\* While a click can come, only the worker and the end of the run move the
\* state, and neither turns a running operation into a paused one or back.
LEMMA ButtonNext == ASSUME IInv, [Next]_vars PROVE ButtonNeverReversed'
<1>. USE DEF IInv, ButtonNeverReversed, Ended
<1>1. CASE PollCancel
  BY <1>1 DEF PollCancel, Work, RequestCancel, control, Notify, screen, uiVars
<1>2. CASE VerifyChunk
  BY <1>2 DEF VerifyChunk, Work, ObserveProgress, control, Notify, screen, uiVars
<1>3. CASE ReportNotPausable
  BY <1>3 DEF ReportNotPausable, Work, ObserveProgress, control, Notify, screen, uiVars
<1>4. CASE PostProgress
  BY <1>4 DEF PostProgress, Work, control, uiVars
<1>5. CASE BoundaryProbe
  BY <1>5 DEF BoundaryProbe, Work, RequestCancel, control, Notify, screen, uiVars
<1>6. CASE BoundaryLock
  BY <1>6 DEF BoundaryLock, Work, EnterBoundary, control, Notify, screen, uiVars
<1>7. CASE BoundaryWait
  BY <1>7 DEF BoundaryWait, Work, RequestCancel, control, Notify, screen, uiVars
<1>8. CASE EngineReturn
  BY <1>8 DEF EngineReturn, Work, MarkCompleted, control, Notify, screen, uiVars
<1>9. CASE Finish
  BY <1>9 DEF Finish, Work, MarkCompleted, Notify, screen, uiVars
<1>10. ASSUME NEW t \in Threads, Emit(t) PROVE ButtonNeverReversed'
  BY <1>10 DEF Emit, uiVars
<1>11. CASE ClickPause \/ Toggle \/ ClickCancel \/ Cancel
  BY <1>11 DEF ClickPause, Toggle, ClickCancel, Cancel, Ui
<1>12. CASE Refresh \/ HandleMessage
  BY <1>12 DEF Refresh, HandleMessage, Ui, control
<1>13. CASE UNCHANGED vars BY <1>13 DEF vars, control, uiVars, screen
<1>. QED BY <1>1, <1>2, <1>3, <1>4, <1>5, <1>6, <1>7, <1>8, <1>9, <1>10, <1>11,
       <1>12, <1>13
     DEF Next, WorkerStep, UiStep, User, Threads

\* The invariant holds in every reachable state.
LEMMA Invariance == Spec => []IInv
<1>1. Init => IInv
  <2>. SUFFICES ASSUME Init PROVE IInv OBVIOUS
  <2>1. TypeOK
    <3>1. lastKey \in Keys \cup {NoEvent} /\ event \in [Threads -> Keys \cup {NoEvent}]
      BY DEF Init
    <3>2. button \in Keys BY DEF Init, Keys, States
    <3>3. 0 \in 0 .. MaxChunks /\ 0 \in 0 .. MaxClicks /\ 0 \in Nat
      BY ChunksAssumption
    <3>4. boundary \in 0 .. MaxChunks /\ chunks \in 0 .. MaxChunks
          /\ clicks \in 0 .. MaxClicks /\ messages \in Nat
      BY <3>3 DEF Init
    <3>5. /\ available \in BOOLEAN /\ pausable \in BOOLEAN /\ cancelFlag \in BOOLEAN
          /\ state \in States /\ seen \in States
      BY DEF Init, States
    <3>. QED BY <3>1, <3>2, <3>4, <3>5 DEF Init, TypeOK
  <2>2. PausedAtBoundary /\ NoPauseWhenNotPausable /\ ButtonNeverReversed /\ WorkerPlace
    BY DEF Init, PausedAtBoundary, NoPauseWhenNotPausable, ButtonNeverReversed, WorkerPlace,
       Ended
  <2>. QED BY <2>1, <2>2 DEF IInv
<1>2. IInv /\ [Next]_vars => IInv'
  BY TypeNext, PauseNext, ButtonNext DEF IInv
<1>. QED BY <1>1, <1>2, PTL DEF Spec

\* Every variable keeps its type, the counts their bounds.
THEOREM TypeCorrect == Spec => []TypeOK
BY Invariance, PTL DEF IInv

\* A pause is only ever taken at the boundary of the last verified chunk.
THEOREM PauseAtBoundary == Spec => []PausedAtBoundary
BY Invariance, PTL DEF IInv

\* No pause request is alive where the engine does not allow a pause.
THEOREM NoPauseLeaks == Spec => []NoPauseWhenNotPausable
BY Invariance, PTL DEF IInv

\* No interleaving of announcements makes a click do the opposite of its label.
THEOREM ButtonHonest == Spec => []ButtonNeverReversed
BY Invariance, PTL DEF IInv

\* Neither thread revives a run that is being cancelled or is over.
THEOREM CancelFinal == Spec => CancelIsFinal
<1>1. ASSUME [Next]_vars
      PROVE  /\ state = "cancelling" => state' \in Ended
             /\ state = "completed" => state' = "completed"
  <2>. USE DEF Ended
  <2>1. CASE WorkerStep \/ UiStep
    BY <2>1 DEF WorkerStep, UiStep, PollCancel, VerifyChunk, ReportNotPausable,
       PostProgress, BoundaryProbe, BoundaryLock, BoundaryWait, EngineReturn, Finish,
       Toggle, Cancel, Refresh, HandleMessage, Emit, RequestPause, ResumePause,
       RequestCancel, MarkCompleted, ObserveProgress, EnterBoundary, control
  <2>2. CASE User BY <2>2 DEF User, ClickPause, ClickCancel, control
  <2>3. CASE UNCHANGED vars BY <2>3 DEF vars, control
  <2>. QED BY <1>1, <2>1, <2>2, <2>3 DEF Next
<1>. QED BY <1>1, PTL DEF Spec, CancelIsFinal

\* After a cancellation no further chunk is begun.
THEOREM CopyingStops == Spec => CancelStopsCopying
<1>1. ASSUME IInv, [Next]_vars, worker # "copying", cancelFlag \/ state \in Ended
      PROVE  worker' # "copying" /\ chunks' = chunks
  <2>. USE <1>1 DEF IInv, WorkerPlace, Ended
  <2>1. CASE PollCancel BY <2>1 DEF PollCancel, Work
  <2>2. CASE VerifyChunk BY <2>2 DEF VerifyChunk, Work
  <2>3. CASE \/ ReportNotPausable \/ PostProgress \/ BoundaryProbe \/ BoundaryLock
             \/ BoundaryWait \/ EngineReturn \/ Finish
    BY <2>3 DEF ReportNotPausable, PostProgress, BoundaryProbe, BoundaryLock,
       BoundaryWait, EngineReturn, Finish, Work
  <2>4. CASE UiStep \/ User \/ Emit("worker")
    BY <2>4 DEF UiStep, User, Emit, ClickPause, Toggle, ClickCancel, Cancel, Refresh,
       HandleMessage, Ui
  <2>5. CASE UNCHANGED vars BY <2>5 DEF vars
  <2>. QED BY <2>1, <2>2, <2>3, <2>4, <2>5 DEF Next, WorkerStep
<1>. QED BY <1>1, Invariance, PTL DEF Spec, CancelStopsCopying

-------------------------------------------------------------------------------
(* What a user can do about an operation that waits paused.                   *)

\* What the button and the click in progress were told stays true of the state,
\* but for a pause that the worker has granted meanwhile.
ToldBefore ==
  /\ button[1] \in Ended => state \in Ended
  /\ ui = "toggle" => /\ seen = "running" => state \in Ended \cup {"running"}
                      /\ seen \in Ended => state \in Ended

PInv == IInv /\ ToldBefore

\* The worker takes no run back from its end, and pauses none that runs.
LEMMA WorkerMoves ==
  ASSUME IInv, WorkerStep
  PROVE  /\ state \in Ended => state' \in Ended
         /\ state = "running" => state' \in Ended \cup {"running"}
         /\ button' = button /\ ui' = ui /\ seen' = seen
<1>. USE DEF IInv, Ended
<1>1. CASE PollCancel
  BY <1>1 DEF PollCancel, Work, RequestCancel, control, screen, uiVars
<1>2. CASE VerifyChunk
  BY <1>2 DEF VerifyChunk, Work, ObserveProgress, control, screen, uiVars
<1>3. CASE ReportNotPausable
  BY <1>3 DEF ReportNotPausable, Work, ObserveProgress, control, screen, uiVars
<1>4. CASE PostProgress
  BY <1>4 DEF PostProgress, Work, control, uiVars
<1>5. CASE BoundaryProbe
  BY <1>5 DEF BoundaryProbe, Work, RequestCancel, control, screen, uiVars
<1>6. CASE BoundaryLock
  BY <1>6 DEF BoundaryLock, Work, EnterBoundary, control, screen, uiVars
<1>7. CASE BoundaryWait
  BY <1>7 DEF BoundaryWait, Work, RequestCancel, control, screen, uiVars
<1>8. CASE EngineReturn
  BY <1>8 DEF EngineReturn, Work, MarkCompleted, control, screen, uiVars
<1>9. CASE Finish
  BY <1>9 DEF Finish, Work, MarkCompleted, screen, uiVars
<1>10. CASE Emit("worker")
  BY <1>10 DEF Emit, uiVars
<1>. QED BY <1>1, <1>2, <1>3, <1>4, <1>5, <1>6, <1>7, <1>8, <1>9, <1>10 DEF WorkerStep

LEMMA ToldNext == ASSUME PInv, [Next]_vars PROVE ToldBefore'
<1>. USE DEF PInv, ToldBefore
<1>1. CASE WorkerStep
  BY <1>1, WorkerMoves DEF Ended
<1>2. CASE ClickPause
  <2>1. state' = state /\ button' = button /\ seen' = state
    BY <1>2 DEF ClickPause, control, screen
  <2>. QED BY <2>1
<1>3. CASE Toggle
  <2>1. ui' = "refresh" /\ button' = button
    BY <1>3 DEF Toggle, Ui, screen
  <2>2. state \in Ended => state' \in Ended
    BY <1>3 DEF Toggle, RequestPause, ResumePause, control, Ended
  <2>. QED BY <2>1, <2>2
<1>4. CASE ClickCancel \/ Cancel
  <2>1. ui' # "toggle" /\ button' = button
    BY <1>4 DEF ClickCancel, Cancel, Ui, screen
  <2>2. state \in Ended => state' \in Ended
    BY <1>4 DEF ClickCancel, Cancel, RequestCancel, control, Ended
  <2>. QED BY <2>1, <2>2
<1>5. CASE Refresh \/ HandleMessage
  BY <1>5 DEF Refresh, HandleMessage, Ui, control
<1>6. CASE Emit("ui")
  BY <1>6 DEF Emit, uiVars
<1>7. CASE UNCHANGED vars
  BY <1>7 DEF vars, control, uiVars, screen
<1>. QED BY <1>1, <1>2, <1>3, <1>4, <1>5, <1>6, <1>7 DEF Next, UiStep, User

LEMMA PInvariance == Spec => []PInv
<1>1. Init => ToldBefore
  BY DEF Init, ToldBefore, Ended
<1>2. IInv /\ ToldBefore /\ [Next]_vars => ToldBefore'
  BY ToldNext DEF PInv
<1>. QED BY <1>1, <1>2, Invariance, PTL DEF Spec, PInv

\* An operation that waits paused can always be taken up again: whenever the UI
\* thread is free, the button is enabled, whatever it says.
PausedIsOffered == ui = "idle" /\ state = "paused" => ButtonEnabled

\* A lost or late announcement leaves a wrong word on the button of a paused
\* operation, never a dead button.
THEOREM PausedOffered == Spec => []PausedIsOffered
<1>1. PInv => PausedIsOffered
  <2>. SUFFICES ASSUME PInv, ui = "idle", state = "paused" PROVE ButtonEnabled
    BY DEF PausedIsOffered
  <2>1. button[1] \in States
    BY DEF PInv, IInv, TypeOK, Keys
  <2>2. button[1] \notin Ended /\ button[1] # "running"
    BY DEF PInv, IInv, ToldBefore, ButtonNeverReversed, Ended
  <2>. QED BY <2>1, <2>2 DEF ButtonEnabled, States, Ended
<1>. QED BY <1>1, PInvariance, PTL

\* A click on that button resumes the operation.
ClickResumes ==
  [][ui = "toggle" /\ ui' = "refresh" /\ state = "paused" => state' = "running"]_vars

\* toggle_manual_pause acts on what it read under an earlier lock, and still
\* never leaves an operation paused that was paused when the click took effect.
THEOREM ResumesOnClick == Spec => ClickResumes
<1>1. ASSUME PInv, [Next]_vars, ui = "toggle", ui' = "refresh", state = "paused"
      PROVE  state' = "running"
  <2>1. Toggle
    <3>1. CASE WorkerStep
      BY <1>1, <3>1, WorkerMoves DEF PInv
    <3>2. CASE ClickPause \/ ClickCancel \/ Cancel \/ Refresh \/ HandleMessage
      BY <1>1, <3>2 DEF ClickPause, ClickCancel, Cancel, Refresh, HandleMessage, Ui
    <3>3. CASE Emit("ui") \/ UNCHANGED vars
      BY <1>1, <3>3 DEF Emit, vars, uiVars
    <3>. QED BY <1>1, <3>1, <3>2, <3>3 DEF Next, UiStep, User
  <2>2. seen \in {"pause_requested", "paused"}
    BY <1>1 DEF PInv, IInv, TypeOK, States, ToldBefore, Ended
  <2>. QED BY <1>1, <2>1, <2>2 DEF Toggle, ResumePause, Ended
<1>. QED BY <1>1, PInvariance, PTL DEF Spec, ClickResumes

-------------------------------------------------------------------------------
(* How far a cancelled worker still has to go.                                *)

Way ==
  [enter |-> 6, wait |-> 5, copying |-> 4, engine |-> IF pausable THEN 4 ELSE 2,
   report |-> 3, boundary |-> 2, returning |-> 1, done |-> 0]

StepsLeft == 2 * Way[worker] + IF event["worker"] = NoEvent THEN 0 ELSE 1

\* Once the user has cancelled, every step of the worker brings it nearer to its end,
\* at most 13 steps away; nothing that the UI thread does takes it back.  Neither a
\* pause nor the chunks that are left count.
CancelAdvances ==
  [][cancelFlag => /\ StepsLeft \in 0 .. 13
                   /\ WorkerStep => StepsLeft' < StepsLeft
                   /\ UiStep \/ User => StepsLeft' = StepsLeft]_vars

\* Where a cancelled worker may go from each place.
LEMMA CancelledMoves ==
  ASSUME IInv, cancelFlag, WorkerStep, ~Emit("worker")
  PROVE  /\ event["worker"] = NoEvent
         /\ \/ worker = "engine" /\ worker' = "returning"
            \/ worker = "engine" /\ worker' = "report" /\ pausable
            \/ worker = "copying" /\ worker' \in {"report", "boundary"}
            \/ worker = "report" /\ worker' = "boundary"
            \/ worker = "report" /\ worker' = "engine" /\ ~pausable'
            \/ worker \in {"boundary", "enter", "wait"} /\ worker' = "returning"
            \/ worker = "enter" /\ worker' = "wait"
            \/ worker = "wait" /\ worker' = "engine"
            \/ worker = "returning" /\ worker' = "done"
<1>1. CASE PollCancel
  BY <1>1 DEF PollCancel, Work
<1>2. CASE VerifyChunk
  BY <1>2 DEF VerifyChunk, Work
<1>3. CASE ReportNotPausable
  BY <1>3 DEF ReportNotPausable, Work
<1>4. CASE PostProgress
  BY <1>4 DEF PostProgress, Work
<1>5. CASE BoundaryProbe
  BY <1>5 DEF BoundaryProbe, Work
<1>6. CASE BoundaryLock
  BY <1>6 DEF BoundaryLock, Work
<1>7. CASE BoundaryWait
  BY <1>7 DEF BoundaryWait, Work
<1>8. CASE EngineReturn \/ Finish
  BY <1>8 DEF EngineReturn, Finish, Work
<1>. QED BY <1>1, <1>2, <1>3, <1>4, <1>5, <1>6, <1>7, <1>8 DEF WorkerStep

LEMMA WayFacts ==
  ASSUME TypeOK
  PROVE  /\ Way[worker] \in 0 .. 6 /\ StepsLeft \in 0 .. 13
         /\ worker = "done" => Way[worker] = 0
<1>1. Way[worker] \in 0 .. 6 /\ (worker = "done" => Way[worker] = 0)
  BY DEF TypeOK, Way
<1>. QED BY <1>1 DEF StepsLeft

\* The bound behind CancelEnds: what the wait at the boundary and the polls of the
\* probe leave a cancelled worker to do.
THEOREM CancelledWorkerEnds == Spec => CancelAdvances
<1>1. ASSUME IInv, IInv', cancelFlag, WorkerStep PROVE StepsLeft' < StepsLeft
  <2>0. Way[worker] \in 0 .. 6 /\ (Way[worker])' \in 0 .. 6
    <3>1. Way[worker] \in 0 .. 6
      BY <1>1, WayFacts DEF IInv
    <3>2. TypeOK'
      BY <1>1 DEF IInv
    <3>3. (Way[worker])' \in 0 .. 6
      BY <3>2 DEF TypeOK, Way
    <3>. QED BY <3>1, <3>3
  <2>1. CASE Emit("worker")
    <3>1. /\ event["worker"] # NoEvent /\ event'["worker"] = NoEvent
          /\ worker' = worker /\ pausable' = pausable
      BY <1>1, <2>1 DEF Emit, IInv, TypeOK, Threads
    <3>2. (Way[worker])' = Way[worker]
      BY <3>1 DEF Way
    <3>. QED BY <2>0, <3>1, <3>2 DEF StepsLeft
  <2>2. CASE ~Emit("worker")
    <3>1. event["worker"] = NoEvent
      BY <1>1, <2>2, CancelledMoves
    <3>2. (Way[worker])' < Way[worker]
      BY <1>1, <2>2, CancelledMoves DEF Way
    <3>. QED BY <2>0, <3>1, <3>2 DEF StepsLeft
  <2>. QED BY <2>1, <2>2
<1>2. ASSUME IInv, UiStep \/ User PROVE StepsLeft' = StepsLeft
  <2>0. event \in [Threads -> Keys \cup {NoEvent}] /\ "worker" \in Threads
    BY <1>2 DEF IInv, TypeOK, Threads
  <2>1. worker' = worker /\ pausable' = pausable
    BY <1>2 DEF UiStep, User, Toggle, Cancel, Refresh, HandleMessage, Emit, ClickPause,
       ClickCancel, Ui
  <2>2. event'["worker"] = event["worker"]
    <3>1. CASE Toggle
      BY <2>0, <3>1 DEF Toggle, RequestPause, ResumePause, Notify, control
    <3>2. CASE Cancel
      BY <2>0, <3>2 DEF Cancel, RequestCancel, Notify, control
    <3>3. CASE Refresh \/ HandleMessage \/ User
      BY <3>3 DEF Refresh, HandleMessage, User, ClickPause, ClickCancel, control
    <3>4. CASE Emit("ui")
      BY <2>0, <3>4 DEF Emit
    <3>. QED BY <1>2, <3>1, <3>2, <3>3, <3>4 DEF UiStep
  <2>. QED BY <2>1, <2>2 DEF StepsLeft, Way
<1>3. IInv /\ IInv' /\ [Next]_vars =>
        [cancelFlag => /\ StepsLeft \in 0 .. 13
                       /\ WorkerStep => StepsLeft' < StepsLeft
                       /\ UiStep \/ User => StepsLeft' = StepsLeft]_vars
  BY <1>1, <1>2, WayFacts DEF IInv
<1>. QED BY <1>3, Invariance, PTL DEF Spec, CancelAdvances

==============================================================================
