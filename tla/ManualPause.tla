---------------------------- MODULE ManualPause ------------------------------
(* ManualPauseController: one running operation, its worker thread and the UI *)
(* thread.  The worker copies chunk after chunk, reports progress, and waits  *)
(* only inside wait_at_safe_boundary; the UI requests a pause, takes it back, *)
(* resumes and cancels.  Every change is made under the controller's lock and *)
(* announced after the lock is released, so announcements of the two threads  *)
(* may overtake each other.  An action is what a thread does under one lock   *)
(* acquisition, or between two of them.                                       *)
EXTENDS Naturals

CONSTANTS MaxChunks,  \* chunks the operation copies at most
          MaxClicks,  \* bound on the user's clicks on the pause button
          NoEvent     \* "nothing to announce"

ASSUME ChunksAssumption == MaxChunks \in Nat /\ MaxClicks \in Nat

States == {"running", "pause_requested", "paused", "cancelling", "completed"}
Keys == States \X BOOLEAN
Threads == {"worker", "ui"}

ASSUME NoEventAssumption == NoEvent \notin Keys

VARIABLES
  state,       \* ManualPauseState
  available,   \* ManualPauseAvailability: available_at_safe_boundary
  boundary,    \* last_safe_boundary by its chunk count, 0 when empty
  event,       \* the change each thread has made and not announced yet
  worker,      \* where the worker thread is
  chunks,      \* chunks written and verified
  pausable,    \* history: what the last progress report said
  cancelFlag,  \* the atomic flag behind the existing cancellation probe
  ui,          \* where the UI thread is
  seen,        \* the state that toggle_manual_pause has read
  clicks,      \* clicks on the pause button so far
  lastKey,     \* last_ui_state, the key that was announced last
  messages,    \* posted window messages that make the UI refresh the button
  button       \* the snapshot the button was last drawn from

control == <<state, available, boundary, event>>
uiVars == <<ui, seen, clicks>>
screen == <<lastKey, messages, button>>
vars == <<control, worker, chunks, pausable, cancelFlag, uiVars, screen>>

Ended == {"cancelling", "completed"}

Init ==
  /\ state = "running" /\ available = FALSE /\ boundary = 0
  /\ event = [t \in Threads |-> NoEvent]
  /\ worker = "engine" /\ chunks = 0 /\ pausable = FALSE
  /\ cancelFlag = FALSE
  /\ ui = "idle" /\ seen = "running" /\ clicks = 0
  /\ lastKey = NoEvent /\ messages = 0 /\ button = <<"running", FALSE>>

-------------------------------------------------------------------------------
(* The controller's operations, each under its lock.                          *)

\* changed_locked: thread t has something to announce.
Notify(t) == event' = [event EXCEPT ![t] = <<state', available'>>]

RequestPause(t) ==
  \/ /\ state = "running" /\ available
     /\ state' = "pause_requested"
     /\ UNCHANGED <<available, boundary>>
     /\ Notify(t)
  \/ /\ ~(state = "running" /\ available)
     /\ UNCHANGED control

\* Mutant: the caller's snapshot is trusted, the state not looked at again.
ResumePauseUnguarded(t) ==
  /\ state' = "running"
  /\ UNCHANGED <<available, boundary>>
  /\ Notify(t)

ResumePause(t) ==
  \/ /\ state \in {"pause_requested", "paused"}
     /\ state' = "running"
     /\ UNCHANGED <<available, boundary>>
     /\ Notify(t)
  \/ /\ state \notin {"pause_requested", "paused"}
     /\ UNCHANGED control

RequestCancel(t) ==
  \/ /\ state \notin Ended
     /\ state' = "cancelling" /\ available' = FALSE /\ boundary' = 0
     /\ Notify(t)
  \/ state \in Ended /\ UNCHANGED control

\* mark_completed, and a progress report of the completed stage.
MarkCompleted(t) ==
  /\ state' = "completed" /\ available' = FALSE /\ boundary' = 0
  /\ IF <<state, available, boundary>> = <<"completed", FALSE, 0>>
       THEN UNCHANGED event
       ELSE Notify(t)

\* Mutant: a queued request survives a report that says no.
ObserveProgressKeepsRequest(allowed) ==
  \/ state \in Ended /\ UNCHANGED control
  \/ /\ state \notin Ended
     /\ available' = allowed
     /\ boundary' = IF allowed THEN boundary ELSE 0
     /\ UNCHANGED state
     /\ IF <<available, boundary>>' = <<available, boundary>>
          THEN UNCHANGED event
          ELSE Notify("worker")

\* observe_progress with pause_allowed = allowed: a queued request does not
\* survive a report that says no.
ObserveProgress(allowed) ==
  \/ state \in Ended /\ UNCHANGED control
  \/ /\ state \notin Ended
     /\ available' = allowed
     /\ boundary' = IF allowed THEN boundary ELSE 0
     /\ state' = IF ~allowed /\ state = "pause_requested" THEN "running" ELSE state
     /\ IF <<state, available, boundary>>' = <<state, available, boundary>>
          THEN UNCHANGED event
          ELSE Notify("worker")

\* Mutant: the boundary named is the one after the chunk just verified.
EnterBoundaryOffByOne ==
  /\ state \notin Ended
  /\ available' = TRUE /\ boundary' = chunks + 1
  /\ state' = IF state = "pause_requested" THEN "paused" ELSE state
  /\ Notify("worker")

\* wait_at_safe_boundary up to its wait loop, for a run that is not over.
EnterBoundary ==
  /\ state \notin Ended
  /\ available' = TRUE /\ boundary' = chunks
  /\ state' = IF state = "pause_requested" THEN "paused" ELSE state
  /\ IF <<state, available, boundary>>' = <<state, available, boundary>>
       THEN UNCHANGED event
       ELSE Notify("worker")

-------------------------------------------------------------------------------
(* The worker thread.  `Work' moves it on once it has announced its change.   *)
Work(from, to) ==
  /\ worker = from /\ event["worker"] = NoEvent
  /\ worker' = to
  /\ UNCHANGED uiVars

\* Mutant: the bound callback asks the controller only.
PollCancelStateOnly ==
  /\ \/ Work("engine", "copying") /\ chunks < MaxChunks
        /\ state # "cancelling" /\ UNCHANGED control
     \/ Work("engine", "returning") /\ state = "cancelling" /\ UNCHANGED control
  /\ UNCHANGED <<chunks, pausable, cancelFlag, screen>>

\* The bound cancellation_requested callback, asked before each chunk.
PollCancel ==
  /\ \/ Work("engine", "copying") /\ chunks < MaxChunks
        /\ state # "cancelling" /\ ~cancelFlag /\ UNCHANGED control
     \/ Work("engine", "returning") /\ state = "cancelling" /\ UNCHANGED control
     \/ /\ Work("engine", "returning")
        /\ state # "cancelling" /\ cancelFlag /\ RequestCancel("worker")
  /\ UNCHANGED <<chunks, pausable, cancelFlag, screen>>

\* copy_range: the chunk is copied and read back, and reported as pausable;
\* the report of a chunk in the same stage may be throttled.
VerifyChunk ==
  /\ \/ Work("copying", "report")
     \/ Work("copying", "boundary") /\ pausable
  /\ chunks' = chunks + 1
  /\ pausable' = TRUE
  /\ ObserveProgress(TRUE)
  /\ UNCHANGED <<cancelFlag, screen>>

\* The engine reports a stage that is not to be paused.
ReportNotPausable ==
  /\ Work("engine", "report")
  /\ pausable /\ pausable' = FALSE
  /\ ObserveProgress(FALSE)
  /\ UNCHANGED <<chunks, cancelFlag, screen>>

\* The existing progress callback posts a message of its own.
PostProgress ==
  /\ Work("report", IF pausable THEN "boundary" ELSE "engine")
  /\ messages' = messages + 1
  /\ UNCHANGED <<control, chunks, pausable, cancelFlag, lastKey, button>>

\* wait_at_safe_boundary asks the existing probe before it takes the lock.
BoundaryProbe ==
  /\ \/ Work("boundary", "enter") /\ ~cancelFlag /\ UNCHANGED control
     \/ Work("boundary", "returning") /\ cancelFlag /\ RequestCancel("worker")
  /\ UNCHANGED <<chunks, pausable, cancelFlag, screen>>

BoundaryLock ==
  /\ \/ Work("enter", "wait") /\ EnterBoundary
     \/ Work("enter", "returning") /\ state \in Ended /\ UNCHANGED control
  /\ UNCHANGED <<chunks, pausable, cancelFlag, screen>>

\* Mutant: the wait times out once and is not begun again.
BoundaryWaitOnce ==
  /\ \/ Work("wait", "engine") /\ state \notin Ended /\ UNCHANGED control
     \/ Work("wait", "returning") /\ state \in Ended /\ UNCHANGED control
  /\ UNCHANGED <<chunks, pausable, cancelFlag, screen>>

\* Mutant: only a resume wakes the worker.
BoundaryWaitForResume ==
  /\ \/ Work("wait", "engine") /\ state \notin Ended \cup {"paused"} /\ UNCHANGED control
     \/ /\ Work("wait", "returning")
        /\ state = "paused" /\ cancelFlag /\ RequestCancel("worker")
  /\ UNCHANGED <<chunks, pausable, cancelFlag, screen>>

\* The wait loop: woken by a change, or polling the existing probe.
BoundaryWait ==
  /\ \/ Work("wait", "engine") /\ state \notin Ended \cup {"paused"} /\ UNCHANGED control
     \/ Work("wait", "returning") /\ state \in Ended /\ UNCHANGED control
     \/ /\ Work("wait", "returning")
        /\ state = "paused" /\ cancelFlag /\ RequestCancel("worker")
  /\ UNCHANGED <<chunks, pausable, cancelFlag, screen>>

\* The engine fails, or reports the completed stage, and returns.
EngineReturn ==
  /\ Work("engine", "returning")
  /\ \/ UNCHANGED <<control, pausable>>
     \/ MarkCompleted("worker") /\ pausable' = FALSE
  /\ UNCHANGED <<chunks, cancelFlag, screen>>

\* The thread function calls mark_completed whatever the result.
Finish ==
  /\ Work("returning", "done")
  /\ MarkCompleted("worker")
  /\ UNCHANGED <<chunks, pausable, cancelFlag, screen>>

-------------------------------------------------------------------------------
(* The UI thread.                                                             *)
Ui(from, to) ==
  /\ ui = from /\ event["ui"] = NoEvent
  /\ ui' = to
  /\ UNCHANGED <<worker, chunks, pausable>>

\* update_manual_pause_button: which snapshots leave the button enabled.
ButtonEnabled == \/ button = <<"running", TRUE>>
                 \/ button[1] \in {"pause_requested", "paused"}

\* toggle_manual_pause takes a snapshot, and acts on it under another lock.
ClickPause ==
  /\ Ui("idle", "toggle")
  /\ ButtonEnabled /\ worker # "done"
  /\ clicks < MaxClicks
  /\ clicks' = clicks + 1
  /\ seen' = state
  /\ UNCHANGED <<control, cancelFlag, screen>>

Toggle ==
  /\ Ui("toggle", "refresh")
  /\ \/ seen = "running" /\ RequestPause("ui")
     \/ seen \in {"pause_requested", "paused"} /\ ResumePause("ui")
     \/ seen \in Ended /\ UNCHANGED control
  /\ UNCHANGED <<seen, clicks, cancelFlag, screen>>

\* The cancel button sets the flag first and then tells the controller.
ClickCancel ==
  /\ Ui("idle", "cancel")
  /\ worker # "done"
  /\ ~cancelFlag /\ cancelFlag' = TRUE
  /\ UNCHANGED <<control, seen, clicks, screen>>

Cancel ==
  /\ Ui("cancel", "refresh")
  /\ RequestCancel("ui")
  /\ UNCHANGED <<seen, clicks, cancelFlag, screen>>

\* Mutant: the button is drawn from what the click's handler read first.
RefreshFromSeen ==
  /\ Ui("refresh", "idle")
  /\ button' = <<seen, available>>
  /\ UNCHANGED <<control, seen, clicks, cancelFlag, lastKey, messages>>

\* update_action_state at the end of a click's handler.
Refresh ==
  /\ Ui("refresh", "idle")
  /\ button' = <<state, available>>
  /\ UNCHANGED <<control, seen, clicks, cancelFlag, lastKey, messages>>

\* update_action_state in the handler of a posted message.
HandleMessage ==
  /\ Ui("idle", "idle")
  /\ messages > 0 /\ messages' = messages - 1
  /\ button' = <<state, available>>
  /\ UNCHANGED <<control, seen, clicks, cancelFlag, lastKey>>

\* emit_event: the callback of make_ui_manual_pause_controller drops an
\* announcement whose key is the one announced last.
Emit(t) ==
  /\ event[t] # NoEvent
  /\ event' = [event EXCEPT ![t] = NoEvent]
  /\ lastKey' = event[t]
  /\ messages' = IF lastKey = event[t] THEN messages ELSE messages + 1
  /\ UNCHANGED <<state, available, boundary, worker, chunks, pausable,
                 cancelFlag, uiVars, button>>

WorkerStep == PollCancel \/ VerifyChunk \/ ReportNotPausable \/ PostProgress
                \/ BoundaryProbe \/ BoundaryLock \/ BoundaryWait \/ EngineReturn \/ Finish
                \/ Emit("worker")
UiStep == Toggle \/ Cancel \/ Refresh \/ HandleMessage \/ Emit("ui")
User == ClickPause \/ ClickCancel

Next == WorkerStep \/ UiStep \/ User

Spec == Init /\ [][Next]_vars

-------------------------------------------------------------------------------
(* Properties                                                                 *)

\* Every variable has its type.
TypeOK ==
  /\ state \in States /\ available \in BOOLEAN /\ boundary \in 0 .. MaxChunks
  /\ event \in [Threads -> Keys \cup {NoEvent}]
  /\ worker \in {"engine", "copying", "report", "boundary", "enter", "wait", "returning", "done"}
  /\ chunks \in 0 .. MaxChunks /\ pausable \in BOOLEAN /\ cancelFlag \in BOOLEAN
  /\ ui \in {"idle", "toggle", "cancel", "refresh"} /\ seen \in States
  /\ clicks \in 0 .. MaxClicks
  /\ lastKey \in Keys \cup {NoEvent} /\ messages \in Nat /\ button \in Keys

\* The operation is paused only while its worker is at a safe boundary, at the
\* chunk it has just verified.
PausedAtBoundary ==
  state = "paused" => worker = "wait" /\ boundary = chunks

\* A pause request never enters an interval the engine reported as not
\* pausable, nor is one accepted there.
NoPauseWhenNotPausable ==
  ~pausable => ~available /\ state \notin {"pause_requested", "paused"}

\* A cancellation is final: whatever the threads do afterwards, the operation
\* is not running, paused or waiting for a pause again; nor after its end.
CancelIsFinal ==
  [][/\ state = "cancelling" => state' \in Ended
     /\ state = "completed" => state' = "completed"]_vars

\* Once the user has cancelled, no chunk is started: at most the one in flight
\* is still written.
CancelStopsCopying ==
  [][worker # "copying" /\ (cancelFlag \/ state \in Ended)
       => worker' # "copying" /\ chunks' = chunks]_vars

\* A click never does the opposite of what the button says: while a click can
\* come, "resume" stands for a paused operation and "pause" for a running one,
\* however late the announcements are, unless the operation is ending.
ButtonNeverReversed ==
  ui = "idle" =>
    /\ button[1] = "paused" => state \in Ended \cup {"paused"}
    /\ button[1] = "running" => state \in Ended \cup {"running"}

\* Nothing is left to announce and no message is waiting for the UI.
Quiescent == event = [t \in Threads |-> NoEvent] /\ messages = 0 /\ ui = "idle"

\* docs/operation-manual.md: once paused, the operation goes on with the same
\* button's "resume".
PausedShowsResume == Quiescent /\ state = "paused" => button[1] = "paused"

\* Both threads are scheduled, and the engine's reads and writes return; the
\* user need not do anything.
Fairness == WF_vars(WorkerStep) /\ WF_vars(UiStep)
FairSpec == Spec /\ Fairness

\* A cancelled operation ends, also when its worker was paused or about to be.
CancelEnds == cancelFlag ~> worker = "done"
==============================================================================
