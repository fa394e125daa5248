------------------------------ MODULE DiffArea -------------------------------
(* The watch over the VSS difference areas during an online copy:             *)
(* VssDiffAreaMonitor decides what an observation means,                      *)
(* VssDiffAreaOperationMonitor polls at the start, at safe boundaries and at  *)
(* the end, asks the user when room runs out, and                             *)
(* validate_completed_vss_diff_area_operation_evidence has the last word on   *)
(* the record of it all.  The system uses and frees room all the while, also  *)
(* while the question is on the screen.                                       *)
EXTENDS Naturals, Sequences

CONSTANTS Snapshots,   \* of the set
          Full,        \* room of a fresh difference area
          Reserve,     \* so little room is a danger
          MaxChunks,   \* bound: output chunks
          MaxReviews   \* bound: questions to the user

ASSUME RoomAssumption == Full \in Nat /\ Reserve \in 0 .. Full
ASSUME BoundsAssumption == MaxChunks \in Nat /\ MaxReviews \in Nat

VARIABLES
  room,       \* system: what is left of each difference area
  dropped,    \* system: snapshots whose area ran over
  pc,
  origin,     \* what the poll under way was made for
  directive,  \* current_directive
  polls,      \* evidence.polls; the sequence number is the index
  reviews,    \* evidence.reviews
  initialDone, completionDone, terminal,  \* evidence flags
  chunks,     \* output chunks written
  spoiled,    \* history: one of them was written after a snapshot was dropped
  causes,     \* history: what spoke against going on
  result

system == <<room, dropped>>
record == <<polls, reviews>>
flags == <<initialDone, completionDone, terminal>>
output == <<chunks, spoiled>>
vars == <<system, pc, origin, directive, record, flags, output, causes, result>>

Rooms == [Snapshots -> 0 .. Full]
Locations == {"poll", "writing", "boundary", "review", "resume", "validate", "ended"}
Origins == {"initial", "boundary", "completion"}
Directives == {"continue", "review", "cancel"}
Causes == {"user", "observation", "engine"}

Init ==
  /\ room = [s \in Snapshots |-> Full] /\ dropped = {}
  /\ pc = "poll" /\ origin = "initial" /\ directive = "continue"
  /\ polls = <<>> /\ reviews = <<>>
  /\ initialDone = FALSE /\ completionDone = FALSE /\ terminal = FALSE
  /\ chunks = 0 /\ spoiled = FALSE /\ causes = {} /\ result = "none"

-------------------------------------------------------------------------------
(* The system.                                                                *)

\* A snapshot whose area is full and is to grow is gone for good.
UseRoom ==
  /\ pc # "ended"
  /\ \E s \in Snapshots :
       \/ room[s] > 0 /\ room' = [room EXCEPT ![s] = @ - 1] /\ UNCHANGED dropped
       \/ room[s] = 0 /\ dropped' = dropped \cup {s} /\ UNCHANGED room
  /\ UNCHANGED <<pc, origin, directive, record, flags, output, causes, result>>

FreeRoom ==
  /\ pc # "ended"
  /\ \E s \in Snapshots : room[s] < Full /\ room' = [room EXCEPT ![s] = @ + 1]
  /\ UNCHANGED <<dropped, pc, origin, directive, record, flags, output, causes, result>>

-------------------------------------------------------------------------------
(* One observation.                                                           *)

\* Mutant: a snapshot that is gone is taken for one that is there.
ObservableAnyway == TRUE

\* Every snapshot has to be identified once more.
Observable == dropped = {}

Danger(r) == \E s \in Snapshots : r[s] <= Reserve

\* Mutant: a fresh sample that is better for one snapshot will do.
NoWorseSomewhere(shown, fresh) == \E s \in Snapshots : fresh[s] >= shown[s]

\* observations_are_no_worse
NoWorse(shown, fresh) == \A s \in Snapshots : fresh[s] >= shown[s]

Latest == polls[Len(polls)]

\* publish: what was seen; "answers" is the sequence number a review was about, or 0.
Published(reason, seen, d, answers) ==
  /\ polls' = Append(polls, [reason |-> reason, seen |-> seen,
                             directive |-> d, answers |-> answers])
  /\ directive' = d

\* terminal: the copy ends at this boundary, and the evidence says so.
Terminal(cause) ==
  /\ terminal' = TRUE /\ causes' = causes \cup {cause}
  /\ pc' = "ended" /\ result' = "failed"
  /\ UNCHANGED <<initialDone, completionDone>>

\* fail_closed; that there is no sample of it decides nothing.
ObservationFails(reason, answers) ==
  /\ Published(reason, room, "cancel", answers)
  /\ Terminal("observation")

\* What a poll that may go on is followed by.
After(from) == IF from = "completion" THEN "validate" ELSE "writing"

GoOn ==
  /\ pc' = After(origin)
  /\ initialDone' = (initialDone \/ origin = "initial")
  /\ completionDone' = (completionDone \/ origin = "completion")
  /\ UNCHANGED <<terminal, causes, result>>

-------------------------------------------------------------------------------
(* Polls and reviews.                                                         *)

\* The first and the last poll are forced; at a boundary the interval counts.
NotDue ==
  /\ pc = "poll" /\ origin = "boundary" /\ directive = "continue"
  /\ GoOn
  /\ UNCHANGED <<system, origin, directive, record, output>>

Poll ==
  /\ pc = "poll" /\ directive = "continue"
  /\ \/ ObservationFails(origin, 0)
     \/ /\ Observable /\ ~Danger(room)
        /\ Published(origin, room, "continue", 0) /\ GoOn
     \/ /\ Observable /\ Danger(room)
        /\ Published(origin, room, "review", 0)
        /\ pc' = "review" /\ UNCHANGED <<flags, causes, result>>
  /\ UNCHANGED <<system, origin, reviews, output>>

Reviewed(answer, accepted) ==
  reviews' = Append(reviews, [shown |-> Len(polls), answer |-> answer,
                              accepted |-> accepted])

ChooseResume ==
  /\ pc = "review" /\ Len(reviews) < MaxReviews
  /\ Reviewed("resume", TRUE)
  /\ pc' = "resume"
  /\ UNCHANGED <<system, origin, directive, polls, flags, output, causes, result>>

\* The user's no, a dialog that fails and an answer to an older question; what was
\* shown is recorded once more.
ChooseCancel ==
  /\ pc = "review"
  /\ Reviewed("cancel", TRUE) \/ Reviewed("resume", FALSE)
  /\ Published("resume", Latest.seen, "cancel", Len(polls))
  /\ Terminal("user")
  /\ UNCHANGED <<system, origin, output>>

\* resolve_review looks again before it lets the copy go on.
Resume ==
  /\ pc = "resume"
  /\ \/ ObservationFails("resume", Len(polls))
     \/ /\ Observable /\ NoWorse(Latest.seen, room)
        /\ Published("resume", room, "continue", Len(polls)) /\ GoOn
     \/ /\ Observable /\ ~NoWorse(Latest.seen, room)
        /\ Published("resume", room, "review", Len(polls))
        /\ pc' = "review" /\ UNCHANGED <<flags, causes, result>>
  /\ UNCHANGED <<system, origin, reviews, output>>

-------------------------------------------------------------------------------
(* The copy.                                                                  *)

WriteChunk ==
  /\ pc = "writing" /\ chunks < MaxChunks
  /\ chunks' = chunks + 1
  /\ spoiled' = (spoiled \/ dropped # {})
  /\ pc' = "boundary"
  /\ UNCHANGED <<system, origin, directive, record, flags, causes, result>>

\* A cancellation asked for earlier is looked at before the poll.
ReachBoundary ==
  /\ pc = "boundary"
  /\ pc' = "poll" /\ origin' = "boundary"
  /\ UNCHANGED <<system, directive, record, flags, output, causes, result>>

\* The engine fails, or is cancelled.
CopyEnds ==
  /\ pc \in {"writing", "boundary"}
  /\ \E cause \in {"user", "engine"} : causes' = causes \cup {cause}
  /\ pc' = "ended" /\ result' = "failed"
  /\ UNCHANGED <<system, origin, directive, record, flags, output>>

CopyDone ==
  /\ pc = "writing"
  /\ pc' = "poll" /\ origin' = "completion"
  /\ UNCHANGED <<system, directive, record, flags, output, causes, result>>

-------------------------------------------------------------------------------
(* The evidence.                                                              *)

\* The polls that a review let go on, or that were made because of one.
Answering == {k \in DOMAIN polls : polls[k].reason = "resume"}

\* One of these for each review, in the order of the reviews.
InTurn(poll) ==
  /\ \A k \in Answering : \E i \in DOMAIN reviews : poll[i] = k
  /\ \A i, j \in DOMAIN reviews : i < j => poll[i] < poll[j]

\* Mutant: a review is compared with its own number, not with that of the sample.
ReviewsMatchByIndex ==
  \E poll \in [DOMAIN reviews -> Answering] :
    /\ InTurn(poll)
    /\ \A i \in DOMAIN reviews :
         /\ reviews[i].accepted /\ reviews[i].answer = "resume"
         /\ polls[poll[i]].answers = i

\* Each review let the copy go on, and the poll it is bound to is about the sample
\* that the user was shown.
ReviewsMatch ==
  \E poll \in [DOMAIN reviews -> Answering] :
    /\ InTurn(poll)
    /\ \A i \in DOMAIN reviews :
         /\ reviews[i].accepted /\ reviews[i].answer = "resume"
         /\ polls[poll[i]].answers = reviews[i].shown

ValidEvidence ==
  /\ initialDone /\ completionDone /\ directive = "continue" /\ ~terminal
  /\ Len(polls) >= 2
  /\ polls[1].reason = "initial" /\ Latest.reason = "completion"
  /\ Latest.directive = "continue"
  /\ ReviewsMatch

Validate ==
  /\ pc = "validate" /\ pc' = "ended"
  /\ result' = IF ValidEvidence THEN "success" ELSE "failed"
  /\ UNCHANGED <<system, origin, directive, record, flags, output, causes>>

Monitor == NotDue \/ Poll \/ ChooseResume \/ ChooseCancel \/ Resume
Copy == WriteChunk \/ ReachBoundary \/ CopyEnds \/ CopyDone \/ Validate

Next == UseRoom \/ FreeRoom \/ Monitor \/ Copy

Spec == Init /\ [][Next]_vars

-------------------------------------------------------------------------------
(* Properties.                                                                *)

Samples == [reason : Origins \cup {"resume"}, seen : Rooms,
            directive : Directives, answers : Nat]
Answers == [shown : Nat, answer : {"resume", "cancel"}, accepted : BOOLEAN]

TypeOK ==
  /\ room \in Rooms /\ dropped \subseteq Snapshots
  /\ pc \in Locations /\ origin \in Origins /\ directive \in Directives
  /\ polls \in Seq(Samples) /\ reviews \in Seq(Answers)
  /\ initialDone \in BOOLEAN /\ completionDone \in BOOLEAN /\ terminal \in BOOLEAN
  /\ chunks \in 0 .. MaxChunks /\ spoiled \in BOOLEAN
  /\ causes \subseteq Causes /\ result \in {"none", "success", "failed"}
  /\ pc \in {"writing", "boundary", "validate"} => directive = "continue"
  /\ pc \in {"review", "resume"} => directive = "review" /\ polls # <<>>

\* A sample that lets the copy go on: one without danger, or one taken after the
\* user was shown an earlier one and chose to go on, and no worse than that.
Cleared(p) ==
  /\ p.directive = "continue"
  /\ Danger(p.seen) =>
       \E i \in 1 .. Len(reviews) :
         /\ reviews[i].accepted /\ reviews[i].answer = "resume"
         /\ reviews[i].shown = p.answers
         /\ \A s \in Snapshots : p.seen[s] >= polls[p.answers].seen[s]

\* No chunk is written past a danger that was observed, unless the user saw it
\* and let the copy go on, and it had not become worse by then.
NoUnreviewedOutput ==
  [][chunks' # chunks => polls # <<>> /\ Cleared(Latest)]_vars

\* A copy that succeeds has no chunk from after a snapshot was dropped, however
\* long the boundaries left it unnoticed, and no review that said no.
SuccessMeansHeld ==
  result = "success" =>
    ~spoiled /\ \A i \in 1 .. Len(reviews) : reviews[i].answer = "resume"

\* A copy fails only if the user, an observation or the engine spoke against it,
\* with one exception: a danger that the last poll was the first to see and that
\* the user let pass.  The record then ends with the answer to a review, where
\* the evidence has to end with the last poll.
FailureHasCause ==
  result = "failed" /\ causes = {} =>
    origin = "completion" /\ Latest.reason = "resume"
==============================================================================
