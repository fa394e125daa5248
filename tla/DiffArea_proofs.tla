--------------------------- MODULE DiffArea_proofs ----------------------------
(* Proofs about DiffArea for every set of snapshots, every amount of room,    *)
(* every length of the copy and any number of reviews.                        *)
EXTENDS DiffArea, TLAPS

-------------------------------------------------------------------------------
(* The inductive invariant.                                                   *)

\* Between the first poll that let the copy go on and the next one.
Copying == pc \in {"writing", "boundary"} \/ (pc = "poll" /\ origin # "initial")

\* The copy goes on because of the last sample.
Licensed == Copying => polls # <<>> /\ Cleared(Latest)

\* The answer that a fresh sample is taken for is the last one.
Answered ==
  pc = "resume" =>
    /\ reviews # <<>>
    /\ reviews[Len(reviews)] =
         [shown |-> Len(polls), answer |-> "resume", accepted |-> TRUE]

\* A spoiled chunk is one after a drop, and the completion poll sees every drop.
Witnessed ==
  /\ spoiled => dropped # {}
  /\ completionDone => ~spoiled /\ pc \in {"validate", "ended"}
  /\ result # "none" => pc = "ended"

IInv == TypeOK /\ Licensed /\ Answered /\ Witnessed /\ SuccessMeansHeld

-------------------------------------------------------------------------------
(* One more sample.                                                           *)

\* What is sampled.
LEMMA RoomInRange ==
  ASSUME TypeOK
  PROVE  room \in Rooms
  BY DEF TypeOK

\* What the record looks like after it.
LEMMA PublishedFacts ==
  ASSUME TypeOK, NEW reason \in Origins \cup {"resume"}, NEW d \in Directives,
         NEW a \in Nat, NEW seen \in Rooms, Published(reason, seen, d, a)
  PROVE  /\ polls' \in Seq(Samples) /\ polls' # <<>> /\ Len(polls') = Len(polls) + 1
         /\ Latest' = [reason |-> reason, seen |-> seen, directive |-> d, answers |-> a]
         /\ \A i \in 1 .. Len(polls) : polls'[i] = polls[i]
         /\ directive' = d
<1> DEFINE new == [reason |-> reason, seen |-> seen, directive |-> d, answers |-> a]
<1>1. new \in Samples /\ polls \in Seq(Samples) /\ polls' = Append(polls, new)
  BY DEF TypeOK, Samples, Published
<1> HIDE DEF new
<1>2. /\ polls' \in Seq(Samples) /\ Len(polls') = Len(polls) + 1
      /\ polls'[Len(polls) + 1] = new
      /\ \A i \in 1 .. Len(polls) : polls'[i] = polls[i]
  BY <1>1
<1>3. polls' # <<>>
  BY <1>1, <1>2
<1> QED
  BY <1>2, <1>3 DEF Latest, Published, new

LEMMA ReviewedFacts ==
  ASSUME TypeOK, NEW answer \in {"resume", "cancel"}, NEW ok \in BOOLEAN,
         Reviewed(answer, ok)
  PROVE  /\ reviews' \in Seq(Answers) /\ reviews' # <<>>
         /\ reviews'[Len(reviews')] =
              [shown |-> Len(polls), answer |-> answer, accepted |-> ok]
<1> DEFINE new == [shown |-> Len(polls), answer |-> answer, accepted |-> ok]
<1>1. new \in Answers /\ reviews \in Seq(Answers) /\ reviews' = Append(reviews, new)
  BY DEF TypeOK, Answers, Reviewed
<1> HIDE DEF new
<1>2. /\ reviews' \in Seq(Answers) /\ Len(reviews') = Len(reviews) + 1
      /\ reviews'[Len(reviews) + 1] = new
  BY <1>1
<1> QED
  BY <1>1, <1>2 DEF new

\* A sample without danger lets the copy go on.
LEMMA SafeIsCleared ==
  ASSUME TypeOK, ~Danger(room), NEW reason \in Origins, Published(reason, room, "continue", 0)
  PROVE  Cleared(Latest)'
<1>1. Latest'.directive = "continue" /\ Latest'.seen = room
  BY RoomInRange, PublishedFacts DEF Directives
<1>2. ~Danger(Latest'.seen)
  BY <1>1
<1> QED
  BY <1>1, <1>2 DEF Cleared

\* So does one that answers an accepted review and is no worse than what the user
\* was shown.
LEMMA ResumedIsCleared ==
  ASSUME TypeOK, Answered, pc = "resume", NoWorse(Latest.seen, room),
         Published("resume", room, "continue", Len(polls)), UNCHANGED reviews
  PROVE  Cleared(Latest)'
<1>1. Len(polls) \in Nat /\ Len(polls) \in 1 .. Len(polls) /\ polls \in Seq(Samples)
  BY DEF TypeOK
<1>2. /\ Latest'.directive = "continue" /\ Latest'.seen = room
      /\ Latest'.answers = Len(polls) /\ polls'[Len(polls)] = Latest
  <2>1. /\ Latest' = [reason |-> "resume", seen |-> room, directive |-> "continue",
                      answers |-> Len(polls)]
        /\ \A i \in 1 .. Len(polls) : polls'[i] = polls[i]
    BY <1>1, RoomInRange, PublishedFacts DEF Directives
  <2>2. polls'[Len(polls)] = Latest
    BY <1>1, <2>1 DEF Latest
  <2> QED
    BY <2>1, <2>2
<1>3. \A s \in Snapshots : Latest'.seen[s] >= polls'[Latest'.answers].seen[s]
  BY <1>2 DEF NoWorse
<1>4. /\ Len(reviews) \in 1 .. Len(reviews)
      /\ reviews[Len(reviews)].accepted /\ reviews[Len(reviews)].answer = "resume"
      /\ reviews[Len(reviews)].shown = Latest'.answers
  BY <1>2 DEF TypeOK, Answered
<1> QED
  BY <1>2, <1>3, <1>4 DEF Cleared

\* What lets the copy go on is a matter of the record alone.
LEMMA RecordDecides ==
  ASSUME UNCHANGED record
  PROVE  (polls # <<>> /\ Cleared(Latest))' = (polls # <<>> /\ Cleared(Latest))
<1>1. polls' = polls /\ reviews' = reviews
  BY DEF record
<1> QED
  BY <1>1 DEF Latest, Cleared, Danger

-------------------------------------------------------------------------------
LEMMA InitIInv == Init => IInv
<1> SUFFICES ASSUME Init PROVE IInv
  OBVIOUS
<1>1. room \in Rooms
  BY RoomAssumption DEF Init, Rooms
<1>2. TypeOK
  <2>1. polls \in Seq(Samples) /\ reviews \in Seq(Answers)
    BY DEF Init
  <2>2. chunks \in 0 .. MaxChunks /\ causes \subseteq Causes /\ dropped \subseteq Snapshots
    BY BoundsAssumption DEF Init
  <2> QED
    BY <1>1, <2>1, <2>2 DEF Init, TypeOK, Locations, Origins, Directives
<1> QED
  BY <1>2 DEF Init, IInv, Licensed, Copying, Answered, Witnessed, SuccessMeansHeld

-------------------------------------------------------------------------------
LEMMA StepIInv == IInv /\ [Next]_vars => IInv'
<1> SUFFICES ASSUME IInv, [Next]_vars PROVE IInv'
  OBVIOUS
<1> USE DEF IInv, Licensed, Copying, Answered, Witnessed, SuccessMeansHeld
<1>1. CASE UseRoom
  <2>1. room' \in Rooms /\ dropped' \subseteq Snapshots /\ dropped \subseteq dropped'
    <3>1. PICK s \in Snapshots :
            \/ room[s] > 0 /\ room' = [room EXCEPT ![s] = @ - 1] /\ UNCHANGED dropped
            \/ room[s] = 0 /\ dropped' = dropped \cup {s} /\ UNCHANGED room
      BY <1>1 DEF UseRoom
    <3>2. room \in [Snapshots -> 0 .. Full] /\ room[s] \in 0 .. Full /\ Full \in Nat
      BY RoomAssumption DEF TypeOK, Rooms
    <3>3. room' \in [Snapshots -> 0 .. Full]
      BY <3>1, <3>2
    <3> QED
      BY <3>1, <3>3 DEF TypeOK, Rooms
  <2>2. /\ pc # "ended"
        /\ UNCHANGED <<pc, origin, directive, polls, reviews, initialDone, completionDone,
                       terminal, chunks, spoiled, causes, result>>
    BY <1>1 DEF UseRoom, record, flags, output
  <2>3. (polls # <<>> /\ Cleared(Latest))' = (polls # <<>> /\ Cleared(Latest))
    BY <2>2, RecordDecides DEF record
  <2>4. TypeOK'
    BY <2>1, <2>2 DEF TypeOK
  <2> QED
    BY <2>1, <2>2, <2>3, <2>4
<1>2. CASE FreeRoom
  <2>1. room' \in Rooms
    BY <1>2, RoomAssumption DEF FreeRoom, TypeOK, Rooms
  <2>2. UNCHANGED <<dropped, pc, origin, directive, polls, reviews, initialDone,
                    completionDone, terminal, chunks, spoiled, causes, result>>
    BY <1>2 DEF FreeRoom, record, flags, output
  <2>3. (polls # <<>> /\ Cleared(Latest))' = (polls # <<>> /\ Cleared(Latest))
    BY <2>2, RecordDecides DEF record
  <2> QED
    BY <2>1, <2>2, <2>3 DEF TypeOK
<1>3. CASE NotDue
  <2>1. /\ pc = "poll" /\ origin = "boundary" /\ pc' = "writing" /\ directive = "continue"
        /\ UNCHANGED <<room, dropped, origin, directive, polls, reviews, chunks, spoiled,
                       terminal, causes, result>>
        /\ initialDone' \in BOOLEAN /\ completionDone' = completionDone
    BY <1>3 DEF NotDue, GoOn, After, system, record, output, TypeOK
  <2> QED
    BY <2>1 DEF TypeOK, Latest, Cleared, Danger, Locations
<1>4. ASSUME NEW reason \in Origins \cup {"resume"}, NEW a \in Nat,
             pc \in {"poll", "resume"}, UNCHANGED <<system, origin, reviews, output>>,
             ObservationFails(reason, a)
      PROVE  IInv'
  <2>1. /\ pc' = "ended" /\ result' = "failed" /\ terminal' = TRUE
        /\ causes' \subseteq Causes /\ directive' = "cancel" /\ polls' \in Seq(Samples)
        /\ UNCHANGED <<room, dropped, origin, reviews, chunks, spoiled, initialDone,
                       completionDone>>
    BY <1>4, PublishedFacts DEF ObservationFails, Terminal, Directives, Causes, TypeOK,
       system, output
  <2> QED
    BY <1>4, <2>1 DEF TypeOK, Locations, Directives
<1>5. ASSUME NEW reason \in Origins \cup {"resume"}, NEW a \in Nat,
             pc \in {"poll", "resume"}, UNCHANGED <<system, origin, reviews, output>>,
             Observable, Published(reason, room, "continue", a), Cleared(Latest)', GoOn
      PROVE  IInv'
  <2>1. /\ directive' = "continue" /\ polls' \in Seq(Samples) /\ polls' # <<>>
        /\ pc' = IF origin = "completion" THEN "validate" ELSE "writing"
        /\ initialDone' \in BOOLEAN /\ completionDone' \in BOOLEAN
        /\ UNCHANGED <<room, dropped, origin, reviews, chunks, spoiled, terminal, causes,
                       result>>
    BY <1>5, PublishedFacts DEF GoOn, After, Directives, TypeOK, system, output
  <2>2. /\ dropped = {} /\ ~completionDone /\ result = "none"
        /\ (completionDone' => origin = "completion")
    BY <1>5 DEF Observable, GoOn, TypeOK
  <2>3. TypeOK'
    BY <2>1 DEF TypeOK, Locations, Directives
  <2> QED
    BY <1>5, <2>1, <2>2, <2>3
<1>6. ASSUME NEW reason \in Origins \cup {"resume"}, NEW a \in Nat,
             pc \in {"poll", "resume"}, UNCHANGED <<system, origin, reviews, output>>,
             Published(reason, room, "review", a), pc' = "review",
             UNCHANGED <<flags, causes, result>>
      PROVE  IInv'
  <2>1. /\ directive' = "review" /\ polls' \in Seq(Samples) /\ polls' # <<>>
        /\ UNCHANGED <<room, dropped, origin, reviews, chunks, spoiled, initialDone,
                       completionDone, terminal, causes, result>>
    BY <1>6, RoomInRange, PublishedFacts DEF Directives, system, output, flags
  <2> QED
    BY <1>6, <2>1 DEF TypeOK, Locations, Directives
<1>7. CASE Poll
  <2>1. /\ pc = "poll" /\ origin \in Origins /\ 0 \in Nat
        /\ UNCHANGED <<system, origin, reviews, output>>
    BY <1>7 DEF Poll, TypeOK
  <2>2. CASE ObservationFails(origin, 0)
    BY <1>4, <2>1, <2>2
  <2>3. CASE Observable /\ ~Danger(room) /\ Published(origin, room, "continue", 0) /\ GoOn
    BY <1>5, <2>1, <2>3, SafeIsCleared
  <2>4. CASE Published(origin, room, "review", 0) /\ pc' = "review"
             /\ UNCHANGED <<flags, causes, result>>
    BY <1>6, <2>1, <2>4
  <2> QED
    BY <1>7, <2>2, <2>3, <2>4 DEF Poll
<1>8. CASE ChooseResume
  <2>1. /\ pc = "review" /\ pc' = "resume"
        /\ UNCHANGED <<room, dropped, origin, directive, polls, initialDone, completionDone,
                       terminal, chunks, spoiled, causes, result>>
    BY <1>8 DEF ChooseResume, system, flags, output
  <2>2. /\ reviews' \in Seq(Answers) /\ reviews' # <<>>
        /\ reviews'[Len(reviews')] =
             [shown |-> Len(polls), answer |-> "resume", accepted |-> TRUE]
    BY <1>8, ReviewedFacts DEF ChooseResume
  <2> QED
    BY <2>1, <2>2 DEF TypeOK, Locations
<1>9. CASE ChooseCancel
  <2>1. /\ pc = "review" /\ pc' = "ended" /\ result' = "failed" /\ terminal' = TRUE
        /\ causes' \subseteq Causes /\ reviews' \in Seq(Answers)
        /\ UNCHANGED <<room, dropped, origin, chunks, spoiled, initialDone, completionDone>>
    BY <1>9, ReviewedFacts DEF ChooseCancel, Terminal, Causes, TypeOK, system, output
  <2>2. polls' \in Seq(Samples) /\ directive' = "cancel"
    <3>1. Len(polls) \in Nat /\ Latest.seen \in Rooms
      <4>1. polls \in Seq(Samples) /\ polls # <<>>
        BY <2>1 DEF TypeOK
      <4>2. Latest \in Samples
        BY <4>1 DEF Latest
      <4> QED
        BY <4>1, <4>2 DEF Samples
    <3>2. Published("resume", Latest.seen, "cancel", Len(polls))
      BY <1>9 DEF ChooseCancel
    <3>3. "resume" \in Origins \cup {"resume"} /\ "cancel" \in Directives
      BY DEF Directives
    <3> QED
      BY <3>1, <3>2, <3>3, PublishedFacts
  <2> QED
    BY <2>1, <2>2 DEF TypeOK, Locations, Directives
<1>10. CASE Resume
  <2>1. /\ pc = "resume" /\ Len(polls) \in Nat
        /\ UNCHANGED <<system, origin, reviews, output>>
    BY <1>10 DEF Resume, TypeOK
  <2>2. CASE ObservationFails("resume", Len(polls))
    BY <1>4, <2>1, <2>2
  <2>3. CASE Observable /\ NoWorse(Latest.seen, room)
             /\ Published("resume", room, "continue", Len(polls)) /\ GoOn
    BY <1>5, <2>1, <2>3, ResumedIsCleared
  <2>4. CASE Published("resume", room, "review", Len(polls)) /\ pc' = "review"
             /\ UNCHANGED <<flags, causes, result>>
    BY <1>6, <2>1, <2>4
  <2> QED
    BY <1>10, <2>2, <2>3, <2>4 DEF Resume
<1>11. CASE WriteChunk
  <2>1. /\ pc = "writing" /\ pc' = "boundary" /\ chunks' = chunks + 1
        /\ chunks < MaxChunks /\ spoiled' = (spoiled \/ dropped # {})
        /\ UNCHANGED <<room, dropped, origin, directive, polls, reviews, initialDone,
                       completionDone, terminal, causes, result>>
    BY <1>11 DEF WriteChunk, system, record, flags
  <2>2. chunks' \in 0 .. MaxChunks /\ spoiled' \in BOOLEAN
    BY <2>1, BoundsAssumption DEF TypeOK
  <2>3. ~completionDone /\ result = "none"
    BY <2>1
  <2>4. (polls # <<>> /\ Cleared(Latest))' = (polls # <<>> /\ Cleared(Latest))
    BY <2>1, RecordDecides DEF record
  <2> QED
    BY <2>1, <2>2, <2>3, <2>4 DEF TypeOK, Locations
<1>12. CASE ReachBoundary
  <2>1. /\ pc = "boundary" /\ pc' = "poll" /\ origin' = "boundary"
        /\ UNCHANGED <<room, dropped, directive, polls, reviews, initialDone,
                       completionDone, terminal, chunks, spoiled, causes, result>>
    BY <1>12 DEF ReachBoundary, system, record, flags, output
  <2>2. (polls # <<>> /\ Cleared(Latest))' = (polls # <<>> /\ Cleared(Latest))
    BY <2>1, RecordDecides DEF record
  <2> QED
    BY <2>1, <2>2 DEF TypeOK, Locations, Origins
<1>13. CASE CopyEnds
  <2>1. /\ pc \in {"writing", "boundary"} /\ pc' = "ended" /\ result' = "failed"
        /\ causes' \subseteq Causes
        /\ UNCHANGED <<room, dropped, origin, directive, polls, reviews, initialDone,
                       completionDone, terminal, chunks, spoiled>>
    BY <1>13 DEF CopyEnds, system, record, flags, output, Causes, TypeOK
  <2> QED
    BY <2>1 DEF TypeOK, Locations
<1>14. CASE CopyDone
  <2>1. /\ pc = "writing" /\ pc' = "poll" /\ origin' = "completion"
        /\ UNCHANGED <<room, dropped, directive, polls, reviews, initialDone,
                       completionDone, terminal, chunks, spoiled, causes, result>>
    BY <1>14 DEF CopyDone, system, record, flags, output
  <2>2. (polls # <<>> /\ Cleared(Latest))' = (polls # <<>> /\ Cleared(Latest))
    BY <2>1, RecordDecides DEF record
  <2> QED
    BY <2>1, <2>2 DEF TypeOK, Locations, Origins
<1>15. CASE Validate
  <2>1. /\ pc = "validate" /\ pc' = "ended"
        /\ result' = IF ValidEvidence THEN "success" ELSE "failed"
        /\ UNCHANGED <<room, dropped, origin, directive, polls, reviews, initialDone,
                       completionDone, terminal, chunks, spoiled, causes>>
    BY <1>15 DEF Validate, system, record, flags, output
  <2>2. result' = "success" =>
          ~spoiled /\ \A i \in 1 .. Len(reviews) : reviews[i].answer = "resume"
    BY <2>1 DEF ValidEvidence, ReviewsMatch
  <2> QED
    BY <2>1, <2>2 DEF TypeOK, Locations
<1>16. CASE UNCHANGED vars
  <2>1. /\ UNCHANGED <<room, dropped, pc, origin, directive, polls, reviews, initialDone,
                       completionDone, terminal, chunks, spoiled, causes, result>>
    BY <1>16 DEF vars, system, record, flags, output
  <2>2. (polls # <<>> /\ Cleared(Latest))' = (polls # <<>> /\ Cleared(Latest))
    BY <2>1, RecordDecides DEF record
  <2> QED
    BY <2>1, <2>2 DEF TypeOK
<1> QED
  BY <1>1, <1>2, <1>3, <1>7, <1>8, <1>9, <1>10, <1>11, <1>12, <1>13, <1>14, <1>15, <1>16
     DEF Next, Monitor, Copy

-------------------------------------------------------------------------------
(* Why a finished copy may still fail: a second inductive invariant, about    *)
(* the record that the evidence is taken from.                                *)

\* The first n reviews and the polls that answer one are the same in turn.
Pairing(n) ==
  \E poll \in [1 .. n -> Answering] :
    /\ \A k \in Answering : \E i \in 1 .. n : poll[i] = k
    /\ \A i, j \in 1 .. n : i < j => poll[i] < poll[j]
    /\ \A i \in 1 .. n :
         /\ reviews[i].accepted /\ reviews[i].answer = "resume"
         /\ polls[poll[i]].answers = reviews[i].shown

\* While an answer waits for its fresh sample, it is the only one without.
Paired ==
  /\ pc \notin {"resume", "ended"} => Pairing(Len(reviews))
  /\ pc = "resume" => Pairing(Len(reviews) - 1)

\* The record begins with the first poll and ends with the directive.
Begun ==
  /\ pc # "ended" => ~terminal /\ result = "none"
  /\ polls = <<>> <=> (pc = "poll" /\ origin = "initial")
  /\ polls # <<>> => polls[1].reason = "initial" /\ Latest.directive = directive
  /\ pc # "ended" /\ (pc \in {"writing", "boundary", "validate"} \/ origin # "initial")
       => initialDone

\* At the end it ends with the last poll, or with the answer to a review of it.
Finished ==
  pc = "validate" => /\ origin = "completion" /\ completionDone
                     /\ Latest.reason \in {"completion", "resume"}

Recorded == Paired /\ Begun /\ Finished /\ FailureHasCause

LEMMA PairingIsMatch ==
  ASSUME TypeOK
  PROVE  Pairing(Len(reviews)) <=> ReviewsMatch
<1>1. DOMAIN reviews = 1 .. Len(reviews)
  BY DEF TypeOK
<1> QED
  BY <1>1 DEF Pairing, ReviewsMatch, InTurn

\* A step that adds no answering poll keeps the pairs.
LEMMA PairingKept ==
  ASSUME NEW n \in Nat, Pairing(n), Answering' = Answering,
         \A k \in Answering : polls'[k] = polls[k],
         \A i \in 1 .. n : reviews'[i] = reviews[i]
  PROVE  Pairing(n)'
<1>1. PICK poll \in [1 .. n -> Answering] :
        /\ \A k \in Answering : \E i \in 1 .. n : poll[i] = k
        /\ \A i, j \in 1 .. n : i < j => poll[i] < poll[j]
        /\ \A i \in 1 .. n :
             /\ reviews[i].accepted /\ reviews[i].answer = "resume"
             /\ polls[poll[i]].answers = reviews[i].shown
  BY DEF Pairing
<1>2. \A i \in 1 .. n : polls'[poll[i]] = polls[poll[i]]
  OBVIOUS
<1>3. \A i \in 1 .. n :
        /\ reviews'[i].accepted /\ reviews'[i].answer = "resume"
        /\ polls'[poll[i]].answers = reviews'[i].shown
  BY <1>1, <1>2
<1> QED
  BY <1>1, <1>3 DEF Pairing

\* An answering poll about the sample of the next review makes one more pair.
LEMMA PairingGrows ==
  ASSUME NEW n \in Nat, NEW last \in Nat, Pairing(n),
         \A k \in Answering : k \in Nat /\ k < last, Answering' = Answering \cup {last},
         \A k \in Answering : polls'[k] = polls[k],
         reviews' = reviews, reviews[n + 1].accepted, reviews[n + 1].answer = "resume",
         polls'[last].answers = reviews[n + 1].shown
  PROVE  Pairing(n + 1)'
<1>1. PICK poll \in [1 .. n -> Answering] :
        /\ \A k \in Answering : \E i \in 1 .. n : poll[i] = k
        /\ \A i, j \in 1 .. n : i < j => poll[i] < poll[j]
        /\ \A i \in 1 .. n :
             /\ reviews[i].accepted /\ reviews[i].answer = "resume"
             /\ polls[poll[i]].answers = reviews[i].shown
  BY DEF Pairing
<1> DEFINE longer == [i \in 1 .. n + 1 |-> IF i = n + 1 THEN last ELSE poll[i]]
<1>2. /\ 1 .. n + 1 = (1 .. n) \cup {n + 1} /\ n + 1 \notin 1 .. n
      /\ longer[n + 1] = last /\ \A i \in 1 .. n : longer[i] = poll[i]
  OBVIOUS
<1>3. longer \in [1 .. n + 1 -> Answering']
  BY <1>1, <1>2
<1>4. \A i \in 1 .. n : longer[i] \in Answering
  BY <1>1, <1>2
<1> HIDE DEF longer
<1>5. \A k \in Answering' : \E i \in 1 .. n + 1 : longer[i] = k
  <2>1. ASSUME NEW k \in Answering PROVE \E i \in 1 .. n + 1 : longer[i] = k
    <3>1. PICK i \in 1 .. n : poll[i] = k
      BY <1>1
    <3>2. i \in 1 .. n + 1 /\ longer[i] = k
      BY <1>2, <3>1
    <3> QED
      BY <3>2
  <2>2. n + 1 \in 1 .. n + 1 /\ longer[n + 1] = last
    BY <1>2
  <2> QED
    BY <2>1, <2>2
<1>6. \A i, j \in 1 .. n + 1 : i < j => longer[i] < longer[j]
  <2> SUFFICES ASSUME NEW i \in 1 .. n + 1, NEW j \in 1 .. n + 1, i < j
               PROVE  longer[i] < longer[j]
    OBVIOUS
  <2>1. i \in 1 .. n
    OBVIOUS
  <2>2. CASE j \in 1 .. n
    BY <1>1, <1>2, <2>1, <2>2
  <2>3. CASE j = n + 1
    <3>1. longer[i] \in Nat /\ longer[i] < last /\ longer[j] = last
      BY <1>2, <1>4, <2>1, <2>3
    <3> QED
      BY <3>1
  <2> QED
    BY <1>2, <2>2, <2>3
<1>7. \A i \in 1 .. n + 1 :
        /\ reviews'[i].accepted /\ reviews'[i].answer = "resume"
        /\ polls'[longer[i]].answers = reviews'[i].shown
  <2>1. \A i \in 1 .. n : polls'[longer[i]] = polls[poll[i]]
    BY <1>1, <1>2
  <2>2. ASSUME NEW i \in 1 .. n
        PROVE  /\ reviews'[i].accepted /\ reviews'[i].answer = "resume"
               /\ polls'[longer[i]].answers = reviews'[i].shown
    BY <1>1, <2>1
  <2>3. /\ reviews'[n + 1].accepted /\ reviews'[n + 1].answer = "resume"
        /\ polls'[longer[n + 1]].answers = reviews'[n + 1].shown
    BY <1>2
  <2> QED
    BY <1>2, <2>2, <2>3
<1> QED
  BY <1>3, <1>5, <1>6, <1>7 DEF Pairing

\* One more sample: which polls answer a review, and how the record now begins and
\* ends.
LEMMA SampleFacts ==
  ASSUME TypeOK, NEW reason \in Origins \cup {"resume"}, NEW d \in Directives,
         NEW a \in Nat, NEW seen \in Rooms, Published(reason, seen, d, a)
  PROVE  /\ \A k \in Answering : k \in Nat /\ k < Len(polls) + 1
         /\ Len(polls) \in Nat
         /\ \A k \in Answering : polls'[k] = polls[k]
         /\ reason # "resume" => Answering' = Answering
         /\ reason = "resume" => Answering' = Answering \cup {Len(polls) + 1}
         /\ polls'[Len(polls) + 1].answers = a
         /\ polls'[1].reason = IF polls = <<>> THEN reason ELSE polls[1].reason
         /\ polls' # <<>> /\ Latest'.reason = reason /\ Latest'.directive = d
         /\ directive' = d
<1>1. /\ polls' \in Seq(Samples) /\ polls' # <<>> /\ Len(polls') = Len(polls) + 1
      /\ Latest' = [reason |-> reason, seen |-> seen, directive |-> d, answers |-> a]
      /\ \A i \in 1 .. Len(polls) : polls'[i] = polls[i]
      /\ directive' = d
  BY PublishedFacts
<1>2. Len(polls) \in Nat /\ DOMAIN polls = 1 .. Len(polls) /\ polls \in Seq(Samples)
  BY DEF TypeOK
<1>3. DOMAIN polls' = 1 .. Len(polls) + 1
  BY <1>1, <1>2
<1>4. polls'[Len(polls) + 1] = Latest'
  BY <1>1 DEF Latest
<1>5. \A k \in Answering : k \in 1 .. Len(polls) /\ polls'[k] = polls[k]
  BY <1>1, <1>2 DEF Answering
<1>6. 1 .. Len(polls) + 1 = (1 .. Len(polls)) \cup {Len(polls) + 1}
  BY <1>2
<1>7. \A k \in 1 .. Len(polls) + 1 :
        polls'[k].reason = "resume" <=> k \in Answering \/ (k = Len(polls) + 1 /\ reason = "resume")
  <2>1. ASSUME NEW k \in 1 .. Len(polls)
        PROVE  polls'[k].reason = "resume" <=> k \in Answering
    BY <1>1, <1>2 DEF Answering
  <2>2. polls'[Len(polls) + 1].reason = reason
    BY <1>1, <1>4
  <2>3. Len(polls) + 1 \notin 1 .. Len(polls) /\ Len(polls) + 1 \notin Answering
    BY <1>2 DEF Answering
  <2> QED
    BY <1>6, <2>1, <2>2, <2>3
<1>8. Answering' = {k \in 1 .. Len(polls) + 1 : polls'[k].reason = "resume"}
  BY <1>3 DEF Answering
<1>9. polls'[1].reason = IF polls = <<>> THEN reason ELSE polls[1].reason
  <2>1. CASE polls = <<>>
    BY <1>1, <1>4, <2>1
  <2>2. CASE polls # <<>>
    BY <1>1, <1>2, <2>2
  <2> QED
    BY <2>1, <2>2
<1>10. reason # "resume" => Answering' = Answering
  BY <1>5, <1>6, <1>7, <1>8
<1>11. reason = "resume" => Answering' = Answering \cup {Len(polls) + 1}
  BY <1>5, <1>6, <1>7, <1>8
<1> QED
  BY <1>1, <1>2, <1>4, <1>5, <1>9, <1>10, <1>11

\* A step that leaves the record alone.
LEMMA RecordKept ==
  ASSUME TypeOK, UNCHANGED record
  PROVE  /\ Pairing(Len(reviews)) => Pairing(Len(reviews))'
         /\ Pairing(Len(reviews) - 1) => Pairing(Len(reviews) - 1)'
         /\ (polls = <<>>)' = (polls = <<>>) /\ Latest' = Latest
         /\ polls'[1] = polls[1] /\ Len(reviews) \in Nat /\ Len(reviews') = Len(reviews)
<1>1. polls' = polls /\ reviews' = reviews /\ Answering' = Answering
  BY DEF record, Answering
<1>2. /\ Pairing(Len(reviews)) => Pairing(Len(reviews))'
      /\ Pairing(Len(reviews) - 1) => Pairing(Len(reviews) - 1)'
  BY <1>1 DEF Pairing
<1>3. Len(reviews) \in Nat
  BY DEF TypeOK
<1> QED
  BY <1>1, <1>2, <1>3 DEF Latest

\* A sample of a poll that is not for a review.
LEMMA PollKeepsPairs ==
  ASSUME TypeOK, NEW reason \in Origins, NEW d \in Directives,
         Published(reason, room, d, 0), UNCHANGED reviews, Pairing(Len(reviews))
  PROVE  Pairing(Len(reviews))'
<1>1. reason # "resume" /\ Len(reviews) \in Nat /\ Len(reviews)' = Len(reviews)
  BY DEF Origins, TypeOK
<1>2. Answering' = Answering /\ \A k \in Answering : polls'[k] = polls[k]
  BY <1>1, RoomInRange, SampleFacts
<1> QED
  BY <1>1, <1>2, PairingKept

\* The fresh sample that an answer was waiting for.
LEMMA FreshSamplePairs ==
  ASSUME TypeOK, Answered, pc = "resume", NEW d \in Directives,
         Published("resume", room, d, Len(polls)), UNCHANGED reviews,
         Pairing(Len(reviews) - 1)
  PROVE  Pairing(Len(reviews))'
<1>1. Len(reviews) - 1 \in Nat /\ Len(polls) \in Nat /\ Len(reviews)' = (Len(reviews) - 1) + 1
  BY DEF TypeOK, Answered
<1>2. /\ reviews[(Len(reviews) - 1) + 1].accepted
      /\ reviews[(Len(reviews) - 1) + 1].answer = "resume"
      /\ reviews[(Len(reviews) - 1) + 1].shown = Len(polls)
  BY <1>1 DEF Answered
<1>3. /\ \A k \in Answering : k \in Nat /\ k < Len(polls) + 1
      /\ Answering' = Answering \cup {Len(polls) + 1}
      /\ \A k \in Answering : polls'[k] = polls[k]
      /\ polls'[Len(polls) + 1].answers = Len(polls)
  BY "resume" \in Origins \cup {"resume"}, <1>1, RoomInRange, SampleFacts
<1>4. PICK n \in Nat : n = Len(reviews) - 1
  BY <1>1
<1>5. PICK last \in Nat : last = Len(polls) + 1
  BY <1>1
<1>6. /\ Pairing(n) /\ reviews[n + 1].accepted /\ reviews[n + 1].answer = "resume"
      /\ polls'[last].answers = reviews[n + 1].shown
      /\ \A k \in Answering : k \in Nat /\ k < last
      /\ Answering' = Answering \cup {last}
      /\ \A k \in Answering : polls'[k] = polls[k]
  BY <1>2, <1>3, <1>4, <1>5
<1>7. Pairing(n + 1)'
  BY <1>6, PairingGrows
<1> QED
  BY <1>1, <1>4, <1>7

LEMMA InitRecorded == Init => Recorded
<1> SUFFICES ASSUME Init PROVE Recorded
  OBVIOUS
<1>1. polls = <<>> /\ Len(reviews) = 0 /\ Answering = {}
  BY DEF Init, Answering
<1>2. Pairing(0)
  <2>1. 1 .. 0 = {}
    OBVIOUS
  <2>2. [i \in 1 .. 0 |-> 0] \in [1 .. 0 -> Answering]
    BY <2>1
  <2> QED
    BY <1>1, <2>1, <2>2 DEF Pairing
<1> QED
  BY <1>1, <1>2 DEF Init, Recorded, Paired, Begun, Finished, FailureHasCause

LEMMA StepRecorded == IInv /\ Recorded /\ [Next]_vars => Recorded'
<1> SUFFICES ASSUME IInv, Recorded, [Next]_vars PROVE Recorded'
  OBVIOUS
<1> USE DEF Recorded, Paired, Begun, Finished, FailureHasCause
<1>0. /\ TypeOK /\ Answered /\ (result # "none" => pc = "ended") /\ Len(reviews) \in Nat
      /\ origin \in Origins
  BY DEF IInv, Witnessed, TypeOK
<1>1. CASE UseRoom \/ FreeRoom \/ UNCHANGED vars
  <2>1. /\ UNCHANGED record
        /\ UNCHANGED <<pc, origin, directive, initialDone, completionDone, terminal, causes,
                       result>>
    BY <1>1 DEF UseRoom, FreeRoom, vars, flags
  <2>2. Paired'
    <3>1. pc' # "resume" /\ pc' # "ended" => Pairing(Len(reviews))'
      BY <1>0, <2>1, RecordKept
    <3>2. pc' = "resume" => Pairing(Len(reviews) - 1)'
      BY <1>0, <2>1, RecordKept
    <3> QED
      BY <3>1, <3>2
  <2> QED
    BY <1>0, <2>1, <2>2, RecordKept
<1>2. CASE NotDue
  <2>1. /\ pc = "poll" /\ origin = "boundary" /\ pc' = "writing" /\ UNCHANGED record
        /\ UNCHANGED <<origin, directive, terminal, causes, result>>
    BY <1>2 DEF NotDue, GoOn, After
  <2>2. initialDone'
    BY <1>2, <2>1 DEF NotDue, GoOn
  <2> QED
    BY <1>0, <2>1, <2>2, RecordKept
<1>3. ASSUME pc \in {"poll", "resume"}, UNCHANGED origin,
             NEW reason \in Origins \cup {"resume"}, NEW a \in Nat,
             polls = <<>> => reason = "initial", ObservationFails(reason, a)
      PROVE  Recorded'
  <2>1. Published(reason, room, "cancel", a) /\ "cancel" \in Directives
    BY <1>3 DEF ObservationFails, Directives
  <2>2. /\ polls' # <<>> /\ Latest'.directive = directive'
        /\ polls'[1].reason = IF polls = <<>> THEN reason ELSE polls[1].reason
    BY <1>0, <2>1, RoomInRange, SampleFacts
  <2>3. pc' = "ended" /\ causes' # {}
    BY <1>3 DEF ObservationFails, Terminal
  <2> QED
    BY <1>3, <2>2, <2>3
<1>4. ASSUME pc \in {"poll", "resume"}, UNCHANGED <<origin, reviews>>,
             NEW reason \in Origins \cup {"resume"}, NEW a \in Nat,
             polls = <<>> => reason = "initial",
             origin = "completion" => reason \in {"completion", "resume"},
             Published(reason, room, "continue", a), GoOn, Pairing(Len(reviews))'
      PROVE  Recorded'
  <2>1. "continue" \in Directives
    BY DEF Directives
  <2>2. /\ polls' # <<>> /\ Latest'.directive = directive' /\ Latest'.reason = reason
        /\ polls'[1].reason = IF polls = <<>> THEN reason ELSE polls[1].reason
    BY <1>0, <1>4, <2>1, RoomInRange, SampleFacts
  <2>3. /\ pc' \in {"validate", "writing"} /\ (pc' = "validate" <=> origin = "completion")
        /\ UNCHANGED <<terminal, causes, result>>
    BY <1>4 DEF GoOn, After
  <2>4. initialDone' /\ (origin = "completion" => completionDone')
    <3>1. origin # "initial" => initialDone
      BY <1>4
    <3> QED
      BY <1>4, <3>1 DEF GoOn
  <2>5. ~terminal /\ result = "none"
    BY <1>4
  <2>6. Paired' /\ Finished'
    BY <1>4, <2>2, <2>3, <2>4
  <2> QED
    BY <1>4, <2>2, <2>3, <2>4, <2>5, <2>6
<1>5. ASSUME pc \in {"poll", "resume"}, UNCHANGED <<origin, reviews>>,
             NEW reason \in Origins \cup {"resume"}, NEW a \in Nat,
             polls = <<>> => reason = "initial",
             Published(reason, room, "review", a), pc' = "review",
             UNCHANGED <<flags, causes, result>>, Pairing(Len(reviews))'
      PROVE  Recorded'
  <2>1. "review" \in Directives
    BY DEF Directives
  <2>2. /\ polls' # <<>> /\ Latest'.directive = directive'
        /\ polls'[1].reason = IF polls = <<>> THEN reason ELSE polls[1].reason
    BY <1>0, <1>5, <2>1, RoomInRange, SampleFacts
  <2>3. ~terminal' /\ result' = "none" /\ (origin # "initial" => initialDone')
    BY <1>5 DEF flags
  <2> QED
    BY <1>5, <2>2, <2>3
<1>6. CASE Poll
  <2>1. /\ pc = "poll" /\ UNCHANGED <<origin, reviews>> /\ 0 \in Nat
        /\ (polls = <<>> => origin = "initial") /\ Pairing(Len(reviews))
    BY <1>6 DEF Poll
  <2>2. CASE ObservationFails(origin, 0)
    BY <1>0, <1>3, <2>1, <2>2
  <2>3. CASE Published(origin, room, "continue", 0) /\ GoOn
    <3>1. Pairing(Len(reviews))'
      BY <1>0, <2>1, <2>3, PollKeepsPairs DEF Directives
    <3> QED
      BY <1>0, <1>4, <2>1, <2>3, <3>1
  <2>4. CASE /\ Published(origin, room, "review", 0) /\ pc' = "review"
             /\ UNCHANGED <<flags, causes, result>>
    <3>1. Pairing(Len(reviews))'
      BY <1>0, <2>1, <2>4, PollKeepsPairs DEF Directives
    <3> QED
      BY <1>0, <1>5, <2>1, <2>4, <3>1
  <2> QED
    BY <1>6, <2>2, <2>3, <2>4 DEF Poll
<1>7. CASE ChooseResume
  <2>1. /\ pc = "review" /\ pc' = "resume"
        /\ UNCHANGED <<origin, directive, polls, initialDone, terminal, causes, result>>
    BY <1>7 DEF ChooseResume, flags
  <2>2. /\ Len(reviews') = Len(reviews) + 1
        /\ \A i \in 1 .. Len(reviews) : reviews'[i] = reviews[i]
    <3> DEFINE new == [shown |-> Len(polls), answer |-> "resume", accepted |-> TRUE]
    <3>1. reviews \in Seq(Answers) /\ polls \in Seq(Samples)
      BY <1>0 DEF TypeOK
    <3>2. new \in Answers /\ reviews' = Append(reviews, new)
      BY <1>7, <3>1 DEF ChooseResume, Reviewed, Answers
    <3> HIDE DEF new
    <3> QED
      BY <3>1, <3>2
  <2>3. Answering' = Answering /\ Latest' = Latest
    BY <2>1 DEF Answering, Latest
  <2>4. Pairing(Len(reviews) - 1)'
    <3>1. PICK n \in Nat : n = Len(reviews)
      BY <1>0
    <3>2. Pairing(n) /\ \A i \in 1 .. n : reviews'[i] = reviews[i]
      BY <2>1, <2>2, <3>1
    <3>3. \A k \in Answering : polls'[k] = polls[k]
      BY <2>1
    <3>4. Pairing(n)'
      BY <2>3, <3>2, <3>3, PairingKept
    <3> QED
      BY <2>2, <3>1, <3>4
  <2> QED
    BY <1>0, <2>1, <2>2, <2>3, <2>4
<1>8. CASE ChooseCancel
  <2>1. /\ pc = "review" /\ pc' = "ended" /\ UNCHANGED origin /\ causes' # {}
        /\ Published("resume", Latest.seen, "cancel", Len(polls)) /\ Len(polls) \in Nat
        /\ Latest.seen \in Rooms
    <3>1. /\ pc = "review" /\ pc' = "ended" /\ UNCHANGED origin /\ causes' # {}
          /\ Published("resume", Latest.seen, "cancel", Len(polls))
          /\ polls \in Seq(Samples) /\ polls # <<>>
      BY <1>0, <1>8 DEF ChooseCancel, Terminal, TypeOK
    <3>2. Latest \in Samples
      BY <3>1 DEF Latest
    <3> QED
      BY <3>1, <3>2 DEF Samples
  <2>2. /\ polls' # <<>> /\ Latest'.directive = directive'
        /\ polls'[1].reason = IF polls = <<>> THEN "resume" ELSE polls[1].reason
    BY <1>0, <2>1, SampleFacts DEF Directives
  <2>3. polls # <<>>
    BY <2>1
  <2> QED
    BY <2>1, <2>2, <2>3
<1>9. CASE Resume
  <2>1. /\ pc = "resume" /\ UNCHANGED <<origin, reviews>> /\ Len(polls) \in Nat
        /\ polls # <<>> /\ Pairing(Len(reviews) - 1)
    BY <1>0, <1>9 DEF Resume, TypeOK
  <2>2. CASE ObservationFails("resume", Len(polls))
    BY <1>3, <2>1, <2>2
  <2>3. CASE Published("resume", room, "continue", Len(polls)) /\ GoOn
    <3>1. Pairing(Len(reviews))'
      BY <1>0, <2>1, <2>3, FreshSamplePairs DEF Directives
    <3> QED
      BY <1>4, <2>1, <2>3, <3>1
  <2>4. CASE /\ Published("resume", room, "review", Len(polls)) /\ pc' = "review"
             /\ UNCHANGED <<flags, causes, result>>
    <3>1. Pairing(Len(reviews))'
      BY <1>0, <2>1, <2>4, FreshSamplePairs DEF Directives
    <3> QED
      BY <1>5, <2>1, <2>4, <3>1
  <2> QED
    BY <1>9, <2>2, <2>3, <2>4 DEF Resume
<1>10. CASE WriteChunk
  <2>1. /\ pc = "writing" /\ pc' = "boundary" /\ UNCHANGED record
        /\ UNCHANGED <<origin, directive, initialDone, terminal, causes, result>>
    BY <1>10 DEF WriteChunk, flags
  <2> QED
    BY <1>0, <2>1, RecordKept
<1>11. CASE ReachBoundary
  <2>1. /\ pc = "boundary" /\ pc' = "poll" /\ origin' = "boundary" /\ UNCHANGED record
        /\ UNCHANGED <<directive, initialDone, terminal, causes, result>>
    BY <1>11 DEF ReachBoundary, flags
  <2> QED
    BY <1>0, <2>1, RecordKept
<1>12. CASE CopyEnds
  <2>1. /\ pc' = "ended" /\ causes' # {} /\ UNCHANGED record
        /\ pc \in {"writing", "boundary"} /\ UNCHANGED <<origin, directive>>
    BY <1>12 DEF CopyEnds
  <2> QED
    BY <1>0, <2>1, RecordKept
<1>13. CASE CopyDone
  <2>1. /\ pc = "writing" /\ pc' = "poll" /\ origin' = "completion" /\ UNCHANGED record
        /\ UNCHANGED <<directive, initialDone, terminal, causes, result>>
    BY <1>13 DEF CopyDone, flags
  <2> QED
    BY <1>0, <2>1, RecordKept
<1>14. CASE Validate
  <2>1. /\ pc = "validate" /\ pc' = "ended" /\ UNCHANGED record
        /\ result' = IF ValidEvidence THEN "success" ELSE "failed"
        /\ UNCHANGED <<origin, directive>>
    BY <1>14 DEF Validate
  <2>2. /\ origin = "completion" /\ initialDone /\ completionDone /\ ~terminal
        /\ polls # <<>> /\ polls[1].reason = "initial" /\ Latest.directive = directive
        /\ directive = "continue" /\ Latest.reason \in {"completion", "resume"}
    BY <1>0, <2>1 DEF TypeOK
  <2>3. ReviewsMatch
    BY <1>0, <2>1, PairingIsMatch
  <2>4. Len(polls) >= 2
    <3>1. Len(polls) \in Nat /\ Len(polls) # 0
      BY <1>0, <2>2 DEF TypeOK
    <3>2. Len(polls) # 1
      BY <2>2 DEF Latest
    <3> QED
      BY <3>1, <3>2
  <2>5. Latest.reason = "completion" => ValidEvidence
    BY <2>2, <2>3, <2>4 DEF ValidEvidence
  <2>6. result' = "failed" => Latest.reason = "resume"
    BY <2>1, <2>2, <2>5
  <2> QED
    BY <1>0, <2>1, <2>2, <2>6, RecordKept
<1> QED
  BY <1>1, <1>2, <1>6, <1>7, <1>8, <1>9, <1>10, <1>11, <1>12, <1>13, <1>14
     DEF Next, Monitor, Copy

-------------------------------------------------------------------------------
(* The results.                                                               *)

THEOREM Invariant == Spec => []IInv
<1>1. IInv /\ [Next]_vars => IInv'
  BY StepIInv
<1> QED
  BY <1>1, InitIInv, PTL DEF Spec

\* Every reachable state has its type, and the copy is only at work while the last
\* directive lets it go on.
THEOREM TypeCorrect == Spec => []TypeOK
<1>1. IInv => TypeOK
  BY DEF IInv
<1> QED
  BY <1>1, Invariant, PTL

\* A copy that succeeds was read from snapshots that lasted to its last chunk.
THEOREM SuccessIsHeld == Spec => []SuccessMeansHeld
<1>1. IInv => SuccessMeansHeld
  BY DEF IInv
<1> QED
  BY <1>1, Invariant, PTL

\* Every chunk is written under a sample that is without danger, or that the user
\* let pass and that was no worse than the one they saw.
THEOREM OutputIsReviewed == Spec => NoUnreviewedOutput
<1>1. IInv /\ [Next]_vars => [chunks' # chunks => polls # <<>> /\ Cleared(Latest)]_vars
  <2> SUFFICES ASSUME IInv, Next, chunks' # chunks PROVE polls # <<>> /\ Cleared(Latest)
    OBVIOUS
  <2>1. WriteChunk
    BY DEF Next, Monitor, Copy, UseRoom, FreeRoom, NotDue, Poll, ChooseResume,
       ChooseCancel, Resume, ReachBoundary, CopyEnds, CopyDone, Validate, output
  <2> QED
    BY <2>1 DEF IInv, Licensed, Copying, WriteChunk
<1> QED
  BY <1>1, Invariant, PTL DEF Spec, NoUnreviewedOutput

\* A copy that nobody and nothing spoke against fails only where the last poll was
\* the first to see a danger, and the user let it pass.
THEOREM FailureIsCaused == Spec => []FailureHasCause
<1>1. IInv /\ Recorded /\ [Next]_vars => Recorded'
  BY StepRecorded
<1>2. Recorded => FailureHasCause
  BY DEF Recorded
<1> QED
  BY <1>1, <1>2, InitRecorded, Invariant, PTL DEF Spec
===============================================================================
