-------------------------- MODULE StagedImage_proofs --------------------------
(* Proofs about StagedImage for every number of runs over one final name,     *)
(* every crash, power loss and failure, and everything others do with the     *)
(* names the run has no hold on.                                              *)
EXTENDS StagedImage, TLAPS

-------------------------------------------------------------------------------
(* The inductive invariant.                                                   *)

Files == Generations \cup {Nothing, Foreign}
Committing == {"staged", "retire", "publish", "rollBack"}
Unpublished == {"create", "cleanUp", "remove", "drop", "dropRemove"} \cup Building \cup Committing

\* No name stands for an image of a run to come, and the image of the current
\* run is never the one that is kept for recovery.
Dated ==
  /\ \A n \in Names : dir[n] \in Generations => dir[n] <= run
  /\ dir["recovery"] # run
  /\ pc \in Unpublished => dir["final"] # run
  /\ pc # "idle" => run > 0

\* The handle and the hand-over.
Holding ==
  /\ open <=> pc \in Building \cup Committing
  /\ pc \in {"create"} \cup Building => ~handed
  /\ pc \in Committing => handed

\* What a run has before it may publish.
Sound ==
  /\ pc = "verify" => flushed
  /\ pc \in Committing => run \in whole /\ flushed

\* Where the old and the new image are while they are swapped.
Swapping ==
  /\ pc = "retire" => locked # Nothing /\ dir["final"] = locked
  /\ pc \in {"publish", "rollBack"} => locked # Nothing /\ dir["recovery"] = locked
  /\ pc \in {"tidy", "tidyRemove"} => dir["final"] = run /\ run \in whole

\* A foreign file under a name the run has looked at came after the look.
Looked ==
  /\ pc \in {"remove", "dropRemove"} /\ dir["partial"] = Foreign => "partial" \in late
  /\ pc = "tidyRemove" /\ dir["recovery"] = Foreign =>
       locked = Foreign \/ "recovery" \in late

IInv == TypeOK /\ Dated /\ Holding /\ Sound /\ Swapping /\ Looked /\ FinalIsWhole

-------------------------------------------------------------------------------
(* What a change of the directory does.                                       *)

LEMMA Distinct ==
  /\ Nothing # Foreign /\ Generations \subseteq Int
  /\ \A g \in Generations : g # Nothing /\ g # Foreign
  BY RunsAssumption, FilesAssumption DEF Generations

LEMMA RenamedFacts ==
  ASSUME TypeOK, NEW old \in Names, NEW new \in Names, old # new, Renamed(old, new)
  PROVE  /\ dir' \in [Names -> Files]
         /\ dir[new] = Nothing /\ dir'[new] = dir[old] /\ dir'[old] = Nothing
         /\ \A n \in Names \ {old, new} : dir'[n] = dir[n]
  BY DEF TypeOK, Renamed, Free, Files

LEMMA RemovedFacts ==
  ASSUME TypeOK, NEW name \in Names, Removed(name)
  PROVE  /\ dir' \in [Names -> Files] /\ dir'[name] = Nothing
         /\ \A n \in Names \ {name} : dir'[n] = dir[n]
  BY DEF TypeOK, Removed, Files

\* A change that takes names away or makes them foreign ones disturbs nothing of
\* what the names stand for.
LEMMA ForeignChangeFacts ==
  ASSUME TypeOK, Dated, FinalIsWhole, UNCHANGED <<whole, flushed, run, pc>>,
         \A n \in Names : dir'[n] \in {dir[n], Nothing, Foreign}
  PROVE  Dated' /\ FinalIsWhole'
<1>1. run \in Generations
  BY DEF TypeOK
<1>2. \A n \in Names : dir'[n] \in Generations => dir'[n] = dir[n]
  BY Distinct
<1>3. \A n \in Names : dir'[n] = run => dir'[n] = dir[n]
  BY <1>1, <1>2
<1>4. "final" \in Names /\ "recovery" \in Names
  BY DEF Names
<1>5. Dated'
  BY <1>2, <1>3, <1>4 DEF Dated
<1>6. FinalIsWhole'
  BY <1>3, <1>4 DEF FinalIsWhole
<1> QED
  BY <1>5, <1>6

LEMMA InitIInv == Init => IInv
<1> SUFFICES ASSUME Init PROVE IInv
  OBVIOUS
<1>1. 0 \in Generations /\ run = 0
  BY RunsAssumption DEF Init, Generations
<1>2. /\ dir \in [Names -> Files] /\ dir["recovery"] = Nothing /\ dir["partial"] = Nothing
      /\ dir["final"] \in {0, Nothing}
  BY <1>1 DEF Init, Names, Files
<1>3. TypeOK
  BY <1>1, <1>2 DEF Init, TypeOK, Files, Locations, Results
<1>4. Dated
  <2>1. \A n \in Names : dir[n] \in {0, Nothing}
    BY <1>2 DEF Names
  <2>2. pc = "idle" /\ pc \notin Unpublished
    BY DEF Init, Unpublished, Building, Committing
  <2>3. \A n \in Names : dir[n] \in Generations => dir[n] <= run
    <3>1. 0 <= run
      BY <1>1
    <3> QED
      BY <2>1, <3>1, Distinct
  <2>4. dir["recovery"] # run
    BY <1>1, <1>2, Distinct
  <2> QED
    BY <2>2, <2>3, <2>4 DEF Dated
<1>5. Holding /\ Sound /\ Swapping /\ Looked
  BY DEF Init, Holding, Sound, Swapping, Looked, Building, Committing
<1>6. FinalIsWhole
  BY <1>2 DEF Init, FinalIsWhole
<1> QED
  BY <1>3, <1>4, <1>5, <1>6 DEF IInv

-------------------------------------------------------------------------------
LEMMA StepIInv == IInv /\ [Next]_vars => IInv'
<1> SUFFICES ASSUME IInv, [Next]_vars PROVE IInv'
  OBVIOUS
<1> USE Distinct
<1> USE DEF IInv, TypeOK, Dated, Holding, Sound, Swapping, Looked, FinalIsWhole, Files,
        Unpublished, Building, Committing, Names, Locations, Results
<1>1. CASE Begin
  <2>1. /\ pc = "idle" /\ run' = run + 1 /\ run' \in Generations /\ run' > 0
        /\ UNCHANGED <<dir, whole, open>> /\ flushed' /\ ~handed' /\ ~open /\ late' = late
    BY <1>1, RunsAssumption DEF Begin, Generations
  <2>2. \/ pc' = "create" /\ locked' = dir["final"] /\ result' = "none"
        \/ pc' = "idle" /\ locked' = Nothing /\ result' = "refused"
    BY <1>1 DEF Begin
  <2>3. locked' \in Files /\ handed' = FALSE /\ flushed' = TRUE
    BY <1>1 DEF Begin
  <2>6. TypeOK'
    BY <2>1, <2>2, <2>3
  <2>4. \A n \in Names : dir'[n] \in Generations => dir'[n] <= run /\ dir'[n] # run'
    BY <2>1
  <2>5. Dated'
    <3>1. dir'["recovery"] # run' /\ dir'["final"] # run'
      BY <2>1, <2>4
    <3>2. ASSUME NEW n \in Names, dir'[n] \in Generations PROVE dir'[n] <= run'
      <4>1. dir'[n] <= run /\ dir'[n] \in Int /\ run \in Int
        BY <2>4, <3>2
      <4> QED
        BY <2>1, <4>1
    <3> QED
      BY <2>1, <2>2, <3>1, <3>2
  <2>7. Holding' /\ Sound' /\ Swapping' /\ Looked'
    BY <2>1, <2>2, <2>3
  <2>8. FinalIsWhole'
    BY <2>1
  <2> QED
    BY <2>5, <2>6, <2>7, <2>8
<1>2. CASE Create
  <2>1. CASE Free("partial") /\ dir' = [dir EXCEPT !["partial"] = run]
             /\ pc' = "body" /\ open' = TRUE /\ UNCHANGED <<locked, result>>
    <3>1. /\ dir' \in [Names -> Files] /\ dir'["partial"] = run
          /\ dir'["final"] = dir["final"] /\ dir'["recovery"] = dir["recovery"]
      BY <2>1
    <3> QED
      BY <1>2, <2>1, <3>1 DEF Create
  <2>2. CASE pc' = "idle" /\ locked' = Nothing /\ result' = "failed"
             /\ UNCHANGED <<dir, open>>
    BY <1>2, <2>2 DEF Create
  <2> QED
    BY <1>2, <2>1, <2>2 DEF Create
<1>3. CASE WriteBody
  BY <1>3 DEF WriteBody, Goto
<1>4. CASE FlushBody
  BY <1>4 DEF FlushBody, Flush, Goto
<1>5. CASE WriteFooter
  BY <1>5 DEF WriteFooter, Goto
<1>6. CASE FlushFooter
  BY <1>6 DEF FlushFooter, Flush, Goto
<1>7. CASE Verify
  BY <1>7 DEF Verify, HandOver
<1>8. CASE BuildFails
  BY <1>8 DEF BuildFails, Close
<1>9. CASE CommitNew
  BY <1>9, RenamedFacts DEF CommitNew, Unchanged, Committed
<1>10. CASE BeginReplace
  BY <1>10 DEF BeginReplace, Free, Goto, Unchanged
<1>11. CASE Retire
  BY <1>11, RenamedFacts DEF Retire, Goto
<1>12. CASE Publish
  BY <1>12, RenamedFacts DEF Publish, Goto, Committed
<1>13. CASE RollBack
  BY <1>13, RenamedFacts DEF RollBack, Goto
<1>14. CASE Tidy
  <2>1. /\ pc = "tidy" /\ late' = {} /\ UNCHANGED <<dir, whole, flushed, run, open, handed, result>>
        /\ \/ pc' = "idle" /\ locked' = Nothing
           \/ pc' = "tidyRemove" /\ locked' = locked /\ dir["recovery"] = locked
    BY <1>14 DEF Tidy, Leave, Goto
  <2>2. TypeOK' /\ Dated' /\ FinalIsWhole'
    BY <2>1
  <2> QED
    BY <2>1, <2>2
<1>23. CASE TidyRemove
  <2>1. /\ pc = "tidyRemove" /\ pc' = "idle" /\ locked' = Nothing /\ late' = {}
        /\ UNCHANGED <<whole, flushed, run, open, handed, result>>
    BY <1>23 DEF TidyRemove, Leave
  <2>2. /\ dir' \in [Names -> Files]
        /\ dir'["final"] = dir["final"] /\ dir'["partial"] = dir["partial"]
        /\ dir'["recovery"] \in {Nothing, dir["recovery"]}
    BY <1>23, RemovedFacts DEF TidyRemove
  <2>3. \A n \in Names : dir'[n] \in {Nothing, dir[n]}
    BY <2>2
  <2> QED
    BY <2>1, <2>2, <2>3
<1>15. CASE Abort
  BY <1>15 DEF Abort, Close
<1>16. CASE CleanUp
  <2>1. /\ pc \in {"cleanUp", "drop"} /\ late' = {}
        /\ UNCHANGED <<dir, whole, flushed, run, open, handed, result>>
        /\ \/ pc' \in {"remove", "dropRemove"} /\ locked' = locked /\ dir["partial"] = run
           \/ pc' \in {"idle", "drop"} /\ locked' \in {locked, Nothing}
    BY <1>16 DEF CleanUp, ToRemove, Leave, StillOwned, Goto
  <2>2. TypeOK' /\ Dated' /\ FinalIsWhole'
    BY <2>1
  <2> QED
    BY <2>1, <2>2
<1>24. CASE RemovePartial
  <2>1. /\ pc \in {"remove", "dropRemove"} /\ pc' \in {"idle", "drop"} /\ late' = {}
        /\ locked' \in {locked, Nothing}
        /\ UNCHANGED <<whole, flushed, run, open, handed, result>>
    BY <1>24 DEF RemovePartial, Leave, StillOwned, Goto
  <2>2. /\ dir' \in [Names -> Files]
        /\ dir'["final"] = dir["final"] /\ dir'["recovery"] = dir["recovery"]
        /\ dir'["partial"] \in {Nothing, dir["partial"]}
    BY <1>24, RemovedFacts DEF RemovePartial
  <2>3. ~open /\ \A n \in Names : dir'[n] \in {Nothing, dir[n]}
    BY <2>1, <2>2
  <2>4. TypeOK' /\ Holding' /\ Sound' /\ Swapping' /\ Looked'
    BY <2>1, <2>2, <2>3
  <2>5. Dated'
    <3>1. \A n \in Names : dir'[n] \in Generations => dir'[n] = dir[n]
      BY <2>3, Distinct
    <3> QED
      BY <2>1, <2>2, <3>1
  <2>6. FinalIsWhole'
    BY <2>1, <2>2
  <2> QED
    BY <2>4, <2>5, <2>6
<1>17. CASE ProcessDies
  BY <1>17 DEF ProcessDies, Lost
<1>18. CASE PowerLoss
  BY <1>18 DEF PowerLoss, Lost
<1>19. CASE ForeignAppears
  <2>1. PICK n \in Names :
          /\ Free(n) /\ dir' = [dir EXCEPT ![n] = Foreign]
          /\ late' = IF pc \in Removing THEN late \cup {n} ELSE late
    BY <1>19 DEF ForeignAppears
  <2>2. UNCHANGED <<whole, flushed, run, pc, open, locked, handed, result>>
    BY <1>19 DEF ForeignAppears, process
  <2>3. dir' \in [Names -> Files] /\ dir[n] = Nothing
    BY <2>1 DEF Free
  <2>4. \A k \in Names : dir'[k] = IF k = n THEN Foreign ELSE dir[k]
    BY <2>1
  <2>5. \A k \in Names : dir[k] # Nothing => dir'[k] = dir[k]
    BY <2>3, <2>4
  <2>8. TypeOK'
    <3>1. open => dir["partial"] = run /\ run # Nothing /\ "partial" \in Names
      BY Distinct
    <3>2. open => dir'["partial"] = run
      BY <2>5, <3>1
    <3>3. late' \subseteq Names
      BY <2>1
    <3> QED
      BY <2>2, <2>3, <3>2, <3>3
  <2>6. Dated' /\ FinalIsWhole'
    <3>1. \A k \in Names : dir'[k] \in {dir[k], Nothing, Foreign}
      BY <2>4
    <3> QED
      BY <2>2, <3>1, ForeignChangeFacts
  <2>7. Holding' /\ Sound' /\ Swapping'
    BY <2>2, <2>5
  <2>9. Looked'
    BY <2>1, <2>2, <2>4 DEF Removing
  <2> QED
    BY <2>6, <2>7, <2>8, <2>9
<1>20. CASE UserClears
  <2>1. PICK n \in Names :
          /\ ~Held(n)
          /\ \/ n = "partial"
             \/ dir[n] = Foreign
             \/ n = "recovery" /\ dir["final"] \in whole
          /\ Removed(n)
    BY <1>20 DEF UserClears
  <2>2. UNCHANGED <<whole, flushed, run, pc, open, locked, handed, result, late>>
    BY <1>20 DEF UserClears, process
  <2>3. /\ dir' \in [Names -> Files]
        /\ \A k \in Names : dir'[k] = IF k = n THEN Nothing ELSE dir[k]
    BY <2>1, RemovedFacts
  <2>4. open => dir'["partial"] = dir["partial"]
    BY <2>1, <2>3 DEF Held
  <2>5. \A k \in Names :
          locked # Nothing /\ dir[k] = locked /\ pc \notin {"tidy", "tidyRemove"}
            => dir'[k] = dir[k]
    BY <2>1, <2>3 DEF Held
  <2>6. pc \in {"tidy", "tidyRemove"} => dir'["final"] = dir["final"]
    BY <2>1, <2>3
  <2>10. TypeOK'
    <3>1. open => dir'["partial"] = run
      BY <2>4
    <3> QED
      BY <2>2, <2>3, <3>1
  <2>7. Dated' /\ FinalIsWhole'
    <3>1. \A k \in Names : dir'[k] \in {dir[k], Nothing, Foreign}
      BY <2>3
    <3> QED
      BY <2>2, <3>1, ForeignChangeFacts
  <2>8. Holding' /\ Sound'
    BY <2>2
  <2>9. Swapping'
    BY <2>2, <2>5, <2>6
  <2>11. Looked'
    BY <2>2, <2>3
  <2> QED
    BY <2>7, <2>8, <2>9, <2>10, <2>11
<1>21. CASE UserRestores
  BY <1>21, RenamedFacts DEF UserRestores, process, Free, Held
<1>22. CASE UNCHANGED vars
  BY <1>22 DEF vars, process
<1> QED
  BY <1>1, <1>2, <1>3, <1>4, <1>5, <1>6, <1>7, <1>8, <1>9, <1>10, <1>11, <1>12,
     <1>13, <1>14, <1>15, <1>16, <1>17, <1>18, <1>19, <1>20, <1>21, <1>22, <1>23, <1>24
     DEF Next, Program, Prepare, Commit, Discard, User

-------------------------------------------------------------------------------
(* The image of the destination.                                              *)

LEMMA ImageRange ==
  ASSUME IInv
  PROVE  Image \in Int /\ Image <= run
<1>1. /\ dir["final"] \in whole => dir["final"] \in Int /\ dir["final"] <= run
      /\ dir["recovery"] \in whole => dir["recovery"] \in Int /\ dir["recovery"] <= run
  BY Distinct DEF IInv, TypeOK, Dated, Names
<1>2. run \in Int /\ -1 <= run
  BY RunsAssumption DEF IInv, TypeOK, Generations
<1> QED
  BY <1>1, <1>2 DEF Image

\* The image stays what it is when the two names that matter do.
LEMMA ImageKept ==
  ASSUME IInv, dir'["final"] = dir["final"], dir'["recovery"] = dir["recovery"],
         dir["final"] \in whole' <=> dir["final"] \in whole,
         dir["recovery"] \in whole' <=> dir["recovery"] \in whole
  PROVE  Image' >= Image
<1>1. Image' = Image
  BY DEF Image
<1> QED
  BY <1>1, ImageRange

\* Nor does it change when the one of the two that stands for it is renamed.
LEMMA ImageMoved ==
  ASSUME IInv, whole' = whole, NEW old \in {"final", "recovery"},
         NEW new \in {"final", "recovery"} \ {old}, Renamed(old, new)
  PROVE  Image' >= Image
<1>1. /\ dir[new] = Nothing /\ dir'[new] = dir[old] /\ dir'[old] = Nothing
  BY RenamedFacts DEF IInv, Names
<1>2. Nothing \notin whole
  BY Distinct DEF IInv, TypeOK
<1>3. Image' = Image
  BY <1>1, <1>2 DEF Image
<1> QED
  BY <1>3, ImageRange

LEMMA StepImage == IInv /\ [Next]_vars => [Image' >= Image]_vars
<1> SUFFICES ASSUME IInv, Next PROVE Image' >= Image
  BY DEF vars
<1>1. ASSUME UNCHANGED <<dir, whole>> PROVE Image' >= Image
  BY <1>1, ImageKept
<1>2. Nothing \notin whole /\ Foreign \notin whole /\ run \in Int
  BY Distinct DEF IInv, TypeOK
<1>3. CASE Begin \/ WriteBody \/ FlushBody \/ FlushFooter \/ Verify \/ BuildFails
           \/ BeginReplace \/ Abort \/ Tidy \/ CleanUp \/ ProcessDies
  BY <1>1, <1>3 DEF Begin, WriteBody, FlushBody, FlushFooter, Flush, Verify, BuildFails,
     BeginReplace, Abort, Tidy, CleanUp, ProcessDies, Lost
<1>4. CASE Create
  <2>1. dir'["final"] = dir["final"] /\ dir'["recovery"] = dir["recovery"] /\ whole' = whole
    BY <1>4 DEF Create, IInv, TypeOK, Names
  <2> QED
    BY <2>1, ImageKept
<1>5. CASE WriteFooter
  <2>1. UNCHANGED dir /\ whole' \in {whole, whole \cup {run}} /\ pc = "footer"
    BY <1>5 DEF WriteFooter
  <2>2. dir["final"] # run /\ dir["recovery"] # run
    BY <2>1 DEF IInv, Dated, Unpublished, Building
  <2> QED
    BY <2>1, <2>2, ImageKept
<1>6. CASE CommitNew
  <2>1. /\ dir["final"] = Nothing /\ dir'["final"] = run /\ run \in whole
        /\ whole' = whole /\ UNCHANGED run
    BY <1>6, RenamedFacts DEF CommitNew, Unchanged, IInv, TypeOK, Sound, Committing, Names
  <2>2. Image' = run
    BY <2>1 DEF Image
  <2> QED
    BY <2>2, ImageRange, <1>2
<1>7. CASE Publish
  <2>1. CASE Renamed("partial", "final")
    <3>1. /\ dir'["final"] = dir["partial"] /\ dir["partial"] = run /\ run \in whole
          /\ whole' = whole /\ UNCHANGED run
      BY <1>7, <2>1, RenamedFacts
         DEF Publish, IInv, TypeOK, Sound, Holding, Committing, Names
    <3>2. Image' = run
      BY <3>1 DEF Image
    <3> QED
      BY <3>2, ImageRange, <1>2
  <2>2. CASE UNCHANGED dir
    BY <1>1, <1>7, <2>2 DEF Publish
  <2> QED
    BY <1>7, <2>1, <2>2 DEF Publish
<1>8. CASE Retire
  BY <1>1, <1>8, ImageMoved DEF Retire
<1>9. CASE RollBack
  BY <1>1, <1>9, ImageMoved DEF RollBack
<1>10. CASE UserRestores
  BY <1>10, ImageMoved DEF UserRestores
<1>11. CASE TidyRemove
  <2>1. /\ dir["final"] = run /\ run \in whole /\ whole' = whole
        /\ dir'["final"] = dir["final"]
    BY <1>11, RemovedFacts DEF TidyRemove, IInv, TypeOK, Swapping, Names
  <2>2. Image' = run /\ Image = run
    BY <2>1 DEF Image
  <2> QED
    BY <2>2, <1>2
<1>12. CASE RemovePartial
  <2>1. dir'["final"] = dir["final"] /\ dir'["recovery"] = dir["recovery"] /\ whole' = whole
    BY <1>12, RemovedFacts DEF RemovePartial, IInv, Names
  <2> QED
    BY <2>1, ImageKept
<1>13. CASE PowerLoss
  <2>1. UNCHANGED dir /\ whole' = IF flushed THEN whole ELSE whole \ {run}
    BY <1>13 DEF PowerLoss, Lost
  <2>2. ~flushed => dir["final"] # run /\ dir["recovery"] # run
    BY DEF IInv, FinalIsWhole
  <2> QED
    BY <2>1, <2>2, ImageKept
<1>14. CASE ForeignAppears
  <2>1. /\ whole' = whole
        /\ \A n \in Names : dir'[n] = dir[n] \/ (dir[n] = Nothing /\ dir'[n] = Foreign)
    BY <1>14 DEF ForeignAppears, Free, IInv, TypeOK
  <2>2. Image' = Image
    BY <1>2, <2>1 DEF Image, Names
  <2> QED
    BY <2>2, ImageRange
<1>15. CASE UserClears
  <2>1. PICK n \in Names :
          /\ n = "partial" \/ dir[n] = Foreign \/ (n = "recovery" /\ dir["final"] \in whole)
          /\ Removed(n)
    BY <1>15 DEF UserClears
  <2>2. whole' = whole /\ \A k \in Names : dir'[k] = IF k = n THEN Nothing ELSE dir[k]
    BY <1>15, <2>1, RemovedFacts DEF UserClears, IInv
  <2>3. Image' = Image
    BY <1>2, <2>1, <2>2 DEF Image, Names
  <2> QED
    BY <2>3, ImageRange
<1> QED
  BY <1>3, <1>4, <1>5, <1>6, <1>7, <1>8, <1>9, <1>10, <1>11, <1>12, <1>13, <1>14, <1>15
     DEF Next, Program, Prepare, Commit, Discard, User

-------------------------------------------------------------------------------
(* Foreign files.                                                             *)

LEMMA StepForeign ==
  ASSUME IInv, Program, locked # Foreign, NEW n \in Names, dir[n] = Foreign
  PROVE  dir'[n] = Foreign \/ n \in late
<1>1. run # Foreign /\ Nothing # Foreign /\ TypeOK
  BY Distinct DEF IInv, TypeOK
<1>2. CASE Prepare
  BY <1>1, <1>2 DEF Prepare, Begin, Create, WriteBody, FlushBody, FlushFooter, Flush,
     WriteFooter, Verify, BuildFails, Free, TypeOK
<1>3. CASE BeginReplace \/ Abort
  BY <1>3 DEF BeginReplace, Abort
<1>4. CASE CommitNew
  BY <1>1, <1>4, RenamedFacts DEF CommitNew, Unchanged, Names
<1>5. CASE Retire
  BY <1>1, <1>5, RenamedFacts DEF Retire, IInv, Swapping, Names
<1>6. CASE Publish
  BY <1>1, <1>6, RenamedFacts DEF Publish, IInv, TypeOK, Holding, Committing, Names
<1>7. CASE RollBack
  BY <1>1, <1>7, RenamedFacts DEF RollBack, IInv, Swapping, Names
<1>8. CASE Tidy \/ CleanUp
  BY <1>8 DEF Tidy, CleanUp
<1>9. CASE TidyRemove
  <2>1. n # "recovery" => dir'[n] = dir[n]
    BY <1>1, <1>9, RemovedFacts DEF TidyRemove, Names
  <2>2. n = "recovery" => n \in late
    BY <1>9 DEF TidyRemove, IInv, Looked
  <2> QED
    BY <2>1, <2>2
<1>10. CASE RemovePartial
  <2>1. n # "partial" => dir'[n] = dir[n]
    BY <1>1, <1>10, RemovedFacts DEF RemovePartial, Names
  <2>2. n = "partial" => n \in late
    BY <1>10 DEF RemovePartial, IInv, Looked
  <2> QED
    BY <2>1, <2>2
<1> QED
  BY <1>2, <1>3, <1>4, <1>5, <1>6, <1>7, <1>8, <1>9, <1>10 DEF Program, Commit, Discard

-------------------------------------------------------------------------------
(* The promise of StagedFile.                                                 *)

Step == [Promise!FileNext]_<<run, FileOfRun>>
Published == dir["final"] = run /\ run > 0

LEMMA FileMoves ==
  ASSUME UNCHANGED run,
         \/ FileOfRun' = FileOfRun
         \/ FileOfRun = "none" /\ FileOfRun' \in {"staged", "left"}
         \/ FileOfRun = "staged" /\ FileOfRun' = "published"
         \/ FileOfRun \in {"staged", "left"} /\ FileOfRun' \in {"none", "left"}
  PROVE  Step
  BY DEF Step, Promise!FileNext, Promise!FileStep, Promise!FileStage,
     Promise!FileStageFails, Promise!FileCommit, Promise!FileAbort,
     Promise!FileAbortFails

\* A run that is over, or as good as over, has either given its file the final
\* name or has it no more than left behind.
LEMMA AtRest ==
  ASSUME UNCHANGED run, Published' <=> Published, pc' \in {"idle", "drop", "dropRemove"}
  PROVE  Step
<1>1. CASE Published
  <2>1. FileOfRun' = FileOfRun
    BY <1>1 DEF FileOfRun, Published
  <2> QED
    BY <2>1, FileMoves
<1>2. CASE ~Published
  <2>1. FileOfRun \in {"none", "staged", "left"}
    BY <1>2 DEF FileOfRun, Published
  <2>2. FileOfRun' \in {"none", "left"}
    BY <1>2 DEF FileOfRun, Published
  <2> QED
    BY <2>1, <2>2, FileMoves
<1> QED
  BY <1>1, <1>2

\* What others do to the names.
LEMMA UserSteps ==
  ASSUME IInv, User
  PROVE  UNCHANGED <<run, pc, handed>> /\ (Published' <=> Published)
<1>1. UNCHANGED <<run, pc, handed>>
  BY DEF User, ForeignAppears, UserClears, UserRestores, process
<1>2. run # Nothing /\ run # Foreign /\ dir["recovery"] # run /\ TypeOK
  BY Distinct DEF IInv, TypeOK, Dated
<1>3. CASE ForeignAppears
  <2>1. PICK n \in Names : dir[n] = Nothing /\ dir' = [dir EXCEPT ![n] = Foreign]
    BY <1>3 DEF ForeignAppears, Free
  <2>2. dir'["final"] = IF n = "final" THEN Foreign ELSE dir["final"]
    BY <1>2, <2>1 DEF TypeOK, Names
  <2> QED
    BY <1>1, <1>2, <2>1, <2>2 DEF Published
<1>4. CASE UserClears
  <2>1. PICK n \in Names :
          /\ n = "partial" \/ dir[n] = Foreign \/ (n = "recovery" /\ dir["final"] \in whole)
          /\ Removed(n)
    BY <1>4 DEF UserClears
  <2>2. dir'["final"] = IF n = "final" THEN Nothing ELSE dir["final"]
    BY <1>2, <2>1, RemovedFacts DEF Names
  <2>3. n = "final" => dir["final"] = Foreign
    BY <2>1
  <2> QED
    BY <1>1, <1>2, <2>2, <2>3 DEF Published
<1>5. CASE UserRestores
  <2>1. dir["final"] = Nothing /\ dir'["final"] = dir["recovery"]
    BY <1>2, <1>5, RenamedFacts DEF UserRestores, Names
  <2> QED
    BY <1>1, <1>2, <2>1 DEF Published
<1> QED
  BY <1>3, <1>4, <1>5 DEF User

LEMMA StepImplements == IInv /\ IInv' /\ [Next]_vars => Step
<1> SUFFICES ASSUME IInv, IInv', Next PROVE Step
  BY DEF vars, process, Step, FileOfRun
<1>1. /\ run # Nothing /\ run # Foreign /\ run \in Int /\ TypeOK /\ Dated /\ Holding
      /\ pc' \in Unpublished => dir'["final"] # run'
  BY Distinct DEF IInv, TypeOK, Dated
<1>2. CASE Begin
  <2>1. /\ run' = run + 1 /\ dir' = dir /\ ~handed' /\ pc' \in {"create", "idle"}
    BY <1>2 DEF Begin
  <2>2. \A n \in Names : dir[n] # run + 1
    BY <1>1, <2>1, Distinct DEF IInv, TypeOK, Dated
  <2>3. FileOfRun' = "none"
    BY <2>1, <2>2 DEF FileOfRun, Names
  <2> QED
    BY <2>1, <2>3 DEF Step, Promise!FileNext, Promise!FileBegin
<1>3. CASE WriteBody \/ FlushBody \/ WriteFooter \/ FlushFooter \/ BuildFails
           \/ BeginReplace \/ Abort
  <2>1. /\ UNCHANGED <<dir, run, handed>>
        /\ {pc, pc'} \cap {"idle", "drop", "dropRemove"} = {}
    BY <1>3 DEF WriteBody, FlushBody, WriteFooter, FlushFooter, Flush, BuildFails,
       BeginReplace, Abort, Goto, Close, Building
  <2>2. FileOfRun' = FileOfRun
    BY <2>1 DEF FileOfRun
  <2> QED
    BY <2>1, <2>2, FileMoves
<1>4. CASE Verify
  <2>1. /\ UNCHANGED <<dir, run>> /\ pc = "verify" /\ pc' = "staged" /\ handed'
        /\ ~handed /\ dir["final"] # run
    BY <1>1, <1>4 DEF Verify, HandOver, Holding, Building, Dated, Unpublished
  <2>2. FileOfRun = "none" /\ FileOfRun' = "staged"
    BY <2>1 DEF FileOfRun
  <2> QED
    BY <2>1, <2>2, FileMoves
<1>5. CASE Create
  <2>1. /\ pc = "create" /\ UNCHANGED <<run, handed>> /\ ~handed
        /\ dir["final"] # run /\ dir'["final"] = dir["final"]
    BY <1>1, <1>5 DEF Create, Holding, Dated, Unpublished, TypeOK, Names
  <2>2. CASE pc' = "body"
    <3>1. FileOfRun = "none" /\ FileOfRun' = "none"
      BY <2>1, <2>2 DEF FileOfRun
    <3> QED
      BY <2>1, <3>1, FileMoves
  <2>3. CASE pc' = "idle"
    BY <2>1, <2>3, AtRest DEF Published
  <2> QED
    BY <1>5, <2>2, <2>3 DEF Create
<1>6. ASSUME pc \in Committing, UNCHANGED <<run, handed>>, pc' \in Committing PROVE Step
  <2>1. FileOfRun = "staged" /\ FileOfRun' = "staged"
    BY <1>1, <1>6 DEF FileOfRun, Committing, Unpublished, Dated, Holding
  <2> QED
    BY <1>6, <2>1, FileMoves
<1>7. CASE Retire \/ RollBack
  BY <1>6, <1>7 DEF Retire, RollBack, Goto, Committing
<1>8. ASSUME pc \in Committing, UNCHANGED <<run, handed>>, dir["partial"] = run,
             Renamed("partial", "final")
      PROVE  Step
  <2>1. FileOfRun = "staged"
    BY <1>1, <1>8 DEF FileOfRun, Committing, Unpublished, Dated, Holding
  <2>2. dir'["final"] = run /\ run > 0
    BY <1>1, <1>8, RenamedFacts DEF Names, Dated, Committing
  <2>3. FileOfRun' = "published"
    BY <1>8, <2>2 DEF FileOfRun
  <2> QED
    BY <1>8, <2>1, <2>3, FileMoves
<1>9. CASE CommitNew
  BY <1>8, <1>9 DEF CommitNew, Unchanged, Committing
<1>10. CASE Publish
  <2>1. dir["partial"] = run /\ pc = "publish" /\ UNCHANGED <<run, handed>>
    BY <1>1, <1>10 DEF Publish, Goto, Holding, TypeOK, Committing
  <2>2. CASE Renamed("partial", "final")
    BY <1>8, <2>1, <2>2 DEF Committing
  <2>3. CASE UNCHANGED dir /\ Goto("rollBack")
    BY <1>6, <2>1, <2>3 DEF Goto, Committing
  <2> QED
    BY <1>10, <2>2, <2>3 DEF Publish
<1>11. CASE Tidy \/ TidyRemove
  <2>1. UNCHANGED run /\ dir'["final"] = dir["final"]
    BY <1>1, <1>11, RemovedFacts DEF Tidy, TidyRemove, Names
  <2>2. CASE pc' = "idle"
    BY <2>1, <2>2, AtRest DEF Published
  <2>3. CASE pc' # "idle"
    <3>1. Published /\ Published'
      BY <1>1, <2>1, <2>3, <1>11
         DEF Tidy, TidyRemove, Leave, Published, IInv, Swapping, Dated
    <3>2. FileOfRun' = FileOfRun
      BY <3>1 DEF FileOfRun, Published
    <3> QED
      BY <2>1, <3>2, FileMoves
  <2> QED
    BY <2>2, <2>3
<1>12. CASE CleanUp \/ RemovePartial
  <2>1. UNCHANGED <<run, handed>> /\ dir'["final"] = dir["final"] /\ dir["final"] # run
    BY <1>1, <1>12, RemovedFacts
       DEF CleanUp, ToRemove, RemovePartial, StillOwned, Goto, Leave, Names, Dated, Unpublished
  <2>2. CASE pc' \in {"idle", "drop", "dropRemove"}
    BY <2>1, <2>2, AtRest DEF Published
  <2>3. CASE pc' \notin {"idle", "drop", "dropRemove"}
    <3>1. pc = "cleanUp" /\ pc' = "remove"
      BY <2>3, <1>12 DEF CleanUp, ToRemove, RemovePartial, StillOwned, Goto, Leave
    <3>2. FileOfRun' = FileOfRun
      BY <2>1, <3>1 DEF FileOfRun
    <3> QED
      BY <2>1, <3>2, FileMoves
  <2> QED
    BY <2>2, <2>3
<1>13. CASE ProcessDies \/ PowerLoss
  BY <1>13, AtRest DEF ProcessDies, PowerLoss, Lost, Published
<1>14. CASE User
  <2>1. UNCHANGED <<run, pc, handed>> /\ (Published' <=> Published)
    BY <1>14, UserSteps
  <2>2. CASE pc \in {"idle", "drop", "dropRemove"}
    BY <2>1, <2>2, AtRest
  <2>3. CASE pc \notin {"idle", "drop", "dropRemove"}
    <3>1. FileOfRun' = FileOfRun
      BY <2>1, <2>3 DEF FileOfRun, Published
    <3> QED
      BY <2>1, <3>1, FileMoves
  <2> QED
    BY <2>2, <2>3
<1> QED
  BY <1>2, <1>3, <1>4, <1>5, <1>7, <1>9, <1>10, <1>11, <1>12, <1>13, <1>14
     DEF Next, Program, Prepare, Commit, Discard

-------------------------------------------------------------------------------
(* The results.                                                               *)

THEOREM Invariant == Spec => []IInv
<1>1. IInv /\ [Next]_vars => IInv'
  BY StepIInv
<1> QED
  BY <1>1, InitIInv, PTL DEF Spec

\* Every reachable state has its type, and a run holds the handle of its partial
\* file only while the name stands for it.
THEOREM TypeCorrect == Spec => []TypeOK
<1>1. IInv => TypeOK
  BY DEF IInv
<1> QED
  BY <1>1, Invariant, PTL

\* No crash, power loss or failure leaves half an image under the final name or
\* under the one kept for recovery.
THEOREM OnlyWholeImages == Spec => []FinalIsWhole
<1>1. IInv => FinalIsWhole
  BY DEF IInv
<1> QED
  BY <1>1, Invariant, PTL

\* No step takes the image of the destination away or back to an older one.
THEOREM ImagesAreKept == Spec => ImageNeverLost
<1>1. IInv /\ [Next]_vars => [Image' >= Image]_vars
  BY StepImage
<1> QED
  BY <1>1, Invariant, PTL DEF Spec, ImageNeverLost

\* A run leaves alone every foreign file that it was not told to replace, unless
\* the file took the name of the run's own after the run had looked at it.
THEOREM ForeignIsUntouched == Spec => ForeignUntouched
<1>1. IInv => [Program /\ locked # Foreign =>
                 \A n \in Names : dir[n] = Foreign =>
                   dir'[n] = Foreign \/ n \in late]_vars
  BY StepForeign
<1> QED
  BY <1>1, Invariant, PTL DEF Spec, ForeignUntouched

\* The names of the directory, seen through FileOfRun, keep the promise of
\* StagedFile on which the online backup builds.
THEOREM Refinement == Spec => ImplementsStagedFile
<1>1. Init => Promise!FileInit
  BY FilesAssumption, RunsAssumption
     DEF Init, Promise!FileInit, FileOfRun, Names, Generations
<1>2. IInv /\ IInv' /\ [Next]_vars => [Promise!FileNext]_<<run, FileOfRun>>
  BY StepImplements DEF Step
<1> QED
  BY <1>1, <1>2, Invariant, PTL DEF Spec, ImplementsStagedFile, Promise!FileSpec
==============================================================================
