----------------------------- MODULE StagedImage -----------------------------
(* The image file of a run, from the .partial it is written under to its      *)
(* final name: prepare_verified_tsumugi_file_v1, commit_partial and the clean *)
(* up of OwnedPartial.  Three names of one directory matter.  The process may *)
(* die or the power go between any two steps, and others may take a free name *)
(* or a file nobody has open, also between the look at a name and the removal *)
(* of what it stands for.  A directory change that a power loss takes back    *)
(* leaves a state that an earlier crash leaves as well: the directory is      *)
(* taken to keep its changes in order, as NTFS logs them.  Data is lost up to *)
(* the last flush.                                                            *)
EXTENDS Integers

CONSTANTS MaxRuns,  \* runs with the same final name
          Nothing,  \* a name that is free
          Foreign   \* a file that no run made

Generations == 0 .. MaxRuns  \* 0 is an image from before the first run
Names == {"final", "partial", "recovery"}

ASSUME RunsAssumption == MaxRuns \in Nat
ASSUME FilesAssumption ==
  Nothing \notin Generations /\ Foreign \notin Generations /\ Nothing # Foreign

VARIABLES
  dir,      \* what each name stands for
  whole,    \* the images a reader finds complete and right
  flushed,  \* the medium has all that the run has written
  run,
  pc,       \* where the run is
  open,     \* the handle of the partial file is held
  locked,   \* initial_final, held with locked_final_handle
  handed,   \* the staged file is with the caller
  result,
  late      \* history: names foreign files took after the run's last look

process == <<pc, open, locked, handed, result>>
vars == <<dir, whole, flushed, run, process, late>>

Locations == {"idle", "create", "body", "flushBody", "footer", "flushFooter",
              "verify", "staged", "retire", "publish", "rollBack", "tidy",
              "tidyRemove", "cleanUp", "remove", "drop", "dropRemove"}
Building == {"body", "flushBody", "footer", "flushFooter", "verify"}
Results == {"none", "refused", "failed", "committed", "lost"}

Init ==
  /\ dir \in {[n \in Names |-> Nothing],
              [n \in Names |-> IF n = "final" THEN 0 ELSE Nothing]}
  /\ whole = {0} /\ flushed = TRUE
  /\ run = 0 /\ pc = "idle" /\ open = FALSE /\ locked = Nothing
  /\ handed = FALSE /\ result = "none" /\ late = {}

Free(n) == dir[n] = Nothing

\* SetFileInformationByHandle with ReplaceIfExists off.
Renamed(old, new) ==
  Free(new) /\ dir' = [dir EXCEPT ![new] = dir[old], ![old] = Nothing]

Removed(n) == dir' = [dir EXCEPT ![n] = Nothing]

-------------------------------------------------------------------------------
(* Preparing.                                                                 *)

\* validate_build_request: nothing is claimed that the run did not make.
Acceptable(replace) ==
  /\ Free("final") \/ replace
  /\ Free("partial") /\ Free("recovery")

Begin ==
  /\ pc = "idle" /\ run < MaxRuns
  /\ run' = run + 1
  /\ flushed' = TRUE /\ handed' = FALSE
  /\ \E replace \in BOOLEAN :
       \/ /\ Acceptable(replace)
          /\ pc' = "create" /\ locked' = dir["final"] /\ result' = "none"
       \/ pc' = "idle" /\ locked' = Nothing /\ result' = "refused"
  /\ UNCHANGED <<dir, whole, open, late>>

\* CREATE_NEW; before it only the lock has to go.
Create ==
  /\ pc = "create"
  /\ \/ /\ Free("partial")
        /\ dir' = [dir EXCEPT !["partial"] = run]
        /\ pc' = "body" /\ open' = TRUE
        /\ UNCHANGED <<locked, result>>
     \/ /\ pc' = "idle" /\ locked' = Nothing /\ result' = "failed"
        /\ UNCHANGED <<dir, open>>
  /\ UNCHANGED <<whole, flushed, run, late, handed>>

Goto(next) == pc' = next /\ UNCHANGED <<open, locked, handed, result>>

\* Reserved area, chunks, header and metadata.
WriteBody ==
  /\ pc = "body" /\ Goto("flushBody")
  /\ flushed' = FALSE
  /\ UNCHANGED <<dir, whole, run, late>>

Flush(here, next) ==
  /\ pc = here /\ Goto(next)
  /\ flushed' = TRUE
  /\ UNCHANGED <<dir, whole, run, late>>

FlushBody == Flush("flushBody", "footer")

\* The global hash is read back and the footer written.  What the medium made of
\* the writes may be wrong.
WriteFooter ==
  /\ pc = "footer" /\ Goto("flushFooter")
  /\ flushed' = FALSE
  /\ whole' \in {whole, whole \cup {run}}
  /\ UNCHANGED <<dir, run, late>>

\* Mutant: the footer is not flushed.
FlushFooterSkipped ==
  /\ pc = "flushFooter" /\ Goto("verify")
  /\ UNCHANGED <<dir, whole, flushed, run, late>>

FlushFooter == Flush("flushFooter", "verify")

HandOver == pc' = "staged" /\ handed' = TRUE /\ UNCHANGED <<open, locked, result>>

\* The complete scan.  The fast one reads the ends of the file again and takes
\* the chunks from the read-back after each write.
Verify ==
  /\ pc = "verify" /\ run \in whole /\ HandOver
  /\ UNCHANGED <<dir, whole, flushed, run, late>>

-------------------------------------------------------------------------------
(* Giving up.                                                                 *)

\* Cleanup begins by closing the handle.
Close == pc' = "cleanUp" /\ open' = FALSE /\ result' = "failed"
         /\ UNCHANGED <<locked, handed>>

\* Any call, poll or boundary of the writer: fail_and_cleanup.
BuildFails ==
  /\ pc \in Building /\ Close
  /\ UNCHANGED <<dir, whole, flushed, run, late>>

\* The caller's decision, or what it does after a failed commit.
Abort ==
  /\ pc = "staged" /\ Close
  /\ UNCHANGED <<dir, whole, flushed, run, late>>

Leave == pc' = "idle" /\ locked' = Nothing /\ UNCHANGED <<open, handed, result>>

\* The destructor tries once more, and that is all.
StillOwned == \/ pc \in {"cleanUp", "remove"} /\ Goto("drop")
              \/ pc \in {"drop", "dropRemove"} /\ Leave

ToRemove == \/ pc = "cleanUp" /\ Goto("remove")
            \/ pc = "drop" /\ Goto("dropRemove")

\* Mutant: what now has the name is removed without a look at its identity.
CleanUpByName ==
  /\ pc \in {"cleanUp", "drop"} /\ late' = {}
  /\ ToRemove \/ StillOwned
  /\ UNCHANGED <<dir, whole, flushed, run>>

\* OwnedPartial::cleanup, once more in the destructor: the look at the name, with
\* the handle closed.
CleanUp ==
  /\ pc \in {"cleanUp", "drop"} /\ late' = {}
  /\ \/ dir["partial"] = run /\ ToRemove
     \/ Free("partial") /\ Leave
     \/ StillOwned
  /\ UNCHANGED <<dir, whole, flushed, run>>

\* DeleteFileW takes whatever has the name by now.
RemovePartial ==
  /\ pc \in {"remove", "dropRemove"} /\ late' = {}
  /\ \/ ~Free("partial") /\ Removed("partial") /\ Leave
     \/ UNCHANGED dir /\ StillOwned
  /\ UNCHANGED <<whole, flushed, run>>

-------------------------------------------------------------------------------
(* commit_partial: every failure leaves the file staged.                      *)

Unchanged == dir["partial"] = run /\ dir["final"] = locked

Committed == open' = FALSE /\ result' = "committed"

\* No image to replace.
CommitNew ==
  /\ pc = "staged" /\ Unchanged /\ locked = Nothing
  /\ Renamed("partial", "final")
  /\ Committed /\ pc' = "idle"
  /\ UNCHANGED <<whole, flushed, run, late, locked, handed>>

BeginReplace ==
  /\ pc = "staged" /\ Unchanged /\ locked # Nothing /\ Free("recovery")
  /\ Goto("retire")
  /\ UNCHANGED <<dir, whole, flushed, run, late>>

\* Mutant: the old image is removed to make room for the new one.
RetireByRemoval ==
  /\ pc = "retire"
  /\ Removed("final") /\ Goto("publish")
  /\ UNCHANGED <<whole, flushed, run, late>>

Retire ==
  /\ pc = "retire"
  /\ \/ Renamed("final", "recovery") /\ Goto("publish")
     \/ UNCHANGED dir /\ Goto("staged")
  /\ UNCHANGED <<whole, flushed, run, late>>

Publish ==
  /\ pc = "publish"
  /\ \/ /\ Renamed("partial", "final")
        /\ Committed /\ pc' = "tidy"
        /\ UNCHANGED <<locked, handed>>
     \/ UNCHANGED dir /\ Goto("rollBack")
  /\ UNCHANGED <<whole, flushed, run, late>>

\* The old image gets its name back, or stays under the recovery name.
RollBack ==
  /\ pc = "rollBack" /\ Goto("staged")
  /\ Renamed("recovery", "final") \/ UNCHANGED dir
  /\ UNCHANGED <<whole, flushed, run, late>>

\* The recovery file, its handle closed, goes if it is still the old image.
Tidy ==
  /\ pc = "tidy" /\ late' = {}
  /\ \/ dir["recovery"] = locked /\ Goto("tidyRemove")
     \/ Leave
  /\ UNCHANGED <<dir, whole, flushed, run>>

\* Mutant: the wrong one of the two is removed.
TidySwapped ==
  /\ pc = "tidyRemove" /\ late' = {} /\ Leave
  /\ Removed("final")
  /\ UNCHANGED <<whole, flushed, run>>

TidyRemove ==
  /\ pc = "tidyRemove" /\ late' = {} /\ Leave
  /\ \/ ~Free("recovery") /\ Removed("recovery")
     \/ UNCHANGED dir
  /\ UNCHANGED <<whole, flushed, run>>

-------------------------------------------------------------------------------
(* The world around it.                                                       *)

Lost(images) ==
  /\ whole' = images
  /\ pc' = "idle" /\ open' = FALSE /\ locked' = Nothing
  /\ result' = IF pc = "idle" THEN result ELSE "lost"
  /\ late' = {}
  /\ UNCHANGED <<dir, run, handed>>

ProcessDies == Lost(whole) /\ UNCHANGED flushed

\* What was not flushed is torn.
PowerLoss ==
  /\ Lost(IF flushed THEN whole ELSE whole \ {run})
  /\ flushed' = TRUE

\* The steps between a look at a name and the removal of what it stands for.
Removing == {"remove", "dropRemove", "tidyRemove"}

\* Another program saves a file under a free name.
ForeignAppears ==
  /\ \E n \in Names :
       /\ Free(n) /\ dir' = [dir EXCEPT ![n] = Foreign]
       /\ late' = IF pc \in Removing THEN late \cup {n} ELSE late
  /\ UNCHANGED <<whole, flushed, run, process>>

\* The handle of the old image is closed once the new one has its name.
Held(n) ==
  \/ n = "partial" /\ open
  \/ locked # Nothing /\ dir[n] = locked /\ pc \notin {"tidy", "tidyRemove"}

\* The user clears what a run left behind, or a foreign file, out of the way.
UserClears ==
  /\ \E n \in Names :
       /\ ~Held(n)
       /\ \/ n = "partial"
          \/ dir[n] = Foreign
          \/ n = "recovery" /\ dir["final"] \in whole
       /\ ~Free(n) /\ Removed(n)
  /\ UNCHANGED <<whole, flushed, run, late, process>>

\* The user gives an image kept for recovery its name back.
UserRestores ==
  /\ ~Held("recovery") /\ ~Free("recovery")
  /\ Renamed("recovery", "final")
  /\ UNCHANGED <<whole, flushed, run, late, process>>

-------------------------------------------------------------------------------
Prepare == Begin \/ Create \/ WriteBody \/ FlushBody \/ WriteFooter
           \/ FlushFooter \/ Verify \/ BuildFails
Commit == CommitNew \/ BeginReplace \/ Retire \/ Publish \/ RollBack
          \/ Tidy \/ TidyRemove
Discard == Abort \/ CleanUp \/ RemovePartial

Program == Prepare \/ Commit \/ Discard
User == ForeignAppears \/ UserClears \/ UserRestores

Next == Program \/ ProcessDies \/ PowerLoss \/ User

Spec == Init /\ [][Next]_vars

-------------------------------------------------------------------------------
(* Properties.                                                                *)

\* The types, and what the process holds while it is at work.
TypeOK ==
  /\ dir \in [Names -> Generations \cup {Nothing, Foreign}]
  /\ whole \subseteq Generations /\ flushed \in BOOLEAN
  /\ run \in Generations /\ pc \in Locations /\ open \in BOOLEAN
  /\ locked \in Generations \cup {Nothing, Foreign}
  /\ handed \in BOOLEAN /\ result \in Results /\ late \subseteq Names
  /\ open => dir["partial"] = run

\* Whatever stands under the final name, or is kept for recovery, and is not
\* foreign, is an image that was verified and survives a power loss: a crash at
\* any step leaves no half image there.
FinalIsWhole ==
  \A n \in {"final", "recovery"} :
    /\ dir[n] \in whole \cup {Nothing, Foreign}
    /\ dir[n] = run => flushed

\* The image a user gets at: the final one or else the one kept for recovery.
Image ==
  IF dir["final"] \in whole THEN dir["final"]
  ELSE IF dir["recovery"] \in whole THEN dir["recovery"] ELSE -1

\* An image that was there is only ever succeeded by a later one: no failure,
\* crash or rollback of a replacement leaves the destination without it.
ImageNeverLost == [][Image' >= Image]_vars

\* A foreign file is moved or removed by a run only if it is the one the user
\* agreed to have replaced, or if it took the name of the run's own file after
\* the run's last look at that name: the removal goes by name
\* (tsumugi_stream.cpp: OwnedPartial::cleanup, the end of commit_partial).
ForeignUntouched ==
  [][Program /\ locked # Foreign =>
       \A n \in Names : dir[n] = Foreign => dir'[n] = Foreign \/ n \in late]_vars

\* How the file of the current run looks to the code that holds it.
FileOfRun ==
  IF dir["final"] = run /\ run > 0 THEN "published"
  ELSE IF pc \in {"idle", "drop", "dropRemove"}
    THEN IF dir["partial"] = run THEN "left" ELSE "none"
    ELSE IF handed THEN "staged" ELSE "none"

Promise == INSTANCE StagedFile WITH turn <- run, file <- FileOfRun

\* The writer and its commit keep the promise the online backup is built on.
ImplementsStagedFile == Promise!FileSpec
==============================================================================
