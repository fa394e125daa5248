----------------------------- MODULE StagedFile ------------------------------
(* What TsumugiStagedFileV1 promises to the code that holds one: a file that  *)
(* was written and verified under a name of its own is either given the final *)
(* name or taken away again; when neither works it is left where it is.       *)
EXTENDS Naturals

VARIABLES
  turn,  \* runs so far
  file   \* of the current run

FileStates == {"none", "staged", "left", "published"}

FileInit == file = "none"

\* A new run.
FileBegin == turn' = turn + 1 /\ file' = "none"

\* The verified file is handed over.
FileStage == file = "none" /\ file' = "staged"

\* It could not be written, and what there was of it is gone, or is not.
FileStageFails == file = "none" /\ file' \in {"none", "left"}

FileCommit == file = "staged" /\ file' = "published"

FileAbort == file \in {"staged", "left"} /\ file' = "none"
FileAbortFails == file \in {"staged", "left"} /\ file' = "left"

\* The process is gone, and nobody else claims the file.
FileOrphaned == file \in {"none", "staged", "left"} /\ file' = "left"

FileStep == \/ FileStage \/ FileStageFails \/ FileCommit
            \/ FileAbort \/ FileAbortFails \/ FileOrphaned

FileNext == FileBegin \/ (FileStep /\ UNCHANGED turn)

FileSpec == FileInit /\ [][FileNext]_<<turn, file>>
==============================================================================
