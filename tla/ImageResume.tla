----------------------------- MODULE ImageResume -----------------------------
(* The resumable image writer, prepare_resumable_tsumugi_file_v1: an image    *)
(* partial, a journal with one frame for each verified chunk and the record   *)
(* of the resume slot, which names how far both are good.  The process may    *)
(* die or the power go between any two steps, and a user may change the files *)
(* while no run has them open.                                                *)
(*                                                                            *)
(* A file is what its places hold.  Place 0 of the image is the reserved area *)
(* for header and metadata, places 1 .. Chunks are the chunks, the last is    *)
(* the footer; place 0 of the journal is its header, the others are frames.   *)
(* A file reaches up to its last place that is not absent.                    *)
(*                                                                            *)
(* The record is kept on another disk than the files and is durable when it   *)
(* is written.  The two files are only there for good once they are flushed.  *)
EXTENDS Integers

CONSTANTS Chunks,     \* chunks of the planned image
          Zeros,      \* those of zeroes, which take no room in the image
          MaxDamages  \* changes of the files by others

ASSUME ChunksAssumption == Chunks \in Nat /\ Zeros \subseteq 1 .. Chunks
ASSUME DamagesAssumption == MaxDamages \in Nat

VARIABLES
  image, journal, names,     \* the files that exist and what a read returns
  mImage, mJournal, mNames,  \* what a power loss leaves of them
  slot,                      \* the progress recorded in the resume slot
  pc,                        \* where the run is
  damages                    \* changes of the files by others

cache == <<image, journal, names>>
medium == <<mImage, mJournal, mNames>>
vars == <<cache, medium, slot, pc, damages>>

Footer == Chunks + 1
ImagePlaces == 0 .. Footer
JournalPlaces == 0 .. Chunks
ImageRoom == ImagePlaces \ Zeros  \* the places that take room
Contents == {"absent", "reserved", "good", "bad"}
Written == {"good", "bad"}  \* what may become of a write

Files == {"image", "journal"}
NoImage == [i \in ImagePlaces |-> "absent"]
NoJournal == [i \in JournalPlaces |-> "absent"]

Progress == [phase : {"none", "preparing", "prepared", "commit_ready"},
             count : 0 .. Chunks]
Record(phase, count) == [phase |-> phase, count |-> count]

Locations == {"idle", "reset", "resetJournal", "reserve", "flushReserved",
              "header", "flushHeader", "recordPrepared",
              "cut", "flushCut", "cutJournal", "flushCutJournal",
              "append", "chunk", "flushChunk", "frame", "flushFrame", "recordChunk",
              "finalize", "flushFinal", "footer", "flushFooter", "scan",
              "done", "refused"}

Init ==
  /\ image = NoImage /\ journal = NoJournal /\ names = {}
  /\ mImage = NoImage /\ mJournal = NoJournal /\ mNames = {}
  /\ slot = Record("none", 0) /\ pc = "idle" /\ damages = 0

-------------------------------------------------------------------------------
(* What a run finds out about the files.                                      *)

\* The places that the record counts on.
NamedImage ==
  CASE slot.phase = "prepared" -> (0 .. slot.count) \ Zeros
    [] slot.phase = "commit_ready" -> ImageRoom
    [] OTHER -> {}
NamedJournal ==
  IF slot.phase \in {"prepared", "commit_ready"} THEN 0 .. slot.count ELSE {}

Reaches(file, places) ==
  \A i \in places : \E j \in DOMAIN file : j >= i /\ file[j] # "absent"

Exceeds(file, n) == \E j \in DOMAIN file : j > n /\ file[j] # "absent"

LongEnough == Reaches(image, NamedImage) /\ Reaches(journal, NamedJournal)

\* verify_resume_prefix: frames and chunks up to the recorded count.
PrefixVerified ==
  /\ \A i \in 0 .. slot.count : journal[i] = "good"
  /\ \A i \in (1 .. slot.count) \ Zeros : image[i] = "good"

\* verify_open_handle.
Whole(file) == \A i \in ImageRoom : file[i] = "good"

\* Mutant: a finished image is taken for whole without reading it.
AcceptableUnread ==
  /\ names = Files /\ LongEnough
  /\ slot.phase = "prepared" => PrefixVerified

\* A missing file is never made anew.
Acceptable ==
  /\ names = Files /\ LongEnough
  /\ slot.phase # "preparing" => PrefixVerified
  /\ slot.phase = "commit_ready" => slot.count = Chunks /\ Whole(image)

-------------------------------------------------------------------------------
(* The start of a run.                                                        *)

\* Two empty files are created, unflushed, then the slot's record, which is
\* durable before the first write; the answer to its creation may be lost.
Create ==
  /\ pc = "idle" /\ slot.phase = "none"
  /\ names' = Files
  /\ slot' = Record("preparing", 0)
  /\ pc' \in {"reset", "idle"}
  /\ UNCHANGED <<image, journal, medium, damages>>

\* What the record says is left to do, after what an interrupted run has written
\* behind it is cut off.
NextAfterChecks ==
  CASE slot.phase = "preparing" -> "reset"
    [] slot.phase = "commit_ready" -> "done"
    [] OTHER -> IF Exceeds(image, slot.count) THEN "cut"
                ELSE IF Exceeds(journal, slot.count) THEN "cutJournal" ELSE "append"

\* Both files must be there, and their lengths, frames and chunks are checked
\* before anything is touched.
Reopen ==
  /\ pc = "idle" /\ slot.phase # "none"
  /\ pc' = IF Acceptable THEN NextAfterChecks ELSE "refused"
  /\ UNCHANGED <<cache, medium, slot, damages>>

-------------------------------------------------------------------------------
(* Steps of a run.  A write may go wrong; the read-back that follows its      *)
(* flush lets only a good one pass.                                           *)

Goto(here, next) == pc = here /\ pc' = next /\ UNCHANGED <<slot, damages>>

\* A flush takes the file's existence with its contents.
FlushImage(here, next) ==
  /\ Goto(here, next)
  /\ mImage' = image /\ mNames' = mNames \cup {"image"}
  /\ UNCHANGED <<cache, mJournal>>

FlushJournal(here, next) ==
  /\ Goto(here, next)
  /\ mJournal' = journal /\ mNames' = mNames \cup {"journal"}
  /\ UNCHANGED <<cache, mImage>>

SetImage(new) == image' = new /\ UNCHANGED <<journal, names, medium>>
SetJournal(new) == journal' = new /\ UNCHANGED <<image, names, medium>>

\* set_file_length of a file that is longer: its end goes; what was never written
\* of the rest are zeroes, and not what it should be.
Upto(file, room, n) ==
  [i \in DOMAIN file |-> CASE i > n -> "absent"
                           [] i <= n /\ i \in room /\ file[i] = "absent" -> "bad"
                           [] OTHER -> file[i]]

\* The slot is replaced durably; its answer may be lost, which ends the run.
Replace(here, record, next) ==
  /\ pc = here /\ pc' \in {next, "idle"}
  /\ slot' = record
  /\ UNCHANGED <<cache, medium, damages>>

-------------------------------------------------------------------------------
(* initialize_resume_owned_files                                              *)

ResetImage == Goto("reset", "resetJournal") /\ SetImage(NoImage)
ResetJournal == Goto("resetJournal", "reserve") /\ SetJournal(NoJournal)

Reserve ==
  /\ Goto("reserve", "flushReserved")
  /\ \E w \in {"reserved", "bad"} : SetImage([image EXCEPT ![0] = w])

FlushReserved == FlushImage("flushReserved", "header")

WriteHeader ==
  /\ Goto("header", "flushHeader") /\ image[0] = "reserved"
  /\ \E w \in Written : SetJournal([journal EXCEPT ![0] = w])

FlushHeader == FlushJournal("flushHeader", "recordPrepared")

RecordPrepared ==
  Replace("recordPrepared", Record("prepared", 0), "append") /\ journal[0] = "good"

-------------------------------------------------------------------------------
(* What an interrupted run wrote after its last record is cut off.            *)

CutImage == Goto("cut", "flushCut") /\ SetImage(Upto(image, ImageRoom, slot.count))

\* Mutant: a longer journal is left as it is when the image was cut.
FlushCutImageOnly == FlushImage("flushCut", "append")

FlushCut ==
  FlushImage("flushCut", IF Exceeds(journal, slot.count) THEN "cutJournal" ELSE "append")

CutJournal ==
  Goto("cutJournal", "flushCutJournal") /\ SetJournal(Upto(journal, JournalPlaces, slot.count))

FlushCutJournal == FlushJournal("flushCutJournal", "append")

-------------------------------------------------------------------------------
(* append_verified_resume_chunk and the loop around it                        *)

Current == slot.count + 1

AtRecord ==
  LongEnough /\ ~Exceeds(image, slot.count) /\ ~Exceeds(journal, slot.count)

\* The lengths are compared with the record once more.
StartChunk ==
  /\ slot.count < Chunks
  /\ Goto("append", CASE ~AtRecord -> "refused"
                      [] AtRecord /\ Current \in Zeros -> "frame"
                      [] OTHER -> "chunk")
  /\ UNCHANGED <<cache, medium>>

WriteChunk ==
  /\ Goto("chunk", "flushChunk")
  /\ \E w \in Written : SetImage([image EXCEPT ![Current] = w])

\* Mutant: the chunk is read back without a flush.
FlushChunkSkipped == Goto("flushChunk", "frame") /\ UNCHANGED <<cache, medium>>

FlushChunk == FlushImage("flushChunk", "frame")

WriteFrame ==
  /\ Goto("frame", "flushFrame")
  /\ Current \notin Zeros => image[Current] = "good"
  /\ \E w \in Written : SetJournal([journal EXCEPT ![Current] = w])

FlushFrame == FlushJournal("flushFrame", "recordChunk")

RecordChunk ==
  /\ Replace("recordChunk", Record("prepared", Current), "append")
  /\ journal[Current] = "good"

-------------------------------------------------------------------------------
(* finalize_resume_partial                                                    *)

VerifyPrefix ==
  /\ slot.count = Chunks
  /\ Goto("append", IF PrefixVerified THEN "finalize" ELSE "refused")
  /\ UNCHANGED <<cache, medium>>

\* Header and metadata, up to where the footer will be.
Finalize ==
  /\ Goto("finalize", "flushFinal")
  /\ \E w \in Written : SetImage([Upto(image, ImageRoom, Chunks) EXCEPT ![0] = w])

FlushFinal == FlushImage("flushFinal", "footer")

\* The footer has the hash of what is read back of the image.
WriteFooter ==
  /\ Goto("footer", "flushFooter")
  /\ \E w \in Written : SetImage([image EXCEPT ![Footer] = w])

FlushFooter == FlushImage("flushFooter", "scan")

RecordReady ==
  Replace("scan", Record("commit_ready", Chunks), "done") /\ Whole(image)

-------------------------------------------------------------------------------
(* The end of a run and the environment.                                      *)

\* The caller takes the result; an error, a cancellation or the death of the
\* process ends the run anywhere, and its files stay.
Leave ==
  /\ pc # "idle" /\ pc' = "idle"
  /\ UNCHANGED <<cache, medium, slot, damages>>

\* The system writes a place of a file, perhaps not to the end, or the creation or
\* removal of one when it likes.
WriteBack ==
  /\ \/ \E i \in ImagePlaces :
          /\ "image" \in names \cap mNames /\ image[i] # mImage[i]
          /\ \E w \in {image[i], "bad"} : mImage' = [mImage EXCEPT ![i] = w]
          /\ UNCHANGED <<mJournal, mNames>>
     \/ \E i \in JournalPlaces :
          /\ "journal" \in names \cap mNames /\ journal[i] # mJournal[i]
          /\ \E w \in {journal[i], "bad"} : mJournal' = [mJournal EXCEPT ![i] = w]
          /\ UNCHANGED <<mImage, mNames>>
     \/ \E f \in names \ mNames :
          mNames' = mNames \cup {f} /\ UNCHANGED <<mImage, mJournal>>
     \/ \E f \in mNames \ names :
          /\ mNames' = mNames \ {f}
          /\ mImage' = IF f = "image" THEN NoImage ELSE mImage
          /\ mJournal' = IF f = "journal" THEN NoJournal ELSE mJournal
  /\ UNCHANGED <<cache, slot, pc, damages>>

\* A file that was never flushed may be gone, and the record stays.
PowerLoss ==
  /\ image' = mImage /\ journal' = mJournal /\ names' = mNames /\ pc' = "idle"
  /\ UNCHANGED <<medium, slot, damages>>

\* While no run holds the files, anybody may spoil, shorten or remove them.
DamageImage ==
  /\ "image" \in names
  /\ \/ \E i \in ImageRoom :
          \/ SetImage([image EXCEPT ![i] = "bad"])
          \/ Exceeds(image, i - 1) /\ SetImage(Upto(image, ImageRoom, i - 1))
     \/ /\ image' = NoImage /\ names' = names \ {"image"}
        /\ UNCHANGED <<journal, medium>>

DamageJournal ==
  /\ "journal" \in names
  /\ \/ \E i \in JournalPlaces :
          \/ SetJournal([journal EXCEPT ![i] = "bad"])
          \/ Exceeds(journal, i - 1) /\ SetJournal(Upto(journal, JournalPlaces, i - 1))
     \/ /\ journal' = NoJournal /\ names' = names \ {"journal"}
        /\ UNCHANGED <<image, medium>>

Damage ==
  /\ pc = "idle" /\ slot.phase # "none"
  /\ damages < MaxDamages /\ damages' = damages + 1
  /\ DamageImage \/ DamageJournal
  /\ UNCHANGED <<slot, pc>>

Initialize == ResetImage \/ ResetJournal \/ Reserve \/ FlushReserved
                \/ WriteHeader \/ FlushHeader \/ RecordPrepared
Cut == CutImage \/ FlushCut \/ CutJournal \/ FlushCutJournal
Append == StartChunk \/ WriteChunk \/ FlushChunk
            \/ WriteFrame \/ FlushFrame \/ RecordChunk
Complete == VerifyPrefix \/ Finalize \/ FlushFinal \/ WriteFooter
              \/ FlushFooter \/ RecordReady

Next == Create \/ Reopen \/ Initialize \/ Cut \/ Append \/ Complete
          \/ Leave \/ WriteBack \/ PowerLoss \/ Damage

Spec == Init /\ [][Next]_vars

-------------------------------------------------------------------------------
(* Properties                                                                 *)

\* Every variable has its type.
TypeOK ==
  /\ image \in [ImagePlaces -> Contents] /\ mImage \in [ImagePlaces -> Contents]
  /\ journal \in [JournalPlaces -> Contents] /\ mJournal \in [JournalPlaces -> Contents]
  /\ names \subseteq Files /\ mNames \subseteq Files
  /\ slot \in Progress /\ pc \in Locations /\ damages \in 0 .. MaxDamages

Intact == damages = 0

\* A record never counts what a power loss can take: both files, chunks and frames
\* up to its count are on the medium, with the reserved area, and the whole image
\* once it is ready to be committed (the flushes before each replacement).
CheckpointIsDurable ==
  Intact /\ slot.phase \in {"prepared", "commit_ready"} =>
    /\ mNames = Files
    /\ \A i \in 0 .. slot.count : mJournal[i] = "good"
    /\ \A i \in (1 .. slot.count) \ Zeros : mImage[i] = "good"
    /\ mImage[0] # "absent"
    /\ slot.phase = "commit_ready" => Whole(mImage)

\* However often and wherever runs were broken off, the checks of the next one
\* pass.  One window is left: the first record is durable before the files it
\* names are, and a power loss there can take a file; nothing was saved yet.
ResumeNotRefused ==
  Intact /\ pc = "refused" => slot.phase = "preparing" /\ names # Files

\* An image reported ready is whole and on the medium, also when somebody has
\* changed its files between two runs.
SuccessIsWhole ==
  pc = "done" => Whole(image) /\ Whole(mImage) /\ "image" \in names \cap mNames
=============================================================================
