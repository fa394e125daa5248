-------------------------- MODULE ImageResume_proofs --------------------------
(* Proofs about ImageResume for every number of chunks, any of them zeroes,   *)
(* any number of runs broken off anywhere and any damage between them.        *)
EXTENDS ImageResume, TLAPS

-------------------------------------------------------------------------------
(* The inductive invariant.                                                   *)

Initializing == {"reset", "resetJournal", "reserve", "flushReserved", "header",
                 "flushHeader", "recordPrepared"}
Cutting == {"cut", "flushCut", "cutJournal", "flushCutJournal"}
Appending == {"chunk", "flushChunk", "frame", "flushFrame", "recordChunk"}
Finishing == {"finalize", "flushFinal", "footer", "flushFooter", "scan"}

Recorded == slot.phase \in {"prepared", "commit_ready"}

\* Where a run is, its record and the other's limits agree.
Located ==
  /\ pc \in Initializing => slot.phase = "preparing"
  /\ pc \in Cutting \cup {"append"} \cup Appending \cup Finishing => slot.phase = "prepared"
  /\ pc \in Appending => slot.count < Chunks
  /\ pc \in Finishing => slot.count = Chunks
  /\ slot.phase = "commit_ready" => slot.count = Chunks
  /\ slot.phase = "preparing" => slot.count = 0
  /\ pc \notin {"idle", "refused"} => names = Files

\* A run writes nowhere but behind its record.
Bounded ==
  /\ pc \in (Initializing \ {"reset"}) \cup {"flushCut", "cutJournal", "flushCutJournal",
                                            "append", "chunk"}
       => \A j \in ImagePlaces : j > slot.count => image[j] = "absent"
  /\ pc \in Appending \ {"chunk"}
       => \A j \in ImagePlaces : j > slot.count + 1 => image[j] = "absent"
  /\ pc \in (Initializing \ {"reset", "resetJournal"}) \cup {"flushCutJournal", "append",
                                                            "chunk", "flushChunk", "frame"}
       => \A j \in JournalPlaces : j > slot.count => journal[j] = "absent"
  /\ pc \in {"flushFrame", "recordChunk"}
       => \A j \in JournalPlaces : j > slot.count + 1 => journal[j] = "absent"

\* A file that is not there holds nothing.
Existing ==
  /\ "image" \notin names => image = NoImage
  /\ "journal" \notin names => journal = NoJournal
  /\ "image" \notin mNames => mImage = NoImage
  /\ "journal" \notin mNames => mJournal = NoJournal

\* What has been read back was flushed before.
Reread ==
  /\ pc \in {"header", "flushHeader", "recordPrepared"} => mImage[0] = image[0]
  /\ pc \in {"flushHeader", "recordPrepared"} => image[0] = "reserved"
  /\ pc = "recordPrepared" => mJournal[0] = journal[0]
  /\ pc \in {"frame", "flushFrame", "recordChunk"} /\ Current \notin Zeros
       /\ image[Current] = "good" => mImage[Current] = "good"
  /\ pc \in {"flushFrame", "recordChunk"} /\ Current \notin Zeros => image[Current] = "good"
  /\ pc = "recordChunk" => mJournal[Current] = journal[Current]
  /\ pc = "scan" => mImage = image
  /\ pc \in {"header", "flushHeader", "recordPrepared"} => "image" \in mNames
  /\ pc = "recordPrepared" => "journal" \in mNames

\* What the record counts is on the medium if it is there at all.
Kept ==
  /\ Recorded =>
       /\ \A i \in 0 .. slot.count : journal[i] = "good" => mJournal[i] = "good"
       /\ \A i \in (1 .. slot.count) \ Zeros : image[i] = "good" => mImage[i] = "good"
       /\ names \subseteq mNames
  /\ slot.phase = "commit_ready" =>
       \A i \in ImageRoom : image[i] = "good" => mImage[i] = "good"

\* And it is there, unless somebody has changed it.
Sound ==
  Intact /\ Recorded =>
    /\ names = Files /\ PrefixVerified
    /\ image[0] # "absent" /\ mImage[0] # "absent"
    /\ slot.phase = "commit_ready" => Whole(image)

IInv == /\ TypeOK /\ Located /\ Existing /\ Bounded /\ Reread /\ Kept /\ Sound
        /\ ResumeNotRefused /\ SuccessIsWhole

-------------------------------------------------------------------------------
(* The numbers of places, and what the steps make of a file.                  *)

LEMMA Places ==
  /\ Chunks \in Nat /\ Footer = Chunks + 1 /\ MaxDamages \in Nat
  /\ ImagePlaces = 0 .. Chunks + 1 /\ JournalPlaces = 0 .. Chunks
  /\ \A i : i \in ImageRoom <=> i \in 0 .. Chunks + 1 /\ i \notin Zeros
  /\ 0 \notin Zeros /\ Chunks + 1 \notin Zeros
  BY ChunksAssumption, DamagesAssumption DEF Footer, ImagePlaces, JournalPlaces, ImageRoom

LEMMA UptoImage ==
  ASSUME NEW file \in [ImagePlaces -> Contents], NEW n \in Int
  PROVE  /\ Upto(file, ImageRoom, n) \in [ImagePlaces -> Contents]
         /\ \A i \in ImagePlaces :
              /\ i > n => Upto(file, ImageRoom, n)[i] = "absent"
              /\ i <= n /\ file[i] # "absent" => Upto(file, ImageRoom, n)[i] = file[i]
              /\ Upto(file, ImageRoom, n)[i] = "good" => file[i] = "good"
  BY Places DEF Upto, Contents

LEMMA UptoJournal ==
  ASSUME NEW file \in [JournalPlaces -> Contents], NEW n \in Int
  PROVE  /\ Upto(file, JournalPlaces, n) \in [JournalPlaces -> Contents]
         /\ \A i \in JournalPlaces :
              /\ i > n => Upto(file, JournalPlaces, n)[i] = "absent"
              /\ i <= n /\ file[i] # "absent" => Upto(file, JournalPlaces, n)[i] = file[i]
              /\ Upto(file, JournalPlaces, n)[i] = "good" => file[i] = "good"
  BY Places DEF Upto, Contents

LEMMA ShorterImage ==
  ASSUME TypeOK, NEW n \in Int
  PROVE  /\ Upto(image, ImageRoom, n) \in [ImagePlaces -> Contents]
         /\ \A i \in ImagePlaces :
              i <= n /\ image[i] # "absent" => Upto(image, ImageRoom, n)[i] = image[i]
  BY UptoImage DEF TypeOK

\* The image and the journal after one of them was cut to its first n places.
LEMMA CutImageFacts ==
  ASSUME TypeOK, NEW n \in Int, image' = Upto(image, ImageRoom, n)
  PROVE  /\ image' \in [ImagePlaces -> Contents]
         /\ \A i \in ImagePlaces : i > n => image'[i] = "absent"
         /\ \A i \in ImagePlaces : i <= n /\ image[i] # "absent" => image'[i] = image[i]
         /\ \A i \in ImagePlaces : image'[i] = "good" => image[i] = "good"
<1>1. image \in [ImagePlaces -> Contents]
  BY DEF TypeOK
<1> QED
  BY <1>1, UptoImage

LEMMA CutJournalFacts ==
  ASSUME TypeOK, NEW n \in Int, journal' = Upto(journal, JournalPlaces, n)
  PROVE  /\ journal' \in [JournalPlaces -> Contents]
         /\ \A i \in JournalPlaces : i > n => journal'[i] = "absent"
         /\ \A i \in JournalPlaces : i <= n /\ journal[i] # "absent" => journal'[i] = journal[i]
         /\ \A i \in JournalPlaces : journal'[i] = "good" => journal[i] = "good"
<1>1. journal \in [JournalPlaces -> Contents]
  BY DEF TypeOK
<1> QED
  BY <1>1, UptoJournal

\* The damage somebody does between two runs: one file at a time gets worse.
LEMMA DamageFacts ==
  ASSUME TypeOK, Damage
  PROVE  /\ pc = "idle" /\ UNCHANGED <<medium, slot, pc>>
         /\ names' \subseteq names
         /\ damages' \in 0 .. MaxDamages /\ damages' # 0
         /\ image' \in [ImagePlaces -> Contents]
         /\ journal' \in [JournalPlaces -> Contents]
         /\ \A i \in ImagePlaces : image'[i] = "good" => image[i] = "good"
         /\ \A i \in JournalPlaces : journal'[i] = "good" => journal[i] = "good"
<1>1. /\ pc = "idle" /\ UNCHANGED <<medium, slot, pc>>
      /\ names' \subseteq names
      /\ damages' \in 0 .. MaxDamages /\ damages' # 0
  BY Places DEF Damage, DamageImage, DamageJournal, SetImage, SetJournal, medium, TypeOK
<1>2. image \in [ImagePlaces -> Contents] /\ journal \in [JournalPlaces -> Contents]
  BY DEF TypeOK
<1>3. CASE \E k \in ImageRoom :
             \/ SetImage([image EXCEPT ![k] = "bad"])
             \/ Exceeds(image, k - 1) /\ SetImage(Upto(image, ImageRoom, k - 1))
  <2>1. PICK k \in ImageRoom :
             \/ SetImage([image EXCEPT ![k] = "bad"])
             \/ Exceeds(image, k - 1) /\ SetImage(Upto(image, ImageRoom, k - 1))
    BY <1>3
  <2>2. journal' = journal /\ k \in ImagePlaces /\ k - 1 \in Int
    BY <2>1, Places DEF SetImage
  <2>3. CASE image' = [image EXCEPT ![k] = "bad"]
    BY <1>1, <1>2, <2>2, <2>3 DEF Contents
  <2>4. CASE image' = Upto(image, ImageRoom, k - 1)
    BY <1>1, <1>2, <2>2, <2>4, CutImageFacts
  <2> QED
    BY <2>1, <2>3, <2>4 DEF SetImage
<1>4. CASE \E k \in JournalPlaces :
             \/ SetJournal([journal EXCEPT ![k] = "bad"])
             \/ Exceeds(journal, k - 1) /\ SetJournal(Upto(journal, JournalPlaces, k - 1))
  <2>1. PICK k \in JournalPlaces :
             \/ SetJournal([journal EXCEPT ![k] = "bad"])
             \/ Exceeds(journal, k - 1) /\ SetJournal(Upto(journal, JournalPlaces, k - 1))
    BY <1>4
  <2>2. image' = image /\ k - 1 \in Int
    BY <2>1, Places DEF SetJournal
  <2>3. CASE journal' = [journal EXCEPT ![k] = "bad"]
    BY <1>1, <1>2, <2>2, <2>3 DEF Contents
  <2>4. CASE journal' = Upto(journal, JournalPlaces, k - 1)
    BY <1>1, <1>2, <2>2, <2>4, CutJournalFacts
  <2> QED
    BY <2>1, <2>3, <2>4 DEF SetJournal
<1>5. CASE image' = NoImage /\ journal' = journal
  BY <1>1, <1>2, <1>5 DEF NoImage, Contents
<1>6. CASE journal' = NoJournal /\ image' = image
  BY <1>1, <1>2, <1>6 DEF NoJournal, Contents
<1> QED
  BY <1>3, <1>4, <1>5, <1>6 DEF Damage, DamageImage, DamageJournal

LEMMA ReopenCases ==
  ASSUME TypeOK, Reopen
  PROVE  /\ pc = "idle" /\ UNCHANGED <<cache, medium, slot, damages>>
         /\ pc' # "refused" => names = Files
         /\ \/ ~Acceptable /\ pc' = "refused"
            \/ slot.phase = "preparing" /\ pc' = "reset"
            \/ Acceptable /\ slot.phase = "commit_ready" /\ pc' = "done"
            \/ slot.phase = "prepared" /\ pc' = "cut"
            \/ slot.phase = "prepared" /\ ~Exceeds(image, slot.count) /\ pc' = "cutJournal"
            \/ /\ slot.phase = "prepared" /\ pc' = "append"
               /\ ~Exceeds(image, slot.count) /\ ~Exceeds(journal, slot.count)
<1>1. slot.phase \in {"preparing", "prepared", "commit_ready"}
  BY DEF TypeOK, Progress, Reopen
<1>2. pc = "idle" /\ UNCHANGED <<cache, medium, slot, damages>>
  BY DEF Reopen
<1>3. pc' # "refused" => names = Files
  BY DEF Reopen, Acceptable
<1>4. CASE ~Acceptable
  BY <1>2, <1>3, <1>4 DEF Reopen
<1>5. CASE Acceptable /\ slot.phase = "preparing"
  BY <1>2, <1>3, <1>5 DEF Reopen, NextAfterChecks
<1>6. CASE Acceptable /\ slot.phase = "commit_ready"
  BY <1>2, <1>3, <1>6 DEF Reopen, NextAfterChecks
<1>7. CASE Acceptable /\ slot.phase = "prepared" /\ Exceeds(image, slot.count)
  BY <1>2, <1>3, <1>7 DEF Reopen, NextAfterChecks
<1>8. CASE /\ Acceptable /\ slot.phase = "prepared"
           /\ ~Exceeds(image, slot.count) /\ Exceeds(journal, slot.count)
  BY <1>2, <1>3, <1>8 DEF Reopen, NextAfterChecks
<1>9. CASE /\ Acceptable /\ slot.phase = "prepared"
           /\ ~Exceeds(image, slot.count) /\ ~Exceeds(journal, slot.count)
  BY <1>2, <1>3, <1>9 DEF Reopen, NextAfterChecks
<1> QED
  BY <1>1, <1>2, <1>3, <1>4, <1>5, <1>6, <1>7, <1>8, <1>9

\* The checks of a run pass on what nobody else has changed.
LEMMA Accepted ==
  ASSUME TypeOK, Located, Sound, Intact, slot.phase # "none", names = Files
  PROVE  /\ LongEnough /\ Acceptable
         /\ Recorded => PrefixVerified
<1>1. slot.phase \in {"preparing", "prepared", "commit_ready"} /\ slot.count \in 0 .. Chunks
  BY DEF TypeOK, Progress
<1>2. CASE slot.phase = "preparing"
  BY <1>2 DEF LongEnough, Reaches, NamedImage, NamedJournal, Acceptable, Recorded
<1>3. CASE Recorded
  <2>1. /\ PrefixVerified /\ image[0] # "absent"
        /\ slot.phase = "commit_ready" => slot.count = Chunks /\ Whole(image)
    BY <1>3 DEF Sound, Located
  <2>2. \A i \in NamedImage : i \in ImagePlaces /\ image[i] # "absent"
    BY <1>1, <2>1, Places DEF NamedImage, PrefixVerified, Whole, Recorded
  <2>3. \A i \in NamedJournal : i \in JournalPlaces /\ journal[i] # "absent"
    BY <1>1, <2>1, Places DEF NamedJournal, PrefixVerified
  <2>4. DOMAIN image = ImagePlaces /\ DOMAIN journal = JournalPlaces
    BY DEF TypeOK
  <2>5. LongEnough
    BY <2>2, <2>3, <2>4, Places DEF LongEnough, Reaches
  <2> QED
    BY <1>3, <2>1, <2>5 DEF Acceptable, Recorded
<1> QED
  BY <1>1, <1>2, <1>3 DEF Recorded

LEMMA InitIInv == Init => IInv
<1> SUFFICES ASSUME Init PROVE IInv
  OBVIOUS
<1>1. TypeOK
  BY Places DEF Init, TypeOK, NoImage, NoJournal, Contents, Progress, Record, Locations
<1>2. slot.phase = "none" /\ pc = "idle" /\ slot.count = 0
  BY DEF Init, Record
<1>3. Located /\ Existing /\ Bounded /\ Reread /\ Kept /\ Sound /\ ResumeNotRefused /\ SuccessIsWhole
  BY <1>2 DEF Init, Located, Existing, Bounded, Reread, Kept, Sound, ResumeNotRefused, SuccessIsWhole,
     Recorded, Initializing, Cutting, Appending, Finishing
<1> QED
  BY <1>1, <1>3 DEF IInv

-------------------------------------------------------------------------------
(* Every step keeps the types and the place of the run.                       *)

LEMMA TypeNext ==
  ASSUME IInv, [Next]_vars
  PROVE  TypeOK'
<1> USE Places
<1> USE DEF IInv, TypeOK, Progress, Locations, Contents, Written,
        Goto, FlushImage, FlushJournal, SetImage, SetJournal, Replace, Record, cache, medium, Files
<1>1. CASE Create
  BY <1>1 DEF Create
<1>2. CASE Reopen
  BY <1>2, ReopenCases DEF Reopen
<1>3. CASE ResetImage
  BY <1>3 DEF ResetImage, NoImage
<1>4. CASE ResetJournal
  BY <1>4 DEF ResetJournal, NoJournal
<1>5. CASE Reserve
  BY <1>5 DEF Reserve
<1>6. CASE FlushReserved
  BY <1>6 DEF FlushReserved
<1>7. CASE WriteHeader
  BY <1>7 DEF WriteHeader
<1>8. CASE FlushHeader
  BY <1>8 DEF FlushHeader
<1>9. CASE RecordPrepared
  BY <1>9 DEF RecordPrepared
<1>10. CASE CutImage
  <2>1. /\ image' = Upto(image, ImageRoom, slot.count)
        /\ UNCHANGED <<journal, names, medium, slot, damages>> /\ pc' = "flushCut"
    BY <1>10 DEF CutImage
  <2>2. image' \in [ImagePlaces -> Contents]
    BY <2>1, ShorterImage
  <2> QED
    BY <2>1, <2>2
<1>11. CASE FlushCut
  BY <1>11 DEF FlushCut
<1>12. CASE CutJournal
  <2>1. /\ journal' = Upto(journal, JournalPlaces, slot.count)
        /\ UNCHANGED <<image, names, medium, slot, damages>> /\ pc' = "flushCutJournal"
    BY <1>12 DEF CutJournal
  <2>2. journal' \in [JournalPlaces -> Contents]
    BY <2>1, CutJournalFacts
  <2> QED
    BY <2>1, <2>2
<1>13. CASE FlushCutJournal
  BY <1>13 DEF FlushCutJournal
<1>14. CASE StartChunk
  BY <1>14 DEF StartChunk
<1>15. CASE WriteChunk
  <2>1. PICK w \in Written : image' = [image EXCEPT ![Current] = w]
    BY <1>15 DEF WriteChunk
  <2>2. image' \in [ImagePlaces -> Contents]
    BY <2>1
  <2> QED
    BY <1>15, <2>2 DEF WriteChunk
<1>16. CASE FlushChunk
  BY <1>16 DEF FlushChunk
<1>17. CASE WriteFrame
  <2>1. PICK w \in Written : journal' = [journal EXCEPT ![Current] = w]
    BY <1>17 DEF WriteFrame
  <2>2. journal' \in [JournalPlaces -> Contents]
    BY <2>1
  <2> QED
    BY <1>17, <2>2 DEF WriteFrame
<1>18. CASE FlushFrame
  BY <1>18 DEF FlushFrame
<1>19. CASE RecordChunk
  BY <1>19 DEF RecordChunk, Current, Located, Appending
<1>20. CASE VerifyPrefix
  BY <1>20 DEF VerifyPrefix
<1>21. CASE Finalize
  <2>1. PICK w \in Written : image' = [Upto(image, ImageRoom, Chunks) EXCEPT ![0] = w]
    BY <1>21 DEF Finalize
  <2>2. Upto(image, ImageRoom, Chunks) \in [ImagePlaces -> Contents]
    BY ShorterImage
  <2>3. image' \in [ImagePlaces -> Contents]
    BY <2>1, <2>2
  <2> QED
    BY <1>21, <2>3 DEF Finalize
<1>22. CASE FlushFinal
  BY <1>22 DEF FlushFinal
<1>23. CASE WriteFooter
  BY <1>23 DEF WriteFooter
<1>24. CASE FlushFooter
  BY <1>24 DEF FlushFooter
<1>25. CASE RecordReady
  BY <1>25 DEF RecordReady
<1>26. CASE Leave
  BY <1>26 DEF Leave
<1>27. CASE WriteBack
  <2>1. UNCHANGED <<cache, slot, pc, damages>>
    BY <1>27 DEF WriteBack
  <2>2. mImage' \in [ImagePlaces -> Contents]
    BY <1>27 DEF WriteBack, NoImage
  <2>3. mJournal' \in [JournalPlaces -> Contents]
    <3>1. ASSUME NEW i \in JournalPlaces, NEW w \in {journal[i], "bad"},
                 mJournal' = [mJournal EXCEPT ![i] = w]
          PROVE  mJournal' \in [JournalPlaces -> Contents]
      <4>1. w \in Contents
        BY <3>1
      <4>. QED BY <3>1, <4>1
    <3>2. NoJournal \in [JournalPlaces -> Contents]
      BY DEF NoJournal
    <3>3. \/ UNCHANGED mJournal \/ mJournal' = NoJournal
          \/ \E i \in JournalPlaces : \E w \in {journal[i], "bad"} :
               mJournal' = [mJournal EXCEPT ![i] = w]
      BY <1>27 DEF WriteBack
    <3>. QED BY <3>1, <3>2, <3>3
  <2>4. mNames' \subseteq Files
    BY <1>27 DEF WriteBack
  <2> QED
    BY <2>1, <2>2, <2>3, <2>4
<1>28. CASE PowerLoss
  BY <1>28 DEF PowerLoss
<1>29. CASE Damage
  <2>1. /\ UNCHANGED <<medium, slot, pc>> /\ damages' \in 0 .. MaxDamages
        /\ names' \subseteq Files
        /\ image' \in [ImagePlaces -> Contents] /\ journal' \in [JournalPlaces -> Contents]
    BY <1>29, DamageFacts
  <2> QED
    BY <2>1
<1>30. CASE UNCHANGED vars
  BY <1>30 DEF vars
<1> QED
  BY <1>1, <1>2, <1>3, <1>4, <1>5, <1>6, <1>7, <1>8, <1>9, <1>10, <1>11,
     <1>12, <1>13, <1>14, <1>15, <1>16, <1>17, <1>18, <1>19, <1>20, <1>21,
     <1>22, <1>23, <1>24, <1>25, <1>26, <1>27, <1>28, <1>29, <1>30
     DEF Next, Initialize, Cut, Append, Complete

LEMMA LocatedNext ==
  ASSUME IInv, [Next]_vars
  PROVE  Located'
<1> USE Places
<1> USE DEF IInv, TypeOK, Progress, Located, Initializing, Cutting, Appending, Finishing,
        Goto, FlushImage, FlushJournal, SetImage, SetJournal, Replace, Record, cache, medium, Files
<1>1. CASE Create
  BY <1>1 DEF Create
<1>2. CASE Reopen
  BY <1>2, ReopenCases DEF Reopen, Acceptable
<1>3. CASE ResetImage
  BY <1>3 DEF ResetImage
<1>4. CASE ResetJournal
  BY <1>4 DEF ResetJournal
<1>5. CASE Reserve
  BY <1>5 DEF Reserve
<1>6. CASE FlushReserved
  BY <1>6 DEF FlushReserved
<1>7. CASE WriteHeader
  BY <1>7 DEF WriteHeader
<1>8. CASE FlushHeader
  BY <1>8 DEF FlushHeader
<1>9. CASE RecordPrepared
  BY <1>9 DEF RecordPrepared
<1>10. CASE CutImage
  BY <1>10 DEF CutImage
<1>11. CASE FlushCut
  BY <1>11 DEF FlushCut
<1>12. CASE CutJournal
  BY <1>12 DEF CutJournal
<1>13. CASE FlushCutJournal
  BY <1>13 DEF FlushCutJournal
<1>14. CASE StartChunk
  BY <1>14 DEF StartChunk
<1>15. CASE WriteChunk
  BY <1>15 DEF WriteChunk
<1>16. CASE FlushChunk
  BY <1>16 DEF FlushChunk
<1>17. CASE WriteFrame
  BY <1>17 DEF WriteFrame
<1>18. CASE FlushFrame
  BY <1>18 DEF FlushFrame
<1>19. CASE RecordChunk
  BY <1>19 DEF RecordChunk, Current
<1>20. CASE VerifyPrefix
  BY <1>20 DEF VerifyPrefix
<1>21. CASE Finalize
  BY <1>21 DEF Finalize
<1>22. CASE FlushFinal
  BY <1>22 DEF FlushFinal
<1>23. CASE WriteFooter
  BY <1>23 DEF WriteFooter
<1>24. CASE FlushFooter
  BY <1>24 DEF FlushFooter
<1>25. CASE RecordReady
  BY <1>25 DEF RecordReady
<1>26. CASE Leave
  BY <1>26 DEF Leave
<1>27. CASE WriteBack
  BY <1>27 DEF WriteBack
<1>28. CASE PowerLoss
  BY <1>28 DEF PowerLoss
<1>29. CASE Damage
  BY <1>29 DEF Damage
<1>30. CASE UNCHANGED vars
  BY <1>30 DEF vars
<1> QED
  BY <1>1, <1>2, <1>3, <1>4, <1>5, <1>6, <1>7, <1>8, <1>9, <1>10, <1>11,
     <1>12, <1>13, <1>14, <1>15, <1>16, <1>17, <1>18, <1>19, <1>20, <1>21,
     <1>22, <1>23, <1>24, <1>25, <1>26, <1>27, <1>28, <1>29, <1>30
     DEF Next, Initialize, Cut, Append, Complete

LEMMA ExistingNext ==
  ASSUME IInv, [Next]_vars
  PROVE  Existing'
<1> USE Places
<1> USE DEF IInv, TypeOK, Located, Existing, Initializing, Cutting, Appending, Finishing,
        Goto, FlushImage, FlushJournal, SetImage, SetJournal, Replace, cache, medium, Files
<1>1. CASE Create
  BY <1>1 DEF Create
<1>2. CASE Reopen
  BY <1>2 DEF Reopen
<1>3. CASE ResetImage
  BY <1>3 DEF ResetImage
<1>4. CASE ResetJournal
  BY <1>4 DEF ResetJournal
<1>5. CASE Reserve
  BY <1>5 DEF Reserve
<1>6. CASE FlushReserved
  BY <1>6 DEF FlushReserved
<1>7. CASE WriteHeader
  BY <1>7 DEF WriteHeader
<1>8. CASE FlushHeader
  BY <1>8 DEF FlushHeader
<1>9. CASE RecordPrepared
  BY <1>9 DEF RecordPrepared
<1>10. CASE CutImage
  BY <1>10 DEF CutImage
<1>11. CASE FlushCut
  BY <1>11 DEF FlushCut
<1>12. CASE CutJournal
  BY <1>12 DEF CutJournal
<1>13. CASE FlushCutJournal
  BY <1>13 DEF FlushCutJournal
<1>14. CASE StartChunk
  BY <1>14 DEF StartChunk
<1>15. CASE WriteChunk
  BY <1>15 DEF WriteChunk
<1>16. CASE FlushChunk
  BY <1>16 DEF FlushChunk
<1>17. CASE WriteFrame
  BY <1>17 DEF WriteFrame
<1>18. CASE FlushFrame
  BY <1>18 DEF FlushFrame
<1>19. CASE RecordChunk
  BY <1>19 DEF RecordChunk
<1>20. CASE VerifyPrefix
  BY <1>20 DEF VerifyPrefix
<1>21. CASE Finalize
  BY <1>21 DEF Finalize
<1>22. CASE FlushFinal
  BY <1>22 DEF FlushFinal
<1>23. CASE WriteFooter
  BY <1>23 DEF WriteFooter
<1>24. CASE FlushFooter
  BY <1>24 DEF FlushFooter
<1>25. CASE RecordReady
  BY <1>25 DEF RecordReady
<1>26. CASE Leave
  BY <1>26 DEF Leave
<1>27. CASE WriteBack
  BY <1>27 DEF WriteBack
<1>28. CASE PowerLoss
  BY <1>28 DEF PowerLoss
<1>29. CASE Damage
  BY <1>29 DEF Damage, DamageImage, DamageJournal
<1>30. CASE UNCHANGED vars
  BY <1>30 DEF vars
<1> QED
  BY <1>1, <1>2, <1>3, <1>4, <1>5, <1>6, <1>7, <1>8, <1>9, <1>10, <1>11,
     <1>12, <1>13, <1>14, <1>15, <1>16, <1>17, <1>18, <1>19, <1>20, <1>21,
     <1>22, <1>23, <1>24, <1>25, <1>26, <1>27, <1>28, <1>29, <1>30
     DEF Next, Initialize, Cut, Append, Complete

LEMMA BoundedNext ==
  ASSUME IInv, [Next]_vars
  PROVE  Bounded'
<1> USE Places
<1> USE DEF IInv, TypeOK, Bounded, Initializing, Cutting, Appending, Finishing,
        Goto, FlushImage, FlushJournal, SetImage, SetJournal, Replace, Record, cache, medium, Files
<1>1. CASE Create
  BY <1>1 DEF Create
<1>2. CASE Reopen
  BY <1>2, ReopenCases DEF Reopen, Exceeds
<1>3. CASE ResetImage
  BY <1>3 DEF ResetImage, NoImage, Located, Progress
<1>4. CASE ResetJournal
  BY <1>4 DEF ResetJournal, NoJournal, Located, Progress
<1>5. CASE Reserve
  BY <1>5 DEF Reserve, Located, Progress
<1>6. CASE FlushReserved
  BY <1>6 DEF FlushReserved
<1>7. CASE WriteHeader
  BY <1>7 DEF WriteHeader, Located, Progress
<1>8. CASE FlushHeader
  BY <1>8 DEF FlushHeader
<1>9. CASE RecordPrepared
  BY <1>9 DEF RecordPrepared, Located, Progress
<1>10. CASE CutImage
  <2>1. image' = Upto(image, ImageRoom, slot.count) /\ UNCHANGED <<journal, slot>>
        /\ pc' = "flushCut"
    BY <1>10 DEF CutImage
  <2>2. \A j \in ImagePlaces : j > slot.count => image'[j] = "absent"
    BY <2>1, UptoImage DEF Progress
  <2> QED
    BY <2>1, <2>2
<1>11. CASE FlushCut
  BY <1>11 DEF FlushCut, Exceeds
<1>12. CASE CutJournal
  <2>1. journal' = Upto(journal, JournalPlaces, slot.count) /\ UNCHANGED <<image, slot>>
        /\ pc = "cutJournal" /\ pc' = "flushCutJournal"
    BY <1>12 DEF CutJournal
  <2>2. \A j \in JournalPlaces : j > slot.count => journal'[j] = "absent"
    BY <2>1, UptoJournal DEF Progress
  <2> QED
    BY <2>1, <2>2
<1>13. CASE FlushCutJournal
  BY <1>13 DEF FlushCutJournal
<1>14. CASE StartChunk
  BY <1>14 DEF StartChunk, Progress
<1>15. CASE WriteChunk
  BY <1>15 DEF WriteChunk, Current, Progress
<1>16. CASE FlushChunk
  BY <1>16 DEF FlushChunk
<1>17. CASE WriteFrame
  BY <1>17 DEF WriteFrame, Current, Progress
<1>18. CASE FlushFrame
  BY <1>18 DEF FlushFrame
<1>19. CASE RecordChunk
  BY <1>19 DEF RecordChunk, Current, Progress
<1>20. CASE VerifyPrefix
  BY <1>20 DEF VerifyPrefix
<1>21. CASE Finalize
  BY <1>21 DEF Finalize
<1>22. CASE FlushFinal
  BY <1>22 DEF FlushFinal
<1>23. CASE WriteFooter
  BY <1>23 DEF WriteFooter
<1>24. CASE FlushFooter
  BY <1>24 DEF FlushFooter
<1>25. CASE RecordReady
  BY <1>25 DEF RecordReady
<1>26. CASE Leave
  BY <1>26 DEF Leave
<1>27. CASE WriteBack
  BY <1>27 DEF WriteBack
<1>28. CASE PowerLoss
  BY <1>28 DEF PowerLoss
<1>29. CASE Damage
  BY <1>29 DEF Damage
<1>30. CASE UNCHANGED vars
  BY <1>30 DEF vars
<1> QED
  BY <1>1, <1>2, <1>3, <1>4, <1>5, <1>6, <1>7, <1>8, <1>9, <1>10, <1>11,
     <1>12, <1>13, <1>14, <1>15, <1>16, <1>17, <1>18, <1>19, <1>20, <1>21,
     <1>22, <1>23, <1>24, <1>25, <1>26, <1>27, <1>28, <1>29, <1>30
     DEF Next, Initialize, Cut, Append, Complete

LEMMA RereadNext ==
  ASSUME IInv, [Next]_vars
  PROVE  Reread'
<1> USE Places
<1> USE DEF IInv, TypeOK, Progress, Located, Reread, Current, Initializing, Cutting, Appending, Finishing,
        Goto, FlushImage, FlushJournal, SetImage, SetJournal, Replace, Record, cache, medium, Files
<1>1. CASE Create
  BY <1>1 DEF Create
<1>2. CASE Reopen
  BY <1>2, ReopenCases DEF Reopen
<1>3. CASE ResetImage
  BY <1>3 DEF ResetImage
<1>4. CASE ResetJournal
  BY <1>4 DEF ResetJournal
<1>5. CASE Reserve
  BY <1>5 DEF Reserve
<1>6. CASE FlushReserved
  BY <1>6 DEF FlushReserved
<1>7. CASE WriteHeader
  BY <1>7 DEF WriteHeader
<1>8. CASE FlushHeader
  BY <1>8 DEF FlushHeader
<1>9. CASE RecordPrepared
  BY <1>9 DEF RecordPrepared
<1>10. CASE CutImage
  BY <1>10 DEF CutImage
<1>11. CASE FlushCut
  BY <1>11 DEF FlushCut
<1>12. CASE CutJournal
  BY <1>12 DEF CutJournal
<1>13. CASE FlushCutJournal
  BY <1>13 DEF FlushCutJournal
<1>14. CASE StartChunk
  BY <1>14 DEF StartChunk
<1>15. CASE WriteChunk
  BY <1>15 DEF WriteChunk
<1>16. CASE FlushChunk
  BY <1>16 DEF FlushChunk
<1>17. CASE WriteFrame
  BY <1>17 DEF WriteFrame
<1>18. CASE FlushFrame
  BY <1>18 DEF FlushFrame
<1>19. CASE RecordChunk
  BY <1>19 DEF RecordChunk
<1>20. CASE VerifyPrefix
  BY <1>20 DEF VerifyPrefix
<1>21. CASE Finalize
  BY <1>21 DEF Finalize
<1>22. CASE FlushFinal
  BY <1>22 DEF FlushFinal
<1>23. CASE WriteFooter
  BY <1>23 DEF WriteFooter
<1>24. CASE FlushFooter
  BY <1>24 DEF FlushFooter
<1>25. CASE RecordReady
  BY <1>25 DEF RecordReady
<1>26. CASE Leave
  BY <1>26 DEF Leave
<1>27. CASE WriteBack
  <2>1. UNCHANGED <<cache, slot, pc, damages>>
    BY <1>27 DEF WriteBack
  <2>2. CASE \E i \in ImagePlaces :
                /\ image[i] # mImage[i]
                /\ \E w \in {image[i], "bad"} : mImage' = [mImage EXCEPT ![i] = w]
                /\ UNCHANGED <<mJournal, mNames>>
    BY <2>1, <2>2
  <2>3. CASE \E i \in JournalPlaces :
                /\ journal[i] # mJournal[i]
                /\ \E w \in {journal[i], "bad"} : mJournal' = [mJournal EXCEPT ![i] = w]
                /\ UNCHANGED <<mImage, mNames>>
    BY <2>1, <2>3
  <2>4. CASE \E f \in names \ mNames : mNames' = mNames \cup {f} /\ UNCHANGED <<mImage, mJournal>>
    BY <2>1, <2>4
  <2>5. CASE mNames \ names # {}
    <3>1. pc \in {"idle", "refused"}
      BY <2>5 DEF TypeOK, Located
    <3> QED
      BY <2>1, <3>1
  <2> QED
    BY <1>27, <2>2, <2>3, <2>4, <2>5 DEF WriteBack
<1>28. CASE PowerLoss
  BY <1>28 DEF PowerLoss
<1>29. CASE Damage
  BY <1>29 DEF Damage
<1>30. CASE UNCHANGED vars
  BY <1>30 DEF vars
<1> QED
  BY <1>1, <1>2, <1>3, <1>4, <1>5, <1>6, <1>7, <1>8, <1>9, <1>10, <1>11,
     <1>12, <1>13, <1>14, <1>15, <1>16, <1>17, <1>18, <1>19, <1>20, <1>21,
     <1>22, <1>23, <1>24, <1>25, <1>26, <1>27, <1>28, <1>29, <1>30
     DEF Next, Initialize, Cut, Append, Complete

LEMMA KeptNext ==
  ASSUME IInv, [Next]_vars
  PROVE  Kept'
<1> USE Places
<1> USE DEF IInv, TypeOK, Progress, Located, Kept, Recorded, Current, Initializing, Cutting, Appending, Finishing,
        Goto, FlushImage, FlushJournal, SetImage, SetJournal, Replace, Record, cache, medium, Files
<1>1. CASE Create
  BY <1>1 DEF Create
<1>2. CASE Reopen
  BY <1>2, ReopenCases DEF Reopen
<1>3. CASE ResetImage
  BY <1>3 DEF ResetImage
<1>4. CASE ResetJournal
  BY <1>4 DEF ResetJournal
<1>5. CASE Reserve
  BY <1>5 DEF Reserve
<1>6. CASE FlushReserved
  BY <1>6 DEF FlushReserved
<1>7. CASE WriteHeader
  BY <1>7 DEF WriteHeader
<1>8. CASE FlushHeader
  BY <1>8 DEF FlushHeader
<1>9. CASE RecordPrepared
  BY <1>9 DEF RecordPrepared, Reread
<1>10. CASE CutImage
  <2>1. /\ image' = Upto(image, ImageRoom, slot.count) /\ slot.phase = "prepared"
        /\ UNCHANGED <<journal, names, medium, slot>>
    BY <1>10 DEF CutImage
  <2>2. \A i \in ImagePlaces : image'[i] = "good" => image[i] = "good"
    BY <2>1, CutImageFacts
  <2> QED
    BY <2>1, <2>2
<1>11. CASE FlushCut
  BY <1>11 DEF FlushCut
<1>12. CASE CutJournal
  <2>1. /\ journal' = Upto(journal, JournalPlaces, slot.count) /\ slot.phase = "prepared"
        /\ UNCHANGED <<image, names, medium, slot>>
    BY <1>12 DEF CutJournal
  <2>2. \A i \in JournalPlaces : journal'[i] = "good" => journal[i] = "good"
    BY <2>1, CutJournalFacts
  <2> QED
    BY <2>1, <2>2
<1>13. CASE FlushCutJournal
  BY <1>13 DEF FlushCutJournal
<1>14. CASE StartChunk
  BY <1>14 DEF StartChunk
<1>15. CASE WriteChunk
  BY <1>15 DEF WriteChunk
<1>16. CASE FlushChunk
  BY <1>16 DEF FlushChunk
<1>17. CASE WriteFrame
  BY <1>17 DEF WriteFrame
<1>18. CASE FlushFrame
  BY <1>18 DEF FlushFrame
<1>19. CASE RecordChunk
  BY <1>19 DEF RecordChunk, Reread
<1>20. CASE VerifyPrefix
  BY <1>20 DEF VerifyPrefix
<1>21. CASE Finalize
  <2>1. PICK w \in Written : image' = [Upto(image, ImageRoom, Chunks) EXCEPT ![0] = w]
    BY <1>21 DEF Finalize
  <2>2. slot.phase = "prepared" /\ UNCHANGED <<journal, names, medium, slot>>
    BY <1>21 DEF Finalize
  <2>3. \A i \in ImagePlaces : i # 0 /\ image'[i] = "good" => image[i] = "good"
    BY <2>1, UptoImage
  <2> QED
    BY <2>2, <2>3
<1>22. CASE FlushFinal
  BY <1>22 DEF FlushFinal
<1>23. CASE WriteFooter
  BY <1>23 DEF WriteFooter
<1>24. CASE FlushFooter
  BY <1>24 DEF FlushFooter
<1>25. CASE RecordReady
  BY <1>25 DEF RecordReady, Reread
<1>26. CASE Leave
  BY <1>26 DEF Leave
<1>27. CASE WriteBack
  <2>1. UNCHANGED <<cache, slot>>
    BY <1>27 DEF WriteBack
  <2>2. \A i \in ImagePlaces : image[i] = "good" /\ mImage[i] = "good" => mImage'[i] = "good"
    BY <1>27 DEF WriteBack, Existing, NoImage
  <2>3. \A i \in JournalPlaces :
           journal[i] = "good" /\ mJournal[i] = "good" => mJournal'[i] = "good"
    BY <1>27 DEF WriteBack, Existing, NoJournal
  <2>4. names \subseteq mNames => names \subseteq mNames'
    BY <1>27 DEF WriteBack
  <2> QED
    BY <2>1, <2>2, <2>3, <2>4
<1>28. CASE PowerLoss
  BY <1>28 DEF PowerLoss
<1>29. CASE Damage
  <2>1. /\ UNCHANGED <<medium, slot>> /\ names' \subseteq names
        /\ \A i \in ImagePlaces : image'[i] = "good" => image[i] = "good"
        /\ \A i \in JournalPlaces : journal'[i] = "good" => journal[i] = "good"
    BY <1>29, DamageFacts
  <2> QED
    BY <2>1
<1>30. CASE UNCHANGED vars
  BY <1>30 DEF vars
<1> QED
  BY <1>1, <1>2, <1>3, <1>4, <1>5, <1>6, <1>7, <1>8, <1>9, <1>10, <1>11,
     <1>12, <1>13, <1>14, <1>15, <1>16, <1>17, <1>18, <1>19, <1>20, <1>21,
     <1>22, <1>23, <1>24, <1>25, <1>26, <1>27, <1>28, <1>29, <1>30
     DEF Next, Initialize, Cut, Append, Complete

LEMMA SoundNext ==
  ASSUME IInv, [Next]_vars
  PROVE  Sound'
<1> USE Places
<1> USE DEF IInv, TypeOK, Progress, Located, Sound, Recorded, PrefixVerified, Whole, Intact,
        Current, Initializing, Cutting, Appending, Finishing,
        Goto, FlushImage, FlushJournal, SetImage, SetJournal, Replace, Record, cache, medium, Files
<1>1. CASE Create
  BY <1>1 DEF Create
<1>2. CASE Reopen
  BY <1>2, ReopenCases DEF Reopen
<1>3. CASE ResetImage
  BY <1>3 DEF ResetImage
<1>4. CASE ResetJournal
  BY <1>4 DEF ResetJournal
<1>5. CASE Reserve
  BY <1>5 DEF Reserve
<1>6. CASE FlushReserved
  BY <1>6 DEF FlushReserved
<1>7. CASE WriteHeader
  BY <1>7 DEF WriteHeader
<1>8. CASE FlushHeader
  BY <1>8 DEF FlushHeader
<1>9. CASE RecordPrepared
  BY <1>9 DEF RecordPrepared, Reread
<1>10. CASE CutImage
  <2>1. /\ image' = Upto(image, ImageRoom, slot.count) /\ slot.phase = "prepared"
        /\ UNCHANGED <<journal, names, medium, slot, damages>>
    BY <1>10 DEF CutImage
  <2>2. \A i \in ImagePlaces : i <= slot.count /\ image[i] # "absent" => image'[i] = image[i]
    BY <2>1, CutImageFacts
  <2> QED
    BY <2>1, <2>2
<1>11. CASE FlushCut
  BY <1>11 DEF FlushCut
<1>12. CASE CutJournal
  <2>1. /\ journal' = Upto(journal, JournalPlaces, slot.count)
        /\ UNCHANGED <<image, names, medium, slot, damages>> /\ slot.phase = "prepared"
    BY <1>12 DEF CutJournal
  <2>2. \A i \in 0 .. slot.count : journal[i] = "good" => journal'[i] = "good"
    BY <2>1, CutJournalFacts
  <2> QED
    BY <2>1, <2>2
<1>13. CASE FlushCutJournal
  BY <1>13 DEF FlushCutJournal
<1>14. CASE StartChunk
  BY <1>14 DEF StartChunk
<1>15. CASE WriteChunk
  BY <1>15 DEF WriteChunk
<1>16. CASE FlushChunk
  BY <1>16 DEF FlushChunk
<1>17. CASE WriteFrame
  BY <1>17 DEF WriteFrame
<1>18. CASE FlushFrame
  BY <1>18 DEF FlushFrame
<1>19. CASE RecordChunk
  BY <1>19 DEF RecordChunk, Reread
<1>20. CASE VerifyPrefix
  BY <1>20 DEF VerifyPrefix
<1>21. CASE Finalize
  <2>1. /\ UNCHANGED <<journal, names, medium, slot, damages>>
        /\ slot.phase = "prepared" /\ slot.count = Chunks
    BY <1>21 DEF Finalize
  <2>2. PICK w \in Written : image' = [Upto(image, ImageRoom, Chunks) EXCEPT ![0] = w]
    BY <1>21 DEF Finalize
  <2> DEFINE short == Upto(image, ImageRoom, Chunks)
  <2>3. short \in [ImagePlaces -> Contents] /\ image' = [short EXCEPT ![0] = w]
    BY <2>2, ShorterImage
  <2>4. \A i \in 1 .. Chunks : image[i] = "good" => short[i] = "good"
    <3>1. \A i \in ImagePlaces : i <= Chunks /\ image[i] # "absent" => short[i] = image[i]
      BY ShorterImage
    <3> QED
      BY <3>1
  <2> HIDE DEF short
  <2>5. image'[0] # "absent"
    BY <2>3 DEF Written
  <2>6. \A i \in 1 .. Chunks : image[i] = "good" => image'[i] = "good"
    BY <2>3, <2>4
  <2> QED
    BY <2>1, <2>5, <2>6
<1>22. CASE FlushFinal
  BY <1>22 DEF FlushFinal
<1>23. CASE WriteFooter
  BY <1>23 DEF WriteFooter
<1>24. CASE FlushFooter
  BY <1>24 DEF FlushFooter
<1>25. CASE RecordReady
  BY <1>25 DEF RecordReady, Reread
<1>26. CASE Leave
  BY <1>26 DEF Leave
<1>27. CASE WriteBack
  BY <1>27 DEF WriteBack
<1>28. CASE PowerLoss
  BY <1>28 DEF PowerLoss, Kept
<1>29. CASE Damage
  BY <1>29 DEF Damage
<1>30. CASE UNCHANGED vars
  BY <1>30 DEF vars
<1> QED
  BY <1>1, <1>2, <1>3, <1>4, <1>5, <1>6, <1>7, <1>8, <1>9, <1>10, <1>11,
     <1>12, <1>13, <1>14, <1>15, <1>16, <1>17, <1>18, <1>19, <1>20, <1>21,
     <1>22, <1>23, <1>24, <1>25, <1>26, <1>27, <1>28, <1>29, <1>30
     DEF Next, Initialize, Cut, Append, Complete

LEMMA ResumeNext ==
  ASSUME IInv, [Next]_vars
  PROVE  ResumeNotRefused'
<1> USE Places
<1> USE DEF IInv, ResumeNotRefused
<1> SUFFICES ASSUME Intact', pc' = "refused"
             PROVE  slot'.phase = "preparing" /\ names' # Files
  BY DEF ResumeNotRefused
<1>1. Intact
  <2>1. CASE Damage
    BY <2>1 DEF Damage, Intact, TypeOK
  <2>2. CASE damages' = damages
    BY <2>2 DEF Intact
  <2> QED
    BY <2>1, <2>2 DEF Next, vars, Create, Reopen, Initialize, ResetImage, ResetJournal,
       Reserve, FlushReserved, WriteHeader, FlushHeader, RecordPrepared, Cut, CutImage,
       FlushCut, CutJournal, FlushCutJournal, Append, StartChunk, WriteChunk, FlushChunk,
       WriteFrame, FlushFrame, RecordChunk, Complete, VerifyPrefix, Finalize, FlushFinal,
       WriteFooter, FlushFooter, RecordReady, Leave, WriteBack, PowerLoss, Goto,
       FlushImage, FlushJournal, Replace
<1>2. CASE Reopen
  <2>1. slot.phase # "none" /\ UNCHANGED <<slot, names>> /\ ~Acceptable
    BY <1>2 DEF Reopen, NextAfterChecks, cache
  <2>2. names # Files
    BY <1>1, <2>1, Accepted
  <2>3. slot.phase \in {"preparing", "prepared", "commit_ready"}
    BY <2>1 DEF TypeOK, Progress
  <2> QED
    BY <1>1, <2>1, <2>2, <2>3 DEF Sound, Recorded
<1>3. CASE StartChunk
  <2>1. pc = "append" /\ slot.phase = "prepared" /\ names = Files
    BY <1>3 DEF StartChunk, Goto, Located, Appending, Cutting, Finishing
  <2>2. LongEnough
    BY <1>1, <2>1, Accepted
  <2>3. ~Exceeds(image, slot.count) /\ ~Exceeds(journal, slot.count)
    <3>1. DOMAIN image = ImagePlaces /\ DOMAIN journal = JournalPlaces
      BY DEF TypeOK
    <3> QED
      BY <2>1, <3>1 DEF Bounded, Exceeds
  <2> QED
    BY <1>3, <2>2, <2>3 DEF StartChunk, AtRecord, Goto
<1>4. CASE VerifyPrefix
  <2>1. pc = "append" /\ slot.phase = "prepared" /\ names = Files
    BY <1>4 DEF VerifyPrefix, Goto, Located, Appending, Cutting, Finishing
  <2>2. PrefixVerified
    BY <1>1, <2>1, Accepted DEF Recorded
  <2> QED
    BY <1>4, <2>2 DEF VerifyPrefix, Goto
<1>5. CASE ~Reopen /\ ~StartChunk /\ ~VerifyPrefix
  <2>1. pc = "refused" /\ UNCHANGED <<slot, names>>
    BY <1>5 DEF Next, vars, cache, Create, Initialize, ResetImage, ResetJournal,
       Reserve, FlushReserved, WriteHeader, FlushHeader, RecordPrepared, Cut, CutImage,
       FlushCut, CutJournal, FlushCutJournal, Append, WriteChunk, FlushChunk,
       WriteFrame, FlushFrame, RecordChunk, Complete, Finalize, FlushFinal,
       WriteFooter, FlushFooter, RecordReady, Leave, WriteBack, PowerLoss, Damage, Goto,
       FlushImage, FlushJournal, Replace
  <2> QED
    BY <1>1, <2>1
<1> QED
  BY <1>2, <1>3, <1>4, <1>5

LEMMA WholeNext ==
  ASSUME IInv, [Next]_vars
  PROVE  SuccessIsWhole'
<1> USE Places
<1> USE DEF IInv, TypeOK, Located, SuccessIsWhole, Whole,
        Goto, FlushImage, FlushJournal, SetImage, SetJournal, Replace, Record, cache, medium, Files
<1>1. CASE Create
  BY <1>1 DEF Create
<1>2. CASE Reopen
  BY <1>2, ReopenCases DEF Reopen, Acceptable, Kept, Recorded, Progress
<1>3. CASE ResetImage
  BY <1>3 DEF ResetImage
<1>4. CASE ResetJournal
  BY <1>4 DEF ResetJournal
<1>5. CASE Reserve
  BY <1>5 DEF Reserve
<1>6. CASE FlushReserved
  BY <1>6 DEF FlushReserved
<1>7. CASE WriteHeader
  BY <1>7 DEF WriteHeader
<1>8. CASE FlushHeader
  BY <1>8 DEF FlushHeader
<1>9. CASE RecordPrepared
  BY <1>9 DEF RecordPrepared
<1>10. CASE CutImage
  BY <1>10 DEF CutImage
<1>11. CASE FlushCut
  BY <1>11 DEF FlushCut
<1>12. CASE CutJournal
  BY <1>12 DEF CutJournal
<1>13. CASE FlushCutJournal
  BY <1>13 DEF FlushCutJournal
<1>14. CASE StartChunk
  BY <1>14 DEF StartChunk
<1>15. CASE WriteChunk
  BY <1>15 DEF WriteChunk
<1>16. CASE FlushChunk
  BY <1>16 DEF FlushChunk
<1>17. CASE WriteFrame
  BY <1>17 DEF WriteFrame
<1>18. CASE FlushFrame
  BY <1>18 DEF FlushFrame
<1>19. CASE RecordChunk
  BY <1>19 DEF RecordChunk
<1>20. CASE VerifyPrefix
  BY <1>20 DEF VerifyPrefix
<1>21. CASE Finalize
  BY <1>21 DEF Finalize
<1>22. CASE FlushFinal
  BY <1>22 DEF FlushFinal
<1>23. CASE WriteFooter
  BY <1>23 DEF WriteFooter
<1>24. CASE FlushFooter
  BY <1>24 DEF FlushFooter
<1>25. CASE RecordReady
  BY <1>25 DEF RecordReady, Reread, Kept, Recorded, Initializing, Cutting, Appending, Finishing
<1>26. CASE Leave
  BY <1>26 DEF Leave
<1>27. CASE WriteBack
  BY <1>27 DEF WriteBack
<1>28. CASE PowerLoss
  BY <1>28 DEF PowerLoss
<1>29. CASE Damage
  BY <1>29 DEF Damage
<1>30. CASE UNCHANGED vars
  BY <1>30 DEF vars
<1> QED
  BY <1>1, <1>2, <1>3, <1>4, <1>5, <1>6, <1>7, <1>8, <1>9, <1>10, <1>11,
     <1>12, <1>13, <1>14, <1>15, <1>16, <1>17, <1>18, <1>19, <1>20, <1>21,
     <1>22, <1>23, <1>24, <1>25, <1>26, <1>27, <1>28, <1>29, <1>30
     DEF Next, Initialize, Cut, Append, Complete

-------------------------------------------------------------------------------
(* The theorems.                                                              *)

\* IInv is an invariant of the writer.
THEOREM Invariant == Spec => []IInv
<1>1. IInv /\ [Next]_vars => IInv'
  BY TypeNext, LocatedNext, ExistingNext, BoundedNext, RereadNext, KeptNext, SoundNext, ResumeNext,
     WholeNext DEF IInv
<1> QED
  BY InitIInv, <1>1, PTL DEF Spec

\* The types of the variables (ImageResume!TypeOK).
THEOREM TypeCorrect == Spec => []TypeOK
<1>1. IInv => TypeOK
  BY DEF IInv
<1> QED
  BY Invariant, <1>1, PTL

\* What the slot's record counts is on the medium, wherever its run was broken
\* off (append_verified_resume_chunk, finalize_resume_partial).
THEOREM RecordIsDurable == Spec => []CheckpointIsDurable
<1>1. IInv => CheckpointIsDurable
  <2> SUFFICES ASSUME IInv, Intact, Recorded
               PROVE  /\ mNames = Files
                      /\ \A i \in 0 .. slot.count : mJournal[i] = "good"
                      /\ \A i \in (1 .. slot.count) \ Zeros : mImage[i] = "good"
                      /\ mImage[0] # "absent"
                      /\ slot.phase = "commit_ready" => Whole(mImage)
    BY DEF CheckpointIsDurable, Recorded
  <2> QED
    BY DEF IInv, TypeOK, Kept, Sound, PrefixVerified, Whole
<1> QED
  BY Invariant, <1>1, PTL

\* No run refuses what earlier runs have left (prepare_resumable_tsumugi_file_v1).
THEOREM ResumePasses == Spec => []ResumeNotRefused
<1>1. IInv => ResumeNotRefused
  BY DEF IInv
<1> QED
  BY Invariant, <1>1, PTL

\* A reported image is whole, whatever happened to its files before.
THEOREM ReportedIsWhole == Spec => []SuccessIsWhole
<1>1. IInv => SuccessIsWhole
  BY DEF IInv
<1> QED
  BY Invariant, <1>1, PTL

-------------------------------------------------------------------------------
(* The writer and the slot's rules.                                           *)

\* The rules of the slot for an image of this plan; the number of operations, of
\* revisions and the name of an empty slot play no part in them.
Rules == INSTANCE Checkpoint WITH
           MaxOps <- 1, MaxWork <- Chunks, MaxRev <- 1, NoSlot <- Record("none", 0)

Stored(progress) == [phase |-> progress.phase, work |-> progress.count]

Admitted(old, new) ==
  /\ Rules!ValidCheckpoint(Stored(old)) /\ Rules!ValidCheckpoint(Stored(new))
  /\ Rules!AllowedPhaseTransition(Stored(old), Stored(new))

\* The writer asks the slot for no replacement that the slot would refuse
\* (validate_checkpoint_transition): the two were written apart, and a refusal would
\* end an image that has done nothing wrong.
AsksForLegalRecords ==
  [][slot' # slot =>
       \/ slot.phase = "none" /\ slot' = Record("preparing", 0)
       \/ Admitted(slot, slot')]_vars

\* From the first record of a run to the finished image: one more chunk at a time.
THEOREM RecordsAreLegal == Spec => AsksForLegalRecords
<1>1. ASSUME IInv, Next, slot' # slot
      PROVE  \/ slot.phase = "none" /\ slot' = Record("preparing", 0)
             \/ Admitted(slot, slot')
  <2>1. slot \in Progress /\ slot.count \in 0 .. Chunks /\ Chunks \in Nat
    BY <1>1, Places DEF IInv, TypeOK, Progress
  <2>2. CASE Create
    BY <2>2 DEF Create
  <2>3. CASE RecordPrepared
    <3>1. slot.phase = "preparing" /\ slot.count = 0 /\ slot' = Record("prepared", 0)
      BY <1>1, <2>3 DEF RecordPrepared, Replace, IInv, Located, Initializing
    <3>. QED BY <3>1 DEF Admitted, Stored, Record, Rules!ValidCheckpoint,
             Rules!AllowedPhaseTransition
  <2>4. CASE RecordChunk
    <3>1. slot.phase = "prepared" /\ slot' = Record("prepared", slot.count + 1)
      BY <1>1, <2>4 DEF RecordChunk, Replace, IInv, Located, Appending, Current
    <3>. QED BY <2>1, <3>1 DEF Admitted, Stored, Record, Rules!ValidCheckpoint,
             Rules!AllowedPhaseTransition
  <2>5. CASE RecordReady
    <3>1. /\ slot.phase = "prepared" /\ slot.count = Chunks
          /\ slot' = Record("commit_ready", Chunks)
      BY <1>1, <2>5 DEF RecordReady, Replace, IInv, Located, Finishing
    <3>. QED BY <3>1 DEF Admitted, Stored, Record, Rules!ValidCheckpoint,
             Rules!AllowedPhaseTransition
  <2>6. CASE Reopen \/ Leave \/ WriteBack \/ PowerLoss \/ Damage
    BY <1>1, <2>6 DEF Reopen, Leave, WriteBack, PowerLoss, Damage
  <2>7. CASE Cut \/ ResetImage \/ ResetJournal \/ Reserve \/ FlushReserved
             \/ WriteHeader \/ FlushHeader
    BY <1>1, <2>7 DEF Cut, CutImage, FlushCut, CutJournal, FlushCutJournal, ResetImage,
       ResetJournal, Reserve, FlushReserved, WriteHeader, FlushHeader, FlushImage,
       FlushJournal, Goto
  <2>8. CASE StartChunk \/ WriteChunk \/ FlushChunk \/ WriteFrame \/ FlushFrame
    BY <1>1, <2>8 DEF StartChunk, WriteChunk, FlushChunk, WriteFrame, FlushFrame,
       FlushImage, FlushJournal, Goto
  <2>9. CASE VerifyPrefix \/ Finalize \/ FlushFinal \/ WriteFooter \/ FlushFooter
    BY <1>1, <2>9 DEF VerifyPrefix, Finalize, FlushFinal, WriteFooter, FlushFooter,
       FlushImage, Goto
  <2> QED
    BY <1>1, <2>2, <2>3, <2>4, <2>5, <2>6, <2>7, <2>8, <2>9
    DEF Next, Initialize, Append, Complete
<1>2. IInv /\ [Next]_vars =>
        [slot' # slot => \/ slot.phase = "none" /\ slot' = Record("preparing", 0)
                         \/ Admitted(slot, slot')]_vars
  BY <1>1
<1> QED
  BY Invariant, <1>2, PTL DEF Spec, AsksForLegalRecords

-------------------------------------------------------------------------------
(* How long a run lasts.                                                      *)

\* The steps a run has at most before it starts its next chunk, or ends.
Ahead ==
  [idle |-> 0, done |-> 0, refused |-> 0,
   scan |-> 1, flushFooter |-> 2, footer |-> 3, flushFinal |-> 4, finalize |-> 5,
   recordChunk |-> 1, flushFrame |-> 2, frame |-> 3, flushChunk |-> 4, chunk |-> 5,
   append |-> 6,
   flushCutJournal |-> 7, cutJournal |-> 8, flushCut |-> 9, cut |-> 10,
   recordPrepared |-> 7, flushHeader |-> 8, header |-> 9, flushReserved |-> 10,
   reserve |-> 11, resetJournal |-> 12, reset |-> 13]

StepsLeft == 6 * (Chunks - slot.count) + Ahead[pc]

RunStep == Initialize \/ Cut \/ Append \/ Complete

\* A run neither retries nor starts over: every step it takes brings it nearer to
\* its end, which is at most 6 steps for each chunk and 13 more away.
RunAdvances ==
  [][RunStep => StepsLeft' < StepsLeft /\ StepsLeft' \in 0 .. 6 * Chunks + 13]_vars

LEMMA AheadRange ==
  ASSUME NEW place \in Locations
  PROVE  Ahead[place] \in 0 .. 13
  BY DEF Ahead, Locations

LEMMA AheadFacts ==
  ASSUME TypeOK
  PROVE  /\ Ahead[pc] \in 0 .. 13
         /\ slot.count \in 0 .. Chunks /\ Chunks \in Nat
         /\ StepsLeft \in 0 .. 6 * Chunks + 13
<1>1. pc \in Locations /\ slot.count \in 0 .. Chunks /\ Chunks \in Nat
  BY Places DEF TypeOK, Progress
<1>2. Ahead[pc] \in 0 .. 13
  BY <1>1, AheadRange
<1> QED
  BY <1>1, <1>2 DEF StepsLeft

\* The number of steps that are left falls, whatever the files hold.
THEOREM RunsEnd == Spec => RunAdvances
<1>1. ASSUME IInv, IInv', RunStep PROVE StepsLeft' < StepsLeft
  <2>1. /\ slot.count \in 0 .. Chunks /\ slot'.count \in 0 .. Chunks /\ Chunks \in Nat
        /\ Ahead[pc] \in 0 .. 13 /\ Ahead[pc'] \in 0 .. 13
    <3>1. pc' \in Locations /\ slot'.count \in 0 .. Chunks
      BY <1>1, Places DEF IInv, TypeOK, Progress
    <3>2. Ahead[pc'] \in 0 .. 13
      BY <3>1, AheadRange
    <3> QED
      BY <1>1, <3>1, <3>2, AheadFacts DEF IInv
  <2>2. SUFFICES \/ slot' = slot /\ Ahead[pc'] < Ahead[pc]
                 \/ slot'.count = slot.count + 1 /\ Ahead[pc'] <= 6 /\ Ahead[pc] = 1
                 \/ slot'.count = slot.count /\ Ahead[pc'] < Ahead[pc]
    BY <2>1 DEF StepsLeft
  <2>3. CASE ResetImage \/ ResetJournal \/ Reserve \/ FlushReserved
             \/ WriteHeader \/ FlushHeader
    BY <2>3 DEF ResetImage, ResetJournal, Reserve, FlushReserved, WriteHeader,
       FlushHeader, FlushImage, FlushJournal, Goto, Ahead
  <2>4. CASE RecordPrepared
    <3>1. slot.count = 0 /\ slot'.count = 0 /\ pc = "recordPrepared"
          /\ pc' \in {"append", "idle"}
      BY <1>1, <2>4
      DEF RecordPrepared, Replace, IInv, Located, Initializing, Record
    <3>. QED BY <3>1 DEF Ahead
  <2>5. CASE Cut
    BY <2>5 DEF Cut, CutImage, FlushCut, CutJournal, FlushCutJournal, FlushImage,
       FlushJournal, Goto, Ahead
  <2>6. CASE StartChunk \/ WriteChunk \/ FlushChunk
    BY <2>6 DEF StartChunk, WriteChunk, FlushChunk, FlushImage, Goto, Ahead
  <2>7. CASE WriteFrame \/ FlushFrame
    BY <2>7 DEF WriteFrame, FlushFrame, FlushJournal, Goto, Ahead
  <2>8. CASE RecordChunk
    <3>1. /\ slot'.count = slot.count + 1 /\ pc = "recordChunk"
          /\ pc' \in {"append", "idle"}
      BY <2>8 DEF RecordChunk, Replace, Record, Current
    <3>. QED BY <3>1 DEF Ahead
  <2>9. CASE VerifyPrefix \/ Finalize \/ FlushFinal \/ WriteFooter \/ FlushFooter
    BY <2>9 DEF VerifyPrefix, Finalize, FlushFinal, WriteFooter, FlushFooter,
       FlushImage, Goto, Ahead
  <2>10. CASE RecordReady
    <3>1. /\ slot.count = Chunks /\ slot'.count = Chunks /\ pc = "scan"
          /\ pc' \in {"done", "idle"}
      BY <1>1, <2>10 DEF RecordReady, Replace, Record, IInv, Located, Finishing
    <3>. QED BY <3>1 DEF Ahead
  <2> QED
    BY <1>1, <2>3, <2>4, <2>5, <2>6, <2>7, <2>8, <2>9, <2>10
    DEF RunStep, Initialize, Append, Complete
<1>2. ASSUME IInv, IInv', [Next]_vars
      PROVE  [RunStep => StepsLeft' < StepsLeft
                         /\ StepsLeft' \in 0 .. 6 * Chunks + 13]_vars
  <2>1. (StepsLeft \in 0 .. 6 * Chunks + 13)'
    <3>1. TypeOK'
      BY <1>2 DEF IInv
    <3>2. pc' \in Locations /\ slot'.count \in 0 .. Chunks /\ Chunks \in Nat
      BY <3>1, Places DEF TypeOK, Progress
    <3>3. Ahead[pc'] \in 0 .. 13
      BY <3>2, AheadRange
    <3>4. (Ahead[pc])' = Ahead[pc']
      BY DEF Ahead
    <3>5. StepsLeft' = 6 * (Chunks - slot'.count) + Ahead[pc']
      BY <3>4 DEF StepsLeft
    <3> QED
      BY <3>2, <3>3, <3>5
  <2> QED
    BY <1>1, <1>2, <2>1
<1> QED
  BY Invariant, <1>2, PTL DEF Spec, RunAdvances

=============================================================================
