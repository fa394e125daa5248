-------------------------- MODULE DiskClone_proofs ---------------------------
(* Proofs about DiskClone for every number of chunks and runs and every mix   *)
(* of partition styles.                                                       *)
EXTENDS DiskClone, TLAPS

-------------------------------------------------------------------------------
(* The plan.                                                                  *)

LEMMA PlanFacts ==
  ASSUME NEW g \in Generations
  PROVE  /\ CommitRegion(g) \in Meta
         /\ StagedWrites(g) \in {0, 4}
         /\ PlanRegions(g) \subseteq Regions
         /\ \A T \in Tables(g) : T \subseteq Meta /\ T # {}
  <1>1. StyleOf[g] \in Styles
    BY RunsAssumption
  <1>2. Len(StageOrder) = 4
    BY DEF StageOrder
  <1> QED
    BY <1>1, <1>2 DEF CommitRegion, StagedWrites, PlanRegions, Tables, Meta, HeadMeta,
       TailMeta, Regions, Styles

LEMMA StageFacts ==
  ASSUME NEW i \in 1 .. 4
  PROVE  StageOrder[i] \in Meta \ {"primaryHeader"}
  BY DEF StageOrder, Meta, HeadMeta, TailMeta

LEMMA StageCovers ==
  ASSUME NEW r \in Meta \ {"primaryHeader"}
  PROVE  \E i \in 1 .. 4 : StageOrder[i] = r
  <1>1. StageOrder[1] = "primaryEntries" /\ StageOrder[2] = "backupEntries"
        /\ StageOrder[3] = "backupHeader" /\ StageOrder[4] = "mbr"
    BY DEF StageOrder
  <1>2. 1 \in 1 .. 4 /\ 2 \in 1 .. 4 /\ 3 \in 1 .. 4 /\ 4 \in 1 .. 4
    OBVIOUS
  <1> QED
    BY <1>1, <1>2 DEF Meta, HeadMeta, TailMeta

LEMMA Distinct ==
  /\ \A c \in Chunks : c \notin Meta /\ c \in Regions
  /\ Meta \subseteq Regions
  /\ Meta \subseteq HeadArea \cup TailArea
  /\ HeadArea \subseteq Meta \cup EdgeChunks /\ TailArea \subseteq Meta \cup EdgeChunks
  /\ HeadArea \subseteq Regions /\ TailArea \subseteq Regions
  /\ \A g \in Generations : g # Zero /\ g # Bad /\ g # NoTable /\ g \in Values
  /\ Zero \in Values /\ Bad \in Values
  BY ChunksAssumption, ValuesAssumption
     DEF Regions, Values, Meta, HeadArea, TailArea, EdgeChunks

-------------------------------------------------------------------------------
(* Types.                                                                     *)

LEMMA VerifiedType ==
  ASSUME TypeOK, NEW S \in SUBSET Regions, NEW v \in Values, Verified(S, v)
  PROVE  /\ cache' \in [Regions -> Values] /\ durable' \in [Regions -> Values]
         /\ wrote' \subseteq Regions
  BY DEF TypeOK, Verified

LEMMA WriteFailsType ==
  ASSUME TypeOK, NEW S \in SUBSET Regions, NEW v \in Values, WriteFails(S, v)
  PROVE  /\ cache' \in [Regions -> Values] /\ durable' \in [Regions -> Values]
         /\ wrote' \subseteq Regions
         /\ phase' = "ended" /\ result' = "failed" /\ UNCHANGED progress
  BY Distinct DEF TypeOK, WriteFails, End

Early == {"plan", "armed", "head", "tail", "flushTable", "copy", "boundary", "flushData"}
Late == {"flushStaged", "lastPoll", "commit", "flushCommit"}

\* How many metadata writes are done in which phase.
StageBound ==
  /\ phase \in Early => staged = 0
  /\ phase = "stage" => staged < StagedWrites(run)
  /\ phase \in Late => staged = StagedWrites(run)

TypeInv == TypeOK /\ StageBound

LEMMA TypeInvariant == Spec => []TypeInv
<1>1. Init => TypeInv
  <2> SUFFICES ASSUME Init PROVE TypeInv
    OBVIOUS
  <2>1. 0 \in Generations /\ 0 \in Values
    BY RunsAssumption DEF Generations, Values
  <2>2. StagedWrites(run) \in {0, 4} /\ run \in Generations
    BY <2>1, PlanFacts DEF Init
  <2>3. cache \in [Regions -> Values] /\ durable \in [Regions -> Values]
    BY <2>1 DEF Init
  <2>4. staged \in 0 .. StagedWrites(run)
    BY <2>2 DEF Init
  <2>5. TypeOK
    BY <2>2, <2>3, <2>4 DEF Init, TypeOK, Phases, Results
  <2>6. StageBound
    BY DEF Init, StageBound, Early, Late
  <2> QED
    BY <2>5, <2>6 DEF TypeInv
<1>2. TypeInv /\ [Next]_vars => TypeInv'
  <2> SUFFICES ASSUME TypeInv, [Next]_vars PROVE TypeInv'
    OBVIOUS
  <2> USE DEF TypeInv, TypeOK, StageBound
  <2>g. StagedWrites(run) \in {0, 4} /\ CommitRegion(run) \in Regions
        /\ run \in Values
    BY PlanFacts, Distinct
  <2>h. HeadArea \in SUBSET Regions /\ TailArea \in SUBSET Regions /\ Zero \in Values
    BY Distinct
  <2>w. ASSUME NEW S \in SUBSET Regions, NEW v \in Values, WriteFails(S, v),
               UNCHANGED <<run, user>>, wiped' \in Generations
        PROVE  TypeInv'
    BY <2>w, WriteFailsType DEF progress, user, Phases, Results, Early, Late
  <2>1. CASE WriteBack
    <3>1. PICK r \in Regions :
            \/ durable' = [durable EXCEPT ![r] = cache[r]]
            \/ durable' = [durable EXCEPT ![r] = Bad]
      BY <2>1 DEF WriteBack
    <3>2. durable' \in [Regions -> Values]
      BY <3>1, Distinct
    <3> QED BY <3>2, <2>1 DEF WriteBack, progress, user
  <2>2. CASE PowerLoss
    BY <2>2 DEF PowerLoss, progress, user, Phases, Results, Early, Late
  <2>3. CASE Begin
    <3>1. run + 1 \in Generations
      BY <2>3, RunsAssumption DEF Begin, Generations
    <3>2. StagedWrites(run') \in {0, 4}
      BY <3>1, <2>3, PlanFacts DEF Begin
    <3>3. staged' \in 0 .. StagedWrites(run')
      BY <3>2, <2>3 DEF Begin
    <3> QED BY <3>1, <3>3, <2>3 DEF Begin, disk, Phases, Results, Early, Late
  <2>4. CASE RequestCancel
    BY <2>4 DEF RequestCancel, disk, progress
  <2>5. CASE CancelSeen
    BY <2>5 DEF CancelSeen, End, disk, progress, user, Phases, Results, Early, Late
  <2>6. CASE Plan
    BY <2>6 DEF Plan, End, disk, progress, user, Phases, Results, Early, Late
  <2>7. CASE Arm
    BY <2>7 DEF Arm, disk, progress, user, Phases, Early, Late
  <2>8. CASE InvalidateHead
    <3>1. CASE Verified(HeadArea, Zero) /\ phase' = "tail" /\ UNCHANGED <<progress, result>>
      BY <3>1, <2>8, <2>h, VerifiedType
         DEF InvalidateHead, progress, user, Phases, Early, Late
    <3>2. wiped' \in Generations
      BY <2>8 DEF InvalidateHead
    <3> QED BY <2>8, <2>h, <2>w, <3>1, <3>2 DEF InvalidateHead
  <2>9. CASE InvalidateTail
    <3>1. CASE Verified(TailArea, Zero) /\ phase' = "flushTable" /\ UNCHANGED <<progress, result>>
      BY <3>1, <2>9, <2>h, VerifiedType
         DEF InvalidateTail, progress, user, Phases, Early, Late
    <3> QED BY <2>9, <2>h, <2>w, <3>1 DEF InvalidateTail
  <2>10. CASE CopyChunk
    <3>1. PICK c \in todo :
            \/ /\ Verified({c}, run) /\ todo' = todo \ {c} /\ phase' = "boundary"
               /\ UNCHANGED <<staged, result>>
            \/ WriteFails({c}, run)
      BY <2>10 DEF CopyChunk
    <3>2. {c} \in SUBSET Regions
      BY Distinct
    <3>3. CASE Verified({c}, run) /\ todo' = todo \ {c} /\ phase' = "boundary"
               /\ UNCHANGED <<staged, result>>
      BY <3>2, <3>3, <2>10, <2>g, VerifiedType
         DEF CopyChunk, user, Phases, Early, Late
    <3> QED BY <2>10, <2>g, <2>w, <3>1, <3>2, <3>3 DEF CopyChunk
  <2>11. CASE Boundary
    BY <2>11 DEF Boundary, disk, progress, user, Phases, Early, Late
  <2>12. CASE Stage
    <3>1. staged + 1 \in 1 .. 4 /\ staged + 1 \in 0 .. StagedWrites(run)
      BY <2>12, <2>g DEF Stage
    <3>2. {StageOrder[staged + 1]} \in SUBSET Regions
      BY <3>1, StageFacts, Distinct
    <3>3. CASE /\ Verified({StageOrder[staged + 1]}, run)
               /\ staged' = staged + 1
               /\ phase' = IF staged + 1 = StagedWrites(run) THEN "flushStaged" ELSE "stage"
               /\ UNCHANGED <<todo, result>>
      <4>1. /\ cache' \in [Regions -> Values] /\ durable' \in [Regions -> Values]
            /\ wrote' \subseteq Regions
        BY <3>2, <3>3, <2>g, VerifiedType
      <4> QED
        BY <4>1, <3>1, <3>3, <2>12, <2>g DEF Stage, user, Phases, Early, Late
    <3> QED BY <2>12, <2>g, <2>w, <3>2, <3>3 DEF Stage
  <2>13. CASE LastPoll
    BY <2>13 DEF LastPoll, disk, progress, user, Phases, Early, Late
  <2>14. CASE Commit
    <3>1. {CommitRegion(run)} \in SUBSET Regions
      BY <2>g
    <3>2. CASE /\ Verified({CommitRegion(run)}, run)
               /\ phase' = "flushCommit" /\ UNCHANGED <<progress, result>>
      BY <3>1, <3>2, <2>14, <2>g, VerifiedType
         DEF Commit, progress, user, Phases, Early, Late
    <3> QED BY <2>14, <2>g, <2>w, <3>1, <3>2 DEF Commit
  <2>15. CASE Flush
    <3>1. UNCHANGED <<disk, run, wiped, progress, user, wrote>>
      BY <2>15 DEF Flush
    <3>2. CASE End("failed")
      BY <3>1, <3>2 DEF End, disk, progress, user, Phases, Results, Early, Late
    <3>3. CASE AfterFlush
      BY <3>1, <3>3, <2>15, <2>g
         DEF Flush, AfterFlush, Flushes, End, disk, progress, user, Phases, Results,
             Early, Late
    <3> QED BY <2>15, <3>2, <3>3 DEF Flush
  <2>16. CASE UNCHANGED vars
    BY <2>16 DEF vars, disk, progress, user
  <2> QED
    BY <2>1, <2>2, <2>3, <2>4, <2>5, <2>6, <2>7, <2>8, <2>9, <2>10, <2>11, <2>12,
       <2>13, <2>14, <2>15, <2>16 DEF Next
<1> QED BY <1>1, <1>2, PTL DEF Spec

\* Every variable keeps to its domain, whatever the runs, failures and power
\* losses.
THEOREM TypeCorrect == Spec => []TypeOK
<1>1. TypeInv => TypeOK
  BY DEF TypeInv
<1> QED BY <1>1, TypeInvariant, PTL

-------------------------------------------------------------------------------
(* The generations on the disk.                                               *)

Starting == {"plan", "armed", "head", "tail", "flushTable"}
Copying == {"copy", "boundary", "flushData"}
Staging == {"stage"} \cup Late

\* Nothing on the disk is of a run to come, and no table of this one is there
\* before its data.
Numbered ==
  \A r \in Regions : /\ cache[r] \in 0 .. run \cup {Zero, Bad}
                     /\ durable[r] \in 0 .. run \cup {Zero, Bad}
Fresh ==
  phase \in Starting =>
    \A r \in Meta : cache[r] # run /\ durable[r] # run
WipedRun ==
  /\ wiped <= run
  /\ phase \in {"tail", "flushTable"} => wiped = run

NumberInv == Numbered /\ Fresh /\ WipedRun

\* What a write, successful or not, may have changed.
LEMMA WriteEffect ==
  ASSUME TypeOK, NEW S \in SUBSET Regions, NEW v,
         Verified(S, v) \/ WriteFails(S, v)
  PROVE  /\ durable' = durable
         /\ \A r \in Regions \ S : cache'[r] = cache[r]
         /\ \A r \in S : cache'[r] \in {cache[r], v, Bad}
         /\ Verified(S, v) => \A r \in S : cache'[r] = v
  BY DEF TypeOK, Verified, WriteFails

LEMMA NumberStep ==
  ASSUME TypeInv, NumberInv, [Next]_vars
  PROVE  NumberInv'
<1> USE DEF NumberInv
<1>a. TypeOK /\ run \in Generations /\ wiped \in Generations /\ run \in Nat /\ wiped \in Nat
  BY RunsAssumption DEF TypeInv, TypeOK, Generations
<1>b. /\ \A r \in Meta : r \in Regions
      /\ HeadArea \in SUBSET Regions /\ TailArea \in SUBSET Regions
      /\ \A c \in Chunks : c \in Regions \ Meta
      /\ run # Zero /\ run # Bad
  BY <1>a, Distinct
\* A write of zeroes, or of this run's regions once its table may be there.
<1>w. ASSUME NEW S \in SUBSET Regions, NEW v \in {Zero, run},
             Verified(S, v) \/ WriteFails(S, v), run' = run,
             v = run => phase' \notin Starting, phase' \in Starting => phase \in Starting
      PROVE  (Numbered /\ Fresh)'
  <2>1. /\ durable' = durable
        /\ \A r \in Regions \ S : cache'[r] = cache[r]
        /\ \A r \in S : cache'[r] \in {cache[r], v, Bad}
    BY <1>w, <1>a, WriteEffect
  <2>2. Numbered'
    BY <2>1, <1>w, <1>a DEF Numbered
  <2>3. Fresh'
    BY <2>1, <1>w, <1>b DEF Fresh
  <2> QED BY <2>2, <2>3
<1>1. CASE WriteBack
  <2>1. PICK r \in Regions :
          \/ durable' = [durable EXCEPT ![r] = cache[r]]
          \/ durable' = [durable EXCEPT ![r] = Bad]
    BY <1>1 DEF WriteBack
  <2>2. \A s \in Regions : durable'[s] \in {durable[s], cache[s], Bad}
    BY <2>1, <1>a DEF TypeOK
  <2> QED
    BY <2>2, <1>1, <1>b DEF WriteBack, Numbered, Fresh, WipedRun
<1>2. CASE PowerLoss
  BY <1>2 DEF PowerLoss, Numbered, Fresh, WipedRun, Starting
<1>3. CASE Begin
  <2>1. run' = run + 1 /\ UNCHANGED <<cache, durable, wiped>> /\ phase' = "plan"
    BY <1>3 DEF Begin, disk
  <2>2. \A r \in Regions : \A v \in {cache[r], durable[r]} :
          v \in 0 .. run' \cup {Zero, Bad} /\ v # run'
    <3>1. run + 1 \in Generations
      BY <1>3, <1>a, RunsAssumption DEF Begin, Generations
    <3> QED BY <2>1, <3>1, <1>a, Distinct DEF Numbered
  <2> QED
    BY <2>1, <2>2, <1>a, <1>b DEF Numbered, Fresh, WipedRun
<1>4. CASE InvalidateHead
  <2>1. phase' \in {"tail", "ended"} /\ wiped' = run /\ run' = run /\ phase = "head"
    BY <1>4 DEF InvalidateHead, WriteFails, End
  <2>2. (Numbered /\ Fresh)'
    BY <2>1, <1>4, <1>b, <1>w DEF InvalidateHead, Starting
  <2> QED BY <2>1, <2>2, <1>a DEF WipedRun
<1>5. CASE InvalidateTail
  <2>1. phase' \in {"flushTable", "ended"} /\ wiped' = wiped /\ run' = run /\ phase = "tail"
    BY <1>5 DEF InvalidateTail, WriteFails, End
  <2>2. (Numbered /\ Fresh)'
    BY <2>1, <1>5, <1>b, <1>w DEF InvalidateTail, Starting
  <2> QED BY <2>1, <2>2 DEF WipedRun
<1>6. CASE CopyChunk
  <2>1. PICK c \in todo : Verified({c}, run) \/ WriteFails({c}, run)
    BY <1>6 DEF CopyChunk
  <2>2. {c} \in SUBSET Regions
    BY <1>a, <1>b DEF TypeOK
  <2>3. phase' \in {"boundary", "ended"} /\ run' = run /\ wiped' = wiped
    BY <1>6 DEF CopyChunk, WriteFails, End
  <2> QED BY <2>1, <2>2, <2>3, <1>w DEF Starting, WipedRun
<1>7. CASE Stage
  <2>1. staged + 1 \in 1 .. 4
    BY <1>7, <1>a, PlanFacts DEF Stage, TypeInv, TypeOK, StageBound
  <2>2. {StageOrder[staged + 1]} \in SUBSET Regions
    BY <2>1, <1>b, StageFacts
  <2>3. phase' \in {"stage", "flushStaged", "ended"} /\ run' = run /\ wiped' = wiped
    BY <1>7 DEF Stage, WriteFails, End
  <2>4. \/ Verified({StageOrder[staged + 1]}, run)
        \/ WriteFails({StageOrder[staged + 1]}, run)
    BY <1>7 DEF Stage
  <2> QED BY <2>2, <2>3, <2>4, <1>w DEF Starting, WipedRun
<1>8. CASE Commit
  <2>1. {CommitRegion(run)} \in SUBSET Regions
    BY <1>a, <1>b, PlanFacts
  <2>2. phase' \in {"flushCommit", "ended"} /\ run' = run /\ wiped' = wiped
    BY <1>8 DEF Commit, WriteFails, End
  <2>3. Verified({CommitRegion(run)}, run) \/ WriteFails({CommitRegion(run)}, run)
    BY <1>8 DEF Commit
  <2> QED BY <2>1, <2>2, <2>3, <1>w DEF Starting, WipedRun
<1>9. ASSUME UNCHANGED <<disk, run, wiped>>,
             phase' \in Starting => phase \in Starting,
             phase' \in {"tail", "flushTable"} => phase' = phase
      PROVE  NumberInv'
  BY <1>9 DEF disk, Numbered, Fresh, WipedRun
<1>10. CASE RequestCancel \/ CancelSeen \/ Plan \/ Arm
  BY <1>10, <1>9 DEF RequestCancel, CancelSeen, Plan, Arm, End, Starting
<1>11. CASE Boundary \/ LastPoll \/ Flush
  BY <1>11, <1>9 DEF Boundary, LastPoll, Flush, AfterFlush, End, Starting
<1>12. CASE UNCHANGED vars
  BY <1>12, <1>9 DEF vars
<1> QED
  BY <1>1, <1>2, <1>3, <1>4, <1>5, <1>6, <1>7, <1>8, <1>10, <1>11, <1>12 DEF Next

LEMMA NumberInvariant == Spec => []NumberInv
<1>1. Init => NumberInv
  <2> SUFFICES ASSUME Init PROVE NumberInv
    OBVIOUS
  <2>1. \A r \in Regions : cache[r] = 0 /\ durable[r] = 0
    BY DEF Init
  <2> QED
    BY <2>1 DEF Init, NumberInv, Numbered, Fresh, WipedRun, Starting
<1>2. TypeInv /\ NumberInv /\ [Next]_vars => NumberInv'
  BY NumberStep
<1> QED BY <1>1, <1>2, TypeInvariant, PTL DEF Spec

-------------------------------------------------------------------------------
(* What the medium and the cache hold, taken together: a power loss may leave *)
(* any mixture of the two.                                                    *)

Mixable(ca, du, g) == \E T \in Tables(g) : \A r \in T : g \in {ca[r], du[r]}

\* What chunk c may hold under a table of g when run w has begun to wipe.
Fitting(v, c, g, w) == v = g \/ (c \in EdgeChunks /\ g < w /\ v \in {Zero, Bad})

\* A table some mixture shows goes with its own data in every mixture, and what
\* the medium has lost of that data is lost in the cache too.
Agree(ca, du, w) ==
  \A g \in Generations :
    Mixable(ca, du, g) =>
      \A c \in Chunks : /\ Fitting(ca[c], c, g, w) /\ Fitting(du[c], c, g, w)
                        /\ ca[c] = g => du[c] = g

\* The tables that can be made out are all of one generation.
OneTable(ca, du) ==
  \E k \in Generations :
    \A r \in Meta : ca[r] \in {Zero, Bad, k} /\ du[r] \in {Zero, Bad, k}

Wiping ==
  /\ phase \in {"tail", "flushTable"} => \A r \in HeadArea \cap Meta : cache[r] = Zero
  /\ phase = "flushTable" => \A r \in Meta : cache[r] = Zero
Wiped ==
  phase \in Copying => \A r \in Meta : cache[r] = Zero /\ durable[r] = Zero
Copied ==
  /\ phase \in Starting => todo = Chunks
  /\ phase \in Copying => \A c \in Chunks \ todo : cache[c] = run
  /\ phase = "flushData" => todo = {}
DataDone ==
  phase \in Staging => \A c \in Chunks : cache[c] = run /\ durable[c] = run
TableNew ==
  phase \in Staging => \A r \in Meta : /\ cache[r] \in {Zero, run, Bad}
                                       /\ durable[r] \in {Zero, run, Bad}

PhaseInv == Wiping /\ Wiped /\ Copied /\ DataDone /\ TableNew
DiskInv == Agree(cache, durable, wiped) /\ OneTable(cache, durable) /\ PhaseInv

LEMMA UnderTable ==
  ASSUME NEW ca, NEW du, NEW w, Agree(ca, du, w), NEW g \in Generations, Mixable(ca, du, g),
         NEW c \in Chunks
  PROVE  /\ Fitting(ca[c], c, g, w) /\ Fitting(du[c], c, g, w)
         /\ ca[c] = g => du[c] = g
  <1>1. \A h \in Generations :
          Mixable(ca, du, h) =>
            \A e \in Chunks : /\ Fitting(ca[e], e, h, w) /\ Fitting(du[e], e, h, w)
                              /\ ca[e] = h => du[e] = h
    BY Zenon DEF Agree
  <1> QED BY <1>1, Zenon

LEMMA MixableKept ==
  ASSUME NEW ca, NEW du, NEW ca2, NEW du2,
         \A r \in Meta : /\ ca2[r] \in {ca[r], du[r], Zero, Bad}
                         /\ du2[r] \in {ca[r], du[r], Zero, Bad},
         NEW g \in Generations, Mixable(ca2, du2, g)
  PROVE  Mixable(ca, du, g)
  <1>1. PICK T \in Tables(g) : \A r \in T : g \in {ca2[r], du2[r]}
    BY DEF Mixable
  <1>2. T \subseteq Meta
    BY PlanFacts
  <1>3. \A r \in T : g \in {ca[r], du[r]}
    BY <1>1, <1>2, Distinct
  <1> QED BY <1>3 DEF Mixable

\* Contents that only move between cache and medium, get lost on the way where
\* the two differ, or are wiped at the edges by a later run.
LEMMA AgreeKept ==
  ASSUME NEW ca, NEW du, NEW ca2, NEW du2, NEW w \in Nat, NEW w2 \in Nat, w <= w2,
         Agree(ca, du, w),
         \A r \in Meta : /\ ca2[r] \in {ca[r], du[r], Zero, Bad}
                         /\ du2[r] \in {ca[r], du[r], Zero, Bad},
         \A c \in Chunks : \A v \in {ca2[c], du2[c]} :
           \/ v \in {ca[c], du[c]}
           \/ v = Bad /\ ca[c] # du[c]
           \/ /\ c \in EdgeChunks /\ v \in {Zero, Bad}
              /\ \A g \in Generations : Mixable(ca, du, g) => g < w2,
         \A c \in Chunks :
           \/ ca2[c] \in {Zero, Bad} \/ ca2[c] = du2[c]
           \/ ca2[c] = ca[c] /\ (du2[c] = du[c] \/ ca[c] # du[c])
  PROVE  Agree(ca2, du2, w2)
  <1> SUFFICES ASSUME NEW g \in Generations, Mixable(ca2, du2, g), NEW c \in Chunks
               PROVE  /\ \A v \in {ca2[c], du2[c]} : Fitting(v, c, g, w2)
                      /\ ca2[c] = g => du2[c] = g
    BY DEF Agree
  <1>1. Mixable(ca, du, g)
    BY MixableKept
  <1>2. /\ Fitting(ca[c], c, g, w) /\ Fitting(du[c], c, g, w)
        /\ ca[c] = g => du[c] = g
    BY <1>1, UnderTable
  <1>7. ca2[c] = g => du2[c] = g
    BY <1>2, Distinct
  <1> SUFFICES ASSUME NEW v \in {ca2[c], du2[c]} PROVE Fitting(v, c, g, w2)
    BY <1>7
  <1>3. g \in Nat /\ (g < w => g < w2)
    BY RunsAssumption DEF Generations
  <1>4. CASE v \in {ca[c], du[c]}
    BY <1>2, <1>3, <1>4 DEF Fitting
  <1>5. CASE v = Bad /\ ca[c] # du[c]
    BY <1>2, <1>3, <1>5 DEF Fitting
  <1>6. CASE /\ c \in EdgeChunks /\ v \in {Zero, Bad}
             /\ \A h \in Generations : Mixable(ca, du, h) => h < w2
    BY <1>1, <1>6 DEF Fitting
  <1> QED BY <1>4, <1>5, <1>6

LEMMA OneTableKept ==
  ASSUME NEW ca, NEW du, NEW ca2, NEW du2, OneTable(ca, du),
         \A r \in Meta : /\ ca2[r] \in {ca[r], du[r], Zero, Bad}
                         /\ du2[r] \in {ca[r], du[r], Zero, Bad}
  PROVE  OneTable(ca2, du2)
  BY DEF OneTable

\* A run that has not come to its data yet finds no table of its own.
LEMMA OlderTables ==
  ASSUME NumberInv, TypeOK, phase \in Starting, NEW g \in Generations,
         Mixable(cache, durable, g)
  PROVE  g < run
  <1>1. PICK T \in Tables(g) : \A r \in T : g \in {cache[r], durable[r]}
    BY DEF Mixable
  <1>2. PICK r \in T : r \in Meta
    BY PlanFacts
  <1>3. g \in 0 .. run /\ g # run
    BY <1>1, <1>2, Distinct DEF NumberInv, Numbered, Fresh
  <1>4. run \in Nat
    BY RunsAssumption DEF TypeOK, Generations
  <1> QED BY <1>3, <1>4

LEMMA AgreeWithout ==
  ASSUME NEW ca, NEW du, NEW w,
         \A r \in Meta : ca[r] = Zero /\ du[r] = Zero
  PROVE  Agree(ca, du, w)
  <1>1. ASSUME NEW g \in Generations, NEW T \in Tables(g)
        PROVE  ~ \A r \in T : g \in {ca[r], du[r]}
    <2>1. PICK r \in T : r \in Meta
      BY PlanFacts
    <2> QED BY <2>1, Distinct
  <1> QED BY <1>1 DEF Agree, Mixable, Fitting

LEMMA AgreeNew ==
  ASSUME NEW ca, NEW du, NEW w, NEW k \in Generations,
         \A r \in Meta : ca[r] \in {Zero, k, Bad} /\ du[r] \in {Zero, k, Bad},
         \A c \in Chunks : ca[c] = k /\ du[c] = k
  PROVE  Agree(ca, du, w)
  <1>1. ASSUME NEW g \in Generations, NEW T \in Tables(g),
               \A r \in T : g \in {ca[r], du[r]}
        PROVE  g = k
    <2>1. PICK r \in T : r \in Meta
      BY PlanFacts
    <2>2. g \in {ca[r], du[r]}
      BY <1>1, <2>1
    <2> QED BY <2>1, <2>2, Distinct
  <1> QED BY <1>1 DEF Agree, Mixable, Fitting

LEMMA DiskStep ==
  ASSUME TypeInv, NumberInv, DiskInv, [Next]_vars
  PROVE  DiskInv'
<1> USE DEF DiskInv
<1>a. /\ TypeOK /\ run \in Generations /\ run \in Values
      /\ run \in Nat /\ wiped \in Nat /\ wiped <= run
  BY Distinct, RunsAssumption DEF TypeInv, TypeOK, Generations, NumberInv, WipedRun
<1>b. /\ \A r \in Meta : r \in Regions
      /\ HeadArea \in SUBSET Regions /\ TailArea \in SUBSET Regions
      /\ \A c \in Chunks : c \in Regions \ Meta
  BY Distinct
\* An action that leaves the disk alone and enters none of the later phases.
<1>q. ASSUME UNCHANGED <<disk, run, wiped, todo>>, phase' \notin Copying \cup Staging,
             phase' \notin {"tail", "flushTable"}, phase' \in Starting => phase \in Starting
      PROVE  DiskInv'
  BY <1>q DEF disk, PhaseInv, Wiping, Wiped, Copied, DataDone, TableNew,
     Starting, Copying, Staging, Late
\* A run that ends keeps only the conditions on the contents.
<1>e. ASSUME phase' = "ended", Agree(cache', durable', wiped'), OneTable(cache', durable')
      PROVE  DiskInv'
  BY <1>e DEF PhaseInv, Wiping, Wiped, Copied, DataDone, TableNew, Starting, Copying, Staging, Late
<1>1. CASE WriteBack
  <2>1. PICK r \in Regions :
          /\ durable[r] # cache[r]
          /\ \/ durable' = [durable EXCEPT ![r] = cache[r]]
             \/ durable' = [durable EXCEPT ![r] = Bad]
    BY <1>1 DEF WriteBack
  <2>2. \A s \in Regions : IF s = r THEN durable'[s] \in {cache[s], Bad}
                                    ELSE durable'[s] = durable[s]
    BY <2>1, <1>a DEF TypeOK
  <2>3. UNCHANGED <<cache, run, wiped, phase, todo>>
    BY <1>1 DEF WriteBack, progress
  <2>4. Agree(cache', durable', wiped')
    BY <2>1, <2>2, <2>3, <1>a, <1>b, AgreeKept
  <2>5. OneTable(cache', durable')
    BY <2>2, <2>3, <1>b, OneTableKept
  <2>6. (Wiping /\ Wiped /\ Copied)'
    BY <2>1, <2>2, <2>3, <1>b DEF PhaseInv, Wiping, Wiped, Copied
  <2>7. (DataDone /\ TableNew)'
    BY <2>1, <2>2, <2>3, <1>b DEF PhaseInv, DataDone, TableNew
  <2> QED BY <2>4, <2>5, <2>6, <2>7 DEF PhaseInv
<1>2. CASE PowerLoss
  <2>1. cache' = durable /\ durable' = durable /\ wiped' = wiped /\ phase' = "ended"
    BY <1>2 DEF PowerLoss
  <2>2. Agree(cache', durable', wiped')
    BY <2>1, <1>a, AgreeKept
  <2>3. OneTable(cache', durable')
    BY <2>1, OneTableKept
  <2> QED BY <2>1, <2>2, <2>3, <1>e
<1>3. CASE Begin
  <2>1. /\ UNCHANGED <<cache, durable, wiped>> /\ phase' = "plan" /\ todo' = Chunks
    BY <1>3 DEF Begin, disk
  <2> QED
    BY <2>1 DEF PhaseInv, Wiping, Wiped, Copied, DataDone, TableNew, Starting, Copying, Staging, Late
<1>4. CASE RequestCancel
  BY <1>4 DEF RequestCancel, disk, progress, PhaseInv, Wiping, Wiped, Copied, DataDone, TableNew
<1>5. CASE CancelSeen
  BY <1>5, <1>q DEF CancelSeen, End, disk, progress, Starting, Copying, Staging, Late
<1>6. CASE Plan
  BY <1>6, <1>q DEF Plan, End, disk, progress, Starting, Copying, Staging, Late
<1>7. CASE Arm
  BY <1>7, <1>q DEF Arm, disk, progress, Starting, Copying, Staging, Late
\* A wipe spares the contents of this run: there are none yet.
<1>8. ASSUME NEW S \in SUBSET (Meta \cup EdgeChunks), Verified(S, Zero) \/ WriteFails(S, Zero),
             phase \in Starting, wiped' = run
      PROVE  Agree(cache', durable', wiped') /\ OneTable(cache', durable')
  <2>1. S \in SUBSET Regions
    BY <1>b, ChunksAssumption
  <2>2. /\ durable' = durable
        /\ \A r \in Regions \ S : cache'[r] = cache[r]
        /\ \A r \in S : cache'[r] \in {cache[r], Zero, Bad}
    BY <1>8, <1>a, <2>1, WriteEffect
  <2>3. \A r \in Meta : /\ cache'[r] \in {cache[r], durable[r], Zero, Bad}
                        /\ durable'[r] \in {cache[r], durable[r], Zero, Bad}
    BY <2>2, <1>b
  <2>4. \A g \in Generations : Mixable(cache, durable, g) => g < wiped'
    BY <1>8, <1>a, OlderTables
  <2>5. \A c \in Chunks : \A v \in {cache'[c], durable'[c]} :
          \/ v \in {cache[c], durable[c]}
          \/ c \in EdgeChunks /\ v \in {Zero, Bad}
    BY <2>2, <1>b
  <2>7. \A c \in Chunks :
          \/ cache'[c] \in {Zero, Bad}
          \/ cache'[c] = cache[c] /\ durable'[c] = durable[c]
    BY <2>2, <1>b
  <2>6. Agree(cache', durable', wiped')
    BY <2>3, <2>4, <2>5, <2>7, <1>8, <1>a, AgreeKept
  <2> QED BY <2>3, <2>6, OneTableKept
<1>9. CASE InvalidateHead
  <2>1. HeadArea \in SUBSET (Meta \cup EdgeChunks) /\ phase = "head" /\ wiped' = run
    BY <1>9, Distinct DEF InvalidateHead
  <2>2. Agree(cache', durable', wiped') /\ OneTable(cache', durable')
    BY <1>9, <1>8, <2>1 DEF InvalidateHead, Starting
  <2>3. CASE Verified(HeadArea, Zero) /\ phase' = "tail" /\ UNCHANGED progress
    <3>1. \A r \in HeadArea : cache'[r] = Zero
      BY <2>3, <1>a, <1>b, WriteEffect
    <3>2. todo' = Chunks
      BY <2>3, <1>9 DEF InvalidateHead, progress, PhaseInv, Copied, Starting
    <3> QED
      BY <3>1, <3>2, <2>2, <2>3
         DEF PhaseInv, Wiping, Wiped, Copied, DataDone, TableNew, Starting,
             Copying, Staging, Late
  <2>4. CASE WriteFails(HeadArea, Zero)
    BY <2>2, <2>4, <1>e DEF WriteFails, End
  <2> QED BY <1>9, <2>3, <2>4 DEF InvalidateHead
<1>10. CASE InvalidateTail
  <2>1. /\ TailArea \in SUBSET (Meta \cup EdgeChunks) /\ phase = "tail"
        /\ wiped' = wiped /\ wiped = run
    BY <1>10, Distinct DEF InvalidateTail, NumberInv, WipedRun
  <2>2. Agree(cache', durable', wiped') /\ OneTable(cache', durable')
    BY <1>10, <1>8, <2>1 DEF InvalidateTail, Starting
  <2>3. CASE Verified(TailArea, Zero) /\ phase' = "flushTable" /\ UNCHANGED progress
    <3>1. /\ \A r \in TailArea : cache'[r] = Zero
          /\ \A r \in Regions \ TailArea : cache'[r] = cache[r]
      BY <2>3, <1>a, <1>b, WriteEffect
    <3>2. \A r \in HeadArea \cap Meta : cache'[r] = Zero
      BY <3>1, <2>1, <1>b DEF PhaseInv, Wiping
    <3>3. \A r \in Meta : cache'[r] = Zero
      BY <3>1, <3>2, Distinct
    <3>4. todo' = Chunks
      BY <2>3, <2>1 DEF progress, PhaseInv, Copied, Starting
    <3> QED
      BY <3>2, <3>3, <3>4, <2>2, <2>3
         DEF PhaseInv, Wiping, Wiped, Copied, DataDone, TableNew, Starting,
             Copying, Staging, Late
  <2>4. CASE WriteFails(TailArea, Zero)
    BY <2>2, <2>4, <1>e DEF WriteFails, End
  <2> QED BY <1>10, <2>3, <2>4 DEF InvalidateTail
<1>11. CASE CopyChunk
  <2>1. PICK c \in todo :
          \/ /\ Verified({c}, run) /\ todo' = todo \ {c} /\ phase' = "boundary"
          \/ WriteFails({c}, run)
    BY <1>11 DEF CopyChunk
  <2>2. c \in Chunks /\ {c} \in SUBSET Regions /\ run' = run
    BY <1>11, <1>a, <1>b DEF CopyChunk, TypeOK
  <2>3. /\ durable' = durable
        /\ \A r \in Regions \ {c} : cache'[r] = cache[r]
        /\ cache'[c] \in {cache[c], run, Bad}
        /\ Verified({c}, run) => cache'[c] = run
    BY <2>1, <2>2, <1>a, WriteEffect
  <2>4. \A r \in Meta : cache'[r] = Zero /\ durable'[r] = Zero
    BY <2>2, <2>3, <1>11, <1>b DEF CopyChunk, PhaseInv, Wiped, Copying
  <2>5. Agree(cache', durable', wiped') /\ OneTable(cache', durable')
    BY <2>4, <1>a, AgreeWithout DEF OneTable
  <2>7. CASE Verified({c}, run) /\ todo' = todo \ {c} /\ phase' = "boundary"
    <3>1. Copied'
      BY <2>2, <2>3, <2>7, <1>11, <1>b DEF CopyChunk, PhaseInv, Copied, Starting, Copying
    <3> QED
      BY <3>1, <2>4, <2>5, <2>7
         DEF PhaseInv, Wiping, Wiped, DataDone, TableNew, Starting, Copying, Staging, Late
  <2>8. CASE WriteFails({c}, run)
    BY <2>5, <2>8, <1>e DEF WriteFails, End
  <2> QED BY <2>1, <2>7, <2>8
<1>12. CASE Boundary
  BY <1>12 DEF Boundary, disk, progress, PhaseInv, Wiping, Wiped, Copied,
     DataDone, TableNew, Starting, Copying, Staging, Late
\* A write of the new table, after the data.
<1>13. ASSUME phase \in Staging, NEW r \in Meta, run' = run, phase' \in Staging \cup {"ended"},
              Verified({r}, run) \/ WriteFails({r}, run)
       PROVE  DiskInv'
  <2>1. /\ durable' = durable
        /\ \A s \in Regions \ {r} : cache'[s] = cache[s]
        /\ cache'[r] \in {cache[r], run, Bad}
    <3>1. {r} \in SUBSET Regions
      BY <1>b
    <3> QED BY <1>13, <1>a, <3>1, WriteEffect
  <2>2. \A c \in Chunks : cache'[c] = run /\ durable'[c] = run
    BY <2>1, <1>13, <1>b DEF PhaseInv, DataDone
  <2>3. \A s \in Meta : cache'[s] \in {Zero, run, Bad} /\ durable'[s] \in {Zero, run, Bad}
    BY <2>1, <1>13, <1>b DEF PhaseInv, TableNew
  <2>4. Agree(cache', durable', wiped')
    BY <2>2, <2>3, <1>a, AgreeNew
  <2>5. OneTable(cache', durable')
    BY <2>3, <1>a DEF OneTable
  <2> QED
    BY <2>2, <2>3, <2>4, <2>5, <1>13
       DEF PhaseInv, Wiping, Wiped, Copied, DataDone, TableNew, Starting, Copying, Staging, Late
<1>14. CASE Stage
  <2>1. StagedWrites(run) \in {0, 4}
    BY <1>a, PlanFacts
  <2>2. staged + 1 \in 1 .. 4
    BY <2>1, <1>14 DEF Stage, TypeInv, TypeOK, StageBound
  <2>3. StageOrder[staged + 1] \in Meta
    BY <2>2, StageFacts
  <2> QED
    BY <2>3, <1>13, <1>14 DEF Stage, WriteFails, End, Staging, Late
<1>15. CASE LastPoll
  BY <1>15 DEF LastPoll, disk, progress, PhaseInv, Wiping, Wiped, Copied,
     DataDone, TableNew, Starting, Copying, Staging, Late
<1>16. CASE Commit
  <2>1. CommitRegion(run) \in Meta
    BY <1>a, PlanFacts
  <2> QED
    BY <2>1, <1>13, <1>16 DEF Commit, WriteFails, End, Staging, Late
<1>17. CASE Flush
  <2>1. UNCHANGED <<disk, run, wiped, todo>>
    BY <1>17 DEF Flush, progress
  <2>2. CASE phase' \in {"ended"}
    BY <2>1, <2>2, <1>q DEF Starting, Copying, Staging, Late
  <2>3. CASE Flushed /\ phase = "flushTable" /\ phase' = "copy"
    <3>1. \A r \in Meta : cache[r] = Zero /\ durable[r] = Zero
      BY <2>3, <1>b DEF Flushed, PhaseInv, Wiping
    <3>2. todo = Chunks
      BY <2>3 DEF PhaseInv, Copied, Starting
    <3> QED
      BY <3>1, <3>2, <2>1, <2>3
         DEF disk, PhaseInv, Wiping, Wiped, Copied, DataDone, TableNew,
             Starting, Copying, Staging, Late
  <2>4. CASE Flushed /\ phase = "flushData" /\ phase' \in {"stage", "lastPoll"}
    <3>1. \A c \in Chunks : cache[c] = run /\ durable[c] = run
      BY <2>4, <1>b DEF Flushed, PhaseInv, Copied, Starting, Copying
    <3>2. \A r \in Meta : cache[r] = Zero /\ durable[r] = Zero
      BY <2>4 DEF PhaseInv, Wiped, Copying
    <3> QED
      BY <3>1, <3>2, <2>1, <2>4
         DEF disk, PhaseInv, Wiping, Wiped, Copied, DataDone, TableNew,
             Starting, Copying, Staging, Late
  <2>5. CASE phase = "flushStaged" /\ phase' = "lastPoll"
    BY <2>1, <2>5
       DEF disk, PhaseInv, Wiping, Wiped, Copied, DataDone, TableNew,
           Starting, Copying, Staging, Late
  <2> QED
    BY <1>17, <2>2, <2>3, <2>4, <2>5 DEF Flush, AfterFlush, End
<1>18. CASE UNCHANGED vars
  BY <1>18 DEF vars, disk, progress, PhaseInv, Wiping, Wiped, Copied, DataDone, TableNew
<1> QED
  BY <1>1, <1>2, <1>3, <1>4, <1>5, <1>6, <1>7, <1>9, <1>10, <1>11, <1>12, <1>14,
     <1>15, <1>16, <1>17, <1>18 DEF Next

LEMMA DiskInvariant == Spec => [](TypeInv /\ DiskInv)
<1>1. Init => DiskInv
  <2> SUFFICES ASSUME Init PROVE DiskInv
    OBVIOUS
  <2>1. /\ 0 \in Generations
        /\ \A r \in Regions : cache[r] = 0 /\ durable[r] = 0
    BY RunsAssumption DEF Init, Generations
  <2>2. Agree(cache, durable, wiped)
    BY <2>1, Distinct, AgreeNew
  <2>3. OneTable(cache, durable)
    BY <2>1, Distinct DEF OneTable
  <2>4. phase = "ended"
    BY DEF Init
  <2> QED
    BY <2>2, <2>3, <2>4
       DEF DiskInv, PhaseInv, Wiping, Wiped, Copied, DataDone, TableNew, Starting,
           Copying, Staging, Late
<1>2. TypeInv /\ NumberInv /\ DiskInv /\ [Next]_vars => DiskInv'
  BY DiskStep
<1> QED BY <1>1, <1>2, TypeInvariant, NumberInvariant, PTL DEF Spec

LEMMA ReadableInMixture ==
  ASSUME NEW g, NEW d \in {cache, durable}, Readable(d, g)
  PROVE  Mixable(cache, durable, g)
  BY DEF Readable, Mixable

\* Whatever is read off the target, with the machine running or after a power
\* loss at any point, a table that can be made out belongs to the data there;
\* only a later run's wipe of the first and the last MiB may have run ahead.
THEOREM MediumSafe == Spec => []TableImpliesData
<1>1. DiskInv => TableImpliesData
  <2> SUFFICES ASSUME DiskInv, NEW d \in {cache, durable}, NEW g \in Generations,
                      Readable(d, g), NEW c \in Chunks
               PROVE  Fitting(d[c], c, g, wiped)
    BY DEF TableImpliesData, Fitting
  <2>1. Mixable(cache, durable, g)
    BY ReadableInMixture
  <2> QED BY <2>1, UnderTable DEF DiskInv
<1> QED BY <1>1, DiskInvariant, PTL

-------------------------------------------------------------------------------
(* What a run reports.                                                        *)

\* The flag and the phase it was raised in.
AskedInv ==
  /\ ~cancel => asked = "ended"
  /\ phase \in {"commit", "flushCommit"} => asked \in {"commit", "flushCommit", "ended"}
  /\ phase # "ended" => result = "none"
  /\ CancelHonoured

\* A cancel that the engine could still have seen is never lost.
THEOREM CancelNotLost == Spec => []CancelHonoured
<1>1. Init => AskedInv
  BY DEF Init, AskedInv, CancelHonoured
<1>2. AskedInv /\ [Next]_vars => AskedInv'
  <2> SUFFICES ASSUME AskedInv, [Next]_vars PROVE AskedInv'
    OBVIOUS
  <2> USE DEF AskedInv, CancelHonoured
  <2>1. CASE WriteBack \/ Arm \/ Boundary \/ LastPoll \/ UNCHANGED vars
    BY <2>1 DEF WriteBack, Arm, Boundary, LastPoll, vars, user
  <2>2. CASE PowerLoss
    BY <2>2 DEF PowerLoss, user
  <2>3. CASE Begin \/ RequestCancel
    BY <2>3 DEF Begin, RequestCancel
  <2>4. CASE CancelSeen
    BY <2>4 DEF CancelSeen, FlushingPolls, End, user
  <2>5. CASE Plan
    BY <2>5 DEF Plan, End, user
  <2>6. CASE InvalidateHead \/ InvalidateTail \/ CopyChunk
    BY <2>6 DEF InvalidateHead, InvalidateTail, CopyChunk, WriteFails, End, user
  <2>7. CASE Stage
    BY <2>7 DEF Stage, WriteFails, End, user
  <2>8. CASE Commit
    BY <2>8 DEF Commit, WriteFails, End, user
  <2>9. CASE Flush
    BY <2>9 DEF Flush, AfterFlush, End, user
  <2> QED
    BY <2>1, <2>2, <2>3, <2>4, <2>5, <2>6, <2>7, <2>8, <2>9 DEF Next
<1>3. AskedInv => CancelHonoured
  BY DEF AskedInv
<1> QED BY <1>1, <1>2, <1>3, PTL DEF Spec

\* What has been written when a run may report.
CommitLast ==
  phase \notin {"flushCommit", "ended"} =>
    CommitRegion(run) \notin wrote \/ cache[CommitRegion(run)] # run
Untouched == phase \in {"plan", "armed", "head"} => wrote = {}
StagedDone ==
  /\ phase \in Staging => \A i \in 1 .. staged : cache[StageOrder[i]] = run
  /\ phase = "flushCommit" => cache[CommitRegion(run)] = run
AtLastPoll == phase = "lastPoll" => Flushed
Succeeded ==
  result = "success" => \A r \in PlanRegions(run) : cache[r] = run /\ durable[r] = run
Reports == phase # "ended" => result = "none"

ReportInv ==
  /\ CommitLast /\ Untouched /\ StagedDone /\ AtLastPoll
  /\ Succeeded /\ CancelLeavesDiskSettled /\ Reports

\* At the end of the commit every region of the plan has been written.
LEMMA PlanWritten ==
  ASSUME TypeInv, DiskInv, StagedDone, phase = "flushCommit"
  PROVE  \A r \in PlanRegions(run) : cache[r] = run
  <1>1. run \in Generations /\ staged = StagedWrites(run)
    BY DEF TypeInv, TypeOK, StageBound, Late
  <1>2. \A c \in Chunks : cache[c] = run
    BY DEF DiskInv, PhaseInv, DataDone, Staging, Late
  <1>3. CASE StyleOf[run] = "gpt"
    <2>1. staged = 4 /\ CommitRegion(run) = "primaryHeader"
      BY <1>1, <1>3 DEF StagedWrites, StageOrder, CommitRegion
    <2>2. \A i \in 1 .. 4 : cache[StageOrder[i]] = run
      BY <2>1 DEF StagedDone, Staging, Late
    <2>3. \A r \in Meta : cache[r] = run
      BY <2>1, <2>2, StageCovers DEF StagedDone
    <2> QED BY <1>2, <1>3, <2>3 DEF PlanRegions
  <1>4. CASE StyleOf[run] # "gpt"
    BY <1>2, <1>4 DEF PlanRegions, CommitRegion, StagedDone
  <1> QED BY <1>3, <1>4

LEMMA ReportStep ==
  ASSUME TypeInv, DiskInv, ReportInv, [Next]_vars
  PROVE  ReportInv'
<1> USE DEF ReportInv
<1>a. TypeOK /\ run \in Generations /\ run # Zero /\ run # Bad
  BY Distinct DEF TypeInv, TypeOK
<1>b. /\ CommitRegion(run) \in HeadArea /\ CommitRegion(run) \in Regions
      /\ HeadArea \in SUBSET Regions /\ TailArea \in SUBSET Regions
      /\ CommitRegion(run) \notin TailArea
      /\ \A c \in Chunks : c # CommitRegion(run)
  <2>1. CommitRegion(run) \in Meta /\ CommitRegion(run) \in HeadMeta \ TailMeta
    BY <1>a, PlanFacts DEF CommitRegion, HeadMeta, TailMeta
  <2>2. TailChunks \subseteq Chunks
    BY ChunksAssumption DEF EdgeChunks
  <2> QED BY <2>1, <2>2, Distinct DEF HeadArea, TailArea
\* A run that ends with nothing to promise.
<1>e. ASSUME phase' = "ended", result' \in {"none", "failed", "lost"} PROVE ReportInv'
  BY <1>e DEF CommitLast, Untouched, StagedDone, AtLastPoll, Succeeded,
     CancelLeavesDiskSettled, Reports, Staging, Late
<1>w. ASSUME NEW S, NEW v, WriteFails(S, v) PROVE ReportInv'
  BY <1>w, <1>e DEF WriteFails, End
\* A step on the way, before the table is written.
<1>n. ASSUME phase # "ended", run' = run, result' = result,
             phase' \in Starting \cup Copying \cup {"boundary", "cancelFlush"},
             phase' \in {"plan", "armed", "head"} => wrote' = {},
             CommitRegion(run) \notin wrote' \/ cache'[CommitRegion(run)] # run
      PROVE  ReportInv'
  BY <1>n DEF CommitLast, Untouched, StagedDone, AtLastPoll, Succeeded,
     CancelLeavesDiskSettled, Reports, Starting, Copying, Staging, Late
<1>1. CASE WriteBack
  <2>1. PICK r \in Regions :
          /\ durable[r] # cache[r]
          /\ \A s \in Regions : s # r => durable'[s] = durable[s]
    BY <1>1, <1>a DEF WriteBack, TypeOK
  <2>2. UNCHANGED <<cache, run, phase, staged, wrote, result>>
    BY <1>1 DEF WriteBack, progress
  <2>3. (CommitLast /\ Untouched /\ StagedDone /\ Reports)'
    BY <2>2 DEF CommitLast, Untouched, StagedDone, Reports
  <2>4. AtLastPoll'
    BY <2>1, <2>2 DEF AtLastPoll, Flushed
  <2>5. Succeeded'
    BY <2>1, <2>2, <1>a, PlanFacts DEF Succeeded
  <2>6. CancelLeavesDiskSettled'
    BY <2>1, <2>2, <1>a DEF CancelLeavesDiskSettled, TypeOK
  <2> QED BY <2>3, <2>4, <2>5, <2>6
<1>2. CASE PowerLoss
  <2>1. CASE phase # "ended"
    BY <2>1, <1>2, <1>e DEF PowerLoss
  <2>2. CASE phase = "ended"
    BY <2>2, <1>2 DEF PowerLoss, CommitLast, Untouched, StagedDone, AtLastPoll,
       Succeeded, CancelLeavesDiskSettled, Reports, Staging, Late
  <2> QED BY <2>1, <2>2
<1>3. CASE Begin
  BY <1>3 DEF Begin, CommitLast, Untouched, StagedDone, AtLastPoll, Succeeded,
     CancelLeavesDiskSettled, Reports, Staging, Late
<1>4. CASE RequestCancel \/ UNCHANGED vars
  BY <1>4 DEF RequestCancel, vars, disk, progress, CommitLast, Untouched, StagedDone,
     AtLastPoll, Succeeded, CancelLeavesDiskSettled, Reports, Flushed
<1>c. ASSUME phase # "ended", phase' = "ended", result' = "cancelled",
             UNCHANGED <<disk, run, wrote>>, \A r \in wrote : cache[r] = durable[r],
             phase # "flushCommit"
      PROVE  ReportInv'
  BY <1>c DEF disk, CommitLast, Untouched, StagedDone, AtLastPoll, Succeeded,
     CancelLeavesDiskSettled, Reports, Staging, Late
<1>5. CASE CancelSeen
  <2>1. CASE phase \in PlainPolls
    <3>1. \A r \in wrote : cache[r] = durable[r]
      BY <2>1, <1>a DEF PlainPolls, Untouched, AtLastPoll, Flushed, TypeOK
    <3> QED
      BY <3>1, <2>1, <1>5, <1>c DEF CancelSeen, PlainPolls, FlushingPolls, End
  <2>2. CASE phase \in FlushingPolls
    <3>1. phase # "ended" /\ phase # "flushCommit" /\ phase \notin PlainPolls
      BY <2>2 DEF FlushingPolls, PlainPolls
    <3>2. /\ phase' = "cancelFlush"
          /\ run' = run /\ result' = result /\ wrote' = wrote /\ cache' = cache
      BY <3>1, <1>5 DEF CancelSeen, disk
    <3> QED BY <3>1, <3>2, <1>n DEF CommitLast
  <2> QED BY <1>5, <2>1, <2>2 DEF CancelSeen
<1>6. CASE Plan
  BY <1>6, <1>e, <1>n DEF Plan, End, disk, CommitLast, Untouched, Starting
<1>7. CASE Arm
  BY <1>7, <1>n DEF Arm, disk, CommitLast, Untouched, Starting
<1>8. CASE InvalidateHead
  <2>1. CASE Verified(HeadArea, Zero) /\ phase' = "tail" /\ UNCHANGED <<progress, result>>
    <3>1. cache'[CommitRegion(run)] # run
      BY <2>1, <1>a, <1>b, WriteEffect
    <3> QED BY <3>1, <2>1, <1>8, <1>n DEF InvalidateHead, Starting
  <2> QED BY <1>8, <1>w, <2>1 DEF InvalidateHead
<1>9. CASE InvalidateTail
  <2>1. CASE Verified(TailArea, Zero) /\ phase' = "flushTable" /\ UNCHANGED <<progress, result>>
    <3>1. /\ cache'[CommitRegion(run)] = cache[CommitRegion(run)]
          /\ wrote' = wrote \cup TailArea
      BY <2>1, <1>a, <1>b, WriteEffect DEF Verified
    <3> QED BY <3>1, <2>1, <1>9, <1>b, <1>n DEF InvalidateTail, Starting, CommitLast
  <2> QED BY <1>9, <1>w, <2>1 DEF InvalidateTail
<1>10. CASE CopyChunk
  <2>1. PICK c \in todo :
          \/ Verified({c}, run) /\ phase' = "boundary" /\ result' = result
          \/ WriteFails({c}, run)
    BY <1>10 DEF CopyChunk
  <2>2. CASE Verified({c}, run) /\ phase' = "boundary" /\ result' = result
    <3>1. c \in Chunks /\ {c} \in SUBSET Regions
      BY <1>a, Distinct DEF TypeOK
    <3>2. /\ cache'[CommitRegion(run)] = cache[CommitRegion(run)]
          /\ wrote' = wrote \cup {c}
      BY <2>2, <3>1, <1>a, <1>b, WriteEffect DEF Verified
    <3> QED BY <3>1, <3>2, <2>2, <1>10, <1>b, <1>n DEF CopyChunk, CommitLast
  <2> QED BY <1>w, <2>1, <2>2
<1>11. CASE Boundary
  BY <1>11, <1>n DEF Boundary, disk, CommitLast, Copying
<1>12. CASE Stage
  <2>1. staged + 1 \in 1 .. 4 /\ staged \in Nat /\ StyleOf[run] = "gpt"
    BY <1>12, <1>a DEF Stage, TypeInv, TypeOK, StageBound, StagedWrites, StageOrder
  <2> DEFINE r == StageOrder[staged + 1]
  <2>2. r \in Meta \ {"primaryHeader"} /\ CommitRegion(run) = "primaryHeader"
    BY <2>1, StageFacts DEF CommitRegion
  <2>3. CASE /\ Verified({r}, run) /\ staged' = staged + 1 /\ result' = result
             /\ phase' \in {"stage", "flushStaged"}
    <3>1. /\ \A s \in Regions \ {r} : cache'[s] = cache[s]
          /\ cache'[r] = run
          /\ wrote' = wrote \cup {r}
          /\ run' = run
      BY <2>2, <2>3, <1>12, <1>a, Distinct, WriteEffect DEF Verified, Stage
    <3>2. CommitLast'
      BY <3>1, <2>2, <2>3, <1>12, <1>b DEF Stage, CommitLast
    <3>3. \A i \in 1 .. staged' : cache'[StageOrder[i]] = run
      <4> SUFFICES ASSUME NEW i \in 1 .. staged + 1 PROVE cache'[StageOrder[i]] = run
        BY <2>3
      <4>1. CASE i = staged + 1
        BY <4>1, <3>1
      <4>2. CASE i # staged + 1
        <5>1. i \in 1 .. staged /\ i \in 1 .. 4
          BY <4>2, <2>1
        <5>2. StageOrder[i] \in Regions /\ cache[StageOrder[i]] = run
          BY <5>1, <1>12, StageFacts, Distinct DEF Stage, StagedDone, Staging
        <5> QED BY <5>2, <3>1
      <4> QED BY <4>1, <4>2
    <3> QED
      BY <3>1, <3>2, <3>3, <2>3, <1>12
         DEF Stage, Untouched, StagedDone, AtLastPoll, Succeeded,
             CancelLeavesDiskSettled, Reports
  <2> QED BY <1>12, <1>w, <2>3 DEF Stage
<1>13. CASE LastPoll
  BY <1>13 DEF LastPoll, disk, progress, CommitLast, Untouched, StagedDone, AtLastPoll,
     Succeeded, CancelLeavesDiskSettled, Reports, Staging, Late
<1>14. CASE Commit
  <2>1. CASE /\ Verified({CommitRegion(run)}, run)
             /\ phase' = "flushCommit" /\ UNCHANGED <<progress, result>>
    <3>1. /\ \A s \in Regions \ {CommitRegion(run)} : cache'[s] = cache[s]
          /\ cache'[CommitRegion(run)] = run
          /\ run' = run
      BY <2>1, <1>14, <1>a, <1>b, WriteEffect DEF Commit
    <3>2. staged \in {0, 4} /\ staged' = staged
      BY <2>1, <1>14, <1>a, PlanFacts DEF Commit, progress, TypeInv, StageBound, Late
    <3>3. \A i \in 1 .. staged : cache'[StageOrder[i]] = run
      <4> SUFFICES ASSUME NEW i \in 1 .. staged PROVE cache'[StageOrder[i]] = run
        OBVIOUS
      <4>1. StageOrder[i] \in Regions /\ cache[StageOrder[i]] = run
        BY <3>2, <1>14, StageFacts, Distinct DEF Commit, StagedDone, Staging, Late
      <4> QED BY <4>1, <3>1
    <3> QED
      BY <3>1, <3>2, <3>3, <2>1, <1>14
         DEF Commit, CommitLast, Untouched, StagedDone, AtLastPoll, Succeeded,
             CancelLeavesDiskSettled, Reports
  <2> QED BY <1>14, <1>w, <2>1 DEF Commit
<1>15. CASE Flush
  <2>1. UNCHANGED <<disk, run, progress, wrote>>
    BY <1>15 DEF Flush
  <2>2. CASE End("failed")
    BY <2>2, <1>e DEF End
  <2>3. CASE Flushed /\ phase = "flushTable" /\ phase' = "copy" /\ UNCHANGED result
    BY <2>1, <2>3, <1>n DEF disk, CommitLast, Copying
  <2>4. CASE /\ Flushed /\ phase \in {"flushData", "flushStaged"}
             /\ phase' \in {"stage", "lastPoll"} /\ UNCHANGED result
             /\ phase' = "stage" => phase = "flushData"
    <3>1. phase = "flushData" => staged = 0
      BY DEF TypeInv, StageBound, Early
    <3>2. StagedDone'
      BY <3>1, <2>1, <2>4 DEF disk, progress, StagedDone, Staging, Late
    <3> QED
      BY <3>2, <2>1, <2>4
         DEF disk, CommitLast, Untouched, AtLastPoll, Flushed, Succeeded,
             CancelLeavesDiskSettled, Reports
  <2>5. CASE Flushed /\ phase = "flushCommit" /\ End("success")
    <3>1. \A r \in PlanRegions(run) : cache[r] = run /\ durable[r] = run
      BY <2>5, <1>a, PlanFacts, PlanWritten DEF Flushed
    <3> QED
      BY <3>1, <2>1, <2>5
         DEF End, disk, CommitLast, Untouched, StagedDone, AtLastPoll, Succeeded,
             CancelLeavesDiskSettled, Reports, Staging, Late
  <2>6. CASE Flushed /\ phase = "cancelFlush" /\ End("cancelled")
    BY <2>1, <2>6, <1>a, <1>c DEF End, Flushed, TypeOK
  <2> QED
    BY <1>15, <2>2, <2>3, <2>4, <2>5, <2>6 DEF Flush, AfterFlush, End
<1> QED
  BY <1>1, <1>2, <1>3, <1>4, <1>5, <1>6, <1>7, <1>8, <1>9, <1>10, <1>11, <1>12,
     <1>13, <1>14, <1>15 DEF Next

LEMMA ReportInvariant == Spec => []ReportInv
<1>1. Init => ReportInv
  BY DEF Init, ReportInv, CommitLast, Untouched, StagedDone, AtLastPoll, Succeeded,
     CancelLeavesDiskSettled, Reports, Staging, Late
<1>2. TypeInv /\ DiskInv /\ ReportInv /\ [Next]_vars => ReportInv'
  BY ReportStep
<1> QED BY <1>1, <1>2, DiskInvariant, PTL DEF Spec

\* A clone reported complete is on the medium for good.
THEOREM SuccessStays == Spec => []SuccessIsDurable
<1>1. ReportInv => SuccessIsDurable
  BY DEF ReportInv, Succeeded, SuccessIsDurable
<1> QED BY <1>1, ReportInvariant, PTL

\* A clone reported cancelled has nothing left to write and no commit.
THEOREM CancelSettles == Spec => []CancelLeavesDiskSettled
<1>1. ReportInv => CancelLeavesDiskSettled
  BY DEF ReportInv
<1> QED BY <1>1, ReportInvariant, PTL

-------------------------------------------------------------------------------
(* The medium implements TargetDisk.                                          *)

\* A content of the medium as TargetDisk sees it.
Shown(v) == IF v = Zero THEN Bad ELSE v

\* The table on the medium, if there is one, fits the data.
ShownTable ==
  /\ DurableTable \in Generations \cup {NoTable}
  /\ DurableTable # NoTable =>
       /\ Readable(durable, DurableTable)
       /\ \A c \in Chunks : /\ Fitting(durable[c], c, DurableTable, wiped)
                            /\ Fitting(cache[c], c, DurableTable, wiped)
                            /\ cache[c] = DurableTable => durable[c] = DurableTable
  /\ \A g \in Generations : Readable(durable, g) => DurableTable # NoTable

LEMMA TableOnDisk == DiskInv => ShownTable
  <1> SUFFICES ASSUME DiskInv PROVE ShownTable
    OBVIOUS
  <1> USE DEF ShownTable
  <1>1. \A g \in Generations : Readable(durable, g) => g # NoTable
    BY Distinct
  <1>2. CASE \E g \in Generations : Readable(durable, g)
    <2>1. DurableTable \in Generations /\ Readable(durable, DurableTable)
      BY <1>2 DEF DurableTable
    <2>2. \A c \in Chunks : /\ Fitting(durable[c], c, DurableTable, wiped)
                            /\ Fitting(cache[c], c, DurableTable, wiped)
                            /\ cache[c] = DurableTable => durable[c] = DurableTable
      BY <2>1, ReadableInMixture, UnderTable DEF DiskInv
    <2> QED BY <1>1, <2>1, <2>2
  <1>3. CASE ~ \E g \in Generations : Readable(durable, g)
    BY <1>3 DEF DurableTable
  <1> QED BY <1>2, <1>3

\* Two tables that some mixture shows are of the same generation.
LEMMA SameTable ==
  ASSUME NEW ca, NEW du, OneTable(ca, du), NEW g \in Generations, NEW h \in Generations,
         Mixable(ca, du, g), Mixable(ca, du, h)
  PROVE  g = h
  <1>1. PICK k \in Generations :
          \A r \in Meta : ca[r] \in {Zero, Bad, k} /\ du[r] \in {Zero, Bad, k}
    BY DEF OneTable
  <1>2. ASSUME NEW x \in Generations, Mixable(ca, du, x) PROVE x = k
    <2>1. PICK T \in Tables(x) : \A r \in T : x \in {ca[r], du[r]}
      BY <1>2 DEF Mixable
    <2>2. PICK r \in T : r \in Meta
      BY PlanFacts
    <2> QED BY <2>1, <2>2, <1>1, Distinct
  <1> QED BY <1>2

\* Every step of the engines and of the disk is a step of TargetDisk or leaves
\* the medium as it was.
THEOREM Refinement == Spec => ImplementsTarget
<1>1. Init => Target!TargetInit
  <2> SUFFICES ASSUME Init PROVE Target!TargetInit
    OBVIOUS
  <2>1. 0 \in Generations /\ wiped = 0 /\ \A r \in Regions : durable[r] = 0
    BY RunsAssumption DEF Init, Generations
  <2>2. Readable(durable, 0)
    <3>1. Tables(0) # {}
      BY DEF Tables
    <3> QED BY <2>1, <3>1, PlanFacts, Distinct DEF Readable
  <2>3. \A g \in Generations : Readable(durable, g) => g = 0
    <3> SUFFICES ASSUME NEW g \in Generations, Readable(durable, g) PROVE g = 0
      OBVIOUS
    <3>1. PICK T \in Tables(g) : \A r \in T : durable[r] = g
      BY DEF Readable
    <3>2. PICK r \in T : r \in Meta
      BY PlanFacts
    <3> QED BY <3>1, <3>2, <2>1, Distinct
  <2>4. DurableTable = 0
    BY <2>1, <2>2, <2>3 DEF DurableTable
  <2>5. [c \in Chunks |-> IF durable[c] = Zero THEN Bad ELSE durable[c]]
          = [c \in Chunks |-> DurableTable]
    BY <2>1, <2>4, Distinct
  <2> QED BY <2>1, <2>4, <2>5 DEF Target!TargetInit
<1>2. /\ TypeInv /\ NumberInv /\ DiskInv /\ DiskInv'
      /\ [Next]_vars
      => [Target!TargetNext]_(Target!vars)
  <2> SUFFICES ASSUME TypeInv, NumberInv, DiskInv, DiskInv', [Next]_vars
               PROVE  [Target!TargetNext]_(Target!vars)
    OBVIOUS
  <2> DEFINE data == [c \in Chunks |-> IF durable[c] = Zero THEN Bad ELSE durable[c]]
  <2>1. CASE durable' = durable /\ wiped' = wiped
    BY <2>1 DEF Target!vars, DurableTable, Readable
  <2>2. CASE durable' = durable /\ wiped' # wiped
    <3>1. wiped' = run /\ run \in Generations
      BY <2>2 DEF Next, WriteBack, PowerLoss, Begin, RequestCancel, CancelSeen, Plan, Arm,
         InvalidateHead, InvalidateTail, CopyChunk, Boundary, Stage, LastPoll, Commit,
         Flush, vars, TypeInv, TypeOK
    <3>2. wiped < run
      BY <2>2, <3>1, RunsAssumption DEF NumberInv, WipedRun, TypeInv, TypeOK, Generations
    <3>3. DurableTable' = DurableTable /\ data' = data
      BY <2>2 DEF DurableTable, Readable
    <3> QED BY <3>1, <3>2, <3>3 DEF Target!TargetNext, Target!Supersede
  <2>3. CASE WriteBack
    <3>1. PICK r \in Regions :
            /\ durable[r] # cache[r]
            /\ \/ durable' = [durable EXCEPT ![r] = cache[r]]
               \/ durable' = [durable EXCEPT ![r] = Bad]
      BY <2>3 DEF WriteBack
    <3>2. durable \in [Regions -> Values] /\ cache \in [Regions -> Values] /\ Bad \in Values
      BY Distinct DEF TypeInv, TypeOK
    <3>w. wiped' = wiped /\ cache' = cache
      BY <2>3 DEF WriteBack
    <3>3. ShownTable /\ ShownTable'
      <4>1. ShownTable
        BY TableOnDisk
      <4>2. ShownTable'
        BY TableOnDisk, PTL
      <4> QED BY <4>1, <4>2
    <3>5. CASE r \in Chunks
      <4>2. \A s \in Meta : durable'[s] = durable[s]
        BY <3>1, <3>2, <3>5, Distinct
      <4>3. \A g \in Generations : Readable(durable', g) <=> Readable(durable, g)
        BY <4>2, PlanFacts DEF Readable
      <4>4. DurableTable' = DurableTable
        BY <4>3 DEF DurableTable
      <4>5. PICK v \in Values : v \in {cache[r], Bad} /\ durable' = [durable EXCEPT ![r] = v]
        BY <3>1, <3>2
      <4>6. data' = [data EXCEPT ![r] = Shown(v)] /\ Shown(v) \in Generations \cup {Bad}
        BY <4>5, <3>2, <3>5, Distinct DEF Shown, Values
      <4>7. CASE DurableTable = NoTable
        BY <3>5, <3>w, <4>4, <4>6, <4>7 DEF Target!TargetNext, Target!Overwrite
      <4>8. CASE DurableTable # NoTable
        <5>1. /\ Fitting(durable[r], r, DurableTable, wiped)
              /\ Fitting(cache[r], r, DurableTable, wiped)
              /\ cache[r] # DurableTable
          BY <4>8, <3>1, <3>3, <3>5 DEF ShownTable
        <5>2. r \in EdgeChunks /\ DurableTable < wiped
          BY <5>1, <3>1 DEF Fitting
        <5>3. Shown(v) = Bad
          BY <5>1, <4>5 DEF Shown, Fitting
        <5> QED
          BY <5>2, <5>3, <3>w, <4>4, <4>6, <4>8 DEF Target!TargetNext, Target!Wipe
      <4> QED BY <4>7, <4>8
    <3>6. CASE r \notin Chunks
      <4>1. \A c \in Chunks : durable'[c] = durable[c]
        BY <3>1, <3>2, <3>6, Distinct
      <4>2. data' = data
        BY <4>1
      <4>3. CASE DurableTable' = DurableTable
        BY <4>2, <4>3, <3>w DEF Target!vars
      <4>4. CASE DurableTable' = NoTable /\ DurableTable # NoTable
        BY <4>2, <4>4, <3>w DEF Target!TargetNext, Target!Retire
      <4>5. CASE DurableTable' # NoTable /\ DurableTable' # DurableTable
        <5>1. /\ DurableTable' \in Generations
              /\ \A c \in Chunks : Fitting(durable[c], c, DurableTable', wiped)
          BY <4>1, <4>5, <3>3, <3>w DEF ShownTable
        <5>2. DurableTable = NoTable
          <6> SUFFICES ASSUME DurableTable # NoTable PROVE FALSE
            OBVIOUS
          <6>1. DurableTable \in Generations /\ Mixable(cache, durable, DurableTable)
            BY <3>3, ReadableInMixture DEF ShownTable
          <6>2. Mixable(cache, durable, DurableTable')
            <7>1. Readable(durable', DurableTable')
              BY <4>5, <3>3 DEF ShownTable
            <7>2. Mixable(cache', durable', DurableTable')
              BY <7>1 DEF Readable, Mixable
            <7>3. \A s \in Meta : /\ cache'[s] \in {cache[s], durable[s], Zero, Bad}
                                  /\ durable'[s] \in {cache[s], durable[s], Zero, Bad}
              BY <3>1, <3>2, <3>w, Distinct
            <7> QED BY <7>2, <7>3, <5>1, MixableKept
          <6> QED BY <6>1, <6>2, <5>1, <4>5, SameTable DEF DiskInv
        <5>3. Target!Fits(DurableTable')
          <6> SUFFICES ASSUME NEW c \in Chunks
                       PROVE  \/ data[c] = DurableTable'
                              \/ /\ c \in EdgeChunks /\ DurableTable' < wiped
                                 /\ data[c] = Bad
            BY DEF Target!Fits
          <6>1. Fitting(durable[c], c, DurableTable', wiped) /\ DurableTable' # Zero
            BY <5>1, Distinct
          <6> QED BY <6>1 DEF Fitting
        <5> QED
          BY <5>1, <5>2, <5>3, <4>2, <3>w DEF Target!TargetNext, Target!Publish
      <4> QED BY <4>3, <4>4, <4>5
    <3> QED BY <3>5, <3>6
  <2>4. WriteBack \/ durable' = durable
    BY DEF Next, PowerLoss, Begin, RequestCancel, CancelSeen, Plan, Arm, InvalidateHead,
       InvalidateTail, CopyChunk, Boundary, Stage, LastPoll, Commit, Flush, Verified,
       WriteFails, vars, disk
  <2> QED BY <2>1, <2>2, <2>3, <2>4
<1> QED
  BY <1>1, <1>2, TypeInvariant, NumberInvariant, DiskInvariant, PTL
     DEF Spec, ImplementsTarget, Target!TargetSpec
==============================================================================
