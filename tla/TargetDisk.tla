----------------------------- MODULE TargetDisk ------------------------------
(* What an offline clone promises about the disk it writes, whoever looks at  *)
(* it and whenever the power went: a partition table is there only together   *)
(* with the data it was made for, and that data is rewritten only while no    *)
(* table is there.  Only what a wipe reaches at the two edges of the disk may *)
(* go before its table does, and only once the disk's next content has begun. *)
EXTENDS Naturals

CONSTANTS Chunks,       \* the data ranges a table may refer to
          EdgeChunks,   \* those a wipe reaches
          Generations,  \* the contents a disk can be given, in order
          Garbage,      \* what a chunk holds after a wipe or a bad write
          NoTable

VARIABLES table, data,
          goal          \* the latest content that has begun to replace the last
vars == <<table, data, goal>>

Fits(g) ==
  \A c \in Chunks :
    data[c] = g \/ (c \in EdgeChunks /\ g < goal /\ data[c] = Garbage)

TargetInit ==
  /\ table \in Generations /\ goal = table
  /\ data = [c \in Chunks |-> table]

Supersede ==
  /\ \E g \in Generations : goal < g /\ goal' = g
  /\ UNCHANGED <<table, data>>

Wipe ==
  /\ table # NoTable /\ table < goal
  /\ \E c \in EdgeChunks : data' = [data EXCEPT ![c] = Garbage]
  /\ UNCHANGED <<table, goal>>

Retire ==
  /\ table # NoTable
  /\ table' = NoTable
  /\ UNCHANGED <<data, goal>>

Overwrite ==
  /\ table = NoTable
  /\ \E c \in Chunks, v \in Generations \cup {Garbage} :
       data' = [data EXCEPT ![c] = v]
  /\ UNCHANGED <<table, goal>>

Publish ==
  /\ table = NoTable
  /\ \E g \in Generations : Fits(g) /\ table' = g
  /\ UNCHANGED <<data, goal>>

TargetNext == Supersede \/ Wipe \/ Retire \/ Overwrite \/ Publish
TargetSpec == TargetInit /\ [][TargetNext]_vars
==============================================================================
