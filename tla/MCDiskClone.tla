---------------------------- MODULE MCDiskClone ------------------------------
(* A GPT disk, cloned over from a GPT source and then from an MBR one.         *)
EXTENDS DiskClone, TLC

MCStyleOf == 0 :> "gpt" @@ 1 :> "gpt" @@ 2 :> "mbr"
==============================================================================
