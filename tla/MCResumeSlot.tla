---------------------------- MODULE MCResumeSlot -----------------------------
(* ResumeSlot for TLC: controllers are interchangeable, except for the one    *)
(* whose user comes back in the liveness run.                                 *)
EXTENDS ResumeSlot, TLC

CONSTANT User

ControllerSymmetry == Permutations(Controllers)

FairSpec == Spec /\ Fairness(User)

\* The user who comes back can always bring the interrupted operation to an end.
UserRecoversSlot == SlotRecoverable(User)
==============================================================================
