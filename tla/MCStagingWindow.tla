-------------------------- MODULE MCStagingWindow --------------------------
(* StagingWindow on small instances.                                       *)
EXTENDS StagingWindow, TLC

Symmetry == Permutations(Users) \cup Permutations(Payloads)
=============================================================================
