--------------------------- MODULE MCPinnedStore ---------------------------
(* PinnedStore on small instances.                                         *)
EXTENDS PinnedStore, TLC

Symmetry == Permutations(Users) \cup Permutations(Payloads)
=============================================================================
