--------------------------- MODULE MCVectorIndex ---------------------------
(* VectorIndex on small instances: two vectors that rank one way in fp32   *)
(* and are equal in fp16.                                                  *)
EXTENDS VectorIndex, TLC

CONSTANTS v, w

MCScores == [host |-> v :> 1 @@ w :> 2, gpu |-> v :> 1 @@ w :> 1]

Symmetry == Permutations(Ids) \cup Permutations(Payloads)
=============================================================================
