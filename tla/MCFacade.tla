----------------------------- MODULE MCFacade -----------------------------
(* Facade on small instances: the index that takes an id again over the    *)
(* pinned corpus, and the one that refuses it over the packed corpus.      *)
EXTENDS Facade, TLC

ExactAndPacked == {[exact |-> TRUE, pins |-> FALSE]}
BothWays == ExactAndPacked \cup {[exact |-> FALSE, pins |-> TRUE]}

Symmetry == Permutations(ChunkIds)
=============================================================================
