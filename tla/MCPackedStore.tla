--------------------------- MODULE MCPackedStore ---------------------------
(* Two layers, three chunks, a payload of one token and one of two.        *)
EXTENDS PackedStore, TLC

CONSTANTS t1, t2, a, b, c

OneThread == {t1}
TwoThreads == {t1, t2}
ThreeChunks == {a, b, c}
TwoChunks == {a, b}
LayerNames == <<"l1", "l2">>
ShortAndLong == {<<1>>, <<2, 3>>}

ChunkSymmetry == Permutations({a, b, c})
=============================================================================
