---------------------------- MODULE MCChunkFiles ----------------------------
(* Three chunks, the last of which is cut short of its window; the second  *)
(* tokenizer splits the first chunk in another way and leaves the others   *)
(* as they are.                                                            *)
EXTENDS ChunkFiles

Chunks == <<"a", "b", "c">>

First == [a |-> <<"a1", "a2">>, b |-> <<"b1">>, c |-> <<"c1", "c2">>, tables |-> <<"t">>]
Versions == <<First, [First EXCEPT !.a = <<"a12">>]>>
=============================================================================
