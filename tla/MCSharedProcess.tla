-------------------------- MODULE MCSharedProcess --------------------------
(* A facade with three chunks, the last one cut short of its window, and   *)
(* one with a single chunk, whose scaffold has the same tokens.            *)
EXTENDS SharedProcess

Chunks == [f1 |-> <<"a", "b", "c">>, f2 |-> <<"d">>]
Tokens == [header |-> <<"h">>, empty |-> <<"e">>, footer |-> <<"f">>,
           a |-> <<"a1">>, b |-> <<"b1", "b2", "b3">>, c |-> <<"c1", "c2">>, d |-> <<"d1">>]
=============================================================================
