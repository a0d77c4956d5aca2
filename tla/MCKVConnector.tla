--------------------------- MODULE MCKVConnector ---------------------------
(***************************************************************************)
(* A small engine for KVConnector: two memories that share their header    *)
(* block and differ after it, a prompt without memory, blocks of two       *)
(* tokens and a pool too small for every request at once.                  *)
(***************************************************************************)
EXTENDS KVConnectorInvariant, TLC

CONSTANTS a, b, p0

MCMemories == {a, b}

(* header (2), chunk (2), footer padding (1): two whole blocks and a tail. *)
MCTokenIds == a :> <<"h", "h", "ca", "ca", "f">> @@ b :> <<"h", "h", "cb", "cb", "f">>
              @@ p0 :> <<"p">>
MCTokens == {"h", "ca", "cb", "c", "f", "p", "q"}
MCQuery == <<"q">>
MCKvOf == a :> <<"kv_h", "kv_ca">> @@ b :> <<"kv_h", "kv_cb">>

(* One region block and a tail: with three blocks, two requests are in the *)
(* pool at once exactly if they share their first block.                   *)
MCShortTokenIds == a :> <<"ca", "ca", "f">> @@ b :> <<"cb", "cb", "f">> @@ p0 :> <<"p">>
MCShortKvOf == a :> <<"kv_ca">> @@ b :> <<"kv_cb">>

(* Two chunks with the same text, encoded behind different context chunks: *)
(* the same token ids, different KV.                                       *)
MCAliasedTokenIds == a :> <<"h", "h", "c", "c", "f">> @@ b :> <<"h", "h", "c", "c", "f">>
                     @@ p0 :> <<"p">>

Symmetry == Permutations(Blocks) \cup Permutations(Requests) \cup Permutations(Users)
=============================================================================
