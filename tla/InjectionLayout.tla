-------------------------- MODULE InjectionLayout --------------------------
(***************************************************************************)
(* The token and block arithmetic shared by the prompt composer, vLLM's    *)
(* block tables and the memory connector.  Every operator takes the block  *)
(* size as an argument: the module has no constants and no state.          *)
(***************************************************************************)
EXTENDS Integers, Sequences

(* The block-aligned front of n tokens: what the connector injects.        *)
AlignToBlockSize(n, b) == (n \div b) * b

(* How many blocks n tokens occupy.                                        *)
BlocksFor(n, b) == (n + b - 1) \div b

(* build_slot_mapping raises unless this holds.                            *)
MappingFits(ids, b, n) == b >= 1 /\ n >= 0 /\ n <= Len(ids) * b

(* Flat KV-cache slots of the first n tokens of a paged allocation.        *)
SlotMapping(ids, b, n) ==
  [t \in 1..n |-> ids[(t - 1) \div b + 1] * b + ((t - 1) % b)]

(* Where inject_layer scatters a slot: its page and the offset in it.      *)
PageOf(slot, pageSize) == slot \div pageSize
OffsetOf(slot, pageSize) == slot % pageSize

(* Length of the footer after padding: newlineLen tokens per repeat until  *)
(* the footer has at least b - 1 tokens.                                   *)
PaddedFooterLen(closeLen, newlineLen, b) ==
  LET repeats == IF b - 1 > closeLen THEN b - 1 - closeLen ELSE 0
  IN  newlineLen * repeats + closeLen

(* block_aligned_prefix raises unless this holds: otherwise the aligned    *)
(* prefix would leave retrieved chunk tokens in the recomputed tail.       *)
ChunksInsidePrefix(memory, footer, b) ==
  AlignToBlockSize(memory, b) >= memory - footer

(* memory_token_budget raises on a negative value.                         *)
ModelMemoryBudget(query, maxModelLen, answer) == maxModelLen - query - answer

MemoryTokenBudget(query, maxPosition, maxModelLen, answer) ==
  LET model == ModelMemoryBudget(query, maxModelLen, answer)
  IN  IF maxPosition < model THEN maxPosition ELSE model

(* strip_duplicate_query_bos: one leading token is dropped when memory and *)
(* query both start with it.                                               *)
StripDuplicateBos(memory, query, bos) ==
  IF memory # <<>> /\ query # <<>> /\ memory[1] = bos /\ query[1] = bos
  THEN Tail(query) ELSE query
=============================================================================
