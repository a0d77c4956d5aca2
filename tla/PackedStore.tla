---------------------------- MODULE PackedStore ----------------------------
(***************************************************************************)
(* The GPU chunk store: GPUMemoryStore with PackedGPUMemoryStore on top    *)
(* and the ChunkLookup both resolve chunk ids through.                     *)
(*                                                                         *)
(* The store is a dict of memories guarded by one lock.  Every section     *)
(* under the lock is one action here; what a method does outside it, or    *)
(* between two of its sections, is where another thread can come in:       *)
(* add_user_memory tests _packed before it takes the lock, and             *)
(* remove_user_memory takes it twice.                                      *)
(*                                                                         *)
(* finalize_packed concatenates the chunks' KV into one slab per layer.    *)
(* A search result is then gathered from the slabs: stable ids are mapped  *)
(* to rows by a row map, rows to slab positions by offsets and lengths.    *)
(* A row map is good for one snapshot of the corpus only.                  *)
(*                                                                         *)
(* A payload is its sequence of token ids, and its KV in a layer is        *)
(* tracked token by token, so that the slab arithmetic is the code's.      *)
(***************************************************************************)
EXTENDS Integers, Sequences, FiniteSets, SequencesExt

CONSTANTS
  Threads,     \* threads that call the store
  ChunkIds,    \* chunk ids
  Payloads,    \* payloads a chunk can be added with: nonempty token sequences
  Packs,       \* TRUE for PackedGPUMemoryStore, FALSE for GPUMemoryStore itself
  LayerOrder,  \* the KV layers, in the order they are packed
  NoLookup,    \* no lookup is built
  NoView,      \* nobody holds a selection
  MaxMaps,     \* bound: row maps built in one behaviour
  MaxSelect    \* bound: chunks selected at once

Layers == {LayerOrder[j] : j \in DOMAIN LayerOrder}

ASSUME PayloadAssumption ==
  \A p \in Payloads : p # <<>> /\ p \in Seq(Nat)

ASSUME PackedStoreAssumption ==
  /\ LayerOrder \in Seq(Layers) /\ LayerOrder # <<>> /\ IsInjective(LayerOrder)
  /\ Packs \in BOOLEAN
  /\ MaxMaps \in Nat /\ MaxSelect \in Nat

VARIABLES
  memories,    \* _memories, in insertion order
  totalTokens, \* _total_tokens
  lookup,      \* _chunk_lookup: its rows, and the row maps bound to it
  packed,      \* _packed
  rowsValid,   \* _packed_rows_valid
  slabs,       \* _packed_kv_by_layer
  index,       \* _packed_token_ids, _packed_offsets, _packed_lengths, max tokens
  maps,        \* every row map built so far, as its callers hold them
  view,        \* the _PackedSelectionLayerView a caller holds
  thread       \* where each thread is inside add or remove

vars == <<memories, totalTokens, lookup, packed, rowsValid, slabs, index, maps,
          view, thread>>

-----------------------------------------------------------------------------
(* The memories.                                                           *)

Ids(mems) == [i \in DOMAIN mems |-> mems[i].id]
Live == ToSet(Ids(memories))
PositionOf(id) == CHOOSE i \in DOMAIN memories : memories[i].id = id
TokensOf(id) == memories[PositionOf(id)].tokens

(* dict.pop: the memories but the one under id.                            *)
Without(id) == IF id \in Live THEN RemoveAt(memories, PositionOf(id)) ELSE memories

(* The KV of a payload in one layer, token by token.                       *)
KvOf(p, l) == [k \in DOMAIN p |-> <<l, p[k]>>]

(* Tokens an insertion under id takes the place of.                        *)
ReplacedTokens(id) == IF id \in Live THEN Len(TokensOf(id)) ELSE 0

Memory(id, p) == [id |-> id, tokens |-> p, kv |-> [l \in Layers |-> KvOf(p, l)]]

Concat(seqs) == FlattenSeq(seqs)
TokenCount(mems) == Len(Concat([i \in DOMAIN mems |-> mems[i].tokens]))

-----------------------------------------------------------------------------
(* Lookups: a frozen snapshot of the ids, built on first use and closed by *)
(* every change.  A row map is bound to the lookup it was built from.      *)

BuiltLookup ==
  IF lookup = NoLookup THEN [rows |-> Ids(memories), bound |-> {}] ELSE lookup

RowOf(l, id) == CHOOSE i \in DOMAIN l.rows : l.rows[i] = id

(* A removal that leaves the lookup as it was.                             *)
LookupKept(id) == lookup

(* remove_locked closes the lookup when it removed something.              *)
LookupAfterRemove(id) == IF id \in Live THEN NoLookup ELSE lookup

-----------------------------------------------------------------------------
(* Packing.                                                                *)

PrefixOffsets(lengths) ==
  [i \in DOMAIN lengths |->
     Len(Concat([j \in 1..(i - 1) |-> [k \in 1..lengths[j] |-> j]]))]

Lengths == [i \in DOMAIN memories |-> Len(memories[i].tokens)]

(* A packing that records its slabs before every layer is in them.         *)
PackLayersButLast(n) ==
  [l \in {LayerOrder[j] : j \in 1..(n - 1)} |->
     Concat([i \in DOMAIN memories |-> memories[i].kv[l]])]

(* The slabs after the first n layers are packed.                          *)
PackLayers(n) ==
  [l \in {LayerOrder[j] : j \in 1..n} |->
     Concat([i \in DOMAIN memories |-> memories[i].kv[l]])]

(* Views that forget the chunk's offset.                                   *)
RestoreWithoutOffset(new) ==
  [i \in DOMAIN memories |->
     [id     |-> memories[i].id,
      tokens |-> memories[i].tokens,
      kv     |-> [l \in Layers |->
                    IF l \in DOMAIN new
                    THEN SubSeq(new[l], 1, Lengths[i]) ELSE memories[i].kv[l]]]]

(* Every packed layer of a chunk becomes a view of its slab; the layers    *)
(* not packed stay as they are.                                            *)
RestoreViews(new) ==
  LET offsets == PrefixOffsets(Lengths)
  IN  [i \in DOMAIN memories |->
         [id     |-> memories[i].id,
          tokens |-> memories[i].tokens,
          kv     |-> [l \in Layers |->
                        IF l \in DOMAIN new
                        THEN SubSeq(new[l], offsets[i] + 1, offsets[i] + Lengths[i])
                        ELSE memories[i].kv[l]]]]

NoSlabs == [l \in {} |-> <<>>]
NoIndex == [tokens |-> <<>>, offsets |-> <<>>, lengths |-> <<>>, maxTokens |-> 0]

Largest(lengths) == CHOOSE n \in ToSet(lengths) : \A k \in ToSet(lengths) : k <= n

IndexTensors ==
  [tokens    |-> Concat([i \in DOMAIN memories |-> memories[i].tokens]),
   offsets   |-> PrefixOffsets(Lengths),
   lengths   |-> Lengths,
   maxTokens |-> Largest(Lengths)]

(* Flat slab positions of the rows' tokens, in row order.  Row r, position *)
(* p of a max_tokens wide grid counts when p is below the row's length.    *)
GatherIndices(rows) ==
  Concat([i \in DOMAIN rows |->
            LET grid == [p \in 1..index.maxTokens |-> index.offsets[rows[i]] + p]
            IN  SubSeq(grid, 1, index.lengths[rows[i]])])

Gathered(slab, indices) == [i \in DOMAIN indices |-> slab[indices[i]]]

-----------------------------------------------------------------------------
Idle == [op |-> "idle"]

Init ==
  /\ memories = <<>> /\ totalTokens = 0
  /\ lookup = NoLookup
  /\ packed = FALSE /\ rowsValid = TRUE
  /\ slabs = NoSlabs /\ index = NoIndex
  /\ maps = <<>> /\ view = NoView
  /\ thread = [t \in Threads |-> Idle]

(* add_user_memory up to its lock: the packed test and the copy to the GPU. *)
BeginAdd(t, id, p) ==
  /\ thread[t] = Idle
  /\ ~packed
  /\ thread' = [thread EXCEPT ![t] = [op |-> "add", id |-> id, tokens |-> p]]
  /\ UNCHANGED <<memories, totalTokens, lookup, packed, rowsValid, slabs, index,
                 maps, view>>

(* The section of add_user_memory: drop the old entry, insert the new one. *)
AddUserMemory(t) ==
  /\ thread[t].op = "add"
  /\ LET id == thread[t].id
     IN  /\ memories' = Append(Without(id), Memory(id, thread[t].tokens))
         /\ totalTokens' = totalTokens - ReplacedTokens(id) + Len(thread[t].tokens)
  /\ lookup' = NoLookup
  /\ thread' = [thread EXCEPT ![t] = Idle]
  /\ UNCHANGED <<packed, rowsValid, slabs, index, maps, view>>

(* The first section of remove_user_memory: the base store's.              *)
RemoveUserMemory(t, id) ==
  /\ thread[t] = Idle
  /\ id \in Live
  /\ memories' = Without(id)
  /\ totalTokens' = totalTokens - Len(TokensOf(id))
  /\ lookup' = LookupAfterRemove(id)
  /\ thread' = IF Packs THEN [thread EXCEPT ![t] = [op |-> "removed"]] ELSE thread
  /\ UNCHANGED <<packed, rowsValid, slabs, index, maps, view>>

(* The second section of remove_user_memory: the packed store's.           *)
InvalidatePacked(t) ==
  /\ thread[t].op = "removed"
  /\ rowsValid' = IF packed THEN FALSE ELSE rowsValid
  /\ slabs' = IF memories = <<>> THEN NoSlabs ELSE slabs
  /\ index' = IF memories = <<>> THEN NoIndex ELSE index
  /\ thread' = [thread EXCEPT ![t] = Idle]
  /\ UNCHANGED <<memories, totalTokens, lookup, packed, maps, view>>

-----------------------------------------------------------------------------
(* finalize_packed, one section; the base store's does nothing.  n layers  *)
(* are packed; an allocation that fails, for a layer or for the index      *)
(* tensors, raises with the payloads restored and the store unpacked.      *)
FinalizePacked(t) ==
  /\ thread[t] = Idle
  /\ Packs /\ ~packed
  /\ lookup' = BuiltLookup
  /\ IF memories = <<>>
     THEN packed' = TRUE /\ UNCHANGED <<memories, slabs, index>>
     ELSE \E n \in 0..Len(LayerOrder), indexed \in BOOLEAN :
            /\ indexed => n = Len(LayerOrder)
            /\ memories' = RestoreViews(PackLayers(n))
            /\ packed' = indexed
            /\ slabs' = IF indexed THEN PackLayers(n) ELSE slabs
            /\ index' = IF indexed THEN IndexTensors ELSE index
  /\ UNCHANGED <<totalTokens, rowsValid, maps, view, thread>>

(* finalize_chunk_lookup and get_chunk_memories: both build the lookup.    *)
FinalizeChunkLookup(t) ==
  /\ thread[t] = Idle
  /\ lookup' = BuiltLookup
  /\ UNCHANGED <<memories, totalTokens, packed, rowsValid, slabs, index, maps,
                 view, thread>>

CloseChunkLookup(t) ==
  /\ thread[t] = Idle
  /\ lookup' = NoLookup
  /\ UNCHANGED <<memories, totalTokens, packed, rowsValid, slabs, index, maps,
                 view, thread>>

-----------------------------------------------------------------------------
(* The device path.                                                        *)

(* A store that does not notice a removal.                                 *)
RequireOnlyPacked == Packs => packed

RequirePacked == Packs => packed /\ rowsValid

(* build_device_row_map: stable id i stands for items[i], as the vector    *)
(* index numbers its rows.                                                 *)
BuildDeviceRowMap(t, items) ==
  /\ thread[t] = Idle
  /\ RequirePacked
  /\ Len(maps) < MaxMaps
  /\ items # <<>> /\ ToSet(items) \subseteq ToSet(BuiltLookup.rows)
  /\ maps' = Append(maps, [items |-> items,
                           rows  |-> [i \in DOMAIN items |-> RowOf(BuiltLookup, items[i])]])
  /\ lookup' = [rows  |-> BuiltLookup.rows,
                 bound |-> BuiltLookup.bound \cup {Len(maps) + 1}]
  /\ UNCHANGED <<memories, totalTokens, packed, rowsValid, slabs, index, view, thread>>

(* device_rows accepts a map bound to the current lookup and no other.     *)
IsBound(n, l) == n \in l.bound

(* What the caller of stable ids wants and the rows they resolve to, both  *)
(* reversed: the best-ranked chunk comes last.                             *)
Asked(n, stable) == Reverse([i \in DOMAIN stable |-> maps[n].items[stable[i]]])
RowsFor(n, stable) == Reverse([i \in DOMAIN stable |-> maps[n].rows[stable[i]]])
AskedTokens(n, stable) ==
  LET asked == Asked(n, stable)
  IN  Concat([i \in DOMAIN asked |-> IF asked[i] \in Live THEN TokensOf(asked[i]) ELSE <<0>>])

(* get_device_chunk_memories: the entries at the rows, payloads and all.   *)
GetDeviceChunkMemories(t, n, stable) ==
  /\ thread[t] = Idle
  /\ IsBound(n, BuiltLookup)
  /\ lookup' = BuiltLookup
  /\ LET rows == RowsFor(n, stable)
     IN  /\ ToSet(rows) \subseteq DOMAIN memories
         /\ view' = [asked   |-> AskedTokens(n, stable),
                     indices |-> <<>>,
                     tokens  |-> Concat([i \in DOMAIN rows |-> memories[rows[i]].tokens]),
                     kv      |-> [l \in Layers |->
                                    Concat([i \in DOMAIN rows |-> memories[rows[i]].kv[l]])]]
  /\ UNCHANGED <<memories, totalTokens, packed, rowsValid, slabs, index, maps, thread>>

(* select_device_ids: slab positions and token ids now, KV layer by layer  *)
(* when composition asks for it.                                           *)
SelectDeviceIds(t, n, stable) ==
  /\ thread[t] = Idle
  /\ Packs /\ RequirePacked
  /\ IsBound(n, BuiltLookup)
  /\ lookup' = BuiltLookup
  /\ LET indices == GatherIndices(RowsFor(n, stable))
     IN  /\ ToSet(RowsFor(n, stable)) \subseteq DOMAIN index.offsets
         /\ view' = [asked   |-> AskedTokens(n, stable),
                     indices |-> indices,
                     tokens  |-> Gathered(index.tokens, indices),
                     kv      |-> NoSlabs]
  /\ UNCHANGED <<memories, totalTokens, packed, rowsValid, slabs, index, maps, thread>>

(* The view's __getitem__: one layer gathered from the slab as it is now.  *)
(* A layer that is gone raises, and the composition that holds the view    *)
(* ends with it.                                                           *)
GatherPackedLayer(l) ==
  /\ view # NoView /\ l \notin DOMAIN view.kv
  /\ view' = IF l \in DOMAIN slabs
             THEN [view EXCEPT !.kv =
                     [k \in DOMAIN view.kv \cup {l} |->
                        IF k = l THEN Gathered(slabs[l], view.indices) ELSE view.kv[k]]]
             ELSE NoView
  /\ UNCHANGED <<memories, totalTokens, lookup, packed, rowsValid, slabs, index,
                 maps, thread>>

(* Bindings and selections never repeat an id: both are refused.           *)
Orderings(S, n) == {s \in SeqOf(S, n) : s # <<>> /\ IsInjective(s)}

Next ==
  \/ \E t \in Threads :
       \/ \E id \in ChunkIds, p \in Payloads : BeginAdd(t, id, p)
       \/ AddUserMemory(t)
       \/ \E id \in ChunkIds : RemoveUserMemory(t, id)
       \/ InvalidatePacked(t)
       \/ FinalizePacked(t)
       \/ FinalizeChunkLookup(t)
       \/ CloseChunkLookup(t)
       \/ \E items \in Orderings(ChunkIds, Cardinality(ChunkIds)) :
            BuildDeviceRowMap(t, items)
       \/ \E n \in DOMAIN maps :
            \E stable \in Orderings(DOMAIN maps[n].items, MaxSelect) :
              \/ GetDeviceChunkMemories(t, n, stable)
              \/ SelectDeviceIds(t, n, stable)
  \/ \E l \in Layers : GatherPackedLayer(l)

Spec == Init /\ [][Next]_vars

-----------------------------------------------------------------------------
(* Properties.                                                             *)

MapOf == [items : Seq(ChunkIds), rows : Seq(Nat \ {0})]

TypeOK ==
  /\ memories \in Seq([id : ChunkIds, tokens : Payloads, kv : [Layers -> Seq(Layers \X Nat)]])
  /\ totalTokens = TokenCount(memories)
  /\ lookup = NoLookup \/ lookup \in [rows : Seq(ChunkIds), bound : SUBSET (1..MaxMaps)]
  /\ packed \in BOOLEAN /\ rowsValid \in BOOLEAN
  /\ DOMAIN slabs \in {{}, Layers}
  /\ DOMAIN index = {"tokens", "offsets", "lengths", "maxTokens"}
  /\ maps \in Seq(MapOf) /\ Len(maps) <= MaxMaps
  /\ view = NoView \/ DOMAIN view = {"asked", "indices", "tokens", "kv"}
  /\ \A t \in Threads : thread[t].op \in {"idle", "add", "removed"}

(* What a selection hands to composition is what was asked for: the token  *)
(* ids, and in every layer gathered so far the KV, of the chunks the       *)
(* stable ids stood for, the best-ranked chunk last.                       *)
SelectionGathersRequestedChunks ==
  view # NoView =>
    /\ view.tokens = view.asked
    /\ \A l \in DOMAIN view.kv : view.kv[l] = KvOf(view.asked, l)

(* The lookup that resolves chunk ids always numbers the chunks the store  *)
(* has now, through additions, replacements, removals and failed packing.  *)
LookupIsCurrent == lookup # NoLookup => lookup.rows = Ids(memories)

(* A row map the store still accepts maps each stable id to the row of the *)
(* chunk it was bound to: a map of an earlier corpus is never accepted.    *)
BoundMapsAreCurrent ==
  lookup # NoLookup =>
    \A n \in lookup.bound : \A i \in DOMAIN maps[n].items :
      /\ maps[n].rows[i] \in DOMAIN memories
      /\ memories[maps[n].rows[i]].id = maps[n].items[i]

(* Packing loses no payload, whichever allocation of it fails: every       *)
(* chunk still has every layer of the KV it was added with.                *)
PayloadsSurvivePacking ==
  \A i \in DOMAIN memories : \A l \in Layers :
    memories[i].kv[l] = KvOf(memories[i].tokens, l)
=============================================================================
