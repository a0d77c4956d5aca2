------------------------ MODULE PackedStoreProofs ------------------------
(***************************************************************************)
(* What the chunk store promises, for any number of chunks, maps, layers   *)
(* and tokens; of lookups and payloads also for any number of threads.     *)
(*                                                                         *)
(* StoreInv is inductive.  A row map is only accepted while the lookup it  *)
(* was bound to is the store's, so what has to be shown is that nothing    *)
(* that renumbers the rows leaves that lookup standing.  PayloadInv says   *)
(* that what a chunk is missing is in the slabs, and where.  SelectionInv  *)
(* is about a lone caller, for which the slabs, once packed, are the       *)
(* concatenation of the chunks in the order of the rows.                   *)
(***************************************************************************)
EXTENDS PackedStore, DataLemmas

(* The lookup is a record that numbers the chunks of now, and the maps     *)
(* bound to it are maps that were built.                                   *)
LookupShape ==
  lookup # NoLookup =>
    /\ lookup = [rows |-> Ids(memories), bound |-> lookup.bound]
    /\ lookup.bound \subseteq DOMAIN maps

MapsShape == maps \in Seq(ToSet(maps))

StoreInv == MapsShape /\ LookupShape /\ BoundMapsAreCurrent

-----------------------------------------------------------------------------
(* Appending to a sequence keeps its shape and every entry it had.         *)
LEMMA AppendKeepsEntries ==
  ASSUME NEW s, s \in Seq(ToSet(s)), NEW e
  PROVE  /\ Append(s, e) \in Seq(ToSet(Append(s, e)))
         /\ DOMAIN Append(s, e) = DOMAIN s \cup {Len(s) + 1}
         /\ \A i \in DOMAIN s : Append(s, e)[i] = s[i]
         /\ Append(s, e)[Len(s) + 1] = e
         /\ Len(s) + 1 \notin DOMAIN s
<1> DEFINE S == ToSet(s) \cup {e}
<1>1. s \in Seq(S)
  BY DEF ToSet
<1>2. Append(s, e) \in Seq(S) /\ Len(Append(s, e)) = Len(s) + 1
  BY <1>1
<1>3. /\ DOMAIN Append(s, e) = DOMAIN s \cup {Len(s) + 1}
      /\ \A i \in DOMAIN s : Append(s, e)[i] = s[i]
      /\ Append(s, e)[Len(s) + 1] = e
      /\ Len(s) + 1 \notin DOMAIN s
  BY <1>1, <1>2
<1>4. ToSet(Append(s, e)) = S
  BY <1>3 DEF ToSet
<1>5. QED
  BY <1>2, <1>3, <1>4

(* Whatever was built before, the lookup a reader gets numbers the chunks  *)
(* the store has now.                                                      *)
LEMMA BuiltLookupIsCurrent ==
  ASSUME StoreInv
  PROVE  /\ BuiltLookup = [rows |-> Ids(memories), bound |-> BuiltLookup.bound]
         /\ BuiltLookup.bound \subseteq DOMAIN maps
         /\ \A n \in BuiltLookup.bound : \A i \in DOMAIN maps[n].items :
              /\ maps[n].rows[i] \in DOMAIN memories
              /\ memories[maps[n].rows[i]].id = maps[n].items[i]
<1>1. CASE lookup = NoLookup
  <2>1. BuiltLookup = [rows |-> Ids(memories), bound |-> {}]
    BY <1>1 DEF BuiltLookup
  <2>2. QED
    BY <2>1
<1>2. CASE lookup # NoLookup
  <2>1. BuiltLookup = lookup
    BY <1>2 DEF BuiltLookup
  <2>2. QED
    BY <1>2, <2>1 DEF StoreInv, LookupShape, BoundMapsAreCurrent
<1>3. QED
  BY <1>1, <1>2

(* The row of an id a lookup knows is the row of that id.                  *)
LEMMA RowOfIsRow ==
  ASSUME NEW mems, NEW b, NEW id \in ToSet(Ids(mems))
  PROVE  LET r == RowOf([rows |-> Ids(mems), bound |-> b], id)
         IN  r \in DOMAIN mems /\ mems[r].id = id
<1> DEFINE l == [rows |-> Ids(mems), bound |-> b]
<1>1. DOMAIN Ids(mems) = DOMAIN mems /\ \A i \in DOMAIN mems : Ids(mems)[i] = mems[i].id
  BY DEF Ids
<1>2. \E i \in DOMAIN l.rows : l.rows[i] = id
  BY DEF ToSet
<1>3. RowOf(l, id) \in DOMAIN l.rows /\ l.rows[RowOf(l, id)] = id
  BY <1>2 DEF RowOf
<1>4. QED
  BY <1>1, <1>3

(* Packing, failed or not, renumbers nothing.                              *)
LEMMA RestoreViewsKeepsIds ==
  ASSUME NEW new
  PROVE  /\ DOMAIN RestoreViews(new) = DOMAIN memories
         /\ Ids(RestoreViews(new)) = Ids(memories)
         /\ \A i \in DOMAIN memories : RestoreViews(new)[i].id = memories[i].id
<1>1. DOMAIN RestoreViews(new) = DOMAIN memories
  BY DEF RestoreViews
<1>2. \A i \in DOMAIN memories : RestoreViews(new)[i].id = memories[i].id
  BY DEF RestoreViews
<1>3. QED
  BY <1>1, <1>2 DEF Ids

-----------------------------------------------------------------------------
LEMMA StoreInit == Init => StoreInv
<1> SUFFICES ASSUME Init PROVE StoreInv
  OBVIOUS
<1>1. maps \in Seq(ToSet(maps))
  BY DEF Init
<1>2. QED
  BY <1>1 DEF Init, StoreInv, MapsShape, LookupShape, BoundMapsAreCurrent

(* A step that drops the lookup, or leaves lookup, maps and memories.      *)
LEMMA DroppedLookup ==
  ASSUME StoreInv, UNCHANGED maps, lookup' = NoLookup
  PROVE  StoreInv'
BY DEF StoreInv, MapsShape, LookupShape, BoundMapsAreCurrent

(* A step that builds the lookup over the same chunks.                     *)
LEMMA BuildingLookup ==
  ASSUME StoreInv, UNCHANGED maps, lookup' = BuiltLookup,
         DOMAIN memories' = DOMAIN memories, Ids(memories') = Ids(memories),
         \A i \in DOMAIN memories : memories'[i].id = memories[i].id
  PROVE  StoreInv'
<1>1. LookupShape'
  BY BuiltLookupIsCurrent DEF LookupShape
<1>2. BoundMapsAreCurrent'
  BY BuiltLookupIsCurrent DEF BoundMapsAreCurrent
<1>3. QED
  BY <1>1, <1>2 DEF StoreInv, MapsShape

LEMMA BindingMap ==
  ASSUME StoreInv, NEW t \in Threads, NEW items, BuildDeviceRowMap(t, items)
  PROVE  StoreInv'
<1> DEFINE b == BuiltLookup.bound
           m == [items |-> items,
                 rows  |-> [i \in DOMAIN items |-> RowOf(BuiltLookup, items[i])]]
<1>1. /\ maps' = Append(maps, m)
      /\ lookup' = [rows |-> BuiltLookup.rows, bound |-> b \cup {Len(maps) + 1}]
      /\ ToSet(items) \subseteq ToSet(BuiltLookup.rows)
      /\ memories' = memories
  BY DEF BuildDeviceRowMap
<1>2. /\ BuiltLookup = [rows |-> Ids(memories), bound |-> b]
      /\ b \subseteq DOMAIN maps
      /\ \A n \in b : \A i \in DOMAIN maps[n].items :
           /\ maps[n].rows[i] \in DOMAIN memories
           /\ memories[maps[n].rows[i]].id = maps[n].items[i]
  BY BuiltLookupIsCurrent
<1> HIDE DEF b, m
<1>2a. BuiltLookup.rows = Ids(memories)
  BY <1>2
<1>3. lookup' = [rows |-> Ids(memories), bound |-> b \cup {Len(maps) + 1}]
  BY <1>1, <1>2a
<1>4. /\ maps' \in Seq(ToSet(maps'))
      /\ DOMAIN maps' = DOMAIN maps \cup {Len(maps) + 1}
      /\ \A n \in DOMAIN maps : maps'[n] = maps[n]
      /\ maps'[Len(maps) + 1] = m
  BY <1>1, AppendKeepsEntries DEF StoreInv, MapsShape
<1>5. LookupShape'
  <2>1. lookup'.bound = b \cup {Len(maps) + 1}
    BY <1>3
  <2>2. QED
    BY <1>1, <1>2, <1>3, <1>4, <2>1 DEF LookupShape
<1>6. ASSUME NEW i \in DOMAIN items
      PROVE  m.rows[i] \in DOMAIN memories /\ memories[m.rows[i]].id = items[i]
  <2>1. items[i] \in ToSet(Ids(memories))
    BY <1>1, <1>2a, <1>6 DEF ToSet
  <2>2. m.rows[i] = RowOf([rows |-> Ids(memories), bound |-> b], items[i])
    BY <1>2, <1>6 DEF m
  <2>3. QED
    BY <2>1, <2>2, RowOfIsRow
<1>7. BoundMapsAreCurrent'
  <2> SUFFICES ASSUME NEW n \in b \cup {Len(maps) + 1}, NEW i \in DOMAIN maps'[n].items
               PROVE  /\ maps'[n].rows[i] \in DOMAIN memories'
                      /\ memories'[maps'[n].rows[i]].id = maps'[n].items[i]
    BY <1>3 DEF BoundMapsAreCurrent
  <2>1. CASE n \in b
    BY <1>1, <1>2, <1>4, <2>1
  <2>2. CASE n = Len(maps) + 1
    BY <1>1, <1>4, <1>6, <2>2 DEF m
  <2>3. QED
    BY <2>1, <2>2
<1>8. QED
  BY <1>4, <1>5, <1>7 DEF StoreInv, MapsShape

LEMMA StoreNext == StoreInv /\ [Next]_vars => StoreInv'
<1> SUFFICES ASSUME StoreInv, [Next]_vars PROVE StoreInv'
  OBVIOUS
<1>1. ASSUME NEW t \in Threads, NEW id \in ChunkIds, NEW p \in Payloads, BeginAdd(t, id, p)
      PROVE  StoreInv'
  BY <1>1 DEF BeginAdd, StoreInv, MapsShape, LookupShape, BoundMapsAreCurrent
<1>2. ASSUME NEW t \in Threads, AddUserMemory(t) PROVE StoreInv'
  BY <1>2, DroppedLookup DEF AddUserMemory
<1>3. ASSUME NEW t \in Threads, NEW id \in ChunkIds, RemoveUserMemory(t, id)
      PROVE  StoreInv'
  BY <1>3, DroppedLookup DEF RemoveUserMemory, LookupAfterRemove
<1>4. ASSUME NEW t \in Threads, InvalidatePacked(t) PROVE StoreInv'
  BY <1>4 DEF InvalidatePacked, StoreInv, MapsShape, LookupShape, BoundMapsAreCurrent
<1>5. ASSUME NEW t \in Threads, FinalizePacked(t) PROVE StoreInv'
  <2>1. lookup' = BuiltLookup /\ UNCHANGED maps
    BY <1>5 DEF FinalizePacked
  <2>2. memories' = memories \/ \E n \in 0..Len(LayerOrder) : memories' = RestoreViews(PackLayers(n))
    BY <1>5 DEF FinalizePacked
  <2>3. /\ DOMAIN memories' = DOMAIN memories /\ Ids(memories') = Ids(memories)
        /\ \A i \in DOMAIN memories : memories'[i].id = memories[i].id
    BY <2>2, RestoreViewsKeepsIds
  <2>4. QED
    BY <2>1, <2>3, BuildingLookup
<1>6. ASSUME NEW t \in Threads, FinalizeChunkLookup(t) PROVE StoreInv'
  BY <1>6, BuildingLookup DEF FinalizeChunkLookup
<1>7. ASSUME NEW t \in Threads, CloseChunkLookup(t) PROVE StoreInv'
  BY <1>7, DroppedLookup DEF CloseChunkLookup
<1>8. ASSUME NEW t \in Threads, NEW items \in Orderings(ChunkIds, Cardinality(ChunkIds)),
             BuildDeviceRowMap(t, items)
      PROVE  StoreInv'
  BY <1>8, BindingMap
<1>9. ASSUME NEW t \in Threads, NEW n \in DOMAIN maps,
             NEW stable \in Orderings(DOMAIN maps[n].items, MaxSelect),
             GetDeviceChunkMemories(t, n, stable) \/ SelectDeviceIds(t, n, stable)
      PROVE  StoreInv'
  <2>1. UNCHANGED <<memories, maps>> /\ lookup' = BuiltLookup
    BY <1>9 DEF GetDeviceChunkMemories, SelectDeviceIds
  <2>2. QED
    BY <2>1, BuildingLookup
<1>10. ASSUME NEW l \in Layers, GatherPackedLayer(l) PROVE StoreInv'
  BY <1>10 DEF GatherPackedLayer, StoreInv, MapsShape, LookupShape, BoundMapsAreCurrent
<1>11. CASE UNCHANGED vars
  BY <1>11 DEF vars, StoreInv, MapsShape, LookupShape, BoundMapsAreCurrent
<1>12. QED
  BY <1>1, <1>2, <1>3, <1>4, <1>5, <1>6, <1>7, <1>8, <1>9, <1>10, <1>11 DEF Next

LEMMA StoreInvariance == Spec => []StoreInv
<1>1. QED
  BY StoreInit, StoreNext, PTL DEF Spec

(* However threads interleave, and whatever packing fails, the lookup that *)
(* resolves chunk ids numbers the chunks the store has at that moment.     *)
THEOREM LookupIsAlwaysCurrent == Spec => []LookupIsCurrent
<1>1. StoreInv => LookupIsCurrent
  BY DEF StoreInv, LookupShape, LookupIsCurrent
<1>2. QED
  BY <1>1, StoreInvariance, PTL

(* A row map the store accepts was bound to the chunks it has now: a map   *)
(* kept across a change of the corpus is refused by device_rows.           *)
THEOREM AcceptedMapsAreCurrent == Spec => []BoundMapsAreCurrent
<1>1. StoreInv => BoundMapsAreCurrent
  BY DEF StoreInv
<1>2. QED
  BY <1>1, StoreInvariance, PTL

-----------------------------------------------------------------------------
(* With one caller, an add that saw the store unpacked cannot be in flight *)
(* once it is packed; so the slabs hold every chunk there is.              *)
NoAddInFlight ==
  /\ DOMAIN thread = Threads
  /\ packed => \A t \in Threads : thread[t].op # "add"

LEMMA NoAddInFlightInit == Init => NoAddInFlight
<1>1. QED
  BY DEF Init, NoAddInFlight

(* Steps that leave the threads, or only let one of them go.               *)
LEMMA CallersKept ==
  ASSUME NoAddInFlight, packed' = packed,
         \/ UNCHANGED thread
         \/ \E t \in Threads : thread' = [thread EXCEPT ![t] = Idle]
         \/ \E t \in Threads : thread' = [thread EXCEPT ![t] = [op |-> "removed"]]
  PROVE  NoAddInFlight'
BY DEF NoAddInFlight, Idle

LEMMA NoAddInFlightNext ==
  ASSUME \A t, u \in Threads : t = u, NoAddInFlight, [Next]_vars
  PROVE  NoAddInFlight'
<1>1. ASSUME NEW t \in Threads, NEW id \in ChunkIds, NEW p \in Payloads, BeginAdd(t, id, p)
      PROVE  NoAddInFlight'
  BY <1>1 DEF BeginAdd, NoAddInFlight
<1>2. ASSUME NEW t \in Threads, FinalizePacked(t) PROVE NoAddInFlight'
  BY <1>2 DEF FinalizePacked, NoAddInFlight, Idle
<1>3. ASSUME packed' = packed,
             \/ UNCHANGED thread
             \/ \E t \in Threads : thread' = [thread EXCEPT ![t] = Idle]
             \/ \E t \in Threads : thread' = [thread EXCEPT ![t] = [op |-> "removed"]]
      PROVE  NoAddInFlight'
  BY <1>3, CallersKept
<1>4. ASSUME NEW t \in Threads,
             \/ AddUserMemory(t) \/ InvalidatePacked(t)
             \/ \E id \in ChunkIds : RemoveUserMemory(t, id)
             \/ FinalizeChunkLookup(t) \/ CloseChunkLookup(t)
             \/ \E items \in Orderings(ChunkIds, Cardinality(ChunkIds)) :
                  BuildDeviceRowMap(t, items)
             \/ \E n \in DOMAIN maps :
                  \E stable \in Orderings(DOMAIN maps[n].items, MaxSelect) :
                    GetDeviceChunkMemories(t, n, stable) \/ SelectDeviceIds(t, n, stable)
      PROVE  NoAddInFlight'
  BY <1>3, <1>4 DEF AddUserMemory, RemoveUserMemory, InvalidatePacked, FinalizeChunkLookup,
                    CloseChunkLookup, BuildDeviceRowMap, GetDeviceChunkMemories, SelectDeviceIds
<1>5. ASSUME NEW l \in Layers, GatherPackedLayer(l) PROVE NoAddInFlight'
  BY <1>3, <1>5 DEF GatherPackedLayer
<1>6. CASE UNCHANGED vars
  BY <1>3, <1>6 DEF vars
<1>7. QED
  BY <1>1, <1>2, <1>4, <1>5, <1>6 DEF Next
-----------------------------------------------------------------------------
(* Payloads.  What is in the store is what was added to it, however many   *)
(* threads there are: packing replaces every tensor by a view of a slab,   *)
(* and the views have to add up.                                           *)
MemoryOf == [id : ChunkIds, tokens : Payloads, kv : [Layers -> Seq(Layers \X Nat)]]

AddersCarryPayloads ==
  \A t \in Threads : thread[t].op = "add" =>
    thread[t].id \in ChunkIds /\ thread[t].tokens \in Payloads

PayloadInv ==
  /\ DOMAIN thread = Threads /\ AddersCarryPayloads
  /\ memories \in Seq(MemoryOf)
  /\ PayloadsSurvivePacking
  /\ totalTokens = TokenCount(memories)

(* The KV of a payload has one entry per token.                            *)
LEMMA KvOfPayload ==
  ASSUME NEW p \in Payloads, NEW l \in Layers
  PROVE  /\ p \in Seq(Nat) /\ Len(p) \in Nat \ {0}
         /\ KvOf(p, l) \in Seq(Layers \X Nat) /\ Len(KvOf(p, l)) = Len(p)
         /\ \A k \in 1..Len(p) : KvOf(p, l)[k] = <<l, p[k]>>
<1>1. p \in Seq(Nat) /\ p # <<>>
  BY PayloadAssumption
<1>2. Len(p) \in Nat \ {0} /\ DOMAIN p = 1..Len(p) /\ \A k \in 1..Len(p) : p[k] \in Nat
  BY <1>1, EmptySeq
<1>3. KvOf(p, l) = [k \in 1..Len(p) |-> <<l, p[k]>>]
  BY <1>2 DEF KvOf
<1>4. \A k \in 1..Len(p) : <<l, p[k]>> \in Layers \X Nat
  BY <1>2
<1>5. QED
  BY <1>1, <1>2, <1>3, <1>4

LEMMA MemoryIsTyped ==
  ASSUME NEW id \in ChunkIds, NEW p \in Payloads
  PROVE  /\ Memory(id, p) \in MemoryOf
         /\ Memory(id, p).id = id /\ Memory(id, p).tokens = p
         /\ \A l \in Layers : Memory(id, p).kv[l] = KvOf(p, l)
<1>1. \A l \in Layers : KvOf(p, l) \in Seq(Layers \X Nat)
  BY KvOfPayload
<1>2. QED
  BY <1>1 DEF Memory, MemoryOf

(* The tokens of the memories, one sequence each.                          *)
TokensIn(mems) == [i \in DOMAIN mems |-> mems[i].tokens]

LEMMA TokensInShape ==
  ASSUME NEW mems \in Seq(MemoryOf)
  PROVE  /\ TokensIn(mems) \in Seq(Seq(Nat)) /\ Len(TokensIn(mems)) = Len(mems)
         /\ \A i \in 1..Len(mems) :
              TokensIn(mems)[i] = mems[i].tokens /\ mems[i].tokens \in Seq(Nat)
         /\ TokenCount(mems) = Len(FlattenSeq(TokensIn(mems)))
<1>1. /\ DOMAIN mems = 1..Len(mems) /\ Len(mems) \in Nat
      /\ \A i \in 1..Len(mems) : mems[i] \in MemoryOf
  BY ElementOfSeq
<1>2. \A i \in 1..Len(mems) : mems[i].tokens \in Seq(Nat)
  BY <1>1, PayloadAssumption DEF MemoryOf
<1>3. TokensIn(mems) = [i \in 1..Len(mems) |-> mems[i].tokens]
  BY <1>1 DEF TokensIn
<1>4. TokenCount(mems) = Len(FlattenSeq(TokensIn(mems)))
  BY DEF TokenCount, TokensIn, Concat
<1>5. QED
  BY <1>1, <1>2, <1>3, <1>4

LEMMA CountsAreNumbers ==
  ASSUME NEW mems \in Seq(MemoryOf)
  PROVE  TokenCount(mems) \in Nat
<1>1. TokensIn(mems) \in Seq(Seq(Nat)) /\ TokenCount(mems) = Len(FlattenSeq(TokensIn(mems)))
  BY TokensInShape
<1> DEFINE s == TokensIn(mems)
<1> HIDE DEF s
<1>2. s \in Seq(Seq(Nat)) /\ TokenCount(mems) = Len(FlattenSeq(s))
  BY <1>1 DEF s
<1>3. PICK F : Flattens(F, s, Nat) /\ FlattenSeq(s) = F[Len(s)]
  BY <1>2, FlattenHasSteps
<1>4. F[Len(s)] \in Seq(Nat)
  <2>1. F \in [0..Len(s) -> Seq(Nat)]
    BY <1>3 DEF Flattens
  <2>2. Len(s) \in 0..Len(s)
    BY <1>2
  <2>3. QED
    BY <2>1, <2>2
<1>5. QED
  BY <1>2, <1>3, <1>4

LEMMA CountOfAppend ==
  ASSUME NEW mems \in Seq(MemoryOf), NEW e \in MemoryOf
  PROVE  TokenCount(Append(mems, e)) = TokenCount(mems) + Len(e.tokens)
<1> DEFINE m == Append(mems, e)
           a == TokensIn(m)
           s == TokensIn(mems)
           b == Append(s, e.tokens)
<1>1. m \in Seq(MemoryOf) /\ Len(m) = Len(mems) + 1 /\ m[Len(mems) + 1] = e
      /\ \A i \in 1..Len(mems) : m[i] = mems[i]
  BY AppendProperties
<1> HIDE DEF m
<1>2. /\ a \in Seq(Seq(Nat)) /\ Len(a) = Len(m) /\ \A i \in 1..Len(m) : a[i] = m[i].tokens
      /\ TokenCount(m) = Len(FlattenSeq(a))
  BY <1>1, TokensInShape
<1>3. /\ s \in Seq(Seq(Nat)) /\ Len(s) = Len(mems)
      /\ \A i \in 1..Len(mems) : s[i] = mems[i].tokens
      /\ TokenCount(mems) = Len(FlattenSeq(s))
  BY TokensInShape
<1> HIDE DEF a, s
<1>4. e.tokens \in Seq(Nat)
  BY PayloadAssumption DEF MemoryOf
<1>5. b \in Seq(Seq(Nat)) /\ Len(b) = Len(s) + 1 /\ b[Len(s) + 1] = e.tokens
      /\ \A i \in 1..Len(s) : b[i] = s[i]
  BY <1>3, <1>4, AppendProperties
<1>6. a = b
  <2> HIDE DEF b
  <2>1. Len(a) = Len(b) /\ Len(a) = Len(mems) + 1 /\ Len(mems) \in Nat
    BY <1>1, <1>2, <1>3, <1>5
  <2>2. ASSUME NEW i \in 1..Len(mems) + 1 PROVE a[i] = b[i]
    <3>1. CASE i = Len(mems) + 1
      BY <1>1, <1>2, <1>3, <1>5, <2>1, <3>1
    <3>2. CASE i # Len(mems) + 1
      <4>1. i \in 1..Len(mems) /\ i \in 1..Len(m) /\ i \in 1..Len(s)
        BY <1>1, <1>3, <2>1, <3>2
      <4>2. QED
        BY <1>1, <1>2, <1>3, <1>5, <4>1
    <3>3. QED
      BY <3>1, <3>2
  <2>3. QED
    BY <1>2, <1>5, <2>1, <2>2, SeqEqual
<1>7. Len(FlattenSeq(b)) = Len(FlattenSeq(s)) + Len(e.tokens)
  BY <1>3, <1>4, FlattenAppend
<1>8. QED
  BY <1>2, <1>3, <1>6, <1>7 DEF m

LEMMA CountOfRemoval ==
  ASSUME NEW mems \in Seq(MemoryOf), NEW i \in DOMAIN mems
  PROVE  TokenCount(RemoveAt(mems, i)) = TokenCount(mems) - Len(mems[i].tokens)
<1> DEFINE m == RemoveAt(mems, i)
           n == Len(mems)
           a == TokensIn(m)
           s == TokensIn(mems)
           b == RemoveAt(s, i)
<1>0. i \in 1..n /\ n \in Nat
  OBVIOUS
<1>1. /\ m \in Seq(MemoryOf) /\ Len(m) = n - 1
      /\ \A j \in 1..n - 1 : m[j] = IF j < i THEN mems[j] ELSE mems[j + 1]
  BY <1>0, RemoveAtEntries
<1> HIDE DEF m
<1>2. /\ a \in Seq(Seq(Nat)) /\ Len(a) = Len(m) /\ \A j \in 1..Len(m) : a[j] = m[j].tokens
      /\ TokenCount(m) = Len(FlattenSeq(a))
  BY <1>1, TokensInShape
<1>3. /\ s \in Seq(Seq(Nat)) /\ Len(s) = n
      /\ \A j \in 1..n : s[j] = mems[j].tokens
      /\ TokenCount(mems) = Len(FlattenSeq(s))
  BY TokensInShape
<1> HIDE DEF a, s, n
<1>4. i \in 1..Len(s)
  BY <1>0, <1>3
<1>5. /\ b \in Seq(Seq(Nat)) /\ Len(b) = Len(s) - 1
      /\ \A j \in 1..Len(s) - 1 : b[j] = IF j < i THEN s[j] ELSE s[j + 1]
  BY <1>3, <1>4, RemoveAtEntries
<1>6. a = b
  <2> HIDE DEF b
  <2>1. Len(a) = Len(b) /\ Len(a) = n - 1
    BY <1>1, <1>2, <1>3, <1>5
  <2>2. ASSUME NEW j \in 1..n - 1 PROVE a[j] = b[j]
    <3>1. j \in 1..n /\ j + 1 \in 1..n
      BY <1>0
    <3>2. a[j] = m[j].tokens /\ m[j] = IF j < i THEN mems[j] ELSE mems[j + 1]
      BY <1>1, <1>2
    <3>3. b[j] = IF j < i THEN s[j] ELSE s[j + 1]
      BY <1>3, <1>5
    <3>4. s[j] = mems[j].tokens /\ s[j + 1] = mems[j + 1].tokens
      BY <1>3, <3>1
    <3>5. QED
      BY <3>2, <3>3, <3>4
  <2>3. QED
    BY <1>2, <1>5, <2>1, <2>2, SeqEqual
<1>7. Len(FlattenSeq(b)) = Len(FlattenSeq(s)) - Len(s[i])
  BY <1>3, <1>4, FlattenWithout
<1>8. s[i] = mems[i].tokens
  BY <1>0, <1>3
<1>9. QED
  BY <1>2, <1>3, <1>6, <1>7, <1>8 DEF m
(* Where an id is, and what the store is without it.                       *)
LEMMA PositionOfLive ==
  ASSUME NEW id \in Live
  PROVE  PositionOf(id) \in DOMAIN memories /\ memories[PositionOf(id)].id = id
<1>1. \E i \in DOMAIN memories : memories[i].id = id
  BY DEF Live, ToSet, Ids
<1>2. QED
  BY <1>1 DEF PositionOf

LEMMA WithoutIsTyped ==
  ASSUME PayloadInv, NEW id
  PROVE  /\ Without(id) \in Seq(MemoryOf)
         /\ \A i \in DOMAIN Without(id) : \E j \in DOMAIN memories : Without(id)[i] = memories[j]
         /\ TokenCount(Without(id)) = TokenCount(memories) - ReplacedTokens(id)
         /\ ReplacedTokens(id) \in Nat
<1>1. memories \in Seq(MemoryOf) /\ TokenCount(memories) \in Nat
  BY CountsAreNumbers DEF PayloadInv
<1>2. CASE id \notin Live
  BY <1>1, <1>2 DEF Without, ReplacedTokens
<1>3. CASE id \in Live
  <2> DEFINE i == PositionOf(id)
             m == RemoveAt(memories, i)
             n == Len(memories)
  <2>1. i \in DOMAIN memories /\ i \in 1..n /\ n \in Nat /\ DOMAIN memories = 1..n
    BY <1>1, <1>3, PositionOfLive
  <2>2. Without(id) = m /\ ReplacedTokens(id) = Len(memories[i].tokens)
    BY <1>3 DEF Without, ReplacedTokens, TokensOf
  <2> HIDE DEF i, n
  <2>3. /\ m \in Seq(MemoryOf) /\ Len(m) = n - 1
        /\ \A j \in 1..n - 1 : m[j] = IF j < i THEN memories[j] ELSE memories[j + 1]
    BY <1>1, <2>1, RemoveAtEntries DEF n
  <2>4. TokenCount(m) = TokenCount(memories) - Len(memories[i].tokens)
    BY <1>1, <2>1, CountOfRemoval
  <2> HIDE DEF m
  <2>5. ASSUME NEW j \in DOMAIN m PROVE \E k \in DOMAIN memories : m[j] = memories[k]
    <3>1. j \in 1..n - 1
      BY <2>3
    <3>2. j \in 1..n /\ j + 1 \in 1..n
      BY <2>1, <3>1
    <3>3. QED
      BY <2>1, <2>3, <3>1, <3>2
  <2>6. Len(memories[i].tokens) \in Nat
    <3>1. memories[i] \in MemoryOf
      BY <1>1, <2>1
    <3>2. memories[i].tokens \in Seq(Nat)
      BY <3>1, PayloadAssumption DEF MemoryOf
    <3>3. QED
      BY <3>2
  <2>7. QED
    BY <2>2, <2>3, <2>4, <2>5, <2>6
<1>4. QED
  BY <1>2, <1>3

-----------------------------------------------------------------------------
(* Where a chunk is in what is concatenated from all chunks.               *)
LEMMA OffsetsFindChunks ==
  ASSUME PayloadInv, NEW S, NEW s \in Seq(Seq(S)), Len(s) = Len(memories),
         \A j \in 1..Len(s) : Len(s[j]) = Len(memories[j].tokens),
         NEW i \in DOMAIN memories
  PROVE  LET at == PrefixOffsets(Lengths)[i]
         IN  /\ at \in Nat /\ Lengths[i] = Len(s[i])
             /\ \A k \in 1..Len(s[i]) : /\ at + k \in 1..Len(Concat(s))
                                        /\ Concat(s)[at + k] = s[i][k]
             /\ SubSeq(Concat(s), at + 1, at + Lengths[i]) = s[i]
<1> DEFINE t == [j \in 1..(i - 1) |-> [k \in 1..Lengths[j] |-> j]]
           n == Len(s)
<1>1. /\ n \in Nat /\ i \in 1..n /\ DOMAIN memories = 1..n
      /\ \A j \in 1..n : Lengths[j] = Len(s[j]) /\ Len(s[j]) \in Nat
  <2>1. memories \in Seq(MemoryOf)
    BY DEF PayloadInv
  <2>2. n \in Nat /\ DOMAIN memories = 1..n
    BY <2>1
  <2>3. \A j \in 1..n : s[j] \in Seq(S)
    BY ElementOfSeq
  <2>4. \A j \in 1..n : Len(s[j]) \in Nat
    BY <2>3, LenProperties
  <2>5. \A j \in 1..n : Lengths[j] = Len(s[j])
    BY <2>2 DEF Lengths
  <2>6. QED
    BY <2>2, <2>4, <2>5
<1>2. PrefixOffsets(Lengths)[i] = Len(FlattenSeq(t))
  <2>1. i \in DOMAIN Lengths
    BY DEF Lengths
  <2>2. QED
    BY <2>1 DEF PrefixOffsets, Concat
<1> HIDE DEF n
<1>3. t \in Seq(Seq(Nat)) /\ Len(t) = i - 1 /\ \A j \in 1..i - 1 : Len(t[j]) = Lengths[j]
  <2>1. i - 1 \in Nat /\ \A j \in 1..i - 1 : j \in 1..n /\ j \in Nat
    BY <1>1
  <2>2. ASSUME NEW j \in 1..i - 1
        PROVE  /\ [k \in 1..Lengths[j] |-> j] \in Seq(Nat)
               /\ Len([k \in 1..Lengths[j] |-> j]) = Lengths[j]
    <3>1. Lengths[j] \in Nat /\ j \in Nat
      BY <1>1, <2>1
    <3>2. QED
      BY <3>1
  <2>3. t \in [1..i - 1 -> Seq(Nat)]
    BY <2>2
  <2>4. \A j \in 1..i - 1 : t[j] = [k \in 1..Lengths[j] |-> j]
    OBVIOUS
  <2>5. \A j \in 1..i - 1 : Len(t[j]) = Lengths[j]
    BY <2>2, <2>4
  <2> HIDE DEF t
  <2>6. t \in Seq(Seq(Nat)) /\ Len(t) = i - 1
    <3> DEFINE T == Seq(Nat)
               m == i - 1
    <3>1. m \in Nat /\ t \in [1..m -> T]
      BY <2>1, <2>3
    <3> HIDE DEF T, m
    <3>2. t \in Seq(T) /\ Len(t) = m
      BY <3>1
    <3>3. QED
      BY <3>2 DEF T, m
  <2>7. QED
    BY <2>5, <2>6
<1> HIDE DEF t
<1>4. MeasuresBeginning(t, s)
  <2>1. i - 1 <= Len(s) /\ \A j \in 1..i - 1 : j \in 1..n
    BY <1>1 DEF n
  <2>2. QED
    BY <1>1, <1>3, <2>1 DEF MeasuresBeginning
<1>5. i \in 1..Len(s)
  BY <1>1 DEF n
<1> DEFINE at == Len(FlattenSeq(t))
<1>6. /\ at \in Nat
      /\ \A k \in 1..Len(s[i]) : /\ at + k \in 1..Len(FlattenSeq(s))
                                 /\ FlattenSeq(s)[at + k] = s[i][k]
      /\ SubSeq(FlattenSeq(s), at + 1, at + Len(s[i])) = s[i]
  BY <1>3, <1>4, <1>5, SliceOfFlattening
<1>7. Lengths[i] = Len(s[i])
  BY <1>1
<1> HIDE DEF at
<1>8. PrefixOffsets(Lengths)[i] = at
  BY <1>2 DEF at
<1>9. QED
  BY <1>6, <1>7, <1>8 DEF Concat

(* The KV of the memories in one layer.                                    *)
KvIn(l) == [i \in DOMAIN memories |-> memories[i].kv[l]]

LEMMA KvInShape ==
  ASSUME PayloadInv, NEW l \in Layers
  PROVE  /\ KvIn(l) \in Seq(Seq(Layers \X Nat)) /\ Len(KvIn(l)) = Len(memories)
         /\ \A i \in 1..Len(memories) :
              /\ KvIn(l)[i] = memories[i].kv[l]
              /\ Len(KvIn(l)[i]) = Len(memories[i].tokens)
         /\ \A j \in 1..Len(KvIn(l)) : Len(KvIn(l)[j]) = Len(memories[j].tokens)
<1>1. /\ DOMAIN memories = 1..Len(memories) /\ Len(memories) \in Nat
      /\ \A i \in 1..Len(memories) : memories[i] \in MemoryOf
  BY ElementOfSeq DEF PayloadInv
<1>2. ASSUME NEW i \in 1..Len(memories)
      PROVE  /\ memories[i].kv[l] \in Seq(Layers \X Nat)
             /\ Len(memories[i].kv[l]) = Len(memories[i].tokens)
  <2>1. memories[i].tokens \in Payloads
    BY <1>1 DEF MemoryOf
  <2>2. memories[i].kv[l] = KvOf(memories[i].tokens, l)
    BY <1>1 DEF PayloadInv, PayloadsSurvivePacking
  <2>3. QED
    BY <2>1, <2>2, KvOfPayload
<1>3. KvIn(l) = [i \in 1..Len(memories) |-> memories[i].kv[l]]
  BY <1>1 DEF KvIn
<1>4. KvIn(l) \in Seq(Seq(Layers \X Nat)) /\ Len(KvIn(l)) = Len(memories)
  BY <1>1, <1>2, <1>3
<1>5. QED
  BY <1>2, <1>3, <1>4

(* The slab views give every chunk its payload back.                       *)
LEMMA PackingKeepsMemories ==
  ASSUME PayloadInv, NEW n \in 0..Len(LayerOrder)
  PROVE  RestoreViews(PackLayers(n)) = memories
<1> DEFINE new == PackLayers(n)
           r == RestoreViews(new)
<1>1. /\ DOMAIN memories = 1..Len(memories) /\ Len(memories) \in Nat
      /\ \A i \in 1..Len(memories) : memories[i] \in MemoryOf
      /\ memories = [i \in DOMAIN memories |-> memories[i]]
  BY ElementOfSeq DEF PayloadInv
<1>2. \A l \in DOMAIN new : l \in Layers /\ new[l] = Concat(KvIn(l))
  <2>1. DOMAIN new = {LayerOrder[j] : j \in 1..n}
    BY DEF PackLayers
  <2>2. DOMAIN LayerOrder = 1..Len(LayerOrder)
    BY PackedStoreAssumption
  <2>3. DOMAIN new \subseteq Layers
    BY <2>1, <2>2 DEF Layers
  <2>4. \A l \in DOMAIN new : new[l] = Concat(KvIn(l))
    BY DEF PackLayers, KvIn
  <2>5. QED
    BY <2>3, <2>4
<1> HIDE DEF new
<1>3. ASSUME NEW i \in DOMAIN memories, NEW l \in Layers
      PROVE  memories[i].kv[l]
               = IF l \in DOMAIN new
                 THEN SubSeq(new[l], PrefixOffsets(Lengths)[i] + 1,
                             PrefixOffsets(Lengths)[i] + Lengths[i])
                 ELSE memories[i].kv[l]
  <2>1. CASE l \notin DOMAIN new
    BY <2>1
  <2>2. CASE l \in DOMAIN new
    <3> DEFINE s == KvIn(l)
    <3>1. /\ s \in Seq(Seq(Layers \X Nat)) /\ Len(s) = Len(memories)
          /\ s[i] = memories[i].kv[l]
          /\ \A j \in 1..Len(s) : Len(s[j]) = Len(memories[j].tokens)
      BY <1>1, KvInShape
    <3> HIDE DEF s
    <3>2. SubSeq(Concat(s), PrefixOffsets(Lengths)[i] + 1,
                 PrefixOffsets(Lengths)[i] + Lengths[i]) = s[i]
      BY <3>1, OffsetsFindChunks
    <3>3. new[l] = Concat(s)
      BY <1>2, <2>2 DEF s
    <3>4. QED
      BY <2>2, <3>1, <3>2, <3>3
  <2>3. QED
    BY <2>1, <2>2
<1>4. ASSUME NEW i \in DOMAIN memories PROVE r[i] = memories[i]
  <2> DEFINE kv == [l \in Layers |->
                      IF l \in DOMAIN new
                      THEN SubSeq(new[l], PrefixOffsets(Lengths)[i] + 1,
                                  PrefixOffsets(Lengths)[i] + Lengths[i])
                      ELSE memories[i].kv[l]]
  <2>1. r[i] = [id |-> memories[i].id, tokens |-> memories[i].tokens, kv |-> kv]
    BY DEF RestoreViews
  <2>2. /\ memories[i] = [id |-> memories[i].id, tokens |-> memories[i].tokens,
                          kv |-> memories[i].kv]
        /\ memories[i].kv = [l \in Layers |-> memories[i].kv[l]]
    BY <1>1 DEF MemoryOf
  <2>3. kv = [l \in Layers |-> memories[i].kv[l]]
    BY <1>3
  <2> HIDE DEF kv, r
  <2>4. QED
    BY <2>1, <2>2, <2>3
<1>5. r = [i \in DOMAIN memories |-> r[i]]
  BY DEF RestoreViews
<1> HIDE DEF r
<1>6. r = [i \in DOMAIN memories |-> memories[i]]
  BY <1>4, <1>5
<1>7. QED
  BY <1>1, <1>6 DEF r, new
-----------------------------------------------------------------------------
LEMMA PayloadInit == Init => PayloadInv
<1> SUFFICES ASSUME Init PROVE PayloadInv
  OBVIOUS
<1>1. memories = <<>> /\ totalTokens = 0 /\ thread = [t \in Threads |-> Idle]
  BY DEF Init
<1>2. TokenCount(<<>>) = 0
  <2>1. [i \in DOMAIN <<>> |-> <<>>[i].tokens] = <<>>
    OBVIOUS
  <2>2. FlattenSeq(<<>>) = <<>> /\ Len(<<>>) = 0
    BY DEF FlattenSeq
  <2>3. QED
    BY <2>1, <2>2 DEF TokenCount, Concat
<1>3. memories \in Seq(MemoryOf) /\ PayloadsSurvivePacking
  BY <1>1 DEF PayloadsSurvivePacking
<1>4. AddersCarryPayloads
  BY <1>1 DEF AddersCarryPayloads, Idle
<1>5. QED
  BY <1>1, <1>2, <1>3, <1>4 DEF PayloadInv

(* A step after which no thread is in an add that was not in it before.    *)
LEMMA PayloadsKept ==
  ASSUME PayloadInv, UNCHANGED <<memories, totalTokens>>,
         \/ UNCHANGED thread
         \/ \E t \in Threads : thread' = [thread EXCEPT ![t] = Idle]
         \/ \E t \in Threads : thread' = [thread EXCEPT ![t] = [op |-> "removed"]]
  PROVE  PayloadInv'
<1>1. DOMAIN thread' = Threads /\ AddersCarryPayloads'
  BY DEF PayloadInv, AddersCarryPayloads, Idle
<1>2. TokenCount(memories)' = TokenCount(memories)
  BY DEF TokenCount
<1>3. QED
  BY <1>1, <1>2 DEF PayloadInv, PayloadsSurvivePacking

LEMMA AddingKeepsPayloads ==
  ASSUME PayloadInv, NEW t \in Threads, AddUserMemory(t)
  PROVE  PayloadInv'
<1> DEFINE id == thread[t].id
           p == thread[t].tokens
           w == Without(id)
           e == Memory(id, p)
<1>1. id \in ChunkIds /\ p \in Payloads
  BY DEF AddUserMemory, PayloadInv, AddersCarryPayloads
<1>2. /\ memories' = Append(w, e)
      /\ totalTokens' = totalTokens - ReplacedTokens(id) + Len(p)
      /\ thread' = [thread EXCEPT ![t] = Idle]
  BY DEF AddUserMemory
<1> HIDE DEF id, p
<1>3. /\ w \in Seq(MemoryOf) /\ ReplacedTokens(id) \in Nat
      /\ \A i \in DOMAIN w : \E j \in DOMAIN memories : w[i] = memories[j]
      /\ TokenCount(w) = TokenCount(memories) - ReplacedTokens(id)
  BY WithoutIsTyped
<1>4. e \in MemoryOf /\ e.tokens = p /\ \A l \in Layers : e.kv[l] = KvOf(p, l)
  BY <1>1, MemoryIsTyped
<1> HIDE DEF w, e
<1>5. /\ Append(w, e) \in Seq(MemoryOf) /\ DOMAIN Append(w, e) = 1..Len(w) + 1
      /\ DOMAIN w = 1..Len(w) /\ Len(w) \in Nat /\ Append(w, e)[Len(w) + 1] = e
      /\ \A i \in 1..Len(w) : Append(w, e)[i] = w[i]
  BY <1>3, <1>4, AppendProperties
<1>6. totalTokens' = TokenCount(memories')
  <2>1. TokenCount(Append(w, e)) = TokenCount(w) + Len(p)
    BY <1>3, <1>4, CountOfAppend
  <2>2. TokenCount(w) \in Nat /\ TokenCount(memories) \in Nat /\ Len(p) \in Nat
    BY <1>1, <1>3, CountsAreNumbers, KvOfPayload, PayloadAssumption DEF PayloadInv
  <2>3. totalTokens = TokenCount(memories)
    BY DEF PayloadInv
  <2>4. QED
    BY <1>2, <1>3, <2>1, <2>2, <2>3
<1>7. PayloadsSurvivePacking'
  <2> SUFFICES ASSUME NEW i \in DOMAIN memories', NEW l \in Layers
               PROVE  memories'[i].kv[l] = KvOf(memories'[i].tokens, l)
    BY DEF PayloadsSurvivePacking
  <2>1. CASE i = Len(w) + 1
    <3>1. memories'[i] = e
      BY <1>2, <1>5, <2>1
    <3>2. QED
      BY <1>4, <3>1
  <2>2. CASE i # Len(w) + 1
    <3>1. i \in 1..Len(w)
      BY <1>2, <1>5, <2>2
    <3>2. PICK j \in DOMAIN memories : w[i] = memories[j]
      BY <1>3, <1>5, <3>1
    <3>3. memories'[i] = memories[j]
      BY <1>2, <1>5, <3>1, <3>2
    <3>4. QED
      BY <3>3 DEF PayloadInv, PayloadsSurvivePacking
  <2>3. QED
    BY <2>1, <2>2
<1>8. DOMAIN thread' = Threads /\ AddersCarryPayloads'
  BY <1>2 DEF PayloadInv, AddersCarryPayloads, Idle
<1>9. TokenCount(memories') = TokenCount(memories)'
  BY DEF TokenCount
<1>10. QED
  BY <1>2, <1>5, <1>6, <1>7, <1>8, <1>9 DEF PayloadInv

LEMMA RemovingKeepsPayloads ==
  ASSUME PayloadInv, NEW t \in Threads, NEW id \in ChunkIds, RemoveUserMemory(t, id)
  PROVE  PayloadInv'
<1> DEFINE w == Without(id)
<1>1. /\ memories' = w /\ id \in Live
      /\ totalTokens' = totalTokens - Len(TokensOf(id))
      /\ \/ UNCHANGED thread
         \/ thread' = [thread EXCEPT ![t] = [op |-> "removed"]]
  BY DEF RemoveUserMemory
<1>2. ReplacedTokens(id) = Len(TokensOf(id))
  BY <1>1 DEF ReplacedTokens
<1>3. /\ w \in Seq(MemoryOf)
      /\ \A i \in DOMAIN w : \E j \in DOMAIN memories : w[i] = memories[j]
      /\ TokenCount(w) = TokenCount(memories) - ReplacedTokens(id)
  BY WithoutIsTyped
<1> HIDE DEF w
<1>4. totalTokens' = TokenCount(memories)'
  BY <1>1, <1>2, <1>3 DEF PayloadInv, TokenCount
<1>5. PayloadsSurvivePacking'
  BY <1>1, <1>3 DEF PayloadInv, PayloadsSurvivePacking
<1>6. DOMAIN thread' = Threads /\ AddersCarryPayloads'
  BY <1>1 DEF PayloadInv, AddersCarryPayloads
<1>7. QED
  BY <1>1, <1>3, <1>4, <1>5, <1>6 DEF PayloadInv

(* Packing, failed or not, leaves the memories as they were.               *)
LEMMA PackingChangesNothing ==
  ASSUME PayloadInv, NEW t \in Threads, FinalizePacked(t)
  PROVE  UNCHANGED <<memories, totalTokens, thread>>
<1>1. memories' = memories \/ \E n \in 0..Len(LayerOrder) : memories' = RestoreViews(PackLayers(n))
  BY DEF FinalizePacked
<1>2. memories' = memories
  BY <1>1, PackingKeepsMemories
<1>3. QED
  BY <1>2 DEF FinalizePacked

LEMMA PayloadNext == PayloadInv /\ [Next]_vars => PayloadInv'
<1> SUFFICES ASSUME PayloadInv, [Next]_vars PROVE PayloadInv'
  OBVIOUS
<1>1. ASSUME NEW t \in Threads, NEW id \in ChunkIds, NEW p \in Payloads, BeginAdd(t, id, p)
      PROVE  PayloadInv'
  <2>1. UNCHANGED <<memories, totalTokens>>
        /\ thread' = [thread EXCEPT ![t] = [op |-> "add", id |-> id, tokens |-> p]]
    BY <1>1 DEF BeginAdd
  <2>2. DOMAIN thread' = Threads /\ AddersCarryPayloads'
    BY <2>1 DEF PayloadInv, AddersCarryPayloads
  <2>3. TokenCount(memories)' = TokenCount(memories)
    BY <2>1 DEF TokenCount
  <2>4. QED
    BY <2>1, <2>2, <2>3 DEF PayloadInv, PayloadsSurvivePacking
<1>2. ASSUME NEW t \in Threads, AddUserMemory(t) PROVE PayloadInv'
  BY <1>2, AddingKeepsPayloads
<1>3. ASSUME NEW t \in Threads, NEW id \in ChunkIds, RemoveUserMemory(t, id)
      PROVE  PayloadInv'
  BY <1>3, RemovingKeepsPayloads
<1>4. ASSUME NEW t \in Threads, FinalizePacked(t) PROVE PayloadInv'
  BY <1>4, PackingChangesNothing, PayloadsKept
<1>5. ASSUME NEW t \in Threads,
             \/ InvalidatePacked(t) \/ FinalizeChunkLookup(t) \/ CloseChunkLookup(t)
             \/ \E items \in Orderings(ChunkIds, Cardinality(ChunkIds)) :
                  BuildDeviceRowMap(t, items)
             \/ \E n \in DOMAIN maps :
                  \E stable \in Orderings(DOMAIN maps[n].items, MaxSelect) :
                    GetDeviceChunkMemories(t, n, stable) \/ SelectDeviceIds(t, n, stable)
      PROVE  PayloadInv'
  <2>1. UNCHANGED <<memories, totalTokens>>
        /\ (UNCHANGED thread \/ thread' = [thread EXCEPT ![t] = Idle])
    BY <1>5 DEF InvalidatePacked, FinalizeChunkLookup, CloseChunkLookup,
                BuildDeviceRowMap, GetDeviceChunkMemories, SelectDeviceIds
  <2>2. QED
    BY <2>1, PayloadsKept
<1>6. ASSUME NEW l \in Layers, GatherPackedLayer(l) PROVE PayloadInv'
  BY <1>6, PayloadsKept DEF GatherPackedLayer
<1>7. CASE UNCHANGED vars
  BY <1>7, PayloadsKept DEF vars
<1>8. QED
  BY <1>1, <1>2, <1>3, <1>4, <1>5, <1>6, <1>7 DEF Next

(* However threads interleave and whichever allocation of a packing fails, *)
(* every chunk keeps, in every layer, the KV it was added with.            *)
THEOREM PayloadsSurvive == Spec => []PayloadsSurvivePacking
<1>1. PayloadInv => PayloadsSurvivePacking
  BY DEF PayloadInv
<1>2. QED
  BY <1>1, PayloadInit, PayloadNext, PTL DEF Spec
-----------------------------------------------------------------------------
(* Types.  Lookups and row maps are about chunk ids and rows because the   *)
(* lookup they are built from is current.                                  *)
TypeInv == StoreInv /\ PayloadInv /\ TypeOK

LEMMA IdsAreChunkIds ==
  ASSUME PayloadInv
  PROVE  Ids(memories) \in Seq(ChunkIds)
<1>1. /\ DOMAIN memories = 1..Len(memories) /\ Len(memories) \in Nat
      /\ \A i \in 1..Len(memories) : memories[i] \in MemoryOf
  BY ElementOfSeq DEF PayloadInv
<1>2. Ids(memories) = [i \in 1..Len(memories) |-> memories[i].id]
  BY <1>1 DEF Ids
<1>3. \A i \in 1..Len(memories) : memories[i].id \in ChunkIds
  BY <1>1 DEF MemoryOf
<1>4. QED
  BY <1>1, <1>2, <1>3

LookupOf == [rows : Seq(ChunkIds), bound : SUBSET (1..MaxMaps)]

LEMMA BuiltLookupIsTyped ==
  ASSUME TypeInv
  PROVE  BuiltLookup \in LookupOf
<1>1. CASE lookup = NoLookup
  <2>1. BuiltLookup = [rows |-> Ids(memories), bound |-> {}]
    BY <1>1 DEF BuiltLookup
  <2>2. Ids(memories) \in Seq(ChunkIds)
    BY IdsAreChunkIds DEF TypeInv
  <2>3. QED
    BY <2>1, <2>2 DEF LookupOf
<1>2. CASE lookup # NoLookup
  BY <1>2 DEF BuiltLookup, TypeInv, TypeOK, LookupOf
<1>3. QED
  BY <1>1, <1>2

(* What a step that leaves the maps alone has to keep.                     *)
RestIsTyped ==
  /\ lookup' = NoLookup \/ lookup' = lookup \/ lookup' = BuiltLookup
  /\ maps' = maps
  /\ packed' \in BOOLEAN /\ rowsValid' \in BOOLEAN
  /\ DOMAIN slabs' \in {{}, Layers}
  /\ DOMAIN index' = {"tokens", "offsets", "lengths", "maxTokens"}
  /\ view' = NoView \/ DOMAIN view' = {"asked", "indices", "tokens", "kv"}
  /\ \A t \in Threads : thread'[t].op \in {"idle", "add", "removed"}

LEMMA KeepingTypes ==
  ASSUME TypeInv, PayloadInv', RestIsTyped
  PROVE  TypeOK'
<1>1. lookup' = NoLookup \/ lookup' \in LookupOf
  <2>1. lookup = NoLookup \/ lookup \in LookupOf
    BY DEF TypeInv, TypeOK, LookupOf
  <2>2. BuiltLookup \in LookupOf
    BY BuiltLookupIsTyped
  <2>3. QED
    BY <2>1, <2>2 DEF RestIsTyped
<1>2. maps' \in Seq(MapOf) /\ Len(maps') <= MaxMaps
  BY DEF TypeInv, TypeOK, RestIsTyped
<1>3. /\ memories' \in Seq([id : ChunkIds, tokens : Payloads, kv : [Layers -> Seq(Layers \X Nat)]])
      /\ totalTokens' = TokenCount(memories)'
  BY DEF PayloadInv, MemoryOf
<1>4. QED
  BY <1>1, <1>2, <1>3 DEF TypeOK, RestIsTyped, LookupOf

LEMMA BindingKeepsTypes ==
  ASSUME TypeInv, PayloadInv', NEW t \in Threads,
         NEW items \in Orderings(ChunkIds, Cardinality(ChunkIds)), BuildDeviceRowMap(t, items)
  PROVE  TypeOK'
<1> DEFINE b == BuiltLookup.bound
           m == [items |-> items,
                 rows  |-> [i \in DOMAIN items |-> RowOf(BuiltLookup, items[i])]]
<1>1. /\ maps' = Append(maps, m) /\ Len(maps) < MaxMaps
      /\ lookup' = [rows |-> BuiltLookup.rows, bound |-> b \cup {Len(maps) + 1}]
      /\ ToSet(items) \subseteq ToSet(BuiltLookup.rows)
      /\ UNCHANGED <<memories, totalTokens, packed, rowsValid, slabs, index, view, thread>>
  BY DEF BuildDeviceRowMap
<1>2. BuiltLookup = [rows |-> Ids(memories), bound |-> b]
  BY BuiltLookupIsCurrent DEF TypeInv
<1>3. BuiltLookup \in LookupOf
  BY BuiltLookupIsTyped
<1>4. b \subseteq 1..MaxMaps /\ BuiltLookup.rows \in Seq(ChunkIds)
  BY <1>3 DEF LookupOf
<1>5. maps \in Seq(MapOf) /\ Len(maps) \in Nat /\ MaxMaps \in Nat
  BY PackedStoreAssumption, LenProperties DEF TypeInv, TypeOK
<1>6. items \in Seq(ChunkIds)
  BY SeqOfIsSeq DEF Orderings
<1>7. m.rows \in Seq(Nat \ {0})
  <2>1. DOMAIN items = 1..Len(items) /\ Len(items) \in Nat
    BY <1>6
  <2>2. memories \in Seq(MemoryOf) /\ DOMAIN memories = 1..Len(memories) /\ Len(memories) \in Nat
    BY LenProperties DEF TypeInv, PayloadInv
  <2>3. ASSUME NEW i \in DOMAIN items PROVE RowOf(BuiltLookup, items[i]) \in Nat \ {0}
    <3>1. items[i] \in ToSet(Ids(memories))
      BY <1>1, <1>2 DEF ToSet
    <3> HIDE DEF b
    <3>2. RowOf(BuiltLookup, items[i]) \in DOMAIN memories
      BY <1>2, <3>1, RowOfIsRow
    <3>3. QED
      BY <2>2, <3>2
  <2>4. m.rows = [i \in 1..Len(items) |-> RowOf(BuiltLookup, items[i])]
    BY <2>1
  <2>5. QED
    BY <2>1, <2>3, <2>4
<1>8. m \in MapOf
  BY <1>6, <1>7 DEF MapOf
<1> HIDE DEF m, b
<1>9. maps' \in Seq(MapOf) /\ Len(maps') <= MaxMaps
  BY <1>1, <1>5, <1>8
<1>10. lookup' \in LookupOf
  <2>1. Len(maps) + 1 \in 1..MaxMaps
    BY <1>1, <1>5
  <2>2. b \cup {Len(maps) + 1} \in SUBSET (1..MaxMaps)
    BY <1>4, <2>1
  <2>3. QED
    BY <1>1, <1>4, <2>2 DEF LookupOf
<1>11. /\ memories' \in Seq([id : ChunkIds, tokens : Payloads, kv : [Layers -> Seq(Layers \X Nat)]])
       /\ totalTokens' = TokenCount(memories)'
  BY DEF PayloadInv, MemoryOf
<1>12. QED
  BY <1>1, <1>9, <1>10, <1>11 DEF TypeOK, TypeInv, LookupOf

(* The slabs of all the layers.                                            *)
LEMMA PackingAllLayers == DOMAIN PackLayers(Len(LayerOrder)) = Layers
<1>1. DOMAIN LayerOrder = 1..Len(LayerOrder)
  BY PackedStoreAssumption
<1>2. QED
  BY <1>1 DEF PackLayers, Layers

LEMMA TypesNext ==
  ASSUME TypeInv, PayloadInv', [Next]_vars
  PROVE  TypeOK'
<1> USE DEF RestIsTyped
<1>0. /\ packed \in BOOLEAN /\ rowsValid \in BOOLEAN
      /\ DOMAIN slabs \in {{}, Layers}
      /\ DOMAIN index = {"tokens", "offsets", "lengths", "maxTokens"}
      /\ view = NoView \/ DOMAIN view = {"asked", "indices", "tokens", "kv"}
      /\ \A t \in Threads : thread[t].op \in {"idle", "add", "removed"}
      /\ DOMAIN thread = Threads
      /\ Idle.op = "idle"
  BY DEF TypeInv, TypeOK, PayloadInv, Idle
<1>1. ASSUME NEW t \in Threads, NEW id \in ChunkIds, NEW p \in Payloads, BeginAdd(t, id, p)
      PROVE  TypeOK'
  <2>1. RestIsTyped
    BY <1>0, <1>1 DEF BeginAdd
  <2>2. QED
    BY <2>1, KeepingTypes
<1>2. ASSUME NEW t \in Threads, AddUserMemory(t) PROVE TypeOK'
  <2>1. RestIsTyped
    BY <1>0, <1>2 DEF AddUserMemory
  <2>2. QED
    BY <2>1, KeepingTypes
<1>3. ASSUME NEW t \in Threads, NEW id \in ChunkIds, RemoveUserMemory(t, id)
      PROVE  TypeOK'
  <2>1. RestIsTyped
    BY <1>0, <1>3 DEF RemoveUserMemory, LookupAfterRemove
  <2>2. QED
    BY <2>1, KeepingTypes
<1>4. ASSUME NEW t \in Threads, InvalidatePacked(t) PROVE TypeOK'
  <2>1. DOMAIN NoSlabs = {} /\ DOMAIN NoIndex = {"tokens", "offsets", "lengths", "maxTokens"}
    BY DEF NoSlabs, NoIndex
  <2>2. RestIsTyped
    BY <1>0, <1>4, <2>1 DEF InvalidatePacked
  <2>3. QED
    BY <2>2, KeepingTypes
<1>5. ASSUME NEW t \in Threads, FinalizePacked(t) PROVE TypeOK'
  <2>1. DOMAIN IndexTensors = {"tokens", "offsets", "lengths", "maxTokens"}
    BY DEF IndexTensors
  <2>2. DOMAIN PackLayers(Len(LayerOrder)) = Layers
    BY PackingAllLayers
  <2>3. packed' \in BOOLEAN /\ (slabs' = slabs \/ slabs' = PackLayers(Len(LayerOrder)))
        /\ (index' = index \/ index' = IndexTensors)
    BY <1>0, <1>5 DEF FinalizePacked
  <2>4. lookup' = BuiltLookup /\ UNCHANGED <<rowsValid, maps, view, thread>>
    BY <1>5 DEF FinalizePacked
  <2>5. RestIsTyped
    BY <1>0, <2>1, <2>2, <2>3, <2>4
  <2>6. QED
    BY <2>5, KeepingTypes
<1>6. ASSUME NEW t \in Threads, FinalizeChunkLookup(t) \/ CloseChunkLookup(t) PROVE TypeOK'
  <2>1. RestIsTyped
    BY <1>0, <1>6 DEF FinalizeChunkLookup, CloseChunkLookup
  <2>2. QED
    BY <2>1, KeepingTypes
<1>7. ASSUME NEW t \in Threads, NEW items \in Orderings(ChunkIds, Cardinality(ChunkIds)),
             BuildDeviceRowMap(t, items)
      PROVE  TypeOK'
  BY <1>7, BindingKeepsTypes
<1>8. ASSUME NEW t \in Threads, NEW n \in DOMAIN maps,
             NEW stable \in Orderings(DOMAIN maps[n].items, MaxSelect),
             GetDeviceChunkMemories(t, n, stable) \/ SelectDeviceIds(t, n, stable)
      PROVE  TypeOK'
  <2>1. DOMAIN view' = {"asked", "indices", "tokens", "kv"}
    BY <1>8 DEF GetDeviceChunkMemories, SelectDeviceIds
  <2>2. /\ lookup' = BuiltLookup
        /\ UNCHANGED <<packed, rowsValid, slabs, index, maps, thread>>
    BY <1>8 DEF GetDeviceChunkMemories, SelectDeviceIds
  <2>3. RestIsTyped
    BY <1>0, <2>1, <2>2
  <2>4. QED
    BY <2>3, KeepingTypes
<1>9. ASSUME NEW l \in Layers, GatherPackedLayer(l) PROVE TypeOK'
  <2>1. view' = NoView \/ DOMAIN view' = DOMAIN view
    BY <1>9 DEF GatherPackedLayer
  <2>2. view # NoView /\ UNCHANGED <<lookup, packed, rowsValid, slabs, index, maps, thread>>
    BY <1>9 DEF GatherPackedLayer
  <2>3. RestIsTyped
    BY <1>0, <2>1, <2>2
  <2>4. QED
    BY <2>3, KeepingTypes
<1>10. CASE UNCHANGED vars
  <2>1. RestIsTyped
    BY <1>0, <1>10 DEF vars
  <2>2. QED
    BY <2>1, KeepingTypes
<1>11. QED
  BY <1>1, <1>2, <1>3, <1>4, <1>5, <1>6, <1>7, <1>8, <1>9, <1>10 DEF Next

LEMMA TypesInit == Init => TypeOK
<1> SUFFICES ASSUME Init PROVE TypeOK
  OBVIOUS
<1>1. PayloadInv
  BY PayloadInit
<1>2. /\ memories \in Seq([id : ChunkIds, tokens : Payloads, kv : [Layers -> Seq(Layers \X Nat)]])
      /\ totalTokens = TokenCount(memories)
  BY <1>1 DEF PayloadInv, MemoryOf
<1>3. maps \in Seq(MapOf) /\ Len(maps) <= MaxMaps
  BY PackedStoreAssumption DEF Init
<1>4. DOMAIN NoSlabs = {} /\ DOMAIN NoIndex = {"tokens", "offsets", "lengths", "maxTokens"}
  BY DEF NoSlabs, NoIndex
<1>5. \A t \in Threads : thread[t].op \in {"idle", "add", "removed"}
  BY DEF Init, Idle
<1>6. QED
  BY <1>2, <1>3, <1>4, <1>5 DEF Init, TypeOK

(* Every variable keeps its type, and the token count of the store is the  *)
(* number of tokens it holds, whatever replaces or removes them.           *)
THEOREM TypeCorrect == Spec => []TypeOK
<1>1. Init => TypeInv
  BY StoreInit, PayloadInit, TypesInit DEF TypeInv
<1>2. TypeInv /\ [Next]_vars => TypeInv'
  BY StoreNext, PayloadNext, TypesNext DEF TypeInv
<1>3. TypeInv => TypeOK
  BY DEF TypeInv
<1>4. QED
  BY <1>1, <1>2, <1>3, PTL DEF Spec
-----------------------------------------------------------------------------
(* Selecting.  Slab positions found through the offsets gather, chunk by   *)
(* chunk, what was concatenated.                                           *)

(* Among finitely many numbers there is a largest.                         *)
LEMMA LargestIsLargest ==
  ASSUME NEW s \in Seq(Nat), s # <<>>
  PROVE  Largest(s) \in Nat /\ \A i \in 1..Len(s) : s[i] <= Largest(s)
<1> DEFINE n == Len(s)
           A == {m \in 0..n : m # 0 => \E i \in 1..m : \A j \in 1..m : s[j] <= s[i]}
<1>1. n \in Nat \ {0} /\ DOMAIN s = 1..n /\ \A i \in 1..n : s[i] \in Nat
  BY EmptySeq
<1> HIDE DEF n
<1>2. 0 \in A
  BY <1>1
<1>3. ASSUME NEW m \in 0..n - 1, m \in A PROVE m + 1 \in A
  <2>1. m + 1 \in 0..n /\ m + 1 \in 1..n /\ s[m + 1] \in Nat /\ \A i \in 1..m : s[i] \in Nat
    BY <1>1
  <2>2. \E i \in 1..m + 1 : \A j \in 1..m + 1 : s[j] <= s[i]
    <3>1. CASE m = 0
      <4>1. 1 \in 1..m + 1 /\ \A j \in 1..m + 1 : j = 1
        BY <3>1
      <4>2. s[1] <= s[1]
        BY <2>1, <3>1
      <4>3. QED
        BY <4>1, <4>2
    <3>2. CASE m # 0
      <4>1. PICK i \in 1..m : \A j \in 1..m : s[j] <= s[i]
        BY <1>3, <3>2
      <4>2. \A j \in 1..m + 1 : j \in 1..m \/ j = m + 1
        OBVIOUS
      <4>3. CASE s[m + 1] <= s[i]
        <5>1. i \in 1..m + 1 /\ \A j \in 1..m + 1 : s[j] <= s[i]
          BY <4>1, <4>2, <4>3
        <5>2. QED
          BY <5>1
      <4>4. CASE ~(s[m + 1] <= s[i])
        <5>1. \A j \in 1..m : s[j] <= s[m + 1]
          BY <2>1, <4>1, <4>4
        <5>2. m + 1 \in 1..m + 1 /\ s[m + 1] <= s[m + 1]
          BY <2>1
        <5>3. \A j \in 1..m + 1 : s[j] <= s[m + 1]
          BY <4>2, <5>1, <5>2
        <5>4. QED
          BY <5>2, <5>3
      <4>5. QED
        BY <4>3, <4>4
    <3>3. QED
      BY <3>1, <3>2
  <2>3. QED
    BY <2>1, <2>2
<1>4. n \in A
  <2>1. \A m \in 0..n : m \in A
    <3> HIDE DEF A
    <3>1. QED
      BY <1>1, <1>2, <1>3, UpTo
  <2>2. n \in 0..n
    BY <1>1
  <2>3. QED
    BY <2>1, <2>2
<1>5. PICK i \in 1..n : \A j \in 1..n : s[j] <= s[i]
  BY <1>1, <1>4
<1>6. s[i] \in ToSet(s) /\ \A k \in ToSet(s) : k <= s[i]
  BY <1>1, <1>5 DEF ToSet
<1>7. Largest(s) \in ToSet(s) /\ \A k \in ToSet(s) : k <= Largest(s)
  BY <1>6 DEF Largest
<1>8. QED
  BY <1>1, <1>7 DEF ToSet, n

LEMMA GatheringChunks ==
  ASSUME PayloadInv, index = IndexTensors, NEW rows \in Seq(DOMAIN memories),
         NEW S, NEW s \in Seq(Seq(S)), Len(s) = Len(memories),
         \A j \in 1..Len(s) : Len(s[j]) = Len(memories[j].tokens)
  PROVE  Gathered(Concat(s), GatherIndices(rows)) = Concat([i \in DOMAIN rows |-> s[rows[i]]])
<1> DEFINE at == PrefixOffsets(Lengths)
           grid == [i \in 1..Len(rows) |-> [p \in 1..Len(s[rows[i]]) |-> at[rows[i]] + p]]
           c == Concat(s)
           picked == [i \in DOMAIN rows |-> s[rows[i]]]
<1>1. /\ DOMAIN rows = 1..Len(rows) /\ Len(rows) \in Nat
      /\ \A i \in 1..Len(rows) : rows[i] \in DOMAIN memories
  BY ElementOfSeq
<1>2. /\ DOMAIN memories = 1..Len(s) /\ Len(s) \in Nat
      /\ \A i \in DOMAIN memories : s[i] \in Seq(S) /\ Len(s[i]) \in Nat
  <2>1. memories \in Seq(MemoryOf)
    BY DEF PayloadInv
  <2>2. DOMAIN memories = 1..Len(s) /\ Len(s) \in Nat
    BY <2>1
  <2>3. \A i \in 1..Len(s) : s[i] \in Seq(S)
    BY ElementOfSeq
  <2>4. \A i \in 1..Len(s) : Len(s[i]) \in Nat
    BY <2>3, LenProperties
  <2>5. QED
    BY <2>2, <2>3, <2>4
<1>3. ASSUME NEW i \in DOMAIN memories
      PROVE  /\ at[i] \in Nat /\ Lengths[i] = Len(s[i])
             /\ \A k \in 1..Len(s[i]) : at[i] + k \in 1..Len(c) /\ c[at[i] + k] = s[i][k]
  BY OffsetsFindChunks
<1>4. \A i \in DOMAIN memories : Lengths[i] <= index.maxTokens /\ index.maxTokens \in Nat
  <2>1. DOMAIN Lengths = 1..Len(s) /\ \A i \in 1..Len(s) : Lengths[i] \in Nat
    BY <1>2, <1>3 DEF Lengths
  <2>2. Lengths = [i \in 1..Len(s) |-> Lengths[i]]
    BY <2>1 DEF Lengths
  <2>3. Lengths \in Seq(Nat) /\ Len(Lengths) = Len(s)
    BY <1>2, <2>1, <2>2
  <2>4. index.maxTokens = Largest(Lengths)
    BY DEF IndexTensors
  <2>5. ASSUME NEW i \in DOMAIN memories
        PROVE  Lengths[i] <= index.maxTokens /\ index.maxTokens \in Nat
    <3>1. Lengths # <<>>
      BY <1>2, <2>3
    <3>2. QED
      BY <1>2, <2>3, <2>4, <3>1, LargestIsLargest
  <2>6. QED
    BY <2>5
<1>5. index.offsets = at /\ index.lengths = Lengths
  BY DEF IndexTensors
<1> HIDE DEF at, c
<1>6. GatherIndices(rows) = Concat(grid)
  <2> DEFINE cut(i) == SubSeq([p \in 1..index.maxTokens |-> index.offsets[rows[i]] + p],
                              1, index.lengths[rows[i]])
  <2>1. ASSUME NEW i \in 1..Len(rows)
        PROVE  cut(i) = [p \in 1..Len(s[rows[i]]) |-> at[rows[i]] + p]
    <3> DEFINE m == index.maxTokens
               n == Len(s[rows[i]])
               o == at[rows[i]]
    <3>1. m \in Nat /\ n \in Nat /\ n <= m /\ o \in Nat
      BY <1>1, <1>2, <1>3, <1>4
    <3>2. index.lengths[rows[i]] = n /\ index.offsets[rows[i]] = o
      BY <1>1, <1>3, <1>5
    <3> HIDE DEF m, n, o
    <3>3. SubSeq([p \in 1..m |-> o + p], 1, n) = [p \in 1..n |-> o + p]
      <4> DEFINE g == [p \in 1..m |-> o + p]
      <4>1. g \in Seq(Nat) /\ \A p \in 1..n : g[p] = o + p
        BY <3>1
      <4> HIDE DEF g
      <4>2. SubSeq(g, 1, n) = [p \in 1..n |-> g[p]]
        <5>1. n - 1 + 1 = n /\ \A p \in 1..n : 1 + p - 1 = p
          BY <3>1
        <5>2. SubSeq(g, 1, n) = [p \in 1..n - 1 + 1 |-> g[1 + p - 1]]
          BY <3>1, <4>1
        <5>3. QED
          BY <5>1, <5>2
      <4>3. QED
        BY <4>1, <4>2 DEF g
    <3>4. QED
      BY <3>2, <3>3 DEF m, n, o
  <2>2. GatherIndices(rows) = Concat([i \in DOMAIN rows |-> cut(i)])
    BY DEF GatherIndices
  <2>3. [i \in DOMAIN rows |-> cut(i)] = grid
    BY <1>1, <2>1
  <2>4. QED
    BY <2>2, <2>3
<1>7. c \in [1..Len(c) -> S] /\ Len(c) \in Nat
  <2>1. PICK F : Flattens(F, s, S) /\ FlattenSeq(s) = F[Len(s)]
    BY FlattenHasSteps
  <2>2. F \in [0..Len(s) -> Seq(S)] /\ Len(s) \in 0..Len(s)
    BY <1>2, <2>1 DEF Flattens
  <2>3. c \in Seq(S)
    BY <2>1, <2>2 DEF c, Concat
  <2>4. QED
    BY <2>3, LenProperties
<1> DEFINE N == 1..Len(c)
<1>8. grid \in Seq(Seq(N)) /\ Len(grid) = Len(rows)
      /\ \A i \in 1..Len(rows) :
           /\ Len(grid[i]) = Len(s[rows[i]])
           /\ \A p \in 1..Len(s[rows[i]]) : grid[i][p] = at[rows[i]] + p
  <2>1. ASSUME NEW i \in 1..Len(rows)
        PROVE  /\ [p \in 1..Len(s[rows[i]]) |-> at[rows[i]] + p] \in Seq(N)
               /\ Len([p \in 1..Len(s[rows[i]]) |-> at[rows[i]] + p]) = Len(s[rows[i]])
    <3> DEFINE n == Len(s[rows[i]])
               o == at[rows[i]]
    <3>1. n \in Nat /\ \A p \in 1..n : o + p \in N
      BY <1>1, <1>2, <1>3
    <3> HIDE DEF n, o, N
    <3>2. [p \in 1..n |-> o + p] \in Seq(N) /\ Len([p \in 1..n |-> o + p]) = n
      BY <3>1
    <3>3. QED
      BY <3>2 DEF n, o
  <2>2. \A i \in 1..Len(rows) : grid[i] = [p \in 1..Len(s[rows[i]]) |-> at[rows[i]] + p]
    OBVIOUS
  <2>3. \A i \in 1..Len(rows) :
           /\ Len(grid[i]) = Len(s[rows[i]])
           /\ \A p \in 1..Len(s[rows[i]]) : grid[i][p] = at[rows[i]] + p
    BY <2>1, <2>2
  <2>4. grid \in Seq(Seq(N)) /\ Len(grid) = Len(rows)
    <3> DEFINE T == Seq(N)
               n == Len(rows)
    <3>1. grid \in [1..n -> T] /\ n \in Nat
      BY <1>1, <2>1
    <3> HIDE DEF T, n, grid
    <3>2. grid \in Seq(T) /\ Len(grid) = n
      BY <3>1
    <3>3. QED
      BY <3>2 DEF T, n
  <2> HIDE DEF grid
  <2>5. QED
    BY <2>3, <2>4
<1> HIDE DEF grid
<1>9. picked = MapEach(c, grid)
  <2>1. ASSUME NEW i \in 1..Len(rows)
        PROVE  s[rows[i]] = [k \in 1..Len(grid[i]) |-> c[grid[i][k]]]
    <3> DEFINE x == s[rows[i]]
               o == at[rows[i]]
    <3>1. rows[i] \in DOMAIN memories
      BY <1>1
    <3>2. x \in Seq(S)
      BY <1>2, <3>1
    <3>3. \A k \in 1..Len(x) : c[o + k] = x[k]
      BY <1>3, <3>1
    <3>4. Len(grid[i]) = Len(x) /\ \A k \in 1..Len(x) : grid[i][k] = o + k
      BY <1>8
    <3> HIDE DEF x, o
    <3>5. x = [k \in 1..Len(x) |-> x[k]]
      BY <3>2
    <3>6. \A k \in 1..Len(x) : x[k] = c[grid[i][k]]
      BY <3>3, <3>4
    <3>7. x = [k \in 1..Len(grid[i]) |-> c[grid[i][k]]]
      BY <3>4, <3>5, <3>6
    <3>8. QED
      BY <3>7 DEF x
  <2>2. Len(grid) = Len(rows) /\ DOMAIN rows = 1..Len(rows)
    BY <1>1, <1>8
  <2>3. QED
    BY <2>1, <2>2 DEF MapEach
<1> HIDE DEF picked
<1>10. FlattenSeq(grid) \in Seq(N)
       /\ FlattenSeq(picked) = [k \in 1..Len(FlattenSeq(grid)) |-> c[FlattenSeq(grid)[k]]]
  <2>1. c \in [N -> S] /\ grid \in Seq(Seq(N))
    BY <1>7, <1>8
  <2> HIDE DEF N
  <2>2. /\ FlattenSeq(grid) \in Seq(N)
        /\ FlattenSeq(MapEach(c, grid)) = MapAll(c, FlattenSeq(grid))
    BY <2>1, FlattenMapped
  <2>3. QED
    BY <1>9, <2>2 DEF MapAll
<1>11. DOMAIN FlattenSeq(grid) = 1..Len(FlattenSeq(grid))
  BY <1>10
<1>12. Gathered(c, FlattenSeq(grid)) = FlattenSeq(picked)
  BY <1>10, <1>11 DEF Gathered
<1>13. QED
  BY <1>6, <1>12 DEF Concat, c, picked
(* The chunks the rows name, and what the caller asked for.                *)
ChunksAt(rows) == [i \in DOMAIN rows |-> memories[rows[i]].tokens]

IdsAreUnique ==
  \A i, j \in DOMAIN memories : memories[i].id = memories[j].id => i = j

(* Rows an accepted map resolves stable ids to are the rows of the chunks  *)
(* those ids stood for.                                                    *)
LEMMA RowsAreAsked ==
  ASSUME TypeInv, IdsAreUnique, NEW n \in DOMAIN maps, n \in BuiltLookup.bound,
         NEW k, NEW stable \in Orderings(DOMAIN maps[n].items, k)
  PROVE  /\ RowsFor(n, stable) \in Seq(DOMAIN memories) /\ RowsFor(n, stable) # <<>>
         /\ AskedTokens(n, stable) = Concat(ChunksAt(RowsFor(n, stable)))
<1> DEFINE D == DOMAIN maps[n].items
           m == Len(stable)
           a == [i \in DOMAIN stable |-> maps[n].items[stable[i]]]
           b == [i \in DOMAIN stable |-> maps[n].rows[stable[i]]]
           asked == Asked(n, stable)
           rows == RowsFor(n, stable)
<1>1. stable \in Seq(D) /\ stable # <<>>
  BY SeqOfIsSeq DEF Orderings
<1>2. /\ DOMAIN stable = 1..m /\ m \in Nat \ {0}
      /\ \A i \in 1..m : stable[i] \in D
  <2> HIDE DEF D
  <2>1. QED
    BY <1>1, EmptySeq, ElementOfSeq
<1>3. \A i \in D : /\ maps[n].rows[i] \in DOMAIN memories
                   /\ memories[maps[n].rows[i]].id = maps[n].items[i]
  BY BuiltLookupIsCurrent DEF TypeInv
<1> HIDE DEF D, m
<1>4. ASSUME NEW i \in 1..m PROVE m - i + 1 \in 1..m
  BY <1>2
<1>5. /\ asked = [i \in 1..m |-> maps[n].items[stable[m - i + 1]]]
      /\ rows = [i \in 1..m |-> maps[n].rows[stable[m - i + 1]]]
  <2>1. /\ a = [i \in 1..m |-> maps[n].items[stable[i]]]
        /\ b = [i \in 1..m |-> maps[n].rows[stable[i]]]
    BY <1>2
  <2>2. Len(a) = m /\ Len(b) = m
    BY <1>2, <2>1
  <2>3. asked = Reverse(a) /\ rows = Reverse(b)
    BY DEF Asked, RowsFor
  <2> HIDE DEF a, b, asked, rows
  <2>4. Reverse(a) = [i \in 1..m |-> a[m - i + 1]] /\ Reverse(b) = [i \in 1..m |-> b[m - i + 1]]
    BY <2>2 DEF Reverse
  <2>5. \A i \in 1..m : /\ a[m - i + 1] = maps[n].items[stable[m - i + 1]]
                        /\ b[m - i + 1] = maps[n].rows[stable[m - i + 1]]
    BY <1>4, <2>1
  <2>6. QED
    BY <2>3, <2>4, <2>5
<1> HIDE DEF asked, rows
<1>6. \A i \in 1..m : /\ rows[i] \in DOMAIN memories
                      /\ asked[i] = memories[rows[i]].id
  BY <1>2, <1>3, <1>4, <1>5
<1>7. rows \in Seq(DOMAIN memories) /\ rows # <<>> /\ DOMAIN rows = 1..m /\ DOMAIN asked = 1..m
  <2> DEFINE M == DOMAIN memories
  <2>1. rows \in [1..m -> M] /\ DOMAIN asked = 1..m
    BY <1>5, <1>6
  <2> HIDE DEF M
  <2>2. rows \in Seq(M) /\ Len(rows) = m
    BY <1>2, <2>1
  <2>3. rows # <<>>
    BY <1>2, <2>2
  <2>4. QED
    BY <2>1, <2>2, <2>3 DEF M
<1>8. ASSUME NEW i \in 1..m
      PROVE  asked[i] \in Live /\ TokensOf(asked[i]) = memories[rows[i]].tokens
  <2>1. asked[i] \in Live
    BY <1>6 DEF Live, ToSet, Ids
  <2>2. PositionOf(asked[i]) \in DOMAIN memories /\ memories[PositionOf(asked[i])].id = asked[i]
    BY <2>1, PositionOfLive
  <2>3. PositionOf(asked[i]) = rows[i]
    BY <1>6, <2>2 DEF IdsAreUnique
  <2>4. QED
    BY <2>1, <2>3 DEF TokensOf
<1>9. [i \in DOMAIN asked |-> IF asked[i] \in Live THEN TokensOf(asked[i]) ELSE <<0>>]
        = ChunksAt(rows)
  BY <1>7, <1>8 DEF ChunksAt
<1>10. AskedTokens(n, stable) = Concat(ChunksAt(rows))
  BY <1>9 DEF AskedTokens, asked
<1>11. QED
  BY <1>7, <1>10 DEF rows

(* The KV of chunks one after the other is the KV of their tokens.         *)
LEMMA KvOfChunks ==
  ASSUME PayloadInv, NEW rows \in Seq(DOMAIN memories), NEW l \in Layers
  PROVE  Concat([i \in DOMAIN rows |-> memories[rows[i]].kv[l]])
           = KvOf(Concat(ChunksAt(rows)), l)
<1> DEFINE s == ChunksAt(rows)
           g == [x \in Nat |-> <<l, x>>]
           t == [i \in DOMAIN rows |-> memories[rows[i]].kv[l]]
<1>1. /\ DOMAIN rows = 1..Len(rows) /\ Len(rows) \in Nat
      /\ \A i \in 1..Len(rows) : rows[i] \in DOMAIN memories
  BY ElementOfSeq
<1>2. \A i \in DOMAIN memories : memories[i] \in MemoryOf
  BY DEF PayloadInv
<1>3. ASSUME NEW i \in 1..Len(rows)
      PROVE  /\ s[i] = memories[rows[i]].tokens /\ s[i] \in Seq(Nat)
             /\ memories[rows[i]].kv[l] = [k \in 1..Len(s[i]) |-> g[s[i][k]]]
  <2> DEFINE p == memories[rows[i]].tokens
  <2>1. p \in Payloads /\ s[i] = p
    BY <1>1, <1>2 DEF MemoryOf, ChunksAt
  <2>2. memories[rows[i]].kv[l] = KvOf(p, l)
    BY <1>1 DEF PayloadInv, PayloadsSurvivePacking
  <2> HIDE DEF p, s
  <2>3. p \in Seq(Nat) /\ DOMAIN p = 1..Len(p) /\ \A k \in 1..Len(p) : p[k] \in Nat
    BY <2>1, PayloadAssumption
  <2>4. KvOf(p, l) = [k \in 1..Len(p) |-> <<l, p[k]>>]
    BY <2>3 DEF KvOf
  <2>5. [k \in 1..Len(p) |-> <<l, p[k]>>] = [k \in 1..Len(p) |-> g[p[k]]]
    BY <2>3
  <2>6. QED
    BY <2>1, <2>2, <2>3, <2>4, <2>5 DEF p
<1>4. s \in Seq(Seq(Nat)) /\ Len(s) = Len(rows)
  <2> DEFINE T == Seq(Nat)
             n == Len(rows)
  <2>1. s \in [1..n -> T] /\ n \in Nat
    BY <1>1, <1>3 DEF ChunksAt
  <2> HIDE DEF s, T, n
  <2>2. s \in Seq(T) /\ Len(s) = n
    BY <2>1
  <2>3. QED
    BY <2>2 DEF T, n
<1> HIDE DEF s
<1>5. t = MapEach(g, s)
  BY <1>1, <1>3, <1>4 DEF MapEach
<1>6. g \in [Nat -> Layers \X Nat]
  OBVIOUS
<1> HIDE DEF g, t
<1>7. FlattenSeq(s) \in Seq(Nat) /\ FlattenSeq(MapEach(g, s)) = MapAll(g, FlattenSeq(s))
  BY <1>4, <1>6, FlattenMapped
<1> DEFINE f == FlattenSeq(s)
<1>8. DOMAIN f = 1..Len(f) /\ \A k \in 1..Len(f) : f[k] \in Nat
  BY <1>7
<1> HIDE DEF f
<1>9. MapAll(g, f) = KvOf(f, l)
  BY <1>8 DEF MapAll, KvOf, g
<1>10. QED
  BY <1>5, <1>7, <1>9 DEF Concat, f, t, s

(* What select_device_ids finds in the index and in a slab.                *)
LEMMA SlabsHoldChunks ==
  ASSUME PayloadInv, index = IndexTensors, slabs = PackLayers(Len(LayerOrder)),
         NEW rows \in Seq(DOMAIN memories)
  PROVE  LET asked == Concat(ChunksAt(rows))
         IN  /\ Gathered(index.tokens, GatherIndices(rows)) = asked
             /\ \A l \in DOMAIN slabs : /\ l \in Layers
                                        /\ Gathered(slabs[l], GatherIndices(rows)) = KvOf(asked, l)
<1> DEFINE asked == Concat(ChunksAt(rows))
           indices == GatherIndices(rows)
<1>0. \A i \in DOMAIN rows : rows[i] \in DOMAIN memories
  BY ElementOfSeq
<1>0a. DOMAIN memories = 1..Len(memories)
  BY DEF PayloadInv
<1>1. Gathered(index.tokens, indices) = asked
  <2> DEFINE s == TokensIn(memories)
  <2>1. /\ s \in Seq(Seq(Nat)) /\ Len(s) = Len(memories)
        /\ \A j \in 1..Len(memories) : s[j] = memories[j].tokens
    BY TokensInShape DEF PayloadInv
  <2>2. index.tokens = Concat(s)
    BY DEF IndexTensors, TokensIn
  <2> HIDE DEF s, indices
  <2>3. \A j \in 1..Len(s) : Len(s[j]) = Len(memories[j].tokens)
    BY <2>1
  <2>4. Gathered(Concat(s), GatherIndices(rows)) = Concat([i \in DOMAIN rows |-> s[rows[i]]])
    BY <2>1, <2>3, GatheringChunks
  <2>5. [i \in DOMAIN rows |-> s[rows[i]]] = ChunksAt(rows)
    BY <1>0, <1>0a, <2>1 DEF ChunksAt
  <2>6. QED
    BY <2>2, <2>4, <2>5 DEF indices
<1>2. ASSUME NEW l \in DOMAIN slabs
      PROVE  l \in Layers /\ Gathered(slabs[l], indices) = KvOf(asked, l)
  <2> DEFINE s == KvIn(l)
  <2>1. l \in Layers
    BY PackingAllLayers
  <2>2. slabs[l] = Concat(s)
    BY <2>1 DEF PackLayers, KvIn
  <2>3. /\ s \in Seq(Seq(Layers \X Nat)) /\ Len(s) = Len(memories)
        /\ \A j \in 1..Len(memories) : s[j] = memories[j].kv[l]
        /\ \A j \in 1..Len(s) : Len(s[j]) = Len(memories[j].tokens)
    BY <2>1, KvInShape
  <2> HIDE DEF s
  <2>4. Gathered(Concat(s), GatherIndices(rows)) = Concat([i \in DOMAIN rows |-> s[rows[i]]])
    BY <2>3, GatheringChunks
  <2>5. [i \in DOMAIN rows |-> s[rows[i]]] = [i \in DOMAIN rows |-> memories[rows[i]].kv[l]]
    BY <1>0, <1>0a, <2>3
  <2>6. Concat([i \in DOMAIN rows |-> memories[rows[i]].kv[l]]) = KvOf(asked, l)
    BY <2>1, KvOfChunks
  <2>7. QED
    BY <2>1, <2>2, <2>4, <2>5, <2>6
<1>3. QED
  BY <1>1, <1>2
-----------------------------------------------------------------------------
(* With one caller no store changes under a selection.  While the packed   *)
(* rows are valid and no removal is half way, index and slabs are those of *)
(* the memories; a view that has layers to gather was selected from slabs  *)
(* that are either still there or gone with the last chunk.                *)
SlabsMatch ==
  packed /\ rowsValid /\ memories # <<>> /\ (\A t \in Threads : thread[t].op # "removed")
    => index = IndexTensors /\ slabs = PackLayers(Len(LayerOrder))

ViewFollows ==
  view # NoView =>
    /\ view = [asked |-> view.asked, indices |-> view.indices, tokens |-> view.tokens,
               kv |-> view.kv]
    /\ Layers \ DOMAIN view.kv # {} => packed
    /\ \A l \in DOMAIN slabs \ DOMAIN view.kv :
         Gathered(slabs[l], view.indices) = KvOf(view.asked, l)

SelectionInv ==
  /\ TypeInv /\ NoAddInFlight
  /\ packed => Packs
  /\ IdsAreUnique /\ SlabsMatch /\ ViewFollows /\ SelectionGathersRequestedChunks

LEMMA SelectionInit == Init => SelectionInv
<1> SUFFICES ASSUME Init PROVE SelectionInv
  OBVIOUS
<1>1. TypeInv /\ NoAddInFlight
  BY StoreInit, PayloadInit, TypesInit, NoAddInFlightInit DEF TypeInv
<1>2. IdsAreUnique /\ SlabsMatch /\ ViewFollows /\ SelectionGathersRequestedChunks
  BY DEF Init, IdsAreUnique, SlabsMatch, ViewFollows, SelectionGathersRequestedChunks
<1>3. packed => Packs
  BY DEF Init
<1>4. QED
  BY <1>1, <1>2, <1>3 DEF SelectionInv

(* Taking a chunk out, and putting one under its id in, repeats no id.     *)
LEMMA WithoutIsUnique ==
  ASSUME PayloadInv, IdsAreUnique, NEW id
  PROVE  /\ \A i, j \in DOMAIN Without(id) : Without(id)[i].id = Without(id)[j].id => i = j
         /\ \A i \in DOMAIN Without(id) : Without(id)[i].id # id
<1>1. CASE id \notin Live
  <2>1. \A i \in DOMAIN memories : memories[i].id # id
    BY <1>1 DEF Live, ToSet, Ids
  <2>2. QED
    BY <1>1, <2>1 DEF Without, IdsAreUnique
<1>2. CASE id \in Live
  <2> DEFINE p == PositionOf(id)
             n == Len(memories)
             m == RemoveAt(memories, p)
  <2>1. memories \in Seq(MemoryOf) /\ DOMAIN memories = 1..n /\ n \in Nat
    BY DEF PayloadInv
  <2>2. p \in 1..n /\ memories[p].id = id
    BY <1>2, <2>1, PositionOfLive
  <2>3. Without(id) = m
    BY <1>2 DEF Without
  <2> HIDE DEF p
  <2>4. /\ m \in Seq(MemoryOf) /\ Len(m) = n - 1
        /\ \A j \in 1..n - 1 : m[j] = IF j < p THEN memories[j] ELSE memories[j + 1]
    BY <2>1, <2>2, RemoveAtEntries
  <2> HIDE DEF m, n
  <2>5. DOMAIN m = 1..n - 1
    BY <2>4
  <2> DEFINE at(j) == IF j < p THEN j ELSE j + 1
  <2>6. ASSUME NEW j \in 1..n - 1
        PROVE  at(j) \in 1..n /\ at(j) # p /\ m[j] = memories[at(j)]
    <3>1. at(j) \in 1..n /\ at(j) # p
      BY <2>1, <2>2
    <3>2. m[j] = memories[at(j)]
      BY <2>4
    <3>3. QED
      BY <3>1, <3>2
  <2>7. ASSUME NEW i \in 1..n - 1, NEW j \in 1..n - 1, at(i) = at(j) PROVE i = j
    BY <2>1, <2>2, <2>7
  <2> HIDE DEF at
  <2>8. ASSUME NEW i \in 1..n - 1, NEW j \in 1..n - 1, m[i].id = m[j].id PROVE i = j
    <3>1. at(i) = at(j)
      BY <2>1, <2>6, <2>8 DEF IdsAreUnique
    <3>2. QED
      BY <2>7, <3>1
  <2>9. ASSUME NEW i \in 1..n - 1 PROVE m[i].id # id
    BY <2>1, <2>2, <2>6 DEF IdsAreUnique
  <2>10. QED
    BY <2>3, <2>5, <2>8, <2>9
<1>3. QED
  BY <1>1, <1>2

LEMMA AddingKeepsIdsUnique ==
  ASSUME PayloadInv, IdsAreUnique, NEW t \in Threads, AddUserMemory(t)
  PROVE  IdsAreUnique'
<1> DEFINE id == thread[t].id
           w == Without(id)
           e == Memory(id, thread[t].tokens)
           n == Len(w)
<1>1. memories' = Append(w, e) /\ e.id = id /\ id \in ChunkIds /\ thread[t].tokens \in Payloads
  BY DEF AddUserMemory, PayloadInv, AddersCarryPayloads, Memory
<1>2. e \in MemoryOf
  BY <1>1, MemoryIsTyped
<1> HIDE DEF id, e
<1>3. w \in Seq(MemoryOf)
  BY WithoutIsTyped
<1>4. /\ \A i, j \in DOMAIN w : w[i].id = w[j].id => i = j
      /\ \A i \in DOMAIN w : w[i].id # id
  BY WithoutIsUnique
<1> HIDE DEF w
<1>5. n \in Nat /\ DOMAIN w = 1..n
  BY <1>3
<1>6. /\ DOMAIN memories' = 1..n + 1 /\ memories'[n + 1] = e
      /\ \A i \in 1..n : memories'[i] = w[i]
  BY <1>1, <1>2, <1>3, AppendProperties
<1> HIDE DEF n
<1>7. ASSUME NEW i \in 1..n + 1, NEW j \in 1..n + 1, memories'[i].id = memories'[j].id
      PROVE  i = j
  <2>1. /\ i \in 1..n \/ i = n + 1
        /\ j \in 1..n \/ j = n + 1
    BY <1>5
  <2>2. \A k \in 1..n : memories'[k].id # id
    BY <1>4, <1>5, <1>6
  <2>3. memories'[n + 1].id = id
    BY <1>1, <1>6
  <2>4. CASE i \in 1..n /\ j \in 1..n
    BY <1>4, <1>5, <1>6, <1>7, <2>4
  <2>5. CASE i = n + 1 \/ j = n + 1
    BY <1>7, <2>1, <2>2, <2>3, <2>5
  <2>6. QED
    BY <2>1, <2>4, <2>5
<1>8. QED
  BY <1>6, <1>7 DEF IdsAreUnique

(* What a step that leaves slabs, index and memories alone has to keep.    *)
LEMMA SelectionKept ==
  ASSUME SelectionInv, UNCHANGED <<memories, packed, slabs, index, view>>,
         rowsValid' => rowsValid,
         packed' /\ rowsValid' /\ (\A t \in Threads : thread'[t].op # "removed")
           => \A t \in Threads : thread[t].op # "removed"
  PROVE  /\ IdsAreUnique' /\ SlabsMatch' /\ ViewFollows' /\ SelectionGathersRequestedChunks'
         /\ packed' => Packs
<1>1. IdsAreUnique' /\ (packed' => Packs)
  BY DEF SelectionInv, IdsAreUnique
<1>2. IndexTensors' = IndexTensors /\ PackLayers(Len(LayerOrder))' = PackLayers(Len(LayerOrder))
  BY DEF IndexTensors, PackLayers, Lengths
<1>3. SlabsMatch'
  BY <1>2 DEF SelectionInv, SlabsMatch
<1>4. ViewFollows' /\ SelectionGathersRequestedChunks'
  BY DEF SelectionInv, ViewFollows, SelectionGathersRequestedChunks
<1>5. QED
  BY <1>1, <1>3, <1>4
(* A selection of layers all gathered at once, or from the slabs.          *)
LEMMA SelectingFollows ==
  ASSUME \A t, u \in Threads : t = u, SelectionInv, NEW t \in Threads, NEW n \in DOMAIN maps,
         NEW stable \in Orderings(DOMAIN maps[n].items, MaxSelect),
         GetDeviceChunkMemories(t, n, stable) \/ SelectDeviceIds(t, n, stable)
  PROVE  ViewFollows' /\ SelectionGathersRequestedChunks'
<1> DEFINE rows == RowsFor(n, stable)
           asked == AskedTokens(n, stable)
<1>1. /\ UNCHANGED <<memories, packed, rowsValid, slabs, index, thread>>
      /\ n \in BuiltLookup.bound /\ thread[t] = Idle
  BY DEF GetDeviceChunkMemories, SelectDeviceIds, IsBound
<1>2. /\ rows \in Seq(DOMAIN memories) /\ rows # <<>>
      /\ asked = Concat(ChunksAt(rows))
  BY <1>1, RowsAreAsked DEF SelectionInv
<1>3. \A i \in DOMAIN rows : rows[i] \in DOMAIN memories
  BY <1>2, ElementOfSeq
<1>4. CASE GetDeviceChunkMemories(t, n, stable)
  <2> DEFINE tokens == Concat([i \in DOMAIN rows |-> memories[rows[i]].tokens])
             kv == [l \in Layers |-> Concat([i \in DOMAIN rows |-> memories[rows[i]].kv[l]])]
  <2>1. view' = [asked |-> asked, indices |-> <<>>, tokens |-> tokens, kv |-> kv]
    BY <1>4 DEF GetDeviceChunkMemories
  <2>2. tokens = asked
    BY <1>2 DEF ChunksAt
  <2>3. \A l \in Layers : kv[l] = KvOf(asked, l)
    BY <1>2, KvOfChunks DEF SelectionInv, TypeInv
  <2>4. DOMAIN kv = Layers
    OBVIOUS
  <2> HIDE DEF tokens, kv, asked, rows
  <2>5. SelectionGathersRequestedChunks'
    BY <2>1, <2>2, <2>3, <2>4 DEF SelectionGathersRequestedChunks
  <2>6. DOMAIN slabs \subseteq Layers
    BY DEF SelectionInv, TypeInv, TypeOK
  <2>7. ViewFollows'
    BY <1>1, <2>1, <2>4, <2>6 DEF ViewFollows
  <2>8. QED
    BY <2>5, <2>7
<1>5. CASE SelectDeviceIds(t, n, stable)
  <2> DEFINE indices == GatherIndices(rows)
             tokens == Gathered(index.tokens, indices)
  <2>1. /\ view' = [asked |-> asked, indices |-> indices, tokens |-> tokens, kv |-> NoSlabs]
        /\ packed /\ rowsValid
    BY <1>5 DEF SelectDeviceIds, RequirePacked
  <2>2. \A u \in Threads : thread[u].op # "removed"
    BY <1>1 DEF Idle
  <2>3. memories # <<>>
    <3>1. rows \in Seq({}) => rows = <<>>
      BY EmptySeq
    <3>2. memories = <<>> => DOMAIN memories = {}
      OBVIOUS
    <3>3. QED
      BY <1>2, <3>1, <3>2
  <2>4. index = IndexTensors /\ slabs = PackLayers(Len(LayerOrder))
    BY <2>1, <2>2, <2>3 DEF SelectionInv, SlabsMatch
  <2> HIDE DEF rows
  <2>5. /\ tokens = Concat(ChunksAt(rows))
        /\ \A l \in DOMAIN slabs : Gathered(slabs[l], indices) = KvOf(Concat(ChunksAt(rows)), l)
    BY <1>2, <2>4, SlabsHoldChunks DEF SelectionInv, TypeInv
  <2>6. /\ tokens = asked
        /\ \A l \in DOMAIN slabs : Gathered(slabs[l], indices) = KvOf(asked, l)
    BY <1>2, <2>5
  <2>7. DOMAIN NoSlabs = {}
    BY DEF NoSlabs
  <2> HIDE DEF tokens, indices, asked
  <2>8. SelectionGathersRequestedChunks'
    BY <2>1, <2>6, <2>7 DEF SelectionGathersRequestedChunks
  <2>9. ViewFollows'
    BY <1>1, <2>1, <2>6 DEF ViewFollows
  <2>10. QED
    BY <2>8, <2>9
<1>6. QED
  BY <1>4, <1>5

LEMMA GatheringFollows ==
  ASSUME SelectionInv, NEW l \in Layers, GatherPackedLayer(l)
  PROVE  ViewFollows' /\ SelectionGathersRequestedChunks'
<1>1. /\ view # NoView /\ l \notin DOMAIN view.kv
      /\ UNCHANGED <<slabs, packed>>
  BY DEF GatherPackedLayer
<1>2. CASE l \notin DOMAIN slabs
  <2>1. view' = NoView
    BY <1>2 DEF GatherPackedLayer
  <2>2. QED
    BY <2>1 DEF ViewFollows, SelectionGathersRequestedChunks
<1>3. CASE l \in DOMAIN slabs
  <2> DEFINE kv == [k \in DOMAIN view.kv \cup {l} |->
                      IF k = l THEN Gathered(slabs[l], view.indices) ELSE view.kv[k]]
  <2>1. view' = [view EXCEPT !.kv = kv]
    BY <1>3 DEF GatherPackedLayer
  <2>2. view = [asked |-> view.asked, indices |-> view.indices, tokens |-> view.tokens,
                kv |-> view.kv]
    BY <1>1 DEF SelectionInv, ViewFollows
  <2>3. /\ DOMAIN kv = DOMAIN view.kv \cup {l}
        /\ kv[l] = Gathered(slabs[l], view.indices)
        /\ \A k \in DOMAIN view.kv : kv[k] = view.kv[k]
    BY <1>1
  <2> HIDE DEF kv
  <2>4. view' = [asked |-> view.asked, indices |-> view.indices, tokens |-> view.tokens,
                 kv |-> kv]
    BY <2>1, <2>2
  <2>5. /\ view'.asked = view.asked /\ view'.indices = view.indices
        /\ view'.tokens = view.tokens /\ view'.kv = kv
    BY <2>4
  <2>6. Gathered(slabs[l], view.indices) = KvOf(view.asked, l)
    BY <1>1, <1>3 DEF SelectionInv, ViewFollows
  <2>7. /\ view.tokens = view.asked
        /\ \A k \in DOMAIN view.kv : view.kv[k] = KvOf(view.asked, k)
    BY <1>1 DEF SelectionInv, SelectionGathersRequestedChunks
  <2>8. \A k \in DOMAIN kv : kv[k] = KvOf(view.asked, k)
    BY <2>3, <2>6, <2>7
  <2>9. SelectionGathersRequestedChunks'
    BY <2>5, <2>7, <2>8 DEF SelectionGathersRequestedChunks
  <2>10. /\ Layers \ DOMAIN view.kv # {} => packed
         /\ \A k \in DOMAIN slabs \ DOMAIN view.kv :
              Gathered(slabs[k], view.indices) = KvOf(view.asked, k)
    BY <1>1 DEF SelectionInv, ViewFollows
  <2>11. ViewFollows'
    BY <1>1, <2>3, <2>4, <2>5, <2>10 DEF ViewFollows
  <2>12. QED
    BY <2>9, <2>11
<1>4. QED
  BY <1>2, <1>3

LEMMA PackingFollows ==
  ASSUME SelectionInv, NEW t \in Threads, FinalizePacked(t)
  PROVE  /\ IdsAreUnique' /\ SlabsMatch' /\ ViewFollows' /\ SelectionGathersRequestedChunks'
         /\ packed' => Packs
<1>1. UNCHANGED <<memories, thread, view, rowsValid>> /\ ~packed /\ Packs
  BY PackingChangesNothing DEF FinalizePacked, SelectionInv, TypeInv
<1>2. IdsAreUnique' /\ SelectionGathersRequestedChunks'
  BY <1>1 DEF SelectionInv, IdsAreUnique, SelectionGathersRequestedChunks
<1>3. /\ slabs' = slabs \/ slabs' = PackLayers(Len(LayerOrder))
      /\ packed' /\ memories # <<>>
           => slabs' = PackLayers(Len(LayerOrder)) /\ index' = IndexTensors
  BY DEF FinalizePacked
<1>4. IndexTensors' = IndexTensors /\ PackLayers(Len(LayerOrder))' = PackLayers(Len(LayerOrder))
  BY <1>1 DEF IndexTensors, PackLayers, Lengths
<1>5. SlabsMatch'
  BY <1>1, <1>3, <1>4 DEF SlabsMatch
<1>6. ViewFollows'
  <2>1. DOMAIN slabs' \subseteq Layers
    BY <1>3, PackingAllLayers DEF SelectionInv, TypeInv, TypeOK
  <2>2. view # NoView => Layers \subseteq DOMAIN view.kv
    BY <1>1 DEF SelectionInv, ViewFollows
  <2>3. view # NoView => view = [asked |-> view.asked, indices |-> view.indices,
                                 tokens |-> view.tokens, kv |-> view.kv]
    BY DEF SelectionInv, ViewFollows
  <2>4. QED
    BY <1>1, <2>1, <2>2, <2>3 DEF ViewFollows
<1>7. QED
  BY <1>1, <1>2, <1>5, <1>6

LEMMA SelectionNext ==
  ASSUME \A t, u \in Threads : t = u, SelectionInv, [Next]_vars
  PROVE  SelectionInv'
<1> DEFINE Goal == /\ IdsAreUnique' /\ SlabsMatch' /\ ViewFollows'
                   /\ SelectionGathersRequestedChunks' /\ (packed' => Packs)
<1>0. TypeInv' /\ NoAddInFlight'
  BY StoreNext, PayloadNext, TypesNext, NoAddInFlightNext DEF SelectionInv, TypeInv
<1>a. DOMAIN thread = Threads /\ Idle.op = "idle"
  BY DEF SelectionInv, TypeInv, PayloadInv, Idle
<1>1. ASSUME NEW t \in Threads, NEW id \in ChunkIds, NEW p \in Payloads, BeginAdd(t, id, p)
      PROVE  Goal
  BY <1>1, <1>a, SelectionKept DEF BeginAdd
<1>2. ASSUME NEW t \in Threads, AddUserMemory(t) PROVE Goal
  <2>1. UNCHANGED <<packed, rowsValid, slabs, index, view>> /\ ~packed
    BY <1>2 DEF AddUserMemory, SelectionInv, NoAddInFlight
  <2>2. IdsAreUnique'
    BY <1>2, AddingKeepsIdsUnique DEF SelectionInv, TypeInv
  <2>3. QED
    BY <2>1, <2>2 DEF SelectionInv, SlabsMatch, ViewFollows, SelectionGathersRequestedChunks
<1>3. ASSUME NEW t \in Threads, NEW id \in ChunkIds, RemoveUserMemory(t, id)
      PROVE  Goal
  <2>1. /\ UNCHANGED <<packed, rowsValid, slabs, index, view>>
        /\ memories' = Without(id)
    BY <1>3 DEF RemoveUserMemory
  <2>2. IdsAreUnique'
    BY <2>1, WithoutIsUnique DEF SelectionInv, TypeInv, IdsAreUnique
  <2>3. packed => thread'[t].op = "removed"
    BY <1>3, <1>a DEF RemoveUserMemory, SelectionInv
  <2>4. SlabsMatch'
    BY <2>1, <2>3 DEF SlabsMatch
  <2>5. QED
    BY <2>1, <2>2, <2>4 DEF SelectionInv, ViewFollows, SelectionGathersRequestedChunks
<1>4. ASSUME NEW t \in Threads, InvalidatePacked(t) PROVE Goal
  <2>1. /\ UNCHANGED <<memories, packed, view>>
        /\ rowsValid' = IF packed THEN FALSE ELSE rowsValid
        /\ slabs' = slabs \/ slabs' = NoSlabs
    BY <1>4 DEF InvalidatePacked
  <2>2. IdsAreUnique' /\ SelectionGathersRequestedChunks' /\ (packed' => Packs)
    BY <2>1 DEF SelectionInv, IdsAreUnique, SelectionGathersRequestedChunks
  <2>3. SlabsMatch'
    BY <2>1 DEF SlabsMatch
  <2>4. ViewFollows'
    <3>1. DOMAIN NoSlabs = {}
      BY DEF NoSlabs
    <3>2. QED
      BY <2>1, <3>1 DEF SelectionInv, ViewFollows
  <2>5. QED
    BY <2>2, <2>3, <2>4
<1>5. ASSUME NEW t \in Threads, FinalizePacked(t) PROVE Goal
  BY <1>5, PackingFollows
<1>6. ASSUME NEW t \in Threads,
             \/ FinalizeChunkLookup(t) \/ CloseChunkLookup(t)
             \/ \E items \in Orderings(ChunkIds, Cardinality(ChunkIds)) :
                  BuildDeviceRowMap(t, items)
      PROVE  Goal
  <2>1. UNCHANGED <<memories, packed, rowsValid, slabs, index, view, thread>>
    BY <1>6 DEF FinalizeChunkLookup, CloseChunkLookup, BuildDeviceRowMap
  <2>2. QED
    BY <2>1, SelectionKept
<1>7. ASSUME NEW t \in Threads, NEW n \in DOMAIN maps,
             NEW stable \in Orderings(DOMAIN maps[n].items, MaxSelect),
             GetDeviceChunkMemories(t, n, stable) \/ SelectDeviceIds(t, n, stable)
      PROVE  Goal
  <2>1. UNCHANGED <<memories, packed, rowsValid, slabs, index, thread>>
    BY <1>7 DEF GetDeviceChunkMemories, SelectDeviceIds
  <2>2. ViewFollows' /\ SelectionGathersRequestedChunks'
    BY <1>7, SelectingFollows
  <2>3. IndexTensors' = IndexTensors /\ PackLayers(Len(LayerOrder))' = PackLayers(Len(LayerOrder))
    BY <2>1 DEF IndexTensors, PackLayers, Lengths
  <2>4. QED
    BY <2>1, <2>2, <2>3 DEF SelectionInv, IdsAreUnique, SlabsMatch
<1>8. ASSUME NEW l \in Layers, GatherPackedLayer(l) PROVE Goal
  <2>1. UNCHANGED <<memories, packed, rowsValid, slabs, index, thread>>
    BY <1>8 DEF GatherPackedLayer
  <2>2. ViewFollows' /\ SelectionGathersRequestedChunks'
    BY <1>8, GatheringFollows
  <2>3. IndexTensors' = IndexTensors /\ PackLayers(Len(LayerOrder))' = PackLayers(Len(LayerOrder))
    BY <2>1 DEF IndexTensors, PackLayers, Lengths
  <2>4. QED
    BY <2>1, <2>2, <2>3 DEF SelectionInv, IdsAreUnique, SlabsMatch
<1>9. ASSUME UNCHANGED vars PROVE Goal
  BY <1>9, SelectionKept DEF vars
<1>10. Goal
  <2> HIDE DEF Goal
  <2>1. QED
    BY <1>1, <1>2, <1>3, <1>4, <1>5, <1>6, <1>7, <1>8, <1>9 DEF Next
<1>11. QED
  BY <1>0, <1>10 DEF SelectionInv

(* Called by one thread, a selection hands composition the token ids and   *)
(* the KV of the chunks its stable ids stood for, best-ranked chunk last,  *)
(* although every layer is gathered later than the slab positions.         *)
THEOREM SelectionsAreExact ==
  ASSUME \A t, u \in Threads : t = u
  PROVE  Spec => []SelectionGathersRequestedChunks
<1>1. SelectionInv /\ [Next]_vars => SelectionInv'
  BY SelectionNext
<1>2. SelectionInv => SelectionGathersRequestedChunks
  BY DEF SelectionInv
<1>3. QED
  BY <1>1, <1>2, SelectionInit, PTL DEF Spec
=============================================================================
