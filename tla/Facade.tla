------------------------------ MODULE Facade ------------------------------
(***************************************************************************)
(* InferScale: precompute, start, retrieve and answer, close, over the     *)
(* retriever's index, the chunk corpus, the encoder, the engine and the    *)
(* namespace the connector reads the composed memory from.                 *)
(*                                                                         *)
(* The facade has one caller and no state of its own to undo: a call is a  *)
(* row of steps on its parts, any of which can raise, and what the steps   *)
(* before it did stays done.  A step is an action; an exception is one     *)
(* too.  A chunk stands for its id: its text, its tokens and its KV go     *)
(* with it.                                                                *)
(***************************************************************************)
EXTENDS Integers, FiniteSets, SequencesExt

CONSTANTS
  ChunkIds,
  Setups,        \* the backends a facade may be built with
  ContextWindow, \* chunks before a chunk that it is encoded after
  Header, Empty, Footer, \* the scaffold's chunks
  NoMemory,      \* the namespace holds no composed memory
  TopK,          \* hits of one query
  MaxRows        \* bound: rows of the index

ASSUME FacadeAssumption ==
  /\ Setups \subseteq [exact : BOOLEAN, pins : BOOLEAN]
  /\ ContextWindow \in Nat /\ TopK \in Nat \ {0} /\ MaxRows \in Nat

VARIABLES
  setup,           \* exact: MatmulIndex or JasperIndex; pins: a pinned corpus or a packed one
  closed, started, \* _closed, _started
  encoder,         \* _encoder: "none", "loaded", or "released" without weights
  scaffold,        \* the corpus has its scaffold
  rows,            \* the index's rows: whose vector each is
  indexReady,      \* the index is finalized
  chunks,          \* _chunks: ids in order, with the ids each was encoded after
  corpus,          \* ids whose KV and metadata the corpus holds
  frozen,          \* the corpus store is packed and takes no more chunks
  staged,          \* ids in the corpus store's staging pool
  engine,          \* the engine is up
  inFlight,        \* the composed memory in the namespace, part by part
  call,            \* the call in progress
  cut              \* history: "encode" or "close" if a call raised in the middle of it

vars == <<setup, closed, started, encoder, scaffold, rows, indexReady, chunks, corpus,
          frozen, staged, engine, inFlight, call, cut>>

-----------------------------------------------------------------------------
Rest == [op |-> "none"]
AtRest == call = Rest
In(op, at) == call.op = op /\ call.at = at

IdsOf(infos) == [i \in DOMAIN infos |-> infos[i].id]

(* The trailing n items, or none when n is 0.                              *)
LastItems(s, n) == SubSeq(s, IF Len(s) > n THEN Len(s) - n + 1 ELSE 1, Len(s))

(* A planner that looks back at what was indexed, encoded or not.          *)
IndexedHistory == LastItems(rows, ContextWindow)

History == LastItems(IdsOf(chunks), ContextWindow)

(* The window in front of each chunk of a batch, and after the last: it    *)
(* slides over registered and new chunks alike.                            *)
Windows(batch) ==
  LET window[i \in 0..Len(batch)] ==
        IF i = 0 THEN History
        ELSE LastItems(Append(window[i - 1], batch[i]), ContextWindow)
  IN  window

(* One plan per chunk.                                                     *)
PlansFor(batch) ==
  [i \in DOMAIN batch |-> [id |-> batch[i], context |-> Windows(batch)[i - 1]]]

(* The ids met in the first places of hits, each where it is met first.    *)
UniqueIds(hits) ==
  LET unique[i \in 0..Len(hits)] ==
        IF i = 0 THEN <<>>
        ELSE IF hits[i] \in ToSet(unique[i - 1]) THEN unique[i - 1]
        ELSE Append(unique[i - 1], hits[i])
  IN  unique

(* Hits as they come, repeated ids and all.                                *)
ReverseHits(hits) == Reverse(hits)

(* Unique ids, the best-ranked last.                                       *)
ReverseRankedIds(hits) == Reverse(UniqueIds(hits)[Len(hits)])

MemoryParts(ids) ==
  <<Header>> \o (IF ids = <<>> THEN <<Empty>> ELSE ids) \o <<Footer>>

Init ==
  /\ setup \in Setups
  /\ closed = FALSE /\ started = FALSE
  /\ encoder = "none" /\ scaffold = FALSE
  /\ rows = <<>> /\ indexReady = FALSE
  /\ chunks = <<>> /\ corpus = {} /\ frozen = FALSE /\ staged = {}
  /\ engine = FALSE /\ inFlight = NoMemory
  /\ call = Rest /\ cut = {}

-----------------------------------------------------------------------------
(* precompute.                                                             *)

EnsuredEncoder == IF encoder = "none" THEN "loaded" ELSE encoder

(* precompute up to its plans: its checks, and the encoder made.           *)
Precompute(batch) ==
  /\ AtRest /\ ~closed /\ ~started
  /\ ToSet(batch) \cap ToSet(IdsOf(chunks)) = {}
  /\ Len(rows) + Len(batch) <= MaxRows
  /\ encoder' = EnsuredEncoder
  /\ call' = [op |-> "precompute", at |-> "plan", todo |-> batch]
  /\ UNCHANGED <<setup, closed, started, scaffold, rows, indexReady, chunks, corpus, frozen,
                 staged, engine, inFlight, cut>>

(* The whole batch is planned, and the scaffold encoded once.              *)
PlanBatch ==
  /\ In("precompute", "plan")
  /\ scaffold \/ encoder = "loaded"
  /\ scaffold' = TRUE
  /\ call' = [op |-> "precompute", at |-> "index", todo |-> PlansFor(call.todo)]
  /\ UNCHANGED <<setup, closed, started, encoder, rows, indexReady, chunks, corpus, frozen,
                 staged, engine, inFlight, cut>>

(* An index that puts the new rows before the old.                         *)
IndexBatchFirst ==
  /\ In("precompute", "index")
  /\ setup.exact => ToSet(IdsOf(call.todo)) \cap ToSet(rows) = {}
  /\ rows' = IdsOf(call.todo) \o rows
  /\ indexReady' = FALSE
  /\ call' = [call EXCEPT !.at = "encode"]
  /\ UNCHANGED <<setup, closed, started, encoder, scaffold, chunks, corpus, frozen, staged,
                 engine, inFlight, cut>>

(* An index that is handed the plans for ids.                              *)
IndexPlans ==
  /\ In("precompute", "index")
  /\ rows' = rows \o call.todo
  /\ indexReady' = FALSE
  /\ call' = [call EXCEPT !.at = "encode"]
  /\ UNCHANGED <<setup, closed, started, encoder, scaffold, chunks, corpus, frozen, staged,
                 engine, inFlight, cut>>

(* Retriever.add: the batch is embedded and indexed as a whole.  The exact *)
(* index takes an id once only.                                            *)
IndexBatch ==
  /\ In("precompute", "index")
  /\ setup.exact => ToSet(IdsOf(call.todo)) \cap ToSet(rows) = {}
  /\ rows' = rows \o IdsOf(call.todo)
  /\ indexReady' = FALSE
  /\ call' = [call EXCEPT !.at = "encode"]
  /\ UNCHANGED <<setup, closed, started, encoder, scaffold, chunks, corpus, frozen, staged,
                 engine, inFlight, cut>>

(* A chunk made known before its KV is in the corpus.                      *)
EncodeBeforeAdding ==
  /\ In("precompute", "encode")
  /\ LET plan == Head(call.todo) IN chunks' = Append(chunks, plan)
  /\ call' = IF Len(call.todo) = 1 THEN Rest ELSE [call EXCEPT !.todo = Tail(@)]
  /\ UNCHANGED <<setup, closed, started, encoder, scaffold, rows, indexReady, corpus, frozen,
                 staged, engine, inFlight, cut>>

(* The next chunk is encoded, its KV put into the corpus, and then known.  *)
EncodeChunk ==
  /\ In("precompute", "encode")
  /\ encoder = "loaded" /\ ~frozen
  /\ LET plan == Head(call.todo)
     IN  corpus' = corpus \cup {plan.id} /\ chunks' = Append(chunks, plan)
  /\ call' = IF Len(call.todo) = 1 THEN Rest ELSE [call EXCEPT !.todo = Tail(@)]
  /\ UNCHANGED <<setup, closed, started, encoder, scaffold, rows, indexReady, frozen, staged,
                 engine, inFlight, cut>>

(* Planning, embedding, indexing or encoding raises.                       *)
PrecomputeRaises ==
  /\ call.op = "precompute"
  /\ cut' = IF call.at = "encode" THEN cut \cup {"encode"} ELSE cut
  /\ call' = Rest
  /\ UNCHANGED <<setup, closed, started, encoder, scaffold, rows, indexReady, chunks, corpus,
                 frozen, staged, engine, inFlight>>

-----------------------------------------------------------------------------
(* start.                                                                  *)

Start ==
  /\ AtRest /\ ~closed /\ ~started
  /\ chunks # <<>> /\ encoder # "none"
  /\ encoder' = "released"
  /\ call' = [op |-> "start", at |-> "corpus"]
  /\ UNCHANGED <<setup, closed, started, scaffold, rows, indexReady, chunks, corpus, frozen,
                 staged, engine, inFlight, cut>>

(* The payload layout is fixed, then the lookup built.                     *)
FinalizeCorpus ==
  /\ In("start", "corpus")
  /\ frozen' = ~setup.pins
  /\ call' = [call EXCEPT !.at = "index"]
  /\ UNCHANGED <<setup, closed, started, encoder, scaffold, rows, indexReady, chunks, corpus,
                 staged, engine, inFlight, cut>>

FinalizeIndex ==
  /\ In("start", "index")
  /\ indexReady' = TRUE
  /\ call' = [call EXCEPT !.at = "engine"]
  /\ UNCHANGED <<setup, closed, started, encoder, scaffold, rows, chunks, corpus, frozen,
                 staged, engine, inFlight, cut>>

StartEngine ==
  /\ In("start", "engine")
  /\ engine' = TRUE /\ started' = TRUE
  /\ call' = Rest
  /\ UNCHANGED <<setup, closed, encoder, scaffold, rows, indexReady, chunks, corpus, frozen,
                 staged, inFlight, cut>>

(* Packing, the lookup, the graph or the engine raises; an engine that     *)
(* fails to start closes itself.  A lookup that raises leaves the store    *)
(* packed: it takes no more chunks, and start can be called again.         *)
StartRaises ==
  /\ call.op = "start"
  /\ frozen' \in {frozen, frozen \/ (call.at = "corpus" /\ ~setup.pins)}
  /\ call' = Rest
  /\ UNCHANGED <<setup, closed, started, encoder, scaffold, rows, indexReady, chunks, corpus,
                 staged, engine, inFlight, cut>>

-----------------------------------------------------------------------------
(* answer.                                                                 *)

(* What retrieve may return or a caller keep of it: ids of distinct rows.  *)
HitLists ==
  {[i \in DOMAIN s |-> rows[s[i]]] : s \in {s \in SeqOf(DOMAIN rows, TopK) : IsInjective(s)}}

Answer(hits) ==
  /\ AtRest /\ started /\ ~closed
  /\ call' = [op |-> "answer", at |-> "fetch", ids |-> ReverseRankedIds(hits)]
  /\ UNCHANGED <<setup, closed, started, encoder, scaffold, rows, indexReady, chunks, corpus,
                 frozen, staged, engine, inFlight, cut>>

Stage(ids) == staged' = IF setup.pins THEN staged \cup ids ELSE staged

(* corpus.fetch: every id has KV, and all of it is staged ...              *)
FetchMemoryParts ==
  /\ In("answer", "fetch")
  /\ ToSet(call.ids) \subseteq corpus
  /\ Stage(ToSet(call.ids))
  /\ call' = [call EXCEPT !.at = "compose"]
  /\ UNCHANGED <<setup, closed, started, encoder, scaffold, rows, indexReady, chunks, corpus,
                 frozen, engine, inFlight, cut>>

(* ... or an id has none, or a transfer fails after some were staged.      *)
FetchRaises ==
  /\ In("answer", "fetch")
  /\ \E n \in 0..Len(call.ids) :
       /\ ToSet(call.ids) \subseteq corpus \/ n = 0
       /\ Stage({call.ids[i] : i \in 1..n})
  /\ call' = Rest
  /\ UNCHANGED <<setup, closed, started, encoder, scaffold, rows, indexReady, chunks, corpus,
                 frozen, engine, inFlight, cut>>

(* Composition with the chunks left in the staging pool.                   *)
ComposeKeepingStaged ==
  /\ In("answer", "compose")
  /\ call' \in {[call EXCEPT !.at = "register"], Rest}
  /\ UNCHANGED <<setup, closed, started, encoder, scaffold, rows, indexReady, chunks, corpus,
                 frozen, staged, engine, inFlight, cut>>

(* The query is tokenized, the budget and the alignment checked, the parts *)
(* composed; the staging goes back however that ends.                      *)
ComposeMemory ==
  /\ In("answer", "compose")
  /\ staged' = staged \ ToSet(call.ids)
  /\ call' \in {[call EXCEPT !.at = "register"], Rest}
  /\ UNCHANGED <<setup, closed, started, encoder, scaffold, rows, indexReady, chunks, corpus,
                 frozen, engine, inFlight, cut>>

RegisterMemory ==
  /\ In("answer", "register")
  /\ inFlight' = MemoryParts(call.ids)
  /\ call' = [call EXCEPT !.at = "generate"]
  /\ UNCHANGED <<setup, closed, started, encoder, scaffold, rows, indexReady, chunks, corpus,
                 frozen, staged, engine, cut>>

(* A generation that drops the memory only when it succeeds.               *)
GenerateOrKeep ==
  /\ In("answer", "generate")
  /\ inFlight' \in {NoMemory, inFlight}
  /\ call' = Rest
  /\ UNCHANGED <<setup, closed, started, encoder, scaffold, rows, indexReady, chunks, corpus,
                 frozen, staged, engine, cut>>

(* The engine generates or raises; the memory is dropped either way.       *)
Generate ==
  /\ In("answer", "generate")
  /\ inFlight' = NoMemory
  /\ call' = Rest
  /\ UNCHANGED <<setup, closed, started, encoder, scaffold, rows, indexReady, chunks, corpus,
                 frozen, staged, engine, cut>>

-----------------------------------------------------------------------------
(* tokenizer: the engine's when serving; before that it makes the encoder. *)
Tokenizer ==
  /\ AtRest /\ ~started
  /\ encoder' = EnsuredEncoder
  /\ UNCHANGED <<setup, closed, started, scaffold, rows, indexReady, chunks, corpus, frozen,
                 staged, engine, inFlight, call, cut>>

-----------------------------------------------------------------------------
(* close: marked closed first, then part by part.                          *)

Close ==
  /\ AtRest /\ ~closed
  /\ closed' = TRUE
  /\ inFlight' = NoMemory
  /\ call' = [op |-> "close", at |-> "engine"]
  /\ UNCHANGED <<setup, started, encoder, scaffold, rows, indexReady, chunks, corpus, frozen,
                 staged, engine, cut>>

CloseEngine ==
  /\ In("close", "engine")
  /\ engine' = FALSE
  /\ call' = [call EXCEPT !.at = "encoder"]
  /\ UNCHANGED <<setup, closed, started, encoder, scaffold, rows, indexReady, chunks, corpus,
                 frozen, staged, inFlight, cut>>

CloseEncoder ==
  /\ In("close", "encoder")
  /\ encoder' = "none"
  /\ call' = [call EXCEPT !.at = "corpus"]
  /\ UNCHANGED <<setup, closed, started, scaffold, rows, indexReady, chunks, corpus, frozen,
                 staged, engine, inFlight, cut>>

(* A close that drops the chunks' KV and leaves their staging.             *)
CloseCorpusPayloads ==
  /\ In("close", "corpus")
  /\ corpus' = {} /\ scaffold' = FALSE
  /\ call' = [call EXCEPT !.at = "index"]
  /\ UNCHANGED <<setup, closed, started, encoder, rows, indexReady, chunks, frozen, staged,
                 engine, inFlight, cut>>

(* Every chunk is removed from the store, its staging first.               *)
CloseCorpus ==
  /\ In("close", "corpus")
  /\ corpus' = {} /\ scaffold' = FALSE /\ staged' = staged \ corpus
  /\ call' = [call EXCEPT !.at = "index"]
  /\ UNCHANGED <<setup, closed, started, encoder, rows, indexReady, chunks, frozen, engine,
                 inFlight, cut>>

CloseIndex ==
  /\ In("close", "index")
  /\ indexReady' = FALSE
  /\ call' = Rest
  /\ UNCHANGED <<setup, closed, started, encoder, scaffold, rows, chunks, corpus, frozen,
                 staged, engine, inFlight, cut>>

(* One part fails to close; the facade is closed and stays as it is.       *)
CloseRaises ==
  /\ call.op = "close"
  /\ cut' = cut \cup {"close"}
  /\ call' = Rest
  /\ UNCHANGED <<setup, closed, started, encoder, scaffold, rows, indexReady, chunks, corpus,
                 frozen, staged, engine, inFlight>>

-----------------------------------------------------------------------------
(* Batches of distinct chunks that the index has room for.                 *)
Batches == {s \in SeqOf(ChunkIds, MaxRows) : s # <<>> /\ IsInjective(s)}

Next ==
  \/ \E batch \in Batches : Precompute(batch)
  \/ PlanBatch \/ IndexBatch \/ EncodeChunk \/ PrecomputeRaises
  \/ Start \/ FinalizeCorpus \/ FinalizeIndex \/ StartEngine \/ StartRaises
  \/ \E hits \in HitLists : Answer(hits)
  \/ FetchMemoryParts \/ FetchRaises \/ ComposeMemory \/ RegisterMemory \/ Generate
  \/ Tokenizer
  \/ Close \/ CloseEngine \/ CloseEncoder \/ CloseCorpus \/ CloseIndex \/ CloseRaises

Spec == Init /\ [][Next]_vars

-----------------------------------------------------------------------------
(* Properties.                                                             *)

TypeOK ==
  /\ setup \in Setups
  /\ closed \in BOOLEAN /\ started \in BOOLEAN /\ scaffold \in BOOLEAN
  /\ indexReady \in BOOLEAN /\ frozen \in BOOLEAN /\ engine \in BOOLEAN
  /\ encoder \in {"none", "loaded", "released"}
  /\ rows \in Seq(ChunkIds) /\ Len(rows) <= MaxRows
  /\ chunks \in Seq([id : ChunkIds, context : Seq(ChunkIds)])
  /\ corpus \subseteq ChunkIds /\ staged \subseteq ChunkIds
  /\ inFlight = NoMemory \/ inFlight \in Seq(ChunkIds \cup {Header, Empty, Footer})
  /\ call.op \in {"none", "precompute", "start", "answer", "close"}
  /\ cut \subseteq {"encode", "close"}

(* A chunk the facade knows can be found and can be answered from, and the *)
(* corpus has no other: every known chunk has a row in the index and its   *)
(* KV in the corpus, whichever batch brought it and whatever failed before *)
(* or after.  A facade that counts as started has the rest of what an      *)
(* answer takes: a start that failed part of the way does not.             *)
KnownChunksAreServable ==
  /\ corpus \subseteq ToSet(IdsOf(chunks))
  /\ ~closed => ToSet(IdsOf(chunks)) \subseteq corpus \cap ToSet(rows)
  /\ started /\ ~closed =>
       /\ engine /\ indexReady /\ scaffold /\ chunks # <<>>
       /\ encoder = "released"
       /\ frozen = ~setup.pins

(* Every chunk was encoded after the chunks that come before it in the     *)
(* facade's order and no others, however the caller cut them into batches  *)
(* and whichever batches failed.                                           *)
WindowsFollowChunkOrder ==
  \A i \in DOMAIN chunks :
    chunks[i].context = LastItems(IdsOf(SubSeq(chunks, 1, i - 1)), ContextWindow)

(* The engine generates over a memory of chunks that are in the corpus,    *)
(* each once, and with the staging pool given back; no memory is in the    *)
(* namespace outside a generation, even one that raised.                   *)
MemoryLivesForOneGeneration ==
  IF In("answer", "generate")
  THEN /\ inFlight = MemoryParts(call.ids)
       /\ IsInjective(call.ids) /\ ToSet(call.ids) \subseteq corpus
       /\ staged \cap ToSet(call.ids) = {}
  ELSE inFlight = NoMemory

(* As long as no precompute was cut short after it indexed its batch, the  *)
(* index lists the facade's chunks and nothing else, in their order.       *)
IndexMatchesUnlessCut ==
  "encode" \notin cut /\ (AtRest \/ started) => rows = IdsOf(chunks)

(* The same whatever raised, as the facade's test has it.                  *)
IndexMatchesChunks == AtRest => rows = IdsOf(chunks)

(* A close that ran to its end leaves no engine, no KV, no staging and no  *)
(* index behind.                                                           *)
ClosedHoldsNothing ==
  closed /\ AtRest /\ "close" \notin cut =>
    ~engine /\ corpus = {} /\ ~scaffold /\ staged = {} /\ ~indexReady

(* The facade keeps what MemoryLibrary promises.                           *)
Library == INSTANCE MemoryLibrary WITH
  phase   <- IF closed THEN "closed" ELSE IF started THEN "serving" ELSE "open",
  library <- IdsOf(chunks),
  memory  <- inFlight

KeepsPromise == Library!Spec
=============================================================================
