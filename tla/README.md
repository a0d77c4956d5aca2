# InferScale in TLA+

InferScale answers questions over a corpus whose KV cache was computed ahead of
time. `precompute` encodes each chunk of text into the key and value tensors a
model would have computed for it; a query retrieves chunks, their KV is
composed into one memory, and a connector inside vLLM writes that memory into
the engine's paged KV cache, in place of a prefill. A mistake anywhere on that
way does not crash: the model answers from the KV of something else. The
specifications here are about that way, from a chunk's registration to the
block a request attends over.

Paths below are relative to the repository; `v1/` is `src/inferscale/v1/`.
`PROJECT.json` maps every definition to the lines it models, and lists the runs,
the mutants that show each property can fail, the findings and the hazards.

## 1. The system

| part | code | state | operations |
|---|---|---|---|
| facade | `v1/api.py` | `_started`, `_closed`, `_encoder`, `_chunks` | `precompute`, `start`, `retrieve`, `answer`, `query`, `tokenizer`, `close` |
| corpus | `v1/kv/corpus.py`, `chunk_store.py` | chunk metadata, scaffold, counters | `add`, `fetch`, `release`, `finalize`, `close` |
| GPU chunk store | `v1/kv/memory_store.py`, `packed_memory_store.py` | memories, token total, slabs, offsets and lengths | add, remove, `finalize_packed`, selections |
| chunk lookup | `v1/kv/chunk_lookup.py`, `chunk_map.py` | snapshot of ids, row maps bound to it | build, bind, resolve, close |
| pinned store | `v1/kv/pinned_memory_store.py`, `staging.py`, `transfer_metrics.py` | host memories, staging slots, transfer records | add, remove, prefetch, get, release, evict |
| namespace registry | `v1/kv/registry.py` | one store per namespace | get, register, remove, clear, drop |
| memory connector | `v1/kv/connector*.py`, `load_stats.py` | pending matches, scheduled loads, load metadata, load statistics | the handlers vLLM calls |
| prompt arithmetic | `v1/kv/prompt.py`, `connector_utils.py` | none | padding, budget, alignment, slot mapping |
| encoder | `v1/kv/encoder.py`, `rope.py`, `plan.py` | model weights, RoPE tables | `encode_plan`, `compose`, `release_model`, `close` |
| vector index | `v1/index/` | rows, vectors, graph, resident matrix | add, finalize, search, update, delete, close |
| serving | `v1/serving/vllm.py` | the engine | `start`, `generate`, `close` |
| retrieval, embedding | `v1/retrieval.py`, `v1/embedding/` | none | `add`, `search` |
| serialization | `v1/kv/serialization.py` | payload files | save beside and rename, load |
| configuration | `v1/config.py`, `v1/types.py` | none | validation |
| benchmarks | `benchmarks/` | on-disk caches, run directories, processes | runners, launcher, judges, reports |

How they meet. The facade owns a corpus, a retriever and an engine. It composes
a memory and registers it in a namespace under one fixed user id; the connector,
which vLLM creates inside the engine, finds the store by the namespace name and
reads the memory by that id. Nothing else passes between the two: the prompt
carries the memory's token ids, and the connector compares them. That the
namespace is found at all depends on a setting of the process, forced before the
engine is made. The encoder gets at the keys it needs by patching a function of
the model's module for the time of a forward pass, which is the process's as well. The connector's
scheduler side and its worker side share dictionaries and call each other only
through vLLM's step.

What is hard about it:

* **One step, many hands.** A match is made when a request is looked at, its
  blocks are allocated later, the metadata is built later still and the KV
  written last; between any two of these the request can be preempted or
  aborted, its memory removed, another request can share its blocks, or the
  step can fail.
* **Blocks are shared by token ids.** vLLM's prefix cache knows a block by the
  tokens before it. Injected KV is found again by requests that have the same
  tokens, including requests of the same step, for which it is not yet written.
* **Caches of caches.** A lookup is a snapshot of ids, a row map is bound to a
  snapshot, a packed slab is a third copy of the order; each must be dropped by
  whatever changes the one below.
* **A pool smaller than the demand.** Staging slots are fewer than loads; the
  window of prefetches slides over them, and an eviction picks a victim outside
  the lock.
* **Two timelines.** The host queues copies, waits and kernels and goes on; what
  it then frees may still be read. Only events and the allocator's records tie
  the two together.
* **One process, several facades.** The rotary function, the namespace registry
  and vLLM's settings are shared by whatever runs in it.
* **Files that outlive the run.** A precompute stage can be killed at any point
  and is rerun over what it left.
* **Calls that stop half-way.** Every call of the facade is a row of steps on
  its parts; an exception leaves what was done before it.

What correct means, part by part: a request attends over exactly its own memory
(connector); a selection is the chunks that were asked for (stores); a staged
copy is of the current payload and its slot comes back (pinned store, window); a
kernel reads the layer it was launched for (staging); every row of a memory was
computed from its token and window and is rotated to its place (encoder); a
loaded chunk is what would be encoded now (chunk files); what the facade knows can be found and answered from, in the same windows
whatever the batching (facade); offsets stay within the tables they index
(prompt arithmetic).

## 2. The modules

```
InjectionLayout            arithmetic of blocks, slots, padding, budget
MemoryServing              abstract: what a connector promises
KVConnector                the connector in its engine      (=> MemoryServing)
  KVConnectorInvariant     its inductive invariant
  KVConnectorProofs        the arithmetic, the connector, the refinement
  MCKVConnector
PackedStore                GPU chunk store, packing, lookup and row maps
  PackedStoreProofs, MCPackedStore
PinnedStore                host memories and staging slots
  MCPinnedStore
StagingWindow              start_load_kv over PinnedStore   (EXTENDS PinnedStore)
  StagingWindowProofs      the pinned store and the window
  MCStagingWindow
LayerStaging               copies, events, kernels and the allocator under a slot
  LayerStagingProofs, MCLayerStaging
EncodingPlan               what goes into one forward pass
RopeCapture                the patched rotary function
EngineHost                 namespace registry, in-process setting, connectors' stores
SharedProcess              facades in one process (EXTENDS the three above)
  MCSharedProcess
ChunkFiles                 precompute, its files, and the stage that loads them
  MCChunkFiles             (EXTENDS EncodingPlan, Filtering)
EncodingProofs             both: SharedProcess and ChunkFiles
MemoryLibrary              abstract: what the facade promises
Facade                     precompute .. close over its parts (=> MemoryLibrary)
  FacadeProofs, MCFacade
VectorTable                abstract: what a vector index promises
VectorIndex                graph and exact index, searches and fallbacks (=> VectorTable)
  VectorIndexProofs, MCVectorIndex
Filtering                  [x for x in s if x in keep]
DataLemmas                 least numbers, recursive functions, flattening, filtering:
                           what the proofs of several components rest on
```

### InjectionLayout
`AlignToBlockSize`, `SlotMapping`, `FooterPadding`, `TokenBudget` and their
companions are the functions of `connector_utils.py` and `prompt.py` as
operators on numbers and sequences. There is no state. `KVConnector` uses them
for its block counts.

### KVConnector
One action per handler and per thing vLLM does between handlers. `Admit` is
`get_num_new_matched_tokens` followed by the allocation (or its failure, after
which the match stays pending) and `update_state_after_alloc`;
`BuildConnectorMeta` is `build_connector_meta` over all loads of the step, and
`BuildRefuses` the errors it raises; `Inject` is one turn of the loop of
`start_load_kv`; `Forward` is the model's pass, in which every block that has
to be computed gets native KV; `RequestFinished`, `Preempt` and `RestartEngine`
close the life of a request, a table and an engine. `Register` and `Remove`
change the namespace under a running engine at any time.

vLLM is external: a request's block table, the prefix cache from chains of
token ids to blocks, allocation that takes blocks nobody uses and files them
under their new keys at once (so that requests of the same step can hit them),
preemption that frees the table, resumption through the scheduler again, and an
engine that can fail at any injection and be built anew with an empty cache.
Nothing in the repository builds an engine anew, the facade only removes the
memory of the failed generation: `RestartEngine` is what a caller would do with
the same namespace, and is declared external.

KV is one value per block. The connector's own lengths are multiples of the
block size (`SlotMapping` is proved injective), which is why a block is fine
enough. Layers are written together: an injection that fails half-way leaves
the engine dead (`phase = "failed"`), so half-written blocks are never attended.

A caller reuses a user id only when no live request depends on the old memory
under it, or when the new memory would be refused by the token comparison; this
is the guard of `Register`, and what the facade does (one request at a time).

### PackedStore
A method's section under the lock is one action. Where a method leaves the lock
and takes it again, or tests before taking it, the action is split and the
thread remembers where it is: `BeginAdd` / `AddUserMemory` (the `_packed` test is
outside the lock), `RemoveUserMemory` / `InvalidatePacked`. A payload is its
sequence of tokens and its KV in a layer one value per token, so that offsets,
lengths and the padded gather of `_PackedSelectionLayerView` are calculated as
in the code. Every allocation of `finalize_packed` may fail. With `Packs = FALSE`
the module is the base `GPUMemoryStore`.

### PinnedStore and StagingWindow
No method of the pinned store holds its lock throughout. Each section is an
action of a thread: read the memory (`Check`), copy it outside the lock
(`Copy`), insert the slot (`PutSlot`), choose a victim (`PickVictim`), release it
(`ReleaseVictim`). `StagingWindow` extends the store and adds the worker's
loop of `start_load_kv`: fill the window, then take, inject, release and slide;
every copy and injection may raise, and `Drain` is the `finally`. A transfer is
one step in both; `LayerStaging` takes it apart.

### LayerStaging
The same transfers from the device's side. A stream is a queue of operations
that `Run` executes in order, and streams run independently: `copy` on the copy
stream, `wait` and `read` on whatever stream the reader is on. `Stage` queues
the copies of `_prefetch_host_memory`, the allocation of any layer failing;
`Access` is `LayerKVView.__getitem__`, which waits and calls `record_stream` once
per view and layer; `Launch` queues the kernel of the layer, for an injection
(which probes the first layer and then passes over layers without a KV cache) or
for a composition of several memories; `Release` takes a slot, by its user or by
an eviction under the reader, after the host waited for the end event.
PyTorch's allocator is external and is taken at its documented word: a freed
block is reusable at once, unless it was recorded on another stream, and then
after an event recorded there at the free (`Drop`, `Reusable`). The copy stream
may thus write into a buffer before the host has any reason to think so, which
is what the invariants are about.

`SwitchStream` is the reader changing streams between memories. It is allowed
only while no staged view has been waited for: a view records its first stream
only, and all readers of the code stay on one stream for a memory.

### SharedProcess and its parts
Each facade has a thread of its own, and the model follows tokens. `EncodingPlan`
is `build_encoding_plan` on sequences. `RopeCapture` is `capture_pre_rope`: `fn` is
the installed rotary function as the set of captures it is wrapped in (the order
of the wrappers changes nothing), `Look` and `Patch` read and replace it, `Rotate`
is a layer that calls it and so appends to every capture in the set, `Restore` and `ForwardRaises` put back what was
read, `ImportRaises` stops between patches. `EngineHost` is what a facade and the
connector in its engine share: registry, stores, the environment variable and
vLLM's copy of it. `SharedProcess` drives them by the facade's calls, from the
plan of a batch to the memory its engine's connector finds.

A key is the tokens of its forward pass up to its own, and its layer; that is
what the model computes it from, so two keys are equal here exactly when the
code has to make them equal. A composed row adds the position it is rotated to.
When forward passes of two facades overlap, what either captures depends on
which patch was installed; the rows are then `Unknown` and nothing is claimed.

Against `Facade`: that module has every point at which a call can raise and the
index; this one has tokens, layers and a second facade, and only the failures
that its properties are about (a forward pass, an import, a store that refuses,
an engine that does not start).

### ChunkFiles
The RAG benchmark's `precompute-kv` stage with the library's
`save_torch_payload` under it, and the answer stage that loads the files into
host memory. A save is three steps: the `.tmp` file is created or cut
(`OpenFile`), filled (`WriteFile`) and renamed (`Replace`); a process has the file
open across another's rename, as POSIX has it. `PrecomputeRag` decides what to encode
by which names exist, as the code does; `Loads` is the check of the header and
the token ids. A process may be killed before any step and run again, two may
run at once, and another tokenizer may be installed between runs. The cache
directory's key (model, dtype, sizes, fingerprint of the texts) is fixed, as a
different key is a different directory; of the payload's identity only the
tokens then vary.


### Facade
Every call is split at each of its parts that can raise, and an exception is an
action that stops the call there. Chunks stand for their ids. `setup`
is chosen with the facade: `exact` for the index that refuses a repeated id
(`MatmulIndex`) or the one that takes it (`JasperIndex`), `pins` for the store with
staging slots or the one that freezes at `start`, also at a `start` that raises
after packing. `cut` remembers that a call was stopped after
it changed a part, so that a property can say "unless".

### VectorIndex
Both indexes in one module; `kind` says which. Rows, ordinals and vectors are
the code's three structures; `resident` stands for the graph and the matrix on
the GPU, which are assigned and dropped together, as a copy of the vectors they
were made from. `Candidates` is the choice between beam and exact scoring,
`AnswerOf` the filtering and cutting after it. Scores are ranks, one for fp32 on
the host and one for the matrix on the GPU, which Jasper keeps in fp16: a search
may order close rows differently on each, and is held to the one it used.

What the graph's search returns is external and arbitrary (`Beams`): in each of
its slots the number of a row, of no row or padding, a row as often as it likes,
with the row's distance or one that is not finite. The code has two ways to look
at that, and each is modelled by its own checks. The host's search reads up to
the first padding, raises on the number of no row, and takes what is long enough
as it came (`BeforePadding`, `IsInRange`, `BeamOrExact`). The device's search asks
for different rows in range with finite distances, and scores exactly otherwise
(`DeviceResultIsComplete`, `CheckedBeamOrExact`); `search_device` checks its
result once more and gives none if it fails. `way` notes which of them an answer
came by, and `VectorTable` promises different rows with their own scores for every
way but the host's beam.

The ordinals are kept as the code keeps them, by a `setdefault` for each new row
on the dict there is, and for each row left on an empty dict after a deletion.

## 3. The runs

| run | instance | asks |
|---|---|---|
| `connector_safety` | 2 requests, 2 users, 2 memories sharing their header, a plain prompt, 5 blocks of 2 tokens, 1 preemption, 1 restart | does every request attend over its own memory, and does the connector implement `MemoryServing` |
| `connector_liveness` | 1 user, memories of one region block and a tail, 3 blocks: two requests fit only if they share, 1 preemption | does every queued request settle; does the invariant of the proofs hold |
| `connector_aliased_tokens` | two memories with equal tokens and different KV | *violation* (section 5) |
| `packed_store` | 1 thread, 3 chunks of 1 or 2 tokens, 2 layers, 1 row map | are selections what was asked for, through packing, failures and removals |
| `pinned_store` | 1 thread, 3 memories, 2 slots, 4 transfers | staged copies, records, capacity |
| `staging_window` | up to 4 loads through 2 slots, shared memories | is the window all that is staged, is it never evicted, and does everything come back |
| `layer_staging` | 2 memories of 2 layers (one without a KV cache), 4 buffers, 2 compute streams, 2 transfers, 2 jobs of up to 2 memories, 2 operations queued per reader | does every kernel read its layer, does nothing wait for ever |
| `shared_process` | 2 facades; 3 chunks of 1, 3 and 2 tokens behind a window of 2, and one chunk; 2 layers, passes of at most 5 tokens, memories of 2 chunks, 1 overlap or failed import, 1 refusal each | are the rows of a memory exact, and does the right engine get it |
| `chunk_files` | 2 processes, 3 chunks and the tables, 2 tokenizers, 2 kills, 2 changes | does a load give what would be encoded, is a finished run enough |
| `facade` | 3 chunks, window of 2, 2 hits, 4 rows; graph index over pinned corpus, exact index over packed corpus | the facade's promises with every step raising |
| `vector_index` | graph and exact index, 3 ids, 3 rows, 2 payloads, 2 vectors that fp16 cannot tell apart, up to 2 hits asked for, any beam | is every answer complete, and scored by the rows it names |
| `facade_orphans` | 2 chunks | *violation* |

**Why the bounds are enough.** Two requests are what it takes to share a block,
to steal one, and to hit a block another request of the step has yet to fill;
five blocks of two tokens let one request hold three and the other be refused,
preempted or admitted by sharing the header. One preemption and one restart are
each a complete cycle back to the initial kind of state; the theorems of section
4 cover every other number. For the stores, payloads of one and of two tokens
make offsets, lengths and padding differ; three chunks let a removal renumber
what comes after it. Two slots under four loads make the window slide twice and
wrap over a shared memory. Four rows for three chunks let a failed batch be
retried on the index that takes it twice. Four buffers for two memories of two
layers are as few as let both be staged, so that a failed or released transfer
leaves buffers the next one takes while something still reads them; a release
under a reader followed by another transfer is the whole of the hazard, and needs
two transfers. In `shared_process` the window of the third chunk is four tokens
with room for three in front of it, so that its oldest token is cut; the second
facade's scaffold has the same tokens as the first's. In `chunk_files` the third
chunk's window is cut inside the first chunk, a change of the tokenizer alters
that chunk, which is context of the others, and two processes
with two kills reach every order of the six steps of two saves.

**Deadlock.** Runs say `CHECK_DEADLOCK FALSE` where the system may stop: all
requests ended and all bounds spent (connector), every row map built and every
chunk removed (packed store), a facade closed, all bounds spent and everything
staged (layer staging, chunk files). The pinned store and the window
always have a step, and deadlock is checked there.

**Fairness.** `EveryRequestSettles` assumes `WF` of the engine's step, because
vLLM's engine loop runs whenever it has requests, and `SF` of each request's
admission and of its end: the scheduler takes the waiting queue in order, so a
request that can be admitted again and again is, and a generation has at most
`max_tokens` tokens. Preemptions are bounded. Nothing is assumed of registration
or removal. `ReadersAndStreamsFinish` assumes `WF` of every stream (the device
executes what is queued), of the reader's next access and launch (it is a loop)
and of its end after the last layer; nobody has to stage, release or read.

## 4. What is proved

By TLAPS, for every value of the constants that the modules' named assumptions
allow. Every invariant the runs check is a theorem, and so are the action
properties and the three refinements: of `MemoryServing`, of `MemoryLibrary` and
of `VectorTable`. Only the two liveness properties are left to TLC.

**Induction over data.** What concatenations, sums and folds over chunks and
layers compute is proved too, where the definition is a recursive function.
`DataLemmas` has the means: `MinIsLeast` and `UpTo` are induction over a set of
numbers, `RecursionExists` shows that the function a definition chooses is one,
and from these come the steps of `FlattenSeq` and of `Filtered`, where an element
of a flattened sequence is found, and that a filter keeps what it should in its
order (`FilteredMembers`). `Filtered` is the model's own, and the code's list
comprehension, because the library's `SelectSeq` is declared recursively and
nothing can be proved about it.

**InjectionLayout.** `SlotMappingInjective`: no two tokens of a load get the
same slot. `BudgetLeavesRoomForAnswer`: a memory within the budget leaves room
for query and answer below both limits. `ChunksAlwaysInjected`: padding the
footer makes the block-aligned prefix end inside it, so the recomputed tail
never reaches a chunk.

**KVConnector.** From `KeyDeterminesKv` (equal token chains stand for equal KV)
the theorem `Invariance` shows `IInv`, and from it `TypeCorrect`,
`EveryRequestAttendsOwnMemory`, `NoStaleLoad` (`NothingLeftBehind`),
`CoverageIsComplete` (`GeneratedIsCovered`), `AttendedBlocksAreLeftAlone`
(`WritesOnlyFreshBlocks`) and `ConnectorImplementsServing`, the refinement of
`MemoryServing`. The assumption is not a convenience: section 5's first finding
is the behaviour without it.

`AttendsOwnMemory` is not inductive: it says nothing of the blocks a request
was handed in this step, which hold old KV although the prefix cache already
files them under the new key. `IInv` adds what happens to those. A block is
*fresh* if a request admitted in this step owns it and has to fill it;
`FreshOwnedOnce` says it has one owner, and that anybody else who has it came by
a prefix hit in the same step; `LoadComing` follows the owed KV through the
three places it is kept (scheduled loads, metadata, the block itself) with the
offsets it must have (`LoadDue`, `MetaDue`); `CacheSound` says that every cached
block that is not fresh holds the KV its key stands for. `Forward`, which ends
the step, turns fresh blocks into sound ones, and that is where the pieces
meet. `PendingOK`, `Routed` and `OfferOK` carry the match across the allocation.

**PackedStore.** `LookupIsAlwaysCurrent` and `AcceptedMapsAreCurrent` hold with any
number of threads, for the base store and the packed one: a lookup numbers the
memories there are, and a bound map names rows of that numbering. The invariant
is those two and that bindings are in range; every action either leaves the ids
alone or closes the lookup in the same section. `PayloadsSurvive` and `TypeCorrect`
hold with any number of threads as well: whatever allocation of a packing fails,
what a chunk is missing is in a slab, at its offset, and is cut out again.

`SelectionsAreExact` (`SelectionGathersRequestedChunks`) assumes that no two threads
call the store. The repository has no second caller, the test on `_packed` is
outside the lock, and with two callers it is false (section 5). A lone caller
that passed the test finds it unchanged at the insertion (`NoAddInFlight`), so
that while the store is packed the
slabs are the concatenation of the chunks in their order (`SlabsMatch`): the
offset of a row is the sum of the lengths in front of it, and a gather through
offsets and lengths gives back the chunk. `ViewFollows` keeps the same for a
selection whose layers are gathered later.

**PinnedStore.** `StoreInv`, for one calling thread, gives `TypeCorrect`,
`StagedCopiesAreCurrent`, `EveryTransferIsRecorded` and `HandedOutIsStaged`. Its
half `PoolInv` says that the slots are a dict of current copies with transfers of
their own; its half `TaskInv` says what the caller may rely on at every point where
it has let go of the lock, and this is the half a second caller breaks: the lock
protects the two dicts and not what was read from them. The single caller is the
facade's or the worker's thread, and no code in the repository gives a store both.

**StagingWindow.** The worker is that one thread by construction. `WindowInv` is
`StoreInv` and that what is staged are loads of the window: with
`staging_capacity` slots and a window no larger, the pool never evicts. From it
`WindowTypeCorrect`, `InjectionIsCurrent` and `PoolHoldsTheWindow`.

**LayerStaging.** `StagingInv` gives `ViewsAreGood` and
`KernelsReadWhatTheyWereGiven`. A layer is held while a slot or a reader has its
transfer, and then until the stream it was recorded on has passed the event of
its release; `HeldInv` says that its buffer belongs to no later transfer until
then, `OrderInv` that copies run in the order of their transfers, so that a copy
abandoned by a failed allocation cannot land after the copy of whoever got the
buffer. `ReadInv` ties the kernels to both: what a queued kernel reads has landed
or is waited for in front of it, and is held until it ran.

**SharedProcess.** `ProcessInv` has three parts. Of the captures (`CaptureInv`):
two open at once know of one another, one that does not has noted exactly the
keys of the layers it ran, and without overlaps the installed function is the
one open capture's wrapper or the family's own; this gives `PatchesComeOff`. Of a
facade (`OwnInv`): its chunks are the first of its catalog, the plans an encode
call has left are those of the parts to come, every part made has the rows of
its tokens behind its window, and the count is that of the corpus; this gives
`CorpusCountIsRight` and, through a composition that flattens the parts and
rotates each row to where it comes to lie, `MemoriesAreExact`. Of the stores
(`StoresKnown`): a facade that is not closed has a store of its own, which its
engine's connector holds; this gives `EnginesFindTheirMemory`. The assumption names
what the program has: texts that `build_encoding_plan` accepts, a catalog without
repeated ids (the facade refuses them), and ids that tell chunks from the parts
of the scaffold, by which alone the model distinguishes them.

**ChunkFiles.** `FilesInv` gives `LoadedIsWhatItWouldEncode` (`ServesWhatItWouldEncode`)
and `FinishedRunIsEnough` (`InterruptAndRerun`), for any corpus, context window,
tokenizers, processes and crashes. A header names the tokens of a chunk and not
those of its context, so that what a load checks is not enough by itself. What
makes it enough is the order of the files: a process goes through what was
missing in the corpus's order (`TodoInv`, from the order a filter keeps), hence no
chunk has a file before the chunks in front of it do, and as long as the tokenizer
changed at most once a file that is not of this tokenizer is of one version
together with all in front of it (`VersionInv`). If such a chunk and everything
in front of it load, the tokens of both versions agree there, and an encode
depends on no others (`EncodeLooksBack`, `LoadedIsOwn`). `OpenInv` says
that what a process is about to rename is this tokenizer's, whoever wrote it: a
change is only made while nothing runs. For the second theorem `CleanInv` says
that, with one process at a time and one tokenizer, what is there is whole and
what the process has before it is exactly what is not (`Sole`). Assumed are the
code's own: the chunk ids are distinct (`chunk_id_for` numbers them) and there is
one (`chunking.py:42` refuses a document without tokens), `build_encoding_plan` accepts every text, and
having no file is not a file.

**Facade.** `FacadeInv` says of each step of each call what the steps before it
have established and what a failure there leaves behind (`BatchInv`, `ChunksInv`,
`ServingInv`, `AnswerInv`, `CloseInv`). From it the type and the five invariants,
and with it `FacadeImplementsLibrary`: every step of the facade is a step of
`MemoryLibrary` under the refinement mapping or leaves its variables alone.

**VectorIndex.** `SearchedMatrixIsCurrent` (`GraphIsCurrent`),
`OrdinalsStayFirst` (`IdsResolveToFirstRow`) and `TypeCorrect`, for any ids, vectors
and number of rows. That the ordinals are the first positions of the ids is by
induction over the rows entered: one `setdefault` behind a table whose ids are at
their first rows leaves them so (`SetDefaultKeepsFirst`), hence a batch of any
length with any ids repeated does (`SetDefaultsKeepFirst`), and the rows left after
a deletion, entered into an empty dict, are back at theirs (`RebuiltAreFirst`). The
invariant adds that there are as many vectors as rows, which is what lets a
finalize of an index that has rows leave a matrix behind.

`IndexKeepsTable` (`KeepsTable`) is that every step of either index is one of
`VectorTable`'s under the refinement mapping, which forgets graph, matrix and
ordinals. Nothing is assumed of the graph: `DeviceFinds` shows that what passes the
device's checks, or comes from the exact search behind them, is rows, different,
with their own scores (`Finds`), `HostFinds` that the host's search has these too
or is a beam long enough of rows in range, which is all the host looks at.
`AnswerIsComplete` then counts what filtering and cutting leave of different rows,
and that they come best first where every row was scored; `BeamAnswerIsComplete`
counts a beam's hits, of which none is filtered out. An addition, an update and a
deletion change the table as they should because a row is known by the first
ordinal of its id (`TableOfConcat`, `TableOfRemoved`).

**Only model-checked.** `EveryRequestSettles` and `ReadersAndStreamsFinish` are
liveness, which the prover cannot show.

## 5. Findings

* `connector_aliased_tokens`. When the prefix cache covers the memory region the
  connector loads nothing and counts the request as covered; the comment calls
  that legitimate. The cache knows token ids only. A chunk encoded behind
  different context chunks (`context_window > 0`) has the same tokens and other
  KV, so a second memory is then served the first one's KV.
* `facade_orphans`. `precompute` indexes the batch before it encodes: a chunk that
  fails leaves rows for chunks that do not exist; the exact index refuses the
  retry, the graph index takes the rows a second time.

Seen while modelling, without a run of their own. Each is a step some model
takes, and the property that would forbid it says "unless":

* `start_load_kv` fills its window before the `try` (`connector.py:300`); when a
  copy fails there, the slots filled so far stay taken until something evicts
  them. `OnlyWindowIsStaged` counts them as `spilled`.
* `tokenizer` has no closed check (`api.py:107`): on a facade closed before it was
  started it loads an encoder that nothing releases.
* `add_user_memory` of the packed store tests `_packed` before it takes the lock.
  With two threads an add can land after packing, and a selection then gathers
  other rows than asked for, although the base class calls itself thread-safe
  (`memory_store.py:34`). Nothing in the repository drives a store from two
  threads.
* The host's beam search looks at the length of what the graph returned and at
  the range of its numbers (`jasper.py:274`, `jasper.py:372`). A row twice or a
  distance that is not finite, which the device's search rejects
  (`jasper.py:400`), stays in the answer, although "retrieval is complete for every
  caller" (`jasper.py:6`): a row twice leaves out another one. Whether the graph
  ever returns such a beam is not to be seen in the repository; `KeepsTable` says
  "unless the host took a beam as it came".
* Two encoders whose forward passes overlap on two threads note their keys in
  one another's captures, and the last to restore can leave the other's dead
  wrapper installed (`rope.py:58`). The encoder does not notice as long as the
  number of keys is right.
* An exception other than `ImportError` while a later model family is imported
  leaves the earlier families patched: the `try` starts after the loop
  (`rope.py:65`).
* A chunk the store refuses stays counted in `corpus.stats()` (`corpus.py:49`).
* `fetch_chunks` asks callers to release "once the composition kernels have been
  synchronized" (`chunk_store.py:81`); `answer` releases without. `LayerStaging`
  shows this to be harmless: `record_stream` is what the safety rests on.
* Two precompute processes over one directory share `.tmp` names: one can be left
  with nothing to rename and end with an exception, or be killed and leave the
  other's half-written file under the final name. Such a file does not load, so
  no wrong content is served, but the answer stage is refused.
* The precompute stage takes an existing file as done, valid or not
  (`kv_cache.py:125`): when the answer stage finds a chunk stale and says to run
  `precompute-kv`, running it changes nothing until the file is deleted.
* A chunk's header and tokens do not cover the context it was encoded after.
  After two changes of the tokenizer a chunk with unchanged tokens can be loaded
  with another version's context, although the module says a stale cache "can
  never silently inject wrong content" (`kv_cache.py:12`).

## 6. What is not modelled

* Tensors: dtypes, shapes, the arithmetic of RoPE and attention, the scatter
  kernels. KV is an opaque value per block, chunk or token, or the prefix it was
  computed from.
* vLLM itself beyond what the connector relies on; tensor parallel workers (the
  engine is in-process); its command line's environment variables, which are
  cleared on the way, and the first-token time.
* Texts, chat templates and tokenizers; embeddings and distances beyond order.
* Configuration validation: frozen data, no steps.
* File systems that reorder writes: a power loss between a write and a rename
  (nothing is synced); two chunk ids that `safe_path_part` maps to one name.
* The other benchmarks: see the plan.
* Counters of reports (transfer percentiles, `get_stats`).

## 7. Plan

Done, in this order: the connector with its arithmetic, invariant and proofs;
the packed store and its proofs; the pinned store; the window; the facade; the
vector indexes; the staging of layers; the encoder, its plans and the process
facades share; the chunk files. Every invariant, action property and refinement
of these is proved.

Next, in the model:

1. Benchmark runs: resume after a crash, the pre-embedding pool, the throughput
   worker's phases over the stores, the launcher's processes.
2. `Facade` over `PinnedStore`, with the slots an answer takes and returns.
