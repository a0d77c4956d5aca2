--------------------------- MODULE SharedProcess ---------------------------
(***************************************************************************)
(* Facades in one process, each used by a thread of its own, token by      *)
(* token: their chunks are planned, encoded through the process-wide key   *)
(* capture, kept in a corpus each, composed at new positions and handed to *)
(* a connector through the process-wide registry.                          *)
(*                                                                         *)
(* The pre-rotation key of a token in a layer depends on the tokens up to  *)
(* it in its forward pass, so a key row is that prefix and the layer; the  *)
(* composition adds the position it rotates the row to.  Values take the   *)
(* same way without the capture, and are left out.                         *)
(***************************************************************************)
EXTENDS RopeCapture, EncodingPlan, EngineHost, SequencesExt

CONSTANTS
  Catalog,       \* per facade the chunks its caller precomputes, in order
  TokensOf,      \* the tokens of a chunk and of the scaffold's parts
  Header, Empty, Footer,
  Unknown,       \* a row that was captured while passes overlapped
  TopK           \* chunks in one memory

Facades == Threads
Scaffolding == <<Header, Empty, Footer>>

(* A part of the scaffold and a chunk are told apart by their ids.         *)
ASSUME SharedProcessAssumption ==
  /\ Namespaces = Facades /\ IsFiniteSet(Facades)
  /\ IsInjective(Scaffolding)
  /\ \A f \in Facades :
       /\ Catalog[f] \in Seq(ToSet(Catalog[f])) /\ IsInjective(Catalog[f])
       /\ ToSet(Catalog[f]) \cap ToSet(Scaffolding) = {}
       /\ \A id \in ToSet(Catalog[f]) \cup ToSet(Scaffolding) :
            /\ TokensOf[id] \in Seq(ToSet(TokensOf[id]))
            /\ Plannable(TokensOf[id])

VARIABLES
  phase,    \* "open", "serving" or "closed"
  encoder,  \* "none", "loaded", or "released" with its tables only
  scaffold, \* the scaffold's encoded parts, all or none
  chunks,   \* _chunks: the ids in order
  corpus,   \* the chunks' KV in the corpus's store
  bytes,    \* _registered_bytes
  call,     \* what the facade's thread is in
  doubtful  \* history: a capture overlapped, or the store refused a chunk

facadeVars == <<phase, encoder, scaffold, chunks, corpus, bytes, call, doubtful>>
vars == <<ropeVars, hostVars, facadeVars>>

-----------------------------------------------------------------------------
Rest == [op |-> "rest"]
AtRest(f) == call[f] = Rest

LastItems(s, n) == SubSeq(s, IF Len(s) > n THEN Len(s) - n + 1 ELSE 1, Len(s))
TokensIn(ids) == FlattenSeq([i \in DOMAIN ids |-> TokensOf[ids[i]]])

(* _plans_for: one plan per chunk of a batch, the window sliding over what *)
(* is known and over the batch.                                            *)
PlansFor(f, batch) ==
  [i \in DOMAIN batch |->
    BuildEncodingPlan(batch[i], TokensOf[batch[i]],
      TokensIn(LastItems(chunks[f] \o SubSeq(batch, 1, i - 1), ContextWindow)))]

ScaffoldPlans ==
  [i \in DOMAIN Scaffolding |->
    BuildEncodingPlan(Scaffolding[i], TokensOf[Scaffolding[i]], <<>>)]

(* _slice_tokens of a captured key: the span, as far as the key goes.      *)
Slice(key, start, stop) ==
  [i \in 1..((IF stop < Len(key.input) THEN stop ELSE Len(key.input)) - start) |->
    [layer |-> key.layer, seen |-> SubSeq(key.input, 1, start + i)]]

(* The capture saw as many layers as the pass had values, and every key is *)
(* as long as the values it is stacked on.                                 *)
Stackable(keys, plan) ==
  /\ Len(keys) = NumLayers
  /\ \A l \in 1..NumLayers : Len(Slice(keys[l], plan.start, plan.stop)) = Len(plan.target)

(* Nothing is said of the rows of a pass another one overlapped.           *)
Encoded(noted, plan) ==
  [id |-> plan.id, tokens |-> plan.target,
   rows |-> [l \in 1..NumLayers |->
     IF noted.overlapped THEN [i \in DOMAIN plan.target |-> Unknown]
     ELSE Slice(noted.keys[l], plan.start, plan.stop)]]

Nbytes(chunk) == Len(chunk.tokens) * NumLayers

(* _compose_encoded_chunks: the rows of every part, each rotated to the    *)
(* position it has within its part.                                        *)
ComposeInPlace(parts) ==
  [tokens |-> FlattenSeq([p \in DOMAIN parts |-> parts[p].tokens]),
   keys   |-> [l \in 1..NumLayers |->
     FlattenSeq([p \in DOMAIN parts |->
       [i \in DOMAIN parts[p].rows[l] |-> [row |-> parts[p].rows[l][i], at |-> i]]])]]

(* _compose_encoded_chunks: the parts' rows one after the other, rotated   *)
(* to the positions they have then.                                        *)
Compose(parts) ==
  [tokens |-> FlattenSeq([p \in DOMAIN parts |-> parts[p].tokens]),
   keys   |-> [l \in 1..NumLayers |->
     LET rows == FlattenSeq([p \in DOMAIN parts |-> parts[p].rows[l]])
     IN  [i \in DOMAIN rows |-> [row |-> rows[i], at |-> i]]]]

(* memory_parts over the payloads fetched for these ids.                   *)
Stored(f, id) == CHOOSE chunk \in ToSet(corpus[f]) : chunk.id = id
MemoryParts(f, ids) ==
  <<scaffold[f][1]>>
    \o (IF ids = <<>> THEN <<scaffold[f][2]>> ELSE [i \in DOMAIN ids |-> Stored(f, ids[i])])
    \o <<scaffold[f][3]>>

(* The facades are made: each namespace has its store.                     *)
Init ==
  /\ RopeInit /\ HostInit
  /\ phase = [f \in Facades |-> "open"]
  /\ encoder = [f \in Facades |-> "none"]
  /\ scaffold = [f \in Facades |-> <<>>]
  /\ chunks = [f \in Facades |-> <<>>]
  /\ corpus = [f \in Facades |-> <<>>] /\ bytes = [f \in Facades |-> 0]
  /\ call = [f \in Facades |-> Rest]
  /\ doubtful = [f \in Facades |-> {}]

-----------------------------------------------------------------------------
(* precompute of the next chunks of the catalog: the encoder is loaded,    *)
(* its tokenizer through vLLM; the batch is planned, behind the scaffold   *)
(* where there is none yet.                                                *)
Precompute(f, n) ==
  /\ phase[f] = "open" /\ AtRest(f)
  /\ n > 0 /\ Len(chunks[f]) + n <= Len(Catalog[f])
  /\ encoder' = [encoder EXCEPT ![f] = IF @ = "none" THEN "loaded" ELSE @]
  /\ ImportVllm
  /\ LET batch == SubSeq(Catalog[f], Len(chunks[f]) + 1, Len(chunks[f]) + n)
     IN  call' = [call EXCEPT ![f] =
           [op |-> "encode", made |-> <<>>,
            todo |-> (IF scaffold[f] = <<>> THEN ScaffoldPlans ELSE <<>>) \o PlansFor(f, batch)]]
  /\ UNCHANGED <<ropeVars, environ, registry, stores, connector, phase, scaffold, chunks,
                 corpus, bytes, doubtful>>

-----------------------------------------------------------------------------
(* One forward pass: _encode_span and what becomes of its chunk.           *)

Pass(f) == UNCHANGED <<hostVars, facadeVars>>

BeginPass(f) ==
  /\ call[f].op = "encode" /\ encoder[f] = "loaded"
  /\ Look(f, Head(call[f].todo).input)
  /\ Pass(f)

(* An encoder without weights refuses.                                     *)
EncodeRefused(f) ==
  /\ call[f].op = "encode" /\ encoder[f] # "loaded"
  /\ call' = [call EXCEPT ![f] = Rest]
  /\ UNCHANGED <<ropeVars, hostVars, phase, encoder, scaffold, chunks, corpus, bytes, doubtful>>

PassRaises(f) ==
  /\ ImportRaises(f) \/ ForwardRaises(f)
  /\ call' = [call EXCEPT ![f] = Rest]
  /\ UNCHANGED <<hostVars, phase, encoder, scaffold, chunks, corpus, bytes, doubtful>>

Forward(f) == (Patch(f) \/ Rotate(f) \/ Restore(f)) /\ Pass(f)

After(f) ==
  IF Len(call[f].todo) = 1 THEN Rest
  ELSE [call[f] EXCEPT !.todo = Tail(@)]

Doubt(f, stored) ==
  doubtful' = [doubtful EXCEPT ![f] =
    @ \cup (IF capture[f].overlapped THEN {"overlap"} ELSE {})
      \cup (IF stored THEN {} ELSE {"refused"})]

(* A scaffold part is kept with those before it, and set with the last.    *)
KeepPart(f, part) ==
  /\ IF part.id = Footer
     THEN scaffold' = [scaffold EXCEPT ![f] = call[f].made \o <<part>>]
     ELSE UNCHANGED scaffold
  /\ call' = [call EXCEPT ![f] = [After(f) EXCEPT !.made = Append(@, part)]]
  /\ Doubt(f, TRUE)
  /\ UNCHANGED <<chunks, corpus, bytes>>

(* Bound: the store of a facade refuses one chunk.                         *)
RefusalsLeft(f) == IF "refused" \in doubtful[f] THEN {} ELSE {FALSE}

(* An add that measures the chunk after its tensors went to the store.     *)
AddChunkThenMeasure(f, chunk) ==
  \E stored \in {TRUE} \cup RefusalsLeft(f) :
    /\ corpus' = IF stored THEN [corpus EXCEPT ![f] = Append(@, chunk)] ELSE corpus
    /\ chunks' = IF stored THEN [chunks EXCEPT ![f] = Append(@, chunk.id)] ELSE chunks
    /\ call' = [call EXCEPT ![f] = IF stored THEN After(f) ELSE Rest]
    /\ Doubt(f, stored)
    /\ UNCHANGED <<scaffold, bytes>>

(* corpus.add: the chunk is measured and registered, and then known to the *)
(* facade.  The store may refuse it, when it was measured already.         *)
AddChunk(f, chunk) ==
  \E stored \in {TRUE} \cup RefusalsLeft(f) :
    /\ bytes' = [bytes EXCEPT ![f] = @ + Nbytes(chunk)]
    /\ corpus' = IF stored THEN [corpus EXCEPT ![f] = Append(@, chunk)] ELSE corpus
    /\ chunks' = IF stored THEN [chunks EXCEPT ![f] = Append(@, chunk.id)] ELSE chunks
    /\ call' = [call EXCEPT ![f] = IF stored THEN After(f) ELSE Rest]
    /\ Doubt(f, stored)
    /\ UNCHANGED scaffold

(* The keys are taken; a capture that does not fit the pass raises.        *)
EndPass(f) ==
  /\ Collect(f)
  /\ LET plan == Head(call[f].todo)
         keys == capture[f].keys
     IN  IF ~Stackable(keys, plan)
         THEN /\ call' = [call EXCEPT ![f] = Rest]
              /\ UNCHANGED <<scaffold, chunks, corpus, bytes, doubtful>>
         ELSE IF plan.id \in ToSet(Scaffolding)
              THEN KeepPart(f, Encoded(capture[f], plan))
              ELSE AddChunk(f, Encoded(capture[f], plan))
  /\ UNCHANGED <<hostVars, phase, encoder>>

-----------------------------------------------------------------------------
(* start: the weights go, then the engine comes up, or raises.             *)
Start(f) ==
  /\ phase[f] = "open" /\ AtRest(f) /\ chunks[f] # <<>>
  /\ encoder' = [encoder EXCEPT ![f] = "released"]
  /\ \/ StartEngine(f) /\ phase' = [phase EXCEPT ![f] = "serving"]
     \/ EngineFails(f) /\ UNCHANGED phase
  /\ UNCHANGED <<ropeVars, scaffold, chunks, corpus, bytes, call, doubtful>>

Selections(f) == {s \in SeqOf(ToSet(chunks[f]), TopK) : IsInjective(s)}

(* answer up to the composed memory; one that is too long raises.          *)
Answer(f, ids) ==
  /\ phase[f] = "serving" /\ AtRest(f)
  /\ LET memory == Compose(MemoryParts(f, ids))
     IN  /\ Len(memory.tokens) <= MaxPosition
         /\ call' = [call EXCEPT ![f] = [op |-> "register", ids |-> ids, memory |-> memory]]
  /\ UNCHANGED <<ropeVars, hostVars, phase, encoder, scaffold, chunks, corpus, bytes, doubtful>>

Register(f) ==
  /\ call[f].op = "register"
  /\ RegisterMemory(f, call[f].memory)
  /\ call' = [call EXCEPT ![f].op = "generate"]
  /\ UNCHANGED <<ropeVars, phase, encoder, scaffold, chunks, corpus, bytes, doubtful>>

(* The engine generates or raises; the memory is removed either way.       *)
Generate(f) ==
  /\ call[f].op = "generate"
  /\ RemoveMemory(f)
  /\ call' = [call EXCEPT ![f] = Rest]
  /\ UNCHANGED <<ropeVars, phase, encoder, scaffold, chunks, corpus, bytes, doubtful>>

Close(f) ==
  /\ phase[f] \in {"open", "serving"} /\ AtRest(f)
  /\ phase' = [phase EXCEPT ![f] = "closed"]
  /\ CloseHost(f)
  /\ encoder' = [encoder EXCEPT ![f] = "none"]
  /\ corpus' = [corpus EXCEPT ![f] = <<>>] /\ scaffold' = [scaffold EXCEPT ![f] = <<>>]
  /\ bytes' = [bytes EXCEPT ![f] = 0]
  /\ UNCHANGED <<ropeVars, chunks, call, doubtful>>

Next ==
  \E f \in Facades :
    \/ \E n \in 1..Len(Catalog[f]) : Precompute(f, n)
    \/ BeginPass(f) \/ Forward(f) \/ EncodeRefused(f) \/ PassRaises(f) \/ EndPass(f)
    \/ Start(f)
    \/ \E ids \in Selections(f) : Answer(f, ids)
    \/ Register(f) \/ Generate(f) \/ Close(f)

Spec == Init /\ [][Next]_vars

-----------------------------------------------------------------------------
(* Properties.                                                             *)

(* What a part was to be encoded after: nothing for the scaffold; for a    *)
(* chunk the newest tokens, as many as fit before it, of the chunks in the *)
(* window before it.                                                       *)
ContextOf(f, id) ==
  IF id \in ToSet(Scaffolding) THEN <<>>
  ELSE LET at == CHOOSE i \in DOMAIN chunks[f] : chunks[f][i] = id
       IN  LastItems(TokensIn(LastItems(SubSeq(chunks[f], 1, at - 1), ContextWindow)),
                     MaxPosition - Len(TokensOf[id]))

(* Every row of a composed memory is the row of the token the prompt has   *)
(* there: its key was computed by the right layer from the token and its   *)
(* own window, and is rotated to its place in the memory.  This holds for  *)
(* every facade none of whose passes overlapped another one.               *)
RowsAreExact ==
  \A f \in Facades :
    call[f].op \in {"register", "generate"} /\ "overlap" \notin doubtful[f] =>
      LET memory == call[f].memory
          ids    == <<Header>> \o (IF call[f].ids = <<>> THEN <<Empty>> ELSE call[f].ids) \o <<Footer>>
          seen   == FlattenSeq([p \in DOMAIN ids |->
                      [i \in DOMAIN TokensOf[ids[p]] |->
                        ContextOf(f, ids[p]) \o SubSeq(TokensOf[ids[p]], 1, i)]])
      IN  /\ memory.tokens = [i \in DOMAIN seen |-> Last(seen[i])]
          /\ \A l \in 1..NumLayers :
               memory.keys[l] = [i \in DOMAIN seen |->
                 [row |-> [layer |-> l, seen |-> seen[i]], at |-> i]]

(* The rotary function is the family's own again when no pass is running,  *)
(* also after passes that raised, unless captures ever overlapped.         *)
PatchesAreTemporary ==
  (\A f \in Facades : ~Capturing(f)) /\ upsets = 0 => fn = {}

(* The corpus's byte count is that of the KV in its store, every layer of  *)
(* every token, unless the store refused a chunk the corpus had counted.   *)
CorpusCountsWhatItHolds ==
  \A f \in Facades : "refused" \notin doubtful[f] =>
    bytes[f] = NumLayers * Len(FlattenSeq([i \in DOMAIN corpus[f] |-> corpus[f][i].tokens]))

(* A generating engine's connector finds the memory its facade composed,   *)
(* in the store of its facade, and no two facades have a store in common.  *)
ConnectorFindsTheMemory ==
  /\ \A f \in Facades : call[f].op = "generate" =>
       connector[f] # 0 /\ stores[connector[f]] = call[f].memory
  /\ \A f, g \in Facades : f # g /\ connector[f] # 0 => connector[f] # connector[g]
=============================================================================
