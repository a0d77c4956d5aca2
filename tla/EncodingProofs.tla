--------------------------- MODULE EncodingProofs ---------------------------
(***************************************************************************)
(* Proofs about what is encoded by the plans of EncodingPlan.              *)
(*                                                                         *)
(* SharedProcess: that a memory's rows are those of its tokens, windows    *)
(* and places, that the rotary function comes back, what the corpus        *)
(* counts, and that every engine finds its facade's memory, for any number *)
(* of facades, chunks, tokens and layers.                                  *)
(*                                                                         *)
(* ChunkFiles: that what is loaded is what would be encoded, and that a    *)
(* finished run is enough, for any corpus, any number of processes and any *)
(* number of crashes.                                                      *)
(***************************************************************************)
EXTENDS SharedProcess, ChunkFiles, DataLemmas, FunctionTheorems

(* What the tokens and the ids of the chunks and of the scaffold's parts are. *)
Ids == ToSet(Scaffolding) \cup UNION {ToSet(Catalog[f]) : f \in Facades}
Texts == Seq(UNION {ToSet(TokensOf[id]) : id \in Ids})
Keys == [input : Texts, layer : 1..NumLayers]
Rows == {Unknown} \cup [layer : 1..NumLayers, seen : Texts]
Parts == [id : Ids, tokens : Texts, rows : [1..NumLayers -> Seq(Rows)]]

(* What a part of facade f is encoded after, by the catalog alone.         *)
Place(f, id) == CHOOSE i \in DOMAIN Catalog[f] : Catalog[f][i] = id
Window(f, i) == TokensIn(LastItems(SubSeq(Catalog[f], 1, i - 1), ContextWindow))
Context(f, id) ==
  IF id \in ToSet(Scaffolding) THEN <<>>
  ELSE LastItems(Window(f, Place(f, id)), MaxPosition - Len(TokensOf[id]))

PlanAfter(kept, id, target) ==
  [id |-> id, target |-> target, input |-> kept \o target,
   start |-> Len(kept), stop |-> Len(kept) + Len(target)]
PlanOf(f, id) == PlanAfter(Context(f, id), id, TokensOf[id])

Row(f, id, l, i) == [layer |-> l, seen |-> Context(f, id) \o SubSeq(TokensOf[id], 1, i)]
Exact(f, id) ==
  [id |-> id, tokens |-> TokensOf[id],
   rows |-> [l \in 1..NumLayers |-> [i \in DOMAIN TokensOf[id] |-> Row(f, id, l, i)]]]

(* A part that was encoded for id, and its rows when no pass overlapped.   *)
IsPart(f, part, id) ==
  /\ part \in Parts /\ part.id = id /\ part.tokens = TokensOf[id]
  /\ "overlap" \notin doubtful[f] => part = Exact(f, id)

(* The parts of the scaffold that are made, and what is encoded i-th now.  *)
Made(f) == IF scaffold[f] = <<>> THEN Len(call[f].made) ELSE 3
PartToCome(f, k, m, i) ==
  IF i <= 3 - m THEN Scaffolding[m + i] ELSE Catalog[f][k + i - (3 - m)]
Upcoming(f, i) == PartToCome(f, Len(chunks[f]), Made(f), i)
IsWork(f, k, m, todo) ==
  todo = [i \in 1..Len(todo) |-> PlanOf(f, PartToCome(f, k, m, i))]

-----------------------------------------------------------------------------
(* The captures.                                                           *)
Captures ==
  [at : {"none", "looked", "patched", "restored"}, original : SUBSET (Threads \cup {Dead}),
   keys : Seq(Keys), input : Texts, ran : 0..NumLayers, overlapped : BOOLEAN]

CaptureTyped ==
  /\ fn \in SUBSET (Threads \cup {Dead})
  /\ capture \in [Threads -> Captures]
  /\ upsets \in Nat

(* Two captures at a time know of one another.                             *)
OverlapKnown ==
  \A t, u \in Threads : t # u /\ Capturing(t) /\ Capturing(u) => capture[t].overlapped

(* A pass nothing overlapped has noted the keys of the layers it ran.      *)
KeysOwn ==
  \A t \in Threads : Capturing(t) /\ ~capture[t].overlapped =>
    /\ capture[t].keys =
         [i \in 1..capture[t].ran |-> [input |-> capture[t].input, layer |-> i]]
    /\ capture[t].at = "looked" => capture[t].ran = 0
    /\ capture[t].at = "patched" => t \in fn
    /\ capture[t].at = "restored" => capture[t].ran = NumLayers

(* Without overlaps one capture wraps the family's own function.           *)
PatchKnown ==
  upsets = 0 =>
    /\ \A t, u \in Threads : Capturing(t) /\ Capturing(u) => t = u
    /\ \A t \in Threads : Capturing(t) => capture[t].original = {}
    /\ fn = {t \in Threads : capture[t].at = "patched"}

CaptureInv == CaptureTyped /\ OverlapKnown /\ KeysOwn /\ PatchKnown

-----------------------------------------------------------------------------
(* The facades.                                                            *)
FacadeTyped ==
  /\ phase \in [Facades -> {"open", "serving", "closed"}]
  /\ encoder \in [Facades -> {"none", "loaded", "released"}]
  /\ scaffold \in [Facades -> Seq(Parts)]
  /\ chunks \in [Facades -> Seq(Ids)]
  /\ corpus \in [Facades -> Seq(Parts)]
  /\ bytes \in [Facades -> Nat]
  /\ doubtful \in [Facades -> SUBSET {"overlap", "refused"}]
  /\ DOMAIN call = Facades

CallTyped(f) ==
  \/ call[f] = Rest
  \/ /\ call[f].op = "encode"
     /\ call[f] = [op |-> "encode", made |-> call[f].made, todo |-> call[f].todo]
     /\ call[f].made \in Seq(Parts)
     /\ phase[f] = "open"
  \/ /\ call[f].op \in {"register", "generate"}
     /\ call[f] = [op |-> call[f].op, ids |-> call[f].ids, memory |-> call[f].memory]
     /\ phase[f] = "serving"

(* The chunks a facade knows are the first of its catalog, and none are    *)
(* there before the scaffold is.                                           *)
ChunksKnown(f) ==
  /\ Len(chunks[f]) <= Len(Catalog[f])
  /\ chunks[f] = SubSeq(Catalog[f], 1, Len(chunks[f]))
  /\ chunks[f] # <<>> /\ phase[f] # "closed" => scaffold[f] # <<>>
  /\ phase[f] = "serving" => scaffold[f] # <<>>

PartsKnown(f) ==
  /\ scaffold[f] # <<>> => Len(scaffold[f]) = 3
  /\ \A j \in 1..Len(scaffold[f]) : IsPart(f, scaffold[f][j], Scaffolding[j])
  /\ phase[f] # "closed" => Len(corpus[f]) = Len(chunks[f])
  /\ Len(corpus[f]) <= Len(chunks[f])
  /\ \A i \in 1..Len(corpus[f]) : IsPart(f, corpus[f][i], Catalog[f][i])

(* The plans an encode call still has are those of the parts to come, in   *)
(* order, and the parts it made are the scaffold's first.                  *)
WorkKnown(f) ==
  call[f].op = "encode" =>
    /\ scaffold[f] = <<>> =>
         /\ Len(call[f].made) < 3
         /\ \A j \in 1..Len(call[f].made) : IsPart(f, call[f].made[j], Scaffolding[j])
    /\ IsWork(f, Len(chunks[f]), Made(f), call[f].todo)
    /\ Len(call[f].todo) \in 4 - Made(f)..3 - Made(f) + Len(Catalog[f]) - Len(chunks[f])

(* A pass is one of an encode call, over the input of its first plan.      *)
PassKnown(f) ==
  Capturing(f) =>
    /\ call[f].op = "encode" /\ encoder[f] = "loaded"
    /\ capture[f].input = PlanOf(f, Upcoming(f, 1)).input

(* CorpusCountsWhatItHolds and RowsAreExact, of one facade; the latter by  *)
(* the catalog alone.                                                      *)
TokensHeld(f) == [i \in DOMAIN corpus[f] |-> corpus[f][i].tokens]
BytesKnown(f) ==
  "refused" \notin doubtful[f] => bytes[f] = NumLayers * Len(FlattenSeq(TokensHeld(f)))

MemoryIds(ids) == <<Header>> \o (IF ids = <<>> THEN <<Empty>> ELSE ids) \o <<Footer>>
Seen(f, ids) ==
  [p \in DOMAIN ids |->
    [i \in DOMAIN TokensOf[ids[p]] |-> Context(f, ids[p]) \o SubSeq(TokensOf[ids[p]], 1, i)]]
HasTheRowsOf(memory, seen) ==
  /\ memory.tokens = [i \in DOMAIN seen |-> Last(seen[i])]
  /\ \A l \in 1..NumLayers :
       memory.keys[l] = [i \in DOMAIN seen |->
         [row |-> [layer |-> l, seen |-> seen[i]], at |-> i]]
RowsKnown(f) ==
  call[f].op \in {"register", "generate"} =>
    /\ call[f].ids \in Seq(ToSet(chunks[f]))
    /\ "overlap" \notin doubtful[f] =>
         HasTheRowsOf(call[f].memory, FlattenSeq(Seen(f, MemoryIds(call[f].ids))))

OwnInv(f) ==
  /\ CallTyped(f) /\ ChunksKnown(f) /\ PartsKnown(f) /\ WorkKnown(f) /\ PassKnown(f)
  /\ BytesKnown(f) /\ RowsKnown(f)

(* Every facade that is not closed has a store of its own, which is the one *)
(* its engine holds and has the memory a generating engine was promised.   *)
StoresKnown ==
  /\ registry \in [Namespaces -> 0..Cardinality(Namespaces)]
  /\ connector \in [Namespaces -> 0..Cardinality(Namespaces)]
  /\ DOMAIN stores = 1..Cardinality(Namespaces)
  /\ \A f \in Facades : phase[f] # "closed" => registry[f] # 0
  /\ \A f, g \in Facades : f # g /\ registry[f] # 0 => registry[f] # registry[g]
  /\ \A f \in Facades : connector[f] \in {0, registry[f]}
  /\ \A f \in Facades : phase[f] = "serving" => connector[f] = registry[f]
  /\ \A f \in Facades : call[f].op = "generate" => stores[registry[f]] = call[f].memory

ProcessInv == CaptureInv /\ FacadeTyped /\ (\A f \in Facades : OwnInv(f)) /\ StoresKnown

-----------------------------------------------------------------------------
(* The captures, as the steps of SharedProcess call them.                  *)

LEMMA FewLayers == NumLayers \in Nat /\ NumLayers > 0 /\ Dead \notin Threads
BY RopeCaptureAssumption

LEMMA CaptureFields ==
  ASSUME CaptureInv, NEW t \in Threads
  PROVE  /\ capture[t].at \in {"none", "looked", "patched", "restored"}
         /\ capture[t].original \in SUBSET (Threads \cup {Dead})
         /\ capture[t].keys \in Seq(Keys) /\ capture[t].input \in Texts
         /\ capture[t].ran \in 0..NumLayers /\ capture[t].overlapped \in BOOLEAN
<1>1. capture[t] \in Captures
  BY DEF CaptureInv, CaptureTyped
<1>2. QED
  BY <1>1 DEF Captures

LEMMA NoCaptureIsTyped == NoCapture \in Captures
<1>1. <<>> \in Seq(Keys) /\ <<>> \in Texts
  BY DEF Texts
<1>2. 0 \in 0..NumLayers
  BY FewLayers
<1>3. QED
  BY <1>1, <1>2 DEF NoCapture, Captures

(* A capture that ends leaves the others as they are, wrapped around less. *)
LEMMA EndCaptureKeeps ==
  ASSUME CaptureInv, NEW t \in Threads, Capturing(t), NEW w \in SUBSET (Threads \cup {Dead}),
         EndCapture(t, w), upsets' \in Nat, upsets' = 0 => upsets = 0 /\ w = {}
  PROVE  CaptureInv'
<1>1. Bury(w, t) \in SUBSET (Threads \cup {Dead}) /\ (w = {} => Bury(w, t) = {})
  BY DEF Bury
<1>2. /\ fn' = Bury(w, t) /\ DOMAIN capture' = Threads
      /\ capture'[t] = NoCapture
      /\ \A u \in Threads \ {t} :
           capture'[u] = [capture[u] EXCEPT !.original = Bury(capture[u].original, t)]
  BY DEF EndCapture
<1>3. ASSUME NEW u \in Threads \ {t}
      PROVE  /\ capture'[u] \in Captures
             /\ capture'[u].at = capture[u].at /\ capture'[u].overlapped = capture[u].overlapped
  <2>1. capture[u] \in Captures
    BY DEF CaptureInv, CaptureTyped
  <2>2. Bury(capture[u].original, t) \in SUBSET (Threads \cup {Dead})
    BY <2>1 DEF Bury, Captures
  <2>3. QED
    BY <1>2, <2>1, <2>2 DEF Captures
<1>4. CaptureTyped'
  <2>1. capture' = [u \in Threads |-> capture'[u]]
    BY DEF EndCapture
  <2>2. \A u \in Threads : capture'[u] \in Captures
    BY <1>2, <1>3, NoCaptureIsTyped
  <2>3. capture' \in [Threads -> Captures]
    BY <2>1, <2>2
  <2>4. QED
    BY <1>1, <1>2, <2>3 DEF CaptureTyped
<1>5. ~Capturing(t)'
  BY <1>2 DEF Capturing, NoCapture
<1>6. OverlapKnown'
  BY <1>3, <1>5 DEF CaptureInv, OverlapKnown, Capturing
<1>7. KeysOwn'
  <2>1. ASSUME NEW u \in Threads, Capturing(u)' PROVE capture'[u].overlapped
    BY <1>3, <1>5, <2>1 DEF CaptureInv, OverlapKnown, Capturing
  <2>2. QED
    BY <2>1 DEF KeysOwn
<1>8. PatchKnown'
  <2> SUFFICES ASSUME upsets' = 0
               PROVE  (\A u \in Threads : ~Capturing(u)') /\ fn' = {}
    BY DEF PatchKnown, Capturing
  <2>1. \A u \in Threads : Capturing(u) => u = t
    BY DEF CaptureInv, PatchKnown
  <2>2. \A u \in Threads : ~Capturing(u)'
    BY <1>3, <1>5, <2>1 DEF Capturing
  <2>3. QED
    BY <1>1, <1>2, <2>2
<1>9. QED
  BY <1>4, <1>6, <1>7, <1>8 DEF CaptureInv

LEMMA LookKeeps ==
  ASSUME CaptureInv, NEW t \in Threads, NEW input \in Texts, Look(t, input)
  PROVE  CaptureInv'
<1> DEFINE others == {u \in Threads \ {t} : Capturing(u)}
<1>1. ~Capturing(t) /\ fn' = fn /\ DOMAIN capture' = Threads
  BY DEF Look
<1>2. capture'[t] = [NoCapture EXCEPT !.at = "looked", !.original = fn, !.input = input,
                                      !.overlapped = others # {}]
  BY DEF Look
<1>3. \A u \in Threads \ {t} :
        capture'[u] = [capture[u] EXCEPT !.overlapped = capture[u].overlapped \/ u \in others]
  BY DEF Look
<1>4. upsets' = (IF others = {} THEN upsets ELSE upsets + 1)
  BY DEF Look
<1>5. capture' = [u \in Threads |-> capture'[u]]
  BY DEF Look
<1>6. /\ capture'[t] \in Captures
      /\ capture'[t].at = "looked" /\ capture'[t].keys = <<>> /\ capture'[t].ran = 0
      /\ capture'[t].original = fn /\ capture'[t].overlapped = (others # {})
  <2>1. fn \in SUBSET (Threads \cup {Dead}) /\ (others # {}) \in BOOLEAN
    BY DEF CaptureInv, CaptureTyped
  <2> HIDE DEF others
  <2>2. QED
    BY <1>2, <2>1, NoCaptureIsTyped DEF NoCapture, Captures
<1>7. ASSUME NEW u \in Threads \ {t}
      PROVE  /\ capture'[u] \in Captures
             /\ capture'[u].at = capture[u].at /\ capture'[u].keys = capture[u].keys
             /\ capture'[u].ran = capture[u].ran /\ capture'[u].input = capture[u].input
             /\ capture'[u].original = capture[u].original
             /\ capture'[u].overlapped = (capture[u].overlapped \/ u \in others)
  <2>1. capture[u] \in Captures /\ (capture[u].overlapped \/ u \in others) \in BOOLEAN
    BY DEF CaptureInv, CaptureTyped, Captures
  <2> HIDE DEF others
  <2>2. QED
    BY <1>3, <2>1 DEF Captures
<1>8. CaptureTyped'
  <2>1. \A u \in Threads : capture'[u] \in Captures
    BY <1>6, <1>7
  <2>2. capture' \in [Threads -> Captures]
    BY <1>5, <2>1
  <2>3. upsets' \in Nat
    BY <1>4 DEF CaptureInv, CaptureTyped
  <2>4. QED
    BY <1>1, <2>2, <2>3 DEF CaptureInv, CaptureTyped
<1>9. \A u \in Threads \ {t} : Capturing(u)' <=> u \in others
  BY <1>7 DEF Capturing
<1>10. OverlapKnown'
  <2> SUFFICES ASSUME NEW x \in Threads, NEW u \in Threads, x # u, Capturing(x)', Capturing(u)'
               PROVE  capture'[x].overlapped
    BY DEF OverlapKnown, Capturing
  <2>1. CASE x = t
    <3>1. u \in others
      BY <1>9, <2>1
    <3> HIDE DEF others
    <3>2. QED
      BY <1>6, <2>1, <3>1
  <2>2. CASE x # t
    <3>1. x \in others
      BY <1>9, <2>2
    <3> HIDE DEF others
    <3>2. QED
      BY <1>7, <2>2, <3>1
  <2>3. QED
    BY <2>1, <2>2
<1>11. KeysOwn'
  <2> SUFFICES ASSUME NEW u \in Threads, Capturing(u)', ~capture'[u].overlapped
               PROVE  /\ capture'[u].keys =
                           [i \in 1..capture'[u].ran |-> [input |-> capture'[u].input, layer |-> i]]
                      /\ capture'[u].at = "looked" => capture'[u].ran = 0
                      /\ capture'[u].at = "patched" => u \in fn'
                      /\ capture'[u].at = "restored" => capture'[u].ran = NumLayers
    BY DEF KeysOwn, Capturing
  <2>1. u = t
    BY <1>7, <1>9
  <2>2. QED
    BY <1>6, <2>1
<1>12. PatchKnown'
  <2> SUFFICES ASSUME upsets' = 0
               PROVE  /\ \A x, u \in Threads : Capturing(x)' /\ Capturing(u)' => x = u
                      /\ \A u \in Threads : Capturing(u)' => capture'[u].original = {}
                      /\ fn' = {u \in Threads : capture'[u].at = "patched"}
    BY DEF PatchKnown, Capturing
  <2>1. upsets \in Nat
    BY DEF CaptureInv, CaptureTyped
  <2>2. others = {} /\ upsets = 0
    <3> HIDE DEF others
    <3>1. QED
      BY <1>4, <2>1
  <2>3. \A u \in Threads : ~Capturing(u)
    BY <1>1, <2>2
  <2>4. fn = {}
    BY <2>2, <2>3 DEF CaptureInv, PatchKnown, Capturing
  <2>5. \A u \in Threads : Capturing(u)' => u = t
    BY <1>9, <2>2
  <2>6. \A u \in Threads : capture'[u].at # "patched"
    BY <1>6, <1>7, <2>3 DEF Capturing
  <2>7. QED
    BY <1>1, <1>6, <2>4, <2>5, <2>6
<1>13. QED
  BY <1>8, <1>10, <1>11, <1>12 DEF CaptureInv

LEMMA PatchKeeps ==
  ASSUME CaptureInv, NEW t \in Threads, Patch(t)
  PROVE  CaptureInv'
<1>1. /\ capture[t].at = "looked" /\ fn' = {t} \cup capture[t].original /\ upsets' = upsets
      /\ capture' = [capture EXCEPT ![t].at = "patched"]
  BY DEF Patch
<1>2. capture \in [Threads -> Captures] /\ capture[t] \in Captures
  BY DEF CaptureInv, CaptureTyped
<1>3. \A u \in Threads \ {t} : capture'[u] = capture[u]
  BY <1>1, <1>2
<1>4. capture'[t] = [capture[t] EXCEPT !.at = "patched"]
  BY <1>1, <1>2
<1>5. /\ capture'[t] \in Captures
      /\ capture'[t].at = "patched" /\ capture'[t].keys = capture[t].keys
      /\ capture'[t].ran = capture[t].ran /\ capture'[t].input = capture[t].input
      /\ capture'[t].original = capture[t].original
      /\ capture'[t].overlapped = capture[t].overlapped
  BY <1>2, <1>4 DEF Captures
<1>6. CaptureTyped'
  <2>1. capture' \in [Threads -> Captures]
    BY <1>1, <1>2, <1>5
  <2>2. capture[t].original \in SUBSET (Threads \cup {Dead})
    BY CaptureFields
  <2>3. QED
    BY <1>1, <2>1, <2>2 DEF CaptureInv, CaptureTyped
<1>7. Capturing(t) /\ \A u \in Threads : Capturing(u)' <=> Capturing(u)
  BY <1>1, <1>3, <1>5 DEF Capturing
<1>8. OverlapKnown'
  BY <1>3, <1>5, <1>7 DEF CaptureInv, OverlapKnown, Capturing
<1>9. KeysOwn'
  <2> SUFFICES ASSUME NEW u \in Threads, Capturing(u)', ~capture'[u].overlapped
               PROVE  /\ capture'[u].keys =
                           [i \in 1..capture'[u].ran |-> [input |-> capture'[u].input, layer |-> i]]
                      /\ capture'[u].at = "looked" => capture'[u].ran = 0
                      /\ capture'[u].at = "patched" => u \in fn'
                      /\ capture'[u].at = "restored" => capture'[u].ran = NumLayers
    BY DEF KeysOwn, Capturing
  <2>1. u = t
    BY <1>3, <1>7 DEF CaptureInv, OverlapKnown
  <2>2. capture[t].keys = [i \in 1..capture[t].ran |-> [input |-> capture[t].input, layer |-> i]]
    BY <1>5, <1>7, <2>1 DEF CaptureInv, KeysOwn
  <2>3. QED
    BY <1>1, <1>5, <2>1, <2>2
<1>10. PatchKnown'
  <2> SUFFICES ASSUME upsets = 0
               PROVE  /\ \A x, u \in Threads : Capturing(x)' /\ Capturing(u)' => x = u
                      /\ \A u \in Threads : Capturing(u)' => capture'[u].original = {}
                      /\ fn' = {u \in Threads : capture'[u].at = "patched"}
    BY <1>1 DEF PatchKnown, Capturing
  <2>1. /\ \A x, u \in Threads : Capturing(x) /\ Capturing(u) => x = u
        /\ \A u \in Threads : Capturing(u) => capture[u].original = {}
    BY DEF CaptureInv, PatchKnown
  <2>2. \A u \in Threads \ {t} : ~Capturing(u)
    BY <1>7, <2>1
  <2>3. \A u \in Threads : capture'[u].at = "patched" <=> u = t
    BY <1>3, <1>5, <2>2 DEF Capturing
  <2>4. fn' = {t}
    BY <1>1, <1>7, <2>1
  <2>5. fn' = {u \in Threads : capture'[u].at = "patched"}
    BY <2>3, <2>4
  <2>6. \A u \in Threads : Capturing(u)' => capture'[u].original = {}
    BY <1>5, <1>7, <2>1, <2>2
  <2>7. QED
    BY <1>7, <2>1, <2>5, <2>6
<1>11. QED
  BY <1>6, <1>8, <1>9, <1>10 DEF CaptureInv

LEMMA RestoreKeeps ==
  ASSUME CaptureInv, NEW t \in Threads, Restore(t)
  PROVE  CaptureInv'
<1>1. /\ capture[t].at = "patched" /\ fn' = capture[t].original /\ upsets' = upsets
      /\ capture[t].ran = NumLayers
      /\ capture' = [capture EXCEPT ![t].at = "restored"]
  BY DEF Restore
<1>2. capture \in [Threads -> Captures] /\ capture[t] \in Captures
  BY DEF CaptureInv, CaptureTyped
<1>3. \A u \in Threads \ {t} : capture'[u] = capture[u]
  BY <1>1, <1>2
<1>4. capture'[t] = [capture[t] EXCEPT !.at = "restored"]
  BY <1>1, <1>2
<1>5. /\ capture'[t] \in Captures
      /\ capture'[t].at = "restored" /\ capture'[t].keys = capture[t].keys
      /\ capture'[t].ran = capture[t].ran /\ capture'[t].input = capture[t].input
      /\ capture'[t].original = capture[t].original
      /\ capture'[t].overlapped = capture[t].overlapped
  BY <1>2, <1>4 DEF Captures
<1>6. CaptureTyped'
  <2>1. capture' \in [Threads -> Captures]
    BY <1>1, <1>2, <1>5
  <2>2. capture[t].original \in SUBSET (Threads \cup {Dead})
    BY CaptureFields
  <2>3. QED
    BY <1>1, <2>1, <2>2 DEF CaptureInv, CaptureTyped
<1>7. Capturing(t) /\ \A u \in Threads : Capturing(u)' <=> Capturing(u)
  BY <1>1, <1>3, <1>5 DEF Capturing
<1>8. OverlapKnown'
  BY <1>3, <1>5, <1>7 DEF CaptureInv, OverlapKnown, Capturing
<1>9. KeysOwn'
  <2> SUFFICES ASSUME NEW u \in Threads, Capturing(u)', ~capture'[u].overlapped
               PROVE  /\ capture'[u].keys =
                           [i \in 1..capture'[u].ran |-> [input |-> capture'[u].input, layer |-> i]]
                      /\ capture'[u].at = "looked" => capture'[u].ran = 0
                      /\ capture'[u].at = "patched" => u \in fn'
                      /\ capture'[u].at = "restored" => capture'[u].ran = NumLayers
    BY DEF KeysOwn, Capturing
  <2>1. u = t
    BY <1>3, <1>7 DEF CaptureInv, OverlapKnown
  <2>2. capture[t].keys = [i \in 1..capture[t].ran |-> [input |-> capture[t].input, layer |-> i]]
    BY <1>5, <1>7, <2>1 DEF CaptureInv, KeysOwn
  <2>3. capture'[u].keys =
          [i \in 1..capture'[u].ran |-> [input |-> capture'[u].input, layer |-> i]]
    BY <1>5, <2>1, <2>2
  <2>4. QED
    BY <1>1, <1>5, <2>1, <2>3
<1>10. PatchKnown'
  <2> SUFFICES ASSUME upsets = 0
               PROVE  /\ \A x, u \in Threads : Capturing(x)' /\ Capturing(u)' => x = u
                      /\ \A u \in Threads : Capturing(u)' => capture'[u].original = {}
                      /\ fn' = {u \in Threads : capture'[u].at = "patched"}
    BY <1>1 DEF PatchKnown, Capturing
  <2>1. /\ \A x, u \in Threads : Capturing(x) /\ Capturing(u) => x = u
        /\ \A u \in Threads : Capturing(u) => capture[u].original = {}
    BY DEF CaptureInv, PatchKnown
  <2>2. \A u \in Threads \ {t} : ~Capturing(u)
    BY <1>7, <2>1
  <2>3. \A u \in Threads : capture'[u].at # "patched"
    BY <1>3, <1>5, <2>2 DEF Capturing
  <2>4. fn' = {}
    BY <1>1, <1>7, <2>1
  <2>5. \A u \in Threads : Capturing(u)' => capture'[u].original = {}
    BY <1>5, <1>7, <2>1, <2>2
  <2>6. QED
    BY <1>7, <2>1, <2>3, <2>4, <2>5
<1>11. QED
  BY <1>6, <1>8, <1>9, <1>10 DEF CaptureInv

LEMMA RotateKeeps ==
  ASSUME CaptureInv, NEW t \in Threads, Rotate(t)
  PROVE  CaptureInv'
<1> DEFINE key == [input |-> capture[t].input, layer |-> capture[t].ran + 1]
<1>1. PICK k : k = key
  OBVIOUS
<1>2. /\ capture[t].at = "patched" /\ capture[t].ran < NumLayers
      /\ fn' = fn /\ upsets' = upsets /\ DOMAIN capture' = Threads
      /\ \A u \in Threads :
           capture'[u] = [capture[u] EXCEPT !.keys = IF u \in fn THEN Append(capture[u].keys, k)
                                                     ELSE capture[u].keys,
                                            !.ran = IF u = t THEN capture[u].ran + 1
                                                    ELSE capture[u].ran]
      /\ capture' = [u \in Threads |-> capture'[u]]
  <2>1. /\ capture[t].at = "patched" /\ capture[t].ran < NumLayers
        /\ fn' = fn /\ upsets' = upsets
    BY DEF Rotate
  <2>2. capture' = [u \in Threads |->
          [capture[u] EXCEPT !.keys = IF u \in fn THEN Append(@, k) ELSE @,
                             !.ran  = IF u = t THEN @ + 1 ELSE @]]
    BY <1>1 DEF Rotate, Notes
  <2> HIDE DEF key
  <2>3. QED
    BY <2>1, <2>2
<1>3. k \in Keys /\ capture[t].ran + 1 \in 0..NumLayers
  <2>1. capture[t].ran < NumLayers
    BY DEF Rotate
  <2>2. capture[t].ran + 1 \in 1..NumLayers /\ capture[t].input \in Texts
    BY <2>1, CaptureFields, FewLayers
  <2>3. QED
    BY <1>1, <2>2, FewLayers DEF Keys
<1>4. ASSUME NEW u \in Threads
      PROVE  /\ capture'[u] \in Captures
             /\ capture'[u].at = capture[u].at /\ capture'[u].input = capture[u].input
             /\ capture'[u].original = capture[u].original
             /\ capture'[u].overlapped = capture[u].overlapped
             /\ capture'[u].ran = IF u = t THEN capture[u].ran + 1 ELSE capture[u].ran
             /\ capture'[u].keys = IF u \in fn THEN Append(capture[u].keys, k) ELSE capture[u].keys
  <2>1. capture[u] \in Captures
    BY DEF CaptureInv, CaptureTyped
  <2> DEFINE keys == IF u \in fn THEN Append(capture[u].keys, k) ELSE capture[u].keys
             ran == IF u = t THEN capture[u].ran + 1 ELSE capture[u].ran
  <2>2. keys \in Seq(Keys)
    BY <1>3, CaptureFields, AppendProperties
  <2>3. ran \in 0..NumLayers
    BY <1>3, CaptureFields
  <2>4. capture'[u] = [capture[u] EXCEPT !.keys = keys, !.ran = ran]
    BY <1>2, Zenon
  <2> HIDE DEF keys, ran
  <2>5. /\ capture'[u] \in Captures /\ capture'[u].keys = keys /\ capture'[u].ran = ran
        /\ capture'[u].at = capture[u].at /\ capture'[u].input = capture[u].input
        /\ capture'[u].original = capture[u].original
        /\ capture'[u].overlapped = capture[u].overlapped
    BY <2>1, <2>2, <2>3, <2>4 DEF Captures
  <2>6. QED
    BY <2>5 DEF keys, ran
<1> HIDE DEF key
<1>5. CaptureTyped'
  <2>1. capture' \in [Threads -> Captures]
    BY <1>2, <1>4
  <2>2. QED
    BY <1>2, <2>1 DEF CaptureInv, CaptureTyped
<1>6. Capturing(t) /\ \A u \in Threads : Capturing(u)' <=> Capturing(u)
  BY <1>2, <1>4 DEF Capturing
<1>7. OverlapKnown'
  BY <1>4, <1>6 DEF CaptureInv, OverlapKnown, Capturing
<1>8. KeysOwn'
  <2> SUFFICES ASSUME NEW u \in Threads, Capturing(u)', ~capture'[u].overlapped
               PROVE  /\ capture'[u].keys =
                           [i \in 1..capture'[u].ran |-> [input |-> capture'[u].input, layer |-> i]]
                      /\ capture'[u].at = "looked" => capture'[u].ran = 0
                      /\ capture'[u].at = "patched" => u \in fn'
                      /\ capture'[u].at = "restored" => capture'[u].ran = NumLayers
    BY DEF KeysOwn, Capturing
  <2>1. u = t
    BY <1>4, <1>6 DEF CaptureInv, OverlapKnown
  <2>2. /\ capture[t].keys = [i \in 1..capture[t].ran |-> [input |-> capture[t].input, layer |-> i]]
        /\ t \in fn
    BY <1>2, <1>4, <1>6, <2>1 DEF CaptureInv, KeysOwn
  <2>3. PICK n \in Nat : n = capture[t].ran
    BY CaptureFields
  <2>4. PICK x : x = capture[t].input
    OBVIOUS
  <2>5. Append([i \in 1..n |-> [input |-> x, layer |-> i]], [input |-> x, layer |-> n + 1])
          = [i \in 1..n + 1 |-> [input |-> x, layer |-> i]]
    OBVIOUS
  <2>6. k = [input |-> x, layer |-> n + 1]
    BY <1>1, <2>3, <2>4 DEF key
  <2>7. capture'[t].keys = [i \in 1..n + 1 |-> [input |-> x, layer |-> i]]
    <3>1. capture'[t].keys = Append(capture[t].keys, k)
      BY <1>4, <2>2
    <3>2. capture[t].keys = [i \in 1..n |-> [input |-> x, layer |-> i]]
      BY <2>2, <2>3, <2>4
    <3>3. QED
      BY <2>5, <2>6, <3>1, <3>2
  <2>8. capture'[t].ran = n + 1 /\ capture'[t].input = x /\ capture'[t].at = "patched"
    BY <1>2, <1>4, <2>3, <2>4
  <2>9. QED
    BY <1>2, <2>1, <2>2, <2>7, <2>8
<1>9. PatchKnown'
  <2> SUFFICES ASSUME upsets = 0
               PROVE  /\ \A x, u \in Threads : Capturing(x)' /\ Capturing(u)' => x = u
                      /\ \A u \in Threads : Capturing(u)' => capture'[u].original = {}
                      /\ fn' = {u \in Threads : capture'[u].at = "patched"}
    BY <1>2 DEF PatchKnown, Capturing
  <2>1. /\ \A x, u \in Threads : Capturing(x) /\ Capturing(u) => x = u
        /\ \A u \in Threads : Capturing(u) => capture[u].original = {}
        /\ fn = {u \in Threads : capture[u].at = "patched"}
    BY DEF CaptureInv, PatchKnown
  <2>2. \A u \in Threads : capture'[u].at = capture[u].at /\ capture'[u].original = capture[u].original
    BY <1>4
  <2>3. fn' = {u \in Threads : capture'[u].at = "patched"}
    BY <1>2, <2>1, <2>2
  <2>4. QED
    BY <1>6, <2>1, <2>2, <2>3
<1>10. QED
  BY <1>5, <1>7, <1>8, <1>9 DEF CaptureInv

LEMMA RaisesKeep ==
  ASSUME CaptureInv, NEW t \in Threads, ImportRaises(t) \/ ForwardRaises(t)
  PROVE  CaptureInv'
<1>1. Capturing(t) /\ upsets \in Nat /\ fn \in SUBSET (Threads \cup {Dead})
  BY DEF ImportRaises, ForwardRaises, Capturing, CaptureInv, CaptureTyped
<1>2. CASE ImportRaises(t)
  <2>1. EndCapture(t, fn) /\ upsets' = upsets + 1
    BY <1>2 DEF ImportRaises
  <2>2. QED
    BY <1>1, <2>1, EndCaptureKeeps
<1>3. CASE ForwardRaises(t)
  <2>1. EndCapture(t, capture[t].original) /\ upsets' = upsets
    BY <1>3 DEF ForwardRaises
  <2>2. capture[t].original \in SUBSET (Threads \cup {Dead})
    BY CaptureFields
  <2>3. upsets = 0 => capture[t].original = {}
    BY <1>1 DEF CaptureInv, PatchKnown
  <2>4. QED
    BY <1>1, <2>1, <2>2, <2>3, EndCaptureKeeps
<1>4. QED
  BY <1>2, <1>3

LEMMA CollectKeeps ==
  ASSUME CaptureInv, NEW t \in Threads, Collect(t)
  PROVE  CaptureInv'
<1>1. Capturing(t) /\ upsets \in Nat /\ fn \in SUBSET (Threads \cup {Dead})
  BY DEF Collect, Capturing, CaptureInv, CaptureTyped
<1>2. EndCapture(t, fn) /\ upsets' = upsets /\ capture[t].at = "restored"
  BY DEF Collect
<1>3. upsets = 0 => fn = {}
  BY <1>1, <1>2 DEF CaptureInv, PatchKnown, Capturing
<1>4. QED
  BY <1>1, <1>2, <1>3, EndCaptureKeeps

(* Who captures, and for which pass, is for the steps of its own thread.   *)
LEMMA OthersKeepCapturing ==
  ASSUME CaptureInv, NEW t \in Threads, NEW u \in Threads \ {t},
         \/ \E input : Look(t, input)
         \/ Patch(t) \/ Rotate(t) \/ Restore(t)
         \/ ImportRaises(t) \/ ForwardRaises(t) \/ Collect(t)
  PROVE  /\ Capturing(u)' <=> Capturing(u)
         /\ capture'[u].input = capture[u].input
<1>1. capture \in [Threads -> Captures] /\ capture[u] \in Captures
  BY DEF CaptureInv, CaptureTyped
<1>2. ASSUME NEW w, EndCapture(t, w)
      PROVE  capture'[u].at = capture[u].at /\ capture'[u].input = capture[u].input
  BY <1>1, <1>2 DEF EndCapture, Captures
<1>3. ASSUME NEW input, Look(t, input)
      PROVE  capture'[u].at = capture[u].at /\ capture'[u].input = capture[u].input
  BY <1>1, <1>3 DEF Look, Captures
<1>4. CASE Patch(t) \/ Restore(t)
  BY <1>1, <1>4 DEF Patch, Restore, Capturing
<1>5. CASE Rotate(t)
  <2>1. capture'[u].at = capture[u].at /\ capture'[u].input = capture[u].input
    BY <1>1, <1>5 DEF Rotate, Captures
  <2>2. QED
    BY <2>1 DEF Capturing
<1>6. CASE ImportRaises(t) \/ ForwardRaises(t) \/ Collect(t)
  <2>1. \E w : EndCapture(t, w)
    BY <1>6 DEF ImportRaises, ForwardRaises, Collect
  <2>2. QED
    BY <1>2, <2>1 DEF Capturing
<1>7. QED
  BY <1>3, <1>4, <1>5, <1>6 DEF Capturing

-----------------------------------------------------------------------------
(* The catalog, and what its parts are encoded after.                      *)

LEMMA ConstantTypes ==
  /\ NumLayers \in Nat /\ NumLayers > 0
  /\ Namespaces = Facades /\ IsFiniteSet(Facades) /\ Facades = Threads
  /\ ContextWindow \in Nat /\ MaxPosition \in Nat
BY SharedProcessAssumption, EncodingPlanAssumption, RopeCaptureAssumption DEF Facades

LEMMA ScaffoldingParts ==
  /\ Scaffolding \in Seq(Ids) /\ Len(Scaffolding) = 3 /\ IsInjective(Scaffolding)
  /\ \A i \in 1..3 : Scaffolding[i] \in Ids /\ Scaffolding[i] \in ToSet(Scaffolding)
  /\ Scaffolding[1] = Header /\ Scaffolding[2] = Empty /\ Scaffolding[3] = Footer
<1>1. DOMAIN Scaffolding = 1..3 /\ Len(Scaffolding) = 3
  BY DEF Scaffolding
<1>2. \A i \in 1..3 : Scaffolding[i] \in ToSet(Scaffolding)
  BY <1>1 DEF ToSet
<1>3. \A i \in 1..3 : Scaffolding[i] \in Ids
  BY <1>2 DEF Ids
<1>4. Scaffolding \in Seq(Ids)
  <2>1. Header \in Ids /\ Empty \in Ids /\ Footer \in Ids
    BY <1>3 DEF Scaffolding
  <2>2. QED
    BY <2>1 DEF Scaffolding
<1>5. IsInjective(Scaffolding)
  BY SharedProcessAssumption
<1>6. QED
  BY <1>1, <1>2, <1>3, <1>4, <1>5 DEF Scaffolding

LEMMA CatalogParts ==
  ASSUME NEW f \in Facades
  PROVE  /\ Catalog[f] \in Seq(Ids) /\ IsInjective(Catalog[f]) /\ Len(Catalog[f]) \in Nat
         /\ \A i \in 1..Len(Catalog[f]) :
              /\ Catalog[f][i] \in Ids /\ Catalog[f][i] \in ToSet(Catalog[f])
              /\ Catalog[f][i] \notin ToSet(Scaffolding)
<1> DEFINE ids == Catalog[f]
<1>1. ids \in Seq(ToSet(ids)) /\ IsInjective(ids) /\ ToSet(ids) \cap ToSet(Scaffolding) = {}
  BY SharedProcessAssumption
<1>2. ToSet(ids) \subseteq Ids
  BY DEF Ids
<1> HIDE DEF ids
<1>3. \A i \in 1..Len(ids) : ids[i] \in ToSet(ids)
  BY <1>1 DEF ToSet
<1>4. ids \in Seq(Ids) /\ Len(ids) \in Nat
  BY <1>1, <1>2
<1>5. QED
  BY <1>1, <1>2, <1>3, <1>4 DEF ids

LEMMA TokensTyped ==
  ASSUME NEW f \in Facades, NEW id \in Ids
  PROVE  TokensOf[id] \in Texts /\ Len(TokensOf[id]) \in 1..MaxPosition
<1>1. PICK g \in Facades : id \in ToSet(Catalog[g]) \cup ToSet(Scaffolding)
  BY DEF Ids
<1>2. /\ TokensOf[id] \in Seq(ToSet(TokensOf[id]))
      /\ TokensOf[id] # <<>> /\ Len(TokensOf[id]) <= MaxPosition
  BY <1>1, SharedProcessAssumption DEF Plannable
<1> DEFINE text == TokensOf[id]
           All == UNION {ToSet(TokensOf[x]) : x \in Ids}
<1>3. ToSet(text) \subseteq All
  OBVIOUS
<1>4. text \in Seq(ToSet(text)) /\ text # <<>> /\ Len(text) <= MaxPosition
  BY <1>2
<1>5. Texts = Seq(All)
  BY DEF Texts
<1> HIDE DEF text, All
<1>6. text \in Seq(All)
  BY <1>3, <1>4
<1>7. Len(text) \in Nat /\ Len(text) # 0
  BY <1>4, EmptySeq
<1>8. Len(text) \in 1..MaxPosition
  BY <1>4, <1>7, ConstantTypes
<1>9. QED
  BY <1>5, <1>6, <1>8 DEF text

LEMMA PlaceIs ==
  ASSUME NEW f \in Facades, NEW i \in 1..Len(Catalog[f])
  PROVE  Place(f, Catalog[f][i]) = i
<1>1. DOMAIN Catalog[f] = 1..Len(Catalog[f]) /\ IsInjective(Catalog[f])
  BY CatalogParts
<1>2. \A j \in DOMAIN Catalog[f] : Catalog[f][j] = Catalog[f][i] => j = i
  BY <1>1 DEF IsInjective
<1>3. QED
  BY <1>1, <1>2 DEF Place

LEMMA LastItemsTyped ==
  ASSUME NEW S, NEW s \in Seq(S), NEW n \in Nat
  PROVE  LastItems(s, n) \in Seq(S)
<1>1. Len(s) \in Nat
  OBVIOUS
<1>2. CASE Len(s) > n
  <2>1. SubSeq(s, Len(s) - n + 1, Len(s)) \in Seq(S)
    BY <1>1, <1>2
  <2>2. QED
    BY <1>2, <2>1 DEF LastItems
<1>3. CASE ~(Len(s) > n)
  BY <1>1, <1>3 DEF LastItems
<1>4. QED
  BY <1>2, <1>3

LEMMA TokensInTyped ==
  ASSUME NEW f \in Facades, NEW ids \in Seq(Ids)
  PROVE  TokensIn(ids) \in Texts
<1> DEFINE All == UNION {ToSet(TokensOf[x]) : x \in Ids}
           texts == [i \in DOMAIN ids |-> TokensOf[ids[i]]]
<1>1. Texts = Seq(All)
  BY DEF Texts
<1>2. texts \in Seq(Texts)
  <2>1. DOMAIN ids = 1..Len(ids) /\ Len(ids) \in Nat /\ \A i \in 1..Len(ids) : ids[i] \in Ids
    BY ElementOfSeq
  <2>2. \A i \in 1..Len(ids) : TokensOf[ids[i]] \in Texts
    BY <2>1, TokensTyped
  <2>3. QED
    BY <2>1, <2>2
<1>3. TokensIn(ids) = FlattenSeq(texts)
  BY DEF TokensIn
<1> HIDE DEF All, texts
<1>4. texts \in Seq(Seq(All))
  BY <1>1, <1>2
<1>5. PICK F : Flattens(F, texts, All) /\ FlattenSeq(texts) = F[Len(texts)]
  BY <1>4, FlattenHasSteps
<1>6. F[Len(texts)] \in Seq(All)
  <2>1. Len(texts) \in 0..Len(texts)
    BY <1>4
  <2>2. QED
    BY <1>5, <2>1 DEF Flattens
<1>7. QED
  BY <1>1, <1>3, <1>5, <1>6

LEMMA WindowTyped ==
  ASSUME NEW f \in Facades, NEW i \in 1..Len(Catalog[f])
  PROVE  Window(f, i) \in Texts
<1>1. SubSeq(Catalog[f], 1, i - 1) \in Seq(Ids)
  BY CatalogParts
<1>2. LastItems(SubSeq(Catalog[f], 1, i - 1), ContextWindow) \in Seq(Ids)
  BY <1>1, ConstantTypes, LastItemsTyped
<1>3. QED
  BY <1>2, TokensInTyped DEF Window

LEMMA ContextIs ==
  ASSUME NEW f \in Facades
  PROVE  /\ \A i \in 1..Len(Catalog[f]) :
              LET id == Catalog[f][i]
              IN  Context(f, id) = LastItems(Window(f, i), MaxPosition - Len(TokensOf[id]))
         /\ \A i \in 1..3 : Context(f, Scaffolding[i]) = <<>>
<1>1. ASSUME NEW i \in 1..Len(Catalog[f])
      PROVE  Context(f, Catalog[f][i])
               = LastItems(Window(f, i), MaxPosition - Len(TokensOf[Catalog[f][i]]))
  BY CatalogParts, PlaceIs DEF Context
<1>2. \A i \in 1..3 : Context(f, Scaffolding[i]) = <<>>
  BY ScaffoldingParts DEF Context
<1>3. QED
  BY <1>1, <1>2

(* The parts a facade has its encoder make.                                *)
PartIds(f) == ToSet(Catalog[f]) \cup ToSet(Scaffolding)

LEMMA PartIdsAre ==
  ASSUME NEW f \in Facades
  PROVE  /\ PartIds(f) \subseteq Ids
         /\ \A i \in 1..Len(Catalog[f]) : Catalog[f][i] \in PartIds(f)
         /\ \A i \in 1..3 : Scaffolding[i] \in PartIds(f)
         /\ \A id \in PartIds(f) : \/ \E i \in 1..Len(Catalog[f]) : id = Catalog[f][i]
                                   \/ \E i \in 1..3 : id = Scaffolding[i]
<1>1. PartIds(f) \subseteq Ids
  BY DEF PartIds, Ids
<1>2. ASSUME NEW id \in PartIds(f)
      PROVE  \/ \E i \in 1..Len(Catalog[f]) : id = Catalog[f][i]
             \/ \E i \in 1..3 : id = Scaffolding[i]
  <2>1. DOMAIN Catalog[f] = 1..Len(Catalog[f]) /\ DOMAIN Scaffolding = 1..3
    BY CatalogParts, ScaffoldingParts
  <2>2. QED
    BY <2>1 DEF PartIds, ToSet
<1>3. QED
  BY <1>1, <1>2, CatalogParts, ScaffoldingParts DEF PartIds

LEMMA ContextTyped ==
  ASSUME NEW f \in Facades, NEW id \in PartIds(f)
  PROVE  Context(f, id) \in Texts /\ TokensOf[id] \in Texts /\ Len(TokensOf[id]) \in 1..MaxPosition
<1>1. TokensOf[id] \in Texts /\ Len(TokensOf[id]) \in 1..MaxPosition
  BY PartIdsAre, TokensTyped
<1>2. CASE \E i \in 1..Len(Catalog[f]) : id = Catalog[f][i]
  <2>1. PICK i \in 1..Len(Catalog[f]) : id = Catalog[f][i]
    BY <1>2
  <2>2. MaxPosition - Len(TokensOf[id]) \in Nat
    BY <1>1, ConstantTypes
  <2>3. Window(f, i) \in Texts
    BY WindowTyped
  <2>4. LastItems(Window(f, i), MaxPosition - Len(TokensOf[id])) \in Texts
    BY <2>2, <2>3, LastItemsTyped DEF Texts
  <2>5. QED
    BY <1>1, <2>1, <2>4, ContextIs
<1>3. CASE \E i \in 1..3 : id = Scaffolding[i]
  <2>1. Context(f, id) = <<>>
    BY <1>3, ContextIs
  <2>2. QED
    BY <1>1, <2>1 DEF Texts
<1>4. QED
  BY <1>2, <1>3, PartIdsAre

(* A plan keeps of its context what fits before the target.                *)
LEMMA PlanKeepsTheNewest ==
  ASSUME NEW id, NEW target \in Texts, NEW context \in Texts,
         Len(target) <= MaxPosition, NEW kept,
         kept = LastItems(context, MaxPosition - Len(target))
  PROVE  BuildEncodingPlan(id, target, context) = PlanAfter(kept, id, target)
<1> DEFINE All == UNION {ToSet(TokensOf[x]) : x \in Ids}
<1>0. MaxPosition \in Nat
  BY ConstantTypes
<1>1. Len(context) \in Nat /\ Len(target) \in Nat /\ context \in Seq(All)
  <2>1. Texts = Seq(All)
    BY DEF Texts
  <2> HIDE DEF All
  <2>2. QED
    BY <2>1
<1> HIDE DEF All
<1>2. Cut(context, target) = LastItems(context, MaxPosition - Len(target))
  <2>1. CASE Len(context) + Len(target) - MaxPosition > 0
    <3>1. /\ Len(context) > MaxPosition - Len(target)
          /\ Len(context) + Len(target) - MaxPosition + 1
               = Len(context) - (MaxPosition - Len(target)) + 1
      BY <1>0, <1>1, <2>1
    <3>2. QED
      BY <2>1, <3>1 DEF Cut, LastItems
  <2>2. CASE ~(Len(context) + Len(target) - MaxPosition > 0)
    <3>1. ~(Len(context) > MaxPosition - Len(target))
      BY <1>0, <1>1, <2>2
    <3>2. SubSeq(context, 1, Len(context)) = context
      BY <1>1
    <3>3. QED
      BY <2>2, <3>1, <3>2 DEF Cut, LastItems
  <2>3. QED
    BY <2>1, <2>2
<1>3. QED
  BY <1>2 DEF BuildEncodingPlan, PlanAfter

LEMMA ScaffoldPlansAre ==
  ASSUME NEW f \in Facades
  PROVE  ScaffoldPlans = [i \in 1..3 |-> PlanOf(f, Scaffolding[i])]
<1>1. ASSUME NEW i \in 1..3
      PROVE  BuildEncodingPlan(Scaffolding[i], TokensOf[Scaffolding[i]], <<>>)
               = PlanOf(f, Scaffolding[i])
  <2> DEFINE id == Scaffolding[i]
             text == TokensOf[id]
  <2>1. Context(f, id) = <<>> /\ text \in Texts /\ Len(text) \in 1..MaxPosition
    BY ContextIs, ContextTyped, PartIdsAre
  <2> HIDE DEF text, id
  <2>2. LastItems(<<>>, MaxPosition - Len(text)) = <<>>
    <3>1. ~(0 > MaxPosition - Len(text))
      BY <2>1, ConstantTypes
    <3>2. QED
      BY <3>1 DEF LastItems
  <2>3. <<>> \in Texts
    BY DEF Texts
  <2>4. Len(text) <= MaxPosition /\ <<>> = LastItems(<<>>, MaxPosition - Len(text))
    BY <2>1, <2>2, ConstantTypes
  <2>5. BuildEncodingPlan(id, text, <<>>) = PlanAfter(<<>>, id, text)
    BY <2>1, <2>3, <2>4, ConstantTypes, PlanKeepsTheNewest
  <2>6. PlanOf(f, id) = PlanAfter(<<>>, id, text)
    BY <2>1 DEF PlanOf, text
  <2>7. QED
    BY <2>5, <2>6 DEF text, id
<1>2. DOMAIN Scaffolding = 1..3
  BY ScaffoldingParts
<1>3. QED
  BY <1>1, <1>2 DEF ScaffoldPlans

LEMMA SliceOfCatalog ==
  ASSUME NEW S, NEW s \in Seq(S), NEW k \in 0..Len(s), NEW n \in 0..Len(s) - k, NEW i \in 1..n
  PROVE  /\ SubSeq(s, k + 1, k + n) \in Seq(S) /\ Len(SubSeq(s, k + 1, k + n)) = n
         /\ SubSeq(s, k + 1, k + n)[i] = s[k + i]
         /\ SubSeq(s, 1, k) \o SubSeq(SubSeq(s, k + 1, k + n), 1, i - 1) = SubSeq(s, 1, k + i - 1)
<1> DEFINE b == SubSeq(s, k + 1, k + n)
           a == SubSeq(s, 1, k)
           c == SubSeq(b, 1, i - 1)
           d == SubSeq(s, 1, k + i - 1)
<1>1. Len(s) \in Nat /\ k + n <= Len(s)
  OBVIOUS
<1>2. b \in Seq(S) /\ Len(b) = n /\ \A j \in 1..n : b[j] = s[k + j]
  <2>1. \A j \in k + 1..k + n : s[j] \in S
    BY <1>1
  <2>2. k + 1 \in Int /\ k + n \in Int
    OBVIOUS
  <2>3. /\ b \in Seq(S)
        /\ Len(b) = (IF k + 1 <= k + n THEN k + n - (k + 1) + 1 ELSE 0)
        /\ \A j \in 1..k + n - (k + 1) + 1 : b[j] = s[k + 1 + j - 1]
    <3> HIDE DEF b
    <3>1. QED
      BY <2>1, <2>2, SubSeqProperties DEF b
  <2> HIDE DEF b
  <2>4. k + n - (k + 1) + 1 = n /\ \A j \in 1..n : k + 1 + j - 1 = k + j
    OBVIOUS
  <2>5. Len(b) = n
    BY <2>3
  <2>6. \A j \in 1..n : b[j] = s[k + j]
    BY <2>3, <2>4
  <2>7. QED
    BY <2>3, <2>5, <2>6
<1>3. a \in Seq(S) /\ Len(a) = k /\ \A j \in 1..k : a[j] = s[j]
  BY <1>1
<1> HIDE DEF b
<1>4. c \in Seq(S) /\ Len(c) = i - 1 /\ \A j \in 1..i - 1 : c[j] = b[j]
  BY <1>2
<1>5. d \in Seq(S) /\ Len(d) = k + i - 1 /\ \A j \in 1..k + i - 1 : d[j] = s[j]
  BY <1>1
<1> HIDE DEF a, c, d
<1>6. /\ a \o c \in Seq(S) /\ Len(a \o c) = k + (i - 1)
      /\ \A j \in 1..k + (i - 1) : (a \o c)[j] = IF j <= k THEN a[j] ELSE c[j - k]
  <2>1. /\ a \o c \in Seq(S) /\ Len(a \o c) = Len(a) + Len(c)
        /\ \A j \in 1..Len(a) + Len(c) : (a \o c)[j] = IF j <= Len(a) THEN a[j] ELSE c[j - Len(a)]
    BY <1>3, <1>4, ConcatProperties
  <2>2. QED
    BY <1>3, <1>4, <2>1
<1>7. \A j \in 1..k + (i - 1) : (a \o c)[j] = d[j]
  <2> SUFFICES ASSUME NEW j \in 1..k + (i - 1) PROVE (a \o c)[j] = d[j]
    OBVIOUS
  <2>1. CASE j <= k
    <3>1. j \in 1..k /\ j \in 1..k + i - 1
      BY <2>1
    <3>2. QED
      BY <1>3, <1>5, <1>6, <2>1, <3>1
  <2>2. CASE ~(j <= k)
    <3>1. j - k \in 1..i - 1 /\ j - k \in 1..n /\ k + (j - k) = j
      BY <2>2
    <3>2. (a \o c)[j] = c[j - k]
      BY <1>6, <2>2
    <3>3. c[j - k] = b[j - k] /\ b[j - k] = s[k + (j - k)]
      BY <1>2, <1>4, <3>1
    <3>4. QED
      BY <1>5, <3>1, <3>2, <3>3
  <2>3. QED
    BY <2>1, <2>2
<1>8. a \o c = d
  <2> DEFINE x == a \o c
  <2>1. /\ x \in Seq(S) /\ Len(x) = k + (i - 1) /\ Len(d) = k + (i - 1)
        /\ \A j \in 1..k + (i - 1) : x[j] = d[j]
    BY <1>5, <1>6, <1>7
  <2> HIDE DEF x
  <2>2. x = d
    BY <1>5, <2>1, SeqEqual
  <2>3. QED
    BY <2>2 DEF x
<1>9. b[i] = s[k + i]
  BY <1>2
<1>10. QED
  BY <1>2, <1>8, <1>9 DEF a, b, c, d

(* A batch's plans are those of its chunks by the catalog alone: the window *)
(* slides over what is known and over the batch.                           *)
LEMMA PlansForAre ==
  ASSUME NEW f \in Facades, NEW k \in 0..Len(Catalog[f]), NEW n \in 1..Len(Catalog[f]) - k,
         chunks[f] = SubSeq(Catalog[f], 1, k)
  PROVE  PlansFor(f, SubSeq(Catalog[f], k + 1, k + n))
           = [i \in 1..n |-> PlanOf(f, Catalog[f][k + i])]
<1> DEFINE s == Catalog[f]
           batch == SubSeq(s, k + 1, k + n)
           Before(i) == LastItems(chunks[f] \o SubSeq(batch, 1, i - 1), ContextWindow)
<1>1. s \in Seq(Ids) /\ Len(s) \in Nat
  BY CatalogParts
<1>2. DOMAIN batch = 1..n
  <2>1. n \in 0..Len(s) - k /\ 1 \in 1..n
    BY <1>1
  <2>2. batch \in Seq(Ids) /\ Len(batch) = n
    <3> HIDE DEF s, batch
    <3>1. QED
      BY <1>1, <2>1, SliceOfCatalog DEF batch, s
  <2>3. QED
    BY <2>2
<1>3. ASSUME NEW i \in 1..n
      PROVE  BuildEncodingPlan(batch[i], TokensOf[batch[i]], TokensIn(Before(i)))
               = PlanOf(f, Catalog[f][k + i])
  <2> DEFINE id == Catalog[f][k + i]
             text == TokensOf[id]
  <2>1. k + i \in 1..Len(s)
    BY <1>1
  <2>2. batch[i] = id /\ chunks[f] \o SubSeq(batch, 1, i - 1) = SubSeq(s, 1, k + i - 1)
    <3>1. n \in 0..Len(s) - k
      BY <1>1
    <3> HIDE DEF s
    <3>2. QED
      BY <1>1, <3>1, SliceOfCatalog DEF s
  <2>3. TokensIn(Before(i)) = Window(f, k + i)
    <3>1. Before(i) = LastItems(SubSeq(s, 1, k + i - 1), ContextWindow)
      BY <2>2
    <3> HIDE DEF Before
    <3>2. QED
      BY <3>1 DEF Window
  <2>4. id \in PartIds(f) /\ Window(f, k + i) \in Texts
    BY <2>1, PartIdsAre, WindowTyped
  <2>5. text \in Texts /\ Len(text) <= MaxPosition
    BY <2>4, ContextTyped, ConstantTypes
  <2>6. Context(f, id) = LastItems(Window(f, k + i), MaxPosition - Len(text))
    BY <2>1, ContextIs
  <2> HIDE DEF id, text, batch, Before, s
  <2>7. BuildEncodingPlan(id, text, Window(f, k + i))
          = PlanAfter(Context(f, id), id, text)
    BY <2>4, <2>5, <2>6, ConstantTypes, PlanKeepsTheNewest
  <2>8. BuildEncodingPlan(id, text, Window(f, k + i)) = PlanOf(f, id)
    BY <2>7 DEF PlanOf, text
  <2>9. QED
    BY <2>2, <2>3, <2>8 DEF text, id
<1>4. PlansFor(f, batch)
        = [i \in DOMAIN batch |->
             BuildEncodingPlan(batch[i], TokensOf[batch[i]], TokensIn(Before(i)))]
  BY DEF PlansFor
<1> HIDE DEF Before, batch
<1>5. QED
  BY <1>2, <1>3, <1>4 DEF batch

-----------------------------------------------------------------------------
(* What a pass makes of a plan.                                            *)

LEMMA PrefixOfConcat ==
  ASSUME NEW S, NEW a \in Seq(S), NEW b \in Seq(S), NEW i \in 1..Len(b)
  PROVE  /\ SubSeq(a \o b, 1, Len(a) + i) = a \o SubSeq(b, 1, i)
         /\ a \o SubSeq(b, 1, i) \in Seq(S) /\ Len(a \o SubSeq(b, 1, i)) = Len(a) + i
<1> DEFINE c == a \o b
           d == SubSeq(b, 1, i)
           x == SubSeq(c, 1, Len(a) + i)
           y == a \o d
<1>1. Len(a) \in Nat /\ Len(b) \in Nat
  OBVIOUS
<1>2. /\ c \in Seq(S) /\ Len(c) = Len(a) + Len(b)
      /\ \A j \in 1..Len(a) + Len(b) : c[j] = IF j <= Len(a) THEN a[j] ELSE b[j - Len(a)]
  BY ConcatProperties
<1>3. d \in Seq(S) /\ Len(d) = i /\ \A j \in 1..i : d[j] = b[j]
  BY <1>1
<1> HIDE DEF c, d
<1>4. x \in Seq(S) /\ Len(x) = Len(a) + i /\ \A j \in 1..Len(a) + i : x[j] = c[j]
  BY <1>1, <1>2
<1>5. /\ y \in Seq(S) /\ Len(y) = Len(a) + i
      /\ \A j \in 1..Len(a) + i : y[j] = IF j <= Len(a) THEN a[j] ELSE d[j - Len(a)]
  <2>1. /\ y \in Seq(S) /\ Len(y) = Len(a) + Len(d)
        /\ \A j \in 1..Len(a) + Len(d) : y[j] = IF j <= Len(a) THEN a[j] ELSE d[j - Len(a)]
    BY <1>3, ConcatProperties
  <2>2. QED
    BY <1>3, <2>1
<1> HIDE DEF x, y
<1>6. ASSUME NEW j \in 1..Len(a) + i PROVE x[j] = y[j]
  <2>1. j \in 1..Len(a) + Len(b)
    BY <1>1
  <2>2. CASE j <= Len(a)
    BY <1>2, <1>4, <1>5, <2>1, <2>2
  <2>3. CASE ~(j <= Len(a))
    <3>1. j - Len(a) \in 1..i
      BY <1>1, <2>3
    <3>2. QED
      BY <1>2, <1>3, <1>4, <1>5, <2>1, <2>3, <3>1
  <2>4. QED
    BY <2>2, <2>3
<1>7. x = y
  BY <1>4, <1>5, <1>6, SeqEqual
<1>8. QED
  BY <1>5, <1>7 DEF x, y, c, d

LEMMA RowTyped ==
  ASSUME NEW f \in Facades, NEW id \in PartIds(f), NEW l \in 1..NumLayers,
         NEW i \in 1..Len(TokensOf[id])
  PROVE  /\ Row(f, id, l, i) \in Rows
         /\ Context(f, id) \o SubSeq(TokensOf[id], 1, i) \in Texts
         /\ SubSeq(Context(f, id) \o TokensOf[id], 1, Len(Context(f, id)) + i)
              = Context(f, id) \o SubSeq(TokensOf[id], 1, i)
<1> DEFINE All == UNION {ToSet(TokensOf[x]) : x \in Ids}
           a == Context(f, id)
           b == TokensOf[id]
<1>1. Texts = Seq(All) /\ a \in Texts /\ b \in Texts
  BY ContextTyped DEF Texts
<1>2. i \in 1..Len(b)
  OBVIOUS
<1> HIDE DEF All, a, b
<1>3. a \o SubSeq(b, 1, i) \in Texts /\ SubSeq(a \o b, 1, Len(a) + i) = a \o SubSeq(b, 1, i)
  <2>1. a \in Seq(All) /\ b \in Seq(All)
    BY <1>1
  <2>2. /\ SubSeq(a \o b, 1, Len(a) + i) = a \o SubSeq(b, 1, i)
        /\ a \o SubSeq(b, 1, i) \in Seq(All)
    BY <2>1, <1>2, PrefixOfConcat
  <2>3. QED
    BY <1>1, <2>2
<1>4. [layer |-> l, seen |-> a \o SubSeq(b, 1, i)] \in Rows
  BY <1>3 DEF Rows
<1>5. QED
  BY <1>3, <1>4 DEF Row, a, b

LEMMA ExactTyped ==
  ASSUME NEW f \in Facades, NEW id \in PartIds(f)
  PROVE  Exact(f, id) \in Parts
<1> DEFINE text == TokensOf[id]
           rows == [l \in 1..NumLayers |-> [i \in DOMAIN text |-> Row(f, id, l, i)]]
<1>1. text \in Texts /\ id \in Ids
  BY ContextTyped, PartIdsAre
<1>2. DOMAIN text = 1..Len(text) /\ Len(text) \in Nat
  <2> HIDE DEF text
  <2>1. QED
    BY <1>1 DEF Texts
<1>3. \A l \in 1..NumLayers : [i \in DOMAIN text |-> Row(f, id, l, i)] \in Seq(Rows)
  <2>1. ASSUME NEW l \in 1..NumLayers, NEW i \in 1..Len(text) PROVE Row(f, id, l, i) \in Rows
    BY RowTyped
  <2> HIDE DEF text
  <2>2. QED
    BY <1>2, <2>1
<1>4. rows \in [1..NumLayers -> Seq(Rows)]
  <2> HIDE DEF text
  <2>1. QED
    BY <1>3
<1>5. Exact(f, id) = [id |-> id, tokens |-> text, rows |-> rows]
  BY DEF Exact
<1> HIDE DEF text, rows
<1>6. QED
  BY <1>1, <1>4, <1>5 DEF Parts

(* The rows a pass of its own keeps of the plan are those of the part.     *)
LEMMA SliceIsExact ==
  ASSUME NEW f \in Facades, NEW id \in PartIds(f), NEW l \in 1..NumLayers, NEW key,
         key = [input |-> PlanOf(f, id).input, layer |-> l]
  PROVE  Slice(key, PlanOf(f, id).start, PlanOf(f, id).stop)
           = [i \in 1..Len(TokensOf[id]) |-> Row(f, id, l, i)]
<1> DEFINE All == UNION {ToSet(TokensOf[x]) : x \in Ids}
           a == Context(f, id)
           b == TokensOf[id]
<1>1. Texts = Seq(All) /\ a \in Texts /\ b \in Texts
  BY ContextTyped DEF Texts
<1>2. /\ PlanOf(f, id).input = a \o b /\ PlanOf(f, id).start = Len(a)
      /\ PlanOf(f, id).stop = Len(a) + Len(b)
  BY DEF PlanOf, PlanAfter
<1>3. \A i \in 1..Len(b) :
        Row(f, id, l, i) = [layer |-> l, seen |-> SubSeq(a \o b, 1, Len(a) + i)]
  BY RowTyped DEF Row
<1> HIDE DEF All, a, b
<1>4. Len(a) \in Nat /\ Len(b) \in Nat /\ Len(a \o b) = Len(a) + Len(b)
  BY <1>1, ConcatProperties
<1>5. key.input = a \o b /\ key.layer = l
  BY <1>2
<1>6. (IF Len(a) + Len(b) < Len(key.input) THEN Len(a) + Len(b) ELSE Len(key.input)) - Len(a)
        = Len(b)
  BY <1>4, <1>5
<1>7. Slice(key, Len(a), Len(a) + Len(b))
        = [i \in 1..Len(b) |-> [layer |-> l, seen |-> SubSeq(a \o b, 1, Len(a) + i)]]
  BY <1>5, <1>6 DEF Slice
<1>8. Slice(key, Len(a), Len(a) + Len(b)) = [i \in 1..Len(b) |-> Row(f, id, l, i)]
  BY <1>3, <1>7
<1>9. QED
  BY <1>2, <1>8 DEF b

LEMMA EncodedIsPart ==
  ASSUME NEW f \in Facades, NEW id \in PartIds(f), NEW noted,
         ~noted.overlapped =>
           noted.keys = [i \in 1..NumLayers |-> [input |-> PlanOf(f, id).input, layer |-> i]]
  PROVE  LET part == Encoded(noted, PlanOf(f, id))
         IN  /\ part \in Parts /\ part.id = id /\ part.tokens = TokensOf[id]
             /\ ~noted.overlapped => part = Exact(f, id)
<1> DEFINE plan == PlanOf(f, id)
           text == TokensOf[id]
           part == Encoded(noted, plan)
<1>1. plan.id = id /\ plan.target = text
  BY DEF PlanOf, PlanAfter
<1>2. text \in Texts /\ id \in Ids
  BY ContextTyped, PartIdsAre
<1>3. DOMAIN text = 1..Len(text) /\ Len(text) \in Nat
  <2> HIDE DEF text
  <2>1. QED
    BY <1>2 DEF Texts
<1>4. CASE noted.overlapped
  <2> DEFINE unknown == [l \in 1..NumLayers |-> [i \in 1..Len(text) |-> Unknown]]
  <2>1. part = [id |-> id, tokens |-> text, rows |-> unknown]
    BY <1>1, <1>3, <1>4 DEF Encoded
  <2>2. [i \in 1..Len(text) |-> Unknown] \in Seq(Rows)
    BY <1>3 DEF Rows
  <2>3. unknown \in [1..NumLayers -> Seq(Rows)]
    BY <2>2
  <2> HIDE DEF unknown, part, text, plan
  <2>4. QED
    BY <1>2, <1>4, <2>1, <2>3 DEF Parts, part, text, plan
<1>5. CASE ~noted.overlapped
  <2>1. ASSUME NEW l \in 1..NumLayers
        PROVE  Slice(noted.keys[l], plan.start, plan.stop) = [i \in 1..Len(text) |-> Row(f, id, l, i)]
    <3>1. noted.keys[l] = [input |-> plan.input, layer |-> l]
      BY <1>5
    <3>2. QED
      BY <3>1, SliceIsExact
  <2>2. part = [id |-> id, tokens |-> text,
                rows |-> [l \in 1..NumLayers |-> Slice(noted.keys[l], plan.start, plan.stop)]]
    BY <1>1, <1>5 DEF Encoded
  <2> DEFINE sliced == [l \in 1..NumLayers |-> Slice(noted.keys[l], plan.start, plan.stop)]
             rows == [l \in 1..NumLayers |-> [i \in 1..Len(text) |-> Row(f, id, l, i)]]
  <2>3. Exact(f, id) = [id |-> id, tokens |-> text, rows |-> rows]
    <3>1. DOMAIN TokensOf[id] = 1..Len(text)
      BY <1>3
    <3>2. QED
      BY <3>1 DEF Exact
  <2> HIDE DEF part, plan, text
  <2>4. sliced = rows
    BY <2>1
  <2> HIDE DEF sliced, rows
  <2>5. part = Exact(f, id)
    BY <2>2, <2>3, <2>4 DEF sliced
  <2>6. part \in Parts
    BY <2>5, ExactTyped
  <2>7. part.id = id /\ part.tokens = text
    BY <2>5, <2>3
  <2>8. QED
    BY <2>5, <2>6, <2>7 DEF part, plan, text
<1>6. QED
  BY <1>4, <1>5

-----------------------------------------------------------------------------
(* A memory of exact parts.                                                *)

LEMMA SeenTyped ==
  ASSUME NEW f \in Facades, NEW ids \in Seq(PartIds(f))
  PROVE  /\ DOMAIN ids = 1..Len(ids) /\ Len(ids) \in Nat /\ Len(Seen(f, ids)) = Len(ids)
         /\ Seen(f, ids) \in Seq(Seq(Texts))
         /\ \A p \in 1..Len(ids) :
              /\ ids[p] \in PartIds(f)
              /\ DOMAIN TokensOf[ids[p]] = 1..Len(TokensOf[ids[p]])
              /\ Len(Seen(f, ids)[p]) = Len(TokensOf[ids[p]])
              /\ \A i \in 1..Len(TokensOf[ids[p]]) :
                   Seen(f, ids)[p][i] = Context(f, ids[p]) \o SubSeq(TokensOf[ids[p]], 1, i)
<1> DEFINE s == Seen(f, ids)
<1>1. DOMAIN ids = 1..Len(ids) /\ Len(ids) \in Nat /\ \A p \in 1..Len(ids) : ids[p] \in PartIds(f)
  BY ElementOfSeq
<1>2. ASSUME NEW p \in 1..Len(ids)
      PROVE  /\ DOMAIN TokensOf[ids[p]] = 1..Len(TokensOf[ids[p]])
             /\ s[p] \in Seq(Texts) /\ Len(s[p]) = Len(TokensOf[ids[p]])
             /\ \A i \in 1..Len(TokensOf[ids[p]]) :
                  s[p][i] = Context(f, ids[p]) \o SubSeq(TokensOf[ids[p]], 1, i)
  <2> DEFINE id == ids[p]
             b == TokensOf[id]
             row == [i \in DOMAIN b |-> Context(f, id) \o SubSeq(b, 1, i)]
  <2>1. id \in PartIds(f)
    BY <1>1
  <2>2. b \in Texts
    BY <2>1, ContextTyped
  <2>3. \A i \in 1..Len(b) : Context(f, id) \o SubSeq(b, 1, i) \in Texts
    <3>1. PICK l : l \in 1..NumLayers
      <4>1. 1 \in 1..NumLayers
        BY ConstantTypes
      <4>2. QED
        BY <4>1
    <3>2. QED
      BY <2>1, <3>1, RowTyped
  <2>4. s[p] = row
    BY <1>1 DEF Seen
  <2> HIDE DEF b, s, id
  <2>5. DOMAIN b = 1..Len(b) /\ Len(b) \in Nat
    BY <2>2 DEF Texts
  <2>6. row \in Seq(Texts) /\ Len(row) = Len(b)
    BY <2>3, <2>5
  <2>7. \A i \in 1..Len(b) : row[i] = Context(f, id) \o SubSeq(b, 1, i)
    BY <2>5
  <2> HIDE DEF row
  <2>8. QED
    BY <2>4, <2>5, <2>6, <2>7 DEF b, id
<1>3. s = [p \in 1..Len(ids) |-> s[p]]
  BY <1>1 DEF Seen
<1> HIDE DEF s
<1>4. s \in Seq(Seq(Texts)) /\ Len(s) = Len(ids)
  BY <1>1, <1>2, <1>3
<1>5. QED
  BY <1>1, <1>2, <1>4 DEF s

LEMMA ComposedOfExact ==
  ASSUME NEW f \in Facades, NEW ids \in Seq(PartIds(f)), NEW parts,
         parts = [p \in DOMAIN ids |-> Exact(f, ids[p])],
         NEW seen, seen = FlattenSeq(Seen(f, ids))
  PROVE  HasTheRowsOf(Compose(parts), seen)
<1> DEFINE s == Seen(f, ids)
           n == Len(ids)
           g == [x \in Texts |-> Last(x)]
           h(l) == [x \in Texts |-> [layer |-> l, seen |-> x]]
           texts == [p \in DOMAIN parts |-> parts[p].tokens]
           rows(l) == [p \in DOMAIN parts |-> parts[p].rows[l]]
<1>0. \A p \in 1..Len(ids) :
        /\ ids[p] \in PartIds(f)
        /\ DOMAIN TokensOf[ids[p]] = 1..Len(TokensOf[ids[p]])
        /\ Len(Seen(f, ids)[p]) = Len(TokensOf[ids[p]])
        /\ \A i \in 1..Len(TokensOf[ids[p]]) :
             Seen(f, ids)[p][i] = Context(f, ids[p]) \o SubSeq(TokensOf[ids[p]], 1, i)
  <2> HIDE DEF s, n, g, h, texts, rows
  <2>1. QED
    BY SeenTyped
<1>1. /\ DOMAIN ids = 1..n /\ n \in Nat /\ s \in Seq(Seq(Texts)) /\ Len(s) = n
      /\ DOMAIN parts = 1..n
  BY SeenTyped
<1>2. ASSUME NEW p \in 1..n
      PROVE  /\ DOMAIN TokensOf[ids[p]] = 1..Len(s[p])
             /\ parts[p].tokens = TokensOf[ids[p]]
             /\ \A l \in 1..NumLayers :
                  parts[p].rows[l] = [k \in 1..Len(s[p]) |-> Row(f, ids[p], l, k)]
             /\ \A k \in 1..Len(s[p]) :
                  /\ s[p][k] \in Texts
                  /\ s[p][k] = Context(f, ids[p]) \o SubSeq(TokensOf[ids[p]], 1, k)
                  /\ Last(s[p][k]) = TokensOf[ids[p]][k]
  <2> DEFINE id == ids[p]
             b == TokensOf[id]
  <2>1. /\ id \in PartIds(f) /\ DOMAIN b = 1..Len(b) /\ Len(s[p]) = Len(b)
        /\ \A k \in 1..Len(b) : s[p][k] = Context(f, id) \o SubSeq(b, 1, k)
    BY <1>0
  <2>2. parts[p] = Exact(f, id)
    BY <1>1
  <2>3. parts[p].tokens = b
    BY <2>2 DEF Exact
  <2>4. \A l \in 1..NumLayers : parts[p].rows[l] = [k \in DOMAIN b |-> Row(f, id, l, k)]
    BY <2>2 DEF Exact
  <2>5. s[p] \in Seq(Texts)
    <3> HIDE DEF s, n
    <3>1. QED
      BY <1>1, ElementOfSeq
  <2>6. ASSUME NEW k \in 1..Len(b)
        PROVE  /\ s[p][k] \in Texts
               /\ Last(Context(f, id) \o SubSeq(b, 1, k)) = b[k]
    <3> DEFINE All == UNION {ToSet(TokensOf[x]) : x \in Ids}
               a == Context(f, id)
               d == SubSeq(b, 1, k)
    <3>1. Texts = Seq(All) /\ a \in Texts /\ b \in Texts
      BY <2>1, ContextTyped DEF Texts
    <3>2. k \in 1..Len(s[p])
      BY <2>1
    <3>3. s[p][k] \in Texts
      <4> HIDE DEF s, b
      <4>1. QED
        BY <2>5, <3>2, ElementOfSeq
    <3> HIDE DEF All, a, b
    <3>4. Len(b) \in Nat /\ Len(a) \in Nat
      BY <3>1
    <3>5. d \in Seq(All) /\ Len(d) = k /\ d[k] = b[k]
      BY <3>1, <3>4
    <3> HIDE DEF d
    <3>6. /\ Len(a \o d) = Len(a) + Len(d)
          /\ \A j \in 1..Len(a) + Len(d) : (a \o d)[j] = IF j <= Len(a) THEN a[j] ELSE d[j - Len(a)]
      BY <3>1, <3>5, ConcatProperties
    <3>7. Len(a) + k \in 1..Len(a) + Len(d) /\ ~(Len(a) + k <= Len(a)) /\ Len(a) + k - Len(a) = k
      BY <3>4, <3>5
    <3>8. (a \o d)[Len(a \o d)] = b[k]
      BY <3>5, <3>6, <3>7
    <3>9. QED
      BY <3>3, <3>8 DEF Last, a, d
  <2> HIDE DEF b, id, s
  <2>7. \A l \in 1..NumLayers : parts[p].rows[l] = [k \in 1..Len(s[p]) |-> Row(f, id, l, k)]
    BY <2>1, <2>4
  <2>8. DOMAIN b = 1..Len(s[p])
    BY <2>1
  <2>9. \A k \in 1..Len(s[p]) :
           /\ s[p][k] \in Texts /\ s[p][k] = Context(f, id) \o SubSeq(b, 1, k)
           /\ Last(s[p][k]) = b[k]
    BY <2>1, <2>6
  <2>10. QED
    BY <2>3, <2>7, <2>8, <2>9 DEF b, id
<1> HIDE DEF s, n
<1>3. texts = MapEach(g, s)
  <2>1. ASSUME NEW p \in 1..n
        PROVE  parts[p].tokens = [k \in 1..Len(s[p]) |-> g[s[p][k]]]
    <3> DEFINE b == TokensOf[ids[p]]
    <3>1. b = [k \in DOMAIN b |-> b[k]] /\ DOMAIN b = 1..Len(s[p]) /\ parts[p].tokens = b
      <4>1. ids[p] \in PartIds(f)
        BY <1>1, SeenTyped
      <4>2. b \in Texts
        BY <4>1, ContextTyped
      <4> HIDE DEF b
      <4>3. b = [k \in DOMAIN b |-> b[k]]
        BY <4>2 DEF Texts
      <4>4. QED
        BY <1>2, <4>3 DEF b
    <3>2. \A k \in 1..Len(s[p]) : g[s[p][k]] = b[k]
      BY <1>2
    <3> HIDE DEF b, g
    <3>3. [k \in DOMAIN b |-> b[k]] = [k \in 1..Len(s[p]) |-> g[s[p][k]]]
      BY <3>1, <3>2
    <3>4. QED
      BY <3>1, <3>3
  <2> HIDE DEF g
  <2>2. QED
    BY <1>1, <2>1 DEF MapEach
<1>4. ASSUME NEW l \in 1..NumLayers PROVE rows(l) = MapEach(h(l), s)
  <2>1. ASSUME NEW p \in 1..n
        PROVE  parts[p].rows[l] = [k \in 1..Len(s[p]) |-> h(l)[s[p][k]]]
    <3>1. \A k \in 1..Len(s[p]) : h(l)[s[p][k]] = Row(f, ids[p], l, k)
      BY <1>2 DEF Row
    <3>2. parts[p].rows[l] = [k \in 1..Len(s[p]) |-> Row(f, ids[p], l, k)]
      BY <1>2
    <3> HIDE DEF h
    <3>3. QED
      BY <3>1, <3>2
  <2> HIDE DEF h
  <2>2. QED
    BY <1>1, <2>1 DEF MapEach
<1>5. seen = FlattenSeq(s)
  BY DEF s
<1>6. /\ seen \in Seq(Texts) /\ DOMAIN seen = 1..Len(seen)
      /\ FlattenSeq(texts) = [k \in 1..Len(seen) |-> g[seen[k]]]
  <2> DEFINE T == {Last(x) : x \in Texts}
  <2>1. g \in [Texts -> T]
    OBVIOUS
  <2> HIDE DEF g, texts, T
  <2>2. FlattenSeq(s) \in Seq(Texts) /\ FlattenSeq(MapEach(g, s)) = MapAll(g, FlattenSeq(s))
    BY <1>1, <2>1, FlattenMapped
  <2>3. FlattenSeq(texts) = MapAll(g, seen)
    BY <1>3, <1>5, <2>2
  <2>4. QED
    BY <1>5, <2>2, <2>3 DEF MapAll
<1>7. ASSUME NEW l \in 1..NumLayers
      PROVE  FlattenSeq(rows(l)) = [k \in 1..Len(seen) |-> h(l)[seen[k]]]
  <2> DEFINE g1 == h(l)
             t == rows(l)
             T == [layer : {l}, seen : Texts]
  <2>1. t = MapEach(g1, s)
    BY <1>4
  <2>2. g1 \in [Texts -> T]
    OBVIOUS
  <2> HIDE DEF g1, t, T
  <2>3. FlattenSeq(MapEach(g1, s)) = MapAll(g1, FlattenSeq(s))
    BY <1>1, <2>2, FlattenMapped
  <2>4. FlattenSeq(t) = MapAll(g1, seen)
    BY <1>5, <2>1, <2>3
  <2>5. QED
    BY <2>4 DEF MapAll, g1, t
<1>8. \A i \in DOMAIN seen : seen[i] \in Texts
  BY <1>6
<1>9. Compose(parts).tokens = [i \in DOMAIN seen |-> Last(seen[i])]
  <2>1. Compose(parts).tokens = FlattenSeq(texts)
    BY DEF Compose
  <2>2. \A i \in DOMAIN seen : g[seen[i]] = Last(seen[i])
    BY <1>8
  <2> HIDE DEF texts, g
  <2>3. QED
    BY <1>6, <2>1, <2>2
<1>10. ASSUME NEW l \in 1..NumLayers
       PROVE  Compose(parts).keys[l] = [i \in DOMAIN seen |->
                [row |-> [layer |-> l, seen |-> seen[i]], at |-> i]]
  <2> DEFINE flat == FlattenSeq(rows(l))
  <2>1. Compose(parts).keys[l] = [i \in DOMAIN flat |-> [row |-> flat[i], at |-> i]]
    BY DEF Compose
  <2>2. flat = [k \in DOMAIN seen |-> h(l)[seen[k]]]
    BY <1>6, <1>7
  <2>3. \A i \in DOMAIN seen : h(l)[seen[i]] = [layer |-> l, seen |-> seen[i]]
    BY <1>8
  <2> HIDE DEF flat, h
  <2>4. DOMAIN flat = DOMAIN seen /\ \A i \in DOMAIN seen : flat[i] = [layer |-> l, seen |-> seen[i]]
    BY <2>2, <2>3
  <2>5. QED
    BY <2>1, <2>4
<1>11. QED
  BY <1>9, <1>10 DEF HasTheRowsOf

-----------------------------------------------------------------------------
(* The facades.                                                            *)

LEMMA FieldsAt ==
  ASSUME FacadeTyped, NEW f \in Facades
  PROVE  /\ phase[f] \in {"open", "serving", "closed"}
         /\ encoder[f] \in {"none", "loaded", "released"}
         /\ scaffold[f] \in Seq(Parts) /\ chunks[f] \in Seq(Ids) /\ corpus[f] \in Seq(Parts)
         /\ bytes[f] \in Nat /\ doubtful[f] \in SUBSET {"overlap", "refused"}
         /\ Len(scaffold[f]) \in Nat /\ Len(chunks[f]) \in Nat /\ Len(corpus[f]) \in Nat
         /\ DOMAIN chunks[f] = 1..Len(chunks[f]) /\ DOMAIN corpus[f] = 1..Len(corpus[f])
<1>1. scaffold[f] \in Seq(Parts) /\ chunks[f] \in Seq(Ids) /\ corpus[f] \in Seq(Parts)
  BY DEF FacadeTyped
<1>2. /\ Len(scaffold[f]) \in Nat /\ Len(chunks[f]) \in Nat /\ Len(corpus[f]) \in Nat
      /\ DOMAIN chunks[f] = 1..Len(chunks[f]) /\ DOMAIN corpus[f] = 1..Len(corpus[f])
  BY <1>1
<1>3. QED
  BY <1>1, <1>2 DEF FacadeTyped

(* What a forward pass leaves alone, and what any step does of another      *)
(* facade's thread.                                                        *)
SameFacade(g) ==
  /\ phase'[g] = phase[g] /\ encoder'[g] = encoder[g] /\ scaffold'[g] = scaffold[g]
  /\ chunks'[g] = chunks[g] /\ corpus'[g] = corpus[g] /\ bytes'[g] = bytes[g]
  /\ call'[g] = call[g] /\ doubtful'[g] = doubtful[g]
SamePass(g) == (Capturing(g)' <=> Capturing(g)) /\ capture'[g].input = capture[g].input

LEMMA PartStays ==
  ASSUME NEW f \in Facades, NEW part, NEW id, IsPart(f, part, id), doubtful[f] \subseteq doubtful'[f]
  PROVE  IsPart(f, part, id)'
BY DEF IsPart

LEMMA SameFacadeKeeps ==
  ASSUME NEW g \in Facades, OwnInv(g), SameFacade(g), PassKnown(g)'
  PROVE  OwnInv(g)'
<1>1. /\ phase'[g] = phase[g] /\ encoder'[g] = encoder[g] /\ scaffold'[g] = scaffold[g]
      /\ chunks'[g] = chunks[g] /\ corpus'[g] = corpus[g] /\ bytes'[g] = bytes[g]
      /\ call'[g] = call[g] /\ doubtful'[g] = doubtful[g]
  BY DEF SameFacade
<1>2. CallTyped(g)'
  BY <1>1 DEF OwnInv, CallTyped
<1>3. ChunksKnown(g)'
  BY <1>1 DEF OwnInv, ChunksKnown
<1>4. PartsKnown(g)'
  BY <1>1, PartStays DEF OwnInv, PartsKnown
<1>5. Made(g)' = Made(g) /\ \A i : Upcoming(g, i)' = Upcoming(g, i)
  BY <1>1 DEF Made, Upcoming, PartToCome
<1>6. WorkKnown(g)'
  BY <1>1, <1>5, PartStays DEF OwnInv, WorkKnown
<1>7. BytesKnown(g)'
  BY <1>1 DEF OwnInv, BytesKnown, TokensHeld
<1>8. RowsKnown(g)'
  BY <1>1 DEF OwnInv, RowsKnown
<1>9. QED
  BY <1>2, <1>3, <1>4, <1>6, <1>7, <1>8 DEF OwnInv

LEMMA SameKeeps ==
  ASSUME NEW g \in Facades, OwnInv(g), SameFacade(g), SamePass(g)
  PROVE  OwnInv(g)'
<1>1. /\ encoder'[g] = encoder[g] /\ scaffold'[g] = scaffold[g] /\ chunks'[g] = chunks[g]
      /\ call'[g] = call[g]
  BY DEF SameFacade
<1>2. Made(g)' = Made(g) /\ \A i : Upcoming(g, i)' = Upcoming(g, i)
  BY <1>1 DEF Made, Upcoming, PartToCome
<1>3. PassKnown(g)'
  BY <1>1, <1>2 DEF OwnInv, PassKnown, SamePass
<1>4. QED
  BY <1>3, SameFacadeKeeps

(* What is left to show of a step of one facade's thread.                  *)
LEMMA StepKeeps ==
  ASSUME ProcessInv, NEW f \in Facades, CaptureInv', FacadeTyped', StoresKnown', OwnInv(f)',
         \A g \in Facades \ {f} : SameFacade(g) /\ SamePass(g)
  PROVE  ProcessInv'
<1>1. \A g \in Facades : OwnInv(g)'
  BY SameKeeps DEF ProcessInv
<1>2. QED
  BY <1>1 DEF ProcessInv

(* A step that changes what one facade is in, and no engine, leaves the    *)
(* stores as known.                                                        *)
LEMMA StoresStay ==
  ASSUME StoresKnown, UNCHANGED <<registry, stores, connector, phase>>,
         \A f \in Facades : call'[f].op = "generate" => call'[f] = call[f]
  PROVE  StoresKnown'
<1>1. \A f \in Facades : call'[f].op = "generate" => stores[registry[f]] = call'[f].memory
  BY DEF StoresKnown
<1>2. QED
  BY <1>1 DEF StoresKnown

(* A call that is over, with nothing captured any more.                    *)
LEMMA RestKeeps ==
  ASSUME NEW f \in Facades, OwnInv(f), call'[f] = Rest, ~Capturing(f)',
         phase'[f] = phase[f], scaffold'[f] = scaffold[f], chunks'[f] = chunks[f],
         corpus'[f] = corpus[f], bytes'[f] = bytes[f], doubtful'[f] = doubtful[f]
  PROVE  OwnInv(f)'
<1>1. call'[f].op = "rest"
  BY DEF Rest
<1>2. CallTyped(f)'
  BY DEF CallTyped
<1>3. ChunksKnown(f)'
  BY DEF OwnInv, ChunksKnown
<1>4. PartsKnown(f)'
  BY PartStays DEF OwnInv, PartsKnown
<1>5. WorkKnown(f)' /\ PassKnown(f)' /\ RowsKnown(f)'
  BY <1>1 DEF WorkKnown, PassKnown, RowsKnown
<1>6. BytesKnown(f)'
  BY DEF OwnInv, BytesKnown, TokensHeld
<1>7. QED
  BY <1>2, <1>3, <1>4, <1>5, <1>6 DEF OwnInv

(* The next part of an encode call.                                        *)
LEMMA NextPart ==
  ASSUME FacadeTyped, NEW f \in Facades, OwnInv(f), call[f].op = "encode"
  PROVE  /\ Made(f) \in 0..3 /\ (Made(f) < 3 <=> scaffold[f] = <<>>)
         /\ (Made(f) < 3 => Made(f) = Len(call[f].made))
         /\ Len(call[f].todo) \in Nat /\ Len(call[f].todo) >= 4 - Made(f)
         /\ Made(f) = 3 => Len(chunks[f]) + Len(call[f].todo) <= Len(Catalog[f])
         /\ Head(call[f].todo) = PlanOf(f, Upcoming(f, 1)) /\ Upcoming(f, 1) \in PartIds(f)
         /\ Made(f) < 3 => Upcoming(f, 1) = Scaffolding[Made(f) + 1]
         /\ Made(f) = 3 => Upcoming(f, 1) = Catalog[f][Len(chunks[f]) + 1]
         /\ Upcoming(f, 1) \in ToSet(Scaffolding) <=> Made(f) < 3
<1> DEFINE m == Made(f)
           k == Len(chunks[f])
           n == Len(call[f].todo)
           c == Len(Catalog[f])
<1>0. c \in Nat /\ k \in Nat
  BY CatalogParts, FieldsAt
<1>1. call[f].made \in Seq(Parts)
  BY DEF OwnInv, CallTyped, Rest
<1>2. Len(call[f].made) \in Nat
  BY <1>1
<1>3. m \in 0..3 /\ (m < 3 <=> scaffold[f] = <<>>) /\ (m < 3 => m = Len(call[f].made))
  <2>1. scaffold[f] = <<>> => Len(call[f].made) < 3
    BY DEF OwnInv, WorkKnown
  <2>2. m = IF scaffold[f] = <<>> THEN Len(call[f].made) ELSE 3
    BY DEF Made
  <2> HIDE DEF m
  <2>3. CASE scaffold[f] = <<>>
    <3>1. m = Len(call[f].made) /\ Len(call[f].made) < 3
      BY <2>1, <2>2, <2>3
    <3>2. PICK x \in Nat : x = Len(call[f].made)
      BY <1>2
    <3>3. m = x /\ x < 3
      BY <3>1, <3>2
    <3>4. m \in 0..3 /\ m < 3
      BY <3>3
    <3>5. QED
      BY <2>3, <3>1, <3>4
  <2>4. CASE scaffold[f] # <<>>
    <3>1. m = 3
      BY <2>2, <2>4
    <3>2. m \in 0..3 /\ ~(m < 3)
      BY <3>1
    <3>3. QED
      BY <2>4, <3>1, <3>2
  <2>5. QED
    BY <2>3, <2>4
<1>4. /\ n \in 4 - m..3 - m + c - k
      /\ call[f].todo = [i \in 1..n |-> PlanOf(f, Upcoming(f, i))]
  BY DEF OwnInv, WorkKnown, IsWork, Upcoming
<1>5. n \in Nat /\ n >= 4 - m /\ n >= 1 /\ n - (3 - m) <= c - k
  <2> HIDE DEF m, n, c, k
  <2>1. QED
    BY <1>0, <1>3, <1>4
<1>6. Head(call[f].todo) = PlanOf(f, Upcoming(f, 1))
  <2>1. 1 \in 1..n
    BY <1>5
  <2> HIDE DEF n
  <2>2. call[f].todo[1] = PlanOf(f, Upcoming(f, 1))
    BY <1>4, <2>1
  <2>3. QED
    BY <2>2
<1>7. CASE m < 3
  <2>1. 1 <= 3 - m /\ m + 1 \in 1..3
    BY <1>3, <1>7
  <2>2. Upcoming(f, 1) = Scaffolding[m + 1]
    BY <2>1 DEF Upcoming, PartToCome
  <2>3. Scaffolding[m + 1] \in PartIds(f) /\ Scaffolding[m + 1] \in ToSet(Scaffolding)
    BY <2>1, PartIdsAre, ScaffoldingParts
  <2> HIDE DEF m, k, n
  <2>4. m # 3
    BY <1>3, <1>7
  <2>5. QED
    BY <1>3, <1>5, <1>6, <1>7, <2>2, <2>3, <2>4 DEF m, k, n
<1>8. CASE m = 3
  <2>1. ~(1 <= 3 - m) /\ k + 1 - (3 - m) = k + 1 /\ k + 1 \in 1..c
    <3> HIDE DEF m, n, c, k
    <3>1. QED
      BY <1>0, <1>5, <1>8
  <2>2. Upcoming(f, 1) = Catalog[f][k + 1]
    BY <2>1 DEF Upcoming, PartToCome
  <2>3. Catalog[f][k + 1] \in PartIds(f) /\ Catalog[f][k + 1] \notin ToSet(Scaffolding)
    BY <2>1, PartIdsAre, CatalogParts
  <2> HIDE DEF m, k, n, c
  <2>4. k + n <= c
    BY <1>0, <1>5, <1>8
  <2>5. ~(m < 3)
    BY <1>8
  <2>6. QED
    BY <1>3, <1>5, <1>6, <1>8, <2>2, <2>3, <2>4, <2>5 DEF m, k, n, c
<1>9. m < 3 \/ m = 3
  <2> HIDE DEF m
  <2>1. QED
    BY <1>3
<1>10. QED
  BY <1>7, <1>8, <1>9

-----------------------------------------------------------------------------
(* The forward passes.                                                     *)

LEMMA InputTyped ==
  ASSUME NEW f \in Facades, NEW id \in PartIds(f)
  PROVE  PlanOf(f, id).input \in Texts
<1> DEFINE All == UNION {ToSet(TokensOf[x]) : x \in Ids}
           a == Context(f, id)
           b == TokensOf[id]
<1>1. Texts = Seq(All) /\ a \in Texts /\ b \in Texts
  BY ContextTyped DEF Texts
<1>2. PlanOf(f, id).input = a \o b
  BY DEF PlanOf, PlanAfter
<1> HIDE DEF All, a, b
<1>3. QED
  BY <1>1, <1>2, ConcatProperties

(* A step of a forward pass changes nothing but captures.                  *)
LEMMA PassStepKeeps ==
  ASSUME ProcessInv, NEW f \in Facades, CaptureInv', Pass(f), PassKnown(f)',
         \A g \in Facades \ {f} : SamePass(g)
  PROVE  ProcessInv'
<1>1. /\ UNCHANGED <<registry, stores, connector, phase>> /\ UNCHANGED <<encoder, scaffold>>
      /\ UNCHANGED <<chunks, corpus, bytes>> /\ UNCHANGED <<call, doubtful>>
  BY DEF Pass, hostVars, facadeVars
<1>2. FacadeTyped'
  BY <1>1 DEF ProcessInv, FacadeTyped
<1>3. StoresKnown'
  BY <1>1, StoresStay DEF ProcessInv
<1>4. \A g \in Facades : SameFacade(g)
  BY <1>1 DEF SameFacade
<1>5. OwnInv(f)'
  BY <1>4, SameFacadeKeeps DEF ProcessInv
<1>6. QED
  BY <1>2, <1>3, <1>4, <1>5, StepKeeps

LEMMA OthersPass ==
  ASSUME ProcessInv, NEW f \in Facades, NEW g \in Facades \ {f},
         \/ \E input : Look(f, input)
         \/ Patch(f) \/ Rotate(f) \/ Restore(f)
         \/ ImportRaises(f) \/ ForwardRaises(f) \/ Collect(f)
  PROVE  SamePass(g)
BY OthersKeepCapturing DEF ProcessInv, SamePass, Facades

LEMMA BeginPassKeeps ==
  ASSUME ProcessInv, NEW f \in Facades, BeginPass(f)
  PROVE  ProcessInv'
<1>1. /\ call[f].op = "encode" /\ encoder[f] = "loaded" /\ Look(f, Head(call[f].todo).input)
      /\ Pass(f)
  BY DEF BeginPass
<1>2. FacadeTyped /\ OwnInv(f) /\ CaptureInv
  BY DEF ProcessInv
<1>3. PICK x : x = PlanOf(f, Upcoming(f, 1)).input
  OBVIOUS
<1>4. Head(call[f].todo).input = x /\ x \in Texts
  BY <1>1, <1>2, <1>3, NextPart, InputTyped
<1>5. Look(f, x)
  BY <1>1, <1>4
<1>6. CaptureInv'
  BY <1>2, <1>4, <1>5, LookKeeps DEF Facades
<1>7. \A g \in Facades \ {f} : SamePass(g)
  BY <1>5, OthersPass
<1>8. capture'[f].input = x
  BY <1>5 DEF Look, NoCapture, Facades
<1>9. PassKnown(f)'
  <2>1. UNCHANGED <<encoder, scaffold, chunks, call>>
    BY <1>1 DEF Pass, facadeVars
  <2>2. Made(f)' = Made(f)
    BY <2>1 DEF Made
  <2>3. Upcoming(f, 1)' = Upcoming(f, 1)
    BY <2>1, <2>2 DEF Upcoming, PartToCome
  <2>4. QED
    BY <1>1, <1>3, <1>8, <2>1, <2>3 DEF PassKnown
<1>10. QED
  BY <1>1, <1>6, <1>7, <1>9, PassStepKeeps

LEMMA ForwardKeeps ==
  ASSUME ProcessInv, NEW f \in Facades, Forward(f)
  PROVE  ProcessInv'
<1>1. (Patch(f) \/ Rotate(f) \/ Restore(f)) /\ Pass(f)
  BY DEF Forward
<1>2. OwnInv(f) /\ CaptureInv /\ f \in Threads
  BY DEF ProcessInv, Facades
<1>3. CaptureInv'
  BY <1>1, <1>2, PatchKeeps, RotateKeeps, RestoreKeeps
<1>4. \A g \in Facades \ {f} : SamePass(g)
  BY <1>1, OthersPass
<1>5. Capturing(f) /\ capture'[f].input = capture[f].input
  <2>1. capture \in [Threads -> Captures] /\ capture[f] \in Captures
    BY <1>2 DEF CaptureInv, CaptureTyped
  <2>2. CASE Patch(f) \/ Restore(f)
    BY <1>2, <2>1, <2>2 DEF Patch, Restore, Capturing, Captures
  <2>3. CASE Rotate(f)
    BY <1>2, <2>1, <2>3 DEF Rotate, Capturing, Captures
  <2>4. QED
    BY <1>1, <2>2, <2>3
<1>6. PassKnown(f)'
  <2>1. UNCHANGED <<encoder, scaffold, chunks, call>>
    BY <1>1 DEF Pass, facadeVars
  <2>2. Made(f)' = Made(f)
    BY <2>1 DEF Made
  <2>3. Upcoming(f, 1)' = Upcoming(f, 1)
    BY <2>1, <2>2 DEF Upcoming, PartToCome
  <2>4. QED
    BY <1>2, <1>5, <2>1, <2>3 DEF OwnInv, PassKnown
<1>7. QED
  BY <1>1, <1>3, <1>4, <1>6, PassStepKeeps

LEMMA CallAt ==
  ASSUME FacadeTyped, NEW f \in Facades, NEW v, call' = [call EXCEPT ![f] = v]
  PROVE  call'[f] = v /\ DOMAIN call' = Facades /\ \A g \in Facades \ {f} : call'[g] = call[g]
BY DEF FacadeTyped

LEMMA CallEnds ==
  ASSUME ProcessInv, NEW f \in Facades, CaptureInv', ~Capturing(f)',
         call' = [call EXCEPT ![f] = Rest],
         UNCHANGED <<hostVars, phase, encoder, scaffold, chunks, corpus, bytes, doubtful>>,
         \A g \in Facades \ {f} : SamePass(g)
  PROVE  ProcessInv'
<1>1. /\ UNCHANGED <<registry, stores, connector, phase>> /\ UNCHANGED <<encoder, scaffold>>
      /\ UNCHANGED <<chunks, corpus, bytes, doubtful>>
  BY DEF hostVars
<1>2. FacadeTyped /\ OwnInv(f) /\ StoresKnown
  BY DEF ProcessInv
<1>3. call'[f] = Rest /\ DOMAIN call' = Facades /\ \A g \in Facades \ {f} : call'[g] = call[g]
  BY <1>2, CallAt
<1>4. FacadeTyped'
  BY <1>1, <1>2, <1>3 DEF FacadeTyped
<1>5. OwnInv(f)'
  BY <1>1, <1>2, <1>3, RestKeeps
<1>6. \A g \in Facades \ {f} : SameFacade(g)
  BY <1>1, <1>3 DEF SameFacade
<1>7. StoresKnown'
  <2>1. \A g \in Facades : call'[g].op = "generate" => call'[g] = call[g]
    BY <1>3 DEF Rest
  <2>2. QED
    BY <1>1, <1>2, <2>1, StoresStay
<1>8. QED
  BY <1>4, <1>5, <1>6, <1>7, StepKeeps

LEMMA SameRope ==
  ASSUME UNCHANGED ropeVars, CaptureInv
  PROVE  CaptureInv' /\ \A g \in Facades : SamePass(g)
<1>1. UNCHANGED <<fn, capture, upsets>>
  BY DEF ropeVars
<1>2. CaptureInv'
  BY <1>1 DEF CaptureInv, CaptureTyped, OverlapKnown, KeysOwn, PatchKnown, Capturing
<1>3. QED
  BY <1>1, <1>2 DEF SamePass, Capturing

LEMMA EncodeRefusedKeeps ==
  ASSUME ProcessInv, NEW f \in Facades, EncodeRefused(f)
  PROVE  ProcessInv'
<1>1. /\ encoder[f] # "loaded" /\ call' = [call EXCEPT ![f] = Rest] /\ UNCHANGED ropeVars
      /\ UNCHANGED <<hostVars, phase, encoder, scaffold, chunks, corpus, bytes, doubtful>>
  BY DEF EncodeRefused
<1>2. CaptureInv' /\ \A g \in Facades : SamePass(g)
  BY <1>1, SameRope DEF ProcessInv
<1>3. ~Capturing(f)'
  BY <1>1, <1>2 DEF ProcessInv, OwnInv, PassKnown, SamePass
<1>4. QED
  BY <1>1, <1>2, <1>3, CallEnds

LEMMA PassRaisesKeeps ==
  ASSUME ProcessInv, NEW f \in Facades, PassRaises(f)
  PROVE  ProcessInv'
<1>1. /\ ImportRaises(f) \/ ForwardRaises(f)
      /\ call' = [call EXCEPT ![f] = Rest]
      /\ UNCHANGED <<hostVars, phase, encoder, scaffold, chunks, corpus, bytes, doubtful>>
  BY DEF PassRaises
<1>2. CaptureInv'
  BY <1>1, RaisesKeep DEF ProcessInv, Facades
<1>3. ~Capturing(f)'
  <2>1. \E w : EndCapture(f, w)
    BY <1>1 DEF ImportRaises, ForwardRaises
  <2>2. QED
    BY <2>1 DEF EndCapture, Capturing, NoCapture, Facades
<1>4. \A g \in Facades \ {f} : SamePass(g)
  BY <1>1, OthersPass
<1>5. QED
  BY <1>1, <1>2, <1>3, <1>4, CallEnds

-----------------------------------------------------------------------------
(* A call of precompute begins.                                            *)

IsTodo(f, k, n, m, todo) ==
  todo = (IF m = 0 THEN ScaffoldPlans ELSE <<>>) \o PlansFor(f, SubSeq(Catalog[f], k + 1, k + n))

LEMMA PlannedWork ==
  ASSUME NEW f \in Facades, NEW k \in 0..Len(Catalog[f]), NEW n \in 1..Len(Catalog[f]) - k,
         NEW m \in {0, 3}, chunks[f] = SubSeq(Catalog[f], 1, k),
         NEW todo, IsTodo(f, k, n, m, todo)
  PROVE  Len(todo) = 3 - m + n /\ IsWork(f, k, m, todo)
<1> DEFINE a == IF m = 0 THEN ScaffoldPlans ELSE <<>>
           b == PlansFor(f, SubSeq(Catalog[f], k + 1, k + n))
           S == {PlanOf(f, id) : id \in PartIds(f)}
           c == Len(Catalog[f])
<1>1. c \in Nat /\ n \in Nat /\ \A i \in 1..n : k + i \in 1..c
  <2>1. c \in Nat
    BY CatalogParts
  <2> HIDE DEF c
  <2>2. QED
    BY <2>1 DEF c
<1>2. b = [i \in 1..n |-> PlanOf(f, Catalog[f][k + i])]
  BY PlansForAre
<1>3. /\ a \in Seq(S) /\ Len(a) = 3 - m
      /\ \A i \in 1..3 - m : a[i] = PlanOf(f, Scaffolding[m + i])
  <2>1. CASE m = 0
    <3>1. a = [i \in 1..3 |-> PlanOf(f, Scaffolding[i])]
      BY <2>1, ScaffoldPlansAre
    <3>2. \A i \in 1..3 : PlanOf(f, Scaffolding[i]) \in S
      BY PartIdsAre
    <3> HIDE DEF a, S
    <3>3. QED
      BY <2>1, <3>1, <3>2
  <2>2. CASE m = 3
    BY <2>2
  <2>3. QED
    BY <2>1, <2>2
<1>4. \A i \in 1..n : PlanOf(f, Catalog[f][k + i]) \in S
  BY <1>1, PartIdsAre
<1> HIDE DEF a, b, S, c
<1>5. b \in Seq(S) /\ Len(b) = n /\ \A i \in 1..n : b[i] = PlanOf(f, Catalog[f][k + i])
  BY <1>1, <1>2, <1>4
<1>6. /\ a \o b \in Seq(S) /\ Len(a \o b) = Len(a) + Len(b)
      /\ \A i \in 1..Len(a) + Len(b) : (a \o b)[i] = IF i <= Len(a) THEN a[i] ELSE b[i - Len(a)]
  BY <1>3, <1>5, ConcatProperties
<1>7. todo = a \o b
  BY Zenon DEF IsTodo, a, b
<1>8. /\ todo \in Seq(S) /\ Len(todo) = 3 - m + n
      /\ \A i \in 1..3 - m + n : todo[i] = IF i <= 3 - m THEN a[i] ELSE b[i - (3 - m)]
  BY <1>3, <1>5, <1>6, <1>7
<1>9. ASSUME NEW i \in 1..3 - m + n
      PROVE  todo[i] = PlanOf(f, PartToCome(f, k, m, i))
  <2>1. CASE i <= 3 - m
    <3>1. i \in 1..3 - m
      BY <2>1
    <3>2. PartToCome(f, k, m, i) = Scaffolding[m + i]
      BY <2>1 DEF PartToCome
    <3>3. todo[i] = a[i]
      BY <1>8, <2>1
    <3>4. QED
      BY <1>3, <3>1, <3>2, <3>3
  <2>2. CASE ~(i <= 3 - m)
    <3>1. i - (3 - m) \in 1..n /\ k + (i - (3 - m)) = k + i - (3 - m)
      BY <1>1, <2>2
    <3>2. b[i - (3 - m)] = PlanOf(f, Catalog[f][k + (i - (3 - m))])
      BY <1>5, <3>1
    <3>3. PartToCome(f, k, m, i) = Catalog[f][k + i - (3 - m)]
      BY <2>2 DEF PartToCome
    <3>4. todo[i] = b[i - (3 - m)]
      BY <1>8, <2>2
    <3>5. QED
      BY <3>1, <3>2, <3>3, <3>4
  <2>3. QED
    BY <2>1, <2>2
<1>10. todo = [i \in 1..Len(todo) |-> PlanOf(f, PartToCome(f, k, m, i))]
  <2>1. todo = [i \in 1..Len(todo) |-> todo[i]]
    BY <1>8
  <2>2. QED
    BY <1>8, <1>9, <2>1
<1>11. QED
  BY <1>8, <1>10 DEF IsWork

LEMMA PrecomputeKeeps ==
  ASSUME ProcessInv, NEW f \in Facades, NEW n \in 1..Len(Catalog[f]), Precompute(f, n)
  PROVE  ProcessInv'
<1> DEFINE k == Len(chunks[f])
           todo == (IF scaffold[f] = <<>> THEN ScaffoldPlans ELSE <<>>)
                     \o PlansFor(f, SubSeq(Catalog[f], k + 1, k + n))
<1>1. /\ phase[f] = "open" /\ call[f] = Rest /\ k + n <= Len(Catalog[f])
      /\ encoder' = [encoder EXCEPT ![f] = IF @ = "none" THEN "loaded" ELSE @]
      /\ call' = [call EXCEPT ![f] = [op |-> "encode", made |-> <<>>, todo |-> todo]]
      /\ UNCHANGED ropeVars /\ UNCHANGED <<registry, stores, connector, phase>>
      /\ UNCHANGED <<scaffold, chunks, corpus, bytes, doubtful>>
  BY DEF Precompute, AtRest
<1>2. FacadeTyped /\ OwnInv(f) /\ StoresKnown /\ CaptureInv
  BY DEF ProcessInv
<1>3. CaptureInv' /\ \A g \in Facades : SamePass(g)
  BY <1>1, <1>2, SameRope
<1>4. k \in Nat /\ Len(Catalog[f]) \in Nat
  BY <1>2, FieldsAt, CatalogParts
<1>5. PICK m \in {0, 3} : m = IF scaffold[f] = <<>> THEN 0 ELSE 3
  OBVIOUS
<1>6. Len(todo) = 3 - m + n /\ IsWork(f, k, m, todo)
  <2>1. k \in 0..Len(Catalog[f]) /\ n \in 1..Len(Catalog[f]) - k
    BY <1>1, <1>4
  <2>2. chunks[f] = SubSeq(Catalog[f], 1, k)
    BY <1>2 DEF OwnInv, ChunksKnown
  <2>3. m = 0 <=> scaffold[f] = <<>>
    BY <1>5
  <2>4. IsTodo(f, k, n, m, todo)
    BY <2>3, Zenon DEF IsTodo
  <2> HIDE DEF todo, k
  <2>5. QED
    BY <2>1, <2>2, <2>4, PlannedWork
<1> HIDE DEF todo
<1>7. PICK c : c = [op |-> "encode", made |-> <<>>, todo |-> todo]
  OBVIOUS
<1>8. call'[f] = c /\ DOMAIN call' = Facades /\ \A g \in Facades \ {f} : call'[g] = call[g]
  BY <1>1, <1>2, <1>7, CallAt
<1>9. /\ c.op = "encode" /\ c.made = <<>> /\ c.todo = todo
  BY <1>7
<1>10. FacadeTyped'
  <2>1. encoder' \in [Facades -> {"none", "loaded", "released"}]
    BY <1>1, <1>2 DEF FacadeTyped
  <2>2. QED
    BY <1>1, <1>2, <1>8, <2>1 DEF FacadeTyped
<1>11. StoresKnown'
  <2>1. \A g \in Facades : call'[g].op = "generate" => call'[g] = call[g]
    BY <1>8, <1>9
  <2>2. QED
    BY <1>1, <1>2, <2>1, StoresStay
<1>12. \A g \in Facades \ {f} : SameFacade(g)
  BY <1>1, <1>2, <1>8 DEF SameFacade, FacadeTyped
<1>13. Made(f)' = m
  BY <1>1, <1>5, <1>8, <1>9 DEF Made
<1>14. CallTyped(f)'
  <2>1. <<>> \in Seq(Parts)
    OBVIOUS
  <2>2. QED
    BY <1>1, <1>7, <1>8, <1>9, <2>1 DEF CallTyped
<1>15. ChunksKnown(f)'
  BY <1>1, <1>2 DEF OwnInv, ChunksKnown
<1>16. PartsKnown(f)'
  BY <1>1, <1>2, PartStays DEF OwnInv, PartsKnown
<1>17. WorkKnown(f)'
  <2>3. Len(todo) \in 4 - m..3 - m + Len(Catalog[f]) - k
    <3>1. PICK w : w = Len(Catalog[f])
      OBVIOUS
    <3>2. PICK l : l = Len(todo)
      OBVIOUS
    <3> HIDE DEF k
    <3>3. k + n <= w /\ w \in Nat /\ k \in Nat /\ l = 3 - m + n /\ n \in 1..w
      BY <1>1, <1>4, <1>6, <3>1, <3>2 DEF k
    <3>4. l \in 4 - m..3 - m + w - k
      BY <3>3
    <3>5. QED
      BY <3>1, <3>2, <3>4
  <2>4. Len(<<>>) < 3 /\ \A j \in 1..Len(<<>>) : FALSE
    OBVIOUS
  <2>5. /\ call'[f].todo = todo /\ call'[f].made = <<>> /\ call'[f].op = "encode"
        /\ Len(chunks'[f]) = k
    BY <1>1, <1>8, <1>9
  <2>6. (/\ Len(call[f].made) < 3
         /\ \A j \in 1..Len(call[f].made) : IsPart(f, call[f].made[j], Scaffolding[j]))'
    BY <2>4, <2>5
  <2>7. IsWork(f, Len(chunks[f]), Made(f), call[f].todo)'
    BY <1>6, <1>13, <2>5
  <2>8. (Len(call[f].todo) \in 4 - Made(f)..3 - Made(f) + Len(Catalog[f]) - Len(chunks[f]))'
    BY <1>13, <2>3, <2>5
  <2>9. QED
    BY <2>6, <2>7, <2>8 DEF WorkKnown
<1>18. PassKnown(f)'
  <2>1. ~Capturing(f)
    BY <1>1, <1>2 DEF OwnInv, PassKnown, Rest
  <2>2. QED
    BY <1>3, <2>1 DEF PassKnown, SamePass
<1>19. BytesKnown(f)'
  BY <1>1, <1>2 DEF OwnInv, BytesKnown, TokensHeld
<1>20. RowsKnown(f)'
  BY <1>8, <1>9 DEF RowsKnown
<1>21. OwnInv(f)'
  BY <1>14, <1>15, <1>16, <1>17, <1>18, <1>19, <1>20 DEF OwnInv
<1>22. QED
  BY <1>3, <1>10, <1>11, <1>12, <1>21, StepKeeps
-----------------------------------------------------------------------------
(* Starting, answering and closing.                                        *)

LEMMA StoresAt ==
  ASSUME StoresKnown, NEW f \in Facades
  PROVE  /\ registry[f] \in 0..Cardinality(Facades) /\ Cardinality(Facades) \in Nat
         /\ DOMAIN registry = Facades /\ DOMAIN connector = Facades
         /\ DOMAIN stores = 1..Cardinality(Facades)
         /\ phase[f] # "closed" => registry[f] \in 1..Cardinality(Facades)
<1>1. Cardinality(Facades) \in Nat
  BY ConstantTypes, FS_CardinalityType
<1>2. Namespaces = Facades
  BY ConstantTypes
<1>3. registry[f] \in 0..Cardinality(Facades) /\ (phase[f] # "closed" => registry[f] # 0)
  BY <1>2 DEF StoresKnown
<1>4. DOMAIN registry = Facades /\ DOMAIN connector = Facades /\ DOMAIN stores = 1..Cardinality(Facades)
  BY <1>2 DEF StoresKnown
<1>5. QED
  BY <1>1, <1>3, <1>4

LEMMA AnsweringServes ==
  ASSUME ProcessInv, NEW g \in Facades, call[g].op \in {"register", "generate"}
  PROVE  phase[g] = "serving"
<1>1. CallTyped(g)
  BY DEF ProcessInv, OwnInv
<1>2. QED
  BY <1>1 DEF CallTyped, Rest

LEMMA StartKeeps ==
  ASSUME ProcessInv, NEW f \in Facades, Start(f)
  PROVE  ProcessInv'
<1>1. /\ phase[f] = "open" /\ call[f] = Rest /\ chunks[f] # <<>>
      /\ encoder' = [encoder EXCEPT ![f] = "released"]
      /\ \/ StartEngine(f) /\ phase' = [phase EXCEPT ![f] = "serving"]
         \/ EngineFails(f) /\ UNCHANGED phase
      /\ UNCHANGED ropeVars /\ UNCHANGED <<scaffold, chunks, corpus, bytes, call, doubtful>>
  BY DEF Start, AtRest
<1>2. FacadeTyped /\ OwnInv(f) /\ StoresKnown /\ CaptureInv
  BY DEF ProcessInv
<1>3. CaptureInv' /\ \A g \in Facades : SamePass(g)
  BY <1>1, <1>2, SameRope
<1>4. registry[f] # 0
  BY <1>1, <1>2 DEF StoresKnown
<1>5. /\ UNCHANGED <<registry, stores>>
      /\ \/ phase' = [phase EXCEPT ![f] = "serving"]
              /\ connector' = [connector EXCEPT ![f] = registry[f]]
         \/ UNCHANGED <<phase, connector>>
  <2>1. CASE StartEngine(f) /\ phase' = [phase EXCEPT ![f] = "serving"]
    <3>1. envs' = "off"
      BY <2>1 DEF StartEngine, ForceInprocessMode
    <3>2. GetOrCreate(f) /\ connector' = [connector EXCEPT ![f] = registry'[f]]
      BY <2>1, <3>1 DEF StartEngine
    <3>3. UNCHANGED <<registry, stores>>
      BY <1>4, <3>2 DEF GetOrCreate
    <3>4. QED
      BY <2>1, <3>2, <3>3
  <2>2. CASE EngineFails(f) /\ UNCHANGED phase
    BY <2>2 DEF EngineFails
  <2>3. QED
    BY <1>1, <2>1, <2>2
<1>6. /\ phase' \in [Facades -> {"open", "serving", "closed"}] /\ phase'[f] \in {"open", "serving"}
      /\ \A g \in Facades \ {f} : phase'[g] = phase[g]
  BY <1>1, <1>2, <1>5 DEF FacadeTyped
<1>7. FacadeTyped'
  <2>1. encoder' \in [Facades -> {"none", "loaded", "released"}]
    BY <1>1, <1>2 DEF FacadeTyped
  <2>2. QED
    BY <1>1, <1>2, <1>6, <2>1 DEF FacadeTyped
<1>8. StoresKnown'
  <2>1. /\ connector' \in [Namespaces -> 0..Cardinality(Namespaces)]
        /\ connector'[f] \in {connector[f], registry[f]}
        /\ phase'[f] = "serving" => connector'[f] = registry[f]
        /\ \A g \in Facades \ {f} : connector'[g] = connector[g]
    <3>1. /\ connector \in [Facades -> 0..Cardinality(Facades)]
          /\ registry[f] \in 0..Cardinality(Facades)
      BY <1>2, ConstantTypes DEF StoresKnown
    <3>2. CASE connector' = [connector EXCEPT ![f] = registry[f]]
      BY <3>1, <3>2, ConstantTypes
    <3>3. CASE UNCHANGED <<phase, connector>>
      BY <1>1, <3>1, <3>3, ConstantTypes
    <3>4. QED
      BY <1>5, <3>2, <3>3
  <2>2. /\ UNCHANGED <<registry, stores, call>>
        /\ \A g \in Facades : phase'[g] # "closed" => phase[g] # "closed"
    BY <1>1, <1>5, <1>6
  <2>3. QED
    BY <1>2, <1>6, <2>1, <2>2 DEF StoresKnown
<1>9. \A g \in Facades \ {f} : SameFacade(g)
  BY <1>1, <1>2, <1>6 DEF SameFacade, FacadeTyped
<1>10. call'[f] = Rest /\ call[f].op = "rest"
  BY <1>1 DEF Rest
<1>11. ~Capturing(f)'
  BY <1>2, <1>3, <1>10 DEF OwnInv, PassKnown, SamePass
<1>12. CallTyped(f)'
  BY <1>10 DEF CallTyped
<1>13. ChunksKnown(f)'
  BY <1>1, <1>2 DEF OwnInv, ChunksKnown
<1>14. PartsKnown(f)'
  BY <1>1, <1>2, <1>6, PartStays DEF OwnInv, PartsKnown
<1>15. WorkKnown(f)' /\ PassKnown(f)' /\ RowsKnown(f)'
  BY <1>1, <1>10, <1>11 DEF WorkKnown, PassKnown, RowsKnown
<1>16. BytesKnown(f)'
  BY <1>1, <1>2 DEF OwnInv, BytesKnown, TokensHeld
<1>17. OwnInv(f)'
  BY <1>12, <1>13, <1>14, <1>15, <1>16 DEF OwnInv
<1>18. QED
  BY <1>3, <1>7, <1>8, <1>9, <1>17, StepKeeps

(* A step from one point of an answer to the next.                         *)
LEMMA AnswerStepKeeps ==
  ASSUME ProcessInv, NEW f \in Facades, NEW c, call' = [call EXCEPT ![f] = c],
         call[f].op # "encode", c.op # "encode",
         UNCHANGED ropeVars, UNCHANGED <<phase, encoder, scaffold, chunks, corpus, bytes, doubtful>>,
         CallTyped(f)', RowsKnown(f)', StoresKnown'
  PROVE  ProcessInv'
<1>1. FacadeTyped /\ OwnInv(f) /\ CaptureInv
  BY DEF ProcessInv
<1>2. CaptureInv' /\ \A g \in Facades : SamePass(g)
  BY <1>1, SameRope
<1>3. call'[f] = c /\ DOMAIN call' = Facades /\ \A g \in Facades \ {f} : call'[g] = call[g]
  BY <1>1, CallAt
<1>4. FacadeTyped'
  BY <1>1, <1>3 DEF FacadeTyped
<1>5. \A g \in Facades \ {f} : SameFacade(g)
  BY <1>3 DEF SameFacade
<1>6. ~Capturing(f)'
  BY <1>1, <1>2 DEF OwnInv, PassKnown, SamePass
<1>7. ChunksKnown(f)'
  BY <1>1 DEF OwnInv, ChunksKnown
<1>8. PartsKnown(f)'
  BY <1>1, PartStays DEF OwnInv, PartsKnown
<1>9. WorkKnown(f)' /\ PassKnown(f)'
  BY <1>3, <1>6 DEF WorkKnown, PassKnown
<1>10. BytesKnown(f)'
  BY <1>1 DEF OwnInv, BytesKnown, TokensHeld
<1>11. OwnInv(f)'
  BY <1>7, <1>8, <1>9, <1>10 DEF OwnInv
<1>12. QED
  BY <1>2, <1>4, <1>5, <1>11, StepKeeps

LEMMA RegisterKeeps ==
  ASSUME ProcessInv, NEW f \in Facades, Register(f)
  PROVE  ProcessInv'
<1>1. /\ call[f].op = "register" /\ RegisterMemory(f, call[f].memory)
      /\ call' = [call EXCEPT ![f].op = "generate"]
      /\ UNCHANGED ropeVars /\ UNCHANGED <<phase, encoder, scaffold, chunks, corpus, bytes, doubtful>>
  BY DEF Register
<1>2. FacadeTyped /\ OwnInv(f) /\ StoresKnown
  BY DEF ProcessInv
<1>3. PICK c : c = [op |-> "generate", ids |-> call[f].ids, memory |-> call[f].memory]
  OBVIOUS
<1>4. c.op = "generate" /\ c.ids = call[f].ids /\ c.memory = call[f].memory
  BY <1>3
<1>5. call[f] = [op |-> "register", ids |-> call[f].ids, memory |-> call[f].memory]
      /\ phase[f] = "serving"
  BY <1>1, <1>2 DEF OwnInv, CallTyped, Rest
<1>6. call' = [call EXCEPT ![f] = c]
  <2>1. [call[f] EXCEPT !.op = "generate"] = c
    BY <1>3, <1>5
  <2>2. QED
    BY <1>1, <2>1
<1>7. call'[f] = c /\ DOMAIN call' = Facades /\ \A g \in Facades \ {f} : call'[g] = call[g]
  BY <1>2, <1>6, CallAt
<1>8. CallTyped(f)'
  BY <1>1, <1>3, <1>4, <1>5, <1>7 DEF CallTyped
<1>9. RowsKnown(f)'
  BY <1>1, <1>2, <1>4, <1>7 DEF OwnInv, RowsKnown
<1>10. StoresKnown'
  <2>1. UNCHANGED <<registry, connector>> /\ stores' = [stores EXCEPT ![registry[f]] = call[f].memory]
    BY <1>1 DEF RegisterMemory
  <2>2. registry[f] \in DOMAIN stores
    BY <1>2, <1>5, StoresAt
  <2>3. DOMAIN stores' = DOMAIN stores /\ stores'[registry[f]] = call[f].memory
    BY <2>1, <2>2
  <2>4. ASSUME NEW g \in Facades \ {f}, call[g].op = "generate"
        PROVE  stores'[registry[g]] = call[g].memory
    <3>1. registry[f] # registry[g]
      BY <1>2, <1>5, StoresAt DEF StoresKnown
    <3>2. phase[g] = "serving"
      BY <2>4, AnsweringServes
    <3>3. registry[g] \in DOMAIN stores
      BY <1>2, <3>2, StoresAt
    <3>4. QED
      BY <1>2, <2>1, <2>4, <3>1, <3>3 DEF StoresKnown
  <2>5. \A g \in Facades : call'[g].op = "generate" => stores'[registry'[g]] = call'[g].memory
    BY <1>4, <1>7, <2>1, <2>3, <2>4
  <2>6. QED
    BY <1>1, <1>2, <2>1, <2>3, <2>5 DEF StoresKnown
<1>11. QED
  BY <1>1, <1>4, <1>6, <1>8, <1>9, <1>10, AnswerStepKeeps

LEMMA GenerateKeeps ==
  ASSUME ProcessInv, NEW f \in Facades, Generate(f)
  PROVE  ProcessInv'
<1>1. /\ call[f].op = "generate" /\ RemoveMemory(f) /\ call' = [call EXCEPT ![f] = Rest]
      /\ UNCHANGED ropeVars /\ UNCHANGED <<phase, encoder, scaffold, chunks, corpus, bytes, doubtful>>
  BY DEF Generate
<1>2. FacadeTyped /\ OwnInv(f) /\ StoresKnown
  BY DEF ProcessInv
<1>3. phase[f] = "serving" /\ Rest.op = "rest"
  BY <1>1, <1>2 DEF OwnInv, CallTyped, Rest
<1>4. call'[f] = Rest /\ DOMAIN call' = Facades /\ \A g \in Facades \ {f} : call'[g] = call[g]
  BY <1>1, <1>2, CallAt
<1>5. CallTyped(f)' /\ RowsKnown(f)'
  BY <1>3, <1>4 DEF CallTyped, RowsKnown
<1>6. registry[f] \in DOMAIN stores /\ registry[f] # 0
  BY <1>2, <1>3, StoresAt
<1>7. StoresKnown'
  <2>1. UNCHANGED <<registry, connector>> /\ stores' = [stores EXCEPT ![registry[f]] = NoMemory]
    BY <1>1, <1>6 DEF RemoveMemory
  <2>2. ASSUME NEW g \in Facades \ {f}, call[g].op = "generate"
        PROVE  stores'[registry[g]] = call[g].memory
    <3>1. registry[f] # registry[g]
      BY <1>2, <1>6 DEF StoresKnown
    <3>2. phase[g] = "serving"
      BY <2>2, AnsweringServes
    <3>3. registry[g] \in DOMAIN stores
      BY <1>2, <3>2, StoresAt
    <3>4. QED
      BY <1>2, <2>1, <2>2, <3>1, <3>3 DEF StoresKnown
  <2>3. \A g \in Facades : call'[g].op = "generate" => stores'[registry'[g]] = call'[g].memory
    BY <1>3, <1>4, <2>1, <2>2
  <2>4. DOMAIN stores' = DOMAIN stores
    BY <2>1
  <2>5. QED
    BY <1>1, <1>2, <2>1, <2>3, <2>4 DEF StoresKnown
<1>8. QED
  BY <1>1, <1>3, <1>5, <1>7, AnswerStepKeeps

LEMMA CloseKeeps ==
  ASSUME ProcessInv, NEW f \in Facades, Close(f)
  PROVE  ProcessInv'
<1>1. /\ phase[f] # "closed" /\ call[f] = Rest
      /\ phase' = [phase EXCEPT ![f] = "closed"] /\ CloseHost(f)
      /\ encoder' = [encoder EXCEPT ![f] = "none"]
      /\ corpus' = [corpus EXCEPT ![f] = <<>>] /\ scaffold' = [scaffold EXCEPT ![f] = <<>>]
      /\ bytes' = [bytes EXCEPT ![f] = 0]
      /\ UNCHANGED ropeVars /\ UNCHANGED <<chunks, call, doubtful>>
  BY DEF Close, AtRest
<1>2. FacadeTyped /\ OwnInv(f) /\ StoresKnown /\ CaptureInv
  BY DEF ProcessInv
<1>3. CaptureInv' /\ \A g \in Facades : SamePass(g)
  BY <1>1, <1>2, SameRope
<1>4. FacadeTyped'
  <2>1. /\ phase' \in [Facades -> {"open", "serving", "closed"}]
        /\ encoder' \in [Facades -> {"none", "loaded", "released"}]
        /\ bytes' \in [Facades -> Nat]
    BY <1>1, <1>2 DEF FacadeTyped
  <2>2. corpus' \in [Facades -> Seq(Parts)] /\ scaffold' \in [Facades -> Seq(Parts)]
    <3>1. <<>> \in Seq(Parts)
      OBVIOUS
    <3>2. QED
      BY <1>1, <1>2, <3>1 DEF FacadeTyped
  <2>3. QED
    BY <1>1, <1>2, <2>1, <2>2 DEF FacadeTyped
<1>5. /\ phase'[f] = "closed" /\ scaffold'[f] = <<>> /\ corpus'[f] = <<>> /\ bytes'[f] = 0
      /\ call'[f] = Rest /\ chunks'[f] = chunks[f]
  BY <1>1, <1>2 DEF FacadeTyped
<1>6. \A g \in Facades \ {f} : SameFacade(g)
  BY <1>1, <1>2 DEF SameFacade, FacadeTyped
<1>7. ~Capturing(f)' /\ call'[f].op = "rest"
  BY <1>1, <1>2, <1>3, <1>5 DEF OwnInv, PassKnown, SamePass, Rest
<1>8. StoresKnown'
  <2>1. /\ registry[f] \in DOMAIN stores /\ registry[f] # 0
        /\ Cardinality(Facades) \in Nat /\ Namespaces = Facades
    BY <1>1, <1>2, StoresAt, ConstantTypes
  <2>2. /\ stores' = [stores EXCEPT ![registry[f]] = NoMemory]
        /\ registry' = [registry EXCEPT ![f] = 0] /\ connector' = [connector EXCEPT ![f] = 0]
    BY <1>1, <2>1 DEF CloseHost
  <2>3. /\ registry' \in [Namespaces -> 0..Cardinality(Namespaces)]
        /\ connector' \in [Namespaces -> 0..Cardinality(Namespaces)]
    BY <1>2, <2>1, <2>2 DEF StoresKnown
  <2>4. /\ registry'[f] = 0 /\ connector'[f] = 0 /\ DOMAIN stores' = DOMAIN stores
        /\ \A g \in Facades \ {f} : registry'[g] = registry[g] /\ connector'[g] = connector[g]
    BY <1>2, <2>1, <2>2 DEF StoresKnown
  <2>5. ASSUME NEW g \in Facades \ {f}, call[g].op = "generate"
        PROVE  stores'[registry[g]] = call[g].memory
    <3>1. registry[f] # registry[g]
      BY <1>2, <2>1 DEF StoresKnown
    <3>2. phase[g] = "serving"
      BY <2>5, AnsweringServes
    <3>3. registry[g] \in DOMAIN stores
      BY <1>2, <3>2, StoresAt
    <3>4. QED
      BY <1>2, <2>2, <2>5, <3>1, <3>3 DEF StoresKnown
  <2>6. \A g \in Facades : call'[g].op = "generate" => stores'[registry'[g]] = call'[g].memory
    BY <1>1, <1>7, <2>4, <2>5
  <2>7. \A g \in Facades \ {f} : phase'[g] = phase[g]
    BY <1>1, <1>2 DEF FacadeTyped
  <2>8. \A g, h \in Facades : g # h /\ registry'[g] # 0 => registry'[g] # registry'[h]
    BY <1>2, <2>4 DEF StoresKnown
  <2>9. QED
    BY <1>2, <1>5, <2>3, <2>4, <2>6, <2>7, <2>8 DEF StoresKnown
<1>9. CallTyped(f)'
  BY <1>5 DEF CallTyped
<1>10. ChunksKnown(f)'
  BY <1>2, <1>5 DEF OwnInv, ChunksKnown
<1>11. PartsKnown(f)'
  BY <1>2, <1>5, FieldsAt DEF PartsKnown
<1>12. WorkKnown(f)' /\ PassKnown(f)' /\ RowsKnown(f)'
  BY <1>7 DEF WorkKnown, PassKnown, RowsKnown
<1>13. BytesKnown(f)'
  <2>1. TokensHeld(f)' = <<>>
    BY <1>5 DEF TokensHeld
  <2>2. Len(FlattenSeq(<<>>)) = 0
    BY DEF FlattenSeq
  <2>3. QED
    BY <1>5, <2>1, <2>2, ConstantTypes DEF BytesKnown
<1>14. OwnInv(f)'
  BY <1>9, <1>10, <1>11, <1>12, <1>13 DEF OwnInv
<1>15. QED
  BY <1>3, <1>4, <1>6, <1>8, <1>14, StepKeeps
(* The store has of every chunk a memory may name the part that was made.  *)
LEMMA StoredIs ==
  ASSUME FacadeTyped, NEW f \in Facades, OwnInv(f), phase[f] = "serving",
         "overlap" \notin doubtful[f], NEW id \in ToSet(chunks[f])
  PROVE  Stored(f, id) = Exact(f, id) /\ id \in PartIds(f)
<1> DEFINE k == Len(chunks[f])
<1>1. /\ k \in Nat /\ DOMAIN chunks[f] = 1..k /\ DOMAIN corpus[f] = 1..Len(corpus[f])
      /\ Len(corpus[f]) = k /\ k <= Len(Catalog[f]) /\ Len(Catalog[f]) \in Nat
      /\ chunks[f] = SubSeq(Catalog[f], 1, k)
  BY FieldsAt, CatalogParts DEF OwnInv, ChunksKnown, PartsKnown
<1>2. \A i \in 1..k : IsPart(f, corpus[f][i], Catalog[f][i])
  BY <1>1 DEF OwnInv, PartsKnown
<1>3. \A i \in 1..k : corpus[f][i].id = Catalog[f][i] /\ corpus[f][i] = Exact(f, Catalog[f][i])
  BY <1>2 DEF IsPart
<1>4. PICK i \in 1..k : id = chunks[f][i]
  BY <1>1 DEF ToSet
<1>5. id = Catalog[f][i] /\ i \in 1..Len(Catalog[f])
  <2>1. Catalog[f] \in Seq(Ids) /\ i \in 1..Len(Catalog[f])
    BY <1>1, CatalogParts
  <2> HIDE DEF k
  <2>2. SubSeq(Catalog[f], 1, k)[i] = Catalog[f][i]
    BY <1>1, <2>1
  <2>3. QED
    BY <1>1, <1>4, <2>1, <2>2
<1>6. corpus[f][i] \in ToSet(corpus[f])
  BY <1>1 DEF ToSet
<1>7. ASSUME NEW chunk \in ToSet(corpus[f]), chunk.id = id PROVE chunk = Exact(f, id)
  <2>1. PICK j \in 1..k : chunk = corpus[f][j]
    BY <1>1 DEF ToSet
  <2>2. QED
    BY <1>3, <1>7, <2>1
<1>8. Stored(f, id) = Exact(f, id)
  BY <1>3, <1>5, <1>6, <1>7 DEF Stored
<1>9. QED
  BY <1>5, <1>8, PartIdsAre

(* A sequence between two more entries.                                    *)
LEMMA Wrapped ==
  ASSUME NEW S, NEW a \in S, NEW b \in S, NEW s \in Seq(S)
  PROVE  /\ <<a>> \o s \o <<b>> \in Seq(S) /\ Len(<<a>> \o s \o <<b>>) = Len(s) + 2
         /\ (<<a>> \o s \o <<b>>)[1] = a /\ (<<a>> \o s \o <<b>>)[Len(s) + 2] = b
         /\ \A i \in 1..Len(s) : (<<a>> \o s \o <<b>>)[i + 1] = s[i]
<1> DEFINE x == <<a>>
           y == <<b>>
           z == x \o s
           w == z \o y
           n == Len(s)
<1>1. x \in Seq(S) /\ Len(x) = 1 /\ x[1] = a /\ y \in Seq(S) /\ Len(y) = 1 /\ y[1] = b
  OBVIOUS
<1>2. n \in Nat
  OBVIOUS
<1> HIDE DEF x, y
<1>3. /\ z \in Seq(S) /\ Len(z) = Len(x) + Len(s)
      /\ \A i \in 1..Len(x) + Len(s) : z[i] = IF i <= Len(x) THEN x[i] ELSE s[i - Len(x)]
  BY <1>1, ConcatProperties
<1> HIDE DEF n
<1>4. /\ z \in Seq(S) /\ Len(z) = n + 1
      /\ \A i \in 1..n + 1 : z[i] = IF i <= 1 THEN x[i] ELSE s[i - 1]
  BY <1>1, <1>2, <1>3 DEF n
<1> HIDE DEF z
<1>5. /\ w \in Seq(S) /\ Len(w) = Len(z) + Len(y)
      /\ \A i \in 1..Len(z) + Len(y) : w[i] = IF i <= Len(z) THEN z[i] ELSE y[i - Len(z)]
  BY <1>1, <1>4, ConcatProperties
<1>6. /\ w \in Seq(S) /\ Len(w) = n + 2
      /\ \A i \in 1..n + 2 : w[i] = IF i <= n + 1 THEN z[i] ELSE y[i - (n + 1)]
  BY <1>1, <1>2, <1>4, <1>5
<1> HIDE DEF w
<1>7. w[1] = a
  BY <1>1, <1>2, <1>4, <1>6
<1>8. w[n + 2] = b
  BY <1>1, <1>2, <1>6
<1>9. \A i \in 1..n : w[i + 1] = s[i]
  <2>1. ASSUME NEW i \in 1..n PROVE w[i + 1] = s[i]
    <3>1. i + 1 \in 1..n + 2 /\ i + 1 <= n + 1 /\ i + 1 \in 1..n + 1 /\ ~(i + 1 <= 1) /\ i + 1 - 1 = i
      BY <1>2
    <3>2. w[i + 1] = z[i + 1]
      BY <1>6, <3>1
    <3>3. z[i + 1] = s[i]
      BY <1>4, <3>1
    <3>4. QED
      BY <3>2, <3>3
  <2>2. QED
    BY <2>1
<1>10. QED
  BY <1>6, <1>7, <1>8, <1>9 DEF w, z, x, y, n

LEMMA MemoryPartsAre ==
  ASSUME FacadeTyped, NEW f \in Facades, OwnInv(f), phase[f] = "serving",
         "overlap" \notin doubtful[f], NEW ids \in Seq(ToSet(chunks[f]))
  PROVE  /\ MemoryIds(ids) \in Seq(PartIds(f))
         /\ MemoryParts(f, ids) = [p \in DOMAIN MemoryIds(ids) |-> Exact(f, MemoryIds(ids)[p])]
<1> DEFINE mi == IF ids = <<>> THEN <<Empty>> ELSE ids
           mp == IF ids = <<>> THEN <<scaffold[f][2]>> ELSE [i \in DOMAIN ids |-> Stored(f, ids[i])]
           E == {Exact(f, id) : id \in PartIds(f)}
           x == MemoryIds(ids)
           y == MemoryParts(f, ids)
<1>1. /\ Header \in PartIds(f) /\ Empty \in PartIds(f) /\ Footer \in PartIds(f)
      /\ scaffold[f][1] = Exact(f, Header) /\ scaffold[f][2] = Exact(f, Empty)
      /\ scaffold[f][3] = Exact(f, Footer)
  <2>1. Len(scaffold[f]) = 3
    BY DEF OwnInv, ChunksKnown, PartsKnown
  <2>2. \A j \in 1..3 : scaffold[f][j] = Exact(f, Scaffolding[j])
    BY <2>1 DEF OwnInv, PartsKnown, IsPart
  <2>3. QED
    BY <2>2, ScaffoldingParts, PartIdsAre
<1>2. \A id \in PartIds(f) : Exact(f, id) \in E
  OBVIOUS
<1>3. DOMAIN ids = 1..Len(ids) /\ Len(ids) \in Nat /\ \A i \in 1..Len(ids) : ids[i] \in ToSet(chunks[f])
  BY ElementOfSeq
<1>4. \A i \in 1..Len(ids) : Stored(f, ids[i]) = Exact(f, ids[i]) /\ ids[i] \in PartIds(f)
  BY <1>3, StoredIs
<1> HIDE DEF E
<1>5. /\ mi \in Seq(PartIds(f)) /\ mp \in Seq(E) /\ Len(mp) = Len(mi)
      /\ \A i \in 1..Len(mi) : mp[i] = Exact(f, mi[i])
  <2>1. CASE ids = <<>>
    <3>1. mi = <<Empty>> /\ mp = <<scaffold[f][2]>>
      BY <2>1
    <3>2. <<Empty>> \in Seq(PartIds(f)) /\ <<scaffold[f][2]>> \in Seq(E)
      BY <1>1, <1>2
    <3> HIDE DEF mi, mp
    <3>3. QED
      BY <1>1, <3>1, <3>2
  <2>2. CASE ids # <<>>
    <3> DEFINE st == [i \in DOMAIN ids |-> Stored(f, ids[i])]
    <3>1. mi = ids /\ mp = st
      BY <2>2
    <3>2. ids \in Seq(PartIds(f))
      BY <1>3, <1>4
    <3>3. st \in Seq(E) /\ Len(st) = Len(ids) /\ \A i \in 1..Len(ids) : st[i] = Exact(f, ids[i])
      BY <1>2, <1>3, <1>4
    <3> HIDE DEF mi, mp, st
    <3>4. QED
      BY <3>1, <3>2, <3>3
  <2>3. QED
    BY <2>1, <2>2
<1>6. x = <<Header>> \o mi \o <<Footer>> /\ y = <<scaffold[f][1]>> \o mp \o <<scaffold[f][3]>>
  BY DEF MemoryIds, MemoryParts
<1>7. scaffold[f][1] \in E /\ scaffold[f][3] \in E
  BY <1>1, <1>2
<1>8. PICK n : n = Len(mi)
  OBVIOUS
<1> HIDE DEF mi, mp, x, y
<1>9. n \in Nat
  BY <1>5, <1>8
<1>10. /\ x \in Seq(PartIds(f)) /\ Len(x) = n + 2 /\ x[1] = Header /\ x[n + 2] = Footer
       /\ \A i \in 1..n : x[i + 1] = mi[i]
  BY <1>1, <1>5, <1>6, <1>8, Wrapped
<1>11. /\ y \in Seq(E) /\ Len(y) = n + 2 /\ y[1] = scaffold[f][1] /\ y[n + 2] = scaffold[f][3]
       /\ \A i \in 1..n : y[i + 1] = mp[i]
  <2>1. Len(mp) = n
    BY <1>5, <1>8
  <2>2. QED
    BY <1>5, <1>6, <1>7, <2>1, Wrapped
<1>12. ASSUME NEW p \in 1..n + 2 PROVE y[p] = Exact(f, x[p])
  <2>1. CASE p = 1
    BY <1>1, <1>10, <1>11, <2>1
  <2>2. CASE p = n + 2
    BY <1>1, <1>10, <1>11, <2>2
  <2>3. CASE p # 1 /\ p # n + 2
    <3>1. p - 1 \in 1..n /\ (p - 1) + 1 = p
      BY <1>9, <2>3
    <3>2. x[p] = mi[p - 1] /\ y[p] = mp[p - 1]
      BY <1>10, <1>11, <3>1
    <3>3. QED
      BY <1>5, <1>8, <3>1, <3>2
  <2>4. QED
    BY <2>1, <2>2, <2>3
<1>13. DOMAIN x = 1..n + 2 /\ y = [p \in 1..n + 2 |-> y[p]]
  BY <1>10, <1>11
<1>14. y = [p \in DOMAIN x |-> Exact(f, x[p])]
  BY <1>12, <1>13
<1>15. QED
  BY <1>10, <1>14 DEF x, y

LEMMA AnswerKeeps ==
  ASSUME ProcessInv, NEW f \in Facades, NEW ids \in Selections(f), Answer(f, ids)
  PROVE  ProcessInv'
<1>1. PICK memory : memory = Compose(MemoryParts(f, ids))
  OBVIOUS
<1>2. PICK c : c = [op |-> "register", ids |-> ids, memory |-> memory]
  OBVIOUS
<1>3. c.op = "register" /\ c.ids = ids /\ c.memory = memory
  BY <1>2
<1>4. /\ phase[f] = "serving" /\ call[f] = Rest /\ call' = [call EXCEPT ![f] = c]
      /\ UNCHANGED <<ropeVars, hostVars, phase, encoder, scaffold, chunks, corpus, bytes, doubtful>>
  BY <1>1, <1>2 DEF Answer, AtRest
<1>5. FacadeTyped /\ OwnInv(f) /\ StoresKnown
  BY DEF ProcessInv
<1>6. call'[f] = c /\ DOMAIN call' = Facades /\ \A g \in Facades \ {f} : call'[g] = call[g]
  BY <1>4, <1>5, CallAt
<1>7. ids \in Seq(ToSet(chunks[f]))
  BY SeqOfIsSeq DEF Selections
<1>8. CallTyped(f)'
  BY <1>2, <1>3, <1>4, <1>6 DEF CallTyped
<1>9. RowsKnown(f)'
  <2>1. ASSUME "overlap" \notin doubtful[f]
        PROVE  HasTheRowsOf(memory, FlattenSeq(Seen(f, MemoryIds(ids))))
    <3>1. PICK parts : parts = MemoryParts(f, ids)
      OBVIOUS
    <3>2. PICK x : x = MemoryIds(ids)
      OBVIOUS
    <3>3. x \in Seq(PartIds(f)) /\ parts = [p \in DOMAIN x |-> Exact(f, x[p])]
      BY <1>4, <1>5, <1>7, <2>1, <3>1, <3>2, MemoryPartsAre
    <3>4. HasTheRowsOf(Compose(parts), FlattenSeq(Seen(f, x)))
      BY <3>3, ComposedOfExact
    <3>5. QED
      BY <1>1, <3>1, <3>2, <3>4
  <2>2. QED
    BY <1>3, <1>4, <1>6, <1>7, <2>1 DEF RowsKnown
<1>10. StoresKnown'
  <2>1. \A g \in Facades : call'[g].op = "generate" => call'[g] = call[g]
    BY <1>3, <1>6
  <2>2. UNCHANGED <<registry, stores, connector, phase>>
    BY <1>4 DEF hostVars
  <2>3. QED
    BY <1>5, <2>1, <2>2, StoresStay
<1>11. /\ call[f].op # "encode" /\ c.op # "encode" /\ UNCHANGED ropeVars
       /\ UNCHANGED <<phase, encoder, scaffold, chunks, corpus, bytes, doubtful>>
  BY <1>3, <1>4 DEF Rest
<1>12. call' = [call EXCEPT ![f] = c]
  BY <1>4
<1>13. QED
  BY <1>8, <1>9, <1>10, <1>11, <1>12, AnswerStepKeeps
-----------------------------------------------------------------------------
(* The end of a pass.                                                      *)

(* The plans behind the first are those of the parts behind it.            *)
LEMMA WorkBehindTheFirst ==
  ASSUME NEW f \in Facades, NEW k \in Nat, NEW m \in 0..3, NEW todo, IsWork(f, k, m, todo),
         Len(todo) \in Nat, Len(todo) >= 1
  PROVE  /\ Len(Tail(todo)) = Len(todo) - 1
         /\ m < 3 => IsWork(f, k, m + 1, Tail(todo))
         /\ m = 3 => IsWork(f, k + 1, 3, Tail(todo))
<1> DEFINE n == Len(todo)
           W == {PlanOf(f, PartToCome(f, k, m, i)) : i \in 1..n}
           t == Tail(todo)
<1>1. todo = [i \in 1..n |-> PlanOf(f, PartToCome(f, k, m, i))]
  BY DEF IsWork
<1>2. \A i \in 1..n : PlanOf(f, PartToCome(f, k, m, i)) \in W
  OBVIOUS
<1>3. n \in Nat /\ n >= 1
  OBVIOUS
<1> HIDE DEF n, W
<1>4. todo \in Seq(W)
  BY <1>1, <1>2, <1>3
<1>5. Len(todo) = n
  BY DEF n
<1>6. t \in Seq(W) /\ Len(t) = n - 1 /\ \A i \in 1..n - 1 : t[i] = todo[i + 1]
  BY <1>3, <1>4, <1>5
<1>7. \A i \in 1..n - 1 : t[i] = PlanOf(f, PartToCome(f, k, m, i + 1))
  BY <1>1, <1>3, <1>6
<1> HIDE DEF t
<1>8. t = [i \in 1..Len(t) |-> PlanOf(f, PartToCome(f, k, m, i + 1))]
  <2>1. t = [i \in 1..n - 1 |-> t[i]]
    BY <1>3, <1>6
  <2>2. QED
    BY <1>6, <1>7, <2>1
<1>9. ASSUME m < 3 PROVE IsWork(f, k, m + 1, t)
  <2>1. ASSUME NEW i \in 1..n - 1 PROVE PartToCome(f, k, m, i + 1) = PartToCome(f, k, m + 1, i)
    <3>1. /\ i + 1 <= 3 - m <=> i <= 3 - (m + 1)
          /\ m + (i + 1) = (m + 1) + i
          /\ k + (i + 1) - (3 - m) = k + i - (3 - (m + 1))
      BY <1>3
    <3>2. QED
      BY <3>1, Zenon DEF PartToCome
  <2>2. QED
    BY <1>6, <1>8, <2>1 DEF IsWork
<1>10. ASSUME m = 3 PROVE IsWork(f, k + 1, 3, t)
  <2>1. ASSUME NEW i \in 1..n - 1 PROVE PartToCome(f, k, 3, i + 1) = PartToCome(f, k + 1, 3, i)
    <3>1. /\ ~(i + 1 <= 3 - 3) /\ ~(i <= 3 - 3)
          /\ k + (i + 1) - (3 - 3) = (k + 1) + i - (3 - 3)
      BY <1>3
    <3>2. QED
      BY <3>1, Zenon DEF PartToCome
  <2>2. QED
    BY <1>6, <1>8, <1>10, <2>1 DEF IsWork
<1>11. QED
  BY <1>6, <1>9, <1>10 DEF t, n

(* What the facade makes of the keys is the next part.                     *)
LEMMA CollectedIsPart ==
  ASSUME ProcessInv, NEW f \in Facades, Collect(f), NEW stored \in BOOLEAN, Doubt(f, stored),
         NEW part, part = Encoded(capture[f], Head(call[f].todo))
  PROVE  /\ \A id : id = Upcoming(f, 1) => IsPart(f, part, id)'
         /\ part \in Parts /\ part.id = Upcoming(f, 1) /\ part.tokens = TokensOf[Upcoming(f, 1)]
         /\ doubtful'[f] \in SUBSET {"overlap", "refused"} /\ doubtful[f] \subseteq doubtful'[f]
         /\ ~stored => "refused" \in doubtful'[f]
         /\ doubtful' \in [Facades -> SUBSET {"overlap", "refused"}]
         /\ \A g \in Facades \ {f} : doubtful'[g] = doubtful[g]
<1>1. FacadeTyped /\ OwnInv(f) /\ CaptureInv /\ f \in Threads
  BY DEF ProcessInv, Facades
<1>2. Capturing(f) /\ capture[f].at = "restored"
  BY DEF Collect, Capturing
<1>3. call[f].op = "encode" /\ capture[f].input = PlanOf(f, Upcoming(f, 1)).input
  BY <1>1, <1>2 DEF OwnInv, PassKnown
<1>4. PICK id : id = Upcoming(f, 1)
  OBVIOUS
<1>5. Head(call[f].todo) = PlanOf(f, id) /\ id \in PartIds(f)
  BY <1>1, <1>3, <1>4, NextPart
<1>6. PICK noted : noted = capture[f]
  OBVIOUS
<1>7. ~noted.overlapped =>
        noted.keys = [i \in 1..NumLayers |-> [input |-> PlanOf(f, id).input, layer |-> i]]
  <2>1. ASSUME ~noted.overlapped
        PROVE  noted.keys = [i \in 1..NumLayers |-> [input |-> PlanOf(f, id).input, layer |-> i]]
    <3>1. /\ capture[f].keys = [i \in 1..capture[f].ran |-> [input |-> capture[f].input, layer |-> i]]
          /\ capture[f].ran = NumLayers
      BY <1>1, <1>2, <1>6, <2>1 DEF CaptureInv, KeysOwn
    <3>2. QED
      BY <1>3, <1>4, <1>6, <3>1
  <2>2. QED
    BY <2>1
<1>8. part = Encoded(noted, PlanOf(f, id))
  BY <1>5, <1>6
<1>9. /\ part \in Parts /\ part.id = id /\ part.tokens = TokensOf[id]
      /\ ~noted.overlapped => part = Exact(f, id)
  BY <1>5, <1>7, <1>8, EncodedIsPart
<1>10. /\ doubtful'[f] = doubtful[f] \cup (IF noted.overlapped THEN {"overlap"} ELSE {})
                           \cup (IF stored THEN {} ELSE {"refused"})
       /\ \A g \in Facades \ {f} : doubtful'[g] = doubtful[g]
       /\ DOMAIN doubtful' = Facades
  BY <1>1, <1>6 DEF Doubt, FacadeTyped
<1>11. doubtful[f] \in SUBSET {"overlap", "refused"} /\ noted.overlapped \in BOOLEAN
  BY <1>1, <1>6, FieldsAt, CaptureFields
<1>12. /\ doubtful'[f] \in SUBSET {"overlap", "refused"} /\ doubtful[f] \subseteq doubtful'[f]
       /\ ~stored => "refused" \in doubtful'[f]
       /\ noted.overlapped => "overlap" \in doubtful'[f]
  BY <1>10, <1>11
<1>13. doubtful' \in [Facades -> SUBSET {"overlap", "refused"}]
  <2>1. doubtful' = [doubtful EXCEPT ![f] = doubtful'[f]]
    BY <1>1, <1>10 DEF Doubt, FacadeTyped
  <2>2. QED
    BY <1>1, <1>12, <2>1 DEF FacadeTyped
<1>14. IsPart(f, part, id)'
  BY <1>9, <1>12 DEF IsPart
<1>15. QED
  BY <1>4, <1>9, <1>10, <1>12, <1>13, <1>14
(* What is left to show of the end of a pass whose keys fit.               *)
LEMMA PartTaken ==
  ASSUME ProcessInv, NEW f \in Facades, Collect(f), NEW stored \in BOOLEAN, Doubt(f, stored),
         NEW c, call' = [call EXCEPT ![f] = c], c.op # "generate",
         UNCHANGED <<hostVars, phase, encoder>>,
         scaffold' \in [Facades -> Seq(Parts)], chunks' \in [Facades -> Seq(Ids)],
         corpus' \in [Facades -> Seq(Parts)], bytes' \in [Facades -> Nat],
         \A g \in Facades \ {f} :
           /\ scaffold'[g] = scaffold[g] /\ chunks'[g] = chunks[g]
           /\ corpus'[g] = corpus[g] /\ bytes'[g] = bytes[g],
         ~Capturing(f)' /\ c.op \notin {"register", "generate"} =>
           CallTyped(f)' /\ ChunksKnown(f)' /\ PartsKnown(f)' /\ WorkKnown(f)' /\ BytesKnown(f)',
         c.op # "register"
  PROVE  ProcessInv'
<1>1. FacadeTyped /\ OwnInv(f) /\ CaptureInv /\ StoresKnown /\ f \in Threads
  BY DEF ProcessInv, Facades
<1>2. CaptureInv'
  BY <1>1, CollectKeeps
<1>3. ~Capturing(f)'
  BY <1>1 DEF Collect, EndCapture, Capturing, NoCapture
<1>4. \A g \in Facades \ {f} : SamePass(g)
  BY OthersPass
<1>5. call'[f] = c /\ DOMAIN call' = Facades /\ \A g \in Facades \ {f} : call'[g] = call[g]
  BY <1>1, CallAt
<1>6. /\ doubtful' \in [Facades -> SUBSET {"overlap", "refused"}]
      /\ \A g \in Facades \ {f} : doubtful'[g] = doubtful[g]
  BY CollectedIsPart
<1>7. FacadeTyped'
  BY <1>1, <1>5, <1>6 DEF FacadeTyped
<1>8. \A g \in Facades \ {f} : SameFacade(g)
  BY <1>5, <1>6 DEF SameFacade
<1>9. StoresKnown'
  <2>1. \A g \in Facades : call'[g].op = "generate" => call'[g] = call[g]
    BY <1>5
  <2>2. UNCHANGED <<registry, stores, connector, phase>>
    BY DEF hostVars
  <2>3. QED
    BY <1>1, <2>1, <2>2, StoresStay
<1>10. PassKnown(f)' /\ RowsKnown(f)'
  BY <1>3, <1>5 DEF PassKnown, RowsKnown
<1>11. OwnInv(f)'
  BY <1>3, <1>10 DEF OwnInv
<1>12. QED
  BY <1>2, <1>4, <1>7, <1>8, <1>9, <1>11, StepKeeps

LEMMA PassMakes ==
  ASSUME ProcessInv, NEW f \in Facades, Collect(f)
  PROVE  /\ FacadeTyped /\ OwnInv(f) /\ call[f].op = "encode" /\ phase[f] = "open"
         /\ call[f] = [op |-> "encode", made |-> call[f].made, todo |-> call[f].todo]
         /\ call[f].made \in Seq(Parts)
         /\ IsWork(f, Len(chunks[f]), Made(f), call[f].todo)
         /\ Len(call[f].todo) \in 4 - Made(f)..3 - Made(f) + Len(Catalog[f]) - Len(chunks[f])
<1>1. FacadeTyped /\ OwnInv(f)
  BY DEF ProcessInv
<1>2. call[f].op = "encode"
  BY <1>1 DEF Collect, Capturing, OwnInv, PassKnown
<1>3. /\ call[f] = [op |-> "encode", made |-> call[f].made, todo |-> call[f].todo]
      /\ call[f].made \in Seq(Parts) /\ phase[f] = "open"
  BY <1>1, <1>2 DEF OwnInv, CallTyped, Rest
<1>4. /\ IsWork(f, Len(chunks[f]), Made(f), call[f].todo)
      /\ Len(call[f].todo) \in 4 - Made(f)..3 - Made(f) + Len(Catalog[f]) - Len(chunks[f])
  BY <1>1, <1>2 DEF OwnInv, WorkKnown
<1>5. QED
  BY <1>1, <1>2, <1>3, <1>4

(* The parts a call has made, and one more.                                *)
Grown(c, part) == [c EXCEPT !.made = Append(@, part)]

LEMMA MadeGrows ==
  ASSUME NEW made, NEW todo, NEW part
  PROVE  Grown([op |-> "encode", made |-> made, todo |-> todo], part)
           = [op |-> "encode", made |-> Append(made, part), todo |-> todo]
<1> DEFINE a == [op |-> "encode", made |-> made, todo |-> todo]
<1>1. a.made = made
  OBVIOUS
<1>2. PICK b : b = Append(made, part)
  OBVIOUS
<1>3. [a EXCEPT !.made = b] = [op |-> "encode", made |-> b, todo |-> todo]
  OBVIOUS
<1> HIDE DEF a
<1>4. Grown(a, part) = [a EXCEPT !.made = b]
  BY <1>1, <1>2, Zenon DEF Grown
<1>5. QED
  BY <1>2, <1>3, <1>4 DEF a

LEMMA KeepPartKeeps ==
  ASSUME ProcessInv, NEW f \in Facades, Collect(f), UNCHANGED <<hostVars, phase, encoder>>,
         NEW plan, plan = Head(call[f].todo), plan.id \in ToSet(Scaffolding),
         NEW part, part = Encoded(capture[f], plan), KeepPart(f, part)
  PROVE  ProcessInv'
<1>0. PICK made, todo : made = call[f].made /\ todo = call[f].todo
  OBVIOUS
<1>1. /\ FacadeTyped /\ OwnInv(f) /\ call[f].op = "encode" /\ phase[f] = "open"
      /\ call[f] = [op |-> "encode", made |-> made, todo |-> todo] /\ made \in Seq(Parts)
  BY <1>0, PassMakes
<1>2. PICK k \in Nat : k = Len(chunks[f])
  BY <1>1, FieldsAt
<1>3. PICK w \in Nat : w = Len(Catalog[f])
  BY CatalogParts
<1>4. PICK id : id = Upcoming(f, 1)
  OBVIOUS
<1>5. PICK m \in 0..2 : m = Made(f) /\ m = Len(made) /\ scaffold[f] = <<>> /\ id = Scaffolding[m + 1]
  <2>1. plan.id = id
    <3>1. plan = PlanOf(f, id)
      BY <1>1, <1>4, NextPart
    <3>2. QED
      BY <3>1 DEF PlanOf, PlanAfter
  <2>2. Made(f) \in 0..3 /\ Made(f) < 3
    BY <1>1, <1>4, <2>1, NextPart
  <2>3. Made(f) \in 0..2
    BY <2>2
  <2>4. Made(f) = Len(made) /\ scaffold[f] = <<>> /\ id = Scaffolding[Made(f) + 1]
    BY <1>0, <1>1, <1>4, <2>2, NextPart
  <2>5. QED
    BY <2>3, <2>4
<1>6. PICK n \in Nat : n = Len(todo) /\ n >= 4 - m /\ n # 1 /\ n <= 3 - m + w - k
  <2>1. Len(todo) \in 4 - m..3 - m + w - k
    BY <1>0, <1>2, <1>3, <1>5, PassMakes
  <2>2. PICK n : n = Len(todo)
    OBVIOUS
  <2>3. n \in 4 - m..3 - m + w - k
    BY <2>1, <2>2
  <2>4. n \in Nat /\ n >= 4 - m /\ n # 1 /\ n <= 3 - m + w - k
    BY <2>3
  <2>5. QED
    BY <2>2, <2>4
<1>7. Doubt(f, TRUE) /\ UNCHANGED <<chunks, corpus, bytes>>
  BY DEF KeepPart
<1>8. /\ \A x : x = id => IsPart(f, part, x)'
      /\ part \in Parts /\ part.id = id /\ doubtful[f] \subseteq doubtful'[f]
  BY <1>4, <1>7, CollectedIsPart
<1>9. PICK c : c = [op |-> "encode", made |-> Append(made, part), todo |-> Tail(todo)]
  OBVIOUS
<1>10. c.op = "encode" /\ c.made = Append(made, part) /\ c.todo = Tail(todo)
  BY <1>9
<1>11. call' = [call EXCEPT ![f] = c]
  <2>2. After(f) = [op |-> "encode", made |-> made, todo |-> Tail(todo)]
    BY <1>0, <1>1, <1>6 DEF After
  <2>3. PICK a : a = After(f)
    OBVIOUS
  <2>4. a = [op |-> "encode", made |-> made, todo |-> Tail(todo)]
    BY <2>2, <2>3
  <2>5. Grown(a, part) = c
    BY <1>9, <2>4, MadeGrows
  <2>6. call' = [call EXCEPT ![f] = Grown(a, part)]
    BY <2>3, Zenon DEF KeepPart, Grown
  <2>7. QED
    BY <2>5, <2>6
<1>12. call'[f] = c
  BY <1>1, <1>11, CallAt
<1>13. /\ Append(made, part) \in Seq(Parts) /\ Len(Append(made, part)) = m + 1
       /\ Append(made, part)[m + 1] = part /\ \A j \in 1..m : Append(made, part)[j] = made[j]
  BY <1>1, <1>5, <1>8, AppendProperties
<1>14. ASSUME NEW j \in 1..m + 1 PROVE IsPart(f, Append(made, part)[j], Scaffolding[j])'
  <2>1. ASSUME j \in 1..m PROVE IsPart(f, Append(made, part)[j], Scaffolding[j])'
    <3>1. IsPart(f, made[j], Scaffolding[j])
      BY <1>0, <1>1, <1>5, <2>1 DEF OwnInv, WorkKnown
    <3>2. IsPart(f, made[j], Scaffolding[j])'
      BY <1>8, <3>1, PartStays
    <3>3. QED
      BY <1>13, <2>1, <3>2
  <2>2. QED
    BY <1>5, <1>8, <1>13, <2>1
<1>15. /\ \A g \in Facades \ {f} : scaffold'[g] = scaffold[g]
       /\ scaffold' \in [Facades -> Seq(Parts)]
       /\ m = 2 => scaffold'[f] = Append(made, part)
       /\ m < 2 => scaffold'[f] = <<>>
  <2>1. part.id = Footer <=> m = 2
    <3>1. DOMAIN Scaffolding = 1..3 /\ IsInjective(Scaffolding) /\ Scaffolding[3] = Footer
      BY ScaffoldingParts
    <3>2. m + 1 \in 1..3 /\ (m + 1 = 3 <=> m = 2)
      OBVIOUS
    <3>3. Scaffolding[m + 1] = Footer <=> m + 1 = 3
      BY <3>1, <3>2 DEF IsInjective
    <3>4. QED
      BY <1>5, <1>8, <3>2, <3>3
  <2>2. made \o <<part>> = Append(made, part)
    BY <1>1
  <2>3. CASE m = 2
    <3>1. scaffold' = [scaffold EXCEPT ![f] = Append(made, part)]
      BY <1>0, <2>1, <2>2, <2>3 DEF KeepPart
    <3>2. QED
      BY <1>1, <1>13, <2>3, <3>1 DEF FacadeTyped
  <2>4. CASE m < 2
    <3>1. UNCHANGED scaffold
      BY <2>1, <2>4 DEF KeepPart
    <3>2. scaffold' \in [Facades -> Seq(Parts)] /\ scaffold'[f] = <<>>
      BY <1>1, <1>5, <3>1 DEF FacadeTyped
    <3>3. m # 2
      BY <2>4
    <3>4. QED
      BY <3>1, <3>2, <3>3
  <2>5. m = 2 \/ m < 2
    OBVIOUS
  <2>6. QED
    BY <2>3, <2>4, <2>5
<1>16. UNCHANGED <<phase, chunks, corpus, bytes>>
  BY <1>7
<1>17. Made(f)' = m + 1
  <2>1. CASE m = 2
    <3>1. Append(made, part) # <<>>
      BY <1>13, <2>1
    <3>2. Made(f)' = 3
      BY <1>15, <2>1, <3>1 DEF Made
    <3>3. QED
      BY <2>1, <3>2
  <2>2. CASE m < 2
    <3>1. Made(f)' = Len(c.made)
      BY <1>12, <1>15, <2>2 DEF Made
    <3>2. QED
      BY <1>10, <1>13, <3>1
  <2>3. m = 2 \/ m < 2
    OBVIOUS
  <2>4. QED
    BY <2>1, <2>2, <2>3
<1>18. CallTyped(f)'
  BY <1>1, <1>9, <1>10, <1>12, <1>13, <1>16 DEF CallTyped
<1>19. ChunksKnown(f)'
  BY <1>1, <1>5, <1>16 DEF OwnInv, ChunksKnown
<1>20. PartsKnown(f)'
  <2>1. /\ (phase[f] # "closed" => Len(corpus[f]) = Len(chunks[f]))'
        /\ (Len(corpus[f]) <= Len(chunks[f]))'
    BY <1>1, <1>16 DEF OwnInv, PartsKnown
  <2>2. (\A i \in 1..Len(corpus[f]) : IsPart(f, corpus[f][i], Catalog[f][i]))'
    BY <1>1, <1>8, <1>16, PartStays DEF OwnInv, PartsKnown
  <2>3. (scaffold[f] # <<>> => Len(scaffold[f]) = 3)'
    <3>1. CASE m = 2
      <4>1. scaffold'[f] = Append(made, part) /\ Len(Append(made, part)) = m + 1
        BY <1>13, <1>15, <3>1
      <4>2. Len(scaffold'[f]) = 3
        BY <3>1, <4>1
      <4>3. QED
        BY <4>2
    <3>2. CASE m < 2
      BY <1>15, <3>2
    <3>3. m = 2 \/ m < 2
      OBVIOUS
    <3>4. QED
      BY <3>1, <3>2, <3>3
  <2>4. (\A j \in 1..Len(scaffold[f]) : IsPart(f, scaffold[f][j], Scaffolding[j]))'
    <3>1. CASE m = 2
      <4>1. scaffold'[f] = Append(made, part) /\ Len(scaffold'[f]) = m + 1
        BY <1>13, <1>15, <3>1
      <4>2. QED
        BY <1>14, <4>1
    <3>2. CASE m < 2
      <4>1. scaffold'[f] = <<>>
        BY <1>15, <3>2
      <4>2. QED
        BY <4>1
    <3>3. m = 2 \/ m < 2
      OBVIOUS
    <3>4. QED
      BY <3>1, <3>2, <3>3
  <2>5. QED
    BY <2>1, <2>2, <2>3, <2>4 DEF PartsKnown
<1>21. WorkKnown(f)'
  <2>1. Len(todo) \in Nat /\ Len(todo) >= 1 /\ m \in 0..3 /\ m < 3
    BY <1>6
  <2>2. IsWork(f, k, m, todo)
    BY <1>0, <1>2, <1>5, PassMakes
  <2>3. Len(Tail(todo)) = n - 1 /\ IsWork(f, k, m + 1, Tail(todo))
    BY <1>6, <2>1, <2>2, WorkBehindTheFirst
  <2>4. n - 1 \in 4 - (m + 1)..3 - (m + 1) + w - k
    BY <1>6
  <2>5. IsWork(f, Len(chunks[f]), Made(f), call[f].todo)'
    BY <1>2, <1>10, <1>12, <1>16, <1>17, <2>3
  <2>6. (Len(call[f].todo) \in 4 - Made(f)..3 - Made(f) + Len(Catalog[f]) - Len(chunks[f]))'
    BY <1>2, <1>3, <1>10, <1>12, <1>16, <1>17, <2>3, <2>4
  <2>7. (scaffold[f] = <<>> =>
           /\ Len(call[f].made) < 3
           /\ \A j \in 1..Len(call[f].made) : IsPart(f, call[f].made[j], Scaffolding[j]))'
    <3>1. CASE m = 2
      <4>1. scaffold'[f] # <<>>
        BY <1>13, <1>15, <3>1
      <4>2. QED
        BY <4>1
    <3>2. CASE m < 2
      <4>1. call'[f].made = Append(made, part) /\ Len(call'[f].made) = m + 1 /\ m + 1 < 3
        BY <1>10, <1>12, <1>13, <3>2
      <4>2. QED
        BY <1>14, <4>1
    <3>3. m = 2 \/ m < 2
      OBVIOUS
    <3>4. QED
      BY <3>1, <3>2, <3>3
  <2>8. QED
    BY <2>5, <2>6, <2>7 DEF WorkKnown
<1>22. BytesKnown(f)'
  BY <1>1, <1>8, <1>16 DEF OwnInv, BytesKnown, TokensHeld
<1>23. /\ chunks' \in [Facades -> Seq(Ids)] /\ corpus' \in [Facades -> Seq(Parts)]
       /\ bytes' \in [Facades -> Nat]
  BY <1>1, <1>16 DEF FacadeTyped
<1>24. \A g \in Facades \ {f} : /\ scaffold'[g] = scaffold[g] /\ chunks'[g] = chunks[g]
                               /\ corpus'[g] = corpus[g] /\ bytes'[g] = bytes[g]
  BY <1>15, <1>16
<1>25. QED
  BY <1>7, <1>10, <1>11, <1>15, <1>18, <1>19, <1>20, <1>21, <1>22, <1>23, <1>24, PartTaken

(* A chunk that is stored, behind those the corpus has.                    *)
LEMMA BytesGrow ==
  ASSUME FacadeTyped, NEW f \in Facades, NEW chunk \in Parts,
         corpus'[f] = Append(corpus[f], chunk),
         bytes[f] = NumLayers * Len(FlattenSeq(TokensHeld(f))),
         bytes'[f] = bytes[f] + Nbytes(chunk)
  PROVE  bytes'[f] = NumLayers * Len(FlattenSeq(TokensHeld(f)'))
<1> DEFINE All == UNION {ToSet(TokensOf[x]) : x \in Ids}
<1>1. PICK s : s = TokensHeld(f)
  OBVIOUS
<1>2. PICK t : t = TokensHeld(f)'
  OBVIOUS
<1>3. PICK e : e = chunk.tokens
  OBVIOUS
<1>4. corpus[f] \in Seq(Parts) /\ Texts = Seq(All) /\ \A part \in Parts : part.tokens \in Texts
  BY DEF FacadeTyped, Texts, Parts
<1>5. PICK n \in Nat : n = Len(corpus[f])
  BY <1>4
<1>6. DOMAIN corpus[f] = 1..n /\ \A i \in 1..n : corpus[f][i] \in Parts
  BY <1>4, <1>5
<1>7. /\ DOMAIN corpus'[f] = 1..n + 1 /\ corpus'[f][n + 1] = chunk
      /\ \A i \in 1..n : corpus'[f][i] = corpus[f][i]
  BY <1>4, <1>5, AppendProperties
<1> HIDE DEF All
<1>8. s = [i \in 1..n |-> corpus[f][i].tokens]
  BY <1>1, <1>6 DEF TokensHeld
<1>9. t = [i \in 1..n + 1 |-> corpus'[f][i].tokens]
  BY <1>2, <1>7 DEF TokensHeld
<1>10. \A i \in 1..n : corpus[f][i].tokens \in Seq(All)
  BY <1>4, <1>6
<1>11. s \in Seq(Seq(All)) /\ Len(s) = n /\ \A i \in 1..n : s[i] = corpus[f][i].tokens
  BY <1>8, <1>10
<1>12. e \in Seq(All)
  BY <1>3, <1>4
<1>13. /\ Append(s, e) \in Seq(Seq(All)) /\ Len(Append(s, e)) = n + 1
       /\ Append(s, e)[n + 1] = e /\ \A i \in 1..n : Append(s, e)[i] = s[i]
  BY <1>11, <1>12, AppendProperties
<1>14. t = Append(s, e)
  <2>1. ASSUME NEW i \in 1..n + 1 PROVE corpus'[f][i].tokens = Append(s, e)[i]
    <3>1. CASE i = n + 1
      BY <1>3, <1>7, <1>13, <3>1
    <3>2. CASE i # n + 1
      <4>1. i \in 1..n
        BY <3>2
      <4>2. QED
        BY <1>7, <1>11, <1>13, <4>1
    <3>3. QED
      BY <3>1, <3>2
  <2>2. PICK x : x = Append(s, e)
    OBVIOUS
  <2>3. x = [i \in 1..n + 1 |-> x[i]]
    <3>1. x \in Seq(Seq(All)) /\ Len(x) = n + 1
      BY <1>13, <2>2
    <3>2. QED
      BY <3>1
  <2>4. QED
    BY <1>9, <2>1, <2>2, <2>3
<1>15. Len(FlattenSeq(t)) = Len(FlattenSeq(s)) + Len(e)
  BY <1>11, <1>12, <1>14, FlattenAppend
<1>16. PICK a \in Nat : a = Len(FlattenSeq(s))
  <2>1. PICK F : Flattens(F, s, All) /\ FlattenSeq(s) = F[Len(s)]
    BY <1>11, FlattenHasSteps
  <2>2. F[Len(s)] \in Seq(All)
    BY <1>11, <2>1 DEF Flattens
  <2>3. Len(FlattenSeq(s)) \in Nat
    BY <2>1, <2>2
  <2>4. QED
    BY <2>3
<1>17. PICK b \in Nat : b = Len(e)
  BY <1>12
<1>18. PICK l \in Nat : l = NumLayers
  BY ConstantTypes
<1>19. bytes'[f] = l * a + b * l
  BY <1>1, <1>3, <1>16, <1>17, <1>18 DEF Nbytes
<1>20. l * a + b * l = l * (a + b)
  OBVIOUS
<1>21. QED
  BY <1>2, <1>15, <1>16, <1>17, <1>18, <1>19, <1>20

LEMMA StoredChunkKeeps ==
  ASSUME ProcessInv, NEW f \in Facades, Collect(f), UNCHANGED <<hostVars, phase, encoder>>,
         NEW plan, plan = Head(call[f].todo), plan.id \notin ToSet(Scaffolding),
         NEW chunk, chunk = Encoded(capture[f], plan), Doubt(f, TRUE),
         bytes' = [bytes EXCEPT ![f] = @ + Nbytes(chunk)],
         corpus' = [corpus EXCEPT ![f] = Append(@, chunk)],
         chunks' = [chunks EXCEPT ![f] = Append(@, chunk.id)],
         call' = [call EXCEPT ![f] = After(f)], UNCHANGED scaffold
  PROVE  ProcessInv'
<1>0. PICK made, todo : made = call[f].made /\ todo = call[f].todo
  OBVIOUS
<1>1. /\ FacadeTyped /\ OwnInv(f) /\ call[f].op = "encode" /\ phase[f] = "open"
      /\ call[f] = [op |-> "encode", made |-> made, todo |-> todo] /\ made \in Seq(Parts)
  BY <1>0, PassMakes
<1>2. PICK k \in Nat : k = Len(chunks[f])
  BY <1>1, FieldsAt
<1>3. PICK w \in Nat : w = Len(Catalog[f])
  BY CatalogParts
<1>4. PICK id : id = Upcoming(f, 1)
  OBVIOUS
<1>5. Made(f) = 3 /\ scaffold[f] # <<>> /\ id = Catalog[f][k + 1] /\ id \in PartIds(f)
  <2>1. plan.id = id
    <3>1. plan = PlanOf(f, id)
      BY <1>1, <1>4, NextPart
    <3>2. QED
      BY <3>1 DEF PlanOf, PlanAfter
  <2>2. Made(f) \in 0..3 /\ ~(Made(f) < 3)
    BY <1>1, <1>4, <2>1, NextPart
  <2>3. Made(f) = 3
    BY <2>2
  <2>4. scaffold[f] # <<>> /\ id = Catalog[f][Len(chunks[f]) + 1] /\ id \in PartIds(f)
    BY <1>1, <1>4, <2>2, <2>3, NextPart
  <2>5. QED
    BY <1>2, <2>3, <2>4
<1>6. PICK n \in Nat : n = Len(todo) /\ n >= 1 /\ n <= w - k
  <2>1. Len(todo) \in 4 - 3..3 - 3 + w - k
    BY <1>0, <1>2, <1>3, <1>5, PassMakes
  <2>2. PICK n : n = Len(todo)
    OBVIOUS
  <2>3. n \in 4 - 3..3 - 3 + w - k
    BY <2>1, <2>2
  <2>4. n \in Nat /\ n >= 1 /\ n <= w - k
    BY <2>3
  <2>5. QED
    BY <2>2, <2>4
<1>7. /\ \A x : x = id => IsPart(f, chunk, x)'
      /\ chunk \in Parts /\ chunk.id = id /\ doubtful[f] \subseteq doubtful'[f]
  BY <1>4, CollectedIsPart
<1>8. PICK c : c = After(f)
  OBVIOUS
<1>9. /\ n = 1 => c = Rest
      /\ n # 1 => c = [op |-> "encode", made |-> made, todo |-> Tail(todo)]
  BY <1>0, <1>1, <1>6, <1>8 DEF After
<1>10. c.op \in {"rest", "encode"} /\ call' = [call EXCEPT ![f] = c]
  BY <1>8, <1>9 DEF Rest
<1>11. call'[f] = c
  BY <1>1, <1>10, CallAt
<1>12. /\ chunks' \in [Facades -> Seq(Ids)] /\ corpus' \in [Facades -> Seq(Parts)]
       /\ bytes' \in [Facades -> Nat] /\ scaffold' \in [Facades -> Seq(Parts)]
  <2>1. id \in Ids
    BY <1>5, PartIdsAre
  <2>2. /\ Append(chunks[f], id) \in Seq(Ids) /\ Append(corpus[f], chunk) \in Seq(Parts)
    BY <1>1, <1>7, <2>1, FieldsAt, AppendProperties
  <2>3. bytes[f] + Nbytes(chunk) \in Nat
    <3>1. chunk.tokens \in Texts
      BY <1>7 DEF Parts
    <3>2. PICK a \in Nat : a = Len(chunk.tokens)
      BY <3>1 DEF Texts
    <3>3. PICK l \in Nat : l = NumLayers
      BY ConstantTypes
    <3>4. bytes[f] \in Nat
      BY <1>1, FieldsAt
    <3>5. a * l \in Nat
      OBVIOUS
    <3>6. QED
      BY <3>2, <3>3, <3>4, <3>5 DEF Nbytes
  <2>4. QED
    BY <1>1, <1>7, <2>2, <2>3 DEF FacadeTyped
<1>13. /\ chunks'[f] = Append(chunks[f], id) /\ corpus'[f] = Append(corpus[f], chunk)
       /\ bytes'[f] = bytes[f] + Nbytes(chunk) /\ scaffold'[f] = scaffold[f] /\ phase'[f] = phase[f]
       /\ \A g \in Facades \ {f} :
            /\ scaffold'[g] = scaffold[g] /\ chunks'[g] = chunks[g]
            /\ corpus'[g] = corpus[g] /\ bytes'[g] = bytes[g]
  BY <1>1, <1>7 DEF FacadeTyped
<1>14. /\ chunks[f] \in Seq(Ids) /\ corpus[f] \in Seq(Parts) /\ Len(corpus[f]) = k
       /\ chunks[f] = SubSeq(Catalog[f], 1, k)
       /\ \A i \in 1..k : IsPart(f, corpus[f][i], Catalog[f][i])
  BY <1>1, <1>2, FieldsAt DEF OwnInv, PartsKnown, ChunksKnown
<1>15. /\ Len(chunks'[f]) = k + 1 /\ Len(corpus'[f]) = k + 1 /\ corpus'[f][k + 1] = chunk
       /\ \A i \in 1..k : corpus'[f][i] = corpus[f][i]
  <2>1. id \in Ids
    BY <1>5, PartIdsAre
  <2>2. QED
    BY <1>2, <1>7, <1>13, <1>14, <2>1, AppendProperties
<1>16. Made(f)' = 3
  BY <1>5, <1>13 DEF Made
<1>17. CallTyped(f)'
  <2>1. CASE n = 1
    BY <1>9, <1>11, <2>1 DEF CallTyped
  <2>2. CASE n # 1
    <3>1. c = [op |-> "encode", made |-> made, todo |-> Tail(todo)]
      BY <1>9, <2>2
    <3>2. c.op = "encode" /\ c.made = made /\ c.todo = Tail(todo)
      BY <3>1
    <3>3. QED
      BY <1>1, <1>11, <1>13, <3>1, <3>2 DEF CallTyped
  <2>3. QED
    BY <2>1, <2>2
<1>18. ChunksKnown(f)'
  <2>1. Append(SubSeq(Catalog[f], 1, k), Catalog[f][k + 1]) = SubSeq(Catalog[f], 1, k + 1)
    <3>1. k + 1 \in 1..Len(Catalog[f]) /\ Catalog[f] \in Seq(Ids)
      BY <1>3, <1>6, CatalogParts
    <3>2. QED
      BY <3>1
  <2>2. chunks'[f] = SubSeq(Catalog[f], 1, k + 1)
    BY <1>5, <1>13, <1>14, <2>1
  <2>3. k + 1 <= Len(Catalog[f])
    BY <1>3, <1>6
  <2>4. QED
    BY <1>5, <1>13, <1>15, <2>2, <2>3 DEF ChunksKnown
<1>19. PartsKnown(f)'
  <2>1. (/\ scaffold[f] # <<>> => Len(scaffold[f]) = 3
         /\ \A j \in 1..Len(scaffold[f]) : IsPart(f, scaffold[f][j], Scaffolding[j]))'
    BY <1>1, <1>7, <1>13, PartStays DEF OwnInv, PartsKnown
  <2>2. ASSUME NEW i \in 1..k + 1 PROVE IsPart(f, corpus[f][i], Catalog[f][i])'
    <3>1. CASE i = k + 1
      <4>1. corpus'[f][i] = chunk /\ Catalog[f][i] = id
        BY <1>5, <1>15, <3>1
      <4>2. QED
        BY <1>7, <4>1
    <3>2. CASE i # k + 1
      <4>1. i \in 1..k
        BY <3>2
      <4>2. PICK part : part = corpus[f][i]
        OBVIOUS
      <4>3. IsPart(f, part, Catalog[f][i])
        BY <1>14, <4>1, <4>2
      <4>4. IsPart(f, part, Catalog[f][i])'
        BY <1>7, <4>3, PartStays
      <4>5. corpus'[f][i] = part
        BY <1>15, <4>1, <4>2
      <4>6. QED
        BY <4>4, <4>5
    <3>3. QED
      BY <3>1, <3>2
  <2>3. (\A i \in 1..Len(corpus[f]) : IsPart(f, corpus[f][i], Catalog[f][i]))'
    BY <1>15, <2>2
  <2>4. (/\ phase[f] # "closed" => Len(corpus[f]) = Len(chunks[f])
         /\ Len(corpus[f]) <= Len(chunks[f]))'
    BY <1>15
  <2>5. QED
    BY <2>1, <2>3, <2>4 DEF PartsKnown
<1>20. WorkKnown(f)'
  <2>1. CASE n = 1
    <3>1. call'[f].op = "rest"
      BY <1>9, <1>11, <2>1 DEF Rest
    <3>2. QED
      BY <3>1 DEF WorkKnown
  <2>2. CASE n # 1
    <3>1. Len(todo) \in Nat /\ Len(todo) >= 1 /\ 3 \in 0..3
      BY <1>6
    <3>2. IsWork(f, k, 3, todo)
      BY <1>0, <1>2, <1>5, PassMakes
    <3>3. Len(Tail(todo)) = n - 1 /\ IsWork(f, k + 1, 3, Tail(todo))
      BY <1>6, <3>1, <3>2, WorkBehindTheFirst
    <3>4. n - 1 \in 4 - 3..3 - 3 + w - (k + 1)
      BY <1>6, <2>2
    <3>5. call'[f].todo = Tail(todo)
      BY <1>9, <1>11, <2>2
    <3>6. IsWork(f, Len(chunks[f]), Made(f), call[f].todo)'
      BY <1>15, <1>16, <3>3, <3>5
    <3>7. (Len(call[f].todo) \in 4 - Made(f)..3 - Made(f) + Len(Catalog[f]) - Len(chunks[f]))'
      BY <1>3, <1>15, <1>16, <3>3, <3>4, <3>5
    <3>8. scaffold'[f] # <<>>
      BY <1>5, <1>13
    <3>9. QED
      BY <3>6, <3>7, <3>8 DEF WorkKnown
  <2>3. QED
    BY <2>1, <2>2
<1>21. BytesKnown(f)'
  <2>1. ASSUME "refused" \notin doubtful'[f]
        PROVE  bytes'[f] = NumLayers * Len(FlattenSeq(TokensHeld(f)'))
    <3>1. bytes[f] = NumLayers * Len(FlattenSeq(TokensHeld(f)))
      BY <1>1, <1>7, <2>1 DEF OwnInv, BytesKnown
    <3>2. QED
      BY <1>1, <1>7, <1>13, <3>1, BytesGrow
  <2>2. QED
    BY <2>1 DEF BytesKnown
<1>22. c.op # "generate" /\ c.op # "register" /\ TRUE \in BOOLEAN
  BY <1>10
<1>23. QED
  BY <1>10, <1>12, <1>13, <1>17, <1>18, <1>19, <1>20, <1>21, <1>22, PartTaken

(* A chunk the store refuses was measured, and is in nothing else.         *)
LEMMA RefusedChunkKeeps ==
  ASSUME ProcessInv, NEW f \in Facades, Collect(f), UNCHANGED <<hostVars, phase, encoder>>,
         NEW plan, plan = Head(call[f].todo),
         NEW chunk, chunk = Encoded(capture[f], plan), Doubt(f, FALSE),
         bytes' = [bytes EXCEPT ![f] = @ + Nbytes(chunk)],
         call' = [call EXCEPT ![f] = Rest], UNCHANGED <<scaffold, chunks, corpus>>
  PROVE  ProcessInv'
<1>1. FacadeTyped /\ OwnInv(f)
  BY DEF ProcessInv
<1>2. chunk \in Parts /\ doubtful[f] \subseteq doubtful'[f] /\ "refused" \in doubtful'[f]
  BY CollectedIsPart
<1>3. call'[f] = Rest /\ Rest.op = "rest"
  BY <1>1, CallAt DEF Rest
<1>4. bytes' \in [Facades -> Nat] /\ \A g \in Facades \ {f} : bytes'[g] = bytes[g]
  <2>1. bytes[f] + Nbytes(chunk) \in Nat
    <3>1. chunk.tokens \in Texts
      BY <1>2 DEF Parts
    <3>2. PICK a \in Nat : a = Len(chunk.tokens)
      BY <3>1 DEF Texts
    <3>3. PICK l \in Nat : l = NumLayers
      BY ConstantTypes
    <3>4. bytes[f] \in Nat
      BY <1>1, FieldsAt
    <3>5. a * l \in Nat
      OBVIOUS
    <3>6. QED
      BY <3>2, <3>3, <3>4, <3>5 DEF Nbytes
  <2>2. QED
    BY <1>1, <2>1 DEF FacadeTyped
<1>5. /\ scaffold' \in [Facades -> Seq(Parts)] /\ chunks' \in [Facades -> Seq(Ids)]
      /\ corpus' \in [Facades -> Seq(Parts)]
  BY <1>1 DEF FacadeTyped
<1>6. CallTyped(f)' /\ WorkKnown(f)'
  BY <1>3 DEF CallTyped, WorkKnown
<1>7. ChunksKnown(f)'
  BY <1>1 DEF OwnInv, ChunksKnown
<1>8. PartsKnown(f)'
  BY <1>1, <1>2, PartStays DEF OwnInv, PartsKnown
<1>9. BytesKnown(f)'
  BY <1>2 DEF BytesKnown
<1>10. Rest.op # "generate" /\ Rest.op # "register" /\ FALSE \in BOOLEAN
  BY <1>3
<1>11. QED
  BY <1>4, <1>5, <1>6, <1>7, <1>8, <1>9, <1>10, PartTaken

LEMMA EndPassKeeps ==
  ASSUME ProcessInv, NEW f \in Facades, EndPass(f)
  PROVE  ProcessInv'
<1>1. PICK plan : plan = Head(call[f].todo)
  OBVIOUS
<1>2. PICK part : part = Encoded(capture[f], plan)
  OBVIOUS
<1>3. Collect(f) /\ UNCHANGED <<hostVars, phase, encoder>>
  BY DEF EndPass
<1>4. \/ call' = [call EXCEPT ![f] = Rest] /\ UNCHANGED <<scaffold, chunks, corpus, bytes, doubtful>>
      \/ plan.id \in ToSet(Scaffolding) /\ KeepPart(f, part)
      \/ plan.id \notin ToSet(Scaffolding) /\ AddChunk(f, part)
  BY <1>1, <1>2 DEF EndPass
<1>5. ASSUME call' = [call EXCEPT ![f] = Rest], UNCHANGED <<scaffold, chunks, corpus, bytes, doubtful>>
      PROVE  ProcessInv'
  <2>1. CaptureInv'
    BY <1>3, CollectKeeps DEF ProcessInv, Facades
  <2>2. ~Capturing(f)'
    BY <1>3 DEF Collect, EndCapture, Capturing, NoCapture, Facades
  <2>3. \A g \in Facades \ {f} : SamePass(g)
    BY <1>3, OthersPass
  <2>4. UNCHANGED <<hostVars, phase, encoder, scaffold, chunks, corpus, bytes, doubtful>>
    BY <1>3, <1>5
  <2>5. QED
    BY <1>5, <2>1, <2>2, <2>3, <2>4, CallEnds
<1>6. ASSUME plan.id \in ToSet(Scaffolding), KeepPart(f, part) PROVE ProcessInv'
  BY <1>1, <1>2, <1>3, <1>6, KeepPartKeeps
<1>7. ASSUME plan.id \notin ToSet(Scaffolding), AddChunk(f, part) PROVE ProcessInv'
  <2>1. PICK stored \in BOOLEAN :
          /\ bytes' = [bytes EXCEPT ![f] = @ + Nbytes(part)]
          /\ corpus' = IF stored THEN [corpus EXCEPT ![f] = Append(@, part)] ELSE corpus
          /\ chunks' = IF stored THEN [chunks EXCEPT ![f] = Append(@, part.id)] ELSE chunks
          /\ call' = [call EXCEPT ![f] = IF stored THEN After(f) ELSE Rest]
          /\ Doubt(f, stored) /\ UNCHANGED scaffold
    BY <1>7 DEF AddChunk, RefusalsLeft
  <2>2. CASE stored = TRUE
    <3>1. /\ bytes' = [bytes EXCEPT ![f] = @ + Nbytes(part)]
          /\ corpus' = [corpus EXCEPT ![f] = Append(@, part)]
          /\ chunks' = [chunks EXCEPT ![f] = Append(@, part.id)]
          /\ call' = [call EXCEPT ![f] = After(f)] /\ Doubt(f, TRUE) /\ UNCHANGED scaffold
      BY <2>1, <2>2
    <3>2. QED
      BY <1>1, <1>2, <1>3, <1>7, <3>1, StoredChunkKeeps
  <2>3. CASE stored = FALSE
    <3>1. /\ bytes' = [bytes EXCEPT ![f] = @ + Nbytes(part)]
          /\ call' = [call EXCEPT ![f] = Rest] /\ Doubt(f, FALSE)
          /\ UNCHANGED <<scaffold, chunks, corpus>>
      BY <2>1, <2>3
    <3>2. QED
      BY <1>1, <1>2, <1>3, <3>1, RefusedChunkKeeps
  <2>4. QED
    BY <2>2, <2>3
<1>8. QED
  BY <1>4, <1>5, <1>6, <1>7
-----------------------------------------------------------------------------
(* All of it.                                                              *)

LEMMA NumberedApart ==
  /\ \E made \in [Facades -> 1..Cardinality(Facades)] : IsInjective(made)
  /\ Cardinality(Facades) \in Nat
<1>1. IsFiniteSet(Facades) /\ Cardinality(Facades) \in Nat
  BY ConstantTypes, FS_CardinalityType
<1>2. ExistsBijection(1..Cardinality(Facades), Facades)
  BY <1>1, FS_CardinalityType
<1>3. ExistsBijection(Facades, 1..Cardinality(Facades))
  BY <1>2, Fun_ExistsBijSymmetric
<1>4. PICK made : made \in Bijection(Facades, 1..Cardinality(Facades))
  BY <1>3 DEF ExistsBijection
<1>5. made \in [Facades -> 1..Cardinality(Facades)] /\ IsInjective(made)
  BY <1>4 DEF Bijection, Injection, IsInjective
<1>6. QED
  BY <1>1, <1>5

LEMMA InitKnown ==
  ASSUME Init
  PROVE  ProcessInv
<1>1. /\ RopeInit /\ HostInit
      /\ phase = [f \in Facades |-> "open"] /\ encoder = [f \in Facades |-> "none"]
      /\ scaffold = [f \in Facades |-> <<>>] /\ chunks = [f \in Facades |-> <<>>]
      /\ corpus = [f \in Facades |-> <<>>] /\ bytes = [f \in Facades |-> 0]
      /\ call = [f \in Facades |-> Rest] /\ doubtful = [f \in Facades |-> {}]
  BY DEF Init
<1>2. \A t \in Threads : capture[t] = NoCapture /\ ~Capturing(t)
  BY <1>1 DEF RopeInit, Capturing, NoCapture
<1>3. CaptureInv
  <2>1. fn = {} /\ capture = [t \in Threads |-> NoCapture] /\ upsets = 0
    BY <1>1 DEF RopeInit
  <2>2. CaptureTyped
    BY <2>1, NoCaptureIsTyped DEF CaptureTyped
  <2>3. \A t \in Threads : capture[t].at # "patched"
    <3>1. NoCapture.at = "none"
      BY DEF NoCapture
    <3>2. QED
      BY <1>2, <3>1
  <2>4. QED
    BY <1>2, <2>1, <2>2, <2>3 DEF CaptureInv, OverlapKnown, KeysOwn, PatchKnown
<1>4. FacadeTyped
  <2>1. <<>> \in Seq(Parts) /\ <<>> \in Seq(Ids)
    OBVIOUS
  <2>2. QED
    BY <1>1, <2>1 DEF FacadeTyped
<1>5. ASSUME NEW f \in Facades PROVE OwnInv(f)
  <2>1. /\ phase[f] = "open" /\ scaffold[f] = <<>> /\ chunks[f] = <<>> /\ corpus[f] = <<>>
        /\ bytes[f] = 0 /\ call[f] = Rest /\ call[f].op = "rest"
    BY <1>1 DEF Rest
  <2>2. CallTyped(f)
    BY <2>1 DEF CallTyped
  <2>3. ChunksKnown(f)
    BY <2>1, CatalogParts DEF ChunksKnown
  <2>4. PartsKnown(f)
    BY <2>1 DEF PartsKnown
  <2>5. WorkKnown(f) /\ PassKnown(f) /\ RowsKnown(f)
    BY <1>2, <2>1 DEF WorkKnown, PassKnown, RowsKnown, Facades
  <2>6. BytesKnown(f)
    <3>1. TokensHeld(f) = <<>>
      BY <2>1 DEF TokensHeld
    <3>2. Len(FlattenSeq(<<>>)) = 0
      BY DEF FlattenSeq
    <3>3. QED
      BY <2>1, <3>1, <3>2, ConstantTypes DEF BytesKnown
  <2>7. QED
    BY <2>2, <2>3, <2>4, <2>5, <2>6 DEF OwnInv
<1>6. StoresKnown
  <2>1. Namespaces = Facades
    BY ConstantTypes
  <2>2. registry \in [Facades -> 1..Cardinality(Facades)] /\ IsInjective(registry)
    BY <1>1, <2>1, NumberedApart DEF HostInit
  <2>3. /\ connector = [n \in Facades |-> 0]
        /\ stores = [i \in 1..Cardinality(Facades) |-> NoMemory]
    BY <1>1, <2>1 DEF HostInit
  <2>4. \A f \in Facades : registry[f] # 0 /\ registry[f] \in 0..Cardinality(Facades)
    BY <2>2, NumberedApart
  <2>5. \A f, g \in Facades : f # g => registry[f] # registry[g]
    BY <2>2 DEF IsInjective
  <2>6. \A f \in Facades : phase[f] = "open" /\ call[f].op = "rest"
    BY <1>1 DEF Rest
  <2>7. /\ registry \in [Namespaces -> 0..Cardinality(Namespaces)]
        /\ connector \in [Namespaces -> 0..Cardinality(Namespaces)]
    BY <2>1, <2>2, <2>3, <2>4, NumberedApart
  <2>8. DOMAIN stores = 1..Cardinality(Namespaces) /\ \A f \in Facades : connector[f] = 0
    BY <2>1, <2>3
  <2>9. QED
    BY <2>4, <2>5, <2>6, <2>7, <2>8 DEF StoresKnown
<1>7. QED
  BY <1>3, <1>4, <1>5, <1>6 DEF ProcessInv

LEMMA NothingHappens ==
  ASSUME ProcessInv, UNCHANGED vars
  PROVE  ProcessInv'
<1>1. /\ UNCHANGED ropeVars /\ UNCHANGED <<registry, stores, connector>>
      /\ UNCHANGED <<phase, encoder, scaffold, chunks, corpus, bytes, call, doubtful>>
  BY DEF vars, hostVars, facadeVars
<1>2. CaptureInv' /\ \A g \in Facades : SamePass(g)
  BY <1>1, SameRope DEF ProcessInv
<1>3. FacadeTyped'
  BY <1>1 DEF ProcessInv, FacadeTyped
<1>4. StoresKnown'
  BY <1>1 DEF ProcessInv, StoresKnown
<1>5. \A g \in Facades : SameFacade(g)
  BY <1>1 DEF SameFacade
<1>6. \A g \in Facades : OwnInv(g)'
  BY <1>2, <1>5, SameKeeps DEF ProcessInv
<1>7. QED
  BY <1>2, <1>3, <1>4, <1>6 DEF ProcessInv

LEMMA StepKeepsAll ==
  ASSUME ProcessInv, [Next]_vars
  PROVE  ProcessInv'
<1>1. ASSUME NEW f \in Facades, NEW n \in 1..Len(Catalog[f]), Precompute(f, n) PROVE ProcessInv'
  BY <1>1, PrecomputeKeeps
<1>2. ASSUME NEW f \in Facades, BeginPass(f) PROVE ProcessInv'
  BY <1>2, BeginPassKeeps
<1>3. ASSUME NEW f \in Facades, Forward(f) PROVE ProcessInv'
  BY <1>3, ForwardKeeps
<1>4. ASSUME NEW f \in Facades, EncodeRefused(f) PROVE ProcessInv'
  BY <1>4, EncodeRefusedKeeps
<1>5. ASSUME NEW f \in Facades, PassRaises(f) PROVE ProcessInv'
  BY <1>5, PassRaisesKeeps
<1>6. ASSUME NEW f \in Facades, EndPass(f) PROVE ProcessInv'
  BY <1>6, EndPassKeeps
<1>7. ASSUME NEW f \in Facades, Start(f) PROVE ProcessInv'
  BY <1>7, StartKeeps
<1>8. ASSUME NEW f \in Facades, NEW ids \in Selections(f), Answer(f, ids) PROVE ProcessInv'
  BY <1>8, AnswerKeeps
<1>9. ASSUME NEW f \in Facades, Register(f) PROVE ProcessInv'
  BY <1>9, RegisterKeeps
<1>10. ASSUME NEW f \in Facades, Generate(f) PROVE ProcessInv'
  BY <1>10, GenerateKeeps
<1>11. ASSUME NEW f \in Facades, Close(f) PROVE ProcessInv'
  BY <1>11, CloseKeeps
<1>12. CASE UNCHANGED vars
  BY <1>12, NothingHappens
<1>13. QED
  BY <1>1, <1>2, <1>3, <1>4, <1>5, <1>6, <1>7, <1>8, <1>9, <1>10, <1>11, <1>12 DEF Next

LEMMA ProcessIsKnown == Spec => []ProcessInv
<1>1. Init => ProcessInv
  BY InitKnown
<1>2. ProcessInv /\ [Next]_vars => ProcessInv'
  BY StepKeepsAll
<1>3. QED
  BY <1>1, <1>2, PTL DEF Spec

(* PatchesAreTemporary: without overlaps the rotary function is wrapped in  *)
(* the capture of a running pass or is the family's own, also after passes *)
(* and imports that raised.                                                *)
THEOREM PatchesComeOff == Spec => []PatchesAreTemporary
<1>1. ProcessInv => PatchesAreTemporary
  <2> SUFFICES ASSUME ProcessInv, \A f \in Facades : ~Capturing(f), upsets = 0
               PROVE  fn = {}
    BY DEF PatchesAreTemporary
  <2>1. fn = {t \in Threads : capture[t].at = "patched"}
    BY DEF ProcessInv, CaptureInv, PatchKnown
  <2>2. \A t \in Threads : capture[t].at = "none"
    BY DEF Capturing, Facades
  <2>3. QED
    BY <2>1, <2>2
<1>2. QED
  BY <1>1, ProcessIsKnown, PTL

(* CorpusCountsWhatItHolds: the byte count grows by what each chunk that   *)
(* goes to the store weighs, and falls to nothing with the store.          *)
THEOREM CorpusCountIsRight == Spec => []CorpusCountsWhatItHolds
<1>1. ProcessInv => CorpusCountsWhatItHolds
  BY DEF ProcessInv, OwnInv, BytesKnown, TokensHeld, CorpusCountsWhatItHolds
<1>2. QED
  BY <1>1, ProcessIsKnown, PTL

(* ConnectorFindsTheMemory: the store an engine's connector holds is the   *)
(* one its facade registered the memory in, and no other facade's.         *)
THEOREM EnginesFindTheirMemory == Spec => []ConnectorFindsTheMemory
<1>1. ProcessInv => ConnectorFindsTheMemory
  <2> SUFFICES ASSUME ProcessInv PROVE ConnectorFindsTheMemory
    OBVIOUS
  <2>1. ASSUME NEW f \in Facades, call[f].op = "generate"
        PROVE  connector[f] # 0 /\ stores[connector[f]] = call[f].memory
    <3>1. phase[f] = "serving"
      BY <2>1, AnsweringServes
    <3>2. QED
      BY <2>1, <3>1 DEF ProcessInv, StoresKnown
  <2>2. ASSUME NEW f \in Facades, NEW g \in Facades, f # g, connector[f] # 0
        PROVE  connector[f] # connector[g]
    BY <2>2 DEF ProcessInv, StoresKnown
  <2>3. QED
    BY <2>1, <2>2 DEF ConnectorFindsTheMemory
<1>2. QED
  BY <1>1, ProcessIsKnown, PTL

LEMMA MemoryIdsAre ==
  ASSUME ProcessInv, NEW f \in Facades, NEW ids \in Seq(ToSet(chunks[f])),
         NEW p \in DOMAIN MemoryIds(ids)
  PROVE  /\ MemoryIds(ids)[p] \in PartIds(f)
         /\ MemoryIds(ids)[p] \in ToSet(chunks[f]) \/ MemoryIds(ids)[p] \in ToSet(Scaffolding)
<1> DEFINE S  == ToSet(chunks[f]) \cup ToSet(Scaffolding)
           mi == IF ids = <<>> THEN <<Empty>> ELSE ids
<1>1. Header \in ToSet(Scaffolding) /\ Empty \in ToSet(Scaffolding) /\ Footer \in ToSet(Scaffolding)
  <2>1. DOMAIN Scaffolding = 1..3 /\ Scaffolding[1] = Header /\ Scaffolding[2] = Empty
        /\ Scaffolding[3] = Footer
    BY DEF Scaffolding
  <2>2. QED
    BY <2>1 DEF ToSet
<1>2. ToSet(chunks[f]) \subseteq ToSet(Catalog[f])
  <2>1. PICK k \in Nat : k = Len(chunks[f])
    BY FieldsAt DEF ProcessInv
  <2>2. /\ chunks[f] = SubSeq(Catalog[f], 1, k) /\ k <= Len(Catalog[f]) /\ DOMAIN chunks[f] = 1..k
        /\ Catalog[f] \in Seq(Ids) /\ Len(Catalog[f]) \in Nat
    BY <2>1, CatalogParts, FieldsAt DEF ProcessInv, OwnInv, ChunksKnown
  <2>3. \A j \in 1..k : chunks[f][j] = Catalog[f][j] /\ j \in 1..Len(Catalog[f])
    BY <2>2
  <2>4. QED
    BY <2>2, <2>3 DEF ToSet
<1>3. S \subseteq PartIds(f)
  BY <1>2 DEF PartIds
<1>4. Header \in S /\ Footer \in S /\ mi \in Seq(S)
  <2>1. <<Empty>> \in Seq(S) /\ ids \in Seq(S)
    BY <1>1
  <2>2. QED
    BY <1>1, <2>1
<1>5. MemoryIds(ids) = <<Header>> \o mi \o <<Footer>>
  BY DEF MemoryIds
<1>6. MemoryIds(ids) \in Seq(S)
  <2> HIDE DEF S, mi
  <2>1. QED
    BY <1>4, <1>5, Wrapped
<1>7. MemoryIds(ids)[p] \in S
  <2> HIDE DEF S
  <2>1. QED
    BY <1>6
<1>8. QED
  BY <1>3, <1>7

(* RowsAreExact: a memory composed for a facade none of whose passes       *)
(* overlapped another has the rows its tokens, their windows and their     *)
(* places in the memory call for.                                          *)
THEOREM MemoriesAreExact == Spec => []RowsAreExact
<1>1. ASSUME ProcessInv, NEW f \in Facades, NEW id \in PartIds(f), 
             id \in ToSet(chunks[f]) \/ id \in ToSet(Scaffolding)
      PROVE  ContextOf(f, id) = Context(f, id)
  <2>1. PICK k \in Nat : k = Len(chunks[f])
    BY <1>1, FieldsAt DEF ProcessInv
  <2>2. /\ chunks[f] = SubSeq(Catalog[f], 1, k) /\ k <= Len(Catalog[f]) /\ DOMAIN chunks[f] = 1..k
        /\ Catalog[f] \in Seq(Ids) /\ Len(Catalog[f]) \in Nat
    BY <1>1, <2>1, CatalogParts, FieldsAt DEF ProcessInv, OwnInv, ChunksKnown
  <2>3. CASE id \in ToSet(Scaffolding)
    BY <2>3 DEF ContextOf, Context
  <2>4. CASE id \notin ToSet(Scaffolding)
    <3>1. PICK i \in 1..k : id = chunks[f][i]
      BY <1>1, <2>2, <2>4 DEF ToSet
    <3>2. \A j \in 1..k : chunks[f][j] = Catalog[f][j] /\ j \in 1..Len(Catalog[f])
      BY <2>2
    <3>3. id = Catalog[f][i] /\ i \in 1..Len(Catalog[f])
      BY <3>1, <3>2
    <3>4. \A j \in DOMAIN chunks[f] : chunks[f][j] = id <=> j = i
      <4>1. IsInjective(Catalog[f]) /\ DOMAIN Catalog[f] = 1..Len(Catalog[f])
        BY CatalogParts
      <4>2. QED
        BY <2>2, <3>1, <3>2, <3>3, <4>1 DEF IsInjective
    <3>5. i = CHOOSE j \in DOMAIN chunks[f] : chunks[f][j] = id
      BY <2>2, <3>4
    <3>6. SubSeq(chunks[f], 1, i - 1) = SubSeq(Catalog[f], 1, i - 1)
      BY <2>2, <3>3
    <3>7. ContextOf(f, id)
            = LastItems(TokensIn(LastItems(SubSeq(Catalog[f], 1, i - 1), ContextWindow)),
                        MaxPosition - Len(TokensOf[id]))
      BY <2>4, <3>5, <3>6, Zenon DEF ContextOf
    <3>8. Place(f, id) = i
      BY <3>3, PlaceIs
    <3>9. QED
      BY <2>4, <3>7, <3>8, Zenon DEF Context, Window
  <2>5. QED
    BY <2>3, <2>4
<1>2. ASSUME ProcessInv, NEW f \in Facades, call[f].op \in {"register", "generate"},
             "overlap" \notin doubtful[f]
      PROVE  LET ids  == MemoryIds(call[f].ids)
                 seen == FlattenSeq([p \in DOMAIN ids |->
                           [i \in DOMAIN TokensOf[ids[p]] |->
                             ContextOf(f, ids[p]) \o SubSeq(TokensOf[ids[p]], 1, i)]])
             IN  HasTheRowsOf(call[f].memory, seen)
  <2> DEFINE ids  == MemoryIds(call[f].ids)
             here == [p \in DOMAIN ids |->
                       [i \in DOMAIN TokensOf[ids[p]] |->
                         ContextOf(f, ids[p]) \o SubSeq(TokensOf[ids[p]], 1, i)]]
  <2>1. /\ call[f].ids \in Seq(ToSet(chunks[f]))
        /\ HasTheRowsOf(call[f].memory, FlattenSeq(Seen(f, ids)))
    BY <1>2 DEF ProcessInv, OwnInv, RowsKnown
  <2>2. \A p \in DOMAIN ids :
          ids[p] \in PartIds(f) /\ (ids[p] \in ToSet(chunks[f]) \/ ids[p] \in ToSet(Scaffolding))
    BY <1>2, <2>1, MemoryIdsAre
  <2>3. \A p \in DOMAIN ids : ContextOf(f, ids[p]) = Context(f, ids[p])
    BY <1>1, <1>2, <2>2
  <2>4. here = Seen(f, ids)
    <3> HIDE DEF ids
    <3>1. \A p \in DOMAIN ids :
            [i \in DOMAIN TokensOf[ids[p]] |-> ContextOf(f, ids[p]) \o SubSeq(TokensOf[ids[p]], 1, i)]
            = [i \in DOMAIN TokensOf[ids[p]] |-> Context(f, ids[p]) \o SubSeq(TokensOf[ids[p]], 1, i)]
      BY <2>3
    <3>2. QED
      BY <3>1 DEF Seen
  <2>5. QED
    BY <2>1, <2>4
<1>3. ProcessInv => RowsAreExact
  BY <1>2 DEF RowsAreExact, HasTheRowsOf, MemoryIds
<1>4. QED
  BY <1>3, ProcessIsKnown, PTL

-----------------------------------------------------------------------------
(* The files of precompute.                                                *)

Versions == DOMAIN Tokenize
Here(p) == disk[p].pt # NoFile

(* What the files, the processes and the answer stage are.                 *)
WriterStates ==
  [at : {"rest", "encode", "write", "replace"}, todo : Seq(Files),
   open : {"none", "tmp", "pt", "gone"}]
FilesTypes ==
  /\ tokenizer \in Versions /\ tokenizer \in history.used
  /\ disk \in [Files -> [pt : SavedFiles \cup {NoFile}, tmp : SavedFiles \cup {NoFile}]]
  /\ writer \in [Writers -> WriterStates]
  /\ answerer \in [at : {"rest", "load", "serve", "refused"}, entries : Seq({Encode(v, p) : v \in Versions, p \in Files}),
                   promised : BOOLEAN]
  /\ history \in [overlapped : BOOLEAN, used : SUBSET Versions, finished : BOOLEAN]
  /\ changes \in Nat

(* A process goes through what was missing in the corpus's order, and what *)
(* is not before it any more has a file.                                   *)
InOrder(todo) == Follows(todo, Corpus)
TodoInv ==
  \A w \in Writers : Running(w) =>
    /\ writer[w].todo # <<>> /\ IsInjective(writer[w].todo) /\ InOrder(writer[w].todo)
    /\ \A p \in ToSet(Corpus) \ ToSet(writer[w].todo) : Here(p)

(* The file a process has open is there until it is replaced, and what it  *)
(* is to rename is of this tokenizer, whoever wrote it.                    *)
OpenInv ==
  \A w \in Writers :
    /\ writer[w].at = "write" =>
         /\ writer[w].open \in {"tmp", "pt", "gone"}
         /\ writer[w].open # "gone" => disk[Target(w)][writer[w].open] # NoFile
    /\ writer[w].at \in {"write", "replace"} =>
         disk[Target(w)].tmp = NoFile
           \/ disk[Target(w)].tmp.payload = Encode(tokenizer, Target(w))

(* No chunk has a file before the chunks in front of it have theirs.  One  *)
(* that is not of this tokenizer is of one version with all in front of it.*)
IsOf(v, p) == disk[p].pt.payload = Encode(v, p)
OneVersion(v, i) == \A j \in 1..i : IsOf(v, Corpus[j])
LayersOf(v) ==
  \A i \in DOMAIN Corpus : Here(Corpus[i]) => IsOf(tokenizer, Corpus[i]) \/ OneVersion(v, i)
VersionInv ==
  /\ \A i \in DOMAIN Corpus : Here(Corpus[i]) => \A j \in 1..i : Here(Corpus[j])
  /\ changes = 0 => \A p \in ToSet(Corpus) : Here(p) => IsOf(tokenizer, p)
  /\ changes <= 1 => \E v \in Versions : LayersOf(v)
  /\ \A w \in Writers : Running(w) =>
       \A p \in ToSet(writer[w].todo) \cap ToSet(Corpus) : Here(p) => IsOf(tokenizer, p)

(* What was loaded is what is there.                                       *)
EntryInv ==
  /\ answerer.at = "load" => Len(answerer.entries) < Len(Corpus)
  /\ Len(answerer.entries) <= Len(Corpus)
  /\ changes <= 1 => \A i \in DOMAIN answerer.entries :
       /\ answerer.entries[i] = Encode(tokenizer, Corpus[i])
       /\ Here(Corpus[i]) /\ IsOf(tokenizer, Corpus[i])

(* With one process at a time and one tokenizer a file is whole, and what  *)
(* a process has before it is what is not there.                           *)
Clean == ~history.overlapped /\ history.used = {tokenizer}
Sole(w) ==
  /\ \A u \in Writers : Running(u) => u = w
  /\ \A p \in Files : p \in ToSet(writer[w].todo) <=> ~Here(p)
  /\ writer[w].at \in {"write", "replace"} =>
       /\ disk[Target(w)].tmp # NoFile
       /\ disk[Target(w)].tmp.payload = Encode(tokenizer, Target(w))
  /\ writer[w].at = "write" => writer[w].open = "tmp" /\ disk[Target(w)].tmp.by = w
  /\ writer[w].at = "replace" => disk[Target(w)].tmp.whole
CleanInv ==
  Clean =>
    /\ \A p \in Files : Here(p) => IsOf(tokenizer, p) /\ disk[p].pt.whole
    /\ \A w \in Writers : Running(w) => Sole(w)
    /\ history.finished => \A p \in Files : Here(p)

(* What was promised still holds.                                          *)
PromiseInv ==
  /\ answerer.promised => Promised
  /\ answerer.at = "refused" => ~answerer.promised
  /\ answerer.at = "rest" => answerer.entries = <<>> /\ ~answerer.promised

FilesInv == FilesTypes /\ TodoInv /\ OpenInv /\ VersionInv /\ EntryInv /\ CleanInv /\ PromiseInv

-----------------------------------------------------------------------------
(* What an encode depends on, and what is there to do.                     *)

LEMMA CorpusParts ==
  /\ Corpus \in Seq(ToSet(Corpus)) /\ IsInjective(Corpus)
  /\ DOMAIN Corpus = 1..Len(Corpus) /\ Len(Corpus) \in Nat /\ Len(Corpus) > 0
  /\ \A i \in 1..Len(Corpus) : Corpus[i] \in ToSet(Corpus) /\ Corpus[i] \in Files
  /\ \A p \in ToSet(Corpus) : \E i \in 1..Len(Corpus) : Corpus[i] = p
  /\ Files = ToSet(Corpus) \cup {Tables} /\ Tables \notin ToSet(Corpus)
<1>1. /\ Corpus \in Seq(ToSet(Corpus)) /\ Corpus # <<>> /\ IsInjective(Corpus)
      /\ Tables \notin ToSet(Corpus)
  BY ChunkFilesAssumption
<1> DEFINE S == ToSet(Corpus)
<1>2. DOMAIN Corpus = 1..Len(Corpus) /\ Len(Corpus) \in Nat /\ Len(Corpus) > 0
  <2>1. Corpus \in Seq(S) /\ Corpus # <<>>
    BY <1>1
  <2> HIDE DEF S
  <2>2. QED
    BY <2>1, EmptySeq
<1>3. \A i \in 1..Len(Corpus) : Corpus[i] \in ToSet(Corpus)
  BY <1>2 DEF ToSet
<1>4. \A p \in ToSet(Corpus) : \E i \in 1..Len(Corpus) : Corpus[i] = p
  BY <1>2 DEF ToSet
<1>5. QED
  BY <1>1, <1>2, <1>3, <1>4 DEF Files

(* A file's header has the tokens of the version it was encoded with.      *)
LEMMA HeaderHasTokens ==
  ASSUME NEW v, NEW p
  PROVE  Encode(v, p).tokens = Tokenize[v][p]
BY DEF Encode

(* A chunk's encode depends on its own tokens and on those in front of it. *)
LEMMA EncodeLooksBack ==
  ASSUME NEW u, NEW v, NEW i \in 1..Len(Corpus),
         \A j \in 1..i : Tokenize[u][Corpus[j]] = Tokenize[v][Corpus[j]]
  PROVE  Encode(u, Corpus[i]) = Encode(v, Corpus[i])
<1> DEFINE p == Corpus[i]
           at == CHOOSE j \in DOMAIN Corpus : Corpus[j] = p
           from == IF at > ContextWindow THEN at - ContextWindow ELSE 1
           Behind(w) == [k \in 1..(at - from) |-> Tokenize[w][Corpus[from + k - 1]]]
           context(w) == IF p = Tables THEN <<>> ELSE FlattenSeq(Behind(w))
<1>1. at = i
  <2>1. \A j \in DOMAIN Corpus : Corpus[j] = p => j = i
    BY CorpusParts DEF IsInjective
  <2>2. i \in DOMAIN Corpus /\ Corpus[i] = p
    BY CorpusParts
  <2> HIDE DEF p
  <2>3. QED
    BY <2>1, <2>2
<1>2. from \in Nat /\ from >= 1
  BY <1>1, CorpusParts, EncodingPlanAssumption
<1> HIDE DEF at, from, p
<1>3. ASSUME NEW k \in 1..(at - from)
      PROVE  Tokenize[u][Corpus[from + k - 1]] = Tokenize[v][Corpus[from + k - 1]]
  <2>1. from + k - 1 \in 1..i
    BY <1>1, <1>2, CorpusParts
  <2>2. QED
    BY <2>1
<1>4. Behind(u) = Behind(v)
  BY <1>3
<1>5. context(u) = context(v)
  <2> HIDE DEF Behind
  <2>1. QED
    BY <1>4
<1>6. Tokenize[u][p] = Tokenize[v][p]
  <2>1. i \in 1..i
    BY CorpusParts
  <2>2. QED
    BY <2>1 DEF p
<1> DEFINE E(w, c) == [tokens |-> Tokenize[w][p],
                       input |-> BuildEncodingPlan(p, Tokenize[w][p], c).input]
<1>7. Encode(u, p) = E(u, context(u)) /\ Encode(v, p) = E(v, context(v))
  BY DEF Encode, at, from, Behind, context
<1>8. E(u, context(u)) = E(v, context(v))
  <2> HIDE DEF context
  <2>1. QED
    BY <1>5, <1>6
<1>9. QED
  BY <1>7, <1>8 DEF p

(* What precompute_rag_kv finds to do.                                     *)
ToDo ==
  Filtered(Corpus, {p \in ToSet(Corpus) : disk[p].pt = NoFile})
    \o (IF Loads(Tables) THEN <<>> ELSE <<Tables>>)

LEMMA ToDoIsMissing ==
  /\ ToDo \in Seq(Files) /\ IsInjective(ToDo) /\ InOrder(ToDo)
  /\ \A p \in ToSet(Corpus) : p \in ToSet(ToDo) <=> ~Here(p)
  /\ Tables \in ToSet(ToDo) <=> ~Loads(Tables)
<1> DEFINE keep == {p \in ToSet(Corpus) : disk[p].pt = NoFile}
           f == Filtered(Corpus, keep)
           last == IF Loads(Tables) THEN <<>> ELSE <<Tables>>
           S == ToSet(Corpus)
<1>1. /\ f \in Seq(S) /\ ToSet(f) = S \cap keep /\ IsInjective(f)
      /\ Follows(f, Corpus)
  <2>1. Corpus \in Seq(S) /\ IsInjective(Corpus) /\ S = ToSet(Corpus)
    BY CorpusParts
  <2> HIDE DEF keep, S
  <2>2. QED
    BY <2>1, FilteredMembers
<1>2. ToDo = f \o last
  BY DEF ToDo
<1>3. last \in Seq(Files) /\ ToSet(last) = IF Loads(Tables) THEN {} ELSE {Tables}
  <2>1. CASE Loads(Tables)
    <3>1. last = <<>>
      BY <2>1
    <3>2. QED
      BY <2>1, <3>1 DEF ToSet
  <2>2. CASE ~Loads(Tables)
    <3>1. last = <<Tables>> /\ Tables \in Files
      BY <2>2, CorpusParts
    <3>2. <<Tables>> \in Seq(Files) /\ DOMAIN <<Tables>> = {1} /\ <<Tables>>[1] = Tables
      BY <3>1
    <3>3. ToSet(<<Tables>>) = {Tables}
      BY <3>2 DEF ToSet
    <3>4. QED
      BY <2>2, <3>1, <3>2, <3>3
  <2>3. QED
    BY <2>1, <2>2
<1>4. Len(last) \in 0..1 /\ \A i \in 1..Len(last) : last[i] = Tables
  OBVIOUS
<1>5. S \subseteq Files /\ Tables \notin S
  BY CorpusParts
<1>6. \A p \in S : p \in keep <=> ~Here(p)
  BY DEF Here
<1> HIDE DEF keep, f, last, S
<1>7. f \in Seq(Files)
  <2>1. \A i \in 1..Len(f) : f[i] \in Files
    BY <1>1, <1>5, ElementOfSeq
  <2>2. f = [i \in 1..Len(f) |-> f[i]] /\ Len(f) \in Nat
    BY <1>1
  <2>3. f \in [1..Len(f) -> Files]
    BY <2>1, <2>2
  <2>4. QED
    BY <2>2, <2>3
<1>8. ToDo \in Seq(Files) /\ ToSet(ToDo) = ToSet(f) \cup ToSet(last)
  BY <1>2, <1>3, <1>7, MembersOfConcat, ConcatProperties
<1> DEFINE n == Len(f)
           m == Len(last)
<1>9. /\ DOMAIN ToDo = 1..n + m /\ n \in Nat /\ m \in 0..1
      /\ \A i \in 1..n + m : ToDo[i] = IF i <= n THEN f[i] ELSE last[i - n]
      /\ DOMAIN f = 1..n
  BY <1>1, <1>2, <1>3, <1>4, <1>7, <1>8, ConcatProperties
<1>10. \A i \in 1..n : f[i] \in S
  BY <1>1, ElementOfSeq
<1> HIDE DEF n, m
<1>11. \A i \in 1..n + m : IF i <= n THEN ToDo[i] = f[i] ELSE ToDo[i] = Tables /\ i = n + m
  <2>1. ASSUME NEW i \in 1..n + m, ~(i <= n) PROVE ToDo[i] = Tables /\ i = n + m
    <3>1. i - n \in 1..m
      BY <1>9, <2>1
    <3>2. QED
      BY <1>4, <1>9, <2>1, <3>1 DEF m
  <2>2. QED
    BY <1>9, <2>1
<1>12. IsInjective(ToDo)
  <2>1. ASSUME NEW a \in 1..n + m, NEW b \in 1..n + m, ToDo[a] = ToDo[b] PROVE a = b
    <3>1. CASE a <= n /\ b <= n
      <4>1. a \in DOMAIN f /\ b \in DOMAIN f /\ f[a] = f[b]
        BY <1>9, <1>11, <2>1, <3>1
      <4>2. QED
        BY <1>1, <4>1 DEF IsInjective
    <3>2. CASE a <= n /\ ~(b <= n)
      <4>1. f[a] \in S /\ ToDo[a] = f[a] /\ ToDo[b] = Tables
        BY <1>9, <1>10, <1>11, <3>2
      <4>2. QED
        BY <1>5, <2>1, <4>1
    <3>3. CASE ~(a <= n) /\ b <= n
      <4>1. f[b] \in S /\ ToDo[b] = f[b] /\ ToDo[a] = Tables
        BY <1>9, <1>10, <1>11, <3>3
      <4>2. QED
        BY <1>5, <2>1, <4>1
    <3>4. CASE ~(a <= n) /\ ~(b <= n)
      BY <1>11, <3>4
    <3>5. QED
      BY <3>1, <3>2, <3>3, <3>4
  <2>2. QED
    BY <1>9, <2>1 DEF IsInjective
<1>13. InOrder(ToDo)
  <2>1. ASSUME NEW a \in 1..n + m, NEW b \in 1..n + m, a < b,
               NEW i \in DOMAIN Corpus, NEW j \in DOMAIN Corpus,
               ToDo[a] = Corpus[i], ToDo[b] = Corpus[j]
        PROVE  i < j
    <3>1. Corpus[i] # Tables /\ Corpus[j] # Tables
      BY CorpusParts
    <3>2. a <= n /\ b <= n
      BY <1>11, <2>1, <3>1
    <3>3. a \in DOMAIN f /\ b \in DOMAIN f /\ f[a] = Corpus[i] /\ f[b] = Corpus[j]
      BY <1>9, <1>11, <2>1, <3>2
    <3>4. QED
      BY <1>1, <2>1, <3>3 DEF Follows
  <2>2. QED
    BY <1>9, <2>1 DEF InOrder, Follows
<1>14. \A p \in S : p \in ToSet(ToDo) <=> ~Here(p)
  BY <1>1, <1>3, <1>5, <1>6, <1>8
<1>15. Tables \in ToSet(ToDo) <=> ~Loads(Tables)
  BY <1>1, <1>3, <1>5, <1>8
<1>16. QED
  BY <1>8, <1>12, <1>13, <1>14, <1>15 DEF S

-----------------------------------------------------------------------------
(* What the invariant says of one process and of one file.                 *)

LEMMA RunningParts ==
  ASSUME FilesInv, NEW w \in Writers, Running(w)
  PROVE  /\ writer[w] \in WriterStates /\ writer[w].todo \in Seq(Files)
         /\ writer[w].todo # <<>> /\ IsInjective(writer[w].todo) /\ InOrder(writer[w].todo)
         /\ Target(w) \in Files /\ Target(w) \in ToSet(writer[w].todo)
         /\ \A p \in ToSet(Corpus) \ ToSet(writer[w].todo) : Here(p)
         /\ \A p \in ToSet(writer[w].todo) \cap ToSet(Corpus) : Here(p) => IsOf(tokenizer, p)
<1>1. /\ writer[w].todo # <<>> /\ IsInjective(writer[w].todo) /\ InOrder(writer[w].todo)
      /\ \A p \in ToSet(Corpus) \ ToSet(writer[w].todo) : Here(p)
  BY DEF FilesInv, TodoInv
<1>2. \A p \in ToSet(writer[w].todo) \cap ToSet(Corpus) : Here(p) => IsOf(tokenizer, p)
  BY DEF FilesInv, VersionInv
<1>3. writer[w] \in WriterStates
  BY DEF FilesInv, FilesTypes
<1>4. writer[w].todo \in Seq(Files)
  BY <1>3 DEF WriterStates
<1> DEFINE todo == writer[w].todo
<1>5. Head(todo) \in ToSet(todo) /\ ToSet(todo) \subseteq Files
  <2>1. todo \in Seq(Files) /\ todo # <<>>
    BY <1>1, <1>4
  <2> HIDE DEF todo
  <2>2. QED
    BY <2>1, MembersOfTail, MembersOfSeq
<1>6. QED
  BY <1>1, <1>2, <1>3, <1>4, <1>5 DEF Target

LEMMA DiskParts ==
  ASSUME FilesInv, NEW p \in Files
  PROVE  /\ disk[p] = [pt |-> disk[p].pt, tmp |-> disk[p].tmp]
         /\ disk[p].pt \in SavedFiles \cup {NoFile} /\ disk[p].tmp \in SavedFiles \cup {NoFile}
         /\ disk \in [Files -> [pt : SavedFiles \cup {NoFile}, tmp : SavedFiles \cup {NoFile}]]
<1>1. disk \in [Files -> [pt : SavedFiles \cup {NoFile}, tmp : SavedFiles \cup {NoFile}]]
  BY DEF FilesInv, FilesTypes
<1>2. QED
  BY <1>1

(* What is saved is there.                                                 *)
LEMMA SavedIsAFile ==
  ASSUME NEW v \in Versions, NEW p \in Files, NEW w \in Writers, NEW whole \in BOOLEAN
  PROVE  /\ [payload |-> Encode(v, p), by |-> w, whole |-> whole] \in SavedFiles
         /\ [payload |-> Encode(v, p), by |-> w, whole |-> whole] # NoFile
<1>1. [payload |-> Encode(v, p), by |-> w, whole |-> whole] \in SavedFiles
  BY DEF SavedFiles, Versions
<1>2. QED
  BY <1>1, NoFileAssumption

(* An encode of this tokenizer that is there and whole loads.              *)
LEMMA OwnFileLoads ==
  ASSUME NEW p, Here(p), IsOf(tokenizer, p), disk[p].pt.whole
  PROVE  Loads(p)
BY HeaderHasTokens DEF Here, IsOf, Loads

(* Once promised, everything loads.                                        *)
LEMMA PromisedLoads ==
  ASSUME FilesInv, Promised
  PROVE  \A p \in Files : Here(p) /\ Loads(p)
<1>1. Clean /\ history.finished
  BY DEF Promised, Clean
<1>2. \A p \in Files : Here(p) /\ IsOf(tokenizer, p) /\ disk[p].pt.whole
  BY <1>1 DEF FilesInv, CleanInv
<1>3. QED
  BY <1>2, OwnFileLoads

LEMMA PromisedIsDone ==
  ASSUME FilesInv, Promised
  PROVE  ToDo = <<>> /\ \A w \in Writers : ~Running(w)
<1>1. \A p \in Files : Here(p) /\ Loads(p)
  BY PromisedLoads
<1>2. ToDo \in Seq(Files) /\ ToSet(ToDo) = {}
  <2>1. /\ ToDo \in Seq(Files)
        /\ \A p \in ToSet(Corpus) : p \in ToSet(ToDo) <=> ~Here(p)
        /\ Tables \in ToSet(ToDo) <=> ~Loads(Tables)
    BY ToDoIsMissing
  <2>2. ToSet(ToDo) \subseteq Files
    BY <2>1, MembersOfSeq
  <2>3. QED
    BY <1>1, <2>1, <2>2, CorpusParts
<1>3. ASSUME NEW w \in Writers, Running(w) PROVE FALSE
  <2>1. Sole(w)
    BY <1>3 DEF Promised, Clean, FilesInv, CleanInv
  <2>2. Target(w) \in Files /\ Target(w) \in ToSet(writer[w].todo)
    BY <1>3, RunningParts
  <2>3. QED
    BY <1>1, <2>1, <2>2 DEF Sole
<1>4. QED
  BY <1>2, <1>3, MembersOfSeq

(* A chunk that loads behind chunks of this tokenizer is of it as well.    *)
LEMMA LoadedIsOwn ==
  ASSUME FilesInv, changes <= 1, NEW i \in 1..Len(Corpus), Loads(Corpus[i]),
         \A j \in 1..i - 1 : IsOf(tokenizer, Corpus[j])
  PROVE  IsOf(tokenizer, Corpus[i])
<1>1. PICK v \in Versions : LayersOf(v)
  BY DEF FilesInv, VersionInv
<1>2. Here(Corpus[i]) /\ disk[Corpus[i]].pt.payload.tokens = Tokenize[tokenizer][Corpus[i]]
  BY DEF Loads, Here
<1>3. IsOf(tokenizer, Corpus[i]) \/ OneVersion(v, i)
  BY <1>1, <1>2, CorpusParts DEF LayersOf
<1>4. ASSUME OneVersion(v, i) PROVE IsOf(tokenizer, Corpus[i])
  <2>0. i \in 1..i /\ i \in Nat
    BY CorpusParts
  <2>1. \A j \in 1..i : IsOf(v, Corpus[j])
    BY <1>4 DEF OneVersion
  <2>2. ASSUME NEW j \in 1..i PROVE Tokenize[v][Corpus[j]] = Tokenize[tokenizer][Corpus[j]]
    <3>1. disk[Corpus[j]].pt.payload.tokens = Tokenize[v][Corpus[j]]
      BY <2>1, HeaderHasTokens DEF IsOf
    <3>2. CASE j = i
      BY <1>2, <3>1, <3>2
    <3>3. CASE j # i
      <4>1. j \in 1..i - 1
        BY <2>0, <3>3
      <4>2. disk[Corpus[j]].pt.payload.tokens = Tokenize[tokenizer][Corpus[j]]
        BY <4>1, HeaderHasTokens DEF IsOf
      <4>3. QED
        BY <3>1, <4>2
    <3>4. QED
      BY <3>2, <3>3
  <2>3. Encode(v, Corpus[i]) = Encode(tokenizer, Corpus[i])
    BY <2>2, EncodeLooksBack
  <2>4. QED
    BY <2>0, <2>1, <2>3 DEF IsOf
<1>5. QED
  BY <1>3, <1>4

-----------------------------------------------------------------------------
(* What a step that leaves the files' contents, or the processes' lists, or *)
(* the answer stage alone keeps.                                           *)

SameContents ==
  \A p \in Files : (Here(p)' <=> Here(p)) /\ disk'[p].pt.payload = disk[p].pt.payload
SameLists ==
  \A w \in Writers : Running(w)' => Running(w) /\ writer'[w].todo = writer[w].todo

LEMMA FilesStart == FilesInit => FilesInv
<1> SUFFICES ASSUME FilesInit PROVE FilesInv
  OBVIOUS
<1>1. /\ tokenizer \in Versions /\ changes = 0 /\ answerer = Idle
      /\ disk = [p \in Files |-> [pt |-> NoFile, tmp |-> NoFile]]
      /\ writer = [w \in Writers |-> Resting]
      /\ history = [overlapped |-> FALSE, used |-> {tokenizer}, finished |-> FALSE]
  BY DEF FilesInit, Versions
<1>2. \A w \in Writers : writer[w] = Resting /\ ~Running(w) /\ writer[w].at = "rest"
  BY <1>1 DEF Resting, Running
<1>3. \A p \in Files : ~Here(p)
  BY <1>1 DEF Here
<1>4. /\ answerer.at = "rest" /\ answerer.entries = <<>> /\ answerer.promised = FALSE
      /\ history.finished = FALSE
  BY <1>1 DEF Idle
<1>5. FilesTypes
  <2>1. Resting \in WriterStates
    <3>1. <<>> \in Seq(Files)
      OBVIOUS
    <3>2. QED
      BY <3>1 DEF Resting, WriterStates
  <2>2. writer \in [Writers -> WriterStates]
    BY <1>1, <2>1
  <2>3. disk \in [Files -> [pt : SavedFiles \cup {NoFile}, tmp : SavedFiles \cup {NoFile}]]
    BY <1>1
  <2>4. answerer \in [at : {"rest", "load", "serve", "refused"},
                      entries : Seq({Encode(v, p) : v \in Versions, p \in Files}), promised : BOOLEAN]
    <3> DEFINE E == {Encode(v, p) : v \in Versions, p \in Files}
    <3>1. <<>> \in Seq(E)
      OBVIOUS
    <3> HIDE DEF E
    <3>2. Idle \in [at : {"rest", "load", "serve", "refused"}, entries : Seq(E), promised : BOOLEAN]
      BY <3>1 DEF Idle
    <3>3. QED
      BY <1>1, <3>2 DEF E
  <2>5. history \in [overlapped : BOOLEAN, used : SUBSET Versions, finished : BOOLEAN]
    BY <1>1
  <2>6. tokenizer \in history.used /\ changes \in Nat
    BY <1>1
  <2>7. QED
    BY <1>1, <2>2, <2>3, <2>4, <2>5, <2>6 DEF FilesTypes
<1>6. TodoInv
  BY <1>2 DEF TodoInv
<1>7. OpenInv
  BY <1>2 DEF OpenInv
<1>8. VersionInv
  <2>1. \A i \in DOMAIN Corpus : ~Here(Corpus[i])
    BY <1>3, CorpusParts
  <2>2. \A p \in ToSet(Corpus) : ~Here(p)
    BY <1>3, CorpusParts
  <2>3. LayersOf(tokenizer)
    BY <2>1 DEF LayersOf
  <2>4. QED
    BY <1>1, <1>2, <2>1, <2>2, <2>3 DEF VersionInv
<1>9. EntryInv
  BY <1>4, CorpusParts DEF EntryInv
<1>10. CleanInv
  BY <1>2, <1>3, <1>4 DEF CleanInv
<1>11. PromiseInv
  BY <1>4 DEF PromiseInv
<1>12. QED
  BY <1>5, <1>6, <1>7, <1>8, <1>9, <1>10, <1>11 DEF FilesInv

LEMMA TodoKept ==
  ASSUME FilesInv, SameContents, SameLists
  PROVE  TodoInv'
<1> SUFFICES ASSUME NEW w \in Writers, Running(w)'
             PROVE  /\ writer'[w].todo # <<>> /\ IsInjective(writer'[w].todo)
                    /\ InOrder(writer'[w].todo)
                    /\ \A p \in ToSet(Corpus) \ ToSet(writer'[w].todo) : Here(p)'
  BY DEF TodoInv
<1>1. Running(w) /\ writer'[w].todo = writer[w].todo
  BY DEF SameLists
<1>2. \A p \in ToSet(Corpus) : Here(p)' <=> Here(p)
  BY CorpusParts DEF SameContents
<1>3. QED
  BY <1>1, <1>2, RunningParts

LEMMA VersionsKept ==
  ASSUME FilesInv, SameContents, tokenizer' = tokenizer, changes' = changes,
         \A w \in Writers : Running(w)' =>
           \A p \in ToSet(writer'[w].todo) \cap ToSet(Corpus) : Here(p) => IsOf(tokenizer, p)
  PROVE  VersionInv'
<1>1. \A p \in ToSet(Corpus) : (Here(p)' <=> Here(p)) /\ disk'[p].pt.payload = disk[p].pt.payload
  BY CorpusParts DEF SameContents
<1>2. \A i \in DOMAIN Corpus : Corpus[i] \in ToSet(Corpus) /\ \A j \in 1..i : Corpus[j] \in ToSet(Corpus)
  BY CorpusParts
<1>3. \A p \in ToSet(Corpus) : \A v : IsOf(v, p)' <=> disk[p].pt.payload = Encode(v, p)
  BY <1>1 DEF IsOf
<1>4. \A p \in ToSet(Corpus) : IsOf(tokenizer, p)' <=> IsOf(tokenizer, p)
  BY <1>1 DEF IsOf
<1>5. \A i \in DOMAIN Corpus : Here(Corpus[i])' => \A j \in 1..i : Here(Corpus[j])'
  BY <1>1, <1>2 DEF FilesInv, VersionInv
<1>6. changes' = 0 => \A p \in ToSet(Corpus) : Here(p)' => IsOf(tokenizer, p)'
  BY <1>1, <1>4 DEF FilesInv, VersionInv
<1>7. changes' <= 1 => \E v \in Versions : LayersOf(v)'
  <2> SUFFICES ASSUME changes' <= 1 PROVE \E v \in Versions : LayersOf(v)'
    OBVIOUS
  <2>1. PICK v \in Versions : LayersOf(v)
    BY DEF FilesInv, VersionInv
  <2>2. ASSUME NEW i \in DOMAIN Corpus, Here(Corpus[i])'
        PROVE  IsOf(tokenizer, Corpus[i])' \/ OneVersion(v, i)'
    <3>1. IsOf(tokenizer, Corpus[i]) \/ OneVersion(v, i)
      BY <1>1, <1>2, <2>1, <2>2 DEF LayersOf
    <3>2. ASSUME OneVersion(v, i) PROVE OneVersion(v, i)'
      BY <1>2, <1>3, <3>2 DEF OneVersion, IsOf
    <3>3. QED
      BY <1>2, <1>4, <3>1, <3>2
  <2>3. LayersOf(v)'
    BY <2>2 DEF LayersOf
  <2>4. QED
    BY <2>3
<1>8. \A w \in Writers : Running(w)' =>
        \A p \in ToSet(writer'[w].todo) \cap ToSet(Corpus) : Here(p)' => IsOf(tokenizer, p)'
  BY <1>1, <1>4
<1>9. QED
  BY <1>5, <1>6, <1>7, <1>8 DEF VersionInv, Versions

LEMMA EntriesKept ==
  ASSUME FilesInv, tokenizer' = tokenizer, changes' = changes, answerer' = answerer,
         \A p \in ToSet(Corpus) : Here(p) /\ IsOf(tokenizer, p) => Here(p)' /\ IsOf(tokenizer, p)'
  PROVE  EntryInv'
<1>1. /\ answerer.at = "load" => Len(answerer.entries) < Len(Corpus)
      /\ Len(answerer.entries) <= Len(Corpus)
  BY DEF FilesInv, EntryInv
<1>2. ASSUME changes <= 1, NEW i \in DOMAIN answerer.entries
      PROVE  /\ answerer.entries[i] = Encode(tokenizer, Corpus[i])
             /\ Here(Corpus[i])' /\ IsOf(tokenizer, Corpus[i])'
  <2>1. answerer.entries[i] = Encode(tokenizer, Corpus[i]) /\ Here(Corpus[i]) /\ IsOf(tokenizer, Corpus[i])
    BY <1>2 DEF FilesInv, EntryInv
  <2>2. Corpus[i] \in ToSet(Corpus)
    <3>1. answerer.entries \in Seq({Encode(v, p) : v \in Versions, p \in Files})
      BY DEF FilesInv, FilesTypes
    <3> DEFINE E == {Encode(v, p) : v \in Versions, p \in Files}
               s == answerer.entries
    <3>3. s \in Seq(E) /\ Len(s) <= Len(Corpus) /\ i \in DOMAIN s
      BY <1>1, <1>2, <3>1
    <3> HIDE DEF E, s
    <3>4. i \in 1..Len(Corpus)
      BY <3>3, CorpusParts
    <3>5. QED
      BY <3>4, CorpusParts
  <2>3. QED
    BY <2>1, <2>2
<1>3. QED
  BY <1>1, <1>2 DEF EntryInv

(* The history can only lose what was promised when somebody writes.       *)
LEMMA PromiseKept ==
  ASSUME FilesInv, answerer' = answerer, Promised => Promised'
  PROVE  PromiseInv'
BY DEF FilesInv, PromiseInv

(* A process that ends leaves everything as it is.                         *)
LEMMA WriterRests ==
  ASSUME FilesInv, NEW w \in Writers, Running(w),
         writer' = [writer EXCEPT ![w] = Resting],
         UNCHANGED <<tokenizer, disk, answerer, changes, history>>
  PROVE  FilesInv'
<1>1. /\ tokenizer' = tokenizer /\ disk' = disk /\ answerer' = answerer
      /\ changes' = changes /\ history' = history
  OBVIOUS
<1>2. \A u \in Writers : u # w => writer'[u] = writer[u]
  BY DEF FilesInv, FilesTypes
<1>3. writer'[w] = Resting /\ ~(Running(w)') /\ writer'[w].at = "rest"
  BY DEF FilesInv, FilesTypes, Resting, Running
<1>4. \A u \in Writers : Running(u)' => u # w /\ Running(u) /\ writer'[u] = writer[u]
  BY <1>2, <1>3 DEF Running
<1>5. SameContents /\ SameLists
  BY <1>1, <1>4 DEF SameContents, SameLists, Here
<1>6. FilesTypes'
  <2>1. Resting \in WriterStates
    <3>1. <<>> \in Seq(Files)
      OBVIOUS
    <3>2. QED
      BY <3>1 DEF Resting, WriterStates
  <2>2. writer' \in [Writers -> WriterStates]
    BY <2>1 DEF FilesInv, FilesTypes
  <2>3. QED
    BY <1>1, <2>2 DEF FilesInv, FilesTypes
<1>7. OpenInv'
  <2>1. ASSUME NEW u \in Writers, writer'[u].at \in {"write", "replace"}
        PROVE  u # w /\ writer'[u] = writer[u] /\ Target(u)' = Target(u)
    BY <1>2, <1>3, <2>1 DEF Target
  <2>2. \A u \in Writers :
          /\ writer'[u].at = "write" =>
               /\ writer'[u].open \in {"tmp", "pt", "gone"}
               /\ writer'[u].open # "gone" => disk[Target(u)'][writer'[u].open] # NoFile
          /\ writer'[u].at \in {"write", "replace"} =>
               disk[Target(u)'].tmp = NoFile
                 \/ disk[Target(u)'].tmp.payload = Encode(tokenizer, Target(u)')
    BY <2>1 DEF FilesInv, OpenInv
  <2>3. QED
    BY <1>1, <2>2 DEF OpenInv
<1>8. VersionInv'
  <2>1. \A u \in Writers : Running(u)' =>
          \A p \in ToSet(writer'[u].todo) \cap ToSet(Corpus) : Here(p) => IsOf(tokenizer, p)
    BY <1>4, RunningParts
  <2>2. QED
    BY <1>1, <1>5, <2>1, VersionsKept
<1>9. EntryInv'
  <2>1. \A p \in ToSet(Corpus) : Here(p) /\ IsOf(tokenizer, p) => Here(p)' /\ IsOf(tokenizer, p)'
    BY <1>1 DEF Here, IsOf
  <2>2. QED
    BY <1>1, <2>1, EntriesKept
<1>10. CleanInv'
  <2> SUFFICES ASSUME Clean'
               PROVE  /\ \A p \in Files : Here(p)' => IsOf(tokenizer, p)' /\ disk'[p].pt.whole
                      /\ \A u \in Writers : Running(u)' => Sole(u)'
                      /\ history'.finished => \A p \in Files : Here(p)'
    BY DEF CleanInv
  <2>1. Clean
    BY <1>1 DEF Clean
  <2>2. /\ \A p \in Files : Here(p) => IsOf(tokenizer, p) /\ disk[p].pt.whole
        /\ history.finished => \A p \in Files : Here(p)
        /\ \A u \in Writers : Running(u) => Sole(u)
    BY <2>1 DEF FilesInv, CleanInv
  <2>3. \A u \in Writers : ~(Running(u)')
    BY <1>4, <2>2 DEF Sole
  <2>4. QED
    BY <1>1, <2>2, <2>3 DEF Here, IsOf
<1>11. PromiseInv'
  BY <1>1, PromiseKept DEF Promised
<1>12. QED
  BY <1>5, <1>6, <1>7, <1>8, <1>9, <1>10, <1>11, TodoKept DEF FilesInv

(* The answer stage only reads.                                            *)
LEMMA AnswererOnly ==
  ASSUME FilesInv, UNCHANGED <<tokenizer, disk, writer, changes, history>>,
         answerer' \in [at : {"rest", "load", "serve", "refused"},
                        entries : Seq({Encode(v, p) : v \in Versions, p \in Files}), promised : BOOLEAN],
         EntryInv', PromiseInv'
  PROVE  FilesInv'
<1>1. /\ tokenizer' = tokenizer /\ disk' = disk /\ writer' = writer
      /\ changes' = changes /\ history' = history
  OBVIOUS
<1>2. SameContents /\ SameLists
  BY <1>1 DEF SameContents, SameLists, Here, Running
<1>3. FilesTypes'
  BY <1>1 DEF FilesInv, FilesTypes, Versions
<1>4. OpenInv'
  BY <1>1 DEF FilesInv, OpenInv, Target
<1>5. VersionInv'
  <2>1. \A u \in Writers : Running(u)' =>
          \A p \in ToSet(writer'[u].todo) \cap ToSet(Corpus) : Here(p) => IsOf(tokenizer, p)
    <3>1. \A u \in Writers : Running(u)' => Running(u)
      BY <1>1 DEF Running
    <3>2. QED
      BY <1>1, <3>1, RunningParts
  <2>2. QED
    BY <1>1, <1>2, <2>1, VersionsKept
<1>6. CleanInv'
  <2>1. CleanInv
    BY DEF FilesInv
  <2>2. QED
    BY <1>1, <2>1 DEF CleanInv, Clean, Sole, Running, Here, IsOf, Target
<1>7. QED
  BY <1>2, <1>3, <1>4, <1>5, <1>6, TodoKept DEF FilesInv

-----------------------------------------------------------------------------
(* The steps of a process.                                                 *)

LEMMA PrecomputeRagKeeps ==
  ASSUME FilesInv, NEW w \in Writers, PrecomputeRag(w)
  PROVE  FilesInv'
<1>1. /\ tokenizer' = tokenizer /\ disk' = disk /\ answerer' = answerer /\ changes' = changes
      /\ ~Running(w)
  BY DEF PrecomputeRag
<1>2. \/ ToDo = <<>> /\ history' = [history EXCEPT !.finished = TRUE] /\ writer' = writer
      \/ /\ ToDo # <<>>
         /\ writer' = [writer EXCEPT ![w] = [at |-> "encode", todo |-> ToDo, open |-> "none"]]
         /\ history' = [history EXCEPT !.overlapped = @ \/ \E u \in Writers : Running(u)]
  BY DEF PrecomputeRag, ToDo
<1>3. /\ ToDo \in Seq(Files) /\ IsInjective(ToDo) /\ InOrder(ToDo)
      /\ \A p \in ToSet(Corpus) : p \in ToSet(ToDo) <=> ~Here(p)
      /\ Tables \in ToSet(ToDo) <=> ~Loads(Tables)
  BY ToDoIsMissing
<1>4. history \in [overlapped : BOOLEAN, used : SUBSET Versions, finished : BOOLEAN]
  BY DEF FilesInv, FilesTypes
<1>5. SameContents
  BY <1>1 DEF SameContents, Here
<1>6. EntryInv'
  <2>1. \A p \in ToSet(Corpus) : Here(p) /\ IsOf(tokenizer, p) => Here(p)' /\ IsOf(tokenizer, p)'
    BY <1>1 DEF Here, IsOf
  <2>2. QED
    BY <1>1, <2>1, EntriesKept
<1>7. CASE ToDo = <<>> /\ history' = [history EXCEPT !.finished = TRUE] /\ writer' = writer
  <2>1. /\ history'.overlapped = history.overlapped /\ history'.used = history.used
        /\ history'.finished = TRUE
        /\ history' \in [overlapped : BOOLEAN, used : SUBSET Versions, finished : BOOLEAN]
    BY <1>4, <1>7
  <2>2. SameLists
    BY <1>7 DEF SameLists, Running
  <2>3. FilesTypes'
    BY <1>1, <1>7, <2>1 DEF FilesInv, FilesTypes
  <2>4. OpenInv'
    BY <1>1, <1>7 DEF FilesInv, OpenInv, Target
  <2>5. VersionInv'
    <3>1. \A u \in Writers : Running(u)' => Running(u) /\ writer'[u] = writer[u]
      BY <1>7 DEF Running
    <3>2. \A u \in Writers : Running(u)' =>
            \A p \in ToSet(writer'[u].todo) \cap ToSet(Corpus) : Here(p) => IsOf(tokenizer, p)
      BY <3>1, RunningParts
    <3>3. QED
      BY <1>1, <1>5, <3>2, VersionsKept
  <2>6. CleanInv'
    <3> SUFFICES ASSUME Clean'
                 PROVE  /\ \A p \in Files : Here(p)' => IsOf(tokenizer, p)' /\ disk'[p].pt.whole
                        /\ \A u \in Writers : Running(u)' => Sole(u)'
                        /\ history'.finished => \A p \in Files : Here(p)'
      BY DEF CleanInv
    <3>1. Clean
      BY <1>1, <2>1 DEF Clean
    <3>2. /\ \A p \in Files : Here(p) => IsOf(tokenizer, p) /\ disk[p].pt.whole
          /\ \A u \in Writers : Running(u) => Sole(u)
      BY <3>1 DEF FilesInv, CleanInv
    <3>3. \A p \in Files : Here(p)
      <4>1. ToSet(ToDo) = {}
        BY <1>7 DEF ToSet
      <4>2. \A p \in ToSet(Corpus) : Here(p)
        BY <1>3, <4>1
      <4>3. Loads(Tables)
        BY <1>3, <4>1
      <4>4. Here(Tables)
        BY <4>3 DEF Loads, Here
      <4>5. QED
        BY <4>2, <4>4, CorpusParts
    <3>4. \A u \in Writers : Running(u)' => Sole(u)'
      BY <1>1, <1>7, <3>2 DEF Running, Sole, Here, Target
    <3>5. QED
      BY <1>1, <3>2, <3>3, <3>4 DEF Here, IsOf
  <2>7. PromiseInv'
    <3>1. Promised => Promised'
      BY <1>1, <2>1 DEF Promised
    <3>2. QED
      BY <1>1, <3>1, PromiseKept
  <2>8. QED
    BY <1>5, <1>6, <2>2, <2>3, <2>4, <2>5, <2>6, <2>7, TodoKept DEF FilesInv
<1>8. CASE /\ ToDo # <<>>
           /\ writer' = [writer EXCEPT ![w] = [at |-> "encode", todo |-> ToDo, open |-> "none"]]
           /\ history' = [history EXCEPT !.overlapped = @ \/ \E u \in Writers : Running(u)]
  <2>1. /\ history'.overlapped = (history.overlapped \/ \E u \in Writers : Running(u))
        /\ history'.used = history.used /\ history'.finished = history.finished
        /\ history' \in [overlapped : BOOLEAN, used : SUBSET Versions, finished : BOOLEAN]
    <3> DEFINE some == \E u \in Writers : Running(u)
    <3>1. history' = [history EXCEPT !.overlapped = @ \/ some] /\ some \in BOOLEAN
      BY <1>8
    <3> HIDE DEF some
    <3>2. /\ history'.overlapped = (history.overlapped \/ some)
          /\ history'.used = history.used /\ history'.finished = history.finished
          /\ history' \in [overlapped : BOOLEAN, used : SUBSET Versions, finished : BOOLEAN]
      BY <1>4, <3>1
    <3>3. QED
      BY <3>2 DEF some
  <2>2. writer \in [Writers -> WriterStates]
    BY DEF FilesInv, FilesTypes
  <2>3. \A u \in Writers : u # w => writer'[u] = writer[u]
    BY <1>8, <2>2
  <2>4. writer'[w] = [at |-> "encode", todo |-> ToDo, open |-> "none"]
    BY <1>8, <2>2
  <2>5. writer'[w].at = "encode" /\ writer'[w].todo = ToDo
    BY <2>4
  <2>6. FilesTypes'
    <3>1. [at |-> "encode", todo |-> ToDo, open |-> "none"] \in WriterStates
      BY <1>3 DEF WriterStates
    <3>2. writer' \in [Writers -> WriterStates]
      BY <1>8, <2>2, <3>1
    <3>3. QED
      BY <1>1, <2>1, <3>2 DEF FilesInv, FilesTypes
  <2>7. \A u \in Writers : Running(u)' => u = w \/ (Running(u) /\ writer'[u] = writer[u])
    BY <2>3 DEF Running
  <2>8. TodoInv'
    <3>1. ASSUME NEW u \in Writers, Running(u)'
          PROVE  /\ writer'[u].todo # <<>> /\ IsInjective(writer'[u].todo)
                 /\ InOrder(writer'[u].todo)
                 /\ \A p \in ToSet(Corpus) \ ToSet(writer'[u].todo) : Here(p)
      <4>1. CASE u = w
        <5>1. writer'[u].todo = ToDo
          BY <2>5, <4>1
        <5>2. QED
          BY <1>3, <1>8, <5>1
      <4>2. CASE u # w
        BY <2>7, <3>1, <4>2, RunningParts
      <4>3. QED
        BY <4>1, <4>2
    <3>2. QED
      BY <1>1, <3>1 DEF TodoInv, Here
  <2>9. OpenInv'
    <3>1. ASSUME NEW u \in Writers, writer'[u].at \in {"write", "replace"}
          PROVE  writer'[u] = writer[u] /\ Target(u)' = Target(u)
      BY <2>3, <2>5, <3>1 DEF Target
    <3>2. \A u \in Writers :
            /\ writer'[u].at = "write" =>
                 /\ writer'[u].open \in {"tmp", "pt", "gone"}
                 /\ writer'[u].open # "gone" => disk[Target(u)'][writer'[u].open] # NoFile
            /\ writer'[u].at \in {"write", "replace"} =>
                 disk[Target(u)'].tmp = NoFile
                   \/ disk[Target(u)'].tmp.payload = Encode(tokenizer, Target(u)')
      BY <3>1 DEF FilesInv, OpenInv
    <3>3. QED
      BY <1>1, <3>2 DEF OpenInv
  <2>10. VersionInv'
    <3>1. ASSUME NEW u \in Writers, Running(u)'
          PROVE  \A p \in ToSet(writer'[u].todo) \cap ToSet(Corpus) : Here(p) => IsOf(tokenizer, p)
      <4>1. CASE u = w
        BY <1>3, <2>5, <4>1
      <4>2. CASE u # w
        BY <2>7, <3>1, <4>2, RunningParts
      <4>3. QED
        BY <4>1, <4>2
    <3>2. QED
      BY <1>1, <1>5, <3>1, VersionsKept
  <2>11. CleanInv'
    <3> SUFFICES ASSUME Clean'
                 PROVE  /\ \A p \in Files : Here(p)' => IsOf(tokenizer, p)' /\ disk'[p].pt.whole
                        /\ \A u \in Writers : Running(u)' => Sole(u)'
                        /\ history'.finished => \A p \in Files : Here(p)'
      BY DEF CleanInv
    <3>1. Clean /\ \A u \in Writers : ~Running(u)
      BY <1>1, <2>1 DEF Clean
    <3>2. /\ \A p \in Files : Here(p) => IsOf(tokenizer, p) /\ disk[p].pt.whole
          /\ history.finished => \A p \in Files : Here(p)
      BY <3>1 DEF FilesInv, CleanInv
    <3>3. \A u \in Writers : Running(u)' => u = w
      BY <2>7, <3>1
    <3>4. \A p \in Files : p \in ToSet(ToDo) <=> ~Here(p)
      <4>1. Here(Tables) <=> Loads(Tables)
        <5>1. Loads(Tables) => Here(Tables)
          BY DEF Loads, Here
        <5>2. Here(Tables) => Loads(Tables)
          BY <3>2, CorpusParts, OwnFileLoads
        <5>3. QED
          BY <5>1, <5>2
      <4>2. QED
        BY <1>3, <4>1, CorpusParts
    <3>5. Sole(w)'
      BY <1>1, <2>5, <3>3, <3>4 DEF Sole, Here
    <3>6. QED
      BY <1>1, <2>1, <3>2, <3>3, <3>5 DEF Here, IsOf
  <2>12. PromiseInv'
    <3>1. Promised => FALSE
      BY <1>8, PromisedIsDone
    <3>2. QED
      BY <1>1, <3>1, PromiseKept
  <2>13. QED
    BY <1>6, <2>6, <2>8, <2>9, <2>10, <2>11, <2>12 DEF FilesInv
<1>9. QED
  BY <1>2, <1>7, <1>8

(* The file a process writes to is cut or filled, beside its name or where *)
(* another process's rename has taken it: what is in it stays the encode.  *)
LEMMA OpenFileKeeps ==
  ASSUME FilesInv, NEW w \in Writers, OpenFile(w)
  PROVE  FilesInv'
<1> DEFINE p == Target(w)
           saved == [payload |-> Encode(tokenizer, p), by |-> w, whole |-> FALSE]
<1>1. /\ tokenizer' = tokenizer /\ answerer' = answerer /\ changes' = changes /\ history' = history
      /\ writer[w].at = "encode"
  BY DEF OpenFile
<1>2. disk' = [disk EXCEPT ![p].tmp = saved]
  BY DEF OpenFile
<1>3. writer' = [writer EXCEPT ![w].at = "write", ![w].open = "tmp"]
  BY DEF OpenFile
<1>4. Running(w) /\ tokenizer \in Versions
  BY <1>1 DEF Running, FilesInv, FilesTypes
<1>5. p \in Files /\ p \in ToSet(writer[w].todo)
  BY <1>4, RunningParts
<1>6. saved \in SavedFiles /\ saved # NoFile
  BY <1>4, <1>5, SavedIsAFile
<1>7. saved.payload = Encode(tokenizer, p) /\ saved.by = w
  OBVIOUS
<1>8. disk \in [Files -> [pt : SavedFiles \cup {NoFile}, tmp : SavedFiles \cup {NoFile}]]
  BY <1>5, DiskParts
<1>9. writer \in [Writers -> WriterStates]
  BY DEF FilesInv, FilesTypes
<1> HIDE DEF saved, p
<1>10. /\ disk'[p].pt = disk[p].pt /\ disk'[p].tmp = saved
       /\ \A q \in Files : q # p => disk'[q] = disk[q]
       /\ disk' \in [Files -> [pt : SavedFiles \cup {NoFile}, tmp : SavedFiles \cup {NoFile}]]
  BY <1>2, <1>5, <1>6, <1>8
<1>11. \A q \in Files : disk'[q].pt = disk[q].pt
  BY <1>10
<1>12. \A u \in Writers : u # w => writer'[u] = writer[u]
  BY <1>3, <1>9
<1>13. /\ writer'[w].at = "write" /\ writer'[w].open = "tmp" /\ writer'[w].todo = writer[w].todo
       /\ writer'[w] \in WriterStates
  BY <1>3, <1>9 DEF WriterStates
<1>14. SameContents
  BY <1>11 DEF SameContents, Here
<1>15. SameLists
  BY <1>4, <1>12, <1>13 DEF SameLists, Running
<1>16. FilesTypes'
  <2>1. writer' \in [Writers -> WriterStates]
    BY <1>3, <1>9, <1>12, <1>13
  <2>2. QED
    BY <1>1, <1>10, <2>1 DEF FilesInv, FilesTypes
<1>17. Target(w)' = p
  BY <1>13 DEF Target, p
<1>18. OpenInv'
  <2>1. ASSUME NEW u \in Writers
        PROVE  /\ writer'[u].at = "write" =>
                    /\ writer'[u].open \in {"tmp", "pt", "gone"}
                    /\ writer'[u].open # "gone" => disk'[Target(u)'][writer'[u].open] # NoFile
               /\ writer'[u].at \in {"write", "replace"} =>
                    disk'[Target(u)'].tmp = NoFile
                      \/ disk'[Target(u)'].tmp.payload = Encode(tokenizer, Target(u)')
    <3>1. CASE u = w
      BY <1>6, <1>7, <1>10, <1>13, <1>17, <3>1
    <3>2. CASE u # w /\ writer[u].at \in {"write", "replace"}
      <4>1. writer'[u] = writer[u] /\ Target(u)' = Target(u)
        BY <1>12, <3>2 DEF Target
      <4>2. Running(u)
        BY <3>2 DEF Running
      <4>3. Target(u) \in Files
        BY <4>2, RunningParts
      <4>4. /\ writer[u].at = "write" =>
                 /\ writer[u].open \in {"tmp", "pt", "gone"}
                 /\ writer[u].open # "gone" => disk[Target(u)][writer[u].open] # NoFile
            /\ disk[Target(u)].tmp = NoFile
                 \/ disk[Target(u)].tmp.payload = Encode(tokenizer, Target(u))
        BY <3>2 DEF FilesInv, OpenInv
      <4>5. CASE Target(u) = p
        <5>1. writer[u].at = "write" /\ writer[u].open # "gone" =>
                disk'[p][writer[u].open] # NoFile
          BY <1>6, <1>10, <4>4, <4>5
        <5>2. QED
          BY <1>7, <1>10, <4>1, <4>4, <4>5, <5>1
      <4>6. CASE Target(u) # p
        BY <1>10, <4>1, <4>3, <4>4, <4>6
      <4>7. QED
        BY <4>5, <4>6
    <3>3. CASE u # w /\ ~(writer[u].at \in {"write", "replace"})
      BY <1>12, <3>3
    <3>4. QED
      BY <3>1, <3>2, <3>3
  <2>2. QED
    BY <1>1, <2>1 DEF OpenInv
<1>19. VersionInv'
  <2>1. \A u \in Writers : Running(u)' =>
          \A q \in ToSet(writer'[u].todo) \cap ToSet(Corpus) : Here(q) => IsOf(tokenizer, q)
    BY <1>15, RunningParts DEF SameLists
  <2>2. QED
    BY <1>1, <1>14, <2>1, VersionsKept
<1>20. EntryInv'
  <2>1. \A q \in ToSet(Corpus) : Here(q) /\ IsOf(tokenizer, q) => Here(q)' /\ IsOf(tokenizer, q)'
    BY <1>1, <1>11, CorpusParts DEF Here, IsOf
  <2>2. QED
    BY <1>1, <2>1, EntriesKept
<1>21. CleanInv'
  <2> SUFFICES ASSUME Clean'
               PROVE  /\ \A q \in Files : Here(q)' => IsOf(tokenizer, q)' /\ disk'[q].pt.whole
                      /\ \A u \in Writers : Running(u)' => Sole(u)'
                      /\ history'.finished => \A q \in Files : Here(q)'
    BY DEF CleanInv
  <2>1. Clean
    BY <1>1 DEF Clean
  <2>2. /\ \A q \in Files : Here(q) => IsOf(tokenizer, q) /\ disk[q].pt.whole
        /\ history.finished => \A q \in Files : Here(q)
        /\ Sole(w)
    BY <1>4, <2>1 DEF FilesInv, CleanInv
  <2>3. \A u \in Writers : Running(u)' => u = w
    BY <1>15, <2>2 DEF SameLists, Sole
  <2>4. \A q \in Files : q \in ToSet(writer'[w].todo) <=> ~(Here(q)')
    BY <1>11, <1>13, <2>2 DEF Sole, Here
  <2>5. Sole(w)'
    BY <1>1, <1>6, <1>7, <1>10, <1>13, <1>17, <2>3, <2>4 DEF Sole
  <2>6. QED
    BY <1>1, <1>11, <2>2, <2>3, <2>5 DEF Here, IsOf
<1>22. PromiseInv'
  BY <1>1, PromiseKept DEF Promised
<1>23. QED
  BY <1>14, <1>15, <1>16, <1>18, <1>19, <1>20, <1>21, <1>22, TodoKept DEF FilesInv

LEMMA WriteFileKeeps ==
  ASSUME FilesInv, NEW w \in Writers, WriteFile(w)
  PROVE  FilesInv'
<1> DEFINE p == Target(w)
           name == writer[w].open
<1>1. /\ tokenizer' = tokenizer /\ answerer' = answerer /\ changes' = changes /\ history' = history
      /\ writer[w].at = "write"
  BY DEF WriteFile
<1>2. \/ /\ name # "gone" /\ disk[p][name].by = w
         /\ disk' = [disk EXCEPT ![p][name].whole = TRUE]
      \/ /\ ~(name # "gone" /\ disk[p][name].by = w)
         /\ disk' = disk
  BY DEF WriteFile
<1>3. writer' = [writer EXCEPT ![w].at = "replace"]
  BY DEF WriteFile
<1>4. Running(w)
  BY <1>1 DEF Running
<1>5. p \in Files
  BY <1>4, RunningParts
<1>6. name \in {"tmp", "pt", "gone"} /\ (name # "gone" => disk[p][name] # NoFile)
  BY <1>1 DEF FilesInv, OpenInv
<1>7. /\ disk \in [Files -> [pt : SavedFiles \cup {NoFile}, tmp : SavedFiles \cup {NoFile}]]
  BY <1>5, DiskParts
<1>8. writer \in [Writers -> WriterStates]
  BY DEF FilesInv, FilesTypes
<1>9. \A f \in SavedFiles : /\ [f EXCEPT !.whole = TRUE] \in SavedFiles
                            /\ [f EXCEPT !.whole = TRUE] # NoFile
                            /\ [f EXCEPT !.whole = TRUE].payload = f.payload
                            /\ [f EXCEPT !.whole = TRUE].by = f.by
                            /\ [f EXCEPT !.whole = TRUE].whole
  <2> DEFINE P == {Encode(v, q) : v \in DOMAIN Tokenize, q \in Files}
  <2>1. SavedFiles = [payload : P, by : Writers, whole : BOOLEAN]
    BY DEF SavedFiles
  <2> HIDE DEF P
  <2>2. ASSUME NEW f \in SavedFiles
        PROVE  /\ [f EXCEPT !.whole = TRUE] \in SavedFiles
               /\ [f EXCEPT !.whole = TRUE].payload = f.payload
               /\ [f EXCEPT !.whole = TRUE].by = f.by
               /\ [f EXCEPT !.whole = TRUE].whole
    BY <2>1
  <2>3. QED
    BY <2>2, NoFileAssumption
<1> HIDE DEF p, name
(* Only that a file is whole changes, and of the one under its own name    *)
(* only if it was not.                                                     *)
<1>10. /\ disk' \in [Files -> [pt : SavedFiles \cup {NoFile}, tmp : SavedFiles \cup {NoFile}]]
       /\ \A q \in Files :
            /\ (disk'[q].pt = NoFile <=> disk[q].pt = NoFile)
            /\ (disk'[q].tmp = NoFile <=> disk[q].tmp = NoFile)
            /\ disk'[q].pt.payload = disk[q].pt.payload
            /\ disk'[q].tmp.payload = disk[q].tmp.payload
            /\ disk'[q].tmp.by = disk[q].tmp.by
            /\ disk[q].pt.whole => disk'[q].pt.whole
       /\ name = "tmp" /\ disk[p].tmp.by = w => disk'[p].tmp.whole
  <2>1. CASE disk' = disk /\ ~(name # "gone" /\ disk[p][name].by = w)
    BY <1>7, <2>1
  <2>2. CASE name = "tmp" /\ disk' = [disk EXCEPT ![p][name].whole = TRUE]
    <3> DEFINE new == [disk[p].tmp EXCEPT !.whole = TRUE]
    <3>1. disk[p].tmp \in SavedFiles
      BY <1>5, <1>6, <1>7, <2>2
    <3>2. /\ new \in SavedFiles /\ new # NoFile /\ new.payload = disk[p].tmp.payload
          /\ new.by = disk[p].tmp.by /\ new.whole
      BY <1>9, <3>1
    <3>3. disk' = [disk EXCEPT ![p].tmp = new]
      BY <2>2
    <3> HIDE DEF new
    <3>4. /\ disk'[p].pt = disk[p].pt /\ disk'[p].tmp = new
          /\ \A q \in Files : q # p => disk'[q] = disk[q]
          /\ disk' \in [Files -> [pt : SavedFiles \cup {NoFile}, tmp : SavedFiles \cup {NoFile}]]
      BY <1>5, <1>7, <3>2, <3>3
    <3>5. disk[p].tmp # NoFile
      BY <3>1, NoFileAssumption
    <3>6. QED
      BY <3>2, <3>4, <3>5
  <2>3. CASE name = "pt" /\ disk' = [disk EXCEPT ![p][name].whole = TRUE]
    <3> DEFINE new == [disk[p].pt EXCEPT !.whole = TRUE]
    <3>1. disk[p].pt \in SavedFiles
      BY <1>5, <1>6, <1>7, <2>3
    <3>2. /\ new \in SavedFiles /\ new # NoFile /\ new.payload = disk[p].pt.payload
          /\ new.by = disk[p].pt.by /\ new.whole
      BY <1>9, <3>1
    <3>3. disk' = [disk EXCEPT ![p].pt = new]
      BY <2>3
    <3> HIDE DEF new
    <3>4. /\ disk'[p].pt = new /\ disk'[p].tmp = disk[p].tmp
          /\ \A q \in Files : q # p => disk'[q] = disk[q]
          /\ disk' \in [Files -> [pt : SavedFiles \cup {NoFile}, tmp : SavedFiles \cup {NoFile}]]
      BY <1>5, <1>7, <3>2, <3>3
    <3>5. disk[p].pt # NoFile
      BY <3>1, NoFileAssumption
    <3>6. QED
      BY <2>3, <3>2, <3>4, <3>5
  <2>4. QED
    BY <1>2, <1>6, <2>1, <2>2, <2>3
<1>11. \A u \in Writers : u # w => writer'[u] = writer[u]
  BY <1>3, <1>8
<1>12. /\ writer'[w].at = "replace" /\ writer'[w].todo = writer[w].todo
       /\ writer'[w] \in WriterStates
  BY <1>3, <1>8 DEF WriterStates
<1>13. SameContents
  BY <1>10 DEF SameContents, Here
<1>14. SameLists
  BY <1>4, <1>11, <1>12 DEF SameLists, Running
<1>15. FilesTypes'
  <2>1. writer' \in [Writers -> WriterStates]
    BY <1>3, <1>8, <1>11, <1>12
  <2>2. QED
    BY <1>1, <1>10, <2>1 DEF FilesInv, FilesTypes
<1>16. Target(w)' = p
  BY <1>12 DEF Target, p
<1>17. OpenInv'
  <2>1. ASSUME NEW u \in Writers
        PROVE  /\ writer'[u].at = "write" =>
                    /\ writer'[u].open \in {"tmp", "pt", "gone"}
                    /\ writer'[u].open # "gone" => disk'[Target(u)'][writer'[u].open] # NoFile
               /\ writer'[u].at \in {"write", "replace"} =>
                    disk'[Target(u)'].tmp = NoFile
                      \/ disk'[Target(u)'].tmp.payload = Encode(tokenizer, Target(u)')
    <3>1. CASE u = w
      <4>1. disk[p].tmp = NoFile \/ disk[p].tmp.payload = Encode(tokenizer, p)
        BY <1>1 DEF FilesInv, OpenInv, p
      <4>2. QED
        BY <1>5, <1>10, <1>12, <1>16, <3>1, <4>1
    <3>2. CASE u # w /\ writer[u].at \in {"write", "replace"}
      <4>1. writer'[u] = writer[u] /\ Target(u)' = Target(u)
        BY <1>11, <3>2 DEF Target
      <4>2. Running(u)
        BY <3>2 DEF Running
      <4>3. Target(u) \in Files
        BY <4>2, RunningParts
      <4>4. /\ writer[u].at = "write" =>
                 /\ writer[u].open \in {"tmp", "pt", "gone"}
                 /\ writer[u].open # "gone" => disk[Target(u)][writer[u].open] # NoFile
            /\ disk[Target(u)].tmp = NoFile
                 \/ disk[Target(u)].tmp.payload = Encode(tokenizer, Target(u))
        BY <3>2 DEF FilesInv, OpenInv
      <4>5. writer[u].at = "write" /\ writer[u].open # "gone" =>
              disk'[Target(u)][writer[u].open] # NoFile
        BY <1>10, <4>3, <4>4
      <4>6. QED
        BY <1>10, <4>1, <4>3, <4>4, <4>5
    <3>3. CASE u # w /\ ~(writer[u].at \in {"write", "replace"})
      BY <1>11, <3>3
    <3>4. QED
      BY <3>1, <3>2, <3>3
  <2>2. QED
    BY <1>1, <2>1 DEF OpenInv
<1>18. VersionInv'
  <2>1. \A u \in Writers : Running(u)' =>
          \A q \in ToSet(writer'[u].todo) \cap ToSet(Corpus) : Here(q) => IsOf(tokenizer, q)
    BY <1>14, RunningParts DEF SameLists
  <2>2. QED
    BY <1>1, <1>13, <2>1, VersionsKept
<1>19. EntryInv'
  <2>1. \A q \in ToSet(Corpus) : Here(q) /\ IsOf(tokenizer, q) => Here(q)' /\ IsOf(tokenizer, q)'
    BY <1>1, <1>10, CorpusParts DEF Here, IsOf
  <2>2. QED
    BY <1>1, <2>1, EntriesKept
<1>20. CleanInv'
  <2> SUFFICES ASSUME Clean'
               PROVE  /\ \A q \in Files : Here(q)' => IsOf(tokenizer, q)' /\ disk'[q].pt.whole
                      /\ \A u \in Writers : Running(u)' => Sole(u)'
                      /\ history'.finished => \A q \in Files : Here(q)'
    BY DEF CleanInv
  <2>1. Clean
    BY <1>1 DEF Clean
  <2>2. /\ \A q \in Files : Here(q) => IsOf(tokenizer, q) /\ disk[q].pt.whole
        /\ history.finished => \A q \in Files : Here(q)
        /\ Sole(w)
    BY <1>4, <2>1 DEF FilesInv, CleanInv
  <2>3. \A u \in Writers : Running(u)' => u = w
    BY <1>14, <2>2 DEF SameLists, Sole
  <2>4. \A q \in Files : q \in ToSet(writer'[w].todo) <=> ~(Here(q)')
    BY <1>10, <1>12, <2>2 DEF Sole, Here
  <2>5. name = "tmp" /\ disk[p].tmp.by = w /\ disk[p].tmp # NoFile
        /\ disk[p].tmp.payload = Encode(tokenizer, p)
    BY <1>1, <2>2 DEF Sole, name, p
  <2>6. /\ disk'[p].tmp # NoFile /\ disk'[p].tmp.payload = Encode(tokenizer, p)
        /\ disk'[p].tmp.whole
    BY <1>5, <1>10, <2>5
  <2>7. Sole(w)'
    BY <1>1, <1>12, <1>16, <2>3, <2>4, <2>6 DEF Sole
  <2>8. QED
    BY <1>1, <1>10, <2>2, <2>3, <2>7 DEF Here, IsOf
<1>21. PromiseInv'
  BY <1>1, PromiseKept DEF Promised
<1>22. QED
  BY <1>13, <1>14, <1>15, <1>17, <1>18, <1>19, <1>20, <1>21, TodoKept DEF FilesInv

(* The rename gives the next chunk in order its file, for every version    *)
(* that the chunks in front of it are of; where there was a file before,   *)
(* it was already of this tokenizer.                                       *)
LEMMA ReplaceKeeps ==
  ASSUME FilesInv, NEW w \in Writers, Replace(w)
  PROVE  FilesInv'
<1> DEFINE todo == writer[w].todo
<1>0. PICK p : p = Target(w)
  OBVIOUS
<1>1. /\ tokenizer' = tokenizer /\ answerer' = answerer /\ changes' = changes
      /\ writer[w].at = "replace"
  BY DEF Replace
<1>2. Running(w)
  BY <1>1 DEF Running
<1>3. CASE disk[p].tmp = NoFile
  <2>1. writer' = [writer EXCEPT ![w] = Resting] /\ disk' = disk /\ history' = history
    BY <1>0, <1>3 DEF Replace
  <2>2. QED
    BY <1>1, <1>2, <2>1, WriterRests
<1>4. CASE disk[p].tmp # NoFile
  <2>1. disk' = [disk EXCEPT ![p] = [pt |-> @.tmp, tmp |-> NoFile]]
    BY <1>0, <1>4 DEF Replace
  <2>2. writer' = [u \in Writers |->
                   IF u = w
                   THEN IF Len(todo) = 1 THEN Resting
                        ELSE [at |-> "encode", todo |-> Tail(todo), open |-> "none"]
                   ELSE IF writer[u].at = "write" /\ Target(u) = p
                        THEN [writer[u] EXCEPT !.open = Moved(@)]
                        ELSE writer[u]]
    BY <1>0, <1>4 DEF Replace
  <2>3. history' = [history EXCEPT !.finished = @ \/ Len(todo) = 1]
    BY <1>0, <1>4 DEF Replace
  <2>4. /\ todo \in Seq(Files) /\ todo # <<>> /\ IsInjective(todo) /\ InOrder(todo)
        /\ p \in Files /\ p = Head(todo)
        /\ \A q \in ToSet(Corpus) \ ToSet(todo) : Here(q)
        /\ \A q \in ToSet(todo) \cap ToSet(Corpus) : Here(q) => IsOf(tokenizer, q)
    BY <1>0, <1>2, RunningParts DEF Target
  <2>5. /\ disk \in [Files -> [pt : SavedFiles \cup {NoFile}, tmp : SavedFiles \cup {NoFile}]]
        /\ disk[p].tmp.payload = Encode(tokenizer, p)
    BY <1>0, <1>1, <1>4, <2>4, DiskParts DEF FilesInv, OpenInv
  <2>6. writer \in [Writers -> WriterStates]
    BY DEF FilesInv, FilesTypes
  <2>7. history \in [overlapped : BOOLEAN, used : SUBSET Versions, finished : BOOLEAN]
    BY DEF FilesInv, FilesTypes
  <2> HIDE DEF todo
  <2>8. /\ ToSet(todo) = {p} \cup ToSet(Tail(todo)) /\ p \notin ToSet(Tail(todo))
        /\ IsInjective(Tail(todo)) /\ Tail(todo) \in Seq(Files)
        /\ Len(todo) # 1 => Tail(todo) # <<>>
        /\ Len(todo) = 1 => ToSet(Tail(todo)) = {}
    <3>1. /\ ToSet(todo) = {p} \cup ToSet(Tail(todo)) /\ p \notin ToSet(Tail(todo))
          /\ IsInjective(Tail(todo))
      BY <2>4, MembersOfTail
    <3>2. Tail(todo) \in Seq(Files) /\ Len(Tail(todo)) = Len(todo) - 1 /\ Len(todo) \in Nat
      BY <2>4, HeadTailProperties
    <3>3. Len(todo) # 1 => Tail(todo) # <<>>
      <4>1. Len(todo) # 1 => Len(Tail(todo)) # 0
        BY <3>2
      <4>2. QED
        BY <4>1
    <3>4. Len(todo) = 1 => ToSet(Tail(todo)) = {}
      <4> DEFINE t == Tail(todo)
      <4>1. Len(todo) = 1 => Len(t) = 0
        BY <3>2
      <4>2. t \in Seq(Files)
        BY <3>2
      <4> HIDE DEF t
      <4>3. Len(t) = 0 => t = <<>>
        BY <4>2
      <4>4. QED
        BY <4>1, <4>2, <4>3, MembersOfSeq DEF t
    <3>5. QED
      BY <3>1, <3>2, <3>3, <3>4
  <2>9. /\ InOrder(Tail(todo))
        /\ \A i, j \in DOMAIN Corpus : Corpus[i] = p /\ j < i => Corpus[j] \notin ToSet(todo)
    BY <2>4, CorpusParts, FollowsTail DEF InOrder
  <2>10. /\ disk'[p].pt = disk[p].tmp /\ disk'[p].tmp = NoFile
         /\ \A q \in Files : q # p => disk'[q] = disk[q]
         /\ disk' \in [Files -> [pt : SavedFiles \cup {NoFile}, tmp : SavedFiles \cup {NoFile}]]
    BY <2>1, <2>4, <2>5
  <2>11. /\ \A q \in Files : Here(q)' <=> Here(q) \/ q = p
         /\ IsOf(tokenizer, p)'
         /\ \A q \in Files : \A v : q # p => (IsOf(v, q)' <=> IsOf(v, q))
         /\ \A q \in Files : IsOf(tokenizer, q) => IsOf(tokenizer, q)'
    BY <1>1, <1>4, <2>5, <2>10 DEF Here, IsOf
  <2>12. /\ Len(todo) = 1 => writer'[w] = Resting
         /\ Len(todo) # 1 => writer'[w] = [at |-> "encode", todo |-> Tail(todo), open |-> "none"]
    BY <2>2
  <2>13. \A u \in Writers : u # w =>
           writer'[u] = IF writer[u].at = "write" /\ Target(u) = p
                        THEN [writer[u] EXCEPT !.open = Moved(@)] ELSE writer[u]
    BY <2>2
  <2>14. \A u \in Writers : u # w =>
           /\ writer'[u].at = writer[u].at /\ writer'[u].todo = writer[u].todo
           /\ writer'[u] \in WriterStates
           /\ writer'[u].open = IF writer[u].at = "write" /\ Target(u) = p
                                THEN Moved(writer[u].open) ELSE writer[u].open
    BY <2>6, <2>13 DEF WriterStates, Moved
  <2>15. /\ Running(w)' => Len(todo) # 1 /\ writer'[w].todo = Tail(todo) /\ writer'[w].at = "encode"
         /\ writer'[w].at \in {"rest", "encode"} /\ writer'[w] \in WriterStates
    <3>1. CASE Len(todo) = 1
      <4>1. writer'[w] = Resting /\ <<>> \in Seq(Files)
        BY <2>12, <3>1
      <4>2. QED
        BY <4>1 DEF Resting, Running, WriterStates
    <3>2. CASE Len(todo) # 1
      <4>1. writer'[w] = [at |-> "encode", todo |-> Tail(todo), open |-> "none"]
        BY <2>12, <3>2
      <4>2. Tail(todo) \in Seq(Files)
        BY <2>8
      <4>3. writer'[w] \in WriterStates
        BY <4>1, <4>2 DEF WriterStates
      <4>4. writer'[w].at = "encode" /\ writer'[w].todo = Tail(todo)
        BY <4>1
      <4>5. QED
        BY <3>2, <4>3, <4>4
    <3>3. QED
      BY <3>1, <3>2
  <2>16. /\ history'.overlapped = history.overlapped /\ history'.used = history.used
         /\ history'.finished = (history.finished \/ Len(todo) = 1)
         /\ history' \in [overlapped : BOOLEAN, used : SUBSET Versions, finished : BOOLEAN]
    BY <2>3, <2>7
  <2>17. \A u \in Writers : u # w /\ Running(u)' => Running(u) /\ writer'[u].todo = writer[u].todo
    BY <2>14 DEF Running
  <2>18. \A q \in ToSet(Corpus) : q \in Files
    BY CorpusParts
  <2>20. FilesTypes'
    <3>1. writer' = [u \in Writers |-> writer'[u]]
      BY <2>2
    <3>2. \A u \in Writers : writer'[u] \in WriterStates
      BY <2>14, <2>15
    <3>3. writer' \in [Writers -> WriterStates]
      BY <3>1, <3>2
    <3>4. QED
      BY <1>1, <2>10, <2>16, <3>3 DEF FilesInv, FilesTypes, Versions
  <2>21. TodoInv'
    <3>1. ASSUME NEW u \in Writers, Running(u)'
          PROVE  /\ writer'[u].todo # <<>> /\ IsInjective(writer'[u].todo)
                 /\ InOrder(writer'[u].todo)
                 /\ \A q \in ToSet(Corpus) \ ToSet(writer'[u].todo) : Here(q)'
      <4>1. CASE u = w
        <5>1. writer'[u].todo = Tail(todo) /\ Len(todo) # 1
          BY <2>15, <3>1, <4>1
        <5>2. \A q \in ToSet(Corpus) \ ToSet(Tail(todo)) : Here(q)'
          BY <2>4, <2>8, <2>11, <2>18
        <5>3. QED
          BY <2>8, <2>9, <5>1, <5>2
      <4>2. CASE u # w
        <5>1. Running(u) /\ writer'[u].todo = writer[u].todo
          BY <2>17, <3>1, <4>2
        <5>2. QED
          BY <2>11, <2>18, <5>1, RunningParts
      <4>3. QED
        BY <4>1, <4>2
    <3>2. QED
      BY <3>1 DEF TodoInv
  <2>22. OpenInv'
    <3>1. ASSUME NEW u \in Writers
          PROVE  /\ writer'[u].at = "write" =>
                      /\ writer'[u].open \in {"tmp", "pt", "gone"}
                      /\ writer'[u].open # "gone" => disk'[Target(u)'][writer'[u].open] # NoFile
                 /\ writer'[u].at \in {"write", "replace"} =>
                      disk'[Target(u)'].tmp = NoFile
                        \/ disk'[Target(u)'].tmp.payload = Encode(tokenizer, Target(u)')
      <4>1. CASE u = w
        BY <2>15, <4>1
      <4>2. CASE u # w /\ writer[u].at \in {"write", "replace"}
        <5>1. Target(u)' = Target(u) /\ writer'[u].at = writer[u].at
          BY <2>14, <4>2 DEF Target
        <5>2. Running(u)
          BY <4>2 DEF Running
        <5>3. Target(u) \in Files
          BY <5>2, RunningParts
        <5>4. /\ writer[u].at = "write" =>
                   /\ writer[u].open \in {"tmp", "pt", "gone"}
                   /\ writer[u].open # "gone" => disk[Target(u)][writer[u].open] # NoFile
              /\ disk[Target(u)].tmp = NoFile
                   \/ disk[Target(u)].tmp.payload = Encode(tokenizer, Target(u))
          BY <4>2 DEF FilesInv, OpenInv
        <5>5. CASE Target(u) = p
          <6>1. writer[u].at = "write" =>
                  /\ writer'[u].open = Moved(writer[u].open)
                  /\ writer'[u].open \in {"pt", "gone"}
            BY <2>14, <4>2, <5>4, <5>5 DEF Moved
          <6>2. disk'[p].pt # NoFile /\ disk'[p].tmp = NoFile
            BY <1>4, <2>10
          <6>3. QED
            BY <5>1, <5>5, <6>1, <6>2
        <5>6. CASE Target(u) # p
          <6>1. disk'[Target(u)] = disk[Target(u)] /\ writer'[u].open = writer[u].open
            BY <2>10, <2>14, <4>2, <5>3, <5>6
          <6>2. QED
            BY <5>1, <5>4, <6>1
        <5>7. QED
          BY <5>5, <5>6
      <4>3. CASE u # w /\ ~(writer[u].at \in {"write", "replace"})
        BY <2>14, <4>3
      <4>4. QED
        BY <4>1, <4>2, <4>3
    <3>2. QED
      BY <1>1, <3>1 DEF OpenInv
  <2>23. VersionInv'
    <3>0. \A i \in DOMAIN Corpus : Here(Corpus[i]) => \A j \in 1..i : Here(Corpus[j])
      BY DEF FilesInv, VersionInv
    <3>1. \A i \in DOMAIN Corpus : /\ i \in Nat /\ Corpus[i] \in ToSet(Corpus)
                                   /\ \A j \in 1..i : j \in DOMAIN Corpus /\ Corpus[j] \in ToSet(Corpus)
      BY CorpusParts
    <3>2. ASSUME NEW i \in DOMAIN Corpus, Here(Corpus[i])', NEW j \in 1..i
          PROVE  Here(Corpus[j])'
      <4>1. CASE Here(Corpus[i])
        BY <2>11, <2>18, <3>0, <3>1, <4>1
      <4>2. CASE ~Here(Corpus[i])
        <5>1. Corpus[i] = p
          BY <2>11, <2>18, <3>1, <3>2, <4>2
        <5>2. CASE j = i
          BY <3>2, <5>2
        <5>3. CASE j # i
          <6>1. j < i
            BY <3>1, <5>3
          <6>2. Corpus[j] \notin ToSet(todo)
            BY <2>9, <3>1, <5>1, <6>1
          <6>3. QED
            BY <2>4, <2>11, <2>18, <3>1, <6>2
        <5>4. QED
          BY <5>2, <5>3
      <4>3. QED
        BY <4>1, <4>2
    <3>3. changes' = 0 => \A q \in ToSet(Corpus) : Here(q)' => IsOf(tokenizer, q)'
      <4>1. changes = 0 => \A q \in ToSet(Corpus) : Here(q) => IsOf(tokenizer, q)
        BY DEF FilesInv, VersionInv
      <4>2. QED
        BY <1>1, <2>11, <2>18, <4>1
    <3>4. ASSUME changes' <= 1 PROVE \E v \in Versions : LayersOf(v)'
      <4>1. PICK v \in Versions : LayersOf(v)
        BY <1>1, <3>4 DEF FilesInv, VersionInv
      <4>2. ASSUME NEW i \in DOMAIN Corpus, Here(Corpus[i])'
            PROVE  IsOf(tokenizer, Corpus[i])' \/ OneVersion(v, i)'
        <5>1. CASE Corpus[i] = p
          BY <2>11, <5>1
        <5>2. CASE Corpus[i] # p
          <6>1. Here(Corpus[i])
            BY <2>11, <2>18, <3>1, <4>2, <5>2
          <6>2. IsOf(tokenizer, Corpus[i]) \/ OneVersion(v, i)
            BY <4>1, <6>1 DEF LayersOf
          <6>3. ASSUME OneVersion(v, i), NEW j \in 1..i PROVE IsOf(v, Corpus[j])'
            <7>1. IsOf(v, Corpus[j]) /\ Here(Corpus[j])
              BY <3>0, <6>1, <6>3 DEF OneVersion
            <7>2. CASE Corpus[j] = p
              <8>1. IsOf(tokenizer, p)
                BY <2>4, <2>8, <3>1, <7>1, <7>2
              <8>2. Encode(v, p) = Encode(tokenizer, p)
                BY <7>1, <7>2, <8>1 DEF IsOf
              <8>3. QED
                BY <1>1, <2>11, <7>2, <8>2 DEF IsOf
            <7>3. CASE Corpus[j] # p
              BY <2>11, <2>18, <3>1, <7>1, <7>3
            <7>4. QED
              BY <7>2, <7>3
          <6>4. OneVersion(v, i) => OneVersion(v, i)'
            BY <6>3 DEF OneVersion
          <6>5. IsOf(tokenizer, Corpus[i]) => IsOf(tokenizer, Corpus[i])'
            BY <2>11, <2>18, <3>1
          <6>6. QED
            BY <6>2, <6>4, <6>5
        <5>3. QED
          BY <5>1, <5>2
      <4>3. LayersOf(v)'
        BY <4>2 DEF LayersOf
      <4>4. QED
        BY <4>3
    <3>5. ASSUME NEW u \in Writers, Running(u)',
                 NEW q \in ToSet(writer'[u].todo) \cap ToSet(Corpus), Here(q)'
          PROVE  IsOf(tokenizer, q)'
      <4>1. CASE q = p
        BY <2>11, <4>1
      <4>2. CASE q # p
        <5>1. Here(q) /\ q \in Files
          BY <2>11, <2>18, <3>5, <4>2
        <5>2. IsOf(tokenizer, q)
          <6>1. CASE u = w
            <7>1. q \in ToSet(todo)
              BY <2>8, <2>15, <3>5, <6>1
            <7>2. QED
              BY <2>4, <3>5, <5>1, <7>1
          <6>2. CASE u # w
            BY <2>17, <3>5, <5>1, <6>2, RunningParts
          <6>3. QED
            BY <6>1, <6>2
        <5>3. QED
          BY <2>11, <5>1, <5>2
      <4>3. QED
        BY <4>1, <4>2
    <3>6. QED
      BY <3>2, <3>3, <3>4, <3>5 DEF VersionInv, Versions
  <2>24. EntryInv'
    <3>1. \A q \in ToSet(Corpus) : Here(q) /\ IsOf(tokenizer, q) => Here(q)' /\ IsOf(tokenizer, q)'
      BY <2>11, <2>18
    <3>2. QED
      BY <1>1, <3>1, EntriesKept
  <2>25. CleanInv'
    <3> SUFFICES ASSUME Clean'
                 PROVE  /\ \A q \in Files : Here(q)' => IsOf(tokenizer, q)' /\ disk'[q].pt.whole
                        /\ \A u \in Writers : Running(u)' => Sole(u)'
                        /\ history'.finished => \A q \in Files : Here(q)'
      BY DEF CleanInv
    <3>1. Clean
      BY <1>1, <2>16 DEF Clean
    <3>2. /\ \A q \in Files : Here(q) => IsOf(tokenizer, q) /\ disk[q].pt.whole
          /\ history.finished => \A q \in Files : Here(q)
          /\ Sole(w)
      BY <1>2, <3>1 DEF FilesInv, CleanInv
    <3>3. /\ \A u \in Writers : Running(u) => u = w
          /\ \A q \in Files : q \in ToSet(todo) <=> ~Here(q)
          /\ disk[p].tmp.whole
      BY <1>0, <1>1, <3>2 DEF Sole, todo
    <3>4. \A u \in Writers : Running(u)' => u = w
      BY <2>17, <3>3
    <3>5. \A q \in Files : q \in ToSet(Tail(todo)) <=> ~(Here(q)')
      BY <2>8, <2>11, <3>3
    <3>6. \A q \in Files : Here(q)' => IsOf(tokenizer, q)' /\ disk'[q].pt.whole
      <4>1. ASSUME NEW q \in Files, Here(q)', q # p PROVE disk'[q].pt.whole /\ IsOf(tokenizer, q)'
        BY <2>10, <2>11, <3>2, <4>1
      <4>2. disk'[p].pt.whole /\ IsOf(tokenizer, p)'
        BY <2>10, <2>11, <3>3
      <4>3. QED
        BY <4>1, <4>2
    <3>7. Running(w)' => Sole(w)'
      BY <2>15, <3>4, <3>5 DEF Sole
    <3>8. history'.finished => \A q \in Files : Here(q)'
      BY <2>8, <2>11, <2>16, <3>2, <3>5
    <3>9. QED
      BY <3>4, <3>6, <3>7, <3>8
  <2>26. PromiseInv'
    <3>1. Promised => Promised'
      BY <1>1, <2>16 DEF Promised
    <3>2. QED
      BY <1>1, <3>1, PromiseKept
  <2>27. QED
    BY <2>20, <2>21, <2>22, <2>23, <2>24, <2>25, <2>26 DEF FilesInv
<1>5. QED
  BY <1>3, <1>4

LEMMA CrashKeeps ==
  ASSUME FilesInv, NEW w \in Writers, Crash(w)
  PROVE  FilesInv'
BY WriterRests DEF Crash

-----------------------------------------------------------------------------
(* The answer stage and the tokenizer.                                     *)

Payloads == {Encode(v, p) : v \in Versions, p \in Files}
Answerers ==
  [at : {"rest", "load", "serve", "refused"}, entries : Seq(Payloads), promised : BOOLEAN]

LEMMA AnswererKeeps ==
  ASSUME FilesInv, UNCHANGED <<tokenizer, disk, writer, changes, history>>,
         answerer' \in Answerers, EntryInv', PromiseInv'
  PROVE  FilesInv'
BY AnswererOnly DEF Answerers, Payloads

LEMMA AnswererParts ==
  ASSUME FilesInv
  PROVE  /\ answerer \in Answerers
         /\ \A p \in Files : Here(p) => disk[p].pt.payload \in Payloads
<1>1. answerer \in Answerers
  BY DEF FilesInv, FilesTypes, Answerers, Payloads
<1>2. ASSUME NEW p \in Files, Here(p) PROVE disk[p].pt.payload \in Payloads
  <2>1. disk[p].pt \in SavedFiles
    BY <1>2, DiskParts DEF Here
  <2>2. SavedFiles = [payload : Payloads, by : Writers, whole : BOOLEAN]
    BY DEF SavedFiles, Payloads, Versions
  <2>3. QED
    BY <2>1, <2>2
<1>3. QED
  BY <1>1, <1>2

LEMMA OpenStoreKeeps ==
  ASSUME FilesInv, OpenStore
  PROVE  FilesInv'
<1> DEFINE there == Loads(Tables) /\ \A i \in DOMAIN Corpus : disk[Corpus[i]].pt # NoFile
<1>1. UNCHANGED <<tokenizer, disk, writer, changes, history>>
  BY DEF OpenStore
<1>2. answerer' = [at |-> IF there THEN "load" ELSE "refused", entries |-> <<>>, promised |-> Promised]
  BY DEF OpenStore
<1>3. Promised => there
  <2> SUFFICES ASSUME Promised PROVE there
    OBVIOUS
  <2>1. \A p \in Files : Here(p) /\ Loads(p)
    BY PromisedLoads
  <2>2. QED
    BY <2>1, CorpusParts DEF Here
<1> HIDE DEF there
<1>4. Promised \in BOOLEAN
  BY DEF Promised
<1>5. Promised' <=> Promised
  BY <1>1 DEF Promised
<1>6. /\ answerer'.at \in {"load", "refused"} /\ answerer'.entries = <<>>
      /\ answerer'.promised = Promised /\ (answerer'.at = "refused" => ~there)
  BY <1>2
<1>7. answerer' \in Answerers
  <2>1. <<>> \in Seq(Payloads)
    OBVIOUS
  <2>2. QED
    BY <1>2, <1>4, <2>1 DEF Answerers
<1>8. EntryInv'
  BY <1>6, CorpusParts DEF EntryInv
<1>9. PromiseInv'
  BY <1>3, <1>5, <1>6 DEF PromiseInv
<1>10. QED
  BY <1>1, <1>7, <1>8, <1>9, AnswererKeeps

LEMMA LoadEntryKeeps ==
  ASSUME FilesInv, LoadEntry
  PROVE  FilesInv'
<1>1. /\ tokenizer' = tokenizer /\ disk' = disk /\ writer' = writer
      /\ changes' = changes /\ history' = history /\ answerer.at = "load"
  BY DEF LoadEntry
<1>2. /\ answerer \in Answerers /\ answerer.entries \in Seq(Payloads)
      /\ answerer.promised \in BOOLEAN
  BY AnswererParts DEF Answerers
<1>3. PICK i : i = Len(answerer.entries) + 1
  OBVIOUS
<1>4. PICK p : p = Corpus[i]
  OBVIOUS
<1>5. i \in 1..Len(Corpus) /\ i \in Nat /\ Len(answerer.entries) = i - 1
  BY <1>1, <1>2, <1>3, CorpusParts DEF FilesInv, EntryInv
<1>6. p \in Files
  BY <1>4, <1>5, CorpusParts
<1>7. answerer.promised => Promised
  BY DEF FilesInv, PromiseInv
<1>8. Promised' <=> Promised
  BY <1>1 DEF Promised
<1>9. CASE ~Loads(p)
  <2>1. answerer' = [answerer EXCEPT !.at = "refused", !.entries = <<>>]
    BY <1>3, <1>4, <1>9 DEF LoadEntry
  <2>2. <<>> \in Seq(Payloads)
    OBVIOUS
  <2>3. /\ answerer' \in Answerers /\ answerer'.at = "refused" /\ answerer'.entries = <<>>
        /\ answerer'.promised = answerer.promised
    BY <1>2, <2>1, <2>2 DEF Answerers
  <2>4. ~Promised
    BY <1>6, <1>9, PromisedLoads
  <2>5. EntryInv'
    BY <2>3, CorpusParts DEF EntryInv
  <2>6. PromiseInv'
    BY <1>7, <2>3, <2>4 DEF PromiseInv
  <2>7. QED
    BY <1>1, <2>3, <2>5, <2>6, AnswererKeeps
<1>10. CASE Loads(p)
  <2> DEFINE e == disk[p].pt.payload
             s == answerer.entries
             at == IF p = Last(Corpus) THEN "serve" ELSE "load"
  <2>1. answerer' = [answerer EXCEPT !.entries = Append(@, e), !.at = at]
    BY <1>3, <1>4, <1>10 DEF LoadEntry
  <2>2. Here(p) /\ e \in Payloads
    BY <1>6, <1>10, AnswererParts DEF Loads, Here
  <2>3. /\ s \in Seq(Payloads) /\ Len(s) = i - 1 /\ DOMAIN s = 1..i - 1
    BY <1>2, <1>5
  <2>4. at \in {"serve", "load"} /\ (at = "load" => i < Len(Corpus))
    <3>1. p # Corpus[Len(Corpus)] => i # Len(Corpus)
      BY <1>4
    <3>2. at = "load" => p # Corpus[Len(Corpus)]
      BY DEF Last
    <3>3. at \in {"serve", "load"}
      OBVIOUS
    <3>4. i # Len(Corpus) => i < Len(Corpus)
      <4>1. Len(Corpus) \in Nat
        BY CorpusParts
      <4>2. i \in 1..Len(Corpus)
        BY <1>5
      <4>3. QED
        BY <4>1, <4>2
    <3> HIDE DEF at
    <3>5. QED
      BY <3>1, <3>2, <3>3, <3>4
  <2>5. changes <= 1 => e = Encode(tokenizer, p) /\ IsOf(tokenizer, p)
    <3> SUFFICES ASSUME changes <= 1 PROVE e = Encode(tokenizer, p) /\ IsOf(tokenizer, p)
      OBVIOUS
    <3>1. \A j \in 1..i - 1 : IsOf(tokenizer, Corpus[j])
      BY <2>3 DEF FilesInv, EntryInv
    <3>2. IsOf(tokenizer, Corpus[i])
      BY <1>4, <1>5, <1>10, <3>1, LoadedIsOwn
    <3>3. QED
      BY <1>4, <3>2 DEF IsOf
  <2>6. changes <= 1 => \A j \in 1..i - 1 :
          /\ s[j] = Encode(tokenizer, Corpus[j])
          /\ Here(Corpus[j]) /\ IsOf(tokenizer, Corpus[j])
    BY <2>3 DEF FilesInv, EntryInv
  <2>7. PICK new : new = e
    OBVIOUS
  <2>8. PICK next : next = at
    OBVIOUS
  <2>9. /\ answerer' = [answerer EXCEPT !.entries = Append(s, new), !.at = next]
        /\ new \in Payloads /\ next \in {"serve", "load"} /\ (next = "load" => i < Len(Corpus))
        /\ changes <= 1 => new = Encode(tokenizer, p)
    BY <2>1, <2>2, <2>4, <2>5, <2>7, <2>8
  <2> HIDE DEF e, s, at
  <2>10. /\ Append(s, new) \in Seq(Payloads) /\ Len(Append(s, new)) = i
         /\ DOMAIN Append(s, new) = 1..i
         /\ \A j \in 1..i - 1 : Append(s, new)[j] = s[j]
         /\ Append(s, new)[i] = new
    BY <1>5, <2>3, <2>9, AppendProperties
  <2>11. /\ answerer' \in Answerers /\ answerer'.at = next /\ answerer'.entries = Append(s, new)
         /\ answerer'.promised = answerer.promised
    BY <1>2, <2>9, <2>10 DEF Answerers
  <2>12. EntryInv'
    <3>1. ASSUME changes <= 1, NEW j \in 1..i
          PROVE  /\ Append(s, new)[j] = Encode(tokenizer, Corpus[j])
                 /\ Here(Corpus[j]) /\ IsOf(tokenizer, Corpus[j])
      <4>1. CASE j = i
        BY <1>4, <2>2, <2>5, <2>9, <2>10, <3>1, <4>1
      <4>2. CASE j # i
        <5>1. j \in 1..i - 1
          BY <1>5, <4>2
        <5>2. QED
          BY <2>6, <2>10, <3>1, <5>1
      <4>3. QED
        BY <4>1, <4>2
    <3>2. /\ answerer'.at = "load" => Len(answerer'.entries) < Len(Corpus)
          /\ Len(answerer'.entries) <= Len(Corpus)
      BY <1>5, <2>9, <2>10, <2>11, CorpusParts
    <3>3. changes' <= 1 => \A j \in DOMAIN answerer'.entries :
            /\ answerer'.entries[j] = Encode(tokenizer', Corpus[j])
            /\ Here(Corpus[j])' /\ IsOf(tokenizer, Corpus[j])'
      BY <1>1, <2>10, <2>11, <3>1 DEF Here, IsOf
    <3>4. QED
      BY <3>2, <3>3 DEF EntryInv
  <2>13. PromiseInv'
    BY <1>7, <1>8, <2>9, <2>11 DEF PromiseInv
  <2>14. QED
    BY <1>1, <2>11, <2>12, <2>13, AnswererKeeps
<1>11. QED
  BY <1>9, <1>10

LEMMA CloseStoreKeeps ==
  ASSUME FilesInv, CloseStore
  PROVE  FilesInv'
<1>1. UNCHANGED <<tokenizer, disk, writer, changes, history>> /\ answerer' = Idle
  BY DEF CloseStore
<1>2. answerer'.at = "rest" /\ answerer'.entries = <<>> /\ answerer'.promised = FALSE
  BY <1>1 DEF Idle
<1>3. answerer' \in Answerers
  <2>1. <<>> \in Seq(Payloads)
    OBVIOUS
  <2>2. QED
    BY <1>1, <2>1 DEF Answerers, Idle
<1>4. EntryInv'
  BY <1>2, CorpusParts DEF EntryInv
<1>5. PromiseInv'
  BY <1>2 DEF PromiseInv
<1>6. QED
  BY <1>1, <1>3, <1>4, <1>5, AnswererKeeps

(* What the first tokenizer left is of one version throughout.             *)
LEMMA ChangeTokenizerKeeps ==
  ASSUME FilesInv, NEW v \in Versions, ChangeTokenizer(v)
  PROVE  FilesInv'
<1>1. /\ disk' = disk /\ writer' = writer /\ answerer' = answerer /\ answerer = Idle
      /\ tokenizer' = v /\ v # tokenizer /\ changes' = changes + 1
      /\ \A w \in Writers : ~Running(w)
      /\ history' = [history EXCEPT !.used = @ \cup {v}]
  BY DEF ChangeTokenizer
<1>2. /\ changes \in Nat /\ tokenizer \in Versions /\ tokenizer \in history.used
      /\ history \in [overlapped : BOOLEAN, used : SUBSET Versions, finished : BOOLEAN]
  BY DEF FilesInv, FilesTypes
<1>3. /\ history'.used = history.used \cup {v}
      /\ history' \in [overlapped : BOOLEAN, used : SUBSET Versions, finished : BOOLEAN]
  BY <1>1, <1>2
<1>4. \A w \in Writers : ~(Running(w)') /\ writer'[w].at = "rest"
  BY <1>1 DEF Running
<1>5. answerer'.at = "rest" /\ answerer'.entries = <<>> /\ answerer'.promised = FALSE
  BY <1>1 DEF Idle
<1>6. FilesTypes'
  BY <1>1, <1>2, <1>3 DEF FilesInv, FilesTypes, Versions
<1>7. TodoInv'
  BY <1>4 DEF TodoInv
<1>8. OpenInv'
  BY <1>4 DEF OpenInv
<1>9. VersionInv'
  <2>1. \A i \in DOMAIN Corpus : Here(Corpus[i]) => \A j \in 1..i : Here(Corpus[j])
    BY DEF FilesInv, VersionInv
  <2>2. ~(changes' = 0)
    BY <1>1, <1>2
  <2>3. ASSUME changes' <= 1 PROVE \E u \in Versions : LayersOf(u)'
    <3>1. PICK u \in Versions : u = tokenizer
      BY <1>2
    <3>2. \A p \in ToSet(Corpus) : Here(p) => IsOf(u, p)
      BY <1>1, <1>2, <2>3, <3>1 DEF FilesInv, VersionInv
    <3>3. ASSUME NEW i \in DOMAIN Corpus, Here(Corpus[i]), NEW j \in 1..i
          PROVE  IsOf(u, Corpus[j])
      <4>1. Here(Corpus[j]) /\ Corpus[j] \in ToSet(Corpus)
        BY <2>1, <3>3, CorpusParts
      <4>2. QED
        BY <3>2, <4>1
    <3>4. LayersOf(u)'
      BY <1>1, <3>3 DEF LayersOf, OneVersion, IsOf, Here
    <3>5. QED
      BY <3>4
  <2>4. \A i \in DOMAIN Corpus : Here(Corpus[i])' => \A j \in 1..i : Here(Corpus[j])'
    BY <1>1, <2>1 DEF Here
  <2>5. QED
    BY <1>4, <2>2, <2>3, <2>4 DEF VersionInv, Versions
<1>10. EntryInv'
  BY <1>5, CorpusParts DEF EntryInv
<1>11. CleanInv'
  <2>1. ~(Clean')
    <3>1. tokenizer \in history'.used /\ tokenizer # tokenizer'
      BY <1>1, <1>2, <1>3
    <3>2. QED
      BY <3>1 DEF Clean
  <2>2. QED
    BY <2>1 DEF CleanInv
<1>12. PromiseInv'
  BY <1>5 DEF PromiseInv
<1>13. QED
  BY <1>6, <1>7, <1>8, <1>9, <1>10, <1>11, <1>12 DEF FilesInv

LEMMA FilesStepKeeps ==
  ASSUME FilesInv, [FilesNext]_filesVars
  PROVE  FilesInv'
<1>1. ASSUME NEW w \in Writers, PrecomputeRag(w) PROVE FilesInv'
  BY <1>1, PrecomputeRagKeeps
<1>2. ASSUME NEW w \in Writers, OpenFile(w) PROVE FilesInv'
  BY <1>2, OpenFileKeeps
<1>3. ASSUME NEW w \in Writers, WriteFile(w) PROVE FilesInv'
  BY <1>3, WriteFileKeeps
<1>4. ASSUME NEW w \in Writers, Replace(w) PROVE FilesInv'
  BY <1>4, ReplaceKeeps
<1>5. ASSUME NEW w \in Writers, Crash(w) PROVE FilesInv'
  BY <1>5, CrashKeeps
<1>6. CASE OpenStore
  BY <1>6, OpenStoreKeeps
<1>7. CASE LoadEntry
  BY <1>7, LoadEntryKeeps
<1>8. CASE CloseStore
  BY <1>8, CloseStoreKeeps
<1>9. ASSUME NEW v \in DOMAIN Tokenize, ChangeTokenizer(v) PROVE FilesInv'
  BY <1>9, ChangeTokenizerKeeps DEF Versions
<1>10. CASE UNCHANGED filesVars
  <2>1. UNCHANGED <<tokenizer, disk, writer, changes, history>> /\ answerer' = answerer
    BY <1>10 DEF filesVars
  <2>2. EntryInv'
    <3>1. \A p \in ToSet(Corpus) : Here(p) /\ IsOf(tokenizer, p) => Here(p)' /\ IsOf(tokenizer, p)'
      BY <2>1 DEF Here, IsOf
    <3>2. QED
      BY <2>1, <3>1, EntriesKept
  <2>3. PromiseInv'
    BY <2>1, PromiseKept DEF Promised
  <2>4. QED
    BY <2>1, <2>2, <2>3, AnswererKeeps, AnswererParts
<1>11. QED
  BY <1>1, <1>2, <1>3, <1>4, <1>5, <1>6, <1>7, <1>8, <1>9, <1>10 DEF FilesNext

LEMMA FilesInvariance == FilesSpec => []FilesInv
<1>1. FilesInit => FilesInv
  BY FilesStart
<1>2. FilesInv /\ [FilesNext]_filesVars => FilesInv'
  BY FilesStepKeeps
<1>3. QED
  BY <1>1, <1>2, PTL DEF FilesSpec

(* What the answer stage has loaded is what the encoder would give for the *)
(* live tokenizer: writers killed, resumed and at once included, and one   *)
(* change of the tokenizer, for any corpus, context window and tokenizers. *)
THEOREM LoadedIsWhatItWouldEncode == FilesSpec => []ServesWhatItWouldEncode
<1>1. FilesInv => ServesWhatItWouldEncode
  BY DEF FilesInv, EntryInv, ServesWhatItWouldEncode
<1>2. QED
  BY <1>1, FilesInvariance, PTL

(* A run that has ended leaves a directory the answer stage is not refused *)
(* over, whatever was killed before, with one process at a time and one    *)
(* tokenizer throughout.                                                   *)
THEOREM FinishedRunIsEnough == FilesSpec => []InterruptAndRerun
<1>1. FilesInv => InterruptAndRerun
  BY DEF FilesInv, PromiseInv, InterruptAndRerun
<1>2. QED
  BY <1>1, FilesInvariance, PTL
=============================================================================
