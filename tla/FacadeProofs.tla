---------------------------- MODULE FacadeProofs ----------------------------
(***************************************************************************)
(* What the facade promises, for any chunks, batches, windows and setups,  *)
(* whichever steps raise; and that it implements MemoryLibrary.            *)
(*                                                                         *)
(* FacadeInv is inductive.  It says of every step of every call what the   *)
(* steps before it have established and what a failure between them leaves *)
(* behind.                                                                 *)
(***************************************************************************)
EXTENDS Facade, DataLemmas, FiniteSetTheorems

Plan == [id : ChunkIds, context : Seq(ChunkIds)]

Calls ==
  [op : {"none"}]
    \cup [op : {"precompute"}, at : {"plan"}, todo : Seq(ChunkIds)]
    \cup [op : {"precompute"}, at : {"index", "encode"}, todo : Seq(Plan)]
    \cup [op : {"start"}, at : {"corpus", "index", "engine"}]
    \cup [op : {"answer"}, at : {"fetch", "compose", "register", "generate"}, ids : Seq(ChunkIds)]
    \cup [op : {"close"}, at : {"engine", "encoder", "corpus", "index"}]

Known == ToSet(IdsOf(chunks))

FacadeTypes ==
  /\ setup \in Setups
  /\ closed \in BOOLEAN /\ started \in BOOLEAN /\ scaffold \in BOOLEAN
  /\ indexReady \in BOOLEAN /\ frozen \in BOOLEAN /\ engine \in BOOLEAN
  /\ encoder \in {"none", "loaded", "released"}
  /\ rows \in Seq(ChunkIds) /\ Len(rows) <= MaxRows
  /\ chunks \in Seq(Plan)
  /\ corpus \subseteq ChunkIds /\ staged \subseteq ChunkIds
  /\ call \in Calls
  /\ cut \subseteq {"encode", "close"}

(* What a call that is under way has checked, and nothing has undone.      *)
CallInv ==
  /\ call.op \in {"precompute", "start"} => ~closed /\ ~started
  /\ call.op = "answer" => ~closed /\ started
  /\ call.op = "close" => closed
  /\ closed => call.op \in {"none", "close"}
  /\ call.op = "start" => chunks # <<>> /\ encoder = "released"
  /\ In("start", "index") \/ In("start", "engine") => frozen = ~setup.pins
  /\ In("start", "engine") => indexReady

(* The batch of a precompute: new ids, none twice, and from its indexing   *)
(* on each with a row and with the window it will have been encoded after. *)
BatchIds == IF call.at = "plan" THEN call.todo ELSE IdsOf(call.todo)

BatchInv ==
  call.op = "precompute" =>
    /\ BatchIds # <<>> /\ IsInjective(BatchIds) /\ ToSet(BatchIds) \cap Known = {}
    /\ call.at \in {"plan", "index"} => Len(rows) + Len(BatchIds) <= MaxRows
    /\ call.at # "plan" => scaffold
    /\ call.at # "plan" => \A i \in DOMAIN call.todo :
         call.todo[i].context =
           LastItems(IdsOf(chunks) \o SubSeq(BatchIds, 1, i - 1), ContextWindow)
    /\ call.at = "encode" => ToSet(BatchIds) \subseteq ToSet(rows)

(* Chunks, corpus and index.                                               *)
ChunksInv ==
  /\ IsInjective(IdsOf(chunks))
  /\ corpus \subseteq Known
  /\ ~closed => Known \subseteq corpus \cap ToSet(rows)
  /\ chunks # <<>> /\ ~closed => scaffold
  /\ WindowsFollowChunkOrder
  /\ "encode" \notin cut =>
       rows = IF In("precompute", "encode") THEN IdsOf(chunks) \o BatchIds ELSE IdsOf(chunks)

ServingInv ==
  started /\ ~closed =>
    engine /\ indexReady /\ chunks # <<>> /\ encoder = "released" /\ frozen = ~setup.pins

AnswerInv ==
  /\ call.op = "answer" => IsInjective(call.ids)
  /\ call.op = "answer" /\ call.at # "fetch" => ToSet(call.ids) \subseteq corpus
  /\ In("answer", "register") \/ In("answer", "generate") => staged \cap ToSet(call.ids) = {}
  /\ inFlight = IF In("answer", "generate") THEN MemoryParts(call.ids) ELSE NoMemory

(* What is staged is in the corpus; a close gives back part after part.    *)
CloseInv ==
  /\ staged \subseteq corpus
  /\ closed /\ "close" \notin cut =>
       /\ call.op = "none" \/ call.at # "engine" => ~engine
       /\ call.op = "none" \/ call.at = "index" => corpus = {} /\ ~scaffold
       /\ call.op = "none" => ~indexReady

FacadeInv ==
  FacadeTypes /\ CallInv /\ BatchInv /\ ChunksInv /\ ServingInv /\ AnswerInv /\ CloseInv

-----------------------------------------------------------------------------
(* Ids of plans.                                                           *)

LEMMA IdsOfPlans ==
  ASSUME NEW s \in Seq(Plan)
  PROVE  /\ IdsOf(s) \in Seq(ChunkIds) /\ Len(IdsOf(s)) = Len(s) /\ DOMAIN IdsOf(s) = DOMAIN s
         /\ \A i \in DOMAIN s : IdsOf(s)[i] = s[i].id
         /\ IdsOf(s) = <<>> <=> s = <<>>
<1>1. DOMAIN s = 1..Len(s) /\ Len(s) \in Nat
  OBVIOUS
<1>2. \A i \in 1..Len(s) : s[i].id \in ChunkIds
  <2>1. ASSUME NEW i \in 1..Len(s) PROVE s[i].id \in ChunkIds
    <3>1. s[i] \in Plan
      BY ElementOfSeq
    <3>2. QED
      BY <3>1 DEF Plan
  <2>2. QED
    BY <2>1
<1>3. IdsOf(s) = [i \in 1..Len(s) |-> s[i].id]
  BY <1>1 DEF IdsOf
<1>4. IdsOf(s) \in Seq(ChunkIds) /\ Len(IdsOf(s)) = Len(s)
  BY <1>1, <1>2, <1>3
<1>5. IdsOf(s) = <<>> <=> s = <<>>
  BY <1>1, <1>4, EmptySeq
<1>6. QED
  BY <1>1, <1>3, <1>4, <1>5

LEMMA IdsOfAppend ==
  ASSUME NEW s \in Seq(Plan), NEW p \in Plan
  PROVE  IdsOf(Append(s, p)) = Append(IdsOf(s), p.id)
<1> DEFINE x == IdsOf(Append(s, p))
           y == Append(IdsOf(s), p.id)
<1>1. /\ Append(s, p) \in Seq(Plan) /\ Len(Append(s, p)) = Len(s) + 1 /\ Len(s) \in Nat
      /\ \A i \in 1..Len(s) : Append(s, p)[i] = s[i]
      /\ Append(s, p)[Len(s) + 1] = p
  BY AppendProperties
<1>2. p.id \in ChunkIds
  BY DEF Plan
<1>3. /\ x \in Seq(ChunkIds) /\ Len(x) = Len(s) + 1
      /\ \A i \in 1..Len(s) + 1 : x[i] = Append(s, p)[i].id
  <2>1. DOMAIN Append(s, p) = 1..Len(s) + 1
    BY <1>1
  <2>2. QED
    BY <1>1, <2>1, IdsOfPlans
<1>4. /\ IdsOf(s) \in Seq(ChunkIds) /\ Len(IdsOf(s)) = Len(s)
      /\ \A i \in 1..Len(s) : IdsOf(s)[i] = s[i].id
  <2>1. DOMAIN s = 1..Len(s)
    OBVIOUS
  <2>2. QED
    BY <2>1, IdsOfPlans
<1>5. /\ y \in Seq(ChunkIds) /\ Len(y) = Len(s) + 1
      /\ \A i \in 1..Len(s) : y[i] = s[i].id
      /\ y[Len(s) + 1] = p.id
  BY <1>2, <1>4, AppendProperties
<1> HIDE DEF x, y
<1>6. ASSUME NEW i \in 1..Len(x) PROVE x[i] = y[i]
  <2>1. i \in 1..Len(s) \/ i = Len(s) + 1
    BY <1>1, <1>3
  <2>2. QED
    BY <1>1, <1>3, <1>5, <2>1
<1>7. x = y
  BY <1>3, <1>5, <1>6, SeqEqual
<1>8. QED
  BY <1>7 DEF x, y

LEMMA IdsOfTail ==
  ASSUME NEW s \in Seq(Plan), s # <<>>
  PROVE  /\ IdsOf(Tail(s)) = Tail(IdsOf(s)) /\ Head(IdsOf(s)) = Head(s).id
         /\ Head(s) \in Plan /\ Tail(s) \in Seq(Plan)
<1>1. /\ Head(s) \in Plan /\ Tail(s) \in Seq(Plan) /\ Len(Tail(s)) = Len(s) - 1
      /\ \A i \in 1..Len(s) - 1 : Tail(s)[i] = s[i + 1]
  BY HeadTailProperties
<1>2. /\ IdsOf(s) \in Seq(ChunkIds) /\ Len(IdsOf(s)) = Len(s) /\ IdsOf(s) # <<>>
      /\ DOMAIN s = 1..Len(s) /\ Len(s) \in Nat /\ Len(s) > 0
      /\ \A i \in 1..Len(s) : IdsOf(s)[i] = s[i].id
  <2>1. DOMAIN s = 1..Len(s) /\ Len(s) \in Nat /\ Len(s) > 0
    BY EmptySeq
  <2>2. QED
    BY <2>1, IdsOfPlans
<1> DEFINE x == IdsOf(Tail(s))
           y == Tail(IdsOf(s))
<1>3. /\ x \in Seq(ChunkIds) /\ Len(x) = Len(s) - 1
      /\ \A i \in 1..Len(s) - 1 : x[i] = Tail(s)[i].id
  <2>1. DOMAIN Tail(s) = 1..Len(s) - 1
    BY <1>1, <1>2
  <2>2. QED
    BY <1>1, <2>1, IdsOfPlans
<1>4. /\ y \in Seq(ChunkIds) /\ Len(y) = Len(s) - 1
      /\ \A i \in 1..Len(s) - 1 : y[i] = IdsOf(s)[i + 1]
  BY <1>2, HeadTailProperties
<1> HIDE DEF x, y
<1>5. ASSUME NEW i \in 1..Len(x) PROVE x[i] = y[i]
  <2>1. i \in 1..Len(s) - 1 /\ i + 1 \in 1..Len(s)
    BY <1>2, <1>3
  <2>2. QED
    BY <1>1, <1>2, <1>3, <1>4, <2>1
<1>6. x = y
  BY <1>3, <1>4, <1>5, SeqEqual
<1>7. Head(IdsOf(s)) = Head(s).id
  BY <1>2
<1>8. QED
  BY <1>1, <1>6, <1>7 DEF x, y

LEMMA IdsOfPrefix ==
  ASSUME NEW s \in Seq(Plan), NEW k \in 0..Len(s)
  PROVE  IdsOf(SubSeq(s, 1, k)) = SubSeq(IdsOf(s), 1, k)
<1> DEFINE x == IdsOf(SubSeq(s, 1, k))
           y == SubSeq(IdsOf(s), 1, k)
<1>1. DOMAIN s = 1..Len(s) /\ Len(s) \in Nat /\ k \in Nat /\ k <= Len(s)
  OBVIOUS
<1>2. /\ SubSeq(s, 1, k) \in Seq(Plan) /\ Len(SubSeq(s, 1, k)) = k
      /\ \A i \in 1..k : SubSeq(s, 1, k)[i] = s[i]
  OBVIOUS
<1>3. x \in Seq(ChunkIds) /\ Len(x) = k /\ \A i \in 1..k : x[i] = s[i].id
  <2>1. DOMAIN SubSeq(s, 1, k) = 1..k
    BY <1>2
  <2>2. QED
    BY <1>2, <2>1, IdsOfPlans
<1>4. /\ IdsOf(s) \in Seq(ChunkIds) /\ Len(IdsOf(s)) = Len(s)
      /\ \A i \in 1..Len(s) : IdsOf(s)[i] = s[i].id
  BY <1>1, IdsOfPlans
<1>5. y \in Seq(ChunkIds) /\ Len(y) = k /\ \A i \in 1..k : y[i] = IdsOf(s)[i]
  BY <1>1, <1>4
<1> HIDE DEF x, y
<1>6. \A i \in 1..Len(x) : x[i] = y[i]
  BY <1>1, <1>3, <1>4, <1>5
<1>7. x = y
  BY <1>3, <1>5, <1>6, SeqEqual
<1>8. QED
  BY <1>7 DEF x, y

-----------------------------------------------------------------------------
(* The window.                                                             *)

LEMMA LastItemsEntries ==
  ASSUME NEW S, NEW s \in Seq(S), NEW n \in Nat
  PROVE  /\ LastItems(s, n) \in Seq(S)
         /\ Len(LastItems(s, n)) = IF Len(s) > n THEN n ELSE Len(s)
         /\ \A i \in 1..Len(LastItems(s, n)) :
              LastItems(s, n)[i] = s[i + (IF Len(s) > n THEN Len(s) - n ELSE 0)]
<1>1. Len(s) \in Nat /\ \A i \in 1..Len(s) : s[i] \in S
  BY ElementOfSeq
<1>2. CASE Len(s) > n
  <2>1. LastItems(s, n) = SubSeq(s, Len(s) - n + 1, Len(s))
    BY <1>2 DEF LastItems
  <2>2. Len(s) - n + 1 \in Int /\ Len(s) \in Int
        /\ \A i \in Len(s) - n + 1..Len(s) : s[i] \in S
    BY <1>1, <1>2
  <2>3. /\ LastItems(s, n) \in Seq(S)
        /\ Len(LastItems(s, n)) = IF Len(s) - n + 1 <= Len(s) THEN Len(s) - (Len(s) - n + 1) + 1 ELSE 0
        /\ \A i \in 1..Len(s) - (Len(s) - n + 1) + 1 :
             LastItems(s, n)[i] = s[Len(s) - n + 1 + i - 1]
    BY <2>1, <2>2, SubSeqProperties
  <2>4. Len(LastItems(s, n)) = n
    BY <1>1, <1>2, <2>3
  <2>5. \A i \in 1..n : LastItems(s, n)[i] = s[i + (Len(s) - n)]
    BY <1>1, <1>2, <2>3
  <2>6. QED
    BY <1>2, <2>3, <2>4, <2>5
<1>3. CASE ~(Len(s) > n)
  <2>1. LastItems(s, n) = s
    BY <1>3, SubSeqFull DEF LastItems
  <2>2. QED
    BY <1>1, <1>3, <2>1
<1>4. QED
  BY <1>2, <1>3

(* What slides out of a window stays out of it.                            *)
LEMMA WindowSlides ==
  ASSUME NEW S, NEW s \in Seq(S), NEW e \in S, NEW n \in Nat
  PROVE  LastItems(Append(LastItems(s, n), e), n) = LastItems(Append(s, e), n)
<1> DEFINE w == LastItems(s, n)
           off == IF Len(s) > n THEN Len(s) - n ELSE 0
           x == LastItems(Append(w, e), n)
           y == LastItems(Append(s, e), n)
<1>1. /\ w \in Seq(S) /\ Len(w) = Len(s) - off /\ Len(s) \in Nat /\ Len(w) \in Nat
      /\ \A i \in 1..Len(w) : w[i] = s[i + off]
      /\ off \in Nat /\ off <= Len(s)
  <2>1. Len(s) \in Nat
    OBVIOUS
  <2>2. /\ w \in Seq(S) /\ Len(w) = IF Len(s) > n THEN n ELSE Len(s)
        /\ \A i \in 1..Len(w) : w[i] = s[i + off]
    BY LastItemsEntries
  <2> HIDE DEF w
  <2>3. QED
    BY <2>1, <2>2
<1>2. (Len(s) > n => Len(w) = n) /\ (~(Len(s) > n) => Len(w) = Len(s))
  BY LastItemsEntries
<1> HIDE DEF w, off, x, y
<1>3. /\ Append(w, e) \in Seq(S) /\ Len(Append(w, e)) = Len(w) + 1
      /\ Append(w, e)[Len(w) + 1] = e /\ \A i \in 1..Len(w) : Append(w, e)[i] = w[i]
  <2>1. w \in Seq(S)
    BY <1>1
  <2>2. QED
    BY <2>1, AppendProperties
<1>4. /\ Append(s, e) \in Seq(S) /\ Len(Append(s, e)) = Len(s) + 1
      /\ Append(s, e)[Len(s) + 1] = e /\ \A i \in 1..Len(s) : Append(s, e)[i] = s[i]
  BY AppendProperties
<1>5. \A i \in 1..Len(w) + 1 : Append(w, e)[i] = Append(s, e)[i + off]
  <2> SUFFICES ASSUME NEW i \in 1..Len(w) + 1 PROVE Append(w, e)[i] = Append(s, e)[i + off]
    OBVIOUS
  <2>1. CASE i \in 1..Len(w)
    <3>1. i + off \in 1..Len(s)
      BY <1>1, <2>1
    <3>2. QED
      BY <1>1, <1>3, <1>4, <2>1, <3>1
  <2>2. CASE i = Len(w) + 1
    <3>1. i + off = Len(s) + 1
      BY <1>1, <2>2
    <3>2. QED
      BY <1>3, <1>4, <2>2, <3>1
  <2>3. QED
    BY <1>1, <2>1, <2>2
<1> DEFINE a == Append(w, e)
           b == Append(s, e)
           p == IF Len(a) > n THEN Len(a) - n ELSE 0
           q == IF Len(b) > n THEN Len(b) - n ELSE 0
<1>6. /\ x \in Seq(S) /\ Len(x) = (IF Len(a) > n THEN n ELSE Len(a))
      /\ \A i \in 1..Len(x) : x[i] = a[i + p]
  BY <1>3, LastItemsEntries DEF x
<1>7. /\ y \in Seq(S) /\ Len(y) = (IF Len(b) > n THEN n ELSE Len(b))
      /\ \A i \in 1..Len(y) : y[i] = b[i + q]
  BY <1>4, LastItemsEntries DEF y
<1> HIDE DEF a, b
<1>8. /\ Len(a) = Len(w) + 1 /\ Len(b) = Len(s) + 1
      /\ \A i \in 1..Len(w) + 1 : a[i] = b[i + off]
  BY <1>3, <1>4, <1>5 DEF a, b
<1>9. Len(x) = Len(y) /\ Len(x) \in Nat /\ p + off = q /\ p \in Nat /\ Len(x) + p <= Len(w) + 1
  <2>1. CASE Len(s) > n
    <3>1. Len(w) = n /\ off = Len(s) - n /\ Len(a) = n + 1 /\ Len(b) > n
      BY <1>1, <1>2, <1>8, <2>1 DEF off
    <3>2. QED
      BY <1>1, <1>6, <1>7, <1>8, <2>1, <3>1
  <2>2. CASE ~(Len(s) > n)
    <3>1. Len(w) = Len(s) /\ off = 0 /\ Len(a) = Len(b)
      BY <1>1, <1>2, <1>8, <2>2 DEF off
    <3>2. QED
      BY <1>1, <1>6, <1>7, <1>8, <2>2, <3>1
  <2>3. QED
    BY <2>1, <2>2
<1> HIDE DEF p, q
<1>10. ASSUME NEW i \in 1..Len(x) PROVE x[i] = y[i]
  <2>1. i + p \in 1..Len(w) + 1 /\ (i + p) + off = i + q
    BY <1>1, <1>9
  <2>2. a[i + p] = b[i + q]
    BY <1>8, <2>1
  <2>3. QED
    BY <1>6, <1>7, <1>9, <2>2
<1>11. x = y
  BY <1>6, <1>7, <1>9, <1>10, SeqEqual
<1>12. QED
  BY <1>11 DEF x, y, a, b, w

(* The window in front of a chunk of a batch is the end of what is         *)
(* registered and comes before it in the batch.                            *)
LEMMA WindowsAreEnds ==
  ASSUME chunks \in Seq(Plan), NEW batch \in Seq(ChunkIds)
  PROVE  \A i \in 0..Len(batch) :
           Windows(batch)[i] = LastItems(IdsOf(chunks) \o SubSeq(batch, 1, i), ContextWindow)
<1> DEFINE n == Len(batch)
           known == IdsOf(chunks)
           End(i) == LastItems(known \o SubSeq(batch, 1, i), ContextWindow)
           g == [i \in 0..n |-> End(i)]
           f == Windows(batch)
<1>1. n \in Nat /\ known \in Seq(ChunkIds) /\ ContextWindow \in Nat
  BY IdsOfPlans, FacadeAssumption
<1> HIDE DEF known
<1>2. End(0) = History
  <2>1. SubSeq(batch, 1, 0) = <<>>
    BY SubSeqEmpty
  <2>2. known \o <<>> = known
    BY <1>1, ConcatEmptySeq
  <2>3. QED
    BY <2>1, <2>2 DEF History, known
<1>3. ASSUME NEW i \in 1..n PROVE End(i) = LastItems(Append(End(i - 1), batch[i]), ContextWindow)
  <2> DEFINE s == known \o SubSeq(batch, 1, i - 1)
  <2>1. batch[i] \in ChunkIds
    BY ElementOfSeq
  <2>2. SubSeq(batch, 1, i - 1) \in Seq(ChunkIds)
    OBVIOUS
  <2>3. s \in Seq(ChunkIds)
    BY <1>1, <2>2, ConcatProperties
  <2>4. Append(s, batch[i]) = known \o SubSeq(batch, 1, i)
    <3>1. SubSeq(batch, 1, i) = Append(SubSeq(batch, 1, i - 1), batch[i])
      OBVIOUS
    <3> DEFINE front == SubSeq(batch, 1, i - 1)
               e == batch[i]
    <3>2. front \in Seq(ChunkIds) /\ e \in ChunkIds /\ known \in Seq(ChunkIds)
      BY <1>1, <2>1, <2>2
    <3> HIDE DEF front, e
    <3>3. Append(known \o front, e) = known \o Append(front, e)
      BY <3>2
    <3>4. QED
      BY <3>1, <3>3 DEF front, e
  <2> HIDE DEF s
  <2>5. LastItems(Append(LastItems(s, ContextWindow), batch[i]), ContextWindow)
          = LastItems(Append(s, batch[i]), ContextWindow)
    BY <1>1, <2>1, <2>3, WindowSlides
  <2>6. QED
    BY <2>4, <2>5 DEF s
<1> HIDE DEF End
<1>4. g = [i \in 0..n |->
             IF i = 0 THEN History ELSE LastItems(Append(g[i - 1], batch[i]), ContextWindow)]
  <2>1. ASSUME NEW i \in 0..n
        PROVE  g[i] = IF i = 0 THEN History
                      ELSE LastItems(Append(g[i - 1], batch[i]), ContextWindow)
    <3>1. CASE i = 0
      BY <1>2, <3>1
    <3>2. CASE i # 0
      <4>1. i \in 1..n /\ i - 1 \in 0..n
        BY <1>1, <3>2
      <4>2. g[i] = End(i) /\ g[i - 1] = End(i - 1)
        BY <4>1
      <4>3. QED
        BY <1>3, <3>2, <4>1, <4>2
    <3>3. QED
      BY <3>1, <3>2
  <2>2. g = [i \in 0..n |-> g[i]]
    OBVIOUS
  <2> HIDE DEF g
  <2>3. QED
    BY <2>1, <2>2
<1>5. f = [i \in 0..n |->
             IF i = 0 THEN History ELSE LastItems(Append(f[i - 1], batch[i]), ContextWindow)]
  <2> HIDE DEF g
  <2>1. \E h : h = [i \in 0..n |->
             IF i = 0 THEN History ELSE LastItems(Append(h[i - 1], batch[i]), ContextWindow)]
    BY <1>4
  <2>2. QED
    BY <2>1 DEF Windows
<1> HIDE DEF f, g
<1> DEFINE Agree == {i \in 0..n : f[i] = g[i]}
<1>6. 0 \in Agree
  <2>1. 0 \in 0..n
    BY <1>1
  <2>2. f[0] = History /\ g[0] = History
    BY <1>4, <1>5, <2>1
  <2>3. QED
    BY <2>1, <2>2
<1>7. ASSUME NEW i \in 0..n - 1, i \in Agree PROVE i + 1 \in Agree
  <2>1. i + 1 \in 0..n /\ i + 1 # 0 /\ i + 1 - 1 = i
    BY <1>1
  <2>2. f[i + 1] = LastItems(Append(f[i], batch[i + 1]), ContextWindow)
    BY <1>5, <2>1
  <2>3. g[i + 1] = LastItems(Append(g[i], batch[i + 1]), ContextWindow)
    BY <1>4, <2>1
  <2>4. QED
    BY <1>7, <2>1, <2>2, <2>3
<1>8. \A i \in 0..n : i \in Agree
  <2> HIDE DEF Agree
  <2>1. QED
    BY <1>1, <1>6, <1>7, UpTo
<1>9. \A i \in 0..n : f[i] = End(i)
  BY <1>8 DEF g
<1>10. QED
  BY <1>9 DEF f, End, known

(* Every hit once, and nothing else.                                       *)
LEMMA UniqueIdsAreHits ==
  ASSUME NEW hits \in Seq(ChunkIds)
  PROVE  /\ ReverseRankedIds(hits) \in Seq(ChunkIds)
         /\ IsInjective(ReverseRankedIds(hits))
         /\ ToSet(ReverseRankedIds(hits)) = ToSet(hits)
<1> DEFINE n == Len(hits)
           T == Seq(ChunkIds)
           f == UniqueIds(hits)
           Next1(s, i) == IF hits[i] \in ToSet(s) THEN s ELSE Append(s, hits[i])
           step == [p \in T \X (1..n) |-> Next1(p[1], p[2])]
<1>1. n \in Nat /\ \A i \in 1..n : hits[i] \in ChunkIds
  BY ElementOfSeq
<1>2. \A s \in T, i \in 1..n : Next1(s, i) \in T
  BY <1>1, AppendProperties
<1>3. step \in StepsOver(T, n)
  <2> HIDE DEF Next1, T
  <2>1. \A p \in T \X (1..n) : p[1] \in T /\ p[2] \in 1..n
    OBVIOUS
  <2>2. QED
    BY <1>2, <2>1 DEF StepsOver
<1>4. <<>> \in T
  OBVIOUS
<1>5. \E g \in [0..n -> T] : g[0] = <<>> /\ \A i \in 1..n : g[i] = step[<<g[i - 1], i>>]
  <2>1. n \in Nat /\ <<>> \in T /\ step \in StepsOver(T, n)
    BY <1>1, <1>3, <1>4
  <2> HIDE DEF step, T, n
  <2> DEFINE base == <<>>
  <2>2. base \in T
    BY <2>1
  <2> HIDE DEF base
  <2>3. \E g : IsRecursion(g, n, T, base, step)
    BY <2>1, <2>2, RecursionExists
  <2>4. QED
    BY <2>3 DEF base, IsRecursion
<1>6. PICK g \in [0..n -> T] : g[0] = <<>> /\ \A i \in 1..n : g[i] = step[<<g[i - 1], i>>]
  BY <1>5
<1>8. g = [i \in 0..n |-> IF i = 0 THEN <<>> ELSE Next1(g[i - 1], i)]
  <2>1. ASSUME NEW i \in 1..n PROVE g[i] = Next1(g[i - 1], i)
    <3> HIDE DEF T, Next1
    <3>1. i - 1 \in 0..n
      BY <1>1
    <3>2. <<g[i - 1], i>> \in T \X (1..n)
      BY <3>1
    <3>3. QED
      BY <1>6, <3>2
  <2> HIDE DEF step, Next1, T
  <2>2. \A i \in 0..n : g[i] = IF i = 0 THEN <<>> ELSE Next1(g[i - 1], i)
    BY <1>1, <1>6, <2>1
  <2>3. g = [i \in 0..n |-> g[i]]
    OBVIOUS
  <2>4. QED
    BY <2>2, <2>3
<1>9. f = [i \in 0..n |-> IF i = 0 THEN <<>> ELSE Next1(f[i - 1], i)]
  <2>1. \E h : h = [i \in 0..n |-> IF i = 0 THEN <<>>
                                  ELSE IF hits[i] \in ToSet(h[i - 1]) THEN h[i - 1]
                                  ELSE Append(h[i - 1], hits[i])]
    BY <1>8
  <2>2. f = [i \in 0..n |-> IF i = 0 THEN <<>>
                           ELSE IF hits[i] \in ToSet(f[i - 1]) THEN f[i - 1]
                           ELSE Append(f[i - 1], hits[i])]
    BY <2>1 DEF UniqueIds
  <2>3. QED
    BY <2>2
<1> HIDE DEF f
<1> DEFINE Prefix(i) == {hits[j] : j \in 1..i}
           Fine == {i \in 0..n : f[i] \in T /\ IsInjective(f[i]) /\ ToSet(f[i]) = Prefix(i)}
<1>10. 0 \in Fine
  <2>1. f[0] = <<>>
    BY <1>1, <1>9
  <2>2. IsInjective(<<>>) /\ ToSet(<<>>) = {} /\ Prefix(0) = {}
    BY DEF IsInjective, ToSet
  <2> HIDE DEF Prefix, T
  <2>3. f[0] \in T /\ IsInjective(f[0]) /\ ToSet(f[0]) = Prefix(0)
    BY <1>4, <2>1, <2>2
  <2>5. 0 \in 0..n
    BY <1>1
  <2>4. QED
    BY <2>3, <2>5
<1>11. ASSUME NEW i \in 0..n - 1, i \in Fine PROVE i + 1 \in Fine
  <2>1. i + 1 \in 0..n /\ i + 1 # 0 /\ i + 1 - 1 = i /\ i + 1 \in 1..n
    BY <1>1
  <2>2. f[i + 1] = Next1(f[i], i + 1)
    <3> HIDE DEF Next1
    <3>1. QED
      BY <1>9, <2>1
  <2>3. Prefix(i + 1) = Prefix(i) \cup {hits[i + 1]}
    <3>1. 1..i + 1 = (1..i) \cup {i + 1}
      OBVIOUS
    <3>2. QED
      BY <3>1
  <2>4. f[i] \in T /\ IsInjective(f[i]) /\ ToSet(f[i]) = Prefix(i)
    BY <1>11
  <2> HIDE DEF Prefix
  <2>5. CASE hits[i + 1] \in ToSet(f[i])
    BY <2>1, <2>2, <2>3, <2>4, <2>5
  <2>6. CASE hits[i + 1] \notin ToSet(f[i])
    <3>1. f[i + 1] = Append(f[i], hits[i + 1])
      BY <2>2, <2>6
    <3>2. f[i + 1] \in T
      BY <1>1, <2>1, <2>4, <3>1, AppendProperties
    <3>3. ToSet(f[i + 1]) = ToSet(f[i]) \cup {hits[i + 1]} /\ IsInjective(f[i + 1])
      BY <1>1, <2>1, <2>4, <2>6, <3>1, MembersOfAppend
    <3>4. QED
      BY <2>1, <2>3, <2>4, <3>2, <3>3
  <2>7. QED
    BY <2>5, <2>6
<1>12. n \in Fine
  <2> HIDE DEF Fine
  <2>1. \A i \in 0..n : i \in Fine
    BY <1>1, <1>10, <1>11, UpTo
  <2>2. QED
    BY <1>1, <2>1
<1>13. f[n] \in T /\ IsInjective(f[n]) /\ ToSet(f[n]) = ToSet(hits)
  <2>1. ToSet(hits) = Prefix(n)
    <3>1. DOMAIN hits = 1..n
      OBVIOUS
    <3>2. QED
      BY <3>1 DEF ToSet
  <2> HIDE DEF Prefix, T
  <2>2. QED
    BY <1>12, <2>1
<1>14. ReverseRankedIds(hits) = Reverse(f[n])
  BY DEF ReverseRankedIds, f
<1>15. QED
  BY <1>13, <1>14, MembersOfReverse

-----------------------------------------------------------------------------
(* Calls.                                                                  *)

LEMMA CallFields ==
  ASSUME call \in Calls
  PROVE  /\ call.op \in {"none", "precompute", "start", "answer", "close"}
         /\ call.op = "none" => call = Rest
         /\ call.op = "precompute" => call.at \in {"plan", "index", "encode"}
         /\ call.op = "precompute" /\ call.at = "plan" =>
              call.todo \in Seq(ChunkIds) /\ call = [op |-> "precompute", at |-> "plan", todo |-> call.todo]
         /\ call.op = "precompute" /\ call.at # "plan" =>
              call.todo \in Seq(Plan) /\ call = [op |-> "precompute", at |-> call.at, todo |-> call.todo]
         /\ call.op = "start" =>
              call.at \in {"corpus", "index", "engine"} /\ call = [op |-> "start", at |-> call.at]
         /\ call.op = "answer" =>
              /\ call.at \in {"fetch", "compose", "register", "generate"} /\ call.ids \in Seq(ChunkIds)
              /\ call = [op |-> "answer", at |-> call.at, ids |-> call.ids]
         /\ call.op = "close" =>
              /\ call.at \in {"engine", "encoder", "corpus", "index"}
              /\ call = [op |-> "close", at |-> call.at]
<1>1. CASE call \in [op : {"none"}]
  BY <1>1 DEF Rest
<1>2. CASE call \in [op : {"precompute"}, at : {"plan"}, todo : Seq(ChunkIds)]
  BY <1>2
<1>3. CASE call \in [op : {"precompute"}, at : {"index", "encode"}, todo : Seq(Plan)]
  BY <1>3
<1>4. CASE call \in [op : {"start"}, at : {"corpus", "index", "engine"}]
  BY <1>4
<1>5. CASE call \in [op : {"answer"}, at : {"fetch", "compose", "register", "generate"},
                     ids : Seq(ChunkIds)]
  BY <1>5
<1>6. CASE call \in [op : {"close"}, at : {"engine", "encoder", "corpus", "index"}]
  BY <1>6
<1>7. QED
  BY <1>1, <1>2, <1>3, <1>4, <1>5, <1>6 DEF Calls

-----------------------------------------------------------------------------
(* Every action keeps the invariant.                                       *)

LEMMA InitEstablishesInv == Init => FacadeInv
<1> SUFFICES ASSUME Init PROVE FacadeInv
  OBVIOUS
<1>1. call.op = "none" /\ call \in Calls
  BY DEF Init, Rest, Calls
<1>2. IdsOf(<<>>) = <<>>
  BY DEF IdsOf
<1>3. FacadeTypes
  <2>1. rows \in Seq(ChunkIds) /\ chunks \in Seq(Plan) /\ Len(rows) = 0
    BY DEF Init
  <2>2. MaxRows \in Nat
    BY FacadeAssumption
  <2>3. Len(rows) <= MaxRows
    BY <2>1, <2>2
  <2>4. QED
    BY <1>1, <2>1, <2>3 DEF Init, FacadeTypes
<1>4. CallInv /\ BatchInv /\ ServingInv
  BY <1>1 DEF Init, CallInv, BatchInv, ServingInv, In
<1>5. ChunksInv
  BY <1>1, <1>2 DEF Init, ChunksInv, In, IsInjective, Known, ToSet, WindowsFollowChunkOrder
<1>6. AnswerInv /\ CloseInv
  BY <1>1 DEF Init, AnswerInv, CloseInv, In
<1>7. QED
  BY <1>3, <1>4, <1>5, <1>6 DEF FacadeInv

LEMMA TokenizerKeepsInv ==
  ASSUME FacadeInv, Tokenizer
  PROVE  FacadeInv'
<1>1. call.op = "none" /\ call' = call /\ ~started
  BY DEF Tokenizer, AtRest, Rest
<1>2. FacadeTypes'
  BY DEF FacadeInv, FacadeTypes, Tokenizer, EnsuredEncoder
<1>3. CallInv'
  BY <1>1 DEF FacadeInv, CallInv, Tokenizer, In
<1>4. BatchInv'
  BY <1>1 DEF BatchInv
<1>5. ChunksInv'
  BY DEF FacadeInv, ChunksInv, Tokenizer, In, Known, WindowsFollowChunkOrder, BatchIds
<1>6. ServingInv'
  BY <1>1 DEF ServingInv, Tokenizer
<1>7. AnswerInv' /\ CloseInv'
  BY DEF FacadeInv, AnswerInv, CloseInv, Tokenizer, In
<1>8. QED
  BY <1>2, <1>3, <1>4, <1>5, <1>6, <1>7 DEF FacadeInv

LEMMA PrecomputeKeepsInv ==
  ASSUME FacadeInv, NEW batch \in Batches, Precompute(batch)
  PROVE  FacadeInv'
<1>1. /\ call.op = "none" /\ ~started /\ ~closed
      /\ call' = [op |-> "precompute", at |-> "plan", todo |-> batch]
      /\ chunks' = chunks /\ rows' = rows
  BY DEF Precompute, AtRest, Rest
<1>2. batch \in Seq(ChunkIds) /\ batch # <<>> /\ IsInjective(batch)
  <2>1. batch \in SeqOf(ChunkIds, MaxRows) /\ MaxRows \in Nat
    BY FacadeAssumption DEF Batches
  <2>2. QED
    BY <2>1, SeqOfIsSeq DEF Batches
<1>3. FacadeTypes'
  <2>1. call' \in Calls
    BY <1>1, <1>2 DEF Calls
  <2>2. QED
    BY <2>1 DEF FacadeInv, FacadeTypes, Precompute, EnsuredEncoder
<1>4. CallInv'
  BY <1>1 DEF CallInv, Precompute, In
<1>5. BatchInv'
  <2>1. BatchIds' = batch
    BY <1>1 DEF BatchIds
  <2>2. QED
    BY <1>1, <1>2, <2>1 DEF BatchInv, Precompute, Known
<1>6. ChunksInv'
  BY <1>1 DEF FacadeInv, ChunksInv, Precompute, In, Known, WindowsFollowChunkOrder
<1>7. ServingInv'
  BY <1>1 DEF ServingInv, Precompute
<1>8. AnswerInv' /\ CloseInv'
  BY <1>1 DEF FacadeInv, AnswerInv, CloseInv, Precompute, In
<1>9. QED
  BY <1>3, <1>4, <1>5, <1>6, <1>7, <1>8 DEF FacadeInv

(* A plan per chunk, each with the window in front of its chunk.           *)
LEMMA PlansForBatch ==
  ASSUME chunks \in Seq(Plan), NEW batch \in Seq(ChunkIds)
  PROVE  /\ PlansFor(batch) \in Seq(Plan) /\ DOMAIN PlansFor(batch) = DOMAIN batch
         /\ IdsOf(PlansFor(batch)) = batch
         /\ \A i \in DOMAIN batch :
              PlansFor(batch)[i].context =
                LastItems(IdsOf(chunks) \o SubSeq(batch, 1, i - 1), ContextWindow)
<1> DEFINE n == Len(batch)
           known == IdsOf(chunks)
           plans == PlansFor(batch)
<1>1. n \in Nat /\ DOMAIN batch = 1..n /\ \A i \in 1..n : batch[i] \in ChunkIds
  BY ElementOfSeq
<1>2. known \in Seq(ChunkIds) /\ ContextWindow \in Nat
  BY IdsOfPlans, FacadeAssumption
<1>3. plans = [i \in 1..n |-> [id |-> batch[i], context |-> Windows(batch)[i - 1]]]
  BY <1>1 DEF PlansFor
<1>4. ASSUME NEW i \in 1..n
      PROVE  /\ Windows(batch)[i - 1] = LastItems(known \o SubSeq(batch, 1, i - 1), ContextWindow)
             /\ Windows(batch)[i - 1] \in Seq(ChunkIds)
  <2> DEFINE front == SubSeq(batch, 1, i - 1)
             s == known \o front
  <2>1. i - 1 \in 0..n
    BY <1>1
  <2>2. Windows(batch)[i - 1] = LastItems(known \o front, ContextWindow)
    BY <2>1, WindowsAreEnds
  <2>3. front \in Seq(ChunkIds)
    OBVIOUS
  <2> HIDE DEF front, known
  <2>4. s \in Seq(ChunkIds)
    BY <1>2, <2>3, ConcatProperties
  <2> HIDE DEF s
  <2>5. LastItems(s, ContextWindow) \in Seq(ChunkIds)
    BY <1>2, <2>4, LastItemsEntries
  <2>6. QED
    BY <2>2, <2>5 DEF front, s
<1> HIDE DEF plans, known
<1>5. \A i \in 1..n : plans[i] \in Plan
  BY <1>1, <1>3, <1>4 DEF Plan
<1>6. plans \in Seq(Plan) /\ DOMAIN plans = 1..n
  <2>1. plans = [i \in 1..n |-> plans[i]]
    BY <1>3
  <2>2. QED
    BY <1>1, <1>5, <2>1
<1>7. IdsOf(plans) = batch
  <2>1. IdsOf(plans) = [i \in 1..n |-> plans[i].id]
    BY <1>6 DEF IdsOf
  <2>2. \A i \in 1..n : plans[i].id = batch[i]
    BY <1>3
  <2>3. QED
    BY <1>1, <2>1, <2>2
<1>8. \A i \in 1..n :
        plans[i].context = LastItems(known \o SubSeq(batch, 1, i - 1), ContextWindow)
  BY <1>3, <1>4
<1>9. QED
  BY <1>1, <1>6, <1>7, <1>8 DEF plans, known

LEMMA PlanBatchKeepsInv ==
  ASSUME FacadeInv, PlanBatch
  PROVE  FacadeInv'
<1> DEFINE plans == PlansFor(call.todo)
<1>1. /\ call.op = "precompute" /\ call.at = "plan" /\ call \in Calls /\ call.todo \in Seq(ChunkIds)
      /\ call' = [op |-> "precompute", at |-> "index", todo |-> plans]
      /\ chunks' = chunks /\ rows' = rows /\ scaffold' = TRUE /\ chunks \in Seq(Plan)
  BY CallFields DEF PlanBatch, In, FacadeInv, FacadeTypes
<1>2. /\ plans \in Seq(Plan) /\ DOMAIN plans = DOMAIN call.todo /\ IdsOf(plans) = call.todo
      /\ \A i \in DOMAIN plans :
           plans[i].context =
             LastItems(IdsOf(chunks) \o SubSeq(call.todo, 1, i - 1), ContextWindow)
  BY <1>1, PlansForBatch
<1> HIDE DEF plans
<1>3. FacadeTypes'
  <2>1. call' \in Calls
    BY <1>1, <1>2 DEF Calls
  <2>2. QED
    BY <2>1 DEF FacadeInv, FacadeTypes, PlanBatch
<1>4. CallInv'
  BY <1>1 DEF FacadeInv, CallInv, PlanBatch, In
<1>5. BatchInv'
  <2>1. BatchIds = call.todo /\ BatchIds' = call.todo
    BY <1>1, <1>2 DEF BatchIds
  <2>2. /\ call.todo # <<>> /\ IsInjective(call.todo) /\ ToSet(call.todo) \cap Known = {}
        /\ Len(rows) + Len(call.todo) <= MaxRows
    BY <1>1, <2>1 DEF FacadeInv, BatchInv
  <2>3. /\ call'.op = "precompute" /\ call'.at = "index" /\ call'.todo = plans /\ Known' = Known
        /\ IdsOf(chunks') = IdsOf(chunks)
    BY <1>1 DEF Known
  <2>4. QED
    BY <1>1, <1>2, <2>1, <2>2, <2>3 DEF BatchInv
<1>6. ChunksInv'
  BY <1>1 DEF FacadeInv, ChunksInv, PlanBatch, In, Known, WindowsFollowChunkOrder
<1>7. ServingInv'
  BY <1>1 DEF FacadeInv, ServingInv, PlanBatch
<1>8. AnswerInv'
  BY <1>1 DEF FacadeInv, AnswerInv, PlanBatch, In
<1>9. CloseInv'
  BY <1>1 DEF FacadeInv, CallInv, CloseInv, PlanBatch, In
<1>10. QED
  BY <1>3, <1>4, <1>5, <1>6, <1>7, <1>8, <1>9 DEF FacadeInv

LEMMA IndexBatchKeepsInv ==
  ASSUME FacadeInv, IndexBatch
  PROVE  FacadeInv'
<1> DEFINE ids == IdsOf(call.todo)
<1>1. /\ call.op = "precompute" /\ call.at = "index" /\ call \in Calls /\ call.todo \in Seq(Plan)
      /\ call' = [op |-> "precompute", at |-> "encode", todo |-> call.todo]
      /\ chunks' = chunks /\ rows' = rows \o ids /\ scaffold' = scaffold
      /\ rows \in Seq(ChunkIds) /\ chunks \in Seq(Plan) /\ ~closed /\ ~started
  <2>1. call \in Calls /\ call.op = "precompute" /\ call.at = "index"
    BY DEF IndexBatch, In, FacadeInv, FacadeTypes
  <2>2. call = [op |-> "precompute", at |-> call.at, todo |-> call.todo] /\ call.todo \in Seq(Plan)
    BY <2>1, CallFields
  <2>3. call' = [call EXCEPT !.at = "encode"]
    BY DEF IndexBatch
  <2>4. call' = [op |-> "precompute", at |-> "encode", todo |-> call.todo]
    BY <2>2, <2>3
  <2>5. QED
    BY <2>1, <2>2, <2>4 DEF IndexBatch, FacadeInv, FacadeTypes, CallInv
<1>2. /\ BatchIds = ids /\ BatchIds' = ids /\ ids \in Seq(ChunkIds)
  BY <1>1, IdsOfPlans DEF BatchIds
<1>3. /\ ids # <<>> /\ IsInjective(ids) /\ ToSet(ids) \cap Known = {} /\ scaffold
      /\ Len(rows) + Len(ids) <= MaxRows
      /\ \A i \in DOMAIN call.todo :
           call.todo[i].context = LastItems(IdsOf(chunks) \o SubSeq(ids, 1, i - 1), ContextWindow)
  BY <1>1, <1>2 DEF FacadeInv, BatchInv
<1> HIDE DEF ids
<1>4. /\ rows' \in Seq(ChunkIds) /\ Len(rows') = Len(rows) + Len(ids)
      /\ ToSet(rows') = ToSet(rows) \cup ToSet(ids)
  BY <1>1, <1>2, ConcatProperties, MembersOfConcat
<1>5. FacadeTypes'
  <2>1. call' \in Calls
    BY <1>1 DEF Calls
  <2>2. Len(rows') <= MaxRows
    BY <1>3, <1>4
  <2>3. QED
    BY <1>4, <2>1, <2>2 DEF FacadeInv, FacadeTypes, IndexBatch
<1>6. CallInv'
  BY <1>1 DEF FacadeInv, CallInv, IndexBatch, In
<1>7. BatchInv'
  <2>1. /\ call'.op = "precompute" /\ call'.at = "encode" /\ call'.todo = call.todo /\ Known' = Known
        /\ IdsOf(chunks') = IdsOf(chunks)
    BY <1>1 DEF Known
  <2>2. QED
    BY <1>1, <1>2, <1>3, <1>4, <2>1 DEF BatchInv
<1>8. ChunksInv'
  <2>1. Known' = Known /\ corpus' = corpus /\ closed' = closed /\ cut' = cut
    BY DEF IndexBatch, Known
  <2>2. "encode" \notin cut => rows = IdsOf(chunks)
    BY <1>1 DEF FacadeInv, ChunksInv, In
  <2>3. "encode" \notin cut' => rows' = IdsOf(chunks') \o BatchIds'
    BY <1>1, <1>2, <2>1, <2>2
  <2>4. In("precompute", "encode")'
    BY <1>1 DEF In
  <2>5. IsInjective(IdsOf(chunks)) /\ corpus \subseteq Known /\ Known \subseteq corpus \cap ToSet(rows)
    BY <1>1 DEF FacadeInv, ChunksInv
  <2>6. WindowsFollowChunkOrder'
    BY <1>1 DEF FacadeInv, ChunksInv, WindowsFollowChunkOrder
  <2>7. QED
    BY <1>1, <1>3, <1>4, <2>1, <2>3, <2>4, <2>5, <2>6 DEF ChunksInv
<1>9. ServingInv'
  BY <1>1 DEF FacadeInv, ServingInv, IndexBatch
<1>10. AnswerInv'
  BY <1>1 DEF FacadeInv, AnswerInv, IndexBatch, In
<1>11. CloseInv'
  BY <1>1 DEF FacadeInv, CloseInv, IndexBatch, In
<1>12. QED
  BY <1>5, <1>6, <1>7, <1>8, <1>9, <1>10, <1>11 DEF FacadeInv

LEMMA EncodeChunkKeepsInv ==
  ASSUME FacadeInv, EncodeChunk
  PROVE  FacadeInv'
<1> DEFINE ids == IdsOf(call.todo)
           known == IdsOf(chunks)
           plan == Head(call.todo)
           last == Len(call.todo) = 1
<1>1. /\ call.op = "precompute" /\ call.at = "encode" /\ call \in Calls /\ call.todo \in Seq(Plan)
      /\ call = [op |-> "precompute", at |-> "encode", todo |-> call.todo]
      /\ chunks \in Seq(Plan) /\ ~closed /\ ~started
      /\ encoder = "loaded" /\ ~frozen
  <2>1. call \in Calls /\ call.op = "precompute" /\ call.at = "encode"
    BY DEF EncodeChunk, In, FacadeInv, FacadeTypes
  <2>2. call = [op |-> "precompute", at |-> call.at, todo |-> call.todo] /\ call.todo \in Seq(Plan)
    BY <2>1, CallFields
  <2>3. QED
    BY <2>1, <2>2 DEF EncodeChunk, FacadeInv, FacadeTypes, CallInv
<1>2. /\ chunks' = Append(chunks, plan) /\ corpus' = corpus \cup {plan.id}
      /\ last => call' = Rest
      /\ ~last => call' = [op |-> "precompute", at |-> "encode", todo |-> Tail(call.todo)]
  <2>1. ~last => call' = [call EXCEPT !.todo = Tail(@)]
    BY DEF EncodeChunk
  <2>2. ~last => call' = [op |-> "precompute", at |-> "encode", todo |-> Tail(call.todo)]
    BY <1>1, <2>1
  <2>3. QED
    BY <2>2 DEF EncodeChunk
<1>3. /\ BatchIds = ids /\ ids \in Seq(ChunkIds) /\ known \in Seq(ChunkIds)
      /\ Len(ids) = Len(call.todo) /\ DOMAIN ids = DOMAIN call.todo
      /\ ids = <<>> <=> call.todo = <<>>
  BY <1>1, IdsOfPlans DEF BatchIds
<1>4. /\ ids # <<>> /\ IsInjective(ids) /\ ToSet(ids) \cap Known = {} /\ scaffold
      /\ ToSet(ids) \subseteq ToSet(rows)
      /\ \A i \in DOMAIN call.todo :
           call.todo[i].context = LastItems(known \o SubSeq(ids, 1, i - 1), ContextWindow)
  BY <1>1, <1>3 DEF FacadeInv, BatchInv
<1>5. /\ call.todo # <<>> /\ plan \in Plan /\ Tail(call.todo) \in Seq(Plan)
      /\ plan.id = Head(ids) /\ IdsOf(Tail(call.todo)) = Tail(ids)
      /\ plan = call.todo[1] /\ 1 \in DOMAIN call.todo
      /\ Len(Tail(call.todo)) = Len(call.todo) - 1
      /\ \A i \in 1..Len(call.todo) - 1 : Tail(call.todo)[i] = call.todo[i + 1]
  <2>1. call.todo # <<>>
    BY <1>3, <1>4
  <2>2. Len(call.todo) \in Nat /\ Len(call.todo) > 0 /\ DOMAIN call.todo = 1..Len(call.todo)
    BY <1>1, <2>1, EmptySeq
  <2>3. plan \in Plan /\ Tail(call.todo) \in Seq(Plan) /\ plan.id = Head(ids)
        /\ IdsOf(Tail(call.todo)) = Tail(ids)
    BY <1>1, <2>1, IdsOfTail
  <2>4. plan = call.todo[1] /\ Len(Tail(call.todo)) = Len(call.todo) - 1
        /\ \A i \in 1..Len(call.todo) - 1 : Tail(call.todo)[i] = call.todo[i + 1]
    BY <1>1, <2>1, HeadTailProperties
  <2>5. QED
    BY <2>1, <2>2, <2>3, <2>4
<1>6. /\ chunks' \in Seq(Plan) /\ IdsOf(chunks') = Append(known, plan.id)
      /\ plan.id \in ChunkIds
  BY <1>1, <1>2, <1>5, IdsOfAppend, AppendProperties DEF Plan
<1>7. /\ ToSet(ids) = {plan.id} \cup ToSet(Tail(ids)) /\ plan.id \notin ToSet(Tail(ids))
      /\ IsInjective(Tail(ids)) /\ Tail(ids) \in Seq(ChunkIds) /\ Len(Tail(ids)) = Len(ids) - 1
  <2>1. Tail(ids) \in Seq(ChunkIds) /\ Len(Tail(ids)) = Len(ids) - 1
    BY <1>3, <1>4, HeadTailProperties
  <2>2. ToSet(ids) = {Head(ids)} \cup ToSet(Tail(ids))
    BY <1>3, <1>4, MembersOfTail
  <2>3. IsInjective(Tail(ids)) /\ Head(ids) \notin ToSet(Tail(ids))
    BY <1>3, <1>4, MembersOfTail
  <2>4. QED
    BY <1>5, <2>1, <2>2, <2>3
<1>8. Known' = Known \cup {plan.id} /\ plan.id \notin Known /\ IsInjective(IdsOf(chunks'))
  <2>1. IsInjective(known)
    BY DEF FacadeInv, ChunksInv
  <2>2. plan.id \notin ToSet(known)
    BY <1>4, <1>7 DEF Known
  <2>3. /\ ToSet(Append(known, plan.id)) = ToSet(known) \cup {plan.id}
        /\ IsInjective(Append(known, plan.id))
    BY <1>3, <1>6, <2>1, <2>2, MembersOfAppend
  <2>4. QED
    BY <1>6, <2>2, <2>3 DEF Known
<1>9. ~last => Tail(ids) # <<>> /\ call'.op = "precompute" /\ call'.at = "encode"
               /\ call'.todo = Tail(call.todo) /\ BatchIds' = Tail(ids)
  <2> SUFFICES ASSUME ~last
               PROVE  /\ Tail(ids) # <<>> /\ call'.op = "precompute" /\ call'.at = "encode"
                      /\ call'.todo = Tail(call.todo) /\ BatchIds' = Tail(ids)
    OBVIOUS
  <2>1. Tail(ids) # <<>>
    <3>1. Len(ids) \in Nat /\ Len(ids) # 1
      BY <1>3
    <3>2. Len(Tail(ids)) # 0
      BY <1>7, <3>1
    <3> HIDE DEF ids
    <3>3. QED
      BY <1>7, <3>2, EmptySeq
  <2>2. call' = [op |-> "precompute", at |-> "encode", todo |-> Tail(call.todo)]
    BY <1>2
  <2> HIDE DEF ids
  <2>3. call'.op = "precompute" /\ call'.at = "encode" /\ call'.todo = Tail(call.todo)
    BY <2>2
  <2>4. BatchIds' = Tail(ids)
    BY <1>5, <2>3 DEF BatchIds
  <2>5. QED
    BY <2>1, <2>3, <2>4
<1>10. last => call'.op = "none" /\ call' \in Calls
  BY <1>2 DEF Rest, Calls
<1> HIDE DEF ids, known, plan, last
<1>11. FacadeTypes'
  <2>1. call' \in Calls
    <3>1. CASE last
      BY <1>10, <3>1
    <3>2. CASE ~last
      <4> DEFINE rest == Tail(call.todo)
      <4>1. rest \in Seq(Plan)
        BY <1>5
      <4>2. call' = [op |-> "precompute", at |-> "encode", todo |-> rest]
        BY <1>2, <3>2
      <4> HIDE DEF rest
      <4>3. QED
        BY <4>1, <4>2 DEF Calls
    <3>3. QED
      BY <3>1, <3>2
  <2>2. QED
    BY <1>2, <1>6, <2>1 DEF FacadeInv, FacadeTypes, EncodeChunk
<1>12. CallInv'
  BY <1>1, <1>9, <1>10 DEF CallInv, EncodeChunk, In
<1>13. BatchInv'
  <2>1. CASE last
    BY <1>10, <2>1 DEF BatchInv
  <2>2. CASE ~last
    <3>1. ASSUME NEW i \in DOMAIN call'.todo
          PROVE  call'.todo[i].context =
                   LastItems(IdsOf(chunks') \o SubSeq(BatchIds', 1, i - 1), ContextWindow)
      <4>1. Len(call.todo) \in Nat /\ DOMAIN call.todo = 1..Len(call.todo)
        BY <1>1
      <4>2. i \in 1..Len(call.todo) - 1 /\ i + 1 \in DOMAIN call.todo /\ i - 1 \in 0..Len(ids) - 1
            /\ i + 1 - 1 = i /\ i - 1 + 1 = i
        <5>1. call'.todo \in Seq(Plan) /\ Len(call'.todo) = Len(call.todo) - 1
          BY <1>5, <1>9, <2>2
        <5>2. i \in 1..Len(call.todo) - 1
          BY <5>1
        <5>3. QED
          BY <1>3, <4>1, <5>2
      <4>3. call'.todo[i] = call.todo[i + 1]
        BY <1>5, <1>9, <2>2, <4>2
      <4>4. call.todo[i + 1].context = LastItems(known \o SubSeq(ids, 1, i), ContextWindow)
        <5>1. call.todo[i + 1].context
                = LastItems(known \o SubSeq(ids, 1, i + 1 - 1), ContextWindow)
          BY <1>4, <4>2
        <5>2. QED
          BY <4>2, <5>1
      <4>5. Append(known, Head(ids)) \o SubSeq(Tail(ids), 1, i - 1) = known \o SubSeq(ids, 1, i)
        <5>1. Append(known, Head(ids)) \o SubSeq(Tail(ids), 1, i - 1)
                = known \o SubSeq(ids, 1, i - 1 + 1)
          BY <1>3, <1>4, <4>2, ShiftSome
        <5>2. QED
          BY <4>2, <5>1
      <4>6. IdsOf(chunks') = Append(known, Head(ids)) /\ BatchIds' = Tail(ids)
        BY <1>5, <1>6, <1>9, <2>2
      <4>7. QED
        BY <4>3, <4>4, <4>5, <4>6
    <3>2. ToSet(BatchIds') \cap Known' = {} /\ ToSet(BatchIds') \subseteq ToSet(rows')
      BY <1>4, <1>7, <1>8, <1>9, <2>2 DEF EncodeChunk
    <3>3. BatchIds' # <<>> /\ IsInjective(BatchIds') /\ scaffold'
      BY <1>4, <1>7, <1>9, <2>2 DEF EncodeChunk
    <3>4. QED
      BY <1>9, <2>2, <3>1, <3>2, <3>3 DEF BatchInv
  <2>3. QED
    BY <2>1, <2>2
<1>14. ChunksInv'
  <2>1. corpus' \subseteq Known' /\ (~closed' => Known' \subseteq corpus' \cap ToSet(rows'))
    <3>1. corpus \subseteq Known /\ Known \subseteq corpus \cap ToSet(rows)
      BY <1>1 DEF FacadeInv, ChunksInv
    <3>2. plan.id \in ToSet(rows) /\ rows' = rows
      BY <1>4, <1>7 DEF EncodeChunk
    <3>3. QED
      BY <1>2, <1>8, <3>1, <3>2
  <2>2. WindowsFollowChunkOrder'
    <3> SUFFICES ASSUME NEW i \in DOMAIN chunks'
                 PROVE  chunks'[i].context =
                          LastItems(IdsOf(SubSeq(chunks', 1, i - 1)), ContextWindow)
      BY DEF WindowsFollowChunkOrder
    <3>1. /\ Len(chunks) \in Nat /\ Len(chunks') = Len(chunks) + 1 /\ i \in 1..Len(chunks) + 1
          /\ chunks'[Len(chunks) + 1] = plan
          /\ \A j \in 1..Len(chunks) : chunks'[j] = chunks[j]
      <4>1. /\ Len(chunks) \in Nat /\ Len(chunks') = Len(chunks) + 1
            /\ chunks'[Len(chunks) + 1] = plan
            /\ \A j \in 1..Len(chunks) : chunks'[j] = chunks[j]
        BY <1>1, <1>2, <1>5, AppendProperties DEF plan
      <4>2. i \in 1..Len(chunks')
        BY <1>6
      <4>3. QED
        BY <4>1, <4>2
    <3>2. IdsOf(SubSeq(chunks', 1, i - 1)) = SubSeq(IdsOf(chunks'), 1, i - 1)
      <4>1. i - 1 \in 0..Len(chunks')
        BY <3>1
      <4> DEFINE s == chunks'
                 k == i - 1
      <4>2. s \in Seq(Plan) /\ k \in 0..Len(s)
        BY <1>6, <4>1
      <4> HIDE DEF s, k
      <4>3. IdsOf(SubSeq(s, 1, k)) = SubSeq(IdsOf(s), 1, k)
        BY <4>2, IdsOfPrefix
      <4>4. QED
        BY <4>3 DEF s, k
    <3>3. Len(known) = Len(chunks) /\ SubSeq(Append(known, plan.id), 1, i - 1) = SubSeq(known, 1, i - 1)
      <4>1. Len(known) = Len(chunks)
        BY <1>1, IdsOfPlans DEF known
      <4>2. i - 1 \in 0..Len(known)
        BY <3>1, <4>1
      <4>3. QED
        BY <1>3, <1>6, <4>1, <4>2
    <3>4. CASE i = Len(chunks) + 1
      <4>1. SubSeq(known, 1, i - 1) = known
        BY <1>3, <3>1, <3>3, <3>4
      <4>2. plan.context = LastItems(known \o SubSeq(ids, 1, 0), ContextWindow)
        <5>1. call.todo[1].context = LastItems(known \o SubSeq(ids, 1, 1 - 1), ContextWindow)
          BY <1>4, <1>5
        <5>2. QED
          BY <1>5, <5>1
      <4>3. known \o SubSeq(ids, 1, 0) = known
        <5>1. SubSeq(ids, 1, 0) = <<>>
          BY <1>3, SubSeqEmpty
        <5>2. QED
          BY <1>3, <5>1, ConcatEmptySeq
      <4>4. QED
        BY <1>6, <3>1, <3>2, <3>3, <3>4, <4>1, <4>2, <4>3
    <3>5. CASE i # Len(chunks) + 1
      <4>1. i \in 1..Len(chunks) /\ DOMAIN chunks = 1..Len(chunks) /\ i - 1 \in 0..Len(chunks)
        BY <1>1, <3>1, <3>5
      <4>2. chunks[i].context = LastItems(IdsOf(SubSeq(chunks, 1, i - 1)), ContextWindow)
        BY <4>1 DEF FacadeInv, ChunksInv, WindowsFollowChunkOrder
      <4>3. IdsOf(SubSeq(chunks, 1, i - 1)) = SubSeq(known, 1, i - 1)
        BY <1>1, <4>1, IdsOfPrefix DEF known
      <4>4. QED
        BY <1>6, <3>1, <3>2, <3>3, <4>1, <4>2, <4>3
    <3>6. QED
      BY <3>4, <3>5
  <2>3. "encode" \notin cut' =>
          rows' = IF In("precompute", "encode")' THEN IdsOf(chunks') \o BatchIds' ELSE IdsOf(chunks')
    <3> SUFFICES ASSUME "encode" \notin cut
                 PROVE  rows = IF In("precompute", "encode")' THEN IdsOf(chunks') \o BatchIds'
                               ELSE IdsOf(chunks')
      BY DEF EncodeChunk
    <3>1. rows = known \o ids
      BY <1>1, <1>3 DEF FacadeInv, ChunksInv, In, known
    <3>2. Append(known, Head(ids)) \o Tail(ids) = known \o ids
      BY <1>3, <1>4, ShiftAll
    <3>3. CASE last
      <4>1. Len(Tail(ids)) = 0
        BY <1>3, <1>7, <3>3 DEF last
      <4>2. Tail(ids) = <<>>
        BY <1>7, <4>1, EmptySeq
      <4> DEFINE a == Append(known, Head(ids))
      <4>3. a \in Seq(ChunkIds)
        BY <1>3, <1>5, <1>6, AppendProperties
      <4> HIDE DEF a
      <4>4. a \o <<>> = a
        BY <4>3, ConcatEmptySeq
      <4>5. rows = a
        BY <3>1, <3>2, <4>2, <4>4 DEF a
      <4>6. QED
        BY <1>5, <1>6, <1>10, <3>3, <4>5 DEF In, a
    <3>4. CASE ~last
      BY <1>5, <1>6, <1>9, <3>1, <3>2, <3>4 DEF In
    <3>5. QED
      BY <3>3, <3>4
  <2>4. scaffold'
    BY <1>4 DEF EncodeChunk
  <2>5. QED
    BY <1>8, <2>1, <2>2, <2>3, <2>4 DEF ChunksInv
<1>15. ServingInv'
  BY <1>1 DEF ServingInv, EncodeChunk
<1>16. AnswerInv'
  BY <1>1, <1>9, <1>10 DEF FacadeInv, AnswerInv, EncodeChunk, In
<1>17. CloseInv'
  BY <1>1, <1>2 DEF FacadeInv, CloseInv, EncodeChunk
<1>18. QED
  BY <1>11, <1>12, <1>13, <1>14, <1>15, <1>16, <1>17 DEF FacadeInv

LEMMA PrecomputeRaisesKeepsInv ==
  ASSUME FacadeInv, PrecomputeRaises
  PROVE  FacadeInv'
<1>1. /\ call.op = "precompute" /\ call' = Rest /\ call'.op = "none" /\ ~closed /\ ~started
      /\ call' \in Calls
  BY DEF PrecomputeRaises, Rest, FacadeInv, CallInv, Calls
<1>2. FacadeTypes'
  BY <1>1 DEF FacadeInv, FacadeTypes, PrecomputeRaises
<1>3. CallInv' /\ BatchInv' /\ ServingInv'
  BY <1>1 DEF CallInv, BatchInv, ServingInv, PrecomputeRaises, In
<1>4. ChunksInv'
  <2>1. "encode" \notin cut' => rows' = IdsOf(chunks')
    BY <1>1 DEF FacadeInv, ChunksInv, PrecomputeRaises, In
  <2>2. Known' = Known /\ (WindowsFollowChunkOrder <=> WindowsFollowChunkOrder')
    BY DEF PrecomputeRaises, Known, WindowsFollowChunkOrder
  <2>3. QED
    BY <1>1, <2>1, <2>2 DEF FacadeInv, ChunksInv, PrecomputeRaises, In
<1>5. AnswerInv' /\ CloseInv'
  BY <1>1 DEF FacadeInv, AnswerInv, CloseInv, PrecomputeRaises, In
<1>6. QED
  BY <1>2, <1>3, <1>4, <1>5 DEF FacadeInv

(* start.                                                                  *)

LEMMA StartKeepsInv ==
  ASSUME FacadeInv, Start
  PROVE  FacadeInv'
<1>1. /\ call.op = "none" /\ ~closed /\ ~started /\ chunks # <<>>
      /\ call' = [op |-> "start", at |-> "corpus"] /\ call' \in Calls
      /\ encoder' = "released"
  BY DEF Start, AtRest, Rest, Calls
<1>2. FacadeTypes'
  BY <1>1 DEF FacadeInv, FacadeTypes, Start
<1>3. CallInv' /\ BatchInv' /\ ServingInv'
  BY <1>1 DEF CallInv, BatchInv, ServingInv, Start, In
<1>4. ChunksInv'
  BY <1>1 DEF FacadeInv, ChunksInv, Start, In, Known, WindowsFollowChunkOrder
<1>5. AnswerInv' /\ CloseInv'
  BY <1>1 DEF FacadeInv, AnswerInv, CloseInv, Start, In
<1>6. QED
  BY <1>2, <1>3, <1>4, <1>5 DEF FacadeInv

(* A step of a start under way goes on from what the steps before it left. *)
LEMMA StartStepsKeepInv ==
  ASSUME FacadeInv, FinalizeCorpus \/ FinalizeIndex
  PROVE  FacadeInv'
<1>1. /\ call.op = "start" /\ ~closed /\ ~started /\ chunks # <<>> /\ encoder = "released"
      /\ call \in Calls
  BY DEF FinalizeCorpus, FinalizeIndex, In, FacadeInv, CallInv, FacadeTypes
<1>2. /\ FinalizeCorpus => call' = [op |-> "start", at |-> "index"]
      /\ FinalizeIndex => call' = [op |-> "start", at |-> "engine"] /\ call.at = "index"
  <2>1. call = [op |-> "start", at |-> call.at]
    BY <1>1, CallFields
  <2>2. QED
    BY <2>1 DEF FinalizeCorpus, FinalizeIndex, In
<1>3. call'.op = "start" /\ call' \in Calls
  BY <1>2 DEF Calls
<1>4. FacadeTypes'
  <2>1. setup.pins \in BOOLEAN
    BY FacadeAssumption DEF FacadeInv, FacadeTypes
  <2>2. QED
    BY <1>3, <2>1 DEF FacadeInv, FacadeTypes, FinalizeCorpus, FinalizeIndex
<1>5. CallInv'
  <2>1. CASE FinalizeCorpus
    BY <1>1, <1>2, <2>1 DEF CallInv, FinalizeCorpus, In
  <2>2. CASE FinalizeIndex
    BY <1>1, <1>2, <2>2 DEF FacadeInv, CallInv, FinalizeIndex, In
  <2>3. QED
    BY <2>1, <2>2
<1>6. BatchInv' /\ ServingInv'
  BY <1>1, <1>3 DEF BatchInv, ServingInv, FinalizeCorpus, FinalizeIndex
<1>7. ChunksInv'
  BY <1>1, <1>3 DEF FacadeInv, ChunksInv, FinalizeCorpus, FinalizeIndex, In, Known,
                    WindowsFollowChunkOrder
<1>8. AnswerInv' /\ CloseInv'
  BY <1>1, <1>3 DEF FacadeInv, AnswerInv, CloseInv, FinalizeCorpus, FinalizeIndex, In
<1>9. QED
  BY <1>4, <1>5, <1>6, <1>7, <1>8 DEF FacadeInv

LEMMA StartEndsKeepInv ==
  ASSUME FacadeInv, StartEngine \/ StartRaises
  PROVE  FacadeInv'
<1>1. /\ call.op = "start" /\ ~closed /\ ~started /\ chunks # <<>> /\ encoder = "released"
      /\ StartEngine => indexReady /\ frozen = ~setup.pins
  BY DEF StartEngine, StartRaises, In, FacadeInv, CallInv
<1>2. call' = Rest /\ call'.op = "none" /\ call' \in Calls
  BY DEF StartEngine, StartRaises, Rest, Calls
<1>3. FacadeTypes'
  <2>1. frozen' \in BOOLEAN
    BY DEF FacadeInv, FacadeTypes, StartEngine, StartRaises
  <2>2. QED
    BY <1>2, <2>1 DEF FacadeInv, FacadeTypes, StartEngine, StartRaises
<1>4. CallInv' /\ BatchInv'
  BY <1>1, <1>2 DEF CallInv, BatchInv, StartEngine, StartRaises, In
<1>5. ServingInv'
  BY <1>1 DEF ServingInv, StartEngine, StartRaises
<1>6. ChunksInv'
  BY <1>1, <1>2 DEF FacadeInv, ChunksInv, StartEngine, StartRaises, In, Known,
                    WindowsFollowChunkOrder
<1>7. AnswerInv' /\ CloseInv'
  BY <1>1, <1>2 DEF FacadeInv, AnswerInv, CloseInv, StartEngine, StartRaises, In
<1>8. QED
  BY <1>3, <1>4, <1>5, <1>6, <1>7 DEF FacadeInv

(* answer.                                                                 *)

LEMMA AnswerKeepsInv ==
  ASSUME FacadeInv, NEW hits \in HitLists, Answer(hits)
  PROVE  FacadeInv'
<1>1. /\ call.op = "none" /\ started /\ ~closed
      /\ call' = [op |-> "answer", at |-> "fetch", ids |-> ReverseRankedIds(hits)]
  BY DEF Answer, AtRest, Rest
<1>2. hits \in Seq(ChunkIds)
  <2>1. rows \in Seq(ChunkIds) /\ TopK \in Nat
    BY FacadeAssumption DEF FacadeInv, FacadeTypes
  <2>2. PICK s \in SeqOf(DOMAIN rows, TopK) : hits = [i \in DOMAIN s |-> rows[s[i]]]
    BY DEF HitLists
  <2>3. s \in Seq(DOMAIN rows)
    BY <2>1, SeqOfIsSeq
  <2>4. DOMAIN s = 1..Len(s) /\ Len(s) \in Nat /\ \A i \in 1..Len(s) : s[i] \in DOMAIN rows
    BY <2>3, ElementOfSeq
  <2>5. \A i \in DOMAIN rows : rows[i] \in ChunkIds
    BY <2>1, ElementOfSeq
  <2>6. QED
    BY <2>2, <2>4, <2>5
<1>3. ReverseRankedIds(hits) \in Seq(ChunkIds) /\ IsInjective(ReverseRankedIds(hits))
  BY <1>2, UniqueIdsAreHits
<1>4. FacadeTypes'
  <2>1. call' \in Calls
    BY <1>1, <1>3 DEF Calls
  <2>2. QED
    BY <2>1 DEF FacadeInv, FacadeTypes, Answer
<1>5. CallInv' /\ BatchInv' /\ ServingInv'
  BY <1>1 DEF FacadeInv, CallInv, BatchInv, ServingInv, Answer, In
<1>6. ChunksInv'
  BY <1>1 DEF FacadeInv, ChunksInv, Answer, In, Known, WindowsFollowChunkOrder
<1>7. AnswerInv'
  BY <1>1, <1>3 DEF FacadeInv, AnswerInv, Answer, In
<1>8. CloseInv'
  BY <1>1 DEF FacadeInv, CloseInv, Answer, In
<1>9. QED
  BY <1>4, <1>5, <1>6, <1>7, <1>8 DEF FacadeInv

(* What an answer stages of its ids is in the corpus: it stages nothing    *)
(* unless all of them are.                                                 *)
LEMMA StagingStaysInCorpus ==
  ASSUME FacadeInv, FetchMemoryParts \/ FetchRaises
  PROVE  staged' \subseteq corpus
<1>1. staged \subseteq corpus /\ corpus \subseteq ChunkIds
  BY DEF FacadeInv, CloseInv, FacadeTypes
<1>2. CASE FetchMemoryParts
  BY <1>1, <1>2 DEF FetchMemoryParts, Stage
<1>3. CASE FetchRaises
  <2>1. call.ids \in Seq(ChunkIds)
    BY <1>3, CallFields DEF FetchRaises, In, FacadeInv, FacadeTypes
  <2>2. PICK n \in 0..Len(call.ids) :
          /\ ToSet(call.ids) \subseteq corpus \/ n = 0
          /\ Stage({call.ids[i] : i \in 1..n})
    BY <1>3 DEF FetchRaises
  <2>3. Len(call.ids) \in Nat /\ DOMAIN call.ids = 1..Len(call.ids)
    BY <2>1
  <2>4. {call.ids[i] : i \in 1..n} \subseteq ToSet(call.ids)
    BY <2>3 DEF ToSet
  <2>5. n = 0 => {call.ids[i] : i \in 1..n} = {}
    OBVIOUS
  <2>6. {call.ids[i] : i \in 1..n} \subseteq corpus
    BY <2>2, <2>4, <2>5
  <2>7. QED
    BY <1>1, <2>2, <2>6 DEF Stage
<1>4. QED
  BY <1>2, <1>3

LEMMA FetchKeepsInv ==
  ASSUME FacadeInv, FetchMemoryParts \/ FetchRaises
  PROVE  FacadeInv'
<1>1. /\ call.op = "answer" /\ call.at = "fetch" /\ ~closed /\ started /\ call \in Calls
      /\ IsInjective(call.ids) /\ call.ids \in Seq(ChunkIds)
      /\ call = [op |-> "answer", at |-> "fetch", ids |-> call.ids]
  <2>1. call.op = "answer" /\ call.at = "fetch" /\ call \in Calls
    BY DEF FetchMemoryParts, FetchRaises, In, FacadeInv, FacadeTypes
  <2>2. call.ids \in Seq(ChunkIds) /\ call = [op |-> "answer", at |-> call.at, ids |-> call.ids]
    BY <2>1, CallFields
  <2>3. QED
    BY <2>1, <2>2 DEF FacadeInv, CallInv, AnswerInv
<1>2. staged' \subseteq corpus
  BY StagingStaysInCorpus
<1>3. /\ FetchMemoryParts => /\ call' = [op |-> "answer", at |-> "compose", ids |-> call.ids]
                            /\ ToSet(call.ids) \subseteq corpus
      /\ FetchRaises => call' = Rest
  <2>1. FetchMemoryParts => call' = [call EXCEPT !.at = "compose"]
    BY DEF FetchMemoryParts
  <2>2. FetchMemoryParts => call' = [op |-> "answer", at |-> "compose", ids |-> call.ids]
    BY <1>1, <2>1
  <2>3. QED
    BY <2>2 DEF FetchMemoryParts, FetchRaises
<1>4. /\ call' \in Calls
      /\ \/ call'.op = "answer" /\ call'.at = "compose" /\ call'.ids = call.ids
            /\ ToSet(call.ids) \subseteq corpus
         \/ call'.op = "none"
  BY <1>1, <1>3 DEF Rest, Calls
<1>5. /\ setup' = setup /\ closed' = closed /\ started' = started /\ encoder' = encoder
      /\ scaffold' = scaffold /\ rows' = rows /\ indexReady' = indexReady /\ chunks' = chunks
      /\ corpus' = corpus /\ frozen' = frozen /\ engine' = engine /\ inFlight' = inFlight
      /\ cut' = cut
  BY DEF FetchMemoryParts, FetchRaises
<1>6. FacadeTypes'
  <2>1. staged' \subseteq ChunkIds
    BY <1>2 DEF FacadeInv, FacadeTypes
  <2>2. QED
    BY <1>4, <1>5, <2>1 DEF FacadeInv, FacadeTypes
<1>7. CallInv' /\ BatchInv' /\ ServingInv'
  BY <1>1, <1>4, <1>5 DEF FacadeInv, CallInv, BatchInv, ServingInv, In
<1>8. ChunksInv'
  BY <1>1, <1>4, <1>5 DEF FacadeInv, ChunksInv, In, Known, WindowsFollowChunkOrder
<1>9. AnswerInv'
  BY <1>1, <1>4, <1>5 DEF FacadeInv, AnswerInv, In
<1>10. CloseInv'
  BY <1>1, <1>2, <1>5 DEF CloseInv
<1>11. QED
  BY <1>6, <1>7, <1>8, <1>9, <1>10 DEF FacadeInv

LEMMA ComposeKeepsInv ==
  ASSUME FacadeInv, ComposeMemory
  PROVE  FacadeInv'
<1>1. /\ call.op = "answer" /\ call.at = "compose" /\ ~closed /\ started /\ call \in Calls
      /\ IsInjective(call.ids) /\ call.ids \in Seq(ChunkIds)
      /\ ToSet(call.ids) \subseteq corpus
      /\ call = [op |-> "answer", at |-> "compose", ids |-> call.ids]
  <2>1. call.op = "answer" /\ call.at = "compose" /\ call \in Calls
    BY DEF ComposeMemory, In, FacadeInv, FacadeTypes
  <2>2. call.ids \in Seq(ChunkIds) /\ call = [op |-> "answer", at |-> call.at, ids |-> call.ids]
    BY <2>1, CallFields
  <2>3. QED
    BY <2>1, <2>2 DEF FacadeInv, CallInv, AnswerInv
<1>2. call' = [op |-> "answer", at |-> "register", ids |-> call.ids] \/ call' = Rest
  <2>1. call' = [call EXCEPT !.at = "register"] \/ call' = Rest
    BY DEF ComposeMemory
  <2>2. QED
    BY <1>1, <2>1
<1>3. /\ call' \in Calls
      /\ \/ call'.op = "answer" /\ call'.at = "register" /\ call'.ids = call.ids
         \/ call'.op = "none"
  BY <1>1, <1>2 DEF Rest, Calls
<1>4. /\ setup' = setup /\ closed' = closed /\ started' = started /\ encoder' = encoder
      /\ scaffold' = scaffold /\ rows' = rows /\ indexReady' = indexReady /\ chunks' = chunks
      /\ corpus' = corpus /\ frozen' = frozen /\ engine' = engine /\ inFlight' = inFlight
      /\ cut' = cut /\ staged' = staged \ ToSet(call.ids)
  BY DEF ComposeMemory
<1>5. FacadeTypes'
  BY <1>3, <1>4 DEF FacadeInv, FacadeTypes
<1>6. CallInv' /\ BatchInv' /\ ServingInv'
  BY <1>1, <1>3, <1>4 DEF FacadeInv, CallInv, BatchInv, ServingInv, In
<1>7. ChunksInv'
  BY <1>1, <1>3, <1>4 DEF FacadeInv, ChunksInv, In, Known, WindowsFollowChunkOrder
<1>8. AnswerInv'
  <2>1. inFlight = NoMemory
    BY <1>1 DEF FacadeInv, AnswerInv, In
  <2>2. QED
    BY <1>1, <1>3, <1>4, <2>1 DEF AnswerInv, In
<1>9. CloseInv'
  BY <1>1, <1>4 DEF FacadeInv, CloseInv
<1>10. QED
  BY <1>5, <1>6, <1>7, <1>8, <1>9 DEF FacadeInv

LEMMA MemoryKeepsInv ==
  ASSUME FacadeInv, RegisterMemory \/ Generate
  PROVE  FacadeInv'
<1>1. /\ call.op = "answer" /\ ~closed /\ started /\ call \in Calls
      /\ RegisterMemory => call.at = "register"
      /\ Generate => call.at = "generate"
      /\ IsInjective(call.ids) /\ ToSet(call.ids) \subseteq corpus
      /\ staged \cap ToSet(call.ids) = {}
      /\ call.ids \in Seq(ChunkIds) /\ call = [op |-> "answer", at |-> call.at, ids |-> call.ids]
  <2>1. /\ call.op = "answer" /\ call \in Calls
        /\ RegisterMemory => call.at = "register"
        /\ Generate => call.at = "generate"
    BY DEF RegisterMemory, Generate, In, FacadeInv, FacadeTypes
  <2>2. call.ids \in Seq(ChunkIds) /\ call = [op |-> "answer", at |-> call.at, ids |-> call.ids]
    BY <2>1, CallFields
  <2>3. QED
    BY <2>1, <2>2 DEF FacadeInv, CallInv, AnswerInv, In
<1>2. /\ RegisterMemory => call' = [op |-> "answer", at |-> "generate", ids |-> call.ids]
      /\ Generate => call' = Rest
  <2>1. RegisterMemory => call' = [call EXCEPT !.at = "generate"]
    BY DEF RegisterMemory
  <2>2. QED
    BY <1>1, <2>1 DEF Generate
<1>3. /\ call' \in Calls
      /\ RegisterMemory => /\ call'.op = "answer" /\ call'.at = "generate" /\ call'.ids = call.ids
                          /\ inFlight' = MemoryParts(call.ids)
      /\ Generate => call'.op = "none" /\ inFlight' = NoMemory
  <2>1. CASE RegisterMemory
    <3>1. call' = [op |-> "answer", at |-> "generate", ids |-> call.ids]
      BY <1>2, <2>1
    <3>2. inFlight' = MemoryParts(call.ids) /\ call.at = "register"
      BY <1>1, <2>1 DEF RegisterMemory
    <3>3. call' \in Calls /\ call'.op = "answer" /\ call'.at = "generate" /\ call'.ids = call.ids
      BY <1>1, <3>1 DEF Calls
    <3>4. ~Generate
      BY <1>1, <3>2
    <3>5. QED
      BY <3>2, <3>3, <3>4
  <2>2. CASE Generate
    <3>1. call' = Rest /\ inFlight' = NoMemory /\ call.at = "generate"
      BY <1>1, <1>2, <2>2 DEF Generate
    <3>2. call' \in Calls /\ call'.op = "none"
      BY <3>1 DEF Rest, Calls
    <3>3. ~RegisterMemory
      BY <1>1, <3>1
    <3>4. QED
      BY <3>1, <3>2, <3>3
  <2>3. QED
    BY <2>1, <2>2
<1>4. /\ setup' = setup /\ closed' = closed /\ started' = started /\ encoder' = encoder
      /\ scaffold' = scaffold /\ rows' = rows /\ indexReady' = indexReady /\ chunks' = chunks
      /\ corpus' = corpus /\ frozen' = frozen /\ engine' = engine /\ staged' = staged
      /\ cut' = cut
  BY DEF RegisterMemory, Generate
<1>5. FacadeTypes'
  BY <1>3, <1>4 DEF FacadeInv, FacadeTypes
<1>6. CallInv' /\ BatchInv' /\ ServingInv'
  BY <1>1, <1>3, <1>4 DEF FacadeInv, CallInv, BatchInv, ServingInv, In
<1>7. ChunksInv'
  BY <1>1, <1>3, <1>4 DEF FacadeInv, ChunksInv, In, Known, WindowsFollowChunkOrder
<1>8. AnswerInv'
  <2>1. CASE RegisterMemory
    BY <1>1, <1>3, <1>4, <2>1 DEF AnswerInv, In
  <2>2. CASE Generate
    BY <1>3, <2>2 DEF AnswerInv, In
  <2>3. QED
    BY <2>1, <2>2
<1>9. CloseInv'
  BY <1>1, <1>4 DEF FacadeInv, CloseInv
<1>10. QED
  BY <1>5, <1>6, <1>7, <1>8, <1>9 DEF FacadeInv

(* close.                                                                  *)

LEMMA CloseKeepsInv ==
  ASSUME FacadeInv, Close
  PROVE  FacadeInv'
<1>1. /\ call.op = "none" /\ ~closed /\ closed' = TRUE
      /\ call' = [op |-> "close", at |-> "engine"] /\ call' \in Calls
  BY DEF Close, AtRest, Rest, Calls
<1>2. FacadeTypes'
  BY <1>1 DEF FacadeInv, FacadeTypes, Close
<1>3. CallInv' /\ BatchInv' /\ ServingInv'
  BY <1>1 DEF CallInv, BatchInv, ServingInv, Close, In
<1>4. ChunksInv'
  BY <1>1 DEF FacadeInv, ChunksInv, Close, In, Known, WindowsFollowChunkOrder
<1>5. AnswerInv' /\ CloseInv'
  BY <1>1 DEF FacadeInv, AnswerInv, CloseInv, Close, In
<1>6. QED
  BY <1>2, <1>3, <1>4, <1>5 DEF FacadeInv

LEMMA CloseStepsKeepInv ==
  ASSUME FacadeInv,
         CloseEngine \/ CloseEncoder \/ CloseCorpus \/ CloseIndex \/ CloseRaises
  PROVE  FacadeInv'
<1>1. call.op = "close" /\ closed /\ call \in Calls /\ call = [op |-> "close", at |-> call.at]
  <2>1. call.op = "close" /\ call \in Calls
    BY DEF CloseEngine, CloseEncoder, CloseCorpus, CloseIndex, CloseRaises, In, FacadeInv,
           FacadeTypes
  <2>2. QED
    BY <2>1, CallFields DEF FacadeInv, CallInv
<1>2. /\ CloseEngine => call.at = "engine" /\ call' = [op |-> "close", at |-> "encoder"]
      /\ CloseEncoder => call.at = "encoder" /\ call' = [op |-> "close", at |-> "corpus"]
      /\ CloseCorpus => call.at = "corpus" /\ call' = [op |-> "close", at |-> "index"]
      /\ CloseIndex => call.at = "index" /\ call' = Rest
      /\ CloseRaises => call' = Rest
  BY <1>1 DEF CloseEngine, CloseEncoder, CloseCorpus, CloseIndex, CloseRaises, In
<1>3. call' \in Calls /\ call'.op \in {"close", "none"}
  BY <1>2 DEF Rest, Calls
<1>4. /\ setup' = setup /\ closed' = closed /\ started' = started /\ rows' = rows
      /\ chunks' = chunks /\ frozen' = frozen /\ inFlight' = inFlight
      /\ staged' \subseteq staged /\ corpus' \subseteq corpus /\ cut \subseteq cut'
      /\ "encode" \in cut' => "encode" \in cut
  BY DEF CloseEngine, CloseEncoder, CloseCorpus, CloseIndex, CloseRaises
<1>5. FacadeTypes'
  BY <1>3 DEF FacadeInv, FacadeTypes, CloseEngine, CloseEncoder, CloseCorpus, CloseIndex,
              CloseRaises
<1>6. CallInv' /\ BatchInv' /\ ServingInv'
  BY <1>1, <1>3, <1>4 DEF CallInv, BatchInv, ServingInv, In
<1>7. ChunksInv'
  BY <1>1, <1>3, <1>4 DEF FacadeInv, ChunksInv, In, Known, WindowsFollowChunkOrder
<1>8. AnswerInv'
  BY <1>1, <1>3, <1>4 DEF FacadeInv, AnswerInv, In
<1>9. CloseInv'
  <2>1. staged \subseteq corpus
    BY DEF FacadeInv, CloseInv
  <2>2. /\ "close" \notin cut /\ call.at # "engine" => ~engine
        /\ "close" \notin cut /\ call.at = "index" => corpus = {} /\ ~scaffold
    BY <1>1 DEF FacadeInv, CloseInv
  <2>3. CASE CloseEngine
    BY <1>2, <2>1, <2>3 DEF CloseInv, CloseEngine
  <2>4. CASE CloseEncoder
    BY <1>2, <2>1, <2>2, <2>4 DEF CloseInv, CloseEncoder
  <2>5. CASE CloseCorpus
    BY <1>2, <2>1, <2>2, <2>5 DEF CloseInv, CloseCorpus
  <2>6. CASE CloseIndex
    BY <1>2, <2>1, <2>2, <2>6 DEF CloseInv, CloseIndex
  <2>7. CASE CloseRaises
    BY <2>1, <2>7 DEF CloseInv, CloseRaises
  <2>8. QED
    BY <2>3, <2>4, <2>5, <2>6, <2>7
<1>10. QED
  BY <1>5, <1>6, <1>7, <1>8, <1>9 DEF FacadeInv

-----------------------------------------------------------------------------
LEMMA IdleKeepsInv ==
  ASSUME FacadeInv, UNCHANGED vars
  PROVE  FacadeInv'
<1>1. FacadeTypes' /\ CallInv' /\ ServingInv'
  BY DEF FacadeInv, vars, FacadeTypes, CallInv, ServingInv, In
<1>2. BatchInv'
  BY DEF FacadeInv, vars, BatchInv, BatchIds, Known
<1>3. ChunksInv'
  BY DEF FacadeInv, vars, ChunksInv, In, Known, BatchIds, WindowsFollowChunkOrder
<1>4. AnswerInv' /\ CloseInv'
  BY DEF FacadeInv, vars, AnswerInv, CloseInv, In
<1>5. QED
  BY <1>1, <1>2, <1>3, <1>4 DEF FacadeInv

LEMMA FacadeInvIsInductive == FacadeInv /\ [Next]_vars => FacadeInv'
<1> SUFFICES ASSUME FacadeInv, [Next]_vars PROVE FacadeInv'
  OBVIOUS
<1>1. CASE \E batch \in Batches : Precompute(batch)
  BY <1>1, PrecomputeKeepsInv
<1>2. CASE PlanBatch
  BY <1>2, PlanBatchKeepsInv
<1>3. CASE IndexBatch
  BY <1>3, IndexBatchKeepsInv
<1>4. CASE EncodeChunk
  BY <1>4, EncodeChunkKeepsInv
<1>5. CASE PrecomputeRaises
  BY <1>5, PrecomputeRaisesKeepsInv
<1>6. CASE Start
  BY <1>6, StartKeepsInv
<1>7. CASE FinalizeCorpus \/ FinalizeIndex
  BY <1>7, StartStepsKeepInv
<1>8. CASE StartEngine \/ StartRaises
  BY <1>8, StartEndsKeepInv
<1>9. CASE \E hits \in HitLists : Answer(hits)
  BY <1>9, AnswerKeepsInv
<1>10. CASE FetchMemoryParts \/ FetchRaises
  BY <1>10, FetchKeepsInv
<1>11. CASE ComposeMemory
  BY <1>11, ComposeKeepsInv
<1>12. CASE RegisterMemory \/ Generate
  BY <1>12, MemoryKeepsInv
<1>13. CASE Tokenizer
  BY <1>13, TokenizerKeepsInv
<1>14. CASE Close
  BY <1>14, CloseKeepsInv
<1>15. CASE CloseEngine \/ CloseEncoder \/ CloseCorpus \/ CloseIndex \/ CloseRaises
  BY <1>15, CloseStepsKeepInv
<1>16. CASE UNCHANGED vars
  BY <1>16, IdleKeepsInv
<1>17. QED
  BY <1>1, <1>2, <1>3, <1>4, <1>5, <1>6, <1>7, <1>8, <1>9, <1>10, <1>11, <1>12, <1>13, <1>14,
     <1>15, <1>16 DEF Next

LEMMA FacadeKeepsInv == Spec => []FacadeInv
BY InitEstablishesInv, FacadeInvIsInductive, PTL DEF Spec

-----------------------------------------------------------------------------
(* The results.                                                            *)

LEMMA MemoryPartsAreParts ==
  ASSUME NEW ids \in Seq(ChunkIds)
  PROVE  MemoryParts(ids) \in Seq(ChunkIds \cup {Header, Empty, Footer})
<1> DEFINE P == ChunkIds \cup {Header, Empty, Footer}
           body == IF ids = <<>> THEN <<Empty>> ELSE ids
<1>1. <<Header>> \in Seq(P) /\ <<Footer>> \in Seq(P) /\ <<Empty>> \in Seq(P)
  OBVIOUS
<1>2. ids \in Seq(P)
  BY ElementOfSeq
<1>3. body \in Seq(P)
  BY <1>1, <1>2
<1> HIDE DEF P, body
<1>4. <<Header>> \o body \in Seq(P)
  BY <1>1, <1>3, ConcatProperties
<1>5. (<<Header>> \o body) \o <<Footer>> \in Seq(P)
  BY <1>1, <1>4, ConcatProperties
<1>6. QED
  BY <1>5 DEF MemoryParts, P, body

(* Every part of the facade has its type in every state.                   *)
THEOREM TypeCorrect == Spec => []TypeOK
<1>1. FacadeInv => TypeOK
  <2> SUFFICES ASSUME FacadeInv PROVE TypeOK
    OBVIOUS
  <2>1. FacadeTypes /\ AnswerInv /\ call \in Calls
    BY DEF FacadeInv, FacadeTypes
  <2>2. call.op \in {"none", "precompute", "start", "answer", "close"}
    BY <2>1, CallFields
  <2>3. inFlight = NoMemory \/ inFlight \in Seq(ChunkIds \cup {Header, Empty, Footer})
    <3>1. CASE In("answer", "generate")
      <4>1. call.ids \in Seq(ChunkIds) /\ inFlight = MemoryParts(call.ids)
        BY <2>1, <3>1, CallFields DEF In, AnswerInv
      <4>2. QED
        BY <4>1, MemoryPartsAreParts
    <3>2. CASE ~In("answer", "generate")
      BY <2>1, <3>2 DEF AnswerInv
    <3>3. QED
      BY <3>1, <3>2
  <2>4. QED
    BY <2>1, <2>2, <2>3 DEF TypeOK, FacadeTypes, Plan
<1>2. QED
  BY <1>1, FacadeKeepsInv, PTL

(* A known chunk has its row and its KV whatever batch brought it and      *)
(* whatever raised, the corpus has no other, and what counts as started    *)
(* has all an answer takes: precompute commits a chunk last, start its     *)
(* flag last.                                                              *)
THEOREM KnownAreServable == Spec => []KnownChunksAreServable
<1>1. FacadeInv => KnownChunksAreServable
  BY DEF FacadeInv, ChunksInv, ServingInv, KnownChunksAreServable, Known
<1>2. QED
  BY <1>1, FacadeKeepsInv, PTL

(* Each chunk was encoded after the chunks in front of it and no others,   *)
(* over all batches: _plans_for goes on from what is registered.           *)
THEOREM WindowsFollowTheOrder == Spec => []WindowsFollowChunkOrder
<1>1. FacadeInv => WindowsFollowChunkOrder
  BY DEF FacadeInv, ChunksInv
<1>2. QED
  BY <1>1, FacadeKeepsInv, PTL

(* A memory is in the namespace during a generation only, made of chunks   *)
(* of the corpus, none twice, with nothing of them left staged.            *)
THEOREM MemoryLivesForItsGeneration == Spec => []MemoryLivesForOneGeneration
<1>1. FacadeInv => MemoryLivesForOneGeneration
  BY DEF FacadeInv, AnswerInv, MemoryLivesForOneGeneration, In
<1>2. QED
  BY <1>1, FacadeKeepsInv, PTL

(* The index is the chunk order until a precompute raises between the      *)
(* indexing of its batch and the last chunk of it.                         *)
THEOREM IndexFollowsUnlessCut == Spec => []IndexMatchesUnlessCut
<1>1. FacadeInv => IndexMatchesUnlessCut
  BY DEF FacadeInv, ChunksInv, CallInv, IndexMatchesUnlessCut, In, AtRest, Rest
<1>2. QED
  BY <1>1, FacadeKeepsInv, PTL

(* A close that ran to its end leaves nothing behind: nothing can be       *)
(* staged that the corpus does not hold and drop.                          *)
THEOREM ClosedIsEmpty == Spec => []ClosedHoldsNothing
<1>1. FacadeInv => ClosedHoldsNothing
  BY DEF FacadeInv, CloseInv, ClosedHoldsNothing, AtRest, Rest
<1>2. QED
  BY <1>1, FacadeKeepsInv, PTL

-----------------------------------------------------------------------------
(* The facade implements MemoryLibrary: a chunk is learned when it is      *)
(* registered, service starts with the flag, an answer is the registration *)
(* of its memory, and every other step is invisible.                       *)

LEMMA InitIsPromised == Init => Library!Init
BY DEF Init, Library!Init, IdsOf

LEMMA EncodeIsLearn ==
  ASSUME FacadeInv, EncodeChunk
  PROVE  Library!Next
<1>1. /\ call.op = "precompute" /\ call.at = "encode" /\ call.todo \in Seq(Plan)
      /\ ~closed /\ ~started /\ chunks \in Seq(Plan)
  <2>1. call.op = "precompute" /\ call.at = "encode" /\ call \in Calls
    BY DEF EncodeChunk, In, FacadeInv, FacadeTypes
  <2>2. QED
    BY <2>1, CallFields DEF FacadeInv, FacadeTypes, CallInv
<1> DEFINE plan == Head(call.todo)
           ids == IdsOf(call.todo)
<1>2. ids \in Seq(ChunkIds) /\ ids # <<>> /\ ToSet(ids) \cap Known = {}
      /\ (ids = <<>> <=> call.todo = <<>>)
  BY <1>1, IdsOfPlans DEF FacadeInv, BatchInv, BatchIds
<1>3. plan \in Plan /\ plan.id = Head(ids)
  BY <1>1, <1>2, IdsOfTail
<1>4. plan.id \in ChunkIds /\ plan.id \notin ToSet(IdsOf(chunks))
  <2>1. Head(ids) \in ToSet(ids)
    <3> HIDE DEF ids
    <3>1. ToSet(ids) = {Head(ids)} \cup ToSet(Tail(ids))
      BY <1>2, MembersOfTail
    <3>2. QED
      BY <3>1
  <2>2. QED
    BY <1>2, <1>3, <2>1 DEF Plan, Known
<1>5. chunks' = Append(chunks, plan)
  BY DEF EncodeChunk
<1> HIDE DEF plan
<1>6. IdsOf(chunks') = Append(IdsOf(chunks), plan.id)
  BY <1>1, <1>3, <1>5, IdsOfAppend
<1>7. closed' = closed /\ started' = started /\ inFlight' = inFlight
  BY DEF EncodeChunk
<1>8. Library!Learn(plan.id)
  BY <1>1, <1>4, <1>6, <1>7 DEF Library!Learn, Library!ToSet, ToSet
<1>9. QED
  BY <1>4, <1>8 DEF Library!Next

LEMMA RegisterIsAnswer ==
  ASSUME FacadeInv, RegisterMemory
  PROVE  Library!Next
<1> DEFINE ids == call.ids
           known == IdsOf(chunks)
<1>1. /\ call.op = "answer" /\ call.at = "register" /\ ids \in Seq(ChunkIds)
      /\ ~closed /\ started /\ IsInjective(ids) /\ ToSet(ids) \subseteq corpus
      /\ inFlight = NoMemory
  <2>1. call.op = "answer" /\ call.at = "register" /\ call \in Calls
    BY DEF RegisterMemory, In, FacadeInv, FacadeTypes
  <2>2. QED
    BY <2>1, CallFields DEF FacadeInv, CallInv, AnswerInv, In
<1>2. known \in Seq(ChunkIds) /\ corpus \subseteq ToSet(known)
  BY IdsOfPlans DEF FacadeInv, FacadeTypes, ChunksInv, Known
<1>3. IsFiniteSet(ToSet(known))
  <2> HIDE DEF known
  <2>1. QED
    BY <1>2, MembersOfSeq
<1> HIDE DEF ids, known
<1>4. ids \in Seq(ToSet(known))
  <2>1. DOMAIN ids = 1..Len(ids) /\ Len(ids) \in Nat
    BY <1>1
  <2>2. \A i \in 1..Len(ids) : ids[i] \in ToSet(known)
    BY <1>1, <1>2, <2>1 DEF ToSet
  <2>3. ids = [i \in 1..Len(ids) |-> ids[i]]
    BY <1>1
  <2>4. QED
    BY <2>1, <2>2, <2>3
<1>5. ids \in SeqOf(ToSet(known), Cardinality(ToSet(known)))
  BY <1>1, <1>3, <1>4, InjectiveFits
<1>6. ids \in Library!Selections
  <2>1. /\ Library!IsInjective(ids) <=> IsInjective(ids)
        /\ Library!ToSet(known) = ToSet(known)
    BY DEF Library!IsInjective, IsInjective, Library!ToSet, ToSet
  <2>2. Library!SeqOf(ToSet(known), Cardinality(ToSet(known)))
          = SeqOf(ToSet(known), Cardinality(ToSet(known)))
    BY DEF Library!SeqOf, SeqOf
  <2>3. Library!Cardinality(ToSet(known)) = Cardinality(ToSet(known))
    BY DEF Library!Cardinality, Cardinality, Library!IsFiniteSet, IsFiniteSet
  <2>4. QED
    BY <1>1, <1>5, <2>1, <2>2, <2>3 DEF Library!Selections, known
<1>7. /\ inFlight' = <<Header>> \o (IF ids = <<>> THEN <<Empty>> ELSE ids) \o <<Footer>>
      /\ closed' = closed /\ started' = started /\ chunks' = chunks
  BY DEF RegisterMemory, MemoryParts, ids
<1>8. Library!Answer(ids)
  BY <1>1, <1>7 DEF Library!Answer
<1>9. QED
  BY <1>6, <1>8 DEF Library!Next

LEMMA StepsArePromised == FacadeInv /\ [Next]_vars => [Library!Next]_(Library!vars)
<1> SUFFICES ASSUME FacadeInv, [Next]_vars PROVE [Library!Next]_(Library!vars)
  OBVIOUS
<1>1. CASE EncodeChunk
  BY <1>1, EncodeIsLearn
<1>2. CASE RegisterMemory
  BY <1>2, RegisterIsAnswer
<1>3. CASE StartEngine
  <2>1. ~closed /\ ~started /\ chunks # <<>> /\ chunks \in Seq(Plan)
    BY <1>3 DEF StartEngine, In, FacadeInv, CallInv, FacadeTypes
  <2>2. IdsOf(chunks) # <<>>
    BY <2>1, IdsOfPlans
  <2>3. Library!Serve
    BY <1>3, <2>1, <2>2 DEF Library!Serve, StartEngine
  <2>4. QED
    BY <2>3 DEF Library!Next
<1>4. CASE Generate
  <2>1. closed' = closed /\ started' = started /\ chunks' = chunks /\ inFlight' = NoMemory
    BY <1>4 DEF Generate
  <2>2. CASE inFlight = NoMemory
    BY <2>1, <2>2 DEF Library!vars
  <2>3. CASE inFlight # NoMemory
    <3>1. Library!Discard
      BY <2>1, <2>3 DEF Library!Discard
    <3>2. QED
      BY <3>1 DEF Library!Next
  <2>4. QED
    BY <2>2, <2>3
<1>5. CASE Close
  <2>1. /\ ~closed /\ closed' = TRUE /\ started' = started /\ chunks' = chunks
        /\ inFlight' = NoMemory /\ inFlight = NoMemory
    BY <1>5 DEF Close, AtRest, Rest, In, FacadeInv, AnswerInv
  <2>2. Library!Close
    BY <2>1 DEF Library!Close
  <2>3. QED
    BY <2>2 DEF Library!Next
<1>6. CASE /\ closed' = closed /\ started' = started /\ chunks' = chunks
           /\ inFlight' = inFlight
  BY <1>6 DEF Library!vars
<1>7. \/ EncodeChunk \/ RegisterMemory \/ StartEngine \/ Generate \/ Close
      \/ /\ closed' = closed /\ started' = started /\ chunks' = chunks
         /\ inFlight' = inFlight
  BY DEF Next, vars, Precompute, PlanBatch, IndexBatch, PrecomputeRaises, Start, FinalizeCorpus,
         FinalizeIndex, StartRaises, Answer, FetchMemoryParts, FetchRaises, ComposeMemory,
         Tokenizer, CloseEngine, CloseEncoder, CloseCorpus, CloseIndex, CloseRaises
<1>8. QED
  BY <1>1, <1>2, <1>3, <1>4, <1>5, <1>6, <1>7

(* The facade keeps the promise of MemoryLibrary, whatever raises.         *)
THEOREM FacadeImplementsLibrary == Spec => KeepsPromise
<1>1. Spec => Library!Spec
  BY InitIsPromised, StepsArePromised, FacadeKeepsInv, PTL DEF Spec, Library!Spec
<1>2. QED
  BY <1>1 DEF KeepsPromise
=============================================================================
