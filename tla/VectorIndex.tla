---------------------------- MODULE VectorIndex ----------------------------
(***************************************************************************)
(* The vector indexes behind the retriever: JasperIndex, a graph that is   *)
(* searched by beam and scored exactly when the beam cannot answer, and    *)
(* MatmulIndex, which scores every row.                                    *)
(*                                                                         *)
(* Rows, vectors and ordinals are three structures that every change has   *)
(* to keep in step, and the graph with its resident matrix is a fourth     *)
(* made from them at finalize; a change has to drop it.  One query is      *)
(* enough: a search changes nothing but what it returns (MatmulIndex also  *)
(* finalizes).  A filter is the set of payloads it lets through.           *)
(***************************************************************************)
EXTENDS Integers, FiniteSetsExt, SequencesExt, Filtering

CONSTANTS
  Kinds,     \* the indexes to look at: "jasper", "exact"
  Ids, Payloads, Vectors,
  Scores,    \* Scores[where][v]: the score of v against the query, in fp32 on
             \* the host or from the resident matrix, which Jasper keeps in fp16
  NoAnswer,  \* no search was made, it raised, or it has to go another way
  NoScore,   \* the score of a hit whose distance is not finite
  MaxRows,   \* bound: rows of the index
  MaxBatch,  \* bound: rows of one add_many
  MaxTopK    \* bound: hits asked for

ASSUME VectorIndexAssumption ==
  /\ Kinds \subseteq {"jasper", "exact"}
  /\ Scores \in [{"host", "gpu"} -> [Vectors -> Int]]
  /\ MaxRows \in Nat /\ MaxBatch \in Nat /\ MaxTopK \in Nat

VARIABLES
  kind,      \* which index this is
  rows,      \* _rows: id and payload
  ordinals,  \* _ordinals
  vectors,   \* _vectors, empty for None
  resident,  \* _vectors_gpu, and the vectors _graph was built from; empty for None
  finalized, \* _finalized
  answer     \* what the last search returned

vars == <<kind, rows, ordinals, vectors, resident, finalized, answer>>

-----------------------------------------------------------------------------
Count == Len(rows)

(* A plain assignment: the last row of an id would be its row.             *)
Assign(d, key, value) ==
  [k \in DOMAIN d \cup {key} |-> IF k = key THEN value ELSE d[k]]

(* dict.setdefault: a key that is there keeps its value.                   *)
SetDefault(d, key, value) ==
  [k \in DOMAIN d \cup {key} |-> IF k \in DOMAIN d THEN d[k] ELSE value]

(* The ids of rs entered one after another, as rows n + 1, n + 2, ...      *)
SetDefaults(ords, n, rs) ==
  LET after[i \in 0..Len(rs)] ==
        IF i = 0 THEN ords ELSE SetDefault(after[i - 1], rs[i].id, n + i)
  IN  after[Len(rs)]

NoOrdinals == [id \in {} |-> 0]

Init ==
  /\ kind \in Kinds
  /\ rows = <<>> /\ ordinals = NoOrdinals /\ vectors = <<>>
  /\ resident = <<>> /\ finalized = FALSE
  /\ answer = NoAnswer

(* A close that keeps the graph.                                           *)
KeepGraph == finalized' = FALSE /\ UNCHANGED resident

(* close: the graph and its matrix are dropped, the rows are not.          *)
DropGraph == resident' = <<>> /\ finalized' = FALSE

Close ==
  /\ DropGraph
  /\ answer' = NoAnswer
  /\ UNCHANGED <<kind, rows, ordinals, vectors>>

-----------------------------------------------------------------------------
(* Changes.                                                                *)

UniqueIds(batch) ==
  /\ Cardinality({r.id : r \in ToSet(batch)}) = Len(batch)
  /\ \A r \in ToSet(batch) : r.id \notin DOMAIN ordinals

Entries(batch) == [i \in DOMAIN batch |-> [id |-> batch[i].id, payload |-> batch[i].payload]]

(* New rows behind the others.  Jasper takes an id again, and leaves it at *)
(* its first row; the exact index, which has unique ids, updates its dict. *)
AddMany(batch) ==
  /\ batch # <<>> /\ Count + Len(batch) <= MaxRows
  /\ kind = "exact" => UniqueIds(batch)
  /\ DropGraph
  /\ vectors' = vectors \o [i \in DOMAIN batch |-> batch[i].vec]
  /\ rows' = rows \o Entries(batch)
  /\ ordinals' = SetDefaults(ordinals, Count, Entries(batch))
  /\ answer' = NoAnswer
  /\ UNCHANGED kind

(* The payload, the vector or both of an id's first row.                   *)
Update(id, payload, vec) ==
  /\ kind = "jasper" /\ id \in DOMAIN ordinals
  /\ DropGraph
  /\ rows' = [rows EXCEPT ![ordinals[id]] =
                [id |-> rows[ordinals[id]].id, payload |-> payload]]
  /\ vectors' = [vectors EXCEPT ![ordinals[id]] = vec]
  /\ answer' = NoAnswer
  /\ UNCHANGED <<kind, ordinals>>

(* A deletion that enters the rows anew into the dict of before.           *)
DeleteKeepingOrdinals(id) ==
  /\ kind = "jasper" /\ id \in DOMAIN ordinals
  /\ DropGraph
  /\ LET at == ordinals[id] IN
     /\ rows' = RemoveAt(rows, at)
     /\ vectors' = RemoveAt(vectors, at)
     /\ ordinals' = SetDefaults(ordinals, 0, RemoveAt(rows, at))
  /\ answer' = NoAnswer
  /\ UNCHANGED kind

(* An id's first row goes, and those left are entered into an empty dict.  *)
Delete(id) ==
  /\ kind = "jasper" /\ id \in DOMAIN ordinals
  /\ DropGraph
  /\ LET at == ordinals[id] IN
     /\ rows' = RemoveAt(rows, at)
     /\ vectors' = RemoveAt(vectors, at)
     /\ ordinals' = SetDefaults(NoOrdinals, 0, RemoveAt(rows, at))
  /\ answer' = NoAnswer
  /\ UNCHANGED kind

Reset ==
  /\ kind = "jasper"
  /\ DropGraph
  /\ rows' = <<>> /\ ordinals' = NoOrdinals /\ vectors' = <<>>
  /\ answer' = NoAnswer
  /\ UNCHANGED kind

(* The graph is built, unless there is one or no row to build it of.  A    *)
(* build that raises leaves everything as it was.                          *)
Finalize ==
  /\ resident' = IF resident = <<>> THEN vectors ELSE resident
  /\ finalized' = TRUE
  /\ answer' = NoAnswer
  /\ UNCHANGED <<kind, rows, ordinals, vectors>>

-----------------------------------------------------------------------------
(* Searches.                                                               *)

Clamped(k) == Max({1, Min({k, Count})})

Allowed(F) == {i \in DOMAIN rows : rows[i].payload \in F}
Rejects(F) == Allowed(F) # DOMAIN rows

Distinct(n) == {s \in SeqOf(DOMAIN rows, n) : Len(s) = n /\ IsInjective(s)}

(* The k best of the eligible rows, best first, scored over a matrix.      *)
TopK(matrix, where, eligible, k) ==
  LET score(i) == Scores[where][matrix[i]] IN
  {s \in Distinct(k) :
     /\ ToSet(s) \subseteq eligible
     /\ \A i, j \in DOMAIN s : i < j => score(s[i]) >= score(s[j])
     /\ \A i \in ToSet(s), j \in eligible \ ToSet(s) : score(i) >= score(j)}

(* numpy's argsort is stable: rows with equal scores keep their order.     *)
StableTopK(k) ==
  {s \in TopK(vectors, "host", DOMAIN rows, k) :
     \A i, j \in DOMAIN s :
       i < j /\ Scores["host"][vectors[s[i]]] = Scores["host"][vectors[s[j]]] => s[i] < s[j]}

(* What a search finds: rows in an order, the matrix they were scored over *)
(* and where, the places with a finite distance, and the way it went.      *)
Exact(s, matrix, where) ==
  [rows |-> s, over |-> matrix, where |-> where, finite |-> DOMAIN s, way |-> "exact"]

ExactOnHost(k) == {Exact(s, vectors, "host") : s \in StableTopK(k)}
ExactOnGpu(k) == {Exact(s, resident, "gpu") : s \in TopK(resident, "gpu", DOMAIN rows, k)}

(* What the graph's search may return: k slots, each with a row, padding   *)
(* or the number of no row, a row perhaps more than once, and a distance   *)
(* that is the row's own or not finite.                                    *)
Padding == 0
Beams(k) ==
  [rows : [1..k -> 0..Count + 1], over : {resident}, where : {"gpu"},
   finite : SUBSET (1..k), way : {"beam"}]

BeamReady == finalized /\ resident # <<>>

(* The host's search reads a beam up to its first padding, ...             *)
BeforePadding(beam) ==
  LET pads == {i \in DOMAIN beam.rows : beam.rows[i] = Padding}
      found == Min(pads \cup {Len(beam.rows) + 1}) - 1
  IN  [beam EXCEPT !.rows = SubSeq(@, 1, found), !.finite = @ \cap 1..found]

(* ... raises on the number of no row, ...                                 *)
IsInRange(found) == ToSet(found.rows) \subseteq DOMAIN rows

(* ... and takes what is long enough as it came; exact scoring otherwise.  *)
BeamOrExact(k) ==
  LET reached == {BeforePadding(beam) : beam \in Beams(k)}
      taken == {found \in reached : ~IsInRange(found) \/ Len(found.rows) >= k}
  IN  taken \cup IF reached \ taken # {} THEN ExactOnGpu(k) ELSE {}

(* A check of the device's search that does not see a row twice.           *)
DeviceResultIsInRange(found, k) ==
  /\ Len(found.rows) = k
  /\ \A i \in 1..k : found.rows[i] \in DOMAIN rows /\ i \in found.finite

(* The device's search takes different rows with finite distances only.    *)
DeviceResultIsComplete(found, k) ==
  /\ Len(found.rows) = k
  /\ \A i \in 1..k : found.rows[i] \in DOMAIN rows /\ i \in found.finite
  /\ IsInjective(found.rows)

CheckedBeamOrExact(k) ==
  LET beams == Beams(k)
      complete == {beam \in beams : DeviceResultIsComplete(beam, k)}
  IN  {[beam EXCEPT !.way = "checked"] : beam \in complete}
        \cup IF beams \ complete # {} THEN ExactOnGpu(k) ELSE {}

(* Beam search when the graph can answer completely, exact otherwise.      *)
Candidates(k) ==
  IF ~BeamReady THEN ExactOnHost(k)
  ELSE IF k < Count THEN BeamOrExact(k) ELSE ExactOnGpu(k)

DeviceCandidates(k) ==
  IF k < Count THEN CheckedBeamOrExact(k) ELSE ExactOnGpu(k)

(* A hit: the row, and the score of the vector it was found by.            *)
HitsFor(found) ==
  [i \in DOMAIN found.rows |->
     [row |-> found.rows[i],
      score |-> IF i \in found.finite THEN Scores[found.where][found.over[found.rows[i]]]
                ELSE NoScore]]

AnswerOf(found, k, F) ==
  [hits |-> LET hits == HitsFor(found)
                kept == Filtered(hits, {h \in ToSet(hits) : rows[h.row].payload \in F})
            IN  SubSeq(kept, 1, Min({Len(kept), Clamped(k)})),
   k |-> k, filter |-> F, way |-> found.way]

(* A filter that rejects some rows needs every row scored.                 *)
CandidateCount(k, F) == IF Rejects(F) THEN Count ELSE Clamped(k)

SearchJasper(k, F) ==
  /\ kind = "jasper" /\ Count > 0
  /\ answer' \in {IF IsInRange(found) THEN AnswerOf(found, k, F) ELSE NoAnswer :
                   found \in Candidates(CandidateCount(k, F))}
  /\ UNCHANGED <<kind, rows, ordinals, vectors, resident, finalized>>

(* search_device: no answer before finalize or under a filter, and the     *)
(* result is checked once more.                                            *)
SearchDevice(k, F) ==
  /\ kind = "jasper" /\ Count > 0
  /\ IF Rejects(F) \/ ~BeamReady THEN answer' = NoAnswer
     ELSE answer' \in {IF DeviceResultIsComplete(found, Clamped(k)) THEN AnswerOf(found, k, F)
                        ELSE NoAnswer : found \in DeviceCandidates(Clamped(k))}
  /\ UNCHANGED <<kind, rows, ordinals, vectors, resident, finalized>>

(* MatmulIndex finalizes, and takes the best of the rows the filter leaves.*)
SearchExact(k, F) ==
  /\ kind = "exact" /\ Count > 0
  /\ finalized' = TRUE /\ resident' = IF finalized THEN resident ELSE vectors
  /\ \E s \in TopK(resident', "gpu", Allowed(F), Min({Clamped(k), Cardinality(Allowed(F))})) :
       answer' = AnswerOf(Exact(s, resident', "gpu"), k, F)
  /\ UNCHANGED <<kind, rows, ordinals, vectors>>

-----------------------------------------------------------------------------
Batches == SeqOf([id : Ids, payload : Payloads, vec : Vectors], MaxBatch)

Next ==
  \/ \E batch \in Batches : AddMany(batch)
  \/ \E id \in Ids :
       Delete(id) \/ \E payload \in Payloads, vec \in Vectors : Update(id, payload, vec)
  \/ Reset \/ Finalize \/ Close
  \/ \E k \in 0..MaxTopK, F \in SUBSET Payloads :
       SearchJasper(k, F) \/ SearchDevice(k, F) \/ SearchExact(k, F)

Spec == Init /\ [][Next]_vars

-----------------------------------------------------------------------------
(* Properties.                                                             *)

(* Every variable holds a value of its kind. *)
TypeOK ==
  /\ kind \in Kinds
  /\ rows \in Seq([id : Ids, payload : Payloads]) /\ Count <= MaxRows
  /\ DOMAIN ordinals \subseteq Ids /\ \A id \in DOMAIN ordinals : ordinals[id] \in DOMAIN rows
  /\ vectors \in Seq(Vectors)
  /\ resident \in Seq(Vectors)
  /\ finalized \in BOOLEAN
  /\ answer = NoAnswer \/ DOMAIN answer = {"hits", "k", "filter", "way"}

(* What is searched on the GPU is what the index holds: no graph and no    *)
(* resident matrix outlives a change of the rows, and a finalized index    *)
(* that has rows has both.                                                 *)
GraphIsCurrent ==
  /\ resident # <<>> => resident = vectors /\ finalized
  /\ finalized /\ Count > 0 => resident # <<>>

(* An id resolves to its first row, and every row's id resolves, through   *)
(* repeated ids, deletions that uncover a later row, and updates.          *)
IdsResolveToFirstRow ==
  /\ DOMAIN ordinals = {r.id : r \in ToSet(rows)}
  /\ \A id \in DOMAIN ordinals :
       /\ rows[ordinals[id]].id = id
       /\ \A i \in 1..ordinals[id] - 1 : rows[i].id # id

(* The index keeps what VectorTable promises: rows and vectors change      *)
(* together, and every answer has the hits it should, scored by the rows'  *)
(* own vectors, each a different row unless the host took a beam as it     *)
(* came; what the graph returns is not trusted further than the code does. *)
Table == INSTANCE VectorTable WITH
  table <- [i \in DOMAIN rows |->
              [id |-> rows[i].id, payload |-> rows[i].payload, vec |-> vectors[i]]]

KeepsTable == Table!Spec
=============================================================================
