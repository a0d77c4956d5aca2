---------------------------- MODULE VectorTable ----------------------------
(***************************************************************************)
(* What a vector index promises, with no graph, no resident matrix and no  *)
(* ordinals: a table of rows, and answers that are complete.  An answer    *)
(* has as many hits as were asked for and the filter leaves, each a        *)
(* different row with that row's own score; when every row has to be       *)
(* looked at, they are the best ones.                                      *)
(*                                                                         *)
(* One kind of answer has less: a beam the host took as it came from the   *)
(* graph may have a row twice or without a score.  It is only given when   *)
(* every row may be a hit and fewer are asked for than there are.          *)
(***************************************************************************)
EXTENDS Integers, FiniteSetsExt, SequencesExt

CONSTANTS
  Ids, Payloads, Vectors,
  Scores, \* Scores[where][v]: the score of v against the query, "host" or "gpu"
  NoAnswer,
  NoScore \* the score of a hit whose distance is not finite

VARIABLES
  table,  \* the rows: id, payload and vector
  answer  \* the answer of the search just made

tableVars == <<table, answer>>

Rows == [id : Ids, payload : Payloads, vec : Vectors]

First(id) == Min({i \in DOMAIN table : table[i].id = id})

(* top_k clamped to the rows there are.                                    *)
Clamped(k) == Max({1, Min({k, Len(table)})})

Allowed(F) == {i \in DOMAIN table : table[i].payload \in F}

(* The hits' scores, which a beam taken as it came may lack.               *)
Scored(hits, where, way) ==
  \A i \in DOMAIN hits :
    \/ hits[i].score = Scores[where][table[hits[i].row].vec]
    \/ way = "beam" /\ hits[i].score = NoScore

Different(hits) == \A i, j \in DOMAIN hits : hits[i].row = hits[j].row => i = j

Best(hits, F) ==
  /\ \A i, j \in DOMAIN hits : i < j => hits[i].score >= hits[j].score
  /\ \E where \in DOMAIN Scores :
       \A i \in DOMAIN hits : \A r \in Allowed(F) \ {hits[j].row : j \in DOMAIN hits} :
         hits[i].score >= Scores[where][table[r].vec]

Complete(hits, k, F, way) ==
  /\ Len(hits) = Min({Clamped(k), Cardinality(Allowed(F))})
  /\ \A i \in DOMAIN hits : hits[i].row \in Allowed(F)
  /\ \E where \in DOMAIN Scores : Scored(hits, where, way)
  /\ way # "beam" => Different(hits)
  /\ Allowed(F) # DOMAIN table \/ Clamped(k) = Len(table) => way # "beam" /\ Best(hits, F)

Init == table = <<>> /\ answer = NoAnswer

Add ==
  /\ \E rest \in {SubSeq(table', Len(table) + 1, Len(table'))} :
       rest # <<>> /\ table' = table \o rest /\ rest \in Seq(Rows)
  /\ answer' = NoAnswer

Update(id) ==
  /\ \E i \in DOMAIN table : table[i].id = id
  /\ \E payload \in Payloads, vec \in Vectors :
       table' = [table EXCEPT ![First(id)] = [id |-> id, payload |-> payload, vec |-> vec]]
  /\ answer' = NoAnswer

Delete(id) ==
  /\ \E i \in DOMAIN table : table[i].id = id
  /\ table' = RemoveAt(table, First(id))
  /\ answer' = NoAnswer

Reset == table' = <<>> /\ answer' = NoAnswer

Answer ==
  /\ answer' # NoAnswer /\ Complete(answer'.hits, answer'.k, answer'.filter, answer'.way)
  /\ UNCHANGED table

Forget == answer' = NoAnswer /\ UNCHANGED table

Next ==
  \/ Add \/ Reset \/ Answer \/ Forget
  \/ \E id \in Ids : Update(id) \/ Delete(id)

Spec == Init /\ [][Next]_tableVars
=============================================================================
