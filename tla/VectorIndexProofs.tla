------------------------- MODULE VectorIndexProofs -------------------------
(***************************************************************************)
(* The copies a vector index keeps agree, for any ids, vectors and rows:   *)
(* the ordinals with the rows, the resident matrix with the vectors.       *)
(*                                                                         *)
(* The ordinals are entered one by one, into the dict there is or, after a *)
(* deletion, into an empty one.  That either leaves every id at its first  *)
(* row is an induction over the batch (SetDefaultsKeepFirst).  Inv states  *)
(* it, and adds that the rows and the vectors have the same length,        *)
(* without which a finalized index with rows could have an empty matrix    *)
(* resident.                                                               *)
(*                                                                         *)
(* From Inv the index implements VectorTable.  A search that scores every  *)
(* row, or checks the beam it takes, finds different rows (Sound), scored  *)
(* by the vectors of now (FoundRows); it finds all the rows the filter     *)
(* leaves or as many of them as hits (Enough), and the best of them where  *)
(* that is promised (BestFirst).  AnswerIsComplete takes it from there     *)
(* through the filtering and the cut.  A beam taken as it came is complete *)
(* by its length alone (BeamAnswerIsComplete).                             *)
(***************************************************************************)
EXTENDS VectorIndex, DataLemmas

Row == [id : Ids, payload : Payloads]

(* Where each id is found first.                                           *)
FirstOrdinals(rs) ==
  [id \in {r.id : r \in ToSet(rs)} |-> Min({i \in DOMAIN rs : rs[i].id = id})]

Inv ==
  /\ rows \in Seq(Row)
  /\ vectors \in Seq(Vectors) /\ Len(vectors) = Len(rows)
  /\ ordinals = FirstOrdinals(rows)
  /\ GraphIsCurrent

-----------------------------------------------------------------------------
(* FirstOrdinals does what its name says.                                  *)
LEMMA FirstOrdinalsAreFirst ==
  ASSUME NEW rs \in Seq(Row)
  PROVE  /\ DOMAIN FirstOrdinals(rs) = {r.id : r \in ToSet(rs)}
         /\ \A id \in DOMAIN FirstOrdinals(rs) :
              /\ FirstOrdinals(rs)[id] \in DOMAIN rs
              /\ rs[FirstOrdinals(rs)[id]].id = id
              /\ \A i \in 1..FirstOrdinals(rs)[id] - 1 : rs[i].id # id
<1>1. DOMAIN FirstOrdinals(rs) = {r.id : r \in ToSet(rs)}
  BY DEF FirstOrdinals
<1>2. ASSUME NEW id \in DOMAIN FirstOrdinals(rs)
      PROVE  /\ FirstOrdinals(rs)[id] \in DOMAIN rs
             /\ rs[FirstOrdinals(rs)[id]].id = id
             /\ \A i \in 1..FirstOrdinals(rs)[id] - 1 : rs[i].id # id
  <2> DEFINE At == {i \in DOMAIN rs : rs[i].id = id}
  <2>1. FirstOrdinals(rs)[id] = Min(At)
    BY <1>1, <1>2 DEF FirstOrdinals
  <2>2. At \subseteq Nat
    OBVIOUS
  <2>3. At # {}
    BY <1>1, <1>2 DEF ToSet
  <2>4. Min(At) \in At /\ \A y \in At : Min(At) <= y
    <3> HIDE DEF At
    <3> QED BY <2>2, <2>3, MinIsLeast
  <2>5. ASSUME NEW i \in 1..Min(At) - 1 PROVE rs[i].id # id
    <3>1. Min(At) \in 1..Len(rs)
      BY <2>4
    <3>2. i \in DOMAIN rs /\ ~ (Min(At) <= i)
      BY <3>1
    <3>3. QED
      BY <3>2, <2>4
  <2>6. QED
    BY <2>1, <2>4, <2>5
<1>3. QED
  BY <1>1, <1>2

(* FirstOrdinals only looks at the ids.                                    *)
LEMMA OrdinalsLookAtIds ==
  ASSUME NEW rs \in Seq(Row), NEW ss \in Seq(Row), Len(rs) = Len(ss),
         \A i \in DOMAIN rs : rs[i].id = ss[i].id
  PROVE  FirstOrdinals(rs) = FirstOrdinals(ss)
<1>1. DOMAIN rs = DOMAIN ss
  OBVIOUS
<1>2. {r.id : r \in ToSet(rs)} = {r.id : r \in ToSet(ss)}
  BY <1>1 DEF ToSet
<1>3. \A id : {i \in DOMAIN rs : rs[i].id = id} = {i \in DOMAIN ss : ss[i].id = id}
  BY <1>1
<1>4. QED
  BY <1>2, <1>3 DEF FirstOrdinals

(* An entry put behind the rows is its id's first row if no row has the id, *)
(* and setdefault does no more than that.                                  *)
LEMMA SetDefaultKeepsFirst ==
  ASSUME NEW rs \in Seq(Row), NEW e \in Row
  PROVE  SetDefault(FirstOrdinals(rs), e.id, Len(rs) + 1) = FirstOrdinals(Append(rs, e))
<1> DEFINE old == FirstOrdinals(rs)
           t == Append(rs, e)
           n == Len(rs) + 1
           new == SetDefault(old, e.id, n)
           At(id) == {i \in DOMAIN t : t[i].id = id}
<1>1. /\ DOMAIN rs = 1..Len(rs) /\ Len(rs) \in Nat /\ n \in Nat
      /\ DOMAIN t = 1..n /\ t[n] = e /\ \A i \in 1..Len(rs) : t[i] = rs[i]
      /\ t \in Seq(Row)
  OBVIOUS
<1>2. ToSet(t) = ToSet(rs) \cup {e}
  BY MembersOfAppend
<1>3. DOMAIN old = {r.id : r \in ToSet(rs)}
  BY DEF FirstOrdinals
<1>4. DOMAIN FirstOrdinals(t) = DOMAIN old \cup {e.id}
  <2>1. DOMAIN FirstOrdinals(t) = {r.id : r \in ToSet(t)}
    BY DEF FirstOrdinals
  <2> HIDE DEF t, old
  <2>2. QED
    BY <1>2, <1>3, <2>1
<1>5. DOMAIN new = DOMAIN old \cup {e.id}
  BY DEF SetDefault
<1>6. ASSUME NEW id \in DOMAIN old PROVE new[id] = Min(At(id))
  <2>1. new[id] = old[id]
    BY <1>6 DEF SetDefault
  <2>2. /\ old[id] \in DOMAIN rs /\ rs[old[id]].id = id
        /\ \A i \in 1..old[id] - 1 : rs[i].id # id
    BY <1>6, FirstOrdinalsAreFirst, Zenon
  <2> HIDE DEF old, new, t
  <2>3. old[id] \in 1..Len(rs)
    BY <1>1, <2>2
  <2>4. old[id] \in At(id)
    BY <1>1, <2>2, <2>3
  <2>5. ASSUME NEW i \in At(id) PROVE old[id] <= i
    <3>1. i \in 1..n /\ t[i].id = id
      BY <1>1
    <3>2. CASE i \in 1..old[id] - 1
      <4>1. i \in 1..Len(rs)
        BY <2>3, <3>2
      <4>2. QED
        BY <1>1, <2>2, <3>1, <3>2, <4>1
    <3>3. CASE i \notin 1..old[id] - 1
      BY <2>3, <3>1, <3>3
    <3>4. QED
      BY <3>2, <3>3
  <2>6. At(id) \subseteq Nat
    BY <1>1
  <2> HIDE DEF At
  <2>7. QED
    BY <2>1, <2>4, <2>5, <2>6, LeastIsMin
<1>7. ASSUME e.id \notin DOMAIN old PROVE new[e.id] = Min(At(e.id))
  <2>1. new[e.id] = n
    BY <1>7 DEF SetDefault
  <2> HIDE DEF old, new, t
  <2>2. \A i \in 1..Len(rs) : rs[i].id # e.id
    BY <1>1, <1>3, <1>7 DEF ToSet
  <2>3. n \in At(e.id)
    BY <1>1
  <2>4. ASSUME NEW i \in At(e.id) PROVE n <= i
    <3>1. i \in 1..n /\ t[i].id = e.id
      BY <1>1
    <3>2. i \notin 1..Len(rs)
      BY <1>1, <2>2, <3>1
    <3>3. QED
      BY <1>1, <3>1, <3>2
  <2>5. At(e.id) \subseteq Nat
    BY <1>1
  <2> HIDE DEF At, n
  <2>6. QED
    BY <2>1, <2>3, <2>4, <2>5, LeastIsMin
<1>8. \A id \in DOMAIN old \cup {e.id} : new[id] = Min(At(id))
  <2> HIDE DEF old, new, At
  <2>1. QED
    BY <1>6, <1>7
<1>9. FirstOrdinals(t) = [id \in DOMAIN old \cup {e.id} |-> Min(At(id))]
  <2>1. FirstOrdinals(t) = [id \in DOMAIN FirstOrdinals(t) |-> Min(At(id))]
    BY DEF FirstOrdinals
  <2> HIDE DEF t, At, old
  <2>2. QED
    BY <1>4, <2>1
<1>10. new = [id \in DOMAIN old \cup {e.id} |-> new[id]]
  BY DEF SetDefault
<1> HIDE DEF new, old, t, At
<1>11. new = FirstOrdinals(t)
  BY <1>8, <1>9, <1>10
<1>12. QED
  BY <1>11 DEF new, old, t, n

(* A batch entered one row after another behind rows whose ids are entered *)
(* leaves every id at its first row.                                       *)
LEMMA SetDefaultsKeepFirst ==
  ASSUME NEW rs \in Seq(Row), NEW es \in Seq(Row)
  PROVE  SetDefaults(FirstOrdinals(rs), Len(rs), es) = FirstOrdinals(rs \o es)
<1> DEFINE n == Len(es)
           m == Len(rs)
           u == rs \o es
           Part(i) == SubSeq(u, 1, m + i)
           Made(g) == [i \in 0..n |->
                        IF i = 0 THEN FirstOrdinals(rs)
                        ELSE SetDefault(g[i - 1], es[i].id, m + i)]
           G == CHOOSE g : g = Made(g)
           K == [i \in 0..n |-> FirstOrdinals(Part(i))]
<1>1. n \in Nat /\ m \in Nat
  OBVIOUS
<1>2. /\ u \in Seq(Row) /\ Len(u) = m + n
      /\ \A i \in 1..n : u[m + i] = es[i]
  BY <1>1, ConcatProperties
<1>3. Part(0) = rs
  <2>1. SubSeq(u, 1, m) = SubSeq(rs, 1, m)
    BY <1>1, SubSeqOfConcat1
  <2>2. SubSeq(rs, 1, m) = rs
    BY SubSeqFull
  <2>3. m + 0 = m
    BY <1>1
  <2> HIDE DEF u, m
  <2>4. QED
    BY <2>1, <2>2, <2>3
<1>4. Part(n) = u
  <2> HIDE DEF u, m, n
  <2>1. QED
    BY <1>2, SubSeqFull
<1> HIDE DEF u
<1>5. ASSUME NEW i \in 1..n
      PROVE  SetDefault(FirstOrdinals(Part(i - 1)), es[i].id, m + i) = FirstOrdinals(Part(i))
  <2>1. es[i] \in Row
    BY ElementOfSeq
  <2> HIDE DEF n, m
  <2>2. /\ 1 \in 1..Len(u) + 1 /\ m + i \in 1..Len(u) /\ m + i - 1 = m + (i - 1)
        /\ m + i - 1 \in 0..Len(u)
    BY <1>1, <1>2
  <2>3. Part(i - 1) \in Seq(Row) /\ Len(Part(i - 1)) = m + i - 1
    <3>1. \A j \in 1..Len(u) : u[j] \in Row
      BY <1>2, ElementOfSeq
    <3>2. QED
      BY <1>1, <1>2, <2>2, <3>1
  <2>4. Part(i) = Append(Part(i - 1), es[i])
    <3>1. SubSeq(u, 1, m + i) = SubSeq(u, 1, m + i - 1) \o <<u[m + i]>>
      <4>1. PICK e \in 1..Len(u) : e = m + i
        BY <2>2
      <4>2. u \in Seq(Row) /\ 1 \in 1..Len(u) /\ e \in 1..Len(u)
        BY <1>1, <1>2, <2>2, <4>1
      <4>3. SubSeq(u, 1, e) = SubSeq(u, 1, e - 1) \o <<u[e]>>
        BY <4>2, SubSeqRecursiveSecond
      <4>4. e - 1 = m + i - 1
        BY <1>1, <4>1
      <4>5. QED
        BY <4>1, <4>3, <4>4, Zenon
    <3>2. Part(i) = Part(i - 1) \o <<es[i]>>
      BY <1>2, <2>2, <3>1
    <3> HIDE DEF Part
    <3>3. QED
      BY <2>1, <2>3, <3>2, AppendIsConcat
  <2>5. Len(Part(i - 1)) + 1 = m + i
    BY <1>1, <2>3
  <2> HIDE DEF Part
  <2>6. SetDefault(FirstOrdinals(Part(i - 1)), es[i].id, Len(Part(i - 1)) + 1)
          = FirstOrdinals(Append(Part(i - 1), es[i]))
    BY <2>1, <2>3, SetDefaultKeepsFirst
  <2>7. QED
    BY <2>4, <2>5, <2>6
<1> HIDE DEF Part
<1>6. K = Made(K)
  <2>1. ASSUME NEW i \in 0..n
        PROVE  K[i] = IF i = 0 THEN FirstOrdinals(rs)
                      ELSE SetDefault(K[i - 1], es[i].id, m + i)
    <3>1. CASE i = 0
      BY <1>3, <3>1
    <3>2. CASE i # 0
      <4>1. i \in 1..n /\ i - 1 \in 0..n
        BY <1>1, <3>2
      <4>2. K[i] = FirstOrdinals(Part(i)) /\ K[i - 1] = FirstOrdinals(Part(i - 1))
        BY <4>1
      <4> HIDE DEF K
      <4>3. QED
        BY <1>5, <3>2, <4>1, <4>2
    <3>3. QED
      BY <3>1, <3>2
  <2>2. K = [i \in 0..n |-> K[i]]
    OBVIOUS
  <2> HIDE DEF n, m, K
  <2>3. QED
    BY <2>1, <2>2
<1>7. K[0] = FirstOrdinals(rs) /\ K[n] = FirstOrdinals(u)
  <2>1. 0 \in 0..n /\ n \in 0..n
    BY <1>1
  <2>2. QED
    BY <1>3, <1>4, <2>1
<1>8. \A i \in 1..n : K[i] = SetDefault(K[i - 1], es[i].id, m + i)
  <2> HIDE DEF K, n, m
  <2>1. ASSUME NEW i \in 1..n PROVE K[i] = SetDefault(K[i - 1], es[i].id, m + i)
    <3>1. i \in 0..n /\ i # 0
      BY <1>1
    <3>2. Made(K)[i] = SetDefault(K[i - 1], es[i].id, m + i)
      BY <3>1
    <3> HIDE DEF Made
    <3>3. QED
      BY <1>6, <3>2
  <2>2. QED
    BY <2>1
<1> HIDE DEF K
<1>9. G = Made(G)
  <2>1. \E g : g = Made(g)
    <3> HIDE DEF Made
    <3>1. QED
      BY <1>6
  <2>2. QED
    BY <2>1
<1>10. SetDefaults(FirstOrdinals(rs), m, es) = G[n]
  BY DEF SetDefaults
<1> HIDE DEF G
<1> DEFINE A == {i \in 0..n : G[i] = K[i]}
<1>11. 0 \in A
  BY <1>1, <1>7, <1>9
<1>12. ASSUME NEW i \in 0..n - 1, i \in A PROVE i + 1 \in A
  <2> DEFINE k == i + 1
  <2>1. k \in 1..n /\ k \in 0..n /\ k - 1 = i /\ k # 0
    BY <1>1
  <2> HIDE DEF n, k, m
  <2>2. K[k] = SetDefault(K[i], es[k].id, m + k)
    BY <1>8, <2>1
  <2>3. G[k] = SetDefault(G[i], es[k].id, m + k)
    BY <1>9, <2>1
  <2>4. G[i] = K[i]
    BY <1>12
  <2>5. G[k] = K[k]
    BY <2>2, <2>3, <2>4
  <2>6. QED
    BY <2>1, <2>5 DEF k
<1>13. \A i \in 0..n : i \in A
  <2> HIDE DEF A
  <2>1. QED
    BY <1>1, <1>11, <1>12, UpTo
<1>14. G[n] = K[n]
  BY <1>1, <1>13
<1>15. QED
  BY <1>7, <1>10, <1>14 DEF u

(* Rows entered into an empty dict.                                        *)
LEMMA RebuiltAreFirst ==
  ASSUME NEW rs \in Seq(Row)
  PROVE  /\ NoOrdinals = FirstOrdinals(<<>>)
         /\ SetDefaults(NoOrdinals, 0, rs) = FirstOrdinals(rs)
<1>1. << >> \in Seq(Row) /\ Len(<< >>) = 0
  BY EmptySeq
<1>2. NoOrdinals = FirstOrdinals(<<>>)
  <2>1. {r.id : r \in ToSet(<<>>)} = {}
    BY DEF ToSet
  <2>2. DOMAIN FirstOrdinals(<<>>) = {}
    BY <2>1 DEF FirstOrdinals
  <2>3. FirstOrdinals(<<>>) = [id \in DOMAIN FirstOrdinals(<<>>) |-> FirstOrdinals(<<>>)[id]]
    BY DEF FirstOrdinals
  <2>4. QED
    BY <2>2, <2>3 DEF NoOrdinals
<1>3. << >> \o rs = rs
  BY ConcatEmptySeq
<1>4. SetDefaults(FirstOrdinals(<<>>), 0, rs) = FirstOrdinals(<< >> \o rs)
  BY <1>1, SetDefaultsKeepFirst
<1>5. QED
  BY <1>2, <1>3, <1>4

-----------------------------------------------------------------------------
(* Something for each entry of a sequence is a sequence as long as it.     *)
LEMMA PerEntry ==
  ASSUME NEW S, NEW T, NEW s \in Seq(S), NEW f \in [DOMAIN s -> T]
  PROVE  f \in Seq(T) /\ Len(f) = Len(s)
<1>1. DOMAIN s = 1..Len(s) /\ Len(s) \in Nat
  OBVIOUS
<1>2. f \in [1..Len(s) -> T]
  BY <1>1
<1>3. QED
  BY <1>1, <1>2

(* What an id resolves to under the invariant.                             *)
LEMMA OrdinalIsARow ==
  ASSUME Inv, NEW id \in DOMAIN ordinals
  PROVE  ordinals[id] \in 1..Len(rows)
<1>1. rows \in Seq(Row) /\ ordinals = FirstOrdinals(rows)
  BY DEF Inv
<1>2. ordinals[id] \in DOMAIN rows
  BY <1>1, FirstOrdinalsAreFirst, Zenon
<1>3. QED
  BY <1>1, <1>2

(* An index starts with nothing to disagree about.                         *)
LEMMA InitInv == Init => Inv
<1> SUFFICES ASSUME Init PROVE Inv
  OBVIOUS
<1>1. /\ rows = <<>> /\ vectors = <<>> /\ resident = <<>> /\ ordinals = NoOrdinals
      /\ finalized = FALSE
  BY DEF Init
<1>2. << >> \in Seq(Row)
  BY EmptySeq
<1>3. NoOrdinals = FirstOrdinals(<<>>)
  BY <1>2, RebuiltAreFirst
<1>4. QED
  BY <1>1, <1>3 DEF Inv, GraphIsCurrent, Count

(* Whatever changes the rows drops the graph in the same step.             *)
LEMMA DroppedGraphIsCurrent == DropGraph => GraphIsCurrent'
  BY DEF DropGraph, GraphIsCurrent

(* Every action keeps the copies in agreement.                             *)
LEMMA NextInv == Inv /\ [Next]_vars => Inv'
<1> SUFFICES ASSUME Inv, [Next]_vars PROVE Inv'
  OBVIOUS
<1> USE DEF Inv
<1>1. CASE UNCHANGED vars
  BY <1>1 DEF vars, GraphIsCurrent, Count
<1>2. ASSUME NEW batch \in Batches, AddMany(batch) PROVE Inv'
  <2> DEFINE vecs == [i \in DOMAIN batch |-> batch[i].vec]
             New == [id : Ids, payload : Payloads, vec : Vectors]
  <2>1. batch \in Seq(New)
    BY SeqOfIsSeq, VectorIndexAssumption DEF Batches
  <2>2. \A i \in DOMAIN batch : batch[i] \in New
    <3> HIDE DEF New
    <3> QED BY <2>1
  <2>3. Entries(batch) \in Seq(Row) /\ Len(Entries(batch)) = Len(batch)
    <3>1. \A i \in DOMAIN batch : [id |-> batch[i].id, payload |-> batch[i].payload] \in Row
      BY <2>2 DEF Row
    <3>2. Entries(batch) \in [DOMAIN batch -> Row]
      BY <3>1 DEF Entries
    <3>3. QED
      BY <2>1, <3>2, PerEntry
  <2>4. vecs \in Seq(Vectors) /\ Len(vecs) = Len(batch)
    <3>1. \A i \in DOMAIN batch : batch[i].vec \in Vectors
      BY <2>2
    <3>2. vecs \in [DOMAIN batch -> Vectors]
      BY <3>1
    <3>3. QED
      BY <2>1, <3>2, PerEntry
  <2>5. /\ rows' = rows \o Entries(batch) /\ vectors' = vectors \o vecs
        /\ ordinals' = SetDefaults(FirstOrdinals(rows), Len(rows), Entries(batch)) /\ DropGraph
    BY <1>2 DEF AddMany, Count
  <2> HIDE DEF vecs
  <2>6. rows' \in Seq(Row) /\ vectors' \in Seq(Vectors) /\ Len(vectors') = Len(rows')
    <3>1. rows' \in Seq(Row) /\ Len(rows') = Len(rows) + Len(Entries(batch))
      BY <2>3, <2>5, ConcatProperties
    <3>2. vectors' \in Seq(Vectors) /\ Len(vectors') = Len(vectors) + Len(vecs)
      BY <2>4, <2>5, ConcatProperties
    <3>3. QED
      BY <2>3, <2>4, <3>1, <3>2
  <2>7. ordinals' = FirstOrdinals(rows')
    BY <2>3, <2>5, SetDefaultsKeepFirst
  <2>8. QED
    BY <2>5, <2>6, <2>7, DroppedGraphIsCurrent
<1>3. ASSUME NEW id \in Ids, Delete(id) PROVE Inv'
  <2>1. ordinals[id] \in 1..Len(rows)
    BY <1>3, OrdinalIsARow DEF Delete
  <2>2. /\ rows' = RemoveAt(rows, ordinals[id]) /\ vectors' = RemoveAt(vectors, ordinals[id])
        /\ ordinals' = SetDefaults(NoOrdinals, 0, rows') /\ DropGraph
    BY <1>3 DEF Delete
  <2>3. rows' \in Seq(Row) /\ vectors' \in Seq(Vectors) /\ Len(vectors') = Len(rows')
    BY <2>1, <2>2, RemoveAtEntries
  <2>4. ordinals' = FirstOrdinals(rows')
    BY <2>2, <2>3, RebuiltAreFirst
  <2>5. QED
    BY <2>2, <2>3, <2>4, DroppedGraphIsCurrent
<1>4. ASSUME NEW id \in Ids, NEW payload \in Payloads, NEW vec \in Vectors,
             Update(id, payload, vec)
      PROVE  Inv'
  <2>1. ordinals[id] \in 1..Len(rows)
    BY <1>4, OrdinalIsARow DEF Update
  <2> DEFINE at == ordinals[id]
             row == [id |-> rows[at].id, payload |-> payload]
  <2>2. /\ rows' = [rows EXCEPT ![at] = row]
        /\ vectors' = [vectors EXCEPT ![ordinals[id]] = vec]
        /\ ordinals' = ordinals /\ DropGraph
    BY <1>4 DEF Update
  <2>3. row \in Row
    <3>1. rows[at] \in Row
      BY <2>1
    <3>2. QED
      BY <3>1 DEF Row
  <2>4.  /\ rows' \in Seq(Row) /\ Len(rows') = Len(rows)
        /\ \A i \in DOMAIN rows : rows'[i].id = rows[i].id
    <3> HIDE DEF row
    <3>1. rows' \in Seq(Row) /\ Len(rows') = Len(rows) /\ rows'[at] = row
          /\ \A i \in DOMAIN rows : i # at => rows'[i] = rows[i]
      BY <2>1, <2>2, <2>3
    <3>2. QED
      BY <3>1 DEF row
  <2>5. vectors' \in Seq(Vectors) /\ Len(vectors') = Len(rows')
    BY <2>1, <2>2, <2>4
  <2>6. FirstOrdinals(rows') = FirstOrdinals(rows)
    BY <2>4, OrdinalsLookAtIds
  <2>7. QED
    BY <2>2, <2>4, <2>5, <2>6, DroppedGraphIsCurrent
<1>5. CASE Reset
  <2>1. << >> \in Seq(Row)
    BY EmptySeq
  <2>2. NoOrdinals = FirstOrdinals(<<>>)
    BY <2>1, RebuiltAreFirst
  <2>3. QED
    BY <1>5, <2>2, DroppedGraphIsCurrent DEF Reset
<1>6. CASE Close
  BY <1>6, DroppedGraphIsCurrent DEF Close
<1>7. CASE Finalize
  BY <1>7 DEF Finalize, GraphIsCurrent, Count
<1>8. ASSUME NEW k, NEW F, SearchJasper(k, F) \/ SearchDevice(k, F) PROVE Inv'
  BY <1>8 DEF SearchJasper, SearchDevice, GraphIsCurrent, Count
<1>9. ASSUME NEW k, NEW F, SearchExact(k, F) PROVE Inv'
  <2>1. /\ UNCHANGED <<rows, ordinals, vectors>> /\ Count > 0
        /\ finalized' = TRUE /\ resident' = IF finalized THEN resident ELSE vectors
    BY <1>9 DEF SearchExact
  <2>2. QED
    BY <2>1 DEF GraphIsCurrent, Count
<1>10. QED
  BY <1>1, <1>2, <1>3, <1>4, <1>5, <1>6, <1>7, <1>8, <1>9 DEF Next

(* Ids resolve to their first row, and what is searched on the GPU is what *)
(* the index holds, in every reachable state.                              *)
LEMMA Invariance == Spec => []Inv
<1>1. QED
  BY InitInv, NextInv, PTL DEF Spec

(* No graph outlives a change of the rows, whatever is added, updated,     *)
(* deleted, finalized or searched, in whatever order.                      *)
THEOREM SearchedMatrixIsCurrent == Spec => []GraphIsCurrent
<1>1. Inv => GraphIsCurrent
  BY DEF Inv
<1>2. QED
  BY <1>1, Invariance, PTL

(* However often an id was added and deleted, it resolves to the first row *)
(* that has it, and only the ids of rows resolve.                          *)
THEOREM OrdinalsStayFirst == Spec => []IdsResolveToFirstRow
<1>1. ASSUME Inv PROVE IdsResolveToFirstRow
  <2>1. rows \in Seq(Row) /\ ordinals = FirstOrdinals(rows)
    BY <1>1 DEF Inv
  <2>2. DOMAIN ordinals = {r.id : r \in ToSet(rows)}
    BY <2>1, FirstOrdinalsAreFirst, Zenon
  <2>3. \A id \in DOMAIN ordinals :
          /\ rows[ordinals[id]].id = id
          /\ \A i \in 1..ordinals[id] - 1 : rows[i].id # id
    BY <2>1, FirstOrdinalsAreFirst, Zenon
  <2>4. QED
    BY <2>2, <2>3, Zenon DEF IdsResolveToFirstRow
<1>2. QED
  BY <1>1, Invariance, PTL

-----------------------------------------------------------------------------
(* What the steps keep besides: the index stays within its bound, and what *)
(* it answers is an answer.                                                *)
Kept ==
  /\ kind \in Kinds /\ Count <= MaxRows /\ finalized \in BOOLEAN
  /\ answer = NoAnswer \/ DOMAIN answer = {"hits", "k", "filter", "way"}

LEMMA AnswerIsARecord ==
  ASSUME NEW found, NEW k, NEW F
  PROVE  DOMAIN AnswerOf(found, k, F) = {"hits", "k", "filter", "way"}
  BY DEF AnswerOf

(* A search that answers at all answers with a record.                     *)
LEMMA SearchesAnswer ==
  ASSUME NEW k, NEW F, SearchJasper(k, F) \/ SearchDevice(k, F) \/ SearchExact(k, F)
  PROVE  answer' = NoAnswer \/ DOMAIN answer' = {"hits", "k", "filter", "way"}
<1>1. answer' = NoAnswer \/ \E found : answer' = AnswerOf(found, k, F)
  <2>1. CASE SearchJasper(k, F)
    BY <2>1 DEF SearchJasper
  <2>2. CASE SearchDevice(k, F)
    BY <2>2 DEF SearchDevice
  <2>3. CASE SearchExact(k, F)
    BY <2>3 DEF SearchExact
  <2>4. QED
    BY <2>1, <2>2, <2>3
<1>2. QED
  BY <1>1, AnswerIsARecord

LEMMA NextKept == Inv /\ Kept /\ [Next]_vars => Kept'
<1> SUFFICES ASSUME Inv, Kept, [Next]_vars PROVE Kept'
  OBVIOUS
<1> USE DEF Kept
<1>0. rows \in Seq(Row) /\ Len(rows) \in Nat /\ MaxRows \in Nat
  BY VectorIndexAssumption DEF Inv
<1>1. CASE UNCHANGED vars
  BY <1>1 DEF vars, Count
<1>2. ASSUME NEW batch \in Batches, AddMany(batch) PROVE Kept'
  <2> DEFINE New == [id : Ids, payload : Payloads, vec : Vectors]
  <2>1. batch \in Seq(New)
    BY SeqOfIsSeq, VectorIndexAssumption DEF Batches
  <2>2. \A i \in DOMAIN batch : batch[i] \in New
    <3> HIDE DEF New
    <3> QED BY <2>1
  <2>3. \A i \in DOMAIN batch : [id |-> batch[i].id, payload |-> batch[i].payload] \in Row
    BY <2>2 DEF Row
  <2>4. Entries(batch) \in [DOMAIN batch -> Row]
    BY <2>3 DEF Entries
  <2>5. Entries(batch) \in Seq(Row) /\ Len(Entries(batch)) = Len(batch)
    BY <2>1, <2>4, PerEntry
  <2>6. /\ rows' = rows \o Entries(batch) /\ Count + Len(batch) <= MaxRows
        /\ finalized' = FALSE /\ kind' = kind /\ answer' = NoAnswer
    BY <1>2 DEF AddMany, DropGraph
  <2>7. Len(rows') = Len(rows) + Len(Entries(batch))
    BY <1>0, <2>5, <2>6, ConcatProperties
  <2>8. Count' <= MaxRows
    BY <2>5, <2>6, <2>7 DEF Count
  <2>9. QED
    BY <2>6, <2>8
<1>3. ASSUME NEW id \in Ids, Delete(id) PROVE Kept'
  <2>1. ordinals[id] \in 1..Len(rows)
    BY <1>3, OrdinalIsARow DEF Delete
  <2>2. /\ rows' = RemoveAt(rows, ordinals[id])
        /\ finalized' = FALSE /\ kind' = kind /\ answer' = NoAnswer
    BY <1>3 DEF Delete, DropGraph
  <2>3. Len(rows') = Len(rows) - 1
    BY <1>0, <2>1, <2>2, RemoveAtEntries
  <2>4. Count' <= MaxRows
    <3>1. Len(rows) <= MaxRows
      BY DEF Count
    <3>2. QED
      BY <1>0, <2>3, <3>1 DEF Count
  <2>5. QED
    BY <2>2, <2>4
<1>4. ASSUME NEW id \in Ids, NEW payload \in Payloads, NEW vec \in Vectors,
             Update(id, payload, vec)
      PROVE  Kept'
  <2>1. /\ rows' = [rows EXCEPT ![ordinals[id]] =
                      [id |-> rows[ordinals[id]].id, payload |-> payload]]
        /\ finalized' = FALSE /\ kind' = kind /\ answer' = NoAnswer
    BY <1>4 DEF Update, DropGraph
  <2>2. Len(rows') = Len(rows)
    BY <1>0, <2>1
  <2>3. QED
    BY <1>0, <2>1, <2>2 DEF Count
<1>5. CASE Reset
  <2>1. rows' = <<>> /\ finalized' = FALSE /\ kind' = kind /\ answer' = NoAnswer
    BY <1>5 DEF Reset, DropGraph
  <2>2. Len(<<>>) = 0
    OBVIOUS
  <2>3. Count' <= MaxRows
    BY <1>0, <2>1, <2>2 DEF Count
  <2>4. QED
    BY <2>1, <2>3
<1>6. CASE Close
  BY <1>6 DEF Close, DropGraph, Count
<1>7. CASE Finalize
  BY <1>7 DEF Finalize, Count
<1>8. ASSUME NEW k, NEW F, SearchJasper(k, F) \/ SearchDevice(k, F) \/ SearchExact(k, F)
      PROVE  Kept'
  <2>1. kind' = kind /\ rows' = rows /\ finalized' \in BOOLEAN
    BY <1>8 DEF SearchJasper, SearchDevice, SearchExact
  <2>2. QED
    BY <1>8, <2>1, SearchesAnswer DEF Count
<1>9. QED
  BY <1>1, <1>2, <1>3, <1>4, <1>5, <1>6, <1>7, <1>8 DEF Next

(* The index has its type in every state: it never outgrows its bound, an  *)
(* ordinal is the number of a row there is, and a search returns an answer *)
(* or nothing.                                                             *)
THEOREM TypeCorrect == Spec => []TypeOK
<1>1. Init => Kept
  <2> SUFFICES ASSUME Init PROVE Kept
    OBVIOUS
  <2>1. kind \in Kinds /\ rows = <<>> /\ finalized = FALSE /\ answer = NoAnswer
    BY DEF Init
  <2>2. Count <= MaxRows
    <3>1. Len(<<>>) = 0
      OBVIOUS
    <3>2. QED
      BY <2>1, <3>1, VectorIndexAssumption DEF Count
  <2>3. QED
    BY <2>1, <2>2 DEF Kept
<1>2. ASSUME Inv, Kept PROVE TypeOK
  <2>1. rows \in Seq([id : Ids, payload : Payloads]) /\ vectors \in Seq(Vectors)
    BY <1>2 DEF Inv, Row
  <2>2. resident \in Seq(Vectors)
    <3>1. resident = <<>> \/ resident = vectors
      BY <1>2 DEF Inv, GraphIsCurrent
    <3>2. << >> \in Seq(Vectors)
      OBVIOUS
    <3>3. QED
      BY <2>1, <3>1, <3>2, Zenon
  <2>3. \A id \in DOMAIN ordinals : ordinals[id] \in DOMAIN rows
    BY <1>2, OrdinalIsARow, <2>1
  <2>4. DOMAIN ordinals \subseteq Ids
    <3>1. rows \in Seq(Row) /\ DOMAIN ordinals = {r.id : r \in ToSet(rows)}
      BY <1>2, FirstOrdinalsAreFirst, Zenon DEF Inv
    <3>2. \A r \in ToSet(rows) : r \in Row
      BY <3>1 DEF ToSet
    <3>3. QED
      BY <3>1, <3>2 DEF Row
  <2>5. QED
    BY <1>2, <2>1, <2>2, <2>3, <2>4 DEF TypeOK, Kept
<1>3. QED
  BY <1>1, <1>2, NextKept, InitInv, NextInv, PTL DEF Spec

-----------------------------------------------------------------------------
(* An answer is complete.                                                  *)

LEMMA LesserOfTwo ==
  ASSUME NEW a \in Nat, NEW b \in Nat
  PROVE  Min({a, b}) = IF a <= b THEN a ELSE b
<1>1. {a, b} \subseteq Nat /\ {a, b} # {}
  OBVIOUS
<1>2. Min({a, b}) \in {a, b} /\ \A y \in {a, b} : Min({a, b}) <= y
  BY <1>1, MinIsLeast
<1>3. QED
  BY <1>2

LEMMA GreaterOfTwo ==
  ASSUME NEW a \in Nat, NEW b \in Nat
  PROVE  Max({a, b}) = IF a >= b THEN a ELSE b
<1> DEFINE m == IF a >= b THEN a ELSE b
<1>1. m \in {a, b} /\ \A y \in {a, b} : m >= y
  OBVIOUS
<1>2. \A x \in {a, b} : (\A y \in {a, b} : x >= y) => x = m
  OBVIOUS
<1> HIDE DEF m
<1>3. Max({a, b}) = m
  BY <1>1, <1>2 DEF Max
<1>4. QED
  BY <1>3 DEF m

(* At least one hit is asked for, and no more than there are rows.         *)
LEMMA ClampedFits ==
  ASSUME Inv, Count > 0, NEW k \in Nat
  PROVE  Clamped(k) \in 1..Count /\ Count \in Nat
<1>1. Count \in Nat
  BY DEF Inv, Count
<1>2. Min({k, Count}) = IF k <= Count THEN k ELSE Count
  BY <1>1, LesserOfTwo
<1>3. PICK c \in Nat : c = Min({k, Count})
  BY <1>1, <1>2
<1>4. Max({1, c}) = IF 1 >= c THEN 1 ELSE c
  BY GreaterOfTwo
<1>5. QED
  BY <1>1, <1>2, <1>3, <1>4 DEF Clamped

(* As many different entries as places, if none comes twice.               *)
LEMMA InjectiveCounts ==
  ASSUME NEW S, NEW s \in Seq(S), IsInjective(s)
  PROVE  IsFiniteSet(ToSet(s)) /\ Cardinality(ToSet(s)) = Len(s)
<1>1. Len(s) \in Nat /\ DOMAIN s = 1..Len(s)
  OBVIOUS
<1>2. s \in [1..Len(s) -> ToSet(s)]
  <2>1. \A i \in 1..Len(s) : s[i] \in ToSet(s)
    BY <1>1 DEF ToSet
  <2>2. s = [i \in 1..Len(s) |-> s[i]]
    OBVIOUS
  <2>3. QED
    BY <2>1, <2>2
<1>3. \A i, j \in 1..Len(s) : s[i] = s[j] => i = j
  BY <1>1 DEF IsInjective
<1>4. \A e \in ToSet(s) : \E i \in 1..Len(s) : s[i] = e
  BY <1>1 DEF ToSet
<1>5. ExistsBijection(1..Len(s), ToSet(s))
  BY <1>2, <1>3, <1>4 DEF ExistsBijection, Bijection, Injection, Surjection, IsInjective
<1>6. Cardinality(ToSet(s)) = Len(s)
  BY <1>1, <1>5, FS_CountingElements
<1>7. IsFiniteSet(ToSet(s))
  BY MembersOfSeq
<1>8. QED
  BY <1>6, <1>7

(* What a search finds: rows of the index, by vectors of now ...           *)
FoundRows(found) ==
  /\ found.rows \in Seq(DOMAIN rows)
  /\ found.over = vectors /\ found.where \in {"host", "gpu"}
ScoreOf(found, r) == Scores[found.where][vectors[r]]

(* ... each once and scored, unless the host took a beam as it came, ...   *)
Sound(found) ==
  IsInjective(found.rows) /\ found.finite = DOMAIN found.rows /\ found.way # "beam"

(* ... the best of the allowed rows first, if rows are left out ...        *)
BestFirst(found, F) ==
  /\ \A i, j \in 1..Len(found.rows) :
       i < j => ScoreOf(found, found.rows[i]) >= ScoreOf(found, found.rows[j])
  /\ \A i \in ToSet(found.rows), r \in Allowed(F) \ ToSet(found.rows) :
       ScoreOf(found, i) >= ScoreOf(found, r)

(* ... and enough of them to answer from.                                  *)
Enough(found, k, F) ==
  \/ Allowed(F) \subseteq ToSet(found.rows)
  \/ Cardinality(ToSet(found.rows) \cap Allowed(F)) >= Clamped(k)

(* What the filter leaves of the hits, and where they were found.          *)
KeptOf(found, F) ==
  Filtered(HitsFor(found), {h \in ToSet(HitsFor(found)) : rows[h.row].payload \in F})
HitAt(found, p) ==
  [row |-> found.rows[p],
   score |-> IF p \in found.finite THEN ScoreOf(found, found.rows[p]) ELSE NoScore]
KeptAt(at, found, F) ==
  /\ at \in [1..Len(KeptOf(found, F)) -> 1..Len(found.rows)]
  /\ Increases(at, Len(KeptOf(found, F)))
  /\ \A j \in 1..Len(KeptOf(found, F)) :
       KeptOf(found, F)[j] = HitAt(found, at[j]) /\ found.rows[at[j]] \in Allowed(F)
  /\ \A p \in 1..Len(found.rows) :
       found.rows[p] \in Allowed(F) => \E j \in 1..Len(KeptOf(found, F)) : at[j] = p

LEMMA KeptIsFound ==
  ASSUME Inv, NEW found, FoundRows(found), NEW F
  PROVE  /\ Len(KeptOf(found, F)) \in Nat
         /\ KeptOf(found, F) \in Seq(ToSet(HitsFor(found)))
         /\ \E at : KeptAt(at, found, F)
<1> DEFINE hits == HitsFor(found)
           S == ToSet(hits)
           keep == {h \in S : rows[h.row].payload \in F}
           n == Len(found.rows)
<1>1. /\ n \in Nat /\ DOMAIN found.rows = 1..n
      /\ \A p \in 1..n : found.rows[p] \in DOMAIN rows
  BY DEF FoundRows
<1>2. DOMAIN hits = 1..n /\ \A p \in 1..n : hits[p] = HitAt(found, p)
  BY <1>1 DEF HitsFor, HitAt, ScoreOf, FoundRows
<1>3. hits \in Seq(S) /\ Len(hits) = n
  <2>1. hits = [p \in 1..n |-> hits[p]] /\ \A p \in 1..n : hits[p] \in S
    BY <1>1, <1>2 DEF HitsFor, ToSet
  <2> HIDE DEF hits, S, n
  <2>2. hits \in [1..n -> S]
    BY <2>1
  <2>3. QED
    BY <1>1, <2>2
<1>4. \A p \in 1..n : hits[p] \in keep <=> found.rows[p] \in Allowed(F)
  <2>1. ASSUME NEW p \in 1..n PROVE hits[p] \in keep <=> found.rows[p] \in Allowed(F)
    <3>1. hits[p] \in S
      <4> HIDE DEF hits
      <4>1. QED
        BY <1>2 DEF ToSet
    <3>2. hits[p].row = found.rows[p]
      <4>1. hits[p] = HitAt(found, p)
        BY <1>2
      <4> HIDE DEF hits
      <4>2. QED
        BY <4>1 DEF HitAt
    <3>3. found.rows[p] \in DOMAIN rows
      BY <1>1
    <3> HIDE DEF hits, S
    <3>4. QED
      BY <3>1, <3>2, <3>3 DEF Allowed
  <2>2. QED
    BY <2>1
<1>5. KeptOf(found, F) = Filtered(hits, keep)
  BY DEF KeptOf
<1> HIDE DEF hits, S, keep
<1>6. /\ Filtered(hits, keep) \in Seq(S)
      /\ \E at : Picks(at, Filtered(hits, keep), hits, keep, Len(hits))
  BY <1>3, FilteredPicks
<1>7. PICK at : Picks(at, KeptOf(found, F), hits, keep, n)
  BY <1>3, <1>5, <1>6
<1> DEFINE kept == KeptOf(found, F)
<1>8. /\ at \in [1..Len(kept) -> 1..n] /\ Increases(at, Len(kept))
      /\ \A j \in 1..Len(kept) : kept[j] = hits[at[j]]
      /\ \A p \in 1..n : hits[p] \in keep <=> \E j \in 1..Len(kept) : at[j] = p
  BY <1>7 DEF Picks, FoundAt, KeepsAll
<1>9. Len(kept) \in Nat /\ kept \in Seq(S)
  BY <1>5, <1>6
<1> HIDE DEF kept, n
<1>10. ASSUME NEW j \in 1..Len(kept)
       PROVE  kept[j] = HitAt(found, at[j]) /\ found.rows[at[j]] \in Allowed(F)
  <2>1. at[j] \in 1..n
    BY <1>8
  <2>2. hits[at[j]] \in keep
    BY <1>8, <2>1
  <2>3. QED
    BY <1>2, <1>4, <1>8, <2>1, <2>2
<1>11. ASSUME NEW p \in 1..n, found.rows[p] \in Allowed(F)
       PROVE  \E j \in 1..Len(kept) : at[j] = p
  BY <1>4, <1>8, <1>11
<1>12. KeptAt(at, found, F)
  BY <1>8, <1>10, <1>11 DEF KeptAt, kept, n
<1>13. QED
  BY <1>9, <1>12 DEF S, hits, kept

(* None of them is there twice, so they are as many as the allowed rows    *)
(* among those that were found.                                            *)
LEMMA KeptAreCounted ==
  ASSUME Inv, NEW found, FoundRows(found), Sound(found), NEW F
  PROVE  Len(KeptOf(found, F)) = Cardinality(ToSet(found.rows) \cap Allowed(F))
<1>1. PICK at : KeptAt(at, found, F)
  BY KeptIsFound
<1>2. PICK m \in Nat : m = Len(KeptOf(found, F))
  BY KeptIsFound
<1> DEFINE A == ToSet(found.rows) \cap Allowed(F)
           s == [j \in 1..m |-> found.rows[at[j]]]
<1>3. /\ at \in [1..m -> 1..Len(found.rows)] /\ \A i, j \in 1..m : i < j => at[i] < at[j]
      /\ \A j \in 1..m : found.rows[at[j]] \in Allowed(F)
      /\ \A p \in 1..Len(found.rows) : found.rows[p] \in Allowed(F) => \E j \in 1..m : at[j] = p
  BY <1>1, <1>2 DEF KeptAt, Increases
<1>4. DOMAIN found.rows = 1..Len(found.rows) /\ Len(found.rows) \in Nat /\ IsInjective(found.rows)
  BY DEF FoundRows, Sound
<1>5. \A j \in 1..m : at[j] \in 1..Len(found.rows) /\ s[j] = found.rows[at[j]] /\ s[j] \in A
  BY <1>3, <1>4 DEF ToSet
<1>6. s \in Seq(A) /\ Len(s) = m /\ DOMAIN s = 1..m
  <2>1. s \in [1..m -> A]
    BY <1>5
  <2> HIDE DEF s, A
  <2>2. QED
    BY <2>1
<1>7. IsInjective(s)
  <2>1. ASSUME NEW i \in 1..m, NEW j \in 1..m, s[i] = s[j] PROVE i = j
    <3>1. at[i] = at[j]
      BY <1>4, <1>5, <2>1 DEF IsInjective
    <3>2. at[i] \in Nat
      BY <1>5
    <3>3. ~(i < j) /\ ~(j < i)
      BY <1>3, <3>1, <3>2
    <3>4. QED
      BY <3>3
  <2>2. QED
    BY <1>6, <2>1 DEF IsInjective
<1>8. ToSet(s) = A
  <2>1. ToSet(s) \subseteq A
    <3> HIDE DEF s, A
    <3>1. QED
      BY <1>5, <1>6 DEF ToSet
  <2>2. ASSUME NEW r \in A PROVE r \in ToSet(s)
    <3>1. PICK p \in 1..Len(found.rows) : r = found.rows[p]
      BY <1>4, <2>2 DEF ToSet
    <3>2. PICK j \in 1..m : at[j] = p
      BY <1>3, <2>2, <3>1
    <3>3. s[j] = r
      BY <1>5, <3>1, <3>2
    <3> HIDE DEF s
    <3>4. QED
      BY <1>6, <3>3 DEF ToSet
  <2>3. QED
    BY <2>1, <2>2
<1> HIDE DEF s, A
<1>9. Cardinality(A) = m
  BY <1>6, <1>7, <1>8, InjectiveCounts
<1>10. QED
  BY <1>2, <1>9 DEF A

(* The table of VectorTable.                                               *)
TableOf(rs, vs) ==
  [i \in DOMAIN rs |-> [id |-> rs[i].id, payload |-> rs[i].payload, vec |-> vs[i]]]

LEMMA TableIsOfRows ==
  ASSUME NEW rs \in Seq(Row), NEW vs \in Seq(Vectors), Len(vs) = Len(rs)
  PROVE  /\ TableOf(rs, vs) \in Seq(Table!Rows) /\ Len(TableOf(rs, vs)) = Len(rs)
         /\ DOMAIN TableOf(rs, vs) = 1..Len(rs) /\ DOMAIN rs = 1..Len(rs) /\ Len(rs) \in Nat
         /\ \A i \in 1..Len(rs) :
              /\ TableOf(rs, vs)[i] = [id |-> rs[i].id, payload |-> rs[i].payload, vec |-> vs[i]]
              /\ rs[i].id \in Ids /\ rs[i].payload \in Payloads /\ vs[i] \in Vectors
<1> DEFINE t == TableOf(rs, vs)
<1>1. DOMAIN rs = 1..Len(rs) /\ Len(rs) \in Nat
  OBVIOUS
<1>2. \A i \in 1..Len(rs) : rs[i] \in Row /\ vs[i] \in Vectors
  BY ElementOfSeq
<1>3. DOMAIN t = 1..Len(rs) /\ \A i \in 1..Len(rs) :
        t[i] = [id |-> rs[i].id, payload |-> rs[i].payload, vec |-> vs[i]]
  BY <1>1 DEF TableOf
<1>4. \A i \in 1..Len(rs) : rs[i].id \in Ids /\ rs[i].payload \in Payloads
  BY <1>2 DEF Row
<1>5. \A i \in 1..Len(rs) : t[i] \in Table!Rows
  BY <1>2, <1>3, <1>4 DEF Table!Rows
<1>6. t = [i \in 1..Len(rs) |-> t[i]]
  BY <1>1 DEF TableOf
<1> HIDE DEF t
<1>7. t \in [1..Len(rs) -> Table!Rows]
  BY <1>5, <1>6
<1>8. t \in Seq(Table!Rows) /\ Len(t) = Len(rs)
  BY <1>1, <1>7
<1>9. QED
  BY <1>1, <1>2, <1>3, <1>4, <1>8 DEF t

(* The table counts and compares as the index does.                        *)
LEMMA TableOperators ==
  ASSUME NEW S
  PROVE  Table!Min(S) = Min(S) /\ Table!Max(S) = Max(S) /\ Table!Cardinality(S) = Cardinality(S)
<1>1. Table!Min(S) = Min(S)
  BY DEF Table!Min, Min
<1>2. Table!Max(S) = Max(S)
  BY DEF Table!Max, Max
<1>3. Table!Cardinality(S) = Cardinality(S)
  BY DEF Table!Cardinality, Cardinality
<1>4. QED
  BY <1>1, <1>2, <1>3

LEMMA TableLooksTheSame ==
  ASSUME Inv, NEW k \in Nat, NEW F
  PROVE  /\ Table!Clamped(k) = Clamped(k) /\ Table!Allowed(F) = Allowed(F)
         /\ DOMAIN TableOf(rows, vectors) = DOMAIN rows /\ Len(TableOf(rows, vectors)) = Count
         /\ \A r \in 1..Count : TableOf(rows, vectors)[r].vec = vectors[r]
<1>1. /\ rows \in Seq(Row) /\ vectors \in Seq(Vectors) /\ Len(vectors) = Len(rows)
      /\ DOMAIN rows = 1..Count /\ Count \in Nat /\ Len(rows) = Count
  BY DEF Inv, Count
<1>2. Len(TableOf(rows, vectors)) = Count /\ DOMAIN TableOf(rows, vectors) = DOMAIN rows
  BY <1>1, TableIsOfRows
<1>3. Table!Clamped(k) = Clamped(k)
  <2>1. Len(TableOf(rows, vectors)) = Len(rows) /\ Count = Len(rows)
    BY <1>2 DEF Count
  <2>2. Table!Clamped(k) = Max({1, Min({k, Len(TableOf(rows, vectors))})})
    BY TableOperators, Zenon DEF Table!Clamped, TableOf
  <2>3. QED
    BY <2>1, <2>2 DEF Clamped
<1>4. Table!Allowed(F) = Allowed(F)
  BY <1>1, TableIsOfRows DEF Table!Allowed, Allowed, TableOf
<1>5. \A r \in 1..Count : TableOf(rows, vectors)[r].vec = vectors[r]
  <2>1. ASSUME NEW r \in 1..Count PROVE TableOf(rows, vectors)[r].vec = vectors[r]
    <3>1. TableOf(rows, vectors)[r] =
            [id |-> rows[r].id, payload |-> rows[r].payload, vec |-> vectors[r]]
      BY <1>1, TableIsOfRows
    <3>2. QED
      BY <3>1
  <2>2. QED
    BY <2>1
<1>6. QED
  BY <1>2, <1>3, <1>4, <1>5

(* Enough of the allowed rows, the best first where rows are left out,     *)
(* make a complete answer once they are filtered and cut.                  *)
LEMMA AnswerIsComplete ==
  ASSUME Inv, Count > 0, NEW found, FoundRows(found), Sound(found), NEW k \in Nat, NEW F,
         Enough(found, k, F),
         Rejects(F) \/ Clamped(k) = Count => BestFirst(found, F)
  PROVE  Table!Complete(AnswerOf(found, k, F).hits, k, F, found.way)
<1> DEFINE table == TableOf(rows, vectors)
           kept == KeptOf(found, F)
           c == Clamped(k)
           m == Min({Len(kept), c})
           hits == SubSeq(kept, 1, m)
<1>1. /\ rows \in Seq(Row) /\ vectors \in Seq(Vectors) /\ Len(vectors) = Len(rows)
      /\ DOMAIN rows = 1..Count /\ Count \in Nat /\ Len(rows) = Count
  BY DEF Inv, Count
<1>2. c \in 1..Count
  BY ClampedFits
<1>3. Table!Clamped(k) = c
  BY TableLooksTheSame
<1>4. Table!Allowed(F) = Allowed(F) /\ DOMAIN table = DOMAIN rows
  BY TableLooksTheSame
<1>5. PICK at : KeptAt(at, found, F)
  BY KeptIsFound
<1>6. PICK l \in Nat : l = Len(kept)
  BY KeptIsFound
<1>7. PICK n \in Nat : n = Len(found.rows)
  BY DEF FoundRows
<1>8. /\ at \in [1..l -> 1..n] /\ \A i, j \in 1..l : i < j => at[i] < at[j]
      /\ \A j \in 1..l : kept[j] = HitAt(found, at[j]) /\ found.rows[at[j]] \in Allowed(F)
      /\ \A p \in 1..n : found.rows[p] \in Allowed(F) => \E j \in 1..l : at[j] = p
  BY <1>5, <1>6, <1>7 DEF KeptAt, Increases
<1>9. /\ found.rows \in Seq(DOMAIN rows) /\ DOMAIN found.rows = 1..n /\ IsInjective(found.rows)
      /\ found.finite = 1..n /\ found.way # "beam"
      /\ found.over = vectors /\ found.where \in {"host", "gpu"}
  BY <1>7 DEF FoundRows, Sound
<1>10. AnswerOf(found, k, F).hits = hits
  BY DEF AnswerOf, KeptOf
<1>11. m = (IF l <= c THEN l ELSE c) /\ m \in 0..l
  BY <1>2, <1>6, LesserOfTwo
<1> HIDE DEF m, c
<1>12. Len(hits) = m /\ DOMAIN hits = 1..m /\ \A i \in 1..m : hits[i] = kept[i]
  <2>1. kept \in Seq(ToSet(HitsFor(found)))
    BY KeptIsFound
  <2> HIDE DEF kept
  <2>2. QED
    BY <1>6, <1>11, <2>1
<1> HIDE DEF kept, hits, table
<1>13. \A i \in 1..m : i \in 1..l /\ at[i] \in 1..n /\ hits[i] = HitAt(found, at[i])
  BY <1>8, <1>11, <1>12
<1>14. \A i \in 1..m : /\ hits[i].row = found.rows[at[i]]
                       /\ hits[i].score = ScoreOf(found, found.rows[at[i]])
  <2>1. ASSUME NEW i \in 1..m
        PROVE  /\ hits[i].row = found.rows[at[i]]
               /\ hits[i].score = ScoreOf(found, found.rows[at[i]])
    <3>1. hits[i] = HitAt(found, at[i]) /\ at[i] \in found.finite
      BY <1>9, <1>13
    <3>2. QED
      BY <3>1 DEF HitAt
  <2>2. QED
    BY <2>1
<1>15. Len(hits) = Min({c, Cardinality(Allowed(F))})
  <2>1. IsFiniteSet(DOMAIN rows) /\ Allowed(F) \subseteq DOMAIN rows
    BY <1>1, FS_Interval DEF Allowed
  <2>2. IsFiniteSet(Allowed(F)) /\ Cardinality(Allowed(F)) \in Nat
    BY <2>1, FS_Subset, FS_CardinalityType
  <2>3. l = Cardinality(ToSet(found.rows) \cap Allowed(F))
    BY <1>6, KeptAreCounted DEF kept
  <2>4. l <= Cardinality(Allowed(F))
    BY <2>2, <2>3, FS_Subset
  <2>5. l = Cardinality(Allowed(F)) \/ l >= c
    <3>1. CASE Allowed(F) \subseteq ToSet(found.rows)
      <4>1. ToSet(found.rows) \cap Allowed(F) = Allowed(F)
        BY <3>1
      <4>2. QED
        BY <2>3, <4>1
    <3>2. CASE ~(Allowed(F) \subseteq ToSet(found.rows))
      BY <2>3, <3>2 DEF Enough, c
    <3>3. QED
      BY <3>1, <3>2
  <2>6. Min({c, Cardinality(Allowed(F))})
          = IF c <= Cardinality(Allowed(F)) THEN c ELSE Cardinality(Allowed(F))
    BY <1>2, <2>2, LesserOfTwo
  <2>7. PICK a \in Nat : a = Cardinality(Allowed(F))
    BY <2>2
  <2>8. m = IF c <= a THEN c ELSE a
    BY <1>2, <1>11, <2>4, <2>5, <2>7
  <2>9. QED
    BY <1>12, <2>6, <2>7, <2>8
<1>16. ASSUME NEW i \in 1..m, NEW j \in 1..m, hits[i].row = hits[j].row PROVE i = j
  <2>1. at[i] = at[j]
    BY <1>9, <1>13, <1>14, <1>16 DEF IsInjective
  <2>2. at[i] \in Nat
    BY <1>13
  <2>3. ~(i < j) /\ ~(j < i)
    BY <1>8, <1>13, <2>1, <2>2
  <2>4. QED
    BY <2>3
<1>17. ASSUME NEW i \in 1..m PROVE hits[i].row \in Allowed(F)
  BY <1>8, <1>13, <1>14
<1>18. \A r \in 1..Count : table[r].vec = vectors[r]
  BY TableLooksTheSame DEF table
<1>19. ASSUME NEW i \in 1..m PROVE hits[i].score = Scores[found.where][table[hits[i].row].vec]
  <2>1. hits[i].row \in 1..Count
    BY <1>1, <1>17 DEF Allowed
  <2>2. QED
    BY <1>14, <1>18, <2>1 DEF ScoreOf
<1>20. DOMAIN Scores = {"host", "gpu"}
  BY VectorIndexAssumption
<1>21. ASSUME Allowed(F) # DOMAIN rows \/ c = Count
       PROVE  /\ \A i, j \in 1..m : i < j => hits[i].score >= hits[j].score
              /\ \A i \in 1..m : \A r \in Allowed(F) \ {hits[j].row : j \in 1..m} :
                   hits[i].score >= Scores[found.where][table[r].vec]
  <2>1. BestFirst(found, F)
    BY <1>21 DEF Rejects, c
  <2>2. /\ \A i, j \in 1..n :
             i < j => ScoreOf(found, found.rows[i]) >= ScoreOf(found, found.rows[j])
        /\ \A i \in ToSet(found.rows), r \in Allowed(F) \ ToSet(found.rows) :
             ScoreOf(found, i) >= ScoreOf(found, r)
    BY <1>7, <2>1 DEF BestFirst
  <2>3. ASSUME NEW i \in 1..m, NEW j \in 1..m, i < j PROVE hits[i].score >= hits[j].score
    BY <1>8, <1>13, <1>14, <2>2, <2>3
  <2>4. ASSUME NEW i \in 1..m, NEW r \in Allowed(F) \ {hits[j].row : j \in 1..m}
        PROVE  hits[i].score >= Scores[found.where][table[r].vec]
    <3>1. Scores[found.where][table[r].vec] = ScoreOf(found, r)
      BY <1>1, <1>18 DEF ScoreOf, Allowed
    <3>2. hits[i].score = ScoreOf(found, found.rows[at[i]]) /\ at[i] \in 1..n
      BY <1>13, <1>14
    <3>3. CASE r \in ToSet(found.rows)
      <4>1. PICK p \in 1..n : found.rows[p] = r
        BY <1>9, <3>3 DEF ToSet
      <4>2. PICK j \in 1..l : at[j] = p
        BY <1>8, <4>1
      <4>3. j \notin 1..m
        BY <1>14, <4>1, <4>2
      <4>4. i < j
        BY <1>11, <4>3
      <4>5. at[i] < p
        BY <1>8, <1>13, <4>2, <4>4
      <4>6. QED
        BY <2>2, <3>1, <3>2, <4>1, <4>5
    <3>4. CASE r \notin ToSet(found.rows)
      <4>1. found.rows[at[i]] \in ToSet(found.rows)
        BY <1>9, <3>2 DEF ToSet
      <4>2. QED
        BY <2>2, <3>1, <3>2, <3>4, <4>1
    <3>5. QED
      BY <3>3, <3>4
  <2>5. QED
    BY <2>3, <2>4
<1>22. /\ Table!Scored(hits, found.where, found.way)
       /\ Allowed(F) # DOMAIN rows \/ c = Count => Table!Best(hits, F)
  <2>1. Table!Scored(hits, found.where, found.way)
    BY <1>12, <1>19 DEF Table!Scored, table, TableOf
  <2>2. ASSUME Allowed(F) # DOMAIN rows \/ c = Count PROVE Table!Best(hits, F)
    <3>1. /\ \A i, j \in DOMAIN hits : i < j => hits[i].score >= hits[j].score
          /\ \A i \in DOMAIN hits :
               \A r \in Table!Allowed(F) \ {hits[j].row : j \in DOMAIN hits} :
                 hits[i].score >= Scores[found.where][table[r].vec]
      BY <1>4, <1>12, <1>21, <2>2
    <3>2. QED
      BY <1>9, <1>20, <3>1 DEF Table!Best, table, TableOf
  <2>3. QED
    BY <2>1, <2>2
<1>23. Len(table) = Count
  BY TableLooksTheSame DEF table
<1>24. Len(hits) = Table!Min({Table!Clamped(k), Table!Cardinality(Table!Allowed(F))})
  BY <1>3, <1>4, <1>15, TableOperators, Zenon
<1>25. DOMAIN TableOf(rows, vectors) = DOMAIN rows /\ Len(TableOf(rows, vectors)) = Count
  BY <1>4, <1>23 DEF table
<1>26. \E where \in DOMAIN Scores : Table!Scored(hits, where, found.way)
  BY <1>9, <1>20, <1>22
<1>27. Table!Complete(hits, k, F, found.way)
  <2>1. /\ found.way # "beam" => Table!Different(hits)
        /\ \A i \in DOMAIN hits : hits[i].row \in Table!Allowed(F)
    BY <1>4, <1>12, <1>16, <1>17 DEF Table!Different
  <2>2. Table!Allowed(F) # DOMAIN TableOf(rows, vectors) \/ Table!Clamped(k) = Len(TableOf(rows, vectors))
          => found.way # "beam" /\ Table!Best(hits, F)
    BY <1>3, <1>4, <1>9, <1>22, <1>25
  <2>3. QED
    BY <1>24, <1>26, <2>1, <2>2, Zenon DEF Table!Complete, TableOf
<1>28. QED
  BY <1>10, <1>27

(* A beam taken as it came, when every row may be a hit, has as many hits  *)
(* as asked for, of rows there are; nothing is filtered out of it.         *)
LEMMA BeamAnswerIsComplete ==
  ASSUME Inv, Count > 0, NEW found, FoundRows(found), found.way = "beam", NEW k \in Nat, NEW F,
         ~Rejects(F), Clamped(k) < Count, Len(found.rows) = Clamped(k)
  PROVE  Table!Complete(AnswerOf(found, k, F).hits, k, F, found.way)
<1> DEFINE kept == KeptOf(found, F)
           hits == SubSeq(kept, 1, Min({Len(kept), Clamped(k)}))
<1>1. Clamped(k) \in 1..Count /\ Count \in Nat
  BY ClampedFits
<1>2. PICK n \in Nat : n = Clamped(k)
  BY <1>1
<1>3. PICK at : KeptAt(at, found, F)
  BY KeptIsFound
<1>4. PICK l \in Nat : l = Len(kept)
  BY KeptIsFound
<1>5. /\ at \in [1..l -> 1..n] /\ \A i, j \in 1..l : i < j => at[i] < at[j]
      /\ \A j \in 1..l : kept[j] = HitAt(found, at[j]) /\ found.rows[at[j]] \in Allowed(F)
      /\ \A p \in 1..n : found.rows[p] \in Allowed(F) => \E j \in 1..l : at[j] = p
  BY <1>2, <1>3, <1>4 DEF KeptAt, Increases
<1>6. Allowed(F) = DOMAIN rows /\ DOMAIN rows = 1..Count
  BY DEF Rejects, Inv, Count
<1>7. \A p \in 1..n : found.rows[p] \in DOMAIN rows
  BY <1>2 DEF FoundRows
<1>8. l = n
  <2>1. at \in Seq(1..n) /\ Len(at) = l /\ DOMAIN at = 1..l
    BY <1>5
  <2>2. IsInjective(at)
    <3>1. ASSUME NEW i \in 1..l, NEW j \in 1..l, at[i] = at[j] PROVE i = j
      <4>1. at[i] \in Nat
        BY <1>5
      <4>2. ~(i < j) /\ ~(j < i)
        BY <1>5, <3>1, <4>1
      <4>3. QED
        BY <4>2
    <3>2. QED
      BY <2>1, <3>1 DEF IsInjective
  <2>3. ToSet(at) = 1..n
    <3>1. ToSet(at) \subseteq 1..n
      BY <1>5, <2>1 DEF ToSet
    <3>2. \A p \in 1..n : \E j \in 1..l : at[j] = p
      BY <1>5, <1>6, <1>7
    <3>3. QED
      BY <2>1, <3>1, <3>2 DEF ToSet
  <2>4. Cardinality(ToSet(at)) = l
    BY <2>1, <2>2, InjectiveCounts
  <2>5. Cardinality(1..n) = n
    BY FS_Interval
  <2>6. QED
    BY <2>3, <2>4, <2>5
<1>9. Min({Len(kept), Clamped(k)}) = n
  BY <1>2, <1>4, <1>8, LesserOfTwo
<1>10. AnswerOf(found, k, F).hits = hits
  BY DEF AnswerOf, KeptOf
<1>11. kept \in Seq(ToSet(HitsFor(found)))
  BY KeptIsFound
<1> HIDE DEF kept
<1>12. Len(hits) = n /\ DOMAIN hits = 1..n /\ \A i \in 1..n : hits[i] = kept[i]
  <2>1. \A i \in 1..n : kept[i] \in ToSet(HitsFor(found))
    BY <1>4, <1>8, <1>11, ElementOfSeq
  <2>2. hits = SubSeq(kept, 1, n)
    BY <1>9
  <2>3. /\ SubSeq(kept, 1, n) \in Seq(ToSet(HitsFor(found))) /\ Len(SubSeq(kept, 1, n)) = n
        /\ \A i \in 1..n : SubSeq(kept, 1, n)[i] = kept[i]
    BY <1>1, <1>2, <2>1, SubSeqProperties
  <2>4. DOMAIN SubSeq(kept, 1, n) = 1..n
    BY <2>3
  <2>5. QED
    BY <2>2, <2>3, <2>4, Zenon
<1> HIDE DEF hits
<1>13. ASSUME NEW i \in 1..n
       PROVE  /\ hits[i].row \in Allowed(F)
              /\ \/ hits[i].score = Scores[found.where][vectors[hits[i].row]]
                 \/ hits[i].score = NoScore
  <2>1. hits[i] = HitAt(found, at[i]) /\ found.rows[at[i]] \in Allowed(F)
    BY <1>5, <1>8, <1>12
  <2>2. hits[i].row = found.rows[at[i]]
    BY <2>1 DEF HitAt
  <2>3. hits[i].score = IF at[i] \in found.finite THEN ScoreOf(found, found.rows[at[i]]) ELSE NoScore
    BY <2>1 DEF HitAt
  <2>4. QED
    BY <2>1, <2>2, <2>3 DEF ScoreOf
<1>14. /\ Table!Clamped(k) = Clamped(k) /\ Table!Allowed(F) = Allowed(F)
       /\ DOMAIN TableOf(rows, vectors) = DOMAIN rows /\ Len(TableOf(rows, vectors)) = Count
       /\ \A r \in 1..Count : TableOf(rows, vectors)[r].vec = vectors[r]
  BY TableLooksTheSame
<1>15. \E where \in DOMAIN Scores : Table!Scored(hits, where, found.way)
  <2>1. \A i \in DOMAIN hits :
          \/ hits[i].score = Scores[found.where][TableOf(rows, vectors)[hits[i].row].vec]
          \/ found.way = "beam" /\ hits[i].score = NoScore
    BY <1>6, <1>12, <1>13, <1>14
  <2>2. Table!Scored(hits, found.where, found.way)
    BY <2>1 DEF Table!Scored, TableOf
  <2>3. found.where \in DOMAIN Scores
    BY VectorIndexAssumption DEF FoundRows
  <2>4. QED
    BY <2>2, <2>3
<1>16. Len(hits) = Table!Min({Table!Clamped(k), Table!Cardinality(Table!Allowed(F))})
  <2>1. Cardinality(Allowed(F)) = Count
    BY <1>1, <1>6, FS_Interval
  <2>2. Min({n, Count}) = n
    BY <1>1, <1>2, LesserOfTwo
  <2>3. QED
    BY <1>2, <1>12, <1>14, <2>1, <2>2, TableOperators, Zenon
<1>17. \A i \in DOMAIN hits : hits[i].row \in Table!Allowed(F)
  BY <1>12, <1>13, <1>14
<1>18. Table!Allowed(F) = DOMAIN TableOf(rows, vectors) /\ Table!Clamped(k) # Len(TableOf(rows, vectors))
  BY <1>1, <1>6, <1>14
<1>19. Table!Complete(hits, k, F, found.way)
  BY <1>15, <1>16, <1>17, <1>18, Zenon DEF Table!Complete, TableOf
<1>20. QED
  BY <1>10, <1>19

-----------------------------------------------------------------------------
(* Every way a search goes finds rows an answer can be made of.            *)

(* The best rows of a matrix are in order, and no other eligible row is    *)
(* better.                                                                 *)
Ranked(found, eligible) ==
  /\ ToSet(found.rows) \subseteq eligible
  /\ \A F : Allowed(F) \subseteq eligible => BestFirst(found, F)

LEMMA TopKIsRanked ==
  ASSUME NEW where \in {"host", "gpu"}, NEW eligible, NEW k, NEW s \in TopK(vectors, where, eligible, k),
         NEW found, found = Exact(s, vectors, where)
  PROVE  /\ FoundRows(found) /\ Sound(found) /\ Len(found.rows) = k
         /\ Ranked(found, eligible)
<1> DEFINE score(i) == Scores[where][vectors[i]]
<1>1. /\ s \in SeqOf(DOMAIN rows, k) /\ Len(s) = k /\ IsInjective(s)
      /\ ToSet(s) \subseteq eligible
      /\ \A i, j \in DOMAIN s : i < j => score(s[i]) >= score(s[j])
      /\ \A i \in ToSet(s), j \in eligible \ ToSet(s) : score(i) >= score(j)
  BY DEF TopK, Distinct
<1>2. s \in Seq(DOMAIN rows)
  BY <1>1, SeqOfIsSeq
<1>3. /\ found.rows = s /\ found.over = vectors /\ found.where = where
      /\ found.finite = DOMAIN s /\ found.way = "exact"
  BY DEF Exact
<1>4. \A i : ScoreOf(found, i) = score(i)
  BY <1>3 DEF ScoreOf
<1> HIDE DEF score
<1>5. FoundRows(found) /\ Sound(found) /\ Len(found.rows) = k
  BY <1>1, <1>2, <1>3 DEF FoundRows, Sound
<1>6. ASSUME NEW F, Allowed(F) \subseteq eligible PROVE BestFirst(found, F)
  <2>1. DOMAIN s = 1..Len(s)
    BY <1>2
  <2>2. \A i, j \in 1..Len(found.rows) :
          i < j => ScoreOf(found, found.rows[i]) >= ScoreOf(found, found.rows[j])
    BY <1>1, <1>3, <1>4, <2>1
  <2>3. \A i \in ToSet(found.rows), r \in Allowed(F) \ ToSet(found.rows) :
          ScoreOf(found, i) >= ScoreOf(found, r)
    BY <1>1, <1>3, <1>4, <1>6
  <2>4. QED
    BY <2>2, <2>3 DEF BestFirst
<1>7. QED
  BY <1>1, <1>3, <1>5, <1>6 DEF Ranked

(* Scoring every row leaves none of them better than those it found.       *)
LEMMA ExactIsRanked ==
  ASSUME NEW n, NEW found, found \in ExactOnHost(n) \/ (resident = vectors /\ found \in ExactOnGpu(n))
  PROVE  /\ FoundRows(found) /\ Sound(found) /\ Len(found.rows) = n
         /\ Ranked(found, DOMAIN rows)
<1>1. CASE found \in ExactOnHost(n)
  <2>1. PICK s \in StableTopK(n) : found = Exact(s, vectors, "host")
    BY <1>1 DEF ExactOnHost
  <2>2. s \in TopK(vectors, "host", DOMAIN rows, n)
    BY DEF StableTopK
  <2>3. QED
    BY <2>1, <2>2, TopKIsRanked
<1>2. CASE resident = vectors /\ found \in ExactOnGpu(n)
  <2>1. PICK s \in TopK(vectors, "gpu", DOMAIN rows, n) : found = Exact(s, vectors, "gpu")
    BY <1>2 DEF ExactOnGpu
  <2>2. QED
    BY <2>1, TopKIsRanked
<1>3. QED
  BY <1>1, <1>2

(* What the graph returns, up to its first padding.                        *)
LEMMA BeamBeforePadding ==
  ASSUME NEW k \in Nat, NEW beam \in Beams(k), NEW found, found = BeforePadding(beam)
  PROVE  /\ \E n \in 0..k : Len(found.rows) = n /\ DOMAIN found.rows = 1..n
         /\ found.rows = [i \in 1..Len(found.rows) |-> found.rows[i]]
         /\ found.over = resident /\ found.where = "gpu" /\ found.way = "beam"
<1> DEFINE pads == {i \in DOMAIN beam.rows : beam.rows[i] = Padding}
           ends == pads \cup {Len(beam.rows) + 1}
           n == Min(ends) - 1
<1> DEFINE s == beam.rows
<1>1. /\ s \in [1..k -> 0..Count + 1] /\ beam.over = resident /\ beam.where = "gpu"
      /\ beam.way = "beam" /\ DOMAIN beam = {"rows", "over", "where", "finite", "way"}
  BY DEF Beams
<1>2. DOMAIN s = 1..k /\ Len(s) = k
  BY <1>1
<1>3. ends \subseteq 1..k + 1 /\ ends # {} /\ ends \subseteq Nat
  BY <1>2
<1> HIDE DEF pads
<1>4. found = [beam EXCEPT !.rows = SubSeq(@, 1, n), !.finite = @ \cap 1..n]
  BY DEF BeforePadding, pads
<1> HIDE DEF s
<1> HIDE DEF ends
<1>5. n \in 0..k
  <2>1. Min(ends) \in ends
    BY <1>3, MinIsLeast
  <2>2. Min(ends) \in 1..k + 1
    BY <1>3, <2>1
  <2>3. QED
    BY <2>2 DEF n
<1> HIDE DEF n
<1>6. /\ found.rows = SubSeq(s, 1, n)
      /\ found.over = resident /\ found.where = "gpu" /\ found.way = "beam"
  BY <1>1, <1>4 DEF s
<1>7. SubSeq(s, 1, n) = [i \in 1..n |-> s[i]]
  BY <1>5
<1>8. Len(found.rows) = n /\ DOMAIN found.rows = 1..n
  BY <1>5, <1>6, <1>7
<1>9. QED
  BY <1>5, <1>6, <1>7, <1>8

(* As many rows as asked for, either sound, and the best if they are all,  *)
(* or from a beam taken as it came, when they are not.                     *)
Finds(found, n) ==
  /\ FoundRows(found) /\ Len(found.rows) = n
  /\ \/ Sound(found) /\ (n = Count => Ranked(found, DOMAIN rows))
     \/ found.way = "beam" /\ n < Count

(* The host's search raises, or finds so many.                             *)
LEMMA HostFinds ==
  ASSUME Inv, NEW n \in 1..Count, NEW found \in Candidates(n), IsInRange(found)
  PROVE  Finds(found, n)
<1>1. Count \in Nat /\ n \in Nat
  BY DEF Inv, Count
<1>2. BeamReady => resident = vectors
  BY DEF BeamReady, Inv, GraphIsCurrent
<1>3. CASE found \in ExactOnHost(n) \/ (BeamReady /\ found \in ExactOnGpu(n))
  BY <1>2, <1>3, ExactIsRanked DEF Finds
<1>4. ASSUME BeamReady, n < Count, NEW beam \in Beams(n), found = BeforePadding(beam),
             Len(found.rows) >= n
      PROVE  Finds(found, n)
  <2>1. PICK m \in 0..n : Len(found.rows) = m /\ DOMAIN found.rows = 1..m
    BY <1>1, <1>4, BeamBeforePadding
  <2>2. /\ found.rows = [i \in 1..Len(found.rows) |-> found.rows[i]]
        /\ found.over = resident /\ found.where = "gpu" /\ found.way = "beam"
    BY <1>1, <1>4, BeamBeforePadding
  <2>3. m = n
    BY <1>1, <1>4, <2>1
  <2>4. \A i \in 1..n : found.rows[i] \in DOMAIN rows
    BY <2>1, <2>3 DEF IsInRange, ToSet
  <2>5. found.rows \in [1..n -> DOMAIN rows]
    BY <2>1, <2>2, <2>3, <2>4
  <2>6. found.rows \in Seq(DOMAIN rows) /\ Len(found.rows) = n
    BY <1>1, <2>1, <2>3, <2>5
  <2>7. QED
    BY <1>2, <1>4, <2>2, <2>6 DEF Finds, FoundRows
<1>5. \/ found \in ExactOnHost(n) \/ (BeamReady /\ found \in ExactOnGpu(n))
      \/ BeamReady /\ n < Count
         /\ \E beam \in Beams(n) : found = BeforePadding(beam) /\ Len(found.rows) >= n
  BY DEF Candidates, BeamOrExact
<1>6. QED
  BY <1>3, <1>4, <1>5

(* The device's search finds so many, sound.                               *)
LEMMA DeviceFinds ==
  ASSUME Inv, BeamReady, NEW n \in 1..Count, NEW found \in DeviceCandidates(n)
  PROVE  Finds(found, n) /\ found.way # "beam"
<1>1. Count \in Nat /\ n \in Nat
  BY DEF Inv, Count
<1>2. resident = vectors
  BY DEF BeamReady, Inv, GraphIsCurrent
<1>3. CASE found \in ExactOnGpu(n)
  BY <1>2, <1>3, ExactIsRanked DEF Finds, Sound
<1>4. ASSUME n < Count, NEW beam \in Beams(n), DeviceResultIsComplete(beam, n),
             found = [beam EXCEPT !.way = "checked"]
      PROVE  Finds(found, n) /\ found.way # "beam"
  <2> DEFINE s == beam.rows
             f == beam.finite
  <2>1. /\ s \in [1..n -> 0..Count + 1] /\ f \in SUBSET (1..n) /\ beam.over = resident
        /\ beam.where = "gpu" /\ DOMAIN beam = {"rows", "over", "where", "finite", "way"}
    BY DEF Beams
  <2>2. /\ found.rows = s /\ found.over = vectors /\ found.where = "gpu"
        /\ found.finite = f /\ found.way = "checked"
    BY <1>2, <1>4, <2>1
  <2>3. (\A i \in 1..n : s[i] \in DOMAIN rows /\ i \in f) /\ IsInjective(s)
    BY <1>4 DEF DeviceResultIsComplete
  <2> HIDE DEF s, f
  <2>4. s \in [1..n -> DOMAIN rows] /\ DOMAIN s = 1..n /\ f = 1..n
    BY <2>1, <2>3
  <2>5. s \in Seq(DOMAIN rows) /\ Len(s) = n
    BY <1>1, <2>4
  <2>6. FoundRows(found) /\ Len(found.rows) = n /\ Sound(found)
    BY <2>2, <2>3, <2>4, <2>5 DEF FoundRows, Sound
  <2>7. QED
    BY <1>1, <1>4, <2>2, <2>6 DEF Finds
<1>5. \/ found \in ExactOnGpu(n)
      \/ n < Count
         /\ \E beam \in Beams(n) :
              DeviceResultIsComplete(beam, n) /\ found = [beam EXCEPT !.way = "checked"]
  BY DEF DeviceCandidates, CheckedBeamOrExact
<1>6. QED
  BY <1>3, <1>4, <1>5

(* As many different rows as there are are all of them.                    *)
LEMMA AllRowsAreFound ==
  ASSUME Inv, NEW found, FoundRows(found), Sound(found), Len(found.rows) = Count
  PROVE  ToSet(found.rows) = DOMAIN rows
<1>1. rows \in Seq(Row) /\ Count = Len(rows)
  BY DEF Inv, Count
<1>2. DOMAIN rows = 1..Count /\ Count \in Nat
  BY <1>1
<1>3. IsFiniteSet(DOMAIN rows) /\ Cardinality(DOMAIN rows) = Count
  BY <1>2, FS_Interval
<1>4. Cardinality(ToSet(found.rows)) = Count /\ ToSet(found.rows) \subseteq DOMAIN rows
  BY InjectiveCounts, MembersOfSeq DEF FoundRows, Sound
<1>5. QED
  BY <1>3, <1>4, FS_Subset

LEMMA FindsEnough ==
  ASSUME Inv, Count > 0, NEW k \in Nat, NEW F, NEW found,
         Finds(found, CandidateCount(k, F)), Sound(found)
  PROVE  /\ Enough(found, k, F)
         /\ Rejects(F) \/ Clamped(k) = Count => BestFirst(found, F)
<1> DEFINE n == CandidateCount(k, F)
<1>1. Clamped(k) \in 1..Count /\ Count \in Nat
  BY ClampedFits
<1>2. n \in 1..Count /\ (Rejects(F) \/ Clamped(k) = Count => n = Count)
      /\ (~Rejects(F) => n = Clamped(k))
  BY <1>1 DEF CandidateCount
<1>3. /\ FoundRows(found) /\ Len(found.rows) = n
      /\ n = Count => Ranked(found, DOMAIN rows)
  BY DEF Finds, Sound
<1> HIDE DEF n
<1>4. Allowed(F) \subseteq DOMAIN rows
  BY DEF Allowed
<1>5. Enough(found, k, F)
  <2>1. CASE Rejects(F)
    BY <1>2, <1>3, <1>4, <2>1, AllRowsAreFound DEF Enough
  <2>2. CASE ~Rejects(F)
    <3>1. Allowed(F) = DOMAIN rows /\ ToSet(found.rows) \subseteq DOMAIN rows
      BY <1>3, <2>2, MembersOfSeq DEF Rejects, FoundRows
    <3>2. ToSet(found.rows) \cap Allowed(F) = ToSet(found.rows)
      BY <3>1
    <3>3. Cardinality(ToSet(found.rows)) = Clamped(k)
      BY <1>2, <1>3, <2>2, InjectiveCounts DEF FoundRows, Sound
    <3>4. QED
      BY <1>1, <3>2, <3>3 DEF Enough
  <2>3. QED
    BY <2>1, <2>2
<1>6. Rejects(F) \/ Clamped(k) = Count => BestFirst(found, F)
  BY <1>2, <1>3, <1>4 DEF Ranked
<1>7. QED
  BY <1>5, <1>6

LEMMA ExactFindsEnough ==
  ASSUME Inv, Count > 0, NEW k \in Nat, NEW F,
         NEW s \in TopK(vectors, "gpu", Allowed(F), Min({Clamped(k), Cardinality(Allowed(F))})),
         NEW found, found = Exact(s, vectors, "gpu")
  PROVE  /\ FoundRows(found) /\ Sound(found)
         /\ Enough(found, k, F) /\ BestFirst(found, F)
<1> DEFINE n == Min({Clamped(k), Cardinality(Allowed(F))})
<1>1. FoundRows(found) /\ Sound(found) /\ Len(found.rows) = n /\ Ranked(found, Allowed(F))
  BY TopKIsRanked
<1>2. Clamped(k) \in Nat
  BY ClampedFits
<1>3. IsFiniteSet(Allowed(F)) /\ Cardinality(Allowed(F)) \in Nat
  <2>1. rows \in Seq(Row)
    BY DEF Inv
  <2>2. IsFiniteSet(DOMAIN rows) /\ Allowed(F) \subseteq DOMAIN rows
    BY <2>1, FS_Interval DEF Allowed
  <2>3. QED
    BY <2>2, FS_Subset, FS_CardinalityType
<1>4. n = IF Clamped(k) <= Cardinality(Allowed(F)) THEN Clamped(k) ELSE Cardinality(Allowed(F))
  BY <1>2, <1>3, LesserOfTwo
<1>5. ToSet(found.rows) \subseteq Allowed(F)
  BY <1>1 DEF Ranked
<1>6. Cardinality(ToSet(found.rows)) = n
  BY <1>1, InjectiveCounts DEF FoundRows, Sound
<1>7. ToSet(found.rows) \cap Allowed(F) = ToSet(found.rows)
  BY <1>5
<1>8. Enough(found, k, F)
  <2>1. CASE n = Clamped(k)
    BY <1>2, <1>6, <1>7, <2>1 DEF Enough
  <2>2. CASE n = Cardinality(Allowed(F))
    <3>1. ToSet(found.rows) = Allowed(F)
      BY <1>3, <1>5, <1>6, <2>2, FS_Subset
    <3>2. QED
      BY <3>1 DEF Enough
  <2>3. QED
    BY <1>4, <2>1, <2>2
<1>9. BestFirst(found, F)
  BY <1>1 DEF Ranked
<1>10. QED
  BY <1>1, <1>8, <1>9

-----------------------------------------------------------------------------
(* Every step is a step of the table.                                      *)

(* Rows put behind rows, and their vectors behind the vectors, are put     *)
(* behind the table.                                                       *)
LEMMA TableOfConcat ==
  ASSUME NEW rs \in Seq(Row), NEW vs \in Seq(Vectors), Len(vs) = Len(rs),
         NEW ss \in Seq(Row), NEW ws \in Seq(Vectors), Len(ws) = Len(ss)
  PROVE  TableOf(rs \o ss, vs \o ws) = TableOf(rs, vs) \o TableOf(ss, ws)
<1> DEFINE t == TableOf(rs, vs)
           u == TableOf(ss, ws)
           b == TableOf(rs \o ss, vs \o ws)
<1>1. /\ rs \o ss \in Seq(Row) /\ Len(rs \o ss) = Len(rs) + Len(ss)
      /\ \A i \in 1..Len(rs) + Len(ss) :
           (rs \o ss)[i] = IF i <= Len(rs) THEN rs[i] ELSE ss[i - Len(rs)]
  BY ConcatProperties
<1>2. /\ vs \o ws \in Seq(Vectors) /\ Len(vs \o ws) = Len(rs) + Len(ss)
      /\ \A i \in 1..Len(rs) + Len(ss) :
           (vs \o ws)[i] = IF i <= Len(rs) THEN vs[i] ELSE ws[i - Len(rs)]
  <2>1. /\ vs \o ws \in Seq(Vectors) /\ Len(vs \o ws) = Len(vs) + Len(ws)
        /\ \A i \in 1..Len(vs) + Len(ws) :
             (vs \o ws)[i] = IF i <= Len(vs) THEN vs[i] ELSE ws[i - Len(vs)]
    BY ConcatProperties
  <2>2. Len(vs) = Len(rs) /\ Len(ws) = Len(ss)
    OBVIOUS
  <2>3. QED
    BY <2>1, <2>2, Zenon
<1>3. /\ t \in Seq(Table!Rows) /\ Len(t) = Len(rs) /\ Len(rs) \in Nat
      /\ \A i \in 1..Len(rs) :
           t[i] = [id |-> rs[i].id, payload |-> rs[i].payload, vec |-> vs[i]]
  BY TableIsOfRows
<1>4. /\ u \in Seq(Table!Rows) /\ Len(u) = Len(ss) /\ Len(ss) \in Nat
      /\ \A i \in 1..Len(ss) :
           u[i] = [id |-> ss[i].id, payload |-> ss[i].payload, vec |-> ws[i]]
  BY TableIsOfRows
<1>5. /\ b \in Seq(Table!Rows) /\ Len(b) = Len(rs \o ss)
      /\ \A i \in 1..Len(rs \o ss) :
           b[i] = [id |-> (rs \o ss)[i].id, payload |-> (rs \o ss)[i].payload,
                   vec |-> (vs \o ws)[i]]
  <2>1. rs \o ss \in Seq(Row) /\ vs \o ws \in Seq(Vectors) /\ Len(vs \o ws) = Len(rs \o ss)
    BY <1>1, <1>2
  <2>2. QED
    BY <2>1, TableIsOfRows, Zenon
<1> HIDE DEF t, u, b
<1>6. /\ t \o u \in Seq(Table!Rows) /\ Len(t \o u) = Len(rs) + Len(ss)
      /\ \A i \in 1..Len(rs) + Len(ss) :
           (t \o u)[i] = IF i <= Len(rs) THEN t[i] ELSE u[i - Len(rs)]
  <2>1. t \in Seq(Table!Rows) /\ u \in Seq(Table!Rows)
    BY <1>3, <1>4
  <2>2. /\ t \o u \in Seq(Table!Rows) /\ Len(t \o u) = Len(t) + Len(u)
        /\ \A i \in 1..Len(t) + Len(u) :
             (t \o u)[i] = IF i <= Len(t) THEN t[i] ELSE u[i - Len(t)]
    BY <2>1, ConcatProperties
  <2>3. Len(t) = Len(rs) /\ Len(u) = Len(ss)
    BY <1>3, <1>4
  <2>4. QED
    BY <2>2, <2>3, Zenon
<1>7. ASSUME NEW i \in 1..Len(rs) + Len(ss) PROVE b[i] = (t \o u)[i]
  <2>1. b[i] = [id |-> (rs \o ss)[i].id, payload |-> (rs \o ss)[i].payload, vec |-> (vs \o ws)[i]]
    BY <1>1, <1>5
  <2>2. CASE i <= Len(rs)
    BY <1>1, <1>2, <1>3, <1>6, <2>1, <2>2
  <2>3. CASE ~(i <= Len(rs))
    <3>1. i - Len(rs) \in 1..Len(ss)
      BY <1>3, <1>4, <2>3
    <3>2. QED
      BY <1>1, <1>2, <1>4, <1>6, <2>1, <2>3, <3>1
  <2>4. QED
    BY <2>2, <2>3
<1>8. b = t \o u
  BY <1>1, <1>5, <1>6, <1>7, SeqEqual
<1>9. QED
  BY <1>8 DEF t, u, b

(* A row and its vector removed are removed from the table.                *)
LEMMA TableOfRemoved ==
  ASSUME NEW rs \in Seq(Row), NEW vs \in Seq(Vectors), Len(vs) = Len(rs), NEW at \in 1..Len(rs)
  PROVE  TableOf(RemoveAt(rs, at), RemoveAt(vs, at)) = RemoveAt(TableOf(rs, vs), at)
<1> DEFINE t == TableOf(rs, vs)
           b == TableOf(RemoveAt(rs, at), RemoveAt(vs, at))
<1>1. /\ RemoveAt(rs, at) \in Seq(Row) /\ Len(RemoveAt(rs, at)) = Len(rs) - 1
      /\ \A j \in 1..Len(rs) - 1 : RemoveAt(rs, at)[j] = IF j < at THEN rs[j] ELSE rs[j + 1]
  BY RemoveAtEntries
<1>2. /\ RemoveAt(vs, at) \in Seq(Vectors) /\ Len(RemoveAt(vs, at)) = Len(rs) - 1
      /\ \A j \in 1..Len(rs) - 1 : RemoveAt(vs, at)[j] = IF j < at THEN vs[j] ELSE vs[j + 1]
  BY RemoveAtEntries
<1>3. /\ t \in Seq(Table!Rows) /\ Len(t) = Len(rs) /\ Len(rs) \in Nat
      /\ \A i \in 1..Len(rs) :
           t[i] = [id |-> rs[i].id, payload |-> rs[i].payload, vec |-> vs[i]]
  BY TableIsOfRows
<1>4. /\ b \in Seq(Table!Rows) /\ Len(b) = Len(rs) - 1
      /\ \A i \in 1..Len(rs) - 1 :
           b[i] = [id |-> RemoveAt(rs, at)[i].id, payload |-> RemoveAt(rs, at)[i].payload,
                   vec |-> RemoveAt(vs, at)[i]]
  BY <1>1, <1>2, TableIsOfRows
<1> HIDE DEF t, b
<1>5. /\ RemoveAt(t, at) \in Seq(Table!Rows) /\ Len(RemoveAt(t, at)) = Len(rs) - 1
      /\ \A j \in 1..Len(rs) - 1 : RemoveAt(t, at)[j] = IF j < at THEN t[j] ELSE t[j + 1]
  <2>1. t \in Seq(Table!Rows) /\ Len(t) = Len(rs) /\ at \in 1..Len(t)
    BY <1>3
  <2>2. /\ RemoveAt(t, at) \in Seq(Table!Rows) /\ Len(RemoveAt(t, at)) = Len(t) - 1
        /\ \A j \in 1..Len(t) - 1 : RemoveAt(t, at)[j] = IF j < at THEN t[j] ELSE t[j + 1]
    BY <2>1, RemoveAtEntries
  <2>3. QED
    BY <2>1, <2>2, Zenon
<1>6. ASSUME NEW j \in 1..Len(rs) - 1 PROVE b[j] = RemoveAt(t, at)[j]
  <2>1. j \in 1..Len(rs) /\ j + 1 \in 1..Len(rs)
    BY <1>3
  <2>2. CASE j < at
    BY <1>1, <1>2, <1>3, <1>4, <1>5, <2>1, <2>2
  <2>3. CASE ~(j < at)
    BY <1>1, <1>2, <1>3, <1>4, <1>5, <2>1, <2>3
  <2>4. QED
    BY <2>2, <2>3
<1>7. b = RemoveAt(t, at)
  BY <1>4, <1>5, <1>6, SeqEqual
<1>8. QED
  BY <1>7 DEF t, b

(* What comes after the rows there were is what was put behind them.       *)
LEMMA RestOfConcat ==
  ASSUME NEW S, NEW s \in Seq(S), NEW t \in Seq(S)
  PROVE  SubSeq(s \o t, Len(s) + 1, Len(s \o t)) = t
<1> DEFINE u == s \o t
           r == SubSeq(u, Len(s) + 1, Len(u))
<1>1. /\ u \in Seq(S) /\ Len(u) = Len(s) + Len(t) /\ Len(s) \in Nat /\ Len(t) \in Nat
      /\ \A i \in 1..Len(s) + Len(t) : u[i] = IF i <= Len(s) THEN s[i] ELSE t[i - Len(s)]
  BY ConcatProperties, LenProperties
<1> HIDE DEF u
<1>2. PICK m \in Nat : m = Len(s)
  BY <1>1
<1>3. PICK n \in Nat : n = Len(t)
  BY <1>1
<1>4. \A i \in m + 1..m + n : u[i] \in S
  BY <1>1, <1>2, <1>3, ElementOfSeq
<1>5. r \in Seq(S) /\ Len(r) = n /\ \A i \in 1..n : r[i] = u[m + i]
  BY <1>1, <1>2, <1>3, <1>4, SubSeqProperties
<1>6. \A i \in 1..n : r[i] = t[i]
  BY <1>1, <1>2, <1>3, <1>5
<1> HIDE DEF r
<1>7. r = t
  BY <1>3, <1>5, <1>6, SeqEqual
<1>8. QED
  BY <1>7 DEF r, u

(* An id's ordinal is its first row in the table.                          *)
LEMMA OrdinalIsFirst ==
  ASSUME Inv, NEW id \in DOMAIN ordinals
  PROVE  /\ ordinals[id] \in 1..Len(rows) /\ rows[ordinals[id]].id = id
         /\ Table!First(id) = ordinals[id]
         /\ \E i \in DOMAIN TableOf(rows, vectors) : TableOf(rows, vectors)[i].id = id
<1> DEFINE t == TableOf(rows, vectors)
<1>1. /\ rows \in Seq(Row) /\ ordinals = FirstOrdinals(rows)
      /\ vectors \in Seq(Vectors) /\ Len(vectors) = Len(rows)
  BY DEF Inv
<1>2. ordinals[id] \in 1..Len(rows)
  BY OrdinalIsARow
<1>3. rows[ordinals[id]].id = id
  BY <1>1, FirstOrdinalsAreFirst, Zenon
<1>4. ordinals[id] = Min({i \in DOMAIN rows : rows[i].id = id})
  BY <1>1 DEF FirstOrdinals
<1>5. /\ DOMAIN t = 1..Len(rows) /\ DOMAIN rows = 1..Len(rows)
      /\ \A i \in 1..Len(rows) :
           t[i] = [id |-> rows[i].id, payload |-> rows[i].payload, vec |-> vectors[i]]
  BY <1>1, TableIsOfRows
<1>6. Table!First(id) = Table!Min({i \in DOMAIN t : t[i].id = id})
  BY DEF Table!First, TableOf
<1> HIDE DEF t
<1>7. \A i \in 1..Len(rows) : t[i].id = rows[i].id
  BY <1>5
<1>8. {i \in DOMAIN t : t[i].id = id} = {i \in DOMAIN rows : rows[i].id = id}
  BY <1>5, <1>7
<1>9. Table!First(id) = ordinals[id]
  BY <1>4, <1>6, <1>8, TableOperators, Zenon
<1>10. \E i \in DOMAIN t : t[i].id = id
  BY <1>2, <1>3, <1>5, <1>7
<1>11. QED
  BY <1>2, <1>3, <1>9, <1>10 DEF t

(* An answer the table promises, or none.                                  *)
LEMMA CompleteIsAnswer ==
  ASSUME NEW found, NEW k, NEW F, Table!Complete(AnswerOf(found, k, F).hits, k, F, found.way),
         answer' = AnswerOf(found, k, F), UNCHANGED <<rows, vectors>>
  PROVE  Table!Answer \/ Table!Forget
<1>1. /\ answer'.hits = AnswerOf(found, k, F).hits /\ answer'.k = k /\ answer'.filter = F
      /\ answer'.way = found.way
  BY DEF AnswerOf
<1>2. Table!Complete(answer'.hits, answer'.k, answer'.filter, answer'.way)
  BY <1>1
<1>3. UNCHANGED TableOf(rows, vectors)
  BY DEF TableOf
<1>4. QED
  BY <1>2, <1>3 DEF Table!Answer, Table!Forget, TableOf

(* Where nothing changes and nothing is found, the answer is forgotten.    *)
LEMMA NoAnswerIsForget ==
  ASSUME answer' = NoAnswer, UNCHANGED <<rows, vectors>>
  PROVE  Table!Forget
<1>1. UNCHANGED TableOf(rows, vectors)
  BY DEF TableOf
<1>2. QED
  BY <1>1 DEF Table!Forget, TableOf

LEMMA AddIsAdd ==
  ASSUME Inv, NEW batch \in Batches, AddMany(batch)
  PROVE  Table!Add
<1> DEFINE vecs == [i \in DOMAIN batch |-> batch[i].vec]
           New == [id : Ids, payload : Payloads, vec : Vectors]
           t == TableOf(rows, vectors)
           u == TableOf(Entries(batch), vecs)
           tn == TableOf(rows', vectors')
<1>1. /\ rows \in Seq(Row) /\ vectors \in Seq(Vectors) /\ Len(vectors) = Len(rows)
  BY DEF Inv
<1>2. batch \in Seq(New)
  BY SeqOfIsSeq, VectorIndexAssumption DEF Batches
<1>3. \A i \in DOMAIN batch : batch[i] \in New
  <2> HIDE DEF New
  <2> QED BY <1>2
<1>4. Entries(batch) \in Seq(Row) /\ Len(Entries(batch)) = Len(batch)
  <2>1. \A i \in DOMAIN batch : [id |-> batch[i].id, payload |-> batch[i].payload] \in Row
    BY <1>3 DEF Row
  <2>2. Entries(batch) \in [DOMAIN batch -> Row]
    BY <2>1 DEF Entries
  <2>3. QED
    BY <1>2, <2>2, PerEntry
<1>5. vecs \in Seq(Vectors) /\ Len(vecs) = Len(batch)
  <2>1. \A i \in DOMAIN batch : batch[i].vec \in Vectors
    BY <1>3
  <2>2. vecs \in [DOMAIN batch -> Vectors]
    BY <2>1
  <2>3. QED
    BY <1>2, <2>2, PerEntry
<1>6. /\ rows' = rows \o Entries(batch) /\ vectors' = vectors \o vecs
      /\ batch # <<>> /\ answer' = NoAnswer
  BY <1>1 DEF AddMany
<1> HIDE DEF vecs
<1>7. tn = t \o u
  BY <1>1, <1>4, <1>5, <1>6, TableOfConcat
<1>8. t \in Seq(Table!Rows) /\ u \in Seq(Table!Rows) /\ Len(u) = Len(batch)
  BY <1>1, <1>4, <1>5, TableIsOfRows
<1>9. tn = [i \in DOMAIN rows' |->
              [id |-> rows'[i].id, payload |-> rows'[i].payload, vec |-> vectors'[i]]]
  BY DEF TableOf
<1>10. t = [i \in DOMAIN rows |->
              [id |-> rows[i].id, payload |-> rows[i].payload, vec |-> vectors[i]]]
  BY DEF TableOf
<1> HIDE DEF t, u, tn
<1>11. SubSeq(tn, Len(t) + 1, Len(tn)) = u
  BY <1>7, <1>8, RestOfConcat
<1>12. u # <<>>
  <2>1. Len(u) # 0
    <3> HIDE DEF New
    <3>1. QED
      BY <1>2, <1>6, <1>8, EmptySeq
  <2>2. QED
    BY <2>1
<1>13. \E rest \in {SubSeq(tn, Len(t) + 1, Len(tn))} :
         rest # <<>> /\ tn = t \o rest /\ rest \in Seq(Table!Rows)
  BY <1>7, <1>8, <1>11, <1>12
<1>14. QED
  BY <1>6, <1>9, <1>10, <1>13, Zenon DEF Table!Add

LEMMA UpdateIsUpdate ==
  ASSUME Inv, NEW id \in Ids, NEW payload \in Payloads, NEW vec \in Vectors,
         Update(id, payload, vec)
  PROVE  Table!Update(id)
<1> DEFINE at == ordinals[id]
           row == [id |-> rows[at].id, payload |-> payload]
           new == [id |-> id, payload |-> payload, vec |-> vec]
           t == TableOf(rows, vectors)
           tn == TableOf(rows', vectors')
<1>1. /\ rows \in Seq(Row) /\ vectors \in Seq(Vectors) /\ Len(vectors) = Len(rows)
  BY DEF Inv
<1>2. /\ id \in DOMAIN ordinals /\ rows' = [rows EXCEPT ![at] = row]
      /\ vectors' = [vectors EXCEPT ![at] = vec] /\ answer' = NoAnswer
  BY DEF Update
<1>3. /\ at \in 1..Len(rows) /\ rows[at].id = id /\ Table!First(id) = at
      /\ \E i \in DOMAIN t : t[i].id = id
  BY <1>2, OrdinalIsFirst
<1>4. row \in Row /\ row.id = id /\ row.payload = payload
  BY <1>3 DEF Row
<1>5. /\ t \in Seq(Table!Rows) /\ Len(t) = Len(rows) /\ DOMAIN t = 1..Len(rows)
      /\ \A i \in 1..Len(rows) :
           t[i] = [id |-> rows[i].id, payload |-> rows[i].payload, vec |-> vectors[i]]
  BY <1>1, TableIsOfRows
<1>6. tn = [i \in DOMAIN rows' |->
              [id |-> rows'[i].id, payload |-> rows'[i].payload, vec |-> vectors'[i]]]
  BY DEF TableOf
<1>7. t = [i \in DOMAIN rows |->
              [id |-> rows[i].id, payload |-> rows[i].payload, vec |-> vectors[i]]]
  BY DEF TableOf
<1> HIDE DEF at, row, t
<1>8. /\ DOMAIN rows' = 1..Len(rows) /\ rows'[at] = row
      /\ \A i \in 1..Len(rows) : i # at => rows'[i] = rows[i]
  BY <1>1, <1>2, <1>3
<1>9. /\ vectors'[at] = vec /\ \A i \in 1..Len(rows) : i # at => vectors'[i] = vectors[i]
  <2>1. DOMAIN vectors = 1..Len(rows)
    BY <1>1
  <2>2. QED
    BY <1>2, <1>3, <2>1
<1>10. \A i \in 1..Len(rows) : tn[i] = IF i = at THEN new ELSE t[i]
  <2>1. ASSUME NEW i \in 1..Len(rows) PROVE tn[i] = IF i = at THEN new ELSE t[i]
    <3>1. tn[i] = [id |-> rows'[i].id, payload |-> rows'[i].payload, vec |-> vectors'[i]]
      BY <1>6, <1>8
    <3>2. CASE i = at
      BY <1>4, <1>8, <1>9, <3>1, <3>2
    <3>3. CASE i # at
      BY <1>5, <1>8, <1>9, <3>1, <3>3
    <3>4. QED
      BY <3>2, <3>3
  <2>2. QED
    BY <2>1
<1>11. tn = [i \in 1..Len(rows) |-> tn[i]]
  BY <1>6, <1>8
<1> HIDE DEF tn, new
<1>12. tn = [t EXCEPT ![at] = new]
  <2>1. [t EXCEPT ![at] = new] = [i \in 1..Len(rows) |-> IF i = at THEN new ELSE t[i]]
    BY <1>5
  <2>2. [i \in 1..Len(rows) |-> tn[i]] = [i \in 1..Len(rows) |-> IF i = at THEN new ELSE t[i]]
    BY <1>10
  <2>3. QED
    BY <1>11, <2>1, <2>2, Zenon
<1>13. tn = [t EXCEPT ![Table!First(id)] = [id |-> id, payload |-> payload, vec |-> vec]]
  BY <1>3, <1>12 DEF new
<1>14. \E p \in Payloads, v \in Vectors :
         tn = [t EXCEPT ![Table!First(id)] = [id |-> id, payload |-> p, vec |-> v]]
  BY <1>13
<1>15. QED
  BY <1>2, <1>3, <1>6, <1>7, <1>14, Zenon DEF Table!Update

LEMMA DeleteIsDelete ==
  ASSUME Inv, NEW id \in Ids, Delete(id)
  PROVE  Table!Delete(id)
<1> DEFINE at == ordinals[id]
           t == TableOf(rows, vectors)
           tn == TableOf(rows', vectors')
<1>1. /\ rows \in Seq(Row) /\ vectors \in Seq(Vectors) /\ Len(vectors) = Len(rows)
  BY DEF Inv
<1>2. /\ id \in DOMAIN ordinals /\ rows' = RemoveAt(rows, at)
      /\ vectors' = RemoveAt(vectors, at) /\ answer' = NoAnswer
  BY DEF Delete
<1>3. /\ at \in 1..Len(rows) /\ Table!First(id) = at
      /\ \E i \in DOMAIN t : t[i].id = id
  BY <1>2, OrdinalIsFirst
<1>4. tn = RemoveAt(t, at)
  BY <1>1, <1>2, <1>3, TableOfRemoved
<1>5. Table!RemoveAt(t, at) = RemoveAt(t, at)
  BY DEF Table!RemoveAt, RemoveAt
<1>6. tn = Table!RemoveAt(t, Table!First(id))
  BY <1>3, <1>4, <1>5
<1>7. tn = [i \in DOMAIN rows' |->
              [id |-> rows'[i].id, payload |-> rows'[i].payload, vec |-> vectors'[i]]]
  BY DEF TableOf
<1>8. t = [i \in DOMAIN rows |->
              [id |-> rows[i].id, payload |-> rows[i].payload, vec |-> vectors[i]]]
  BY DEF TableOf
<1> HIDE DEF at, t, tn
<1>9. QED
  BY <1>2, <1>3, <1>6, <1>7, <1>8, Zenon DEF Table!Delete

LEMMA FindsIsAnswer ==
  ASSUME Inv, Count > 0, NEW k \in Nat, NEW F, NEW found, Finds(found, CandidateCount(k, F)),
         answer' = AnswerOf(found, k, F), UNCHANGED <<rows, vectors>>
  PROVE  Table!Answer \/ Table!Forget
<1>1. CASE Sound(found)
  <2>1. /\ Enough(found, k, F)
        /\ Rejects(F) \/ Clamped(k) = Count => BestFirst(found, F)
    BY <1>1, FindsEnough
  <2>2. FoundRows(found)
    BY DEF Finds
  <2>3. QED
    BY <1>1, <2>1, <2>2, AnswerIsComplete, CompleteIsAnswer
<1>2. CASE ~Sound(found)
  <2>1. /\ FoundRows(found) /\ Len(found.rows) = CandidateCount(k, F)
        /\ found.way = "beam" /\ CandidateCount(k, F) < Count
    BY <1>2 DEF Finds
  <2>2. Clamped(k) \in 1..Count /\ Count \in Nat
    BY ClampedFits
  <2>3. ~Rejects(F) /\ CandidateCount(k, F) = Clamped(k)
    BY <2>1, <2>2 DEF CandidateCount
  <2>4. QED
    BY <2>1, <2>3, BeamAnswerIsComplete, CompleteIsAnswer
<1>3. QED
  BY <1>1, <1>2

LEMMA JasperIsAnswer ==
  ASSUME Inv, NEW k \in Nat, NEW F, SearchJasper(k, F) \/ SearchDevice(k, F)
  PROVE  Table!Answer \/ Table!Forget
<1> DEFINE n == CandidateCount(k, F)
<1>1. Count > 0 /\ UNCHANGED <<rows, vectors>>
  BY DEF SearchJasper, SearchDevice
<1>2. n \in 1..Count
  <2>1. Clamped(k) \in 1..Count /\ Count \in Nat
    BY <1>1, ClampedFits
  <2>2. QED
    BY <1>1, <2>1 DEF CandidateCount
<1>3. CASE \E found : Finds(found, n) /\ answer' = AnswerOf(found, k, F)
  BY <1>1, <1>3, FindsIsAnswer
<1>4. CASE answer' = NoAnswer
  BY <1>1, <1>4, NoAnswerIsForget
<1>5. (\E found : Finds(found, n) /\ answer' = AnswerOf(found, k, F)) \/ answer' = NoAnswer
  <2>1. CASE SearchJasper(k, F)
    <3>1. PICK found \in Candidates(n) :
            answer' = IF IsInRange(found) THEN AnswerOf(found, k, F) ELSE NoAnswer
      BY <2>1 DEF SearchJasper
    <3> HIDE DEF n
    <3>2. QED
      BY <1>2, <3>1, HostFinds
  <2>2. CASE SearchDevice(k, F) /\ ~(Rejects(F) \/ ~BeamReady)
    <3>1. PICK found \in DeviceCandidates(Clamped(k)) :
            answer' = IF DeviceResultIsComplete(found, Clamped(k)) THEN AnswerOf(found, k, F)
                      ELSE NoAnswer
      BY <2>2 DEF SearchDevice
    <3>2. n = Clamped(k)
      BY <2>2 DEF CandidateCount
    <3> HIDE DEF n
    <3>3. Finds(found, n)
      BY <1>2, <2>2, <3>1, <3>2, DeviceFinds
    <3>4. QED
      BY <3>1, <3>3
  <2>3. CASE SearchDevice(k, F) /\ (Rejects(F) \/ ~BeamReady)
    BY <2>3 DEF SearchDevice
  <2>4. QED
    BY <2>1, <2>2, <2>3
<1>6. QED
  BY <1>3, <1>4, <1>5

LEMMA ExactIsAnswer ==
  ASSUME Inv, NEW k \in Nat, NEW F, SearchExact(k, F)
  PROVE  Table!Answer \/ Table!Forget
<1>1. Count > 0 /\ UNCHANGED <<rows, vectors>> /\ resident' = IF finalized THEN resident ELSE vectors
  BY DEF SearchExact
<1>2. resident' = vectors
  BY <1>1 DEF Inv, GraphIsCurrent
<1>3. PICK s \in TopK(resident', "gpu", Allowed(F), Min({Clamped(k), Cardinality(Allowed(F))})) :
        answer' = AnswerOf(Exact(s, resident', "gpu"), k, F)
  BY DEF SearchExact
<1>4. s \in TopK(vectors, "gpu", Allowed(F), Min({Clamped(k), Cardinality(Allowed(F))}))
  BY <1>2, <1>3
<1> DEFINE found == Exact(s, vectors, "gpu")
<1>5. FoundRows(found) /\ Sound(found) /\ Enough(found, k, F) /\ BestFirst(found, F)
  BY <1>1, <1>4, ExactFindsEnough
<1>6. answer' = AnswerOf(found, k, F)
  BY <1>2, <1>3
<1> HIDE DEF found
<1>7. QED
  BY <1>1, <1>5, <1>6, AnswerIsComplete, CompleteIsAnswer

LEMMA InitIsTable == Init => Table!Init
<1> SUFFICES ASSUME Init PROVE Table!Init
  OBVIOUS
<1>1. rows = <<>> /\ answer = NoAnswer
  BY DEF Init
<1>2. QED
  BY <1>1 DEF Table!Init

LEMMA StepsAreOfTheTable == Inv /\ [Next]_vars => [Table!Next]_(Table!tableVars)
<1> SUFFICES ASSUME Inv, [Next]_vars PROVE [Table!Next]_(Table!tableVars)
  OBVIOUS
<1>1. CASE UNCHANGED vars
  BY <1>1 DEF vars, Table!tableVars
<1>2. ASSUME NEW batch \in Batches, AddMany(batch) PROVE Table!Next
  BY <1>2, AddIsAdd DEF Table!Next
<1>3. ASSUME NEW id \in Ids, Delete(id) PROVE Table!Next
  BY <1>3, DeleteIsDelete DEF Table!Next
<1>4. ASSUME NEW id \in Ids, NEW payload \in Payloads, NEW vec \in Vectors,
             Update(id, payload, vec)
      PROVE  Table!Next
  BY <1>4, UpdateIsUpdate DEF Table!Next
<1>5. CASE Reset
  <2>1. rows' = <<>> /\ answer' = NoAnswer
    BY <1>5 DEF Reset
  <2>2. Table!Reset
    BY <2>1 DEF Table!Reset
  <2>3. QED
    BY <2>2 DEF Table!Next
<1>6. CASE Finalize \/ Close
  <2>1. answer' = NoAnswer /\ UNCHANGED <<rows, vectors>>
    BY <1>6 DEF Finalize, Close
  <2>2. QED
    BY <2>1, NoAnswerIsForget DEF Table!Next
<1>7. ASSUME NEW k \in 0..MaxTopK, NEW F,
             SearchJasper(k, F) \/ SearchDevice(k, F) \/ SearchExact(k, F)
      PROVE  Table!Next
  <2>1. k \in Nat
    BY VectorIndexAssumption
  <2>2. QED
    BY <1>7, <2>1, JasperIsAnswer, ExactIsAnswer DEF Table!Next
<1>8. QED
  BY <1>1, <1>2, <1>3, <1>4, <1>5, <1>6, <1>7 DEF Next

(* The index keeps the promise of VectorTable: whatever was added, updated *)
(* and deleted, and whatever the graph returns, every answer has the hits  *)
(* it should, of rows there are and scored by their own vectors, each row  *)
(* once and scored unless the host took a beam as it came; and it has the  *)
(* best rows when every row had to be looked at.                           *)
THEOREM IndexKeepsTable == Spec => KeepsTable
<1>1. Spec => Table!Spec
  BY InitIsTable, StepsAreOfTheTable, Invariance, PTL DEF Spec, Table!Spec
<1>2. QED
  BY <1>1 DEF KeepsTable
=============================================================================
